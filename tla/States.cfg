SPECIFICATION Spec
CONSTANTS
    e1 = e1  e2 = e2  l1 = l1  l2 = l2  l3 = l3  p1 = p1  p2 = p2  Idle = Idle
    Elements = {e1, e2}
    WithChildren = {e1, e2}
    Locs = {l1, l2, l3}
    FrameOf <- FrameIs
    Requests = {p1}
    MaxRows = 3
    MaxEdits = 2
SYMMETRY Symmetry
INVARIANTS
    TypeOK
    
    ChildrenGo
    SegmentsCover
CHECK_DEADLOCK FALSE
