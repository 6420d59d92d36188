SPECIFICATION Spec
CONSTANTS
    m1 = m1  m2 = m2  m3 = m3  a = a  b = b  s1 = s1  s2 = s2
    r1 = r1  r2 = r2  r3 = r3  r4 = r4  p1 = p1  p2 = p2
    NoRid = NoRid  Unused = Unused  Deleted = Deleted
    Media = {m1, m2}
    Paths = {a}
    URLs = {}
    Owner <- OwnerIs
    Slots = {s1}
    Rids = {r1, r2}
    Procs = {p1, p2}
    Ops = {"Clone", "DeleteFile"}
    Crash = FALSE
    Repost = FALSE
    Watched = {}
    SeedFiles <- OneMedia
    SeedRes <- OneRow
INVARIANTS
    AttachedIsStored
CHECK_DEADLOCK FALSE
