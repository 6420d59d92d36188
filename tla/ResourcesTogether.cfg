SPECIFICATION Spec
CONSTANTS
    m1 = m1  m2 = m2  m3 = m3  a = a  b = b  s1 = s1  s2 = s2
    r1 = r1  r2 = r2  r3 = r3  r4 = r4  p1 = p1  p2 = p2
    NoRid = NoRid  Unused = Unused  Deleted = Deleted
    Media = {m1, m2}
    Paths = {a, b}
    URLs = {b}
    Owner <- OwnerIs
    Slots = {s1, s2}
    Rids = {r1, r2}
    Procs = {p1, p2}
    Ops <- AllOps
    Crash = TRUE
    Repost = FALSE
    Watched = {a}
    SeedFiles <- OneMedia
    SeedRes <- OneRow
INVARIANTS
    EntryIsStored
    CountsAreRight
    NothingLeaks
SYMMETRY Alike
CHECK_DEADLOCK FALSE
