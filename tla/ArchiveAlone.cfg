SPECIFICATION Spec
CONSTANTS
    m = m  c = c  multi = multi  s = s  t = t  e = e  a = a  b = b  x = x  y = y  p1 = p1
    Media = {m, c, s, e}
    Original <- OriginalIs
    Multis = {}
    Members <- MembersAre
    Objects = {a, b, x}
    ObjectsOf <- TwoObjects
    Bare = {e}
    Uncloned = {c}
    Procs = {p1}
    Deletable = TRUE
    MaxFaults = 1
INVARIANTS
    TypeOK
    StateMatchesObjects
    ClonesFollow
CHECK_DEADLOCK FALSE
