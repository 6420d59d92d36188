SPECIFICATION FairSpec
CONSTANTS
    m = m  c = c  multi = multi  s = s  t = t  e = e  a = a  b = b  x = x  y = y  p1 = p1
    Media = {m}
    Original <- OriginalIs
    Multis = {}
    Members <- MembersAre
    Objects = {a}
    ObjectsOf <- OneObject
    Bare = {}
    Uncloned = {}
    Procs = {p1}
    Deletable = FALSE
    MaxFaults = 0
PROPERTIES
    RestoreIsFinalized
CHECK_DEADLOCK FALSE
