SPECIFICATION FairSpec
CONSTANTS
    m = m  c = c  multi = multi  s = s  t = t  e = e  a = a  b = b  x = x  y = y  p1 = p1
    Media = {multi, s, t, e}
    Original <- OriginalIs
    Multis = {multi}
    Members <- MembersAre
    Objects = {x, y}
    ObjectsOf <- OneObject
    Bare = {}
    Uncloned = {}
    Procs = {p1}
    Deletable = FALSE
    MaxFaults = 1
PROPERTIES
    ArchiveIsCarriedOut
    RestoreIsCarriedOut
    MultisWaitForMembers
CHECK_DEADLOCK FALSE
