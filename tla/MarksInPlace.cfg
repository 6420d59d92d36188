SPECIFICATION Spec
CONSTANTS
    k1 = k1  k2 = k2  s1 = s1  s2 = s2  f1 = f1  f2 = f2  f3 = f3  p1 = p1  p2 = p2
    NoId = NoId
    Ids = {f1, f2, f3}
    Keys = {k1}
    Procs = {p1, p2}
    Ops <- NoPrune
    PedanticChoices = {TRUE, FALSE}
    Retarget = FALSE
    SeedRows = {}
    SeedKey <- SeedOf
    MaxMark = 2
SYMMETRY Symmetry
INVARIANTS
    ElementVisible
    EndOfBranchResolves
