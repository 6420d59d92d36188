SPECIFICATION Spec
CONSTANTS
    k1 = k1  k2 = k2  s1 = s1  s2 = s2  f1 = f1  f2 = f2  f3 = f3  p1 = p1  p2 = p2
    NoId = NoId
    Ids = {s1, f1, f2, f3}
    Keys = {k1}
    Procs = {p1, p2}
    Ops = {"BulkPatch"}
    PedanticChoices = {FALSE}
    Retarget = FALSE
    SeedRows = {s1}
    SeedKey <- SeedOf
    MaxMark = 3
SYMMETRY Symmetry
INVARIANTS
    LatestMarkCorrect
