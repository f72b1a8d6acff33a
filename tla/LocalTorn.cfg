\* A get while another task writes the same key.
SPECIFICATION Spec
CONSTANTS
    v = v
    w = w
    Task = {t1, t2}
    Key = {a, b}
    Val = {v, w}
    Size <- TwoSizes
    MaxSize = 3
    TTL = {0}
    NoVal = NoVal
    NoKey = NoKey
    NoFile = NoFile
    Blank = Blank
    Torn = Torn
    MaxTime = 1
    MayCrash = FALSE
SYMMETRY Symmetry
INVARIANTS
    GetAnswers
