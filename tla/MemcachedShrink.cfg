\* One task: a value in chunks is replaced by one that needs none.
SPECIFICATION Spec
CONSTANTS
    s = s
    m = m
    l = l
    Task = {t1}
    Key = {a}
    Val = {s, m}
    Length <- ShortAndLong
    ChunkSize = 2
    NoVal = NoVal
    NoKey = NoKey
    Mixed = Mixed
    MayVanish = FALSE
    MayAbort = FALSE
SYMMETRY Symmetry
INVARIANTS
    AnswersLastSet
