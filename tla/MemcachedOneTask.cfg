\* One task, values of one, two and three chunks, a server that drops items,
\* and calls that are cut off.
SPECIFICATION Spec
CONSTANTS
    s = s
    m = m
    l = l
    Task = {t1}
    Key = {a}
    Val = {s, m, l}
    Length <- AllLengths
    ChunkSize = 2
    NoVal = NoVal
    NoKey = NoKey
    Mixed = Mixed
    MayVanish = TRUE
    MayAbort = TRUE
SYMMETRY Symmetry
INVARIANTS
    TypeOK
    NeverMixed
