\* Two tasks and three calls, on each of the four stores.
SPECIFICATION Spec
CONSTANTS
    Task = {t1, t2}
    MaxCalls = 3
    MaxConn = 3
SYMMETRY Symmetry
INVARIANTS
    TypeOK
    CountsWhatReturned
    TransactionsAreClosed
    ConnectionsBounded
