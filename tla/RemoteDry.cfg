\* Two tasks, two keys, pages of one key.
SPECIFICATION Spec
CONSTANTS
    Task = {t1, t2}
    Key = {1, 2}
    Number = {1, 2, 3, 4}
    NoKey = NoKey
    PageSize = 1
SYMMETRY Symmetry
INVARIANTS
    TypeOK
    OneDocumentPerWriter
    ReplacesWhatWasThere
PROPERTIES
    RemovesOnlyExpired
