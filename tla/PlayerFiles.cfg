\* Two accounts, with kills and failing writes, over two ends of the process.
SPECIFICATION Spec
CONSTANTS
    Accounts = {a, b}
    Torn = Torn
    None = None
    MaxVersion = 3
    MaxEnds = 2
INVARIANTS
    TypeOK
    SavedIsLoadable
    FilesCurrent
    OneFileAnEnd
PROPERTY OutForGood
CHECK_DEADLOCK FALSE
