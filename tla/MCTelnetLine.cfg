SPECIFICATION Spec
CONSTANTS
    Bytes <- AllBytes
    MaxLine = 2
    MaxHistory = 2
INVARIANTS TypeOK EchoUntilRecalled
PROPERTY ImplementsEditor
CHECK_DEADLOCK FALSE
