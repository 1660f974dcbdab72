SPECIFICATION Spec
CONSTANTS
    d1 = d1
    d2 = d2
    d3 = d3
    Document <- MCDocument
    MaxConnections = 4
    MaxFailures = 2
INVARIANTS TypeOK BytesAddUp ClosedIsComplete
PROPERTIES AllTried ClosedWhenBusy
CHECK_DEADLOCK FALSE
