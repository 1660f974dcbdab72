SPECIFICATION Spec
CONSTANTS
    a = a
    b = b
    Word <- MCWord
    Step = 2
    DocCount = 7
    Readable <- MCReadable
    TextOf <- MCTextOf
    MaxPending = 2
INVARIANTS TypeOK LoadedWhenSaved CountsDocuments Throttled
PROPERTIES Ends
CHECK_DEADLOCK FALSE
