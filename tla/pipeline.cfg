SPECIFICATION Spec
CONSTANTS
    doc1 = doc1
    doc2 = doc2
    h1 = h1
    h2 = h2
    Document <- MCDocument
    Handler <- MCHandler
    Last = 3
    MaxCopies = 8
    MaxFaults = 2
INVARIANTS TypeOK NeverLost BoundedCopies
PROPERTIES DeliversAll Drains
CHECK_DEADLOCK FALSE
