SPECIFICATION Spec
CONSTANTS
    d1 = d1
    d2 = d2
    d3 = d3
    Document <- MCDocument
    MaxConnections = 4
    MaxFailures = 0
PROPERTY AlwaysTold
CHECK_DEADLOCK FALSE
