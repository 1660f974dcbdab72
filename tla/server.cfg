SPECIFICATION Spec
CONSTANTS
    a = a
    b = b
    name1 = name1
    u1 = u1
    u2 = u2
    Mark = mark
    BaseIndex = base
    Word <- MCWord
    Name <- MCName
    Upload <- MCUpload
    Contents <- MCContents
    Texts <- MCTexts
    MaxClock = 3
    MaxFaults = 1
INVARIANTS TypeOK IndexAgrees IndexedWasStored NotModifiedHonest SearchRight
PROPERTIES StoredAppears
CHECK_DEADLOCK FALSE
