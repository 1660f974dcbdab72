SPECIFICATION Spec
CONSTANTS
    a = a
    b = b
    c = c
    base = base
    doc1 = doc1
    Mark = mark
    BaseIndex = base
    Word <- MCWord
    Document <- MCDocument
    Texts <- MCTexts
    Contents <- MCContents
INVARIANT ExactMatch
CHECK_DEADLOCK FALSE
