SPECIFICATION Spec
CONSTANTS
    home = home
    page1 = page1
    moved = moved
    image = image
    t1 = t1
    t2 = t2
    dNone = dNone
    dHome = dHome
    dPage = dPage
    dPageNew = dPageNew
    dImage = dImage
    hHome = hHome
    hPage = hPage
    hMoved = hMoved
    hImage = hImage
    hOutside = hOutside
    Url <- MCUrl
    Thread <- MCThread
    Seed = home
    Location <- MCLocation
    Data <- MCData
    NoData = dNone
    TextData <- MCTextData
    Href <- MCHref
    Target <- MCTarget
    Followable <- MCFollowable
    HrefsIn <- MCHrefsIn
    Bodies <- MCBodies
    MaxGen = 1
    MaxFaults = 1
    AskedCap = 5
INVARIANTS TypeOK InflightJustified CrawlComplete StoredIsIndexed BoundedDuplicates
PROPERTIES StoredBeforeNext
SYMMETRY MCSymmetry
CHECK_DEADLOCK FALSE
