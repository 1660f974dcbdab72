SPECIFICATION Spec
CONSTANTS
    home = home
    page1 = page1
    moved = moved
    image = image
    t1 = t1
    t2 = t2
    dNone = dNone
    dHome = dHome
    dPage = dPage
    dPageNew = dPageNew
    dImage = dImage
    hHome = hHome
    hPage = hPage
    hMoved = hMoved
    hImage = hImage
    hOutside = hOutside
    Url <- RSUrl
    Thread <- MCThread
    Seed = home
    Location <- RSLocation
    Data <- RSData
    NoData = dNone
    TextData <- RSTextData
    Href <- RSHref
    Target <- RSTarget
    Followable <- RSHref
    HrefsIn <- RSHrefsIn
    Bodies <- RSBodies
    MaxGen = 2
    MaxFaults = 0
    AskedCap = 5
INVARIANT CachedProcessedAgain
SYMMETRY MCSymmetry
CHECK_DEADLOCK FALSE
