\* Two weeks, four disappearances of three funds, one failure, one kill.
CONSTANTS
    X = X
    Y = Y
    Z = Z
    V = V
    W = W
    Weeks = 2
    Candidates = 4
    Entities = {X, Y, Z}
    KeyOf <- KeyOfFour
    Sealed = {2}
    Lines <- LinesOf
    Page <- PageOf
    Acts <- ActsOf
    Corrected <- CorrectedNotices
    MaxFailures = 1
    MaxCrashes = 1
    Torn = Torn
    None = None
SPECIFICATION FairSpec
INVARIANTS
    ActsOnce
    NoticesOnce
    IndexesBacked
PROPERTIES
    CrawlSettles
