\* Two ISINs, two dates, one republished file, one command that dies, anywhere.
CONSTANTS
    i1 = i1
    i2 = i2
    lei1 = lei1
    lei2 = lei2
    Isins = {i1, i2}
    Initial = {i1}
    Leis = {lei1, lei2}
    MaxDate = 2
    File <- Files
    MaxFiles = 3
    MaxCrashes = 1
    None = None
    Torn = Torn
SPECIFICATION FairSpec
INVARIANTS
    PinnedInput
    PublishedWhole
PROPERTIES
    ImplementsSnapshots
    NeverRewritten
    CatchesUp
\* No command is due when no file or campaign is left; one that only answers is no step.
CHECK_DEADLOCK FALSE
