\* Two periods of a backfill, with a version that does not parse, one that does
\* not decompress and a crash between two steps.
CONSTANTS
    full = full
    nocart = nocart
    reg = reg
    bad = bad
    corrupt = corrupt
    Periods <- TwoPeriods
    Artifacts = {reg, bad, corrupt}
    Members <- MembersOf
    Rows <- MembersOf
    Storable <- Sound
    Parseable <- Readables
    Legacy = {reg}
    None = None
    Torn = Torn
    MaxCrashes = 1
    MaxLosses = 0
    TornFiles = FALSE
SPECIFICATION FairSpec
PROPERTIES
    BackfillResumes
    
