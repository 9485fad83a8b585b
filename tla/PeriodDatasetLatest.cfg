\* Corrections against a crash between store.put and the export.
CONSTANTS
    full = full
    nocart = nocart
    reg = reg
    bad = bad
    corrupt = corrupt
    Periods <- OnePeriod
    Artifacts = {full, nocart}
    Members <- MembersOf
    Rows <- MembersOf
    Storable <- Sound
    Parseable <- Readables
    Legacy = {}
    None = None
    Torn = Torn
    MaxCrashes = 1
    MaxLosses = 0
    TornFiles = FALSE
SPECIFICATION Spec
INVARIANT CanonicalIsLatest
