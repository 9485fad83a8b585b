\* One period, two readable versions, one that does not parse and one that does
\* not decompress, a crash that may leave a half-written file, one raw file removed.
CONSTANTS
    full = full
    nocart = nocart
    reg = reg
    bad = bad
    corrupt = corrupt
    Periods <- OnePeriod
    Artifacts = {full, nocart, bad, corrupt}
    Members <- MembersOf
    Rows <- MembersOf
    Storable <- Sound
    Parseable <- Readables
    Legacy = {full}
    None = None
    Torn = Torn
    MaxCrashes = 1
    MaxLosses = 1
    TornFiles = TRUE
SPECIFICATION Spec
INVARIANTS
    RowsTraceable
    FreshExport
    VerifiedDataset
PROPERTIES
    ManifestLast
    WritesLatest
    
