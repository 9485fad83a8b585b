\* Two ISINs, four issuers, two dates, a command that dies.
CONSTANTS
    i1 = i1
    i2 = i2
    l1 = l1
    l2 = l2
    l3 = l3
    l4 = l4
    Isins = {i1, i2}
    Initial = {i1}
    Dates = {1, 2}
    About <- AboutFiles
    Given <- GivenFiles
    MaxCrashes = 1
    None = None
SPECIFICATION Spec
INVARIANTS
    ManifestCurrent
    ClosureComplete
    ContextOfSnapshot
PROPERTIES
    ImplementsSnapshots
