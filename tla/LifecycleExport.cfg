\* Assertions that agree, disagree and contradict; one export dies.
CONSTANTS
    A = A
    B = B
    C = C
    Funds = {A, B, C}
    None = None
    Acts <- Disputed
    RegistryMonths <- AllMonths
    Months = 2
    MaxImports = 2
    MaxCrashes = 1
SPECIFICATION FairSpec
INVARIANTS
    EdgesBacked
    VerifiedReadModel
PROPERTIES
    SuccessorNeverFlips
    ConflictNeverResolved
    ExportCatchesUp
