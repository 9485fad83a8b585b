\* The registered rules against a mere proposal.
CONSTANTS
    A = A
    B = B
    C = C
    Funds = {A, B, C}
    None = None
    Acts <- Proposal
    RegistryMonths <- AllMonths
    Months = 2
    MaxImports = 2
    MaxCrashes = 0
SPECIFICATION Spec
INVARIANT OutcomeAsRegistered
