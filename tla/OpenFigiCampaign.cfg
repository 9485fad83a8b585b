\* Three ISINs, two there from the start; with and without a key; two days.
CONSTANTS
    Isins = {1, 2, 3}
    Initial = {2, 3}
    Says <- SaysOf
    Sizes = {1, 2}
    MaxDays = 2
    MaxFailures = 1
    MaxAborts = 1
    None = None
SPECIFICATION FairSpec
INVARIANTS
    EvidenceFaithful
    CompleteMeansAnswered
PROPERTIES
    CampaignCompletes
