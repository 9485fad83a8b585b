\* Two processes put at once, with no lock between them.
CONSTANTS
    w1 = w1
    w2 = w2
    Writers = {w1, w2}
    k1 = k1
    k2 = k2
    k3 = k3
    Keys <- ThreeKeys
    KeysOf <- Shared
    Payloads = {a, b}
    SuffixOf <- Suffixes
    None = None
    MaxEntries = 4
SPECIFICATION Spec
INVARIANTS
    LedgerBacked
    AnswerRegistered
    SupersedesEarlier
    VersionChain
PROPERTY ImplementsVersionHistory
