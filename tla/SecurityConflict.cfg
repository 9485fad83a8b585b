\* No crash and no republished file: only the corpus grows.
CONSTANTS
    i1 = i1
    i2 = i2
    lei1 = lei1
    lei2 = lei2
    Isins = {i1, i2}
    Initial = {i1}
    Leis = {lei1, lei2}
    MaxDate = 2
    File <- Files
    MaxFiles = 2
    MaxCrashes = 0
    None = None
    Torn = Torn
SPECIFICATION Spec
INVARIANTS
    NoWinnerInConflict
\* No command is due when no file or campaign is left; one that only answers is no step.
CHECK_DEADLOCK FALSE
