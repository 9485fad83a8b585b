\* Four months, one or two versions of each, one export that dies; holdings is
\* asked for five identifiers while only two of the months have files.
CONSTANTS
    isinA = isinA
    isinB = isinB
    isinC = isinC
    lei1 = lei1
    lei2 = lei2
    Period <- Months
    Versions <- VersionsOf
    Zip <- ZipOf
    AsOf <- AsOfMonths
    Identifiers <- Asked
    Evidence <- EvidenceOf
    MaxDeaths = 1
    Beside <- ReaderMonths
    ValidIsins = {isinA, isinB, isinC}
    NoPeriod = NoPeriod
    NoValue = NoValue
    NoIssuer = NoIssuer
    NoVersion = NoVersion
    Torn = Torn
    Missing = Missing
    Euro = Euro
SPECIFICATION Spec
INVARIANTS
    DiffConserves
    UnchangedComposes
    EventsAccumulate
    ExposureTiles
    ReconciliationCoheres
    AnswerOfOneVersion
