SPECIFICATION DiscoverySpec
CONSTANTS
    Candidate = {1, 2, 3, 4, 5}
    Type = {"book", "paper"}
    Concurrency = 2
    MaxCost = 3
    Rounds = {}
    Record <- MCRecord
    Channel = {"exa", "arxiv"}
    LoopChannel = {"arxiv"}
    Hits <- MCHits
    Canonical <- MCTwoWorks
    Snowball <- MCSnowball
    Boosted = {1}
    TypeCap <- MCTypeCap
    BaseBudget = 3
    BudgetUsd = 5
    MinRounds = 1
    MaxRounds = 2
    FetchFloor = 60
    RelaxedFloor = 50
    RelaxMin = 2
    AcceptanceMinSample = 2
    Scores <- MCScores
    Answers = {"ok", "timeout"}
    LiveCost = {1}
INVARIANTS OneWaveOver LedgerTellsAll NoTwins MoneyLimitHolds
PROPERTY EveryStepProgresses
