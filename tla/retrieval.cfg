CONSTANTS
  Chunk <- MCChunk
  Asked = "why"
  Plans <- MCPlans
  Found <- MCFound
  Scores = {3, 20, 80}
  Routes <- MCRoutes
  MaxSubqueries = 2
  TopK = 2
  ExtraK = 1
  MaxContext = 3
  RerankCandidates = 4
  Floor = 4
  WeakTop = 25
  MinPassages = 2
  MinStrong = 2
  Anchors = 1
  Before = 1
  After = 2
  ThinTop = 20
  StrongTop = 45
  StrongMin = 3
SPECIFICATION MCSpec
INVARIANTS AccountAddsUp PassagesHold
CHECK_DEADLOCK FALSE
