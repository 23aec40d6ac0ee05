SPECIFICATION Spec
CONSTANTS
  MagMaxReferences = 2
  maxMagRefDist = 2
  FirstScore = 1
  ScoreLimit = 2
  Starts <- Clocks
  Gaps <- Lost
  Counts <- OneOrMany
  Away = 1000
  Points = {0, 2, 3, 5}
  SettleTime = 5
  MaxReports = 3
INVARIANTS TypeOK TimeNotInvented TimeKeptWithoutLoss ReferencesFit
CHECK_DEADLOCK FALSE
