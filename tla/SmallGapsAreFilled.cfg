SPECIFICATION Spec
CONSTANTS
  MagMaxReferences = 1
  maxMagRefDist = 2
  FirstScore = 1
  ScoreLimit = 2
  Starts <- Clocks
  Gaps <- Lost
  Counts <- OneOrMany
  Away = 1000
  Points = {0}
  SettleTime = 5
  MaxReports = 3
PROPERTIES SmallGapsAreFilled
CHECK_DEADLOCK FALSE
