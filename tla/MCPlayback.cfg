SPECIFICATION Spec
CONSTANTS
  Companies = {"ADS", "NOA3", "VOW"}
  BubbleCompanies = {"ADS", "NOA3"}
  RecordCounts = {1, 2, 3}
  TradeCounts = {0, 1, 2, 5}
  UPDATE_CYCLE_CNT = 12
  SHOW_CNT = 2
  PERIOD = 4
  INT_MAX = 54
INVARIANTS
  TypeOK RecordsInBounds BaselineIsSpread HeatmapsTogether
  PeriodsEndWithFrames BubblesShowOneMoment
PROPERTIES EyesAgree NoRecordSkipped PlaybackEnds
CHECK_DEADLOCK FALSE
