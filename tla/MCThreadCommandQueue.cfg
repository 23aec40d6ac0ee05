SPECIFICATION Spec
CONSTANTS
  p1 = p1
  p2 = p2
  p3 = p3
  NoCommand = NoCommand
  Producers <- ThreeProducers
  Kinds <- TwoSizes
  Size = 112
  ExitSize = 32
  ReadSize = 1
  PipeLimit = 2
INVARIANTS TypeOK CommandsApart RoomIsPassedOn NoSleepOnCommands NothingLeftBehind
PROPERTIES RunsCallsInOrder RunsAllCalls
CHECK_DEADLOCK FALSE
