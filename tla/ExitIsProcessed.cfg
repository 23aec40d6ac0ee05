SPECIFICATION Spec
CONSTANTS
  p1 = p1
  p2 = p2
  p3 = p3
  NoCommand = NoCommand
  Producers <- ThreeProducers
  Kinds <- OneSize
  Size = 112
  ExitSize = 32
  ReadSize = 2
  PipeLimit = 2
PROPERTIES ExitIsProcessed
CHECK_DEADLOCK FALSE
