SPECIFICATION Spec

CONSTANTS
  Width = 2
  Measurements <- SomeMeasurements
  Timeout = 4
  MaxLate = 4

INVARIANTS
  TypeOK
  UndisturbedReadExact
  NoSlippedReading
  OneWrongBitCaught
PROPERTIES
  EveryReadEnds
