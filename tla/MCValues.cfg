SPECIFICATION ValuesSpec
CONSTANTS
  Source = {0, 1, 4}
  Speed = {1, 2}
  NA = NA
  Timeout = 2
  MinInterval = 2
  Period = 8
  MaxTime = 5
  N = 2
  Setups <- MCSetups
  capacity = 7
  MinFree = 1
  TimeAxes = {2, 4}
  Intervals = {1, 2}
  MaxSamples = 12
  engine = engine
  tank = tank
  cabin = cabin
  Tables <- MCTables
  Transducer <- MCTransducer
  Instance = {0, 1}
  LastField = 1
  Reading = {1}
  MaxHeard = 2
  unmappedXdr = FALSE
  MaxUnknown = 1
INVARIANTS ValuesTypeOK NotSilent KeysAreRespected InstancesKept
PROPERTIES Priority MaxIsPeak NotEarly ComesBack ChartKeepsUp
