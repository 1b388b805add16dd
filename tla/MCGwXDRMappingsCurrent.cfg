SPECIFICATION XdrSpec
CONSTANTS
  engine = engine
  tank = tank
  stranger = stranger
  Tables <- MCTables
  Transducer <- MCTransducer
  Instance = {0, 1}
  LastField = 0
  Reading = {1, 2}
  MaxHeard = 1
  unmappedXdr = TRUE
  MaxUnknown = 2
INVARIANT CurrentSent
