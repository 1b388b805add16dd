SPECIFICATION LogSpec
CONSTANTS
  LogTask = {"main", "web"}
  NoTask = NoTask
  LogSize = 8
  IniSize = 7
  TxSize = 4
  UsbSetups <- SentencesAndForms
INVARIANTS LineInOrder
