SPECIFICATION FairSpec
CONSTANTS
  Conn = {c1, c2}
  Sizes <- SmallSizes
  MaxInbox = 1
  NoConn = NoConn
  Other = Other
INVARIANTS NoEcho SlotIsolation NoLeakedSocket
PROPERTIES SlotFreed
