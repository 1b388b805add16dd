SPECIFICATION FairSpec
CONSTANTS
  Conn = {c1}
  Sizes <- OneSlot
  MaxInbox = 1
  NoConn = NoConn
  Other = Other
PROPERTIES BlockedClientClosed
