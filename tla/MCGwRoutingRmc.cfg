CONSTANTS
  a = a
  b = b
  c = c
  Gateway = {a, b, c}
  Port <- Ports
  Configs <- Lone
  SendN2k = {TRUE}
  Sentence = {"RMC"}
  Data = {1}
  Peer <- Connections
  Capacity = 1
SPECIFICATION Spec
INVARIANTS OwnRmcToAll
