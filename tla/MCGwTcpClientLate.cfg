SPECIFICATION TcpFairSpec
CONSTANTS
  Socket = {s1, s2}
  NoClient = NoClient
  LateFailures = {TRUE}
PROPERTIES Reconnects
