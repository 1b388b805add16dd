CONSTANTS
  a = a
  b = b
  c = c
  Gateway = {a, b, c}
  Port <- Ports
  Configs <- LoneOrChain
  SendN2k = {TRUE}
  Sentence = {"RMC"}
  Data = {1}
  Peer <- Connections
  Capacity = 1
  Msg = {m1, m2}
  NoMsg = NoMsg
  WebTask = web
  Waiters = {user}
  Forgetters = {button}
  QueueLength = 1
  ResultLength = 2
  char = char
  nl = nl
  Byte <- MCByte
  Delimiter = nl
  bufferSize = 4
  messageSize = 3
  Chunk <- MCChunk
SPECIFICATION LoopSpec
INVARIANTS NoEcho OncePerForm NeverReturns RefcountExact NoUseAfterFree ResultComplete
PROPERTIES DiesOut NoLeak LateAnswerSent FifoSpec WritesQueued
