SPECIFICATION ServicesSpec
CONSTANTS
  Client = {c1, c2}
  name = name
  pass = pass
  none = none
  v1 = v1
  v2 = v2
  longName = longName
  longValue = longValue
  Key = {name, pass}
  Value = {none, v1, v2}
  AdminPassword = pass
  Empty = none
  Default <- MCDefault
  Forms <- MCForms
  EndOf <- MCEndOf
  Files = {f1, f2}
  Chunks = 2
  Setters = {"a", "b"}
  Updaters = {"u", "w"}
  Readers = {"r"}
  Builds <- MCBuilds
  Object = {o1, o2, o3}
  Fields = 2
  MaxVersion = 1
  MaxUpdates = 2
  Nobody = Nobody
  NoObject = NoObject
  Address = {"a", "b"}
  UdpTypes <- MCUdpTypes
  Descriptor = {1, 2, 3}
  RETRY = 1
  MaxFaults = 1
  Period = 8
  Interval = 3
  TimeoutOffline = 2
  MaxFailures = 2
  Socket = {s1, s2}
  NoClient = NoClient
  LateFailures = {TRUE, FALSE}
  LogTask = {"main", "web"}
  NoTask = NoTask
  LogSize = 7
  IniSize = 6
  TxSize = 4
  UsbSetups <- MCUsbSetups
INVARIANTS ServicesTypeOK OkIsStored UploadsApart OkIsSelected TornOnlyByUpdate NoLostUpdate DescriptorsOwned AnswerIsAwaited LogInOrder CheckedInTime
PROPERTIES ChangesNoticed ClientComesBack SocketsFollow BusRecovers Paced ReconnectsUnlessLate
