SPECIFICATION Spec
CONSTANTS
  MaxNumFiles = 3
  DefinitionStart = 32
  UserDataStart = 64
  UserDataEnd = 120
  PortBoundary = 4
  LargeBoundary = 16
  Devices = {"a", "b"}
  LocalFiles <- MCLocalFiles
  RequestedFiles <- MCRequestedFiles
  DirectFiles = {"bout"}
  Updates <- MCUpdates
  MaxRequests = 2
  QueueSize = 2
  ReceiveBuffer = 9
  MinBuffer = 6
  Threshold = 6
  LowAddressMax = 15
  LowAddressSize = 1
  HighAddressSize = 2
  InfoSize = 4
  OpenSize = 2
  LinkSize = 9
  LinkHeader = 1
  MaxMsgLen = 8
  MaxEvents = 2
INVARIANTS NoFileForgotten FragmentsContinue
PROPERTY SyncedInTheEnd
CHECK_DEADLOCK FALSE
