SPECIFICATION Spec
CONSTANTS
  Base = 8
  CmdAreaSize = 32
  DigestSize = 1
  PortDataAlignment = 4
  DefinitionStart = 64
  DefinitionAlignment = 32
  PortCountStart = 128
  PortCountAlignment = 4
  UserStart = 512
  UserAlignment = 16
  Nodes = {1, 2}
  DefinitionSize <- MCDefinitionSize
  ProvideSize <- MCProvideSize
  RequireSize <- MCRequireSize
  FragmentSize <- MCFragmentSize
  SendBuffer = 40
  Chunks = {17, 70}
  MaxWrites = 1
INVARIANTS TypeOK FilesDisjoint NeverRefused RemoteMapMirrors
PROPERTY WritesDelivered
CHECK_DEADLOCK FALSE
