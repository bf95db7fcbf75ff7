SPECIFICATION Spec
CONSTANTS
  Types <- MCTypes
  PortMap <- MCPortMap
  Short = 20
  Wide = 100
  LongMax = 300
  Default <- MCDefault
  UsageTimeout = 5
  Commands <- MCCommands
  Specs <- MCSpecs
  MaxRecords = 3
INVARIANTS
  TypeOK
  RecordsGetWhatTheySay
  OneVariablePerAddress
  ListsMatchTheRecords
  SettingsAsAsked
