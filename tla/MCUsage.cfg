SPECIFICATION Spec
CONSTANTS
  Types <- MCTypes
  PortMap <- MCPortMap
  Short = 20
  Wide = 100
  LongMax = 300
  Default <- MCDefault
  UsageTimeout = 5
  Commands <- MCCommands
  Specs <- MCSpecs
  MaxRecords = 1
INVARIANT UsageAsPrinted
