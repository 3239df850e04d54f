SPECIFICATION FairSpec
CONSTANTS
  Device = {d1}
  NoDevice = none
  Code <- OnOffOn
  TxCap = 2
  RxCap = 1
  MaxCommands = 3
  MaxPackets = 2
INVARIANTS CommandsInStep ReadingsInOrder
PROPERTIES ChannelSpec WedgeIsPermanent GatewayStopsOnlyWedged RegulatorNotHeldUp
