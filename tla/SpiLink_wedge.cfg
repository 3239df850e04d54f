SPECIFICATION FairSpec
CONSTANTS
  Device = {d1}
  NoDevice = none
  Code <- OnOffOn
  TxCap = 1
  RxCap = 1
  MaxCommands = 2
  MaxPackets = 2
PROPERTY GatewayKeepsServing
