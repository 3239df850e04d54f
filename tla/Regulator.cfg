SPECIFICATION FairSpec
CONSTANTS
  NumZones = 2
  Slots = 3
  NumDevices = 2
  TxCap = 1
  Answers <- MCAnswers

INVARIANTS AnswerInstalled AddressesAreListed
PROPERTIES QuietScanIsExact TableAndScanGoOn
