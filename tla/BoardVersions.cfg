SPECIFICATION FairSpec
CONSTANTS
  o = o
  a = a
  b = b
  n1 = n1
  n2 = n2
  None = None
  Owner = o
  Members = {a}
  Inviter <- Single
  Nodes = {n1, n2}
  Devices <- SingleDevices
  InitialConfiguration <- Roomy
  Privacies = {FALSE}
  BanLimits = {2}
  MaxConfigurationVersion = 2
  Sizes = {1}
  Titles = {1}
  Nicknames = {1}
  BanIds = {}
  MessageIds = {1}
  MaxInfoVersion = 1
  Upgrades = {1}
  MaxInflight = 1
PROPERTIES NothingRollsBack EventualAgreement
CHECK_DEADLOCK FALSE
