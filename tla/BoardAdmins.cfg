SPECIFICATION Spec
CONSTANTS
  o = o
  a = a
  b = b
  n1 = n1
  n2 = n2
  None = None
  Owner = o
  Members = {a, b}
  Inviter <- Flat
  Nodes = {n1, n2}
  Devices <- FlatDevices
  InitialConfiguration <- Roomy
  Privacies = {FALSE}
  BanLimits = {}
  MaxConfigurationVersion = 1
  Sizes = {1}
  Titles = {1}
  Nicknames = {1}
  BanIds = {1, 2}
  MessageIds = {1, 2}
  MaxInfoVersion = 0
  Upgrades = {}
  MaxInflight = 1
INVARIANTS MergesCommute ReplicasMergeable ParticipantsCanPost
CHECK_DEADLOCK FALSE
