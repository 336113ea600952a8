SPECIFICATION Spec
CONSTANTS
  o = o
  i = i
  u = u
  fresh = fresh
  joined = joined
  p1 = p1
  p2 = p2
  None = None
  Owner = o
  Members = {i, u}
  Inviter <- MCInviter
  Terminals = {p1, p2}
  Boards = {fresh, joined}
  New = {fresh}
  Invited <- MCInvited
  Published <- MCPublished
  InitialConfiguration <- MCConfiguration
  BanLimits = {1, 2}
  Sizes = {1, 2}
  Nicknames = {2, 3}
  DefaultNickname = 1
  MaxCommands = 3
  MaxOthers = 1
SYMMETRY MCSymmetry
INVARIANTS TypeOK CredentialsKept
PROPERTIES MessageArrives RepublishRestores ConfigurationsInOrder
CHECK_DEADLOCK FALSE
