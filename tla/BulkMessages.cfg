SPECIFICATION Spec
CONSTANTS
  Group = {g1, g2}
  Alias = {vip}
  SetName = {shops, friends}
  Editor = {cli}
  Caller = {chat}
  None = None
  MaxInputs = 2
  MaxSets = 2
SYMMETRY Alike
CONSTRAINT OneFollowed
INVARIANTS
  TypeOK
  ResolvesAsDefined
  Accounted
  OncePerGroup
PROPERTIES
  ChangeIsWhole
  SendsToItsMembers
