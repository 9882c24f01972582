SPECIFICATION Spec
CONSTANTS
  indeed = indeed
  one = one
  other = other
  first = first
  second = second
  NoOne = NoOne
  Nothing = Nothing
  Stream = {one, other}
  Plain = {other}
  Site = {indeed}
  Key = {first, second}
  Cursor = {0, 1}
  Fresh = 0
  MaxRevision = 2
  MaxGeneration = 2
INVARIANTS
  Loadable
  IdentityMeansContent
  AcknowledgedIsStored
PROPERTIES
  FencedStaysFenced
  ImplementsHistory
