SPECIFICATION FairSpec
CONSTANTS
  indeed = indeed
  NoOne = NoOne
  Watched = "afterClose"
  Site = {indeed}
  MaxRetries = 1
INVARIANTS
  ClosedOnce
  NothingLeft
  NoCloseUnderOperation
  OperationsInterrupted
  ErrorsVisible
  QuiescentAfterClose
PROPERTIES
  NoStartAfterStop
  CloseLeadsToInactive
