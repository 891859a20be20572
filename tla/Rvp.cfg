SPECIFICATION Spec
CONSTANTS
  Query <- MCQuery
  Missing = Missing
  Size <- MCSize
  starts <- MCStarts
  Rnv <- MCRnv
  COMPLAINT = 1
  Unset = Unset
  LEN_B = 2
  PIPE = 3
  MaxQueries = 3
INVARIANTS
  BufferFits
  AnsweredInOrder
  NothingLeftOver
PROPERTY
  EveryQueryAnswered
CHECK_DEADLOCK FALSE
