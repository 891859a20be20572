SPECIFICATION FairSpec
CONSTANTS
  Key <- MCKey
  Value <- MCValue
  Sub <- MCSub
  Combine <- MCCombine
  Deriv <- MCDeriv
  Rank <- MCRank
  LEN_M = 1
  LIM_M = 2
  NoKey = NoKey
  Pending = Pending
  NoAnswer = NoAnswer
INVARIANTS
  TypeOK
  ScratchRowInside
  MemoSound
  OneRowPerKey
  NothingComputedTwice
PROPERTY
  Refines
