SPECIFICATION Spec
CONSTANTS
  Code <- MCCode
  Class <- MCClass
  Patterns <- MCPatterns
  P_ERROR <- perror
  P_EMPTY <- empty
  P_NOT_ALLOWED <- notAllowed
  P_ANY <- any
  Parts <- Subterms
  Nullable <- nullable
  Kids <- Referred
  Asks <- SwitchAsks
  Made <- SwitchMakes
  after_char <- drv
  Chars <- MCChars
  White <- MCWhite
  Sessions <- MCSessions
  LIM_P = 8
  LIM_M = 3
  None = None
INVARIANTS
  MemoOfThisStore
  CacheOfThisStore
  AnswersAsDocumented
CHECK_DEADLOCK FALSE
