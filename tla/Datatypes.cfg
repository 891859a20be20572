SPECIFICATION Spec
CONSTANTS
  NPAT = 2
  Invalid = Invalid
  None = None
  Asked <- MCAsked
  Parameters <- MCParameters
  Values <- MCValues
  Texts <- MCTexts
INVARIANTS
  TypeOK
  AllowsAsSpecified
  EqualAsSpecified
CHECK_DEADLOCK FALSE
