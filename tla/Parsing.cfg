SPECIFICATION Spec
CONSTANT
  Uninit <- MCUninit
  Cases <- MCCases
  Probes <- MCProbes
  Fragile <- MCFragile
  Strays <- MCStrays
  MaxParses = 2
  Depth = 2
  Letters <- MCLetters
  Chr <- MCChr
  Chars <- MCChars
  Codes <- MCCodes
  BOM = BOM
  Bad = Bad
INVARIANTS
  ScopesUnwound
  ReadAsWritten
  MeansWhatItSays
  FaultsReported
  BrokenTextReported
CHECK_DEADLOCK FALSE
