SPECIFICATION FairSpec
CONSTANT
  Schemas <- MCCircles
PROPERTY LoadingEnds
CHECK_DEADLOCK FALSE
