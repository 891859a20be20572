SPECIFICATION FairSpec
CONSTANT
  Schemas <- MCSchemas
INVARIANTS
  TypeOK
  RedirectionsEnd
  SameSchema
  StoreReady
  LoopsRefused
PROPERTY
  SweepEnds
CHECK_DEADLOCK FALSE
