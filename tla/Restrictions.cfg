SPECIFICATION Spec
CONSTANT
  Schemas <- MCSchemas
INVARIANTS
  RefusedForCause
  ForbiddenRefused
CHECK_DEADLOCK FALSE
