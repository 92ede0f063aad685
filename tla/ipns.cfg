\* Three routers, one get or one put.
SPECIFICATION FairSpec
CONSTANTS
  Routers = {a, b, c}
INVARIANTS TypeOK VerdictJustified PutCovers
PROPERTY WorkersExit
CHECK_DEADLOCK FALSE
