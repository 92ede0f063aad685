\* Three routers, of which some may fail, with up to two results each.
SPECIFICATION FairSpec
CONSTANTS
  Routers = {a, b, c}
  MaxItems = 2
INVARIANTS TypeOK NoUseAfterClose
PROPERTIES MergedStreamSpec CloseReturns WorkersExit
CHECK_DEADLOCK FALSE
