\* The source ends the stream and the consumer closes it.
SPECIFICATION Spec
CONSTANTS
  Routers = {a, b}
  MaxItems = 1
INVARIANT CloseClosesAll
CHECK_DEADLOCK FALSE
