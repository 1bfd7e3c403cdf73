SPECIFICATION Spec
CONSTANTS
  a = a
  b = b
  Path = {a, b}
  MaxLoad = 1
  MaxCount = 1
  MaxConn = 3
PROPERTY CurrentLoadCompletes
CHECK_DEADLOCK FALSE
