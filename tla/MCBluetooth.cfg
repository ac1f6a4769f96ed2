\* Three attempts: the first, one in between and the last.
CONSTANTS
  MaxAttempts = 3
  Fd = {3, 4, 5}
  NoOne = NoOne
SPECIFICATION Spec
INVARIANTS
  TypeOK
  ResultIsState
  SocketsBalanced
