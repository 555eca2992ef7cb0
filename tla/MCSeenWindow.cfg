SPECIFICATION Spec
CONSTANTS
  WINDOW = 3
  Start = 1
  Numbers <- MCNumbers
INVARIANTS
  TypeOK
  TakenOnce
  OnlyTheLateAreLost
  BoundedWindow
  AcceptIsTheLoop
