SPECIFICATION Spec
CONSTANTS
  r1 = r1
  r2 = r2
  r3 = r3
  r4 = r4
  r5 = r5
  system = system
  NoKey = NoKey
  Malformed = Malformed
  NoLine = NoLine
  Requests <- MCRequests
  Keys = {system}
  KeyOf <- MCKeyOf
  Home <- MCHome
  Leaving <- MCLeaving
  Backends = 2
SYMMETRY InTurn
INVARIANT OneLineOneAnswer
PROPERTY TakesTurns
CHECK_DEADLOCK FALSE
