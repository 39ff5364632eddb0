SPECIFICATION FrontSpec
CONSTANTS
  c1 = c1
  c2 = c2
  nokey = nokey
  r1 = r1
  r2 = r2
  r3 = r3
  None = None
  Convs <- MCConvs
  Turns <- MCTurns
  Patient <- MCPatient
  NoConv = nokey
  TTL = 1
  Abort = 2
  Reqs = {r1, r2, r3}
  Prefills = 1
  Decodes = 2
INVARIANTS SingleUse PreviousTurn AnsweredWhole
PROPERTY AliveAtHandoff
