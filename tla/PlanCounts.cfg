CONSTANTS
  NULL = NULL
  Paid = {2, 3}
  Trial = 1
  BlockMessages = 1
  Start = 1
  m1 = m1
  c1 = c1
  r1 = r1
  r2 = r2
  d1 = d1
  Messages = {m1, c1}
  Campaigns = {c1}
  Reports = {r1, r2}
  Desks = {d1}
  LastMonth = 2
  MaxFaults = 1
SPECIFICATION Spec
INVARIANT TypeOK
INVARIANT CountedOnce
INVARIANT PausedOncePerAnswer
PROPERTY LiftedWithRoom
SYMMETRY Symmetry
