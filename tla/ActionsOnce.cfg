CONSTANTS
  NULL = NULL
  a1 = a1
  a2 = a2
  v1 = v1
  v2 = v2
  q1 = q1
  q2 = q2
  q3 = q3
  Actions = {a1, a2}
  Values = {v1, v2}
  First = v1
  Requests = {q1, q2, q3}
  MaxEdits = 1
  MaxRefusals = 1
  MaxFaults = 1
  MaxRestarts = 1
SPECIFICATION Spec
INVARIANT TypeOK
INVARIANT RunsOnce
INVARIANT CardIsTrue
SYMMETRY Symmetry
CHECK_DEADLOCK FALSE
