\* Two requests over the rows of one Excel, with a restart, a lost answer and two failed queries.
CONSTANTS
  NULL = NULL
  e1 = e1  e2 = e2  q1 = q1  q2 = q2  q3 = q3
  Imports = {e1}
  Installments = {1, 2}
  Paid <- SecondPaid
  Reachable = {1, 2}
  Requests = {q1, q2}
  MaxFaults = 2
  MaxLost = 1
  MaxRestarts = 1
SPECIFICATION FairSpec
INVARIANTS TypeOK ChatOrNote
PROPERTIES SendsAreTrue SendingEnds
\* The requests are few, so a behaviour ends.
CHECK_DEADLOCK FALSE
