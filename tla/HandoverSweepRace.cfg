\* The sweep undoes a takeover made after its read.
CONSTANTS
  NULL = NULL
  a1 = a1  a2 = a2  w1 = w1  d1 = d1  d2 = d2  c1 = c1  c2 = c2  c3 = c3
  quote = quote  claim = claim
  Agents = {a1}
  Wamids = {}
  Deliveries = {}
  WamidOf <- NoDeliveries
  Calls = {}
  CancelCalls = {}
  Topics = {}
  TopicOf <- NoCalls
  CategoryOf <- NoCategories
  Blocked = {}
  MaxMatters = 0
  HandEdits = {}
  OperatorIdle = 1
  Quiet = 2
  MaxSilence = 2
  JoinWindow = 1
  ReplyWindow = 2
  ActiveUntil = 1
  MaxTime = 3
  MaxFaults = 0
SPECIFICATION Spec
PROPERTIES SweepUndoesNothing
\* Time is bounded, so a behaviour ends.
CHECK_DEADLOCK FALSE
