\* Requests that repeat or join another or come with a reply from the app, answered from the panel, with the staff's edits.
CONSTANTS
  NULL = NULL
  a1 = a1  a2 = a2  w1 = w1  d1 = d1  d2 = d2  c1 = c1  c2 = c2  c3 = c3
  quote = quote  claim = claim
  Agents = {a1}
  Wamids = {w1}
  Deliveries = {d1}
  WamidOf <- OneEcho
  Calls = {c1, c2, c3}
  CancelCalls = {}
  Topics = {quote}
  TopicOf <- QuoteAndBares
  CategoryOf <- QuoteCategory
  Blocked = {c3}
  MaxMatters = 2
  HandEdits = {"resolved"}
  OperatorIdle = 1
  Quiet = 2
  MaxSilence = 2
  JoinWindow = 1
  ReplyWindow = 2
  ActiveUntil = 1
  MaxTime = 2
  MaxFaults = 0
SPECIFICATION MattersSpec
INVARIANTS SettledByAnswer
\* Time is bounded, so a behaviour ends.
CHECK_DEADLOCK FALSE
