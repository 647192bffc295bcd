\* The office falls silent: the chat returns to the bot.
CONSTANTS
  NULL = NULL
  a1 = a1  a2 = a2  w1 = w1  d1 = d1  d2 = d2  c1 = c1  c2 = c2  c3 = c3
  quote = quote  claim = claim
  Agents = {a1}
  Wamids = {w1}
  Deliveries = {d1}
  WamidOf <- OneEcho
  Calls = {c1}
  CancelCalls = {c1}
  Topics = {quote}
  TopicOf <- OneCall
  CategoryOf <- QuoteCategory
  Blocked = {}
  MaxMatters = 1
  HandEdits = {}
  OperatorIdle = 1
  Quiet = 2
  MaxSilence = 2
  JoinWindow = 1
  ReplyWindow = 2
  ActiveUntil = 1
  MaxTime = 4
  MaxFaults = 1
SPECIFICATION FairSpec
PROPERTIES TakeoverEnds
\* Time is bounded, so a behaviour ends.
CHECK_DEADLOCK FALSE
