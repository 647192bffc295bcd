CONSTANTS
  Lines = {"main", "branch"}
  Codes = {"a", "b"}
  holder = holder
  relative = relative
  Clients = {holder, relative}
  Owner = holder
  Nobody = Nobody
  NoCode = NoCode
  CodesOf <- MCCodesOf
  CodeOf <- MCCodeOf
  PolicyCodes <- MCPolicyCodes
  r1 = r1
  r2 = r2
  Requests = {r1, r2}
  Timeout = 1
  Window = 0
  MaxAside = 1
  o1 = o1
  o2 = o2
  w1 = w1
  w2 = w2
  p1 = p1
  cron = cron
  Organizations = {o1, o2}
  Accounts = {w1, w2}
  Phones = {p1}
  LastId = 2
  LastRow = 2
  Checkers = {cron}
  Unknown = Unknown
  MaxEvents = 1
  s1 = s1
  s2 = s2
  a = a
  b = b
  none = none
  d1 = d1
  d2 = d2
  Submitters = {s1, s2}
  Coverages = {a, b}
  NoCoverage = none
  Documents = {d1, d2}
  MaxDocuments = 1
  MaxMatters = 2
  MaxOffice = 1
  MaxFailures = 1
  n1 = n1
  trial = trial
  small = small
  big = big
  Numbers = {n1}
  Plans = {trial, small, big}
  Trial = trial
  Smallest = small
  NoPlan = none
  FirstPlan = trial
  LastMonth = 2
  MaxChanges = 1
  MaxMishaps = 1
  MonthsBack = 2
  LastPeriod = 2
  MaxMoves = 2
  MaxBreaks = 1
SPECIFICATION OfficeSpec
INVARIANTS OfficeTypesOK RequestsFit
PROPERTIES SessionsFit LinesFit MonthsFit
SYMMETRY MCTwins
CHECK_DEADLOCK FALSE
