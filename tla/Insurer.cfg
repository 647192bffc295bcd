\* Each part of the API's dealings with the insurer with two of every actor and one or two faults.
CONSTANTS
  \* Tokens: one change of password, time in units of the cache's life.
  c1 = c1  c2 = c2
  Callers = {c1, c2}
  NoCaller = NoCaller
  LastPassword = 2
  CredentialsTTL = 1
  RefusedPause = 1
  TokenLife = 1
  Windows = 2
  \* Errors: two reports, of a refusal and of another failure.
  r1 = r1  r2 = r2  bad = bad  other = other
  Reports = {r1, r2}
  Failures = {bad, other}
  Refusal = bad
  RemindEvery = 0
  ForgetAfter = 0
  MaxOutages = 2
  LastTime = 1
  MaxRecords = 3
  MaxBroken = 1
  \* Incidents: two ways to fail, two explanations at once.
  s1 = s1  s2 = s2  e1 = e1  e2 = e2
  Signatures = {s1, s2}
  Explainers = {e1, e2}
  ReopenWithin = 0
  ExplainRetry = 2
  AlertAgain = 2
  MaxIncidents = 2
  LastTick = 2
  MaxFailures = 2
  MaxStops = 1
  \* Portfolio: two runs over a policy with two endorsements and an installment.
  run1 = run1  run2 = run2
  Runs = {run1, run2}
  LastSup = 2
  Backfill = 1
  Incremental = 0
  Due = 0
  LastMonth = 1
  MaxFailing = 1
  \* Catalog: two quotes of a vehicle, a publication, a call that fails.
  q1 = q1  q2 = q2  v1 = v1  Nobody = Nobody  Unknown = Unknown
  Quoters = {q1, q2}
  Vehicles = {v1}
  FirstYear = 1
  ThisYear = 3
  Years = {1, 2, 3}
  LastPage = 2
  TokenHours = 1
  LastHour = 1
  MaxEditions = 1
  MaxUnanswered = 1
  \* Claims: two photos of a chat, of a policy in one of two offices.
  f1 = f1  ph1 = ph1  ph2 = ph2  y1 = y1  a1 = a1  a2 = a2  main = main  Nothing = Nothing  Portal = Portal
  Filers = {f1}
  Photos = {ph1, ph2}
  Policies = {y1}
  Main = main
  OfficeLines = {a1, a2}
  MaxFiles = 2
  PhotoWindow = 0
  MaxClaims = 2
  LastPhotoDay = 1
  MaxThreadMoves = 2
  MaxCuts = 1
SYMMETRY MCTwins
SPECIFICATION InsurerSpec
INVARIANTS InsurerTypesOK AccessFits ReportsFit IncidentsHold PortfolioHolds
\* The counters are bounded, so a behaviour ends.
CHECK_DEADLOCK FALSE
