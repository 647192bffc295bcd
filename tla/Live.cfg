\* The smallest instances in which each part can get stuck.
CONSTANTS
  \* Tokens: one caller, the sync and the owner, one change of password.
  c1 = c1
  Callers = {c1}
  NoCaller = NoCaller
  LastPassword = 2
  CredentialsTTL = 1
  RefusedPause = 1
  TokenLife = 1
  Windows = 1
  \* Texts: two requests or passes at once over an account.
  w1 = w1  w2 = w2  t1 = t1
  Writers = {w1, w2}
  LastAccount = 1
  Texts = {t1}
  FirstText = t1
  LastVersion = 1
  Day = 0
  Verdicts = {"APPROVED"}
  MaxRare = 1
  \* Lines: one phone that drops and is connected again under another id.
  o1 = o1  p1 = p1  cron = cron  account = account
  Organizations = {o1}
  Accounts = {account}
  Phones = {p1}
  LastId = 2
  LastRow = 1
  Checkers = {cron}
  Unknown = Unknown
  MaxEvents = 2
  \* Plans: a reply and a campaign message, two reports at once or somebody of the
  \* office, two months and a failure.
  NULL = NULL
  Paid = {2, 3}
  Trial = 1
  BlockMessages = 1
  Start = 1
  m1 = m1  m2 = m2  r1 = r1  r2 = r2  d1 = d1
  Messages = {m1, m2}
  Campaigns = {m1}
  Reports = {r1, r2}
  Desks = {d1}
  LastMonth = 2
  MaxFaults = 1
SPECIFICATION LiveSpec
PROPERTIES AccessRecovers AccountsServed DropIsNoticed NextReportPauses
\* The counters are bounded, so a behaviour may end.
CHECK_DEADLOCK FALSE
