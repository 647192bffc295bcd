CONSTANTS
  MaxCards = 2
  MaxPanelEdits = 1
  MaxRefused = 1
  t1 = t1
  t2 = t2
  k1 = k1
  c1 = c1
  c2 = c2
  Turns = {t1, t2}
  Questions = {k1}
  Cards = {c1, c2}
  MaxRounds = 1
  PerHour = 1
  LastHour = 1
  MaxTurns = 2
  MaxStops = 1
  o1 = o1
  o2 = o2
  boss = boss
  clerk = clerk
  new = new
  m = m
  b = b
  n1 = n1
  n2 = n2
  r1 = r1
  r2 = r2
  d1 = d1
  f1 = f1
  f2 = f2
  Nothing = Nothing
  Offices = {o1, o2}
  Home = o1
  Emails = {boss, clerk, new}
  Boss = boss
  Clerk = clerk
  CodeNames = {m, b}
  Master = m
  Branch = b
  MetaIds = {n1, n2}
  Line = n1
  Calls = {r1, r2}
  Days = {d1}
  Fields = {f1, f2}
  MaxCalls = 2
  b1 = b1
  h1 = h1
  Branches = {b1}
  Holidays = {h1}
  Raws <- MCRaws
  LastDay = 1
  NewYear = 2
  MaxSyncs = 2
  MaxMoves = 1
  MaxHoursEdits = 1
  NoPlan = NoPlan
  p1 = p1
  l1 = l1
  e1 = e1
  Plans = {1, 2}
  Sizes = {1, 2}
  Features = {p1}
  DefaultOn = {}
  Lines = {l1}
  Desks = {e1}
  MaxOrders = 3
  ca = ca
  cb = cb
  w1 = w1
  w2 = w2
  s1 = s1
  CoverCodes = {ca, cb}
  Described = {ca}
  Everyday = {ca}
  LastYear = 2
  Quotes = {w1, w2}
  Editors = {s1}
  MaxSaves = 2
  MaxQuotes = 2
SYMMETRY MCTwins
SPECIFICATION PanelSpec
INVARIANT PanelHolds
PROPERTIES SettingsFit AccountsFit
CHECK_DEADLOCK FALSE
