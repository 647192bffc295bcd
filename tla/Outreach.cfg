CONSTANTS
  w1 = w1 w2 = w2 t1 = t1 t2 = t2
  Writers = {w1, w2}
  LastAccount = 1
  Texts = {t1, t2}
  FirstText = t1
  LastVersion = 2
  Day = 0
  Verdicts = {"APPROVED"}
  MaxRare = 1
  r1 = r1 r2 = r2 p1 = p1
  Requests = {r1, r2}
  People = {p1}
  Items = {1, 2}
  Cooldown = 0
  LastToday = 1
  MaxMessages = 3
  MaxUnusual = 1
  s1 = s1 s2 = s2 e1 = e1 e2 = e2
  Senders = {s1, s2}
  Expired = {e1, e2}
  RenotifyAfter = 0
  LastDate = 1
  MaxNotices = 3
  MaxIncidentals = 1
  LastPolicy = 2
  LastQuote = 2
  car1 = car1 car2 = car2 home = home
  Cars = {car1, car2}
  Homes = {home}
  Basic = {car1}
  NoDate = NoDate
  Now = 1
  LastInstant = 2
  DaysBefore = 0
  WithinDays = 1
  AfterDays = 0
SPECIFICATION OutreachSpec
INVARIANTS OutreachTypesOK TextsFit WrittenOnce OptOutIsKept OffersFit
CHECK_DEADLOCK FALSE
