--------------------------- MODULE VehicleCatalog ---------------------------
(* InfoAuto's catalog as quotes use it (infoauto.service.ts, and               *)
(* CotizadorService.quoteVehicle up to Triunfo's answer). Quotes run at once:   *)
(* each checks the year of its vehicle page by page, asks the value and the     *)
(* origin, and is priced. They share the catalog's token, which one of them     *)
(* asks for, and the origins found so far; InfoAuto publishes meanwhile.        *)
EXTENDS Naturals

CONSTANTS Quoters,
          Vehicles,      \* codias
          FirstYear, ThisYear, Years,
          LastPage,      \* of a brand's models; all pages but the last are full
          TokenHours,    \* a token is cached for
          LastHour, MaxEditions, MaxUnanswered,
          Nobody, Unknown

ASSUME CatalogParameters ==
  /\ Vehicles # {} /\ Nobody \notin Quoters /\ Unknown \notin {"N", "I"}
  /\ Years \subseteq Nat /\ {FirstYear, ThisYear} \subseteq Years /\ 2 <= FirstYear + 1 /\ FirstYear < ThisYear
  /\ {LastPage, TokenHours} \subseteq Nat \ {0} /\ {LastHour, MaxEditions, MaxUnanswered} \subseteq Nat

VARIABLES
  kind,       \* VehicleType
  wired,      \* the catalog is configured; and the subscription covers values
  listing,    \* InfoAuto's: where each vehicle is, and what is published of it
  feature,    \* InfoAuto's: the origin of each vehicle, if it tells
  token,      \* cachedToken until tokenExpiresAt, and tokenInFlight
  origins,    \* originCache
  quoter,
  hour, editions, unanswered

catalogVars == <<kind, wired, listing, feature, token, origins, quoter, hour, editions, unanswered>>

\* Years of used prices, sold new only, or no price at all.
Published == [page : 1..LastPage, prices : {"used", "new", "none"}]
\* Nothing else of what it is for tells two calls apart.
Purposes == {"year", "prices", "list", "origin"}
IdleQuoter == [at |-> "idle", for |-> "year", vehicle |-> CHOOSE v \in Vehicles : TRUE, year |-> ThisYear, page |-> 1,
               origin |-> Unknown, blind |-> FALSE, listed |-> "never"]

CatalogTypeOK ==
  /\ kind \in {"AUTO", "MOTO"} /\ wired \in [catalog : BOOLEAN, prices : BOOLEAN]
  /\ listing \in [Vehicles -> Published] /\ feature \in [Vehicles -> {"N", "I", Unknown}]
  /\ token \in [until : 0..(LastHour + TokenHours), login : Quoters \cup {Nobody}]
  /\ origins \in [Vehicles -> {"N", "I", Unknown}]
  /\ quoter \in [Quoters -> [at : {"idle", "asks", "waits", "login", "get", "price", "priced", "refused", "failed"},
                             for : Purposes, vehicle : Vehicles, year : Years, page : 1..LastPage,
                             origin : {"N", "I", Unknown}, blind : BOOLEAN, listed : {"never", "once", "always"}]]
  /\ hour \in 0..LastHour /\ editions \in 0..MaxEditions /\ unanswered \in 0..MaxUnanswered

CatalogInit ==
  /\ kind \in {"AUTO", "MOTO"} /\ wired \in [catalog : BOOLEAN, prices : BOOLEAN] /\ (kind = "AUTO" => wired.catalog)
  /\ listing \in [Vehicles -> Published] /\ feature \in [Vehicles -> {"N", "I", Unknown}]
  /\ token = [until |-> 0, login |-> Nobody] /\ origins = [v \in Vehicles |-> Unknown]
  /\ quoter = [q \in Quoters |-> IdleQuoter]
  /\ hour = 0 /\ editions = 0 /\ unanswered = 0

\* The used prices published, from the year after the first until last year.
OldestYear == FirstYear + 1
NewestYear == ThisYear - 1

\* What validateVehicleYear lets through of what the page says: a motorcycle sold
\* lately goes on as this year's, and one with no price at all is left to Triunfo.
Lists(prices, year) ==
  CASE prices = "used" -> year >= OldestYear /\ (year <= NewestYear \/ (kind = "MOTO" /\ NewestYear + 1 >= ThisYear))
    [] prices = "new" -> year = ThisYear
    [] prices = "none" -> TRUE

Fails == unanswered < MaxUnanswered /\ unanswered' = unanswered + 1
Becomes(q, r) == quoter' = [quoter EXCEPT ![q] = r]

-----------------------------------------------------------------------------
(* A quote *)

\* No catalog, an old 0 km or a year that is none: refused before anything is asked.
Quote(q, v, y, zeroKm) ==
  /\ quoter[q].at = "idle"
  /\ LET r == [IdleQuoter EXCEPT !.vehicle = v, !.year = y]
         refused == ~wired.catalog \/ (zeroKm /\ y < ThisYear - 1) \/ y < FirstYear \/ y > ThisYear + 1
     IN Becomes(q, IF refused THEN [r EXCEPT !.at = "refused"]
                   ELSE [r EXCEPT !.at = "asks", !.listed = IF Lists(listing[v].prices, y) THEN "always" ELSE "never"])
  /\ UNCHANGED <<kind, wired, listing, feature, token, origins, hour, editions, unanswered>>

\* What a quote does once its year is checked, its value looked for, its origin
\* known: the value is asked for only when the subscription covers it, used prices
\* for the years before this, and an origin found before is not asked again.
ToOrigin(r) ==
  IF origins[r.vehicle] # Unknown THEN [r EXCEPT !.at = "price", !.origin = origins[r.vehicle]]
  ELSE [r EXCEPT !.at = "asks", !.for = "origin"]
ToValue(r) ==
  IF wired.prices THEN [r EXCEPT !.at = "asks", !.for = IF r.year < ThisYear THEN "prices" ELSE "list"] ELSE ToOrigin(r)

\* A call that failed ends a quote whose year it checked; without a value it goes
\* on, and without an origin as national.
WithoutAnswer(r) ==
  CASE r.for = "year" -> [r EXCEPT !.at = "failed"]
    [] r.for \in {"prices", "list"} -> ToOrigin(r)
    [] r.for = "origin" -> [r EXCEPT !.at = "price", !.origin = "N", !.blind = TRUE]

\* getToken: the cached one, the one somebody asks for, or a login of its own.
Door == IF hour < token.until THEN "get" ELSE IF token.login # Nobody THEN "waits" ELSE "login"

AskToken(q) ==
  /\ quoter[q].at = "asks"
  /\ Becomes(q, [quoter[q] EXCEPT !.at = Door])
  /\ token' = [token EXCEPT !.login = IF Door = "login" THEN q ELSE @]
  /\ UNCHANGED <<kind, wired, listing, feature, origins, hour, editions, unanswered>>

Waiting(q) == {p \in Quoters : p = q \/ quoter[p].at = "waits"}

\* The token, its expiry told or of less than the hour, goes to all who wait.
LoginAnswers(q) ==
  /\ quoter[q].at = "login"
  /\ token' = [until |-> hour + TokenHours, login |-> Nobody]
  /\ quoter' = [p \in Quoters |-> IF p \in Waiting(q) THEN [quoter[p] EXCEPT !.at = "get"] ELSE quoter[p]]
  /\ UNCHANGED <<kind, wired, listing, feature, origins, hour, editions, unanswered>>

\* Refused, unanswered or with no token: none of them has one, nor is it in flight.
LoginFails(q) ==
  /\ quoter[q].at = "login" /\ Fails
  /\ token' = [token EXCEPT !.login = Nobody]
  /\ quoter' = [p \in Quoters |-> IF p \in Waiting(q) THEN WithoutAnswer(quoter[p]) ELSE quoter[p]]
  /\ UNCHANGED <<kind, wired, listing, feature, origins, hour, editions>>

\* A page of the brand's models: the vehicle is on it, or the next one is asked
\* for with the token there is, until the last, which is not full.
PageAnswers(q) ==
  /\ quoter[q].at = "get" /\ quoter[q].for = "year"
  /\ LET r == quoter[q] IN
     Becomes(q, IF listing[r.vehicle].page = r.page
                THEN IF Lists(listing[r.vehicle].prices, r.year) THEN ToValue(r) ELSE [r EXCEPT !.at = "refused"]
                ELSE IF r.page < LastPage THEN [r EXCEPT !.at = "asks", !.page = @ + 1] ELSE [r EXCEPT !.at = "refused"])
  /\ UNCHANGED <<kind, wired, listing, feature, token, origins, hour, editions, unanswered>>

\* A used price of the year ends the search, a list price or none as well.
ValueAnswers(q) ==
  /\ quoter[q].at = "get" /\ quoter[q].for \in {"prices", "list"}
  /\ Becomes(q, IF quoter[q].for = "prices" /\ listing[quoter[q].vehicle].prices # "used"
                THEN [quoter[q] EXCEPT !.at = "asks", !.for = "list"] ELSE ToOrigin(quoter[q]))
  /\ UNCHANGED <<kind, wired, listing, feature, token, origins, hour, editions, unanswered>>

\* Slip: a call that failed is remembered as national.
OriginIsKept(q) ==
  /\ quoter[q].at = "get" /\ quoter[q].for = "origin"
  /\ LET v == quoter[q].vehicle IN
     \E told \in {"N", IF feature[v] = Unknown THEN "N" ELSE feature[v]} :
       /\ origins' = [origins EXCEPT ![v] = told]
       /\ Becomes(q, [quoter[q] EXCEPT !.at = "price", !.origin = told, !.blind = told # feature[v]])
  /\ UNCHANGED <<kind, wired, listing, feature, token, hour, editions, unanswered>>

\* Only a feature that is there is remembered.
OriginAnswers(q) ==
  /\ quoter[q].at = "get" /\ quoter[q].for = "origin"
  /\ LET v == quoter[q].vehicle IN
     /\ origins' = IF feature[v] = Unknown THEN origins ELSE [origins EXCEPT ![v] = feature[v]]
     /\ Becomes(q, [quoter[q] EXCEPT !.at = "price", !.origin = IF feature[v] = Unknown THEN "N" ELSE feature[v]])
  /\ UNCHANGED <<kind, wired, listing, feature, token, hour, editions, unanswered>>

\* No answer, one about the request or another shape than a list.
GetFails(q) ==
  /\ quoter[q].at = "get" /\ Fails
  /\ Becomes(q, WithoutAnswer(quoter[q]))
  /\ UNCHANGED <<kind, wired, listing, feature, token, origins, hour, editions>>

\* Triunfo prices it, or not.
TriunfoAnswers(q) ==
  /\ quoter[q].at = "price"
  /\ Becomes(q, [quoter[q] EXCEPT !.at = "priced"])
  /\ UNCHANGED <<kind, wired, listing, feature, token, origins, hour, editions, unanswered>>

TriunfoFails(q) ==
  /\ quoter[q].at = "price" /\ Fails
  /\ Becomes(q, [quoter[q] EXCEPT !.at = "failed"])
  /\ UNCHANGED <<kind, wired, listing, feature, token, origins, hour, editions>>

-----------------------------------------------------------------------------
(* InfoAuto, and time *)

Listed(q) == quoter[q].listed = "always"

\* A publication moves a vehicle to another page or publishes other prices of it.
Publishes(v, new) ==
  /\ editions < MaxEditions /\ editions' = editions + 1 /\ new # listing[v]
  /\ listing' = [listing EXCEPT ![v] = new]
  /\ quoter' = [q \in Quoters |-> IF quoter[q].vehicle = v /\ quoter[q].at # "idle" /\ Listed(q) # Lists(new.prices, quoter[q].year)
                                  THEN [quoter[q] EXCEPT !.listed = "once"] ELSE quoter[q]]
  /\ UNCHANGED <<kind, wired, feature, token, origins, hour, unanswered>>

HourPasses ==
  /\ hour < LastHour
  /\ hour' = hour + 1
  /\ UNCHANGED <<kind, wired, listing, feature, token, origins, quoter, editions, unanswered>>

CatalogNext ==
  \/ \E q \in Quoters, v \in Vehicles, y \in Years, zeroKm \in BOOLEAN : Quote(q, v, y, zeroKm)
  \/ \E q \in Quoters :
       \/ AskToken(q) \/ LoginAnswers(q) \/ LoginFails(q)
       \/ PageAnswers(q) \/ ValueAnswers(q) \/ OriginAnswers(q) \/ GetFails(q)
       \/ TriunfoAnswers(q) \/ TriunfoFails(q)
  \/ \E v \in Vehicles, new \in Published : Publishes(v, new)
  \/ HourPasses

-----------------------------------------------------------------------------
(* Correctness *)

\* The catalog has one login in course at most, and whoever waits waits for it: no
\* quote is left waiting for a login that ended, well or not (InfoAutoService.getToken).
OneLogin ==
  /\ \A q \in Quoters : quoter[q].at = "login" <=> token.login = q
  /\ \A q \in Quoters : quoter[q].at = "waits" => token.login # Nobody

\* Triunfo, which prices years that never were, is asked only for what the catalog
\* listed at some moment of the quote, however it was published meanwhile.
PricedIsListed == \A q \in Quoters : quoter[q].at \in {"price", "priced"} => quoter[q].listed # "never"

\* A vehicle goes out with its origin unless this very quote could not ask for it:
\* what another could not find out is not remembered as known.
OriginIsNoGuess ==
  \A q \in Quoters : quoter[q].at \in {"price", "priced"} /\ ~quoter[q].blind =>
    quoter[q].origin = feature[quoter[q].vehicle] \/ (feature[quoter[q].vehicle] = Unknown /\ quoter[q].origin = "N")

CatalogFits == OneLogin /\ PricedIsListed /\ OriginIsNoGuess

\* What the code does not keep: a year the catalog listed all along is not refused.
\* A publication between two pages takes the vehicle to the one already read.
ListedIsFound == \A q \in Quoters : quoter[q].at = "refused" => quoter[q].listed # "always"
=============================================================================
