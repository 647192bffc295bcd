---------------------------- MODULE InsurerProofs ----------------------------
(***************************************************************************)
(* What holds of the dealings with the insurer for every number of         *)
(* requests, reports, incidents, runs, quotes, claims and photos, and for  *)
(* every bound: each part keeps an inductive invariant of its own, and a   *)
(* step of one part leaves the others' state alone.                        *)
(***************************************************************************)
EXTENDS MCInsurer, FiniteSetTheorems, SequenceTheorems, WellFoundedInduction, NaturalsInduction, TLAPS

(* Tokens: one request at a time *)

Busy == {"loading", "saving"} \cup Asking

CallerType == [step : CallerSteps, password : Passwords]

\* A sync that asks has windows to read.
TokensElse ==
  /\ accepted \in Passwords /\ stored \in Passwords
  /\ kept \in [password : Passwords, left : 0..CredentialsTTL]
  /\ live \in 0..TokenLife /\ row \in 0..TokenLife /\ pause \in 0..RefusedPause
  /\ sync \in [step : SyncSteps, password : Passwords, todo : 0..Windows]
  /\ (sync.step \in Asking => sync.todo # 0)
  /\ owner \in [step : OwnerSteps, password : Passwords]

\* Whoever asks for a token is the one the others wait for.
CallersFit ==
  /\ caller \in [Callers -> CallerType] /\ inFlight \in Callers \cup {NoCaller}
  /\ \A c \in Callers : caller[c].step \in Busy => inFlight = c

TokensInv == TokensElse /\ CallersFit

LEMMA TokensTyped == TokensInv => TokensTypeOK
BY DEF TokensInv, TokensTypeOK, TokensElse, CallersFit, CallerType

LEMMA StepsOfCallers ==
  /\ Busy \subseteq CallerSteps /\ "idle" \notin Busy /\ "reading" \notin Busy /\ "waiting" \notin Busy
  /\ Asking \subseteq Busy /\ Asking \subseteq SyncSteps /\ Asking \subseteq OwnerSteps
  /\ \A p : Verdict(p) \in Asking
BY DEF Busy, Asking, CallerSteps, SyncSteps, OwnerSteps, Verdict

LEMMA TokenNumbers ==
  /\ {LastPassword, CredentialsTTL, RefusedPause, TokenLife, Windows} \subseteq Nat
  /\ IdleCaller \in CallerType /\ 1 \in Passwords
  /\ IdleSync \in [step : SyncSteps, password : Passwords, todo : 0..Windows]
<1>1. {LastPassword, CredentialsTTL, RefusedPause, TokenLife, Windows} \subseteq Nat /\ LastPassword >= 1 /\ 1 \in Passwords
  BY TokenParameters DEF Passwords
<1>2. QED
  BY <1>1 DEF IdleCaller, IdleSync, CallerType, CallerSteps, SyncSteps

\* getToken leaves one caller in course at most.
LEMMA GetTokenKeeps ==
  ASSUME TokensInv, NEW c \in Callers, caller[c].step \notin Busy, NEW password \in Passwords, GetToken(c, password)
  PROVE  /\ caller' \in [Callers -> CallerType] /\ inFlight' \in Callers \cup {NoCaller}
         /\ \A d \in Callers : (caller'[d]).step \in Busy => inFlight' = d
<1>1. caller \in [Callers -> CallerType] /\ inFlight \in Callers \cup {NoCaller}
  BY DEF TokensInv, CallersFit
<1>2. PICK next \in {IdleCaller, [step |-> "waiting", password |-> password], [step |-> "loading", password |-> password]} :
        /\ caller' = [caller EXCEPT ![c] = next]
        /\ \/ next.step # "loading" /\ inFlight' = inFlight
           \/ next.step = "loading" /\ inFlight = NoCaller /\ inFlight' = c
  BY DEF GetToken, IdleCaller
<1>3. next \in CallerType /\ (next.step # "loading" => next.step \notin Busy)
  BY <1>2, TokenNumbers, StepsOfCallers DEF CallerType, CallerSteps, IdleCaller
<1>4. ASSUME NEW d \in Callers, (caller'[d]).step \in Busy PROVE inFlight' = d
  <2>1. CASE d = c
    BY <1>1, <1>2, <1>3, <1>4, <2>1
  <2>2. CASE d # c
    <3>1. inFlight = d
      BY <1>1, <1>2, <1>4, <2>2 DEF TokensInv, CallersFit
    <3>2. QED
      BY <1>2, <3>1, TokenParameters
  <2>3. QED
    BY <2>1, <2>2
<1>5. QED
  BY <1>1, <1>2, <1>3, <1>4

\* A caller that answers is the one in course, if it was one that asked.
LEMMA SettleKeeps ==
  ASSUME TokensInv, NEW c \in Callers, caller[c].step \in Busy, Settle(c)
  PROVE  /\ caller' \in [Callers -> CallerType] /\ inFlight' \in Callers \cup {NoCaller}
         /\ \A d \in Callers : (caller'[d]).step \notin Busy
<1>1. caller \in [Callers -> CallerType]
  BY DEF TokensInv, CallersFit
<1>2. \A d \in Callers : caller'[d] = IF d = c \/ caller[d].step = "waiting" THEN IdleCaller ELSE caller[d]
  BY DEF Settle
<1>3. caller' \in [Callers -> CallerType] /\ inFlight' = NoCaller
  BY <1>1, TokenNumbers DEF Settle
<1>4. ASSUME NEW d \in Callers PROVE (caller'[d]).step \notin Busy
  <2>1. IdleCaller.step \notin Busy
    BY StepsOfCallers DEF IdleCaller
  <2>2. caller[d].step \in Busy => d = c
    BY DEF TokensInv, CallersFit
  <2>3. QED
    BY <1>2, <2>1, <2>2
<1>5. QED
  BY <1>3, <1>4

LEMMA CallerAtKeeps ==
  ASSUME TokensInv, NEW c \in Callers, caller[c].step \in Busy, NEW step \in CallerSteps, CallerAt(c, step), UNCHANGED inFlight
  PROVE  /\ caller' \in [Callers -> CallerType] /\ inFlight' \in Callers \cup {NoCaller}
         /\ \A d \in Callers : (caller'[d]).step \in Busy => inFlight' = d
<1>1. caller \in [Callers -> CallerType] /\ inFlight \in Callers \cup {NoCaller}
  BY DEF TokensInv, CallersFit
<1>2. caller' \in [Callers -> CallerType]
  BY <1>1 DEF CallerAt, CallerType
<1>3. \A d \in Callers : d # c => caller'[d] = caller[d]
  BY <1>1 DEF CallerAt
<1>4. QED
  BY <1>1, <1>2, <1>3 DEF TokensInv, CallersFit

LEMMA CallersKeep ==
  ASSUME TokensInv, NEW c \in Callers, UseKept(c) \/ ReadCredentials(c) \/ CallGoesOn(c) PROVE TokensInv'
<1>1. TokensElse /\ CallersFit /\ caller[c] \in CallerType /\ kept.password \in Passwords
  BY DEF TokensInv, CallersFit, TokensElse
<1>2. CASE UseKept(c)
  <2>1. CallersFit'
    BY <1>1, <1>2, GetTokenKeeps, StepsOfCallers DEF UseKept, CallersFit
  <2>2. TokensElse'
    BY <1>1, <1>2 DEF UseKept, TokensElse, memory
  <2>3. QED
    BY <2>1, <2>2 DEF TokensInv, CallersFit
<1>3. CASE ReadCredentials(c)
  <2>1. [step |-> "reading", password |-> stored] \in CallerType
    BY <1>1 DEF TokensElse, CallerType, CallerSteps
  <2>2. CallersFit'
    BY <1>1, <1>3, <2>1, StepsOfCallers DEF ReadCredentials, CallersFit
  <2>3. TokensElse'
    BY <1>1, <1>3 DEF ReadCredentials, TokensElse, memory
  <2>4. QED
    BY <2>2, <2>3 DEF TokensInv, CallersFit
<1>4. CASE KeepCredentials(c)
  <2>1. caller[c].password \in Passwords /\ caller[c].step \notin Busy
    BY <1>1, <1>4, StepsOfCallers DEF KeepCredentials, CallerType
  <2>2. CallersFit'
    BY <1>4, <2>1, GetTokenKeeps DEF KeepCredentials, CallersFit
  <2>3. kept' \in [password : Passwords, left : 0..CredentialsTTL]
    BY <1>4, <2>1, TokenNumbers DEF KeepCredentials, Keep
  <2>4. TokensElse'
    BY <1>1, <1>4, <2>3 DEF KeepCredentials, TokensElse
  <2>5. QED
    BY <2>2, <2>4 DEF TokensInv, CallersFit
<1>5. CASE LoadStored(c) \/ SaveToken(c) \/ Denied(c) \/ AskFails(c)
  <2>1. caller[c].step \in Busy /\ Settle(c)
    BY <1>5, StepsOfCallers DEF LoadStored, SaveToken, Denied, AskFails, Busy, Asking
  <2>2. CallersFit'
    BY <2>1, SettleKeeps DEF CallersFit
  <2>3. TokensElse'
    <3>1. CASE LoadStored(c)
      BY <1>1, <3>1 DEF LoadStored, TokensElse
    <3>2. CASE SaveToken(c)
      BY <1>1, <3>2, TokenNumbers DEF SaveToken, TokensElse, memory
    <3>3. CASE Denied(c)
      BY <1>1, <3>3, TokenNumbers DEF Denied, TokensElse
    <3>4. CASE AskFails(c)
      BY <1>1, <3>4 DEF AskFails, TokensElse, memory
    <3>5. QED
      BY <1>5, <3>1, <3>2, <3>3, <3>4
  <2>4. QED
    BY <2>2, <2>3 DEF TokensInv, CallersFit
<1>6. CASE LoadMissed(c)
  <2>1. caller[c].step \in Busy /\ TokensElse'
    BY <1>1, <1>6 DEF LoadMissed, TokensElse, memory, Busy
  <2>2. CASE Settle(c)
    BY <2>1, <2>2, SettleKeeps DEF CallersFit, TokensInv
  <2>3. CASE CallerAt(c, "asking") /\ UNCHANGED inFlight
    <3>1. "asking" \in CallerSteps
      BY DEF CallerSteps, Asking
    <3>2. QED
      BY <2>1, <2>3, <3>1, CallerAtKeeps DEF CallersFit, TokensInv
  <2>4. QED
    BY <1>6, <2>2, <2>3 DEF LoadMissed
<1>7. CASE Judge(c) \/ Granted(c)
  <2>1. /\ caller[c].step \in Busy /\ UNCHANGED inFlight
        /\ \E step \in CallerSteps : CallerAt(c, step)
    BY <1>7, StepsOfCallers DEF Judge, Granted, Busy, Asking, CallerSteps
  <2>2. CallersFit'
    BY <2>1, CallerAtKeeps DEF CallersFit
  <2>3. TokensElse'
    <3>1. CASE Judge(c)
      BY <1>1, <3>1 DEF Judge, TokensElse, memory
    <3>2. CASE Granted(c)
      BY <1>1, <3>2, TokenNumbers DEF Granted, TokensElse
    <3>3. QED
      BY <1>7, <3>1, <3>2
  <2>4. QED
    BY <2>2, <2>3 DEF TokensInv, CallersFit
<1>8. QED
  BY <1>2, <1>3, <1>4, <1>5, <1>6, <1>7 DEF CallGoesOn

LEMMA SyncsAndOwnerKeep ==
  ASSUME TokensInv, SyncUseKept \/ SyncRead \/ SyncGoesOn \/ (\E p \in Passwords : Verify(p)) \/ OwnerGoesOn
  PROVE  TokensInv'
<1>1. TokensElse /\ CallersFit /\ UNCHANGED <<accepted, caller, inFlight>>
  BY DEF TokensInv, SyncUseKept, SyncRead, SyncGoesOn, SyncKeep, SyncJudge, SyncWindow, SyncDenied, SyncFails, Verify,
       OwnerGoesOn, VerifyJudge, Verified, VerifiedSave, VerifyDenied, StorePassword, ForgetCredentials
<1>2. CallersFit'
  BY <1>1 DEF CallersFit
<1>3. ASSUME NEW password \in Passwords, SyncWith(password) 
      PROVE  sync' \in [step : SyncSteps, password : Passwords, todo : 0..Windows] /\ (sync.step \in Asking => sync.todo # 0)'
  BY <1>3, TokenNumbers, TokenParameters DEF SyncWith, SyncSteps, Asking, IdleSync
<1>4. ASSUME SyncUseKept \/ SyncRead \/ SyncGoesOn PROVE TokensElse'
  <2>1. CASE SyncUseKept
    BY <1>1, <1>3, <2>1 DEF SyncUseKept, TokensElse, memory
  <2>2. CASE SyncRead
    BY <1>1, <2>2, TokenNumbers DEF SyncRead, TokensElse, memory, SyncSteps, Asking
  <2>3. CASE SyncKeep
    BY <1>1, <1>3, <2>3, TokenNumbers DEF SyncKeep, Keep, TokensElse
  <2>4. CASE SyncJudge
    <3>1. Verdict(sync.password) \in SyncSteps /\ sync.step \in Asking
      BY <2>4, StepsOfCallers DEF SyncJudge, Asking
    <3>2. QED
      BY <1>1, <2>4, <3>1 DEF SyncJudge, TokensElse, memory
  <2>5. CASE SyncWindow
    <3>1. sync.step \in Asking /\ (sync.todo # 1 => sync.todo - 1 \in 0..Windows /\ sync.todo - 1 # 0)
      BY <1>1, <2>5, TokenNumbers DEF SyncWindow, TokensElse, Asking
    <3>2. QED
      BY <1>1, <2>5, <3>1, TokenNumbers DEF SyncWindow, TokensElse, memory, SyncSteps, Asking, IdleSync
  <2>6. CASE SyncDenied
    BY <1>1, <2>6, TokenNumbers DEF SyncDenied, TokensElse, IdleSync, Asking
  <2>7. CASE SyncFails
    BY <1>1, <2>7, TokenNumbers DEF SyncFails, TokensElse, memory, IdleSync, Asking
  <2>8. QED
    BY <1>4, <2>1, <2>2, <2>3, <2>4, <2>5, <2>6, <2>7 DEF SyncGoesOn
<1>5. ASSUME (\E p \in Passwords : Verify(p)) \/ OwnerGoesOn PROVE TokensElse'
  <2>1. CASE \E p \in Passwords : Verify(p)
    BY <1>1, <2>1 DEF Verify, TokensElse, memory, OwnerSteps, Asking
  <2>2. CASE VerifyJudge
    <3>1. Verdict(owner.password) \in OwnerSteps
      BY StepsOfCallers
    <3>2. QED
      BY <1>1, <2>2, <3>1 DEF VerifyJudge, OwnerAt, TokensElse, memory
  <2>3. CASE Verified
    BY <1>1, <2>3, TokenNumbers DEF Verified, OwnerAt, TokensElse, OwnerSteps
  <2>4. CASE VerifiedSave
    BY <1>1, <2>4, TokenNumbers DEF VerifiedSave, OwnerAt, TokensElse, memory, OwnerSteps
  <2>5. CASE VerifyDenied
    BY <1>1, <2>5 DEF VerifyDenied, OwnerAt, TokensElse, memory, OwnerSteps
  <2>6. CASE StorePassword
    BY <1>1, <2>6 DEF StorePassword, OwnerAt, TokensElse, memory, OwnerSteps
  <2>7. CASE ForgetCredentials
    BY <1>1, <2>7, TokenNumbers DEF ForgetCredentials, OwnerAt, TokensElse, OwnerSteps
  <2>8. QED
    BY <1>5, <2>1, <2>2, <2>3, <2>4, <2>5, <2>6, <2>7 DEF OwnerGoesOn
<1>6. QED
  BY <1>2, <1>4, <1>5 DEF TokensInv, CallersFit

LEMMA TokensNextInv == TokensInv /\ [TokensNext]_tokenVars => TokensInv'
<1> SUFFICES ASSUME TokensInv, [TokensNext]_tokenVars PROVE TokensInv'
  OBVIOUS
<1>1. TokensElse /\ CallersFit
  BY DEF TokensInv, CallersFit
<1>2. CASE UNCHANGED tokenVars
  BY <1>2 DEF tokenVars, memory, TokensInv, TokensElse, CallersFit
<1>3. CASE ChangeAtTriunfo
  <2>1. accepted' \in Passwords
    BY <1>1, <1>3, TokenNumbers DEF ChangeAtTriunfo, Passwords, TokensElse
  <2>2. QED
    BY <1>1, <1>3, <2>1 DEF ChangeAtTriunfo, TokensInv, TokensElse, CallersFit, memory
<1>4. CASE TimePasses
  <2>1. \A n \in Nat : \A m \in 0..n : Less(m) \in 0..n
    BY DEF Less
  <2>2. kept.left \in 0..CredentialsTTL /\ kept.password \in Passwords
    BY <1>1 DEF TokensElse
  <2>3. kept' = [kept EXCEPT !.left = Less(kept.left)] /\ Less(kept.left) \in 0..CredentialsTTL
    BY <1>4, <2>1, <2>2, TokenNumbers DEF TimePasses
  <2>4. TokensElse'
    BY <1>1, <1>4, <2>1, <2>3, TokenNumbers DEF TimePasses, TokensElse
  <2>5. CallersFit'
    BY <1>1, <1>4 DEF TimePasses, CallersFit
  <2>6. QED
    BY <2>4, <2>5 DEF TokensInv, CallersFit
<1>5. CASE ProcessRestarts
  <2>1. TokensElse'
    BY <1>1, <1>5, TokenNumbers DEF ProcessRestarts, TokensElse, OwnerSteps, IdleSync, Asking
  <2>2. CallersFit'
    BY <1>5, TokenNumbers, StepsOfCallers DEF ProcessRestarts, CallersFit, IdleCaller
  <2>3. QED
    BY <2>1, <2>2 DEF TokensInv, CallersFit
<1>6. QED
  BY <1>2, <1>3, <1>4, <1>5, CallersKeep, SyncsAndOwnerKeep DEF TokensNext

LEMMA TokensInitInv == TokensInit => TokensInv
<1> SUFFICES ASSUME TokensInit PROVE TokensInv
  OBVIOUS
<1>1. TokensElse
  BY TokenNumbers DEF TokensInit, TokensElse, OwnerSteps, IdleSync, Asking
<1>2. CallersFit
  BY TokenNumbers, StepsOfCallers DEF TokensInit, CallersFit, IdleCaller
<1>3. QED
  BY <1>1, <1>2 DEF TokensInv, CallersFit

LEMMA OneAsks == TokensInv => OneTokenRequest
<1> SUFFICES ASSUME TokensInv PROVE OneTokenRequest
  OBVIOUS
<1> DEFINE S == {c \in Callers : caller[c].step \in Busy}
<1>1. S \subseteq {inFlight}
  BY DEF TokensInv, CallersFit
<1>2. IsFiniteSet({inFlight}) /\ Cardinality({inFlight}) = 1
  BY FS_Singleton
<1>3. Cardinality(S) <= 1
  BY <1>1, <1>2, FS_Subset
<1>4. QED
  BY <1>3 DEF OneTokenRequest, Busy
-----------------------------------------------------------------------------
(* The catalog: one login, and prices and origins it told *)

QuoterType == [at : {"idle", "asks", "waits", "login", "get", "price", "priced", "refused", "failed"},
               for : Purposes, vehicle : Vehicles, year : Years, page : 1..LastPage,
               origin : {"N", "I", Unknown}, blind : BOOLEAN, listed : {"never", "once", "always"}]

CatalogElse ==
  /\ kind \in {"AUTO", "MOTO"} /\ wired \in [catalog : BOOLEAN, prices : BOOLEAN]
  /\ listing \in [Vehicles -> Published] /\ feature \in [Vehicles -> {"N", "I", Unknown}]
  /\ token \in [until : 0..(LastHour + TokenHours), login : Quoters \cup {Nobody}]
  /\ origins \in [Vehicles -> {"N", "I", Unknown}]
  /\ hour \in 0..LastHour /\ editions \in 0..MaxEditions /\ unanswered \in 0..MaxUnanswered

\* Who is past the year was listed at some moment, and what is remembered of the
\* listing is so now.
ListedSo(r, prices) ==
  /\ r.for # "year" \/ r.at \in {"price", "priced"} => r.listed # "never"
  /\ r.at \in {"asks", "waits", "login", "get"} =>
       /\ r.listed = "always" => Lists(prices, r.year)
       /\ r.listed = "never" => ~Lists(prices, r.year)

OriginSo(r, told) ==
  r.at \in {"price", "priced"} /\ ~r.blind => r.origin = told \/ (told = Unknown /\ r.origin = "N")

QuoterFits(r) ==
  r \in QuoterType /\ ListedSo(r, listing[r.vehicle].prices) /\ OriginSo(r, feature[r.vehicle])

\* Origins are remembered as InfoAuto tells them.
OriginsFit == \A v \in Vehicles : origins[v] # Unknown => origins[v] = feature[v]

AllQuotersFit == \A q \in Quoters : QuoterFits(quoter[q])

CatalogInv ==
  /\ CatalogElse /\ OriginsFit /\ OneLogin
  /\ quoter \in [Quoters -> QuoterType] /\ AllQuotersFit

LEMMA CatalogTyped == CatalogInv => CatalogTypeOK /\ CatalogFits
<1> SUFFICES ASSUME CatalogInv PROVE CatalogTypeOK /\ CatalogFits
  OBVIOUS
<1>1. CatalogTypeOK
  BY DEF CatalogInv, CatalogElse, CatalogTypeOK, QuoterType
<1>2. PricedIsListed
  BY DEF CatalogInv, AllQuotersFit, QuoterFits, ListedSo, PricedIsListed
<1>3. OriginIsNoGuess
  BY DEF CatalogInv, AllQuotersFit, QuoterFits, OriginSo, OriginIsNoGuess
<1>4. QED
  BY <1>1, <1>2, <1>3 DEF CatalogInv, CatalogFits

LEMMA ListsIsBoolean ==
  ASSUME NEW prices \in {"used", "new", "none"}, NEW year PROVE Lists(prices, year) \in BOOLEAN
BY DEF Lists

\* One quote changes and no login does.
LEMMA QuoterStep ==
  ASSUME CatalogInv, NEW q \in Quoters, NEW r, QuoterFits(r), r.at # "login", quoter[q].at # "login",
         r.at = "waits" => token.login # Nobody,
         Becomes(q, r), UNCHANGED <<kind, listing, feature, token>>, CatalogElse', OriginsFit'
  PROVE  CatalogInv'
<1>1. quoter \in [Quoters -> QuoterType] /\ r \in QuoterType
  BY DEF CatalogInv, QuoterFits
<1>2. \A p \in Quoters : quoter'[p] = IF p = q THEN r ELSE quoter[p]
  BY <1>1 DEF Becomes
<1>3. quoter' \in [Quoters -> QuoterType]
  BY <1>1 DEF Becomes
<1>4. OneLogin'
  BY <1>2 DEF CatalogInv, OneLogin
<1>5. \A p \in Quoters : QuoterFits(quoter'[p])
  BY <1>2 DEF CatalogInv, AllQuotersFit
<1>6. AllQuotersFit'
  <2>1. SUFFICES ASSUME NEW p \in Quoters
                 PROVE  /\ quoter'[p] \in QuoterType
                        /\ (ListedSo(quoter[p], listing[quoter[p].vehicle].prices))'
                        /\ (OriginSo(quoter[p], feature[quoter[p].vehicle]))'
    BY DEF AllQuotersFit, QuoterFits
  <2>2. quoter'[p] \in QuoterType /\ (OriginSo(quoter[p], feature[quoter[p].vehicle]))'
    BY <1>5 DEF QuoterFits, OriginSo
  <2>3. (ListedSo(quoter[p], listing[quoter[p].vehicle].prices))'
    BY <1>5 DEF QuoterFits, ListedSo, Lists
  <2>4. QED
    BY <2>2, <2>3
<1>7. QED
  BY <1>3, <1>4, <1>6 DEF CatalogInv

LEMMA IdleQuoterFits ==
  ASSUME CatalogElse
  PROVE  IdleQuoter \in QuoterType /\ QuoterFits(IdleQuoter)
<1>1. (CHOOSE v \in Vehicles : TRUE) \in Vehicles /\ ThisYear \in Years /\ 1 \in 1..LastPage
  BY CatalogParameters
<1>2. IdleQuoter \in QuoterType
  BY <1>1 DEF IdleQuoter, QuoterType, Purposes
<1>3. QED
  BY <1>2 DEF QuoterFits, ListedSo, OriginSo, IdleQuoter

LEMMA QuoteKeeps ==
  ASSUME CatalogInv, NEW q \in Quoters, NEW v \in Vehicles, NEW y \in Years, NEW zeroKm \in BOOLEAN, Quote(q, v, y, zeroKm)
  PROVE  CatalogInv'
<1> DEFINE prices == listing[v].prices
           r0 == [IdleQuoter EXCEPT !.vehicle = v, !.year = y]
           r1 == [r0 EXCEPT !.at = "refused"]
           r2 == [r0 EXCEPT !.at = "asks", !.listed = IF Lists(listing[v].prices, y) THEN "always" ELSE "never"]
<1>1. CatalogElse /\ IdleQuoter \in QuoterType
  BY IdleQuoterFits DEF CatalogInv
<1>2. QuoterFits(r1) /\ r1.at = "refused"
  BY <1>1 DEF QuoterFits, ListedSo, OriginSo, QuoterType, IdleQuoter, Purposes
<1>3. QuoterFits(r2) /\ r2.at = "asks"
  BY <1>1 DEF QuoterFits, ListedSo, OriginSo, QuoterType, IdleQuoter, Purposes
<1>4. quoter[q].at = "idle" /\ (Becomes(q, r1) \/ Becomes(q, r2))
      /\ UNCHANGED <<kind, wired, listing, feature, token, origins, hour, editions, unanswered>>
  BY DEF Quote
<1>5. CatalogElse' /\ OriginsFit'
  BY <1>1, <1>4 DEF CatalogInv, CatalogElse, OriginsFit
<1> HIDE DEF r1, r2
<1>6. QED
  BY <1>2, <1>3, <1>4, <1>5, QuoterStep DEF Becomes

\* What a quote goes on to keeps what it knows.
LEMMA GoesOn ==
  ASSUME CatalogInv, NEW r, QuoterFits(r), r.at \in {"waits", "login", "get"},
         r.for # "year" \/ r.listed # "never"
  PROVE  /\ QuoterFits(ToOrigin(r)) /\ ToOrigin(r).at \in {"price", "asks"}
         /\ QuoterFits(ToValue(r)) /\ ToValue(r).at \in {"price", "asks"}
<1>1. r \in QuoterType /\ r.listed # "never" /\ r.vehicle \in Vehicles
  BY DEF QuoterFits, ListedSo, QuoterType
<1>2. origins[r.vehicle] \in {"N", "I", Unknown} /\ (origins[r.vehicle] # Unknown => origins[r.vehicle] = feature[r.vehicle])
  BY <1>1 DEF CatalogInv, CatalogElse, OriginsFit
<1>3. QuoterFits(ToOrigin(r)) /\ ToOrigin(r).at \in {"price", "asks"}
  <2>1. CASE origins[r.vehicle] # Unknown
    <3> DEFINE s == [r EXCEPT !.at = "price", !.origin = origins[r.vehicle]]
    <3>1. ToOrigin(r) = s
      BY <2>1 DEF ToOrigin
    <3>2. QuoterFits(s)
      BY <1>1, <1>2, <2>1 DEF QuoterFits, ListedSo, OriginSo, QuoterType
    <3>3. QED
      BY <1>1, <3>1, <3>2 DEF QuoterType
  <2>2. CASE origins[r.vehicle] = Unknown
    <3> DEFINE s == [r EXCEPT !.at = "asks", !.for = "origin"]
    <3>1. ToOrigin(r) = s
      BY <2>2 DEF ToOrigin
    <3>2. QuoterFits(s)
      BY <1>1 DEF QuoterFits, ListedSo, OriginSo, QuoterType, Purposes
    <3>3. QED
      BY <1>1, <3>1, <3>2 DEF QuoterType
  <2>3. QED
    BY <2>1, <2>2
<1>4. QuoterFits(ToValue(r)) /\ ToValue(r).at \in {"price", "asks"}
  <2>1. CASE wired.prices
    <3> DEFINE s == [r EXCEPT !.at = "asks", !.for = IF r.year < ThisYear THEN "prices" ELSE "list"]
    <3>1. ToValue(r) = s
      BY <2>1 DEF ToValue
    <3>2. QuoterFits(s)
      BY <1>1 DEF QuoterFits, ListedSo, OriginSo, QuoterType, Purposes
    <3>3. QED
      BY <1>1, <3>1, <3>2 DEF QuoterType
  <2>2. CASE ~wired.prices
    BY <1>3, <2>2 DEF ToValue
  <2>3. QED
    BY <2>1, <2>2
<1>5. QED
  BY <1>3, <1>4

LEMMA GoesOnWithout ==
  ASSUME CatalogInv, NEW r, QuoterFits(r), r.at \in {"waits", "login", "get"}
  PROVE  QuoterFits(WithoutAnswer(r)) /\ WithoutAnswer(r).at \in {"failed", "price", "asks"}
<1>1. r \in QuoterType
  BY DEF QuoterFits
<1>2. CASE r.for = "year"
  <2>1. WithoutAnswer(r) = [r EXCEPT !.at = "failed"]
    BY <1>2 DEF WithoutAnswer
  <2>2. QED
    BY <1>1, <1>2, <2>1 DEF QuoterFits, ListedSo, OriginSo, QuoterType
<1>3. CASE r.for \in {"prices", "list"}
  <2>1. WithoutAnswer(r) = ToOrigin(r)
    BY <1>3 DEF WithoutAnswer
  <2>2. QED
    BY <1>3, <2>1, GoesOn
<1>4. CASE r.for = "origin"
  <2>1. WithoutAnswer(r) = [r EXCEPT !.at = "price", !.origin = "N", !.blind = TRUE]
    BY <1>4 DEF WithoutAnswer
  <2>2. QED
    BY <1>1, <1>4, <2>1 DEF QuoterFits, ListedSo, OriginSo, QuoterType
<1>5. QED
  BY <1>1, <1>2, <1>3, <1>4 DEF QuoterType, Purposes

LEMMA AskTokenKeeps ==
  ASSUME CatalogInv, NEW q \in Quoters, AskToken(q) PROVE CatalogInv'
<1> DEFINE r == [quoter[q] EXCEPT !.at = Door]
<1>1. CatalogElse /\ QuoterFits(quoter[q]) /\ quoter[q] \in QuoterType /\ quoter[q].at = "asks"
  BY DEF CatalogInv, AllQuotersFit, QuoterFits, AskToken
<1>2. Door \in {"get", "waits", "login"} /\ (Door = "waits" => token.login # Nobody) /\ (Door = "login" => token.login = Nobody)
  BY DEF Door
<1>3. r \in QuoterType /\ r.at = Door
  BY <1>1, <1>2 DEF QuoterType
<1>4. QuoterFits(r)
  BY <1>1, <1>2, <1>3 DEF QuoterFits, ListedSo, OriginSo, QuoterType
<1>5. CASE Door # "login"
  <2>1. token' = token
    BY <1>1, <1>5 DEF AskToken, CatalogElse
  <2>2. CatalogElse' /\ OriginsFit' /\ Becomes(q, r) /\ UNCHANGED <<kind, listing, feature, token>>
    BY <1>1, <2>1 DEF AskToken, CatalogInv, CatalogElse, OriginsFit
  <2> HIDE DEF r
  <2>3. QED
    BY <1>1, <1>2, <1>3, <1>4, <1>5, <2>2, QuoterStep
<1>6. CASE Door = "login"
  <2>1. token' = [token EXCEPT !.login = q] /\ token'.login = q /\ token'.until = token.until
    BY <1>1, <1>6 DEF AskToken, CatalogElse
  <2>2. CatalogElse' /\ OriginsFit' /\ UNCHANGED <<kind, listing, feature>>
    BY <1>1, <2>1 DEF AskToken, CatalogInv, CatalogElse, OriginsFit
  <2>3. quoter' = [quoter EXCEPT ![q] = r] /\ quoter \in [Quoters -> QuoterType]
    BY DEF AskToken, Becomes, CatalogInv
  <2> HIDE DEF r
  <2>4. \A p \in Quoters : quoter'[p] = IF p = q THEN r ELSE quoter[p]
    BY <2>3
  <2>5. quoter' \in [Quoters -> QuoterType]
    BY <1>3, <2>3
  <2>6. \A p \in Quoters : quoter[p].at # "login" /\ quoter[p].at # "waits"
    BY <1>2, <1>6, CatalogParameters DEF CatalogInv, OneLogin
  <2>7. q # Nobody
    BY CatalogParameters
  <2>8. OneLogin'
    BY <1>3, <1>6, <2>1, <2>4, <2>6, <2>7 DEF OneLogin
  <2>9. \A p \in Quoters : QuoterFits(quoter'[p])
    BY <1>4, <2>4 DEF CatalogInv, AllQuotersFit
  <2>10. AllQuotersFit'
    BY <2>2, <2>9 DEF AllQuotersFit, QuoterFits, OriginSo, ListedSo, Lists
  <2>11. QED
    BY <2>2, <2>5, <2>8, <2>10 DEF CatalogInv
<1>7. QED
  BY <1>5, <1>6

\* A login that ends leaves nobody waiting, whatever becomes of those who did.
LEMMA LoginEnds ==
  ASSUME CatalogInv, NEW q \in Quoters, quoter[q].at = "login", NEW next,
         quoter' = [p \in Quoters |-> IF p \in Waiting(q) THEN next[p] ELSE quoter[p]],
         \A p \in Waiting(q) : QuoterFits(next[p]) /\ next[p].at \notin {"login", "waits"},
         token'.login = Nobody, UNCHANGED <<kind, listing, feature>>, CatalogElse', OriginsFit'
  PROVE  CatalogInv'
<1>1. \A p \in Quoters : quoter'[p] = IF p \in Waiting(q) THEN next[p] ELSE quoter[p]
  OBVIOUS
<1>2. \A p \in Quoters : QuoterFits(quoter'[p])
  BY <1>1 DEF CatalogInv, AllQuotersFit
<1>3. quoter' \in [Quoters -> QuoterType]
  BY <1>2 DEF QuoterFits
<1>4. \A p \in Quoters : (quoter'[p]).at \notin {"login", "waits"}
  <2>1. SUFFICES ASSUME NEW p \in Quoters, p \notin Waiting(q) PROVE quoter[p].at \notin {"login", "waits"}
    BY <1>1
  <2>2. p # q /\ quoter[p].at # "waits"
    BY <2>1 DEF Waiting
  <2>3. QED
    BY <2>2 DEF CatalogInv, OneLogin
<1>5. OneLogin'
  BY <1>4, CatalogParameters DEF OneLogin
<1>6. AllQuotersFit'
  BY <1>2 DEF AllQuotersFit, QuoterFits, OriginSo, ListedSo, Lists
<1>7. QED
  BY <1>3, <1>5, <1>6 DEF CatalogInv

LEMMA LoginAnswersKeeps ==
  ASSUME CatalogInv, NEW q \in Quoters, LoginAnswers(q) PROVE CatalogInv'
<1> DEFINE next == [p \in Quoters |-> [quoter[p] EXCEPT !.at = "get"]]
<1>1. CatalogElse /\ quoter[q].at = "login"
  BY DEF CatalogInv, LoginAnswers
<1>2. quoter' = [p \in Quoters |-> IF p \in Waiting(q) THEN next[p] ELSE quoter[p]]
  BY DEF LoginAnswers
<1>3. ASSUME NEW p \in Waiting(q) PROVE QuoterFits(next[p]) /\ next[p].at \notin {"login", "waits"}
  <2>1. QuoterFits(quoter[p]) /\ quoter[p] \in QuoterType /\ quoter[p].at \in {"login", "waits"} /\ p \in Quoters
    BY <1>1 DEF CatalogInv, AllQuotersFit, QuoterFits, Waiting
  <2>2. QED
    BY <2>1 DEF QuoterFits, ListedSo, OriginSo, QuoterType
<1>4. hour + TokenHours \in 0..(LastHour + TokenHours)
  BY <1>1, CatalogParameters DEF CatalogElse
<1>5. CatalogElse' /\ OriginsFit' /\ UNCHANGED <<kind, listing, feature>> /\ token'.login = Nobody
  BY <1>1, <1>4 DEF LoginAnswers, CatalogInv, CatalogElse, OriginsFit
<1> HIDE DEF next
<1>6. QED
  BY <1>1, <1>2, <1>3, <1>5, LoginEnds

LEMMA LoginFailsKeeps ==
  ASSUME CatalogInv, NEW q \in Quoters, LoginFails(q) PROVE CatalogInv'
<1> DEFINE next == [p \in Quoters |-> WithoutAnswer(quoter[p])]
<1>1. CatalogElse /\ quoter[q].at = "login"
  BY DEF CatalogInv, LoginFails
<1>2. quoter' = [p \in Quoters |-> IF p \in Waiting(q) THEN next[p] ELSE quoter[p]]
  BY DEF LoginFails
<1>3. ASSUME NEW p \in Waiting(q) PROVE QuoterFits(next[p]) /\ next[p].at \notin {"login", "waits"}
  <2>1. QuoterFits(quoter[p]) /\ quoter[p].at \in {"waits", "login", "get"} /\ p \in Quoters
    BY <1>1 DEF CatalogInv, AllQuotersFit, Waiting
  <2>2. next[p] = WithoutAnswer(quoter[p])
    BY <2>1
  <2>3. QED
    BY <2>1, <2>2, GoesOnWithout
<1>4. CatalogElse' /\ OriginsFit' /\ UNCHANGED <<kind, listing, feature>> /\ token'.login = Nobody
  BY <1>1, CatalogParameters DEF LoginFails, Fails, CatalogInv, CatalogElse, OriginsFit
<1> HIDE DEF next
<1>5. QED
  BY <1>1, <1>2, <1>3, <1>4, LoginEnds

LEMMA PageAnswersKeeps ==
  ASSUME CatalogInv, NEW q \in Quoters, PageAnswers(q) PROVE CatalogInv'
<1> DEFINE r == quoter[q]
           refused == [r EXCEPT !.at = "refused"]
           further == [r EXCEPT !.at = "asks", !.page = @ + 1]
<1>1. QuoterFits(r) /\ r \in QuoterType /\ r.at = "get" /\ r.for = "year"
  BY DEF CatalogInv, AllQuotersFit, QuoterFits, PageAnswers
<1>2. CatalogElse' /\ OriginsFit' /\ UNCHANGED <<kind, listing, feature, token>>
  BY DEF PageAnswers, CatalogInv, CatalogElse, OriginsFit
<1>3. \/ Lists(listing[r.vehicle].prices, r.year) /\ Becomes(q, ToValue(r))
      \/ r.page < LastPage /\ Becomes(q, further)
      \/ Becomes(q, refused)
  BY DEF PageAnswers
<1>4. CASE Becomes(q, refused)
  <2>1. QuoterFits(refused) /\ refused.at = "refused"
    BY <1>1 DEF QuoterFits, ListedSo, OriginSo, QuoterType
  <2> HIDE DEF refused
  <2>2. QED
    BY <1>1, <1>2, <1>4, <2>1, QuoterStep
<1>5. CASE r.page < LastPage /\ Becomes(q, further)
  <2>1. r.page + 1 \in 1..LastPage
    BY <1>1, <1>5, CatalogParameters DEF QuoterType
  <2>2. QuoterFits(further) /\ further.at = "asks"
    BY <1>1, <2>1 DEF QuoterFits, ListedSo, OriginSo, QuoterType
  <2> HIDE DEF further
  <2>3. QED
    BY <1>1, <1>2, <1>5, <2>2, QuoterStep
<1>6. CASE Lists(listing[r.vehicle].prices, r.year) /\ Becomes(q, ToValue(r))
  <2>1. r.listed # "never"
    BY <1>1, <1>6 DEF QuoterFits, ListedSo
  <2>2. QuoterFits(ToValue(r)) /\ ToValue(r).at \in {"price", "asks"}
    BY <1>1, <2>1, GoesOn
  <2>3. QED
    BY <1>1, <1>2, <1>6, <2>2, QuoterStep
<1>7. QED
  BY <1>3, <1>4, <1>5, <1>6

LEMMA ValueAnswersKeeps ==
  ASSUME CatalogInv, NEW q \in Quoters, ValueAnswers(q) PROVE CatalogInv'
<1> DEFINE r == quoter[q]
           list == [r EXCEPT !.at = "asks", !.for = "list"]
<1>1. QuoterFits(r) /\ r \in QuoterType /\ r.at = "get" /\ r.for # "year"
  BY DEF CatalogInv, AllQuotersFit, QuoterFits, ValueAnswers
<1>2. CatalogElse' /\ OriginsFit' /\ UNCHANGED <<kind, listing, feature, token>>
  BY DEF ValueAnswers, CatalogInv, CatalogElse, OriginsFit
<1>3. Becomes(q, list) \/ Becomes(q, ToOrigin(r))
  BY DEF ValueAnswers
<1>4. QuoterFits(list) /\ list.at = "asks"
  BY <1>1 DEF QuoterFits, ListedSo, OriginSo, QuoterType, Purposes
<1>5. QuoterFits(ToOrigin(r)) /\ ToOrigin(r).at \in {"price", "asks"}
  BY <1>1, GoesOn
<1> HIDE DEF list
<1>6. QED
  BY <1>1, <1>2, <1>3, <1>4, <1>5, QuoterStep

LEMMA OriginAnswersKeeps ==
  ASSUME CatalogInv, NEW q \in Quoters, OriginAnswers(q) PROVE CatalogInv'
<1> DEFINE r == quoter[q]
           told == feature[r.vehicle]
           s == [r EXCEPT !.at = "price", !.origin = IF told = Unknown THEN "N" ELSE told]
<1>1. CatalogElse /\ QuoterFits(r) /\ r \in QuoterType /\ r.at = "get" /\ r.for = "origin" /\ r.vehicle \in Vehicles
  BY DEF CatalogInv, AllQuotersFit, QuoterFits, OriginAnswers, QuoterType
<1>2. told \in {"N", "I", Unknown}
  BY <1>1 DEF CatalogElse
<1>3. QuoterFits(s) /\ s.at = "price"
  BY <1>1, <1>2 DEF QuoterFits, ListedSo, OriginSo, QuoterType
<1>4. origins' \in [Vehicles -> {"N", "I", Unknown}] /\ OriginsFit'
  BY <1>1, <1>2 DEF OriginAnswers, CatalogInv, CatalogElse, OriginsFit
<1>5. CatalogElse' /\ Becomes(q, s) /\ UNCHANGED <<kind, listing, feature, token>>
  BY <1>1, <1>4 DEF OriginAnswers, CatalogElse
<1> HIDE DEF s
<1>6. QED
  BY <1>1, <1>3, <1>4, <1>5, QuoterStep

LEMMA GetFailsKeeps ==
  ASSUME CatalogInv, NEW q \in Quoters, GetFails(q) PROVE CatalogInv'
<1>1. CatalogElse /\ QuoterFits(quoter[q]) /\ quoter[q].at = "get"
  BY DEF CatalogInv, AllQuotersFit, GetFails
<1>2. QuoterFits(WithoutAnswer(quoter[q])) /\ WithoutAnswer(quoter[q]).at \in {"failed", "price", "asks"}
  BY <1>1, GoesOnWithout
<1>3. CatalogElse' /\ OriginsFit' /\ Becomes(q, WithoutAnswer(quoter[q])) /\ UNCHANGED <<kind, listing, feature, token>>
  BY <1>1, CatalogParameters DEF GetFails, Fails, CatalogInv, CatalogElse, OriginsFit
<1>4. QED
  BY <1>1, <1>2, <1>3, QuoterStep

LEMMA TriunfoKeeps ==
  ASSUME CatalogInv, NEW q \in Quoters, TriunfoAnswers(q) \/ TriunfoFails(q) PROVE CatalogInv'
<1> DEFINE priced == [quoter[q] EXCEPT !.at = "priced"]
           failed == [quoter[q] EXCEPT !.at = "failed"]
<1>1. CatalogElse /\ QuoterFits(quoter[q]) /\ quoter[q] \in QuoterType /\ quoter[q].at = "price"
  BY DEF CatalogInv, AllQuotersFit, QuoterFits, TriunfoAnswers, TriunfoFails
<1>2. QuoterFits(priced) /\ priced.at = "priced"
  BY <1>1 DEF QuoterFits, ListedSo, OriginSo, QuoterType
<1>3. QuoterFits(failed) /\ failed.at = "failed"
  BY <1>1 DEF QuoterFits, ListedSo, OriginSo, QuoterType
<1>4. CatalogElse' /\ OriginsFit' /\ (Becomes(q, priced) \/ Becomes(q, failed)) /\ UNCHANGED <<kind, listing, feature, token>>
  BY <1>1, CatalogParameters DEF TriunfoAnswers, TriunfoFails, Fails, CatalogInv, CatalogElse, OriginsFit
<1> HIDE DEF priced, failed
<1>5. QED
  BY <1>1, <1>2, <1>3, <1>4, QuoterStep

\* A publication makes "once" what no longer is as it was.
LEMMA PublishesKeeps ==
  ASSUME CatalogInv, NEW v \in Vehicles, NEW new \in Published, Publishes(v, new) PROVE CatalogInv'
<1> DEFINE Touched(p) == quoter[p].vehicle = v /\ quoter[p].at # "idle" /\ Listed(p) # Lists(new.prices, quoter[p].year)
<1>1. CatalogElse /\ quoter \in [Quoters -> QuoterType] /\ new.prices \in {"used", "new", "none"}
  BY DEF CatalogInv, Published
<1>2. listing' = [listing EXCEPT ![v] = new] /\ UNCHANGED <<kind, wired, feature, token, origins, hour, unanswered>>
  BY DEF Publishes
<1>3. \A p \in Quoters : quoter'[p] = IF Touched(p) THEN [quoter[p] EXCEPT !.listed = "once"] ELSE quoter[p]
  BY DEF Publishes
<1>4. \A p \in Quoters : /\ quoter'[p] \in QuoterType
                           /\ (quoter'[p]).at = quoter[p].at /\ (quoter'[p]).for = quoter[p].for
                           /\ (quoter'[p]).vehicle = quoter[p].vehicle /\ (quoter'[p]).year = quoter[p].year
                           /\ (quoter'[p]).origin = quoter[p].origin /\ (quoter'[p]).blind = quoter[p].blind
                           /\ (quoter'[p]).listed = IF Touched(p) THEN "once" ELSE quoter[p].listed
  <2>1. SUFFICES ASSUME NEW p \in Quoters
                 PROVE  /\ quoter'[p] \in QuoterType
                        /\ (quoter'[p]).at = quoter[p].at /\ (quoter'[p]).for = quoter[p].for
                        /\ (quoter'[p]).vehicle = quoter[p].vehicle /\ (quoter'[p]).year = quoter[p].year
                        /\ (quoter'[p]).origin = quoter[p].origin /\ (quoter'[p]).blind = quoter[p].blind
                        /\ (quoter'[p]).listed = IF Touched(p) THEN "once" ELSE quoter[p].listed
    OBVIOUS
  <2>2. quoter[p] \in QuoterType
    BY <1>1
  <2>3. CASE Touched(p)
    <3>1. quoter'[p] = [quoter[p] EXCEPT !.listed = "once"]
      BY <1>3, <2>3
    <3> HIDE DEF Touched
    <3>2. QED
      BY <2>2, <2>3, <3>1 DEF QuoterType
  <2>4. CASE ~Touched(p)
    <3>1. quoter'[p] = quoter[p]
      BY <1>3, <2>4
    <3> HIDE DEF Touched
    <3>2. QED
      BY <2>2, <2>4, <3>1
  <2>5. QED
    BY <2>3, <2>4
<1>5. quoter' \in [Quoters -> QuoterType]
  <2>1. quoter' = [p \in Quoters |-> quoter'[p]]
    BY DEF Publishes
  <2>2. QED
    BY <1>4, <2>1
<1>6. OneLogin'
  BY <1>2, <1>4 DEF CatalogInv, OneLogin
<1>7. CatalogElse' /\ OriginsFit'
  BY <1>1, <1>2, CatalogParameters DEF Publishes, CatalogInv, CatalogElse, OriginsFit
<1>8. AllQuotersFit'
  <2>1. SUFFICES ASSUME NEW p \in Quoters
                 PROVE  /\ (ListedSo(quoter[p], listing[quoter[p].vehicle].prices))'
                        /\ (OriginSo(quoter[p], feature[quoter[p].vehicle]))'
    BY <1>4 DEF AllQuotersFit, QuoterFits
  <2>2. (OriginSo(quoter[p], feature[quoter[p].vehicle]))'
    BY <1>2, <1>4 DEF CatalogInv, AllQuotersFit, QuoterFits, OriginSo
  <2>3. ListedSo(quoter[p], listing[quoter[p].vehicle].prices) /\ quoter[p] \in QuoterType
    BY DEF CatalogInv, AllQuotersFit, QuoterFits
  <2>4. quoter[p].listed \in {"never", "once", "always"} /\ quoter[p].vehicle \in Vehicles
    BY <2>3 DEF QuoterType
  <2>5. Lists(new.prices, quoter[p].year) \in BOOLEAN
    BY <1>1, ListsIsBoolean
  <2>6. listing'[(quoter'[p]).vehicle] = IF quoter[p].vehicle = v THEN new ELSE listing[quoter[p].vehicle]
    BY <1>1, <1>2, <1>4, <2>4 DEF CatalogElse
  <2>7. (ListedSo(quoter[p], listing[quoter[p].vehicle].prices))'
    <3>1. CASE quoter[p].vehicle = v
      <4>1. listing'[(quoter'[p]).vehicle].prices = new.prices
        BY <2>6, <3>1
      <4>2. quoter[p].at # "idle" => Touched(p) <=> (quoter[p].listed = "always") # Lists(new.prices, quoter[p].year)
        BY <3>1 DEF Listed
      <4>3. CASE Touched(p)
        BY <1>4, <4>3 DEF ListedSo
      <4>4. CASE ~Touched(p)
        <5>1. quoter[p].at # "idle" => (quoter[p].listed = "always") = Lists(new.prices, quoter[p].year)
          BY <3>1, <4>4 DEF Listed
        <5> HIDE DEF Touched
        <5>2. quoter[p].at # "idle" =>
                /\ quoter[p].listed = "always" => Lists(new.prices, quoter[p].year)
                /\ quoter[p].listed = "never" => ~Lists(new.prices, quoter[p].year)
          BY <2>5, <5>1
        <5>3. QED
          BY <1>2, <1>4, <2>3, <4>1, <4>4, <5>2 DEF ListedSo, Lists
      <4>5. QED
        BY <4>3, <4>4
    <3>2. CASE quoter[p].vehicle # v
      <4>1. ~Touched(p)
        BY <3>2
      <4> HIDE DEF Touched
      <4>2. QED
        BY <1>2, <1>4, <2>3, <2>6, <3>2, <4>1 DEF ListedSo, Lists
    <3>3. QED
      BY <3>1, <3>2
  <2>8. QED
    BY <2>2, <2>7
<1>9. QED
  BY <1>5, <1>6, <1>7, <1>8 DEF CatalogInv

LEMMA CatalogNextInv == CatalogInv /\ [CatalogNext]_catalogVars => CatalogInv'
<1> SUFFICES ASSUME CatalogInv, [CatalogNext]_catalogVars PROVE CatalogInv'
  OBVIOUS
<1>1. CASE UNCHANGED catalogVars
  <2>1. CatalogElse' /\ OriginsFit' /\ OneLogin' /\ (quoter \in [Quoters -> QuoterType])'
    BY <1>1 DEF catalogVars, CatalogInv, CatalogElse, OriginsFit, OneLogin
  <2>2. AllQuotersFit'
    BY <1>1 DEF catalogVars, CatalogInv, AllQuotersFit, QuoterFits, OriginSo, ListedSo, Lists
  <2>3. QED
    BY <2>1, <2>2 DEF CatalogInv
<1>2. CASE HourPasses
  <2>1. CatalogElse' /\ OriginsFit' /\ OneLogin' /\ (quoter \in [Quoters -> QuoterType])'
    BY <1>2, CatalogParameters DEF HourPasses, CatalogInv, CatalogElse, OriginsFit, OneLogin
  <2>2. AllQuotersFit'
    BY <1>2 DEF HourPasses, CatalogInv, AllQuotersFit, QuoterFits, OriginSo, ListedSo, Lists
  <2>3. QED
    BY <2>1, <2>2 DEF CatalogInv
<1>3. QED
  BY <1>1, <1>2, QuoteKeeps, AskTokenKeeps, LoginAnswersKeeps, LoginFailsKeeps, PageAnswersKeeps, ValueAnswersKeeps,
     OriginAnswersKeeps, GetFailsKeeps, TriunfoKeeps, PublishesKeeps DEF CatalogNext

LEMMA CatalogInitInv == CatalogInit => CatalogInv
<1> SUFFICES ASSUME CatalogInit PROVE CatalogInv
  OBVIOUS
<1>1. CatalogElse /\ OriginsFit
  BY CatalogParameters DEF CatalogInit, CatalogElse, OriginsFit
<1>2. IdleQuoter \in QuoterType /\ QuoterFits(IdleQuoter)
  BY <1>1, IdleQuoterFits
<1>3. \A q \in Quoters : quoter[q] = IdleQuoter
  BY DEF CatalogInit
<1>4. (quoter \in [Quoters -> QuoterType]) /\ AllQuotersFit
  BY <1>2, <1>3 DEF CatalogInit, AllQuotersFit
<1>5. OneLogin
  BY <1>3, CatalogParameters DEF CatalogInit, OneLogin, IdleQuoter
<1>6. QED
  BY <1>1, <1>4, <1>5 DEF CatalogInv
-----------------------------------------------------------------------------
(* The portfolio: one run, what it reads in order *)

RunType == [step : RunSteps, from : Months, whole : BOOLEAN, read : SUBSET Sups,
            todo : SUBSET Sups, clean : BOOLEAN, free : BOOLEAN]
PostType == [month : 0..NoMonth, estado : Estados]
CuotaType == [exists : BOOLEAN, status : {"paid", "rejected", "pending", "overdue"}, estado : Estados, deleted : BOOLEAN]

SyncElse ==
  /\ posted \in [Sups -> PostType]
  /\ month \in Months /\ stamped \in 0..NoMonth /\ syncing \in BOOLEAN
  /\ client \in {"none", "bare", "mailed"} /\ taken \in BOOLEAN
  /\ policy \in 0..LastSup /\ cuota \in CuotaType
  /\ written \subseteq Sups /\ dropped \subseteq Sups /\ owed \subseteq Sups /\ cut \in BOOLEAN /\ lastRead \subseteq Sups
  /\ failing \in 0..MaxFailing

OneRun ==
  /\ \A r \in Runs : run[r].step # "idle" => syncing
  /\ \A r, q \in Runs : run[r].step # "idle" /\ run[q].step # "idle" => r = q

Reading == {"next", "finding", "checking", "creating", "filling", "policy", "cuota", "cancelling", "stamping"}

PolicyAt(r) ==
  IF run[r].step \in {"cuota", "cancelling"} THEN policy = Current(r)
  ELSE run[r].read \ run[r].todo # {} => policy = Max(run[r].read \ run[r].todo)

\* What a run has done of what it read: everything before what is left, in order.
RunFits(r) ==
  /\ run[r].step # "idle" => run[r].whole = (stamped = NoMonth)
  /\ run[r].step \in Reading =>
       /\ run[r].todo \subseteq run[r].read
       /\ run[r].step = "stamping" => run[r].todo = {}
       /\ run[r].step \notin {"next", "stamping"} => run[r].todo # {}
       /\ \A s \in run[r].read \ run[r].todo, t \in run[r].todo : s < t
       /\ run[r].whole => run[r].read \ run[r].todo \subseteq written \cup dropped
       /\ \A s \in Sups : posted[s].month \in run[r].from..month /\ posted[s].month < month => s \in run[r].read
       /\ run[r].clean => PolicyAt(r)
  /\ run[r].step = "cancelling" => cuota.exists /\ cuota.estado = "ANULADA"

RunsFit == \A r \in Runs : RunFits(r)

LastReadHolds == lastRead # {} => policy = Max(lastRead)

\* Between two runs, and until one has read.
AtRest == (\A r \in Runs : run[r].step \in {"idle", "asking"}) => LastReadHolds

SyncInv ==
  /\ SyncElse /\ run \in [Runs -> RunType]
  /\ OneRun /\ RunsFit /\ AtRest /\ BackfillWhole /\ CuotaIsTriunfos

LEMMA SyncTyped == SyncInv => SyncTypeOK /\ PortfolioFits
<1> SUFFICES ASSUME SyncInv PROVE SyncTypeOK /\ PortfolioFits
  OBVIOUS
<1>1. SyncTypeOK
  BY DEF SyncInv, SyncElse, SyncTypeOK, RunType, PostType, CuotaType
<1>2. NewestStays
  BY DEF SyncInv, OneRun, AtRest, LastReadHolds, NewestStays
<1>3. QED
  BY <1>1, <1>2 DEF SyncInv, PortfolioFits, PortfolioFollows

LEMMA SyncNumbers ==
  /\ {LastSup, Backfill, Incremental, Due, LastMonth, MaxFailing} \subseteq Nat
  /\ Sups \subseteq Nat /\ Months \subseteq Nat /\ NoMonth \in Nat /\ NoMonth \notin Months /\ 0 \in Months
  /\ Months \subseteq 0..NoMonth
  /\ IdleRun \in RunType /\ IdleRun.step = "idle"
<1>1. /\ {LastSup, Backfill, Incremental, Due, LastMonth, MaxFailing} \subseteq Nat
      /\ Sups \subseteq Nat /\ Months \subseteq Nat /\ NoMonth \in Nat /\ NoMonth \notin Months /\ 0 \in Months
      /\ Months \subseteq 0..NoMonth
  BY SyncParameters DEF Sups, Months, NoMonth
<1>2. QED
  BY <1>1 DEF IdleRun, RunType, RunSteps

\* Of some endorsements, one is the oldest.
LEMMA OldestOne ==
  ASSUME NEW S \in SUBSET Nat, S # {}
  PROVE  Min(S) \in S /\ \A t \in S : Min(S) <= t
<1> DEFINE R == OpToRel(<, Nat)
<1>1. IsWellFoundedOn(R, Nat)
  BY NatLessThanWellFounded, Zenon
<1> HIDE DEF R
<1>2. PICK a \in S : \A b \in S : ~(<<b, a>> \in R)
  BY <1>1, WFMin
<1>3. ASSUME NEW b \in S PROVE a <= b
  <2>1. a \in Nat /\ b \in Nat /\ ~(<<b, a>> \in R)
    BY <1>2
  <2>2. ~(b < a)
    BY <2>1 DEF R, OpToRel
  <2>3. QED
    BY <2>1, <2>2
<1>4. \E x \in S : \A y \in S : x <= y
  BY <1>2, <1>3
<1>5. QED
  BY <1>4 DEF Min

LEMMA NewestIs ==
  ASSUME NEW S \in SUBSET Nat, NEW c \in S, \A s \in S : s <= c
  PROVE  Max(S) = c
<1>1. c \in S /\ \A y \in S : c >= y
  OBVIOUS
<1>2. Max(S) \in S /\ \A y \in S : Max(S) >= y
  BY <1>1 DEF Max
<1>3. Max(S) \in Nat /\ c \in Nat /\ Max(S) <= c /\ c <= Max(S)
  BY <1>1, <1>2
<1>4. QED
  BY <1>3

\* The novedad a run is at is the oldest it has left.
LEMMA CurrentIs ==
  ASSUME SyncInv, NEW r \in Runs, run[r].todo # {}
  PROVE  /\ Current(r) \in run[r].todo /\ Current(r) \in Sups /\ Current(r) \in Nat
         /\ \A t \in run[r].todo : Current(r) <= t
<1>1. run[r].todo \subseteq Sups
  BY DEF SyncInv, RunType
<1>2. run[r].todo \in SUBSET Nat
  BY <1>1, SyncNumbers
<1>3. QED
  BY <1>1, <1>2, OldestOne, SyncNumbers DEF Current

\* A step of the run in course.
LEMMA RunStep ==
  ASSUME SyncInv, NEW r \in Runs, run[r].step # "idle",
         run' = [run EXCEPT ![r] = run'[r]], run'[r] \in RunType, (run'[r]).step # "idle" => syncing',
         RunFits(r)', SyncElse', (run'[r]).step \in {"idle", "asking"} => LastReadHolds',
         BackfillWhole', CuotaIsTriunfos'
  PROVE  SyncInv'
<1>1. run' \in [Runs -> RunType] /\ \A q \in Runs \ {r} : run'[q] = run[q] /\ run[q].step = "idle"
  <2> DEFINE s == run'[r]
  <2>1. s \in RunType /\ run' = [run EXCEPT ![r] = s] /\ run \in [Runs -> RunType]
    BY DEF SyncInv
  <2> HIDE DEF s
  <2>2. run' \in [Runs -> RunType] /\ \A q \in Runs \ {r} : run'[q] = run[q]
    BY <2>1
  <2>3. QED
    BY <2>2 DEF SyncInv, OneRun
<1>2. OneRun'
  BY <1>1 DEF OneRun
<1>3. RunsFit'
  <2>1. \A q \in Runs \ {r} : (RunFits(q))'
    BY <1>1 DEF RunFits, Reading
  <2>2. QED
    BY <2>1 DEF RunsFit
<1>4. AtRest'
  BY DEF AtRest
<1>5. QED
  BY <1>1, <1>2, <1>3, <1>4 DEF SyncInv

\* What a statement that leaves the installment alone says of it.
LEMMA CuotaStays ==
  ASSUME SyncInv, NEW r \in Runs, run[r].step # "cancelling",
         run' = [run EXCEPT ![r] = run'[r]], UNCHANGED <<cuota, cut>>
  PROVE  CuotaIsTriunfos'
<1>1. \A q \in Runs \ {r} : run'[q] = run[q]
  BY DEF SyncInv
<1>2. (\A q \in Runs : (run'[q]).step # "cancelling") => \A q \in Runs : run[q].step # "cancelling"
  BY <1>1
<1>3. QED
  BY <1>2 DEF SyncInv, CuotaIsTriunfos

\* A statement between those that write the policy and its installment.
LEMMA BetweenKeeps ==
  ASSUME SyncInv, NEW r \in Runs, NEW step \in Reading \ {"cuota", "cancelling"},
         run[r].step \in Reading \ {"cuota", "cancelling"}, run'[r] \in RunType,
         run' = [run EXCEPT ![r] = run'[r]], (run'[r]).step = step,
         (run'[r]).whole = run[r].whole, (run'[r]).read = run[r].read, (run'[r]).todo = run[r].todo,
         (run'[r]).from = run[r].from, (run'[r]).clean = run[r].clean,
         step = "stamping" => run[r].todo = {}, step \notin {"next", "stamping"} => run[r].todo # {},
         client' \in {"none", "bare", "mailed"},
         UNCHANGED <<posted, month, stamped, syncing, taken, policy, cuota, syncHistory, failing>>
  PROVE  SyncInv'
<1>1. run[r].step \notin {"idle", "asking"} /\ step \notin {"idle", "asking"}
  BY DEF Reading
<1>2. RunFits(r) /\ SyncElse /\ BackfillWhole /\ syncing
  BY <1>1 DEF SyncInv, RunsFit, OneRun
<1>3. RunFits(r)'
  <2>1. run[r].clean => PolicyAt(r)
    BY <1>2 DEF RunFits
  <2>2. (run'[r]).clean => PolicyAt(r)'
    BY <2>1 DEF PolicyAt, Current
  <2>3. UNCHANGED <<written, dropped>>
    BY DEF syncHistory
  <2>4. QED
    BY <1>1, <1>2, <2>2, <2>3 DEF RunFits
<1>4. SyncElse' /\ BackfillWhole' /\ syncing'
  BY <1>2 DEF SyncElse, syncHistory, BackfillWhole
<1>5. CuotaIsTriunfos'
  BY CuotaStays DEF syncHistory
<1>6. QED
  BY <1>1, <1>3, <1>4, <1>5, RunStep

LEMMA TheSteps ==
  /\ RunSteps = {"idle", "asking"} \cup Reading
  /\ InNovedad \subseteq Reading \ {"next", "stamping", "filling"}
BY DEF RunSteps, Reading, InNovedad

LEMMA RunToIs ==
  ASSUME SyncInv, NEW r \in Runs, NEW step \in RunSteps, RunTo(r, step)
  PROVE  /\ run' = [run EXCEPT ![r] = run'[r]] /\ run'[r] \in RunType /\ (run'[r]).step = step
         /\ (run'[r]).whole = run[r].whole /\ (run'[r]).read = run[r].read /\ (run'[r]).todo = run[r].todo
         /\ (run'[r]).from = run[r].from /\ (run'[r]).clean = run[r].clean
<1>1. run \in [Runs -> RunType] /\ run[r] \in RunType
  BY DEF SyncInv
<1>2. run' = [run EXCEPT ![r] = [run[r] EXCEPT !.step = step]]
  BY DEF RunTo
<1>3. run'[r] = [run[r] EXCEPT !.step = step]
  BY <1>1, <1>2
<1>4. run' = [run EXCEPT ![r] = run'[r]]
  BY <1>2, <1>3
<1>5. QED
  BY <1>1, <1>3, <1>4 DEF RunType

LEMMA BetweenSteps ==
  ASSUME SyncInv, NEW r \in Runs, NextNovedad(r) \/ FindClient(r) \/ FillEmail(r) PROVE SyncInv'
<1>1. run[r].step \in {"next", "finding", "filling"} /\ RunFits(r) /\ SyncElse
  BY DEF NextNovedad, FindClient, FillEmail, SyncInv, RunsFit
<1>2. PICK step \in {"stamping", "finding", "checking", "filling", "policy"} :
        /\ RunTo(r, step)
        /\ step = "stamping" => run[r].todo = {}
        /\ step # "stamping" => run[r].todo # {}
  <2>1. CASE NextNovedad(r)
    BY <2>1 DEF NextNovedad
  <2>2. CASE FindClient(r) \/ FillEmail(r)
    <3>1. run[r].todo # {}
      BY <1>1, <2>2 DEF RunFits, FindClient, FillEmail, Reading
    <3>2. QED
      BY <2>2, <3>1 DEF FindClient, FillEmail
  <2>3. QED
    BY <2>1, <2>2
<1>3. step \in RunSteps /\ step \in Reading \ {"cuota", "cancelling"} /\ run[r].step \in Reading \ {"cuota", "cancelling"}
  BY <1>1, <1>2 DEF RunSteps, Reading
<1>4. client' \in {"none", "bare", "mailed"} /\ UNCHANGED <<posted, month, stamped, syncing, taken, policy, cuota, syncHistory, failing>>
  BY <1>1 DEF NextNovedad, FindClient, FillEmail, SyncElse, portfolio
<1>5. QED
  BY <1>2, <1>3, <1>4, RunToIs, BetweenKeeps

LEMMA CheckEmailKeeps == ASSUME SyncInv, NEW r \in Runs, CheckEmail(r) PROVE SyncInv'
<1>1. run \in [Runs -> RunType] /\ run[r] \in RunType /\ RunFits(r) /\ SyncElse
  BY DEF SyncInv, RunsFit
<1>2. run'[r] = [run[r] EXCEPT !.step = "creating", !.free = ~taken]
  BY <1>1 DEF CheckEmail
<1>3. run' = [run EXCEPT ![r] = run'[r]]
  BY <1>1, <1>2 DEF CheckEmail
<1>4. run'[r] \in RunType
  BY <1>1, <1>2 DEF RunType, RunSteps, SyncElse
<1>5. run[r].todo # {} /\ run[r].step = "checking"
  BY <1>1 DEF RunFits, CheckEmail, Reading
<1>6. client' \in {"none", "bare", "mailed"} /\ UNCHANGED <<posted, month, stamped, syncing, taken, policy, cuota, syncHistory, failing>>
  BY <1>1 DEF CheckEmail, SyncElse, portfolio
<1>7. "creating" \in Reading \ {"cuota", "cancelling"} /\ "checking" \in Reading \ {"cuota", "cancelling"}
  BY DEF Reading
<1>8. /\ (run'[r]).whole = run[r].whole /\ (run'[r]).read = run[r].read /\ (run'[r]).todo = run[r].todo
      /\ (run'[r]).from = run[r].from /\ (run'[r]).clean = run[r].clean /\ (run'[r]).step = "creating"
  BY <1>1, <1>2 DEF RunType
<1>9. QED
  BY <1>3, <1>4, <1>5, <1>6, <1>7, <1>8, BetweenKeeps

\* What Skips does: what is left loses its oldest, and it is told to be dropped.
LEMMA Skipped ==
  ASSUME SyncInv, NEW r \in Runs, run[r].step \in InNovedad, Skips(r)
  PROVE  /\ run' = [run EXCEPT ![r] = run'[r]] /\ run'[r] \in RunType /\ (run'[r]).step = "next"
         /\ (run'[r]).whole = run[r].whole /\ (run'[r]).read = run[r].read /\ (run'[r]).from = run[r].from
         /\ (run'[r]).clean = FALSE /\ (run'[r]).todo = run[r].todo \ {Current(r)}
<1>1. run \in [Runs -> RunType] /\ run[r] \in RunType
  BY DEF SyncInv
<1>2. run'[r] = [run[r] EXCEPT !.step = "next", !.todo = run[r].todo \ {Current(r)}, !.clean = FALSE]
  BY <1>1 DEF Skips
<1>3. run' = [run EXCEPT ![r] = run'[r]]
  BY <1>1, <1>2 DEF Skips
<1>4. QED
  BY <1>1, <1>2, <1>3 DEF RunType, RunSteps

LEMMA DoneSo ==
  ASSUME SyncInv, NEW r \in Runs, run[r].step \in InNovedad
  PROVE  /\ syncing /\ run[r].todo # {} /\ run[r].todo \subseteq run[r].read /\ run[r].whole = (stamped = NoMonth)
         /\ \A s \in run[r].read \ run[r].todo, t \in run[r].todo : s < t
         /\ run[r].whole => run[r].read \ run[r].todo \subseteq written \cup dropped
         /\ \A s \in Sups : posted[s].month \in run[r].from..month /\ posted[s].month < month => s \in run[r].read
         /\ run[r].clean => PolicyAt(r)
BY DEF SyncInv, RunsFit, RunFits, OneRun, Reading, InNovedad

LEMMA SkipKeeps ==
  ASSUME SyncInv, NEW r \in Runs, run[r].step \in InNovedad, Skips(r), SyncElse', CuotaIsTriunfos',
         UNCHANGED <<posted, month, stamped, syncing, written, owed>>
  PROVE  SyncInv'
<1>1. RunFits(r)'
  <2>1. \A s \in run[r].read \ (run'[r]).todo, t \in (run'[r]).todo : s < t
    <3>0. (run'[r]).todo = run[r].todo \ {Current(r)} /\ run[r].todo # {} /\ run[r].todo \subseteq Sups
      BY Skipped, DoneSo DEF SyncInv, RunType
    <3>1. SUFFICES ASSUME NEW s \in run[r].read \ (run'[r]).todo, NEW t \in (run'[r]).todo PROVE s < t
      OBVIOUS
    <3>2. t \in run[r].todo /\ t # Current(r) /\ t \in Nat
      BY <3>0, SyncNumbers
    <3>3. CASE s \in run[r].todo
      <4>1. s = Current(r)
        BY <3>0, <3>3
      <4>2. QED
        BY <3>0, <3>2, <4>1, CurrentIs
    <3>4. CASE s \notin run[r].todo
      BY <3>2, <3>4, DoneSo
    <3>5. QED
      BY <3>3, <3>4
  <2>2. run[r].whole => run[r].read \ (run'[r]).todo \subseteq written' \cup dropped'
    BY Skipped, DoneSo DEF Skips
  <2>3. QED
    BY <2>1, <2>2, Skipped, DoneSo DEF RunFits
<1>2. BackfillWhole'
  BY DEF SyncInv, BackfillWhole, Skips
<1>3. syncing' /\ run[r].step # "idle"
  BY DoneSo DEF InNovedad
<1>4. QED
  BY <1>1, <1>2, <1>3, Skipped, RunStep

LEMMA CreateClientKeeps == ASSUME SyncInv, NEW r \in Runs, CreateClient(r) PROVE SyncInv'
<1>1. run[r].step = "creating" /\ "creating" \in InNovedad /\ SyncElse
  BY DEF CreateClient, InNovedad, SyncInv
<1>2. CASE Skips(r) /\ UNCHANGED client
  <2>1. dropped' \subseteq Sups
    BY <1>1, <1>2, DoneSo, CurrentIs DEF Skips, SyncElse
  <2>2. SyncElse'
    BY <1>1, <1>2, <2>1 DEF CreateClient, SyncElse
  <2>3. CuotaIsTriunfos'
    BY <1>1, <1>2, Skipped, CuotaStays DEF CreateClient
  <2>4. QED
    BY <1>1, <1>2, <2>2, <2>3, SkipKeeps DEF CreateClient
<1>3. CASE RunTo(r, "policy") /\ UNCHANGED dropped /\ client' \in {"mailed", "bare"}
  <2>1. "policy" \in RunSteps /\ "policy" \in Reading \ {"cuota", "cancelling"} /\ "creating" \in Reading \ {"cuota", "cancelling"}
    BY DEF RunSteps, Reading
  <2>2. UNCHANGED <<posted, month, stamped, syncing, taken, policy, cuota, syncHistory, failing>> /\ client' \in {"none", "bare", "mailed"}
    BY <1>3 DEF CreateClient, syncHistory
  <2>3. run[r].todo # {}
    BY <1>1, DoneSo
  <2>4. QED
    BY <1>1, <1>3, <2>1, <2>2, <2>3, RunToIs, BetweenKeeps
<1>4. QED
  BY <1>2, <1>3 DEF CreateClient

LEMMA NovedadFailsKeeps == ASSUME SyncInv, NEW r \in Runs, NovedadFails(r) PROVE SyncInv'
<1>1. run[r].step \in InNovedad /\ SyncElse /\ CuotaIsTriunfos /\ run \in [Runs -> RunType]
  BY DEF NovedadFails, SyncInv
<1>2. dropped' \subseteq Sups
  BY <1>1, DoneSo, CurrentIs DEF NovedadFails, Skips, SyncElse
<1>3. SyncElse'
  BY <1>1, <1>2, SyncNumbers DEF NovedadFails, SyncElse, portfolio
<1>4. Skips(r) /\ UNCHANGED <<posted, month, stamped, syncing, written, owed, cuota>>
  BY DEF NovedadFails, portfolio
<1>5. CuotaIsTriunfos'
  <2>1. CASE run[r].step = "cancelling"
    <3>1. cut'
      BY <2>1 DEF NovedadFails
    <3>2. QED
      BY <1>1, <1>4, <3>1 DEF CuotaIsTriunfos
  <2>2. CASE run[r].step # "cancelling"
    <3>1. cut' = cut
      BY <1>1, <2>2 DEF NovedadFails, SyncElse
    <3>2. QED
      BY <1>1, <1>4, <2>2, <3>1, Skipped, CuotaStays
  <2>3. QED
    BY <2>1, <2>2
<1>6. QED
  BY <1>1, <1>3, <1>4, <1>5, SkipKeeps

LEMMA UpsertPolicyKeeps == ASSUME SyncInv, NEW r \in Runs, UpsertPolicy(r) PROVE SyncInv'
<1>1. run[r].step = "policy" /\ "policy" \in InNovedad /\ SyncElse /\ BackfillWhole
  BY DEF UpsertPolicy, InNovedad, SyncInv
<1>2. RunTo(r, "cuota") /\ "cuota" \in RunSteps
  BY DEF UpsertPolicy, RunSteps
<1>3. RunFits(r)'
  <2>1. (PolicyAt(r))'
    BY <1>2, RunToIs DEF UpsertPolicy, PolicyAt, Current
  <2>2. UNCHANGED <<posted, month, stamped, written, dropped>>
    BY DEF UpsertPolicy, syncHistory
  <2>3. QED
    BY <1>1, <1>2, <2>1, <2>2, RunToIs, DoneSo DEF RunFits
<1>4. SyncElse' /\ BackfillWhole' /\ syncing'
  <2>1. policy' \in 0..LastSup
    BY <1>1, DoneSo, CurrentIs, SyncNumbers DEF UpsertPolicy, Sups
  <2>2. QED
    BY <1>1, <2>1, DoneSo DEF UpsertPolicy, SyncElse, syncHistory, BackfillWhole
<1>5. CuotaIsTriunfos'
  BY <1>1, <1>2, RunToIs, CuotaStays DEF UpsertPolicy, syncHistory
<1>6. QED
  BY <1>1, <1>2, <1>3, <1>4, <1>5, RunToIs, RunStep

\* What is written whole is the newest of what was read so far.
LEMMA WrittenKeeps ==
  ASSUME SyncInv, NEW r \in Runs, run[r].step \in {"cuota", "cancelling"}, Written(r),
         cuota' \in CuotaType, cut' \in BOOLEAN, CuotaIsTriunfos',
         UNCHANGED <<posted, month, stamped, syncing, client, taken, policy, dropped, owed, lastRead, failing>>
  PROVE  SyncInv'
<1> DEFINE c == Current(r)
<1>1. run[r].step \in InNovedad /\ run \in [Runs -> RunType] /\ run[r] \in RunType /\ SyncElse /\ BackfillWhole
  BY DEF InNovedad, SyncInv
<1>2. c \in run[r].todo /\ c \in Sups /\ c \in Nat /\ \A t \in run[r].todo : c <= t
  BY <1>1, DoneSo, CurrentIs
<1>3. run'[r] = [run[r] EXCEPT !.step = "next", !.todo = run[r].todo \ {c}] /\ written' = written \cup {c}
  BY <1>1 DEF Written
<1>4. run' = [run EXCEPT ![r] = run'[r]]
  BY <1>1, <1>3 DEF Written
<1>5. /\ run'[r] \in RunType /\ (run'[r]).step = "next"
      /\ (run'[r]).whole = run[r].whole /\ (run'[r]).read = run[r].read /\ (run'[r]).from = run[r].from
      /\ (run'[r]).clean = run[r].clean /\ (run'[r]).todo = run[r].todo \ {c}
  BY <1>1, <1>3 DEF RunType, RunSteps
<1> HIDE DEF c
<1>6. \A s \in run[r].read \ run[r].todo : s < c
  BY <1>1, <1>2, DoneSo
<1>7. RunFits(r)'
  <2>1. \A s \in run[r].read \ (run'[r]).todo, t \in (run'[r]).todo : s < t
    <3>1. SUFFICES ASSUME NEW s \in run[r].read \ (run'[r]).todo, NEW t \in (run'[r]).todo PROVE s < t
      OBVIOUS
    <3>2. t \in run[r].todo /\ t # c /\ t \in Nat /\ s \in Nat
      BY <1>1, <1>5, SyncNumbers DEF RunType
    <3>3. s = c \/ s < c
      BY <1>5, <1>6
    <3>4. c < t
      BY <1>2, <3>2
    <3>5. QED
      BY <1>2, <3>2, <3>3, <3>4
  <2>2. run[r].whole => run[r].read \ (run'[r]).todo \subseteq written' \cup dropped'
    BY <1>1, <1>3, <1>5, DoneSo
  <2>3. run[r].clean => policy = c
    BY <1>1, DoneSo DEF PolicyAt, c
  <2>4. Max(run[r].read \ (run'[r]).todo) = c
    <3>1. run[r].read \ (run'[r]).todo \in SUBSET Nat /\ c \in run[r].read \ (run'[r]).todo
      BY <1>1, <1>2, <1>5, DoneSo, SyncNumbers DEF RunType
    <3>2. \A s \in run[r].read \ (run'[r]).todo : s <= c
      BY <1>2, <1>5, <1>6, <3>1
    <3>3. QED
      BY <3>1, <3>2, NewestIs
  <2>5. (run'[r]).clean => (PolicyAt(r))'
    BY <1>5, <2>3, <2>4 DEF PolicyAt
  <2>6. QED
    BY <1>1, <1>5, <2>1, <2>2, <2>5, DoneSo DEF RunFits
<1>8. SyncElse'
  BY <1>1, <1>2, <1>3 DEF SyncElse
<1>9. BackfillWhole' /\ syncing'
  BY <1>1, <1>3, DoneSo DEF BackfillWhole
<1>10. run[r].step # "idle"
  OBVIOUS
<1>11. QED
  BY <1>4, <1>5, <1>7, <1>8, <1>9, <1>10, RunStep

LEMMA UpsertCuotaKeeps == ASSUME SyncInv, NEW r \in Runs, UpsertCuota(r) PROVE SyncInv'
<1> DEFINE estado == posted[Current(r)].estado
<1>1. /\ run[r].step = "cuota" /\ run[r].step \in InNovedad /\ SyncElse /\ CuotaIsTriunfos /\ BackfillWhole
  BY DEF UpsertCuota, InNovedad, SyncInv
<1>2. Current(r) \in Sups /\ estado \in Estados
  BY <1>1, DoneSo, CurrentIs DEF SyncElse, PostType
<1>3. cuota' = [exists |-> TRUE, status |-> CuotaStatus(estado), estado |-> estado,
                deleted |-> estado = "ANULADA" /\ (cuota.exists => cuota.deleted)]
      /\ cut' = (cut /\ estado = "ANULADA")
      /\ UNCHANGED <<posted, month, stamped, syncing, client, taken, policy, dropped, owed, lastRead, failing>>
  BY DEF UpsertCuota
<1> HIDE DEF estado
<1>4. CuotaStatus(estado) \in {"paid", "rejected", "pending", "overdue"}
      /\ (estado = "PAGADA" => CuotaStatus(estado) = "paid") /\ (estado = "EN PRELIQUIDACION" => CuotaStatus(estado) = "pending")
  BY DEF CuotaStatus
<1>5. cuota.exists \in BOOLEAN /\ cuota.deleted \in BOOLEAN /\ cut \in BOOLEAN
  BY <1>1 DEF SyncElse, CuotaType
<1>6. cuota' \in CuotaType /\ cut' \in BOOLEAN
  BY <1>2, <1>3, <1>4, <1>5 DEF CuotaType
<1>7. CASE estado = "ANULADA"
  <2>1. RunTo(r, "cancelling") /\ UNCHANGED written /\ "cancelling" \in RunSteps
    BY <1>7 DEF UpsertCuota, RunSteps, estado
  <2>2. run' = [run EXCEPT ![r] = run'[r]] /\ run'[r] \in RunType /\ (run'[r]).step = "cancelling"
    BY <2>1, RunToIs
  <2>3. (PolicyAt(r))' <=> PolicyAt(r)
    BY <1>1, <1>3, <2>1, RunToIs DEF PolicyAt, Current
  <2>4. cuota'.exists /\ cuota'.estado = "ANULADA"
    BY <1>3, <1>7
  <2>5. RunFits(r)'
    BY <1>1, <1>3, <2>1, <2>3, <2>4, RunToIs, DoneSo DEF RunFits
  <2>6. CuotaIsTriunfos'
    BY <2>2, <2>4 DEF CuotaIsTriunfos
  <2>7. SyncElse' /\ BackfillWhole' /\ syncing'
    BY <1>1, <1>3, <1>6, <2>1, DoneSo DEF SyncElse, BackfillWhole
  <2>8. QED
    BY <1>1, <2>2, <2>5, <2>6, <2>7, RunStep
<1>8. CASE estado # "ANULADA"
  <2>1. Written(r)
    BY <1>8 DEF UpsertCuota, estado
  <2>2. cuota'.estado = estado /\ cuota'.deleted = FALSE /\ cuota'.status = CuotaStatus(estado)
    BY <1>3, <1>8
  <2>3. CuotaIsTriunfos'
    BY <1>4, <1>8, <2>2 DEF CuotaIsTriunfos
  <2>4. QED
    BY <1>1, <1>3, <1>6, <2>1, <2>3, WrittenKeeps
<1>9. QED
  BY <1>7, <1>8

LEMMA CancelCuotaKeeps == ASSUME SyncInv, NEW r \in Runs, CancelCuota(r) PROVE SyncInv'
<1>1. run[r].step = "cancelling" /\ SyncElse /\ CuotaIsTriunfos /\ cuota.estado = "ANULADA" /\ cuota \in CuotaType
  BY DEF CancelCuota, SyncInv, RunsFit, RunFits, SyncElse
<1>2. cuota' = [cuota EXCEPT !.deleted = TRUE] /\ cut' = FALSE /\ Written(r)
      /\ UNCHANGED <<posted, month, stamped, syncing, client, taken, policy, dropped, owed, lastRead, failing>>
  BY DEF CancelCuota
<1>3. cuota' \in CuotaType /\ cuota'.estado = "ANULADA" /\ cuota'.deleted = TRUE
  BY <1>1, <1>2 DEF CuotaType
<1>4. CuotaIsTriunfos'
  BY <1>3 DEF CuotaIsTriunfos
<1>5. QED
  BY <1>1, <1>2, <1>3, <1>4, WrittenKeeps

LEMMA RunGuardedKeeps == ASSUME SyncInv, NEW r \in Runs, RunGuarded(r) PROVE SyncInv'
<1> DEFINE s == [IdleRun EXCEPT !.step = "asking", !.from = From, !.whole = stamped = NoMonth]
<1>1. SyncElse /\ run \in [Runs -> RunType] /\ syncing = FALSE /\ syncing' = TRUE /\ run' = [run EXCEPT ![r] = s]
      /\ UNCHANGED <<posted, month, stamped, portfolio, syncHistory, failing>>
  BY DEF SyncInv, RunGuarded, SyncElse
<1>2. From \in Months
  <2>1. month \in 0..LastMonth
    BY <1>1 DEF SyncElse, Months
  <2>2. \A back \in Nat : (IF month >= back THEN month - back ELSE 0) \in 0..LastMonth
    BY <2>1, SyncNumbers
  <2>3. QED
    BY <2>2, SyncNumbers DEF From, Months
<1>3. s \in RunType /\ s.step = "asking" /\ s.whole = (stamped = NoMonth)
  BY <1>2, SyncNumbers DEF IdleRun, RunType, RunSteps
<1> HIDE DEF s
<1>4. \A q \in Runs : run[q].step = "idle"
  BY <1>1 DEF SyncInv, OneRun
<1>5. run' \in [Runs -> RunType] /\ \A q \in Runs : run'[q] = IF q = r THEN s ELSE run[q]
  BY <1>1, <1>3
<1>6. OneRun'
  BY <1>1, <1>4, <1>5 DEF OneRun
<1>7. RunsFit'
  BY <1>1, <1>3, <1>4, <1>5 DEF RunsFit, RunFits, Reading
<1>8. AtRest'
  BY <1>1, <1>4 DEF SyncInv, AtRest, LastReadHolds, portfolio, syncHistory
<1>9. SyncElse' /\ BackfillWhole'
  BY <1>1 DEF SyncInv, SyncElse, BackfillWhole, portfolio, syncHistory
<1>10. CuotaIsTriunfos'
  BY <1>1, <1>4, <1>5 DEF SyncInv, CuotaIsTriunfos, portfolio, syncHistory
<1>11. QED
  BY <1>5, <1>6, <1>7, <1>8, <1>9, <1>10 DEF SyncInv

LEMMA NovedadesKeeps == ASSUME SyncInv, NEW r \in Runs, Novedades(r) PROVE SyncInv'
<1> DEFINE read == {s \in Sups : InRange(s, r)}
<1>1. SyncElse /\ run \in [Runs -> RunType] /\ run[r] \in RunType /\ run[r].step = "asking" /\ RunFits(r) /\ BackfillWhole
  BY DEF SyncInv, RunsFit, Novedades
<1>2. UNCHANGED <<posted, month, stamped, syncing, portfolio, syncHistory, failing>>
  BY DEF Novedades
<1>3. run'[r] = [run[r] EXCEPT !.step = "next", !.read = read, !.todo = read]
  BY <1>1 DEF Novedades
<1>4. run' = [run EXCEPT ![r] = run'[r]]
  BY <1>1, <1>3 DEF Novedades
<1>5. read \in SUBSET Sups /\ \A s \in Sups : posted[s].month \in run[r].from..month => s \in read
  BY DEF InRange
<1> HIDE DEF read
<1>6. /\ run'[r] \in RunType /\ (run'[r]).step = "next" /\ (run'[r]).todo = read /\ (run'[r]).read = read
      /\ (run'[r]).whole = run[r].whole /\ (run'[r]).from = run[r].from
  BY <1>1, <1>3, <1>5 DEF RunType, RunSteps
<1>7. RunFits(r)'
  BY <1>1, <1>2, <1>5, <1>6 DEF RunFits, PolicyAt
<1>8. SyncElse' /\ BackfillWhole' /\ syncing'
  BY <1>1, <1>2 DEF SyncInv, OneRun, SyncElse, BackfillWhole, portfolio, syncHistory
<1>9. CuotaIsTriunfos'
  BY <1>1, <1>2, <1>4, CuotaStays DEF portfolio, syncHistory
<1>10. QED
  BY <1>1, <1>4, <1>6, <1>7, <1>8, <1>9, RunStep

LEMMA NovedadesFailKeeps == ASSUME SyncInv, NEW r \in Runs, NovedadesFail(r) PROVE SyncInv'
<1>1. SyncElse /\ run \in [Runs -> RunType] /\ run[r].step = "asking" /\ BackfillWhole
  BY DEF SyncInv, NovedadesFail
<1>2. UNCHANGED <<posted, month, stamped, portfolio, syncHistory, failing>> /\ syncing' = FALSE /\ run' = [run EXCEPT ![r] = IdleRun]
  BY DEF NovedadesFail
<1>3. run'[r] = IdleRun /\ run' = [run EXCEPT ![r] = run'[r]] /\ (run'[r]).step = "idle" /\ run'[r] \in RunType
  BY <1>1, <1>2, SyncNumbers
<1>4. LastReadHolds'
  <2>1. \A q \in Runs : run[q].step \in {"idle", "asking"}
    BY <1>1 DEF SyncInv, OneRun
  <2>2. LastReadHolds
    BY <2>1 DEF SyncInv, AtRest
  <2>3. QED
    BY <1>2, <2>2 DEF LastReadHolds, portfolio, syncHistory
<1>5. SyncElse' /\ BackfillWhole'
  BY <1>1, <1>2 DEF SyncElse, BackfillWhole, portfolio, syncHistory
<1>6. CuotaIsTriunfos'
  BY <1>1, <1>2, <1>3, CuotaStays DEF portfolio, syncHistory
<1>7. RunFits(r)'
  BY <1>3 DEF RunFits, Reading
<1>8. QED
  BY <1>1, <1>3, <1>4, <1>5, <1>6, <1>7, RunStep

LEMMA StampKeeps == ASSUME SyncInv, NEW r \in Runs, Stamp(r) PROVE SyncInv'
<1>1. SyncElse /\ run \in [Runs -> RunType] /\ run[r] \in RunType /\ run[r].step = "stamping" /\ RunFits(r) /\ BackfillWhole
  BY DEF SyncInv, RunsFit, Stamp
<1>2. UNCHANGED <<posted, month, portfolio, written, dropped, cut, failing>> /\ syncing' = FALSE /\ run' = [run EXCEPT ![r] = IdleRun]
  BY DEF Stamp
<1>3. run'[r] = IdleRun /\ run' = [run EXCEPT ![r] = run'[r]] /\ (run'[r]).step = "idle" /\ run'[r] \in RunType
  BY <1>1, <1>2, SyncNumbers
<1>4. run[r].todo = {} /\ run[r].read \subseteq Sups
  BY <1>1 DEF RunFits, Reading, RunType
<1>5. LastReadHolds'
  <2>1. run[r].clean /\ run[r].read # {} => policy = Max(run[r].read)
    <3>1. run[r].read \ run[r].todo = run[r].read
      BY <1>4
    <3>2. QED
      BY <1>1, <3>1 DEF RunFits, PolicyAt, Reading
  <2>2. policy' = policy /\ lastRead' = IF run[r].clean THEN run[r].read ELSE {}
    BY DEF Stamp, portfolio
  <2>3. QED
    BY <2>1, <2>2 DEF LastReadHolds
<1>6. owed' \subseteq written \cup dropped /\ owed' \subseteq Sups
  <2>1. CASE stamped = NoMonth /\ stamped' = month
    <3>1. run[r].read \subseteq written \cup dropped
      BY <1>1, <1>4, <2>1 DEF RunFits, Reading
    <3>2. owed' = {s \in Sups : InRange(s, r) /\ posted[s].month < month}
      BY <2>1 DEF Stamp
    <3>3. owed' \subseteq run[r].read
      BY <1>1, <3>2 DEF RunFits, Reading, InRange
    <3>4. QED
      BY <1>4, <3>1, <3>3
  <2>2. CASE ~(stamped = NoMonth /\ stamped' = month)
    <3>1. owed' = owed
      BY <2>2 DEF Stamp
    <3>2. QED
      BY <1>1, <3>1 DEF BackfillWhole, SyncElse
  <2>3. QED
    BY <2>1, <2>2
<1>7. SyncElse' /\ BackfillWhole'
  <2>1. stamped' \in 0..NoMonth
    BY <1>1, SyncNumbers DEF Stamp, SyncElse
  <2>2. lastRead' \subseteq Sups
    BY <1>4 DEF Stamp
  <2>3. QED
    BY <1>1, <1>2, <1>6, <2>1, <2>2 DEF SyncElse, BackfillWhole, portfolio
<1>8. CuotaIsTriunfos'
  BY <1>1, <1>2, <1>3, CuotaStays DEF portfolio
<1>9. RunFits(r)'
  BY <1>3 DEF RunFits, Reading
<1>10. QED
  BY <1>1, <1>3, <1>5, <1>7, <1>8, <1>9, RunStep

LEMMA RunsKeep ==
  ASSUME SyncInv, UNCHANGED <<stamped, syncing, run, policy, written, dropped, owed, lastRead, cut>>, SyncElse',
         \A s \in Sups : posted'[s] = posted[s] \/ (posted'[s]).month >= month', month' = month,
         cuota'.exists = cuota.exists, cuota'.estado = cuota.estado, CuotaIsTriunfos'
  PROVE  SyncInv'
<1>1. \A r \in Runs : RunFits(r)'
  <2>1. SUFFICES ASSUME NEW r \in Runs PROVE RunFits(r)'
    OBVIOUS
  <2>2. RunFits(r)
    BY DEF SyncInv, RunsFit
  <2>3. \A s \in Sups : (posted'[s]).month < month => posted'[s] = posted[s]
    <3>1. SUFFICES ASSUME NEW s \in Sups, (posted'[s]).month < month, posted'[s] # posted[s] PROVE FALSE
      OBVIOUS
    <3>2. (posted'[s]).month \in 0..NoMonth /\ month \in Nat /\ NoMonth \in Nat
      BY SyncNumbers DEF SyncElse, SyncInv, PostType
    <3>3. QED
      BY <3>1, <3>2
  <2>4. (PolicyAt(r))' <=> PolicyAt(r)
    BY DEF PolicyAt, Current
  <2>5. QED
    BY <2>2, <2>3, <2>4 DEF RunFits
<1>2. OneRun' /\ AtRest' /\ BackfillWhole' /\ (run \in [Runs -> RunType])'
  BY DEF SyncInv, OneRun, AtRest, LastReadHolds, BackfillWhole
<1>3. QED
  BY <1>1, <1>2 DEF SyncInv, RunsFit

LEMMA AroundRunsKeep ==
  ASSUME SyncInv, (\E s \in Sups, e \in Estados : Post(s, e)) \/ MarkOverdue \/ EmailElsewhere
  PROVE  SyncInv'
<1>1. SyncElse /\ CuotaIsTriunfos
  BY DEF SyncInv
<1>2. CASE \E s \in Sups, e \in Estados : Post(s, e)
  <2>1. PICK s \in Sups, e \in Estados : Post(s, e)
    BY <1>2
  <2>2. posted' = [posted EXCEPT ![s] = [month |-> month, estado |-> e]]
        /\ UNCHANGED <<month, stamped, syncing, run, portfolio, syncHistory, failing>>
    BY <2>1 DEF Post
  <2>3. [month |-> month, estado |-> e] \in PostType /\ month \in Nat
    BY <1>1, SyncNumbers DEF SyncElse, PostType
  <2>4. \A t \in Sups : posted'[t] = posted[t] \/ (posted'[t]).month >= month'
    BY <1>1, <2>2, <2>3 DEF SyncElse
  <2>5. SyncElse' /\ CuotaIsTriunfos'
    BY <1>1, <2>2, <2>3 DEF SyncElse, CuotaIsTriunfos, portfolio, syncHistory
  <2>6. QED
    BY <2>2, <2>4, <2>5, RunsKeep DEF portfolio, syncHistory
<1>3. CASE MarkOverdue
  <2>1. cuota' = [cuota EXCEPT !.status = "overdue"] /\ cuota \in CuotaType
        /\ UNCHANGED <<posted, month, stamped, syncing, run, client, taken, policy, syncHistory, failing>>
    BY <1>1, <1>3 DEF MarkOverdue, SyncElse
  <2>2. /\ cuota' \in CuotaType /\ cuota'.exists = cuota.exists /\ cuota'.estado = cuota.estado
        /\ cuota'.deleted = cuota.deleted /\ cuota'.status = "overdue"
    BY <2>1 DEF CuotaType
  <2>3. CuotaIsTriunfos'
    <3>1. cuota.estado # "EN PRELIQUIDACION" /\ cuota.status = "pending"
      BY <1>3 DEF MarkOverdue
    <3>2. cuota.estado # "PAGADA"
      BY <1>1, <3>1 DEF CuotaIsTriunfos
    <3>3. QED
      BY <1>1, <2>1, <2>2, <3>1, <3>2 DEF CuotaIsTriunfos, syncHistory
  <2>4. SyncElse'
    BY <1>1, <2>1, <2>2 DEF SyncElse, syncHistory
  <2>5. QED
    BY <2>1, <2>2, <2>3, <2>4, RunsKeep DEF syncHistory
<1>4. CASE EmailElsewhere
  <2>1. UNCHANGED <<posted, month, stamped, syncing, run, client, policy, cuota, syncHistory, failing>> /\ taken' \in BOOLEAN
    BY <1>1, <1>4 DEF EmailElsewhere, SyncElse
  <2>2. SyncElse' /\ CuotaIsTriunfos'
    BY <1>1, <2>1 DEF SyncElse, CuotaIsTriunfos, syncHistory
  <2>3. QED
    BY <2>1, <2>2, RunsKeep DEF syncHistory
<1>5. QED
  BY <1>2, <1>3, <1>4

\* With no run in course everything but what they left behind is free.
LEMMA NobodyRuns ==
  ASSUME SyncInv, run' \in [Runs -> RunType], \A r \in Runs : (run'[r]).step = "idle", SyncElse',
         LastReadHolds', BackfillWhole', CuotaIsTriunfos'
  PROVE  SyncInv'
BY DEF SyncInv, OneRun, RunsFit, RunFits, Reading, AtRest

LEMMA SyncNextInv == SyncInv /\ [SyncNext]_syncVars => SyncInv'
<1> SUFFICES ASSUME SyncInv, [SyncNext]_syncVars PROVE SyncInv'
  OBVIOUS
<1>1. SyncElse /\ CuotaIsTriunfos /\ BackfillWhole
  BY DEF SyncInv
<1>2. CASE UNCHANGED syncVars
  BY <1>1, <1>2, RunsKeep DEF syncVars, portfolio, syncHistory, SyncElse, CuotaIsTriunfos
<1>3. CASE MonthPasses
  <2>1. month' \in Months
    BY <1>1, <1>3, SyncNumbers DEF MonthPasses, SyncElse, Months
  <2>2. SyncElse' /\ CuotaIsTriunfos' /\ BackfillWhole'
    BY <1>1, <1>3, <2>1 DEF MonthPasses, SyncElse, CuotaIsTriunfos, BackfillWhole, portfolio, syncHistory
  <2>3. \A r \in Runs : run[r].step = "idle"
    BY <1>3 DEF MonthPasses, SyncInv, OneRun
  <2>4. LastReadHolds
    BY <2>3 DEF SyncInv, AtRest
  <2>5. LastReadHolds' /\ run' = run
    BY <1>3, <2>4 DEF MonthPasses, LastReadHolds, portfolio, syncHistory
  <2>6. QED
    BY <2>2, <2>3, <2>5, NobodyRuns DEF SyncInv
<1>4. CASE SyncRestarts
  <2>1. (\A r \in Runs : run'[r] = IdleRun) /\ run' \in [Runs -> RunType] /\ lastRead' = {}
    BY <1>4, SyncNumbers DEF SyncRestarts
  <2>2. SyncElse'
    <3>1. cut' \in BOOLEAN
      BY <1>1, <1>4 DEF SyncRestarts, SyncElse
    <3>2. failing' \in 0..MaxFailing
      BY <1>1, <1>4, SyncNumbers DEF SyncRestarts, SyncElse
    <3>3. /\ syncing' = FALSE /\ lastRead' = {}
          /\ UNCHANGED <<posted, month, stamped, client, taken, policy, cuota, written, dropped, owed>>
      BY <1>4 DEF SyncRestarts, portfolio
    <3>4. QED
      BY <1>1, <3>1, <3>2, <3>3 DEF SyncElse
  <2>3. BackfillWhole'
    BY <1>1, <1>4 DEF SyncRestarts, BackfillWhole
  <2>4. CuotaIsTriunfos'
    <3>1. UNCHANGED cuota /\ (cut => cut')
      BY <1>1, <1>4 DEF SyncRestarts, portfolio, SyncElse
    <3>2. ~cut' => \A r \in Runs : run[r].step # "cancelling"
      BY <1>4 DEF SyncRestarts
    <3>3. QED
      BY <1>1, <3>1, <3>2 DEF CuotaIsTriunfos
  <2>5. LastReadHolds'
    BY <2>1 DEF LastReadHolds
  <2>6. QED
    BY <2>1, <2>2, <2>3, <2>4, <2>5, NobodyRuns, SyncNumbers
<1>5. ASSUME NEW r \in Runs,
             \/ RunGuarded(r) \/ Novedades(r) \/ NovedadesFail(r) \/ NextNovedad(r)
             \/ FindClient(r) \/ CheckEmail(r) \/ CreateClient(r) \/ FillEmail(r)
             \/ UpsertPolicy(r) \/ UpsertCuota(r) \/ CancelCuota(r) \/ NovedadFails(r) \/ Stamp(r)
      PROVE  SyncInv'
  BY <1>5, RunGuardedKeeps, NovedadesKeeps, NovedadesFailKeeps, BetweenSteps, CheckEmailKeeps, CreateClientKeeps,
     UpsertPolicyKeeps, UpsertCuotaKeeps, CancelCuotaKeeps, NovedadFailsKeeps, StampKeeps
<1>6. QED
  BY <1>2, <1>3, <1>4, <1>5, AroundRunsKeep DEF SyncNext

LEMMA SyncInitInv == SyncInit => SyncInv
<1> SUFFICES ASSUME SyncInit PROVE SyncInv
  OBVIOUS
<1>1. SyncElse
  <2>1. posted \in [Sups -> PostType] /\ cuota \in CuotaType
    BY SyncNumbers DEF SyncInit, PostType, CuotaType, Estados
  <2>2. month \in Months /\ stamped \in 0..NoMonth /\ policy \in 0..LastSup /\ failing \in 0..MaxFailing
    BY SyncNumbers DEF SyncInit
  <2>3. QED
    BY <2>1, <2>2 DEF SyncInit, SyncElse
<1>2. (\A r \in Runs : run[r] = IdleRun) /\ run \in [Runs -> RunType]
  BY SyncNumbers DEF SyncInit
<1>3. OneRun /\ RunsFit
  BY <1>2, SyncNumbers DEF OneRun, RunsFit, RunFits, Reading
<1>4. AtRest /\ BackfillWhole /\ CuotaIsTriunfos
  BY DEF SyncInit, AtRest, LastReadHolds, BackfillWhole, CuotaIsTriunfos
<1>5. QED
  BY <1>1, <1>2, <1>3, <1>4 DEF SyncInv
-----------------------------------------------------------------------------
(* The incidents: one at a time, explained and mailed once *)

IncidentType == [stage : Stages, sig : Signatures \cup {None}, endedAt : Times,
                 explainedFor : Signatures \cup {None}, about : Signatures \cup {None}]
TaskType == [step : TaskSteps, sig : Signatures \cup {None}, id : 0..MaxIncidents]
ExplainType == [step : ExplainSteps, id : 0..MaxIncidents,
                sig : Signatures \cup {None}, about : Signatures \cup {None}, since : Times]

IncidentsElse ==
  /\ open \in 0..MaxIncidents /\ known \in 0..Unread
  /\ tried \in [Ids \X Signatures -> 0..NotYet] /\ alerted \in [Signatures -> 0..NotYet]
  /\ viewer \in [id : 0..MaxIncidents, sig : Signatures \cup {None}]
  /\ tick \in Times /\ mailedAt \in [Signatures -> 0..NotYet]
  /\ soon \subseteq Signatures /\ crossed \subseteq Ids
  /\ failures \in 0..MaxFailures /\ stops \in 0..MaxStops

IncidentsTyped ==
  /\ IncidentsElse /\ incident \in [Ids -> IncidentType] /\ task \in TaskType /\ explain \in [Explainers -> ExplainType]

\* The row in memory is the table's, and a report works on what it read.
MemoryFollows ==
  /\ known \in {open, Unread}
  /\ open # 0 => incident[open].stage = "open"
  /\ task.step \in {"adding", "ending"} => task.id = open /\ open # 0
  /\ task.step \in {"finding", "writing", "naming"} => open = 0
  /\ task.step = "naming" => task.id # 0 /\ incident[task.id].stage = "open"
  /\ task.step \in {"loading", "finding"} => task.id = 0
  /\ task.step \in {"adding", "finding", "writing", "naming"} => task.sig # None

\* An incident begins once those before it ended and are not recent any more.
IncidentsFollow ==
  \A i, j \in Ids : j < i /\ incident[i].stage # "none" =>
    /\ incident[j].stage = "ended" /\ incident[j].endedAt < tick
    /\ incident[i].stage = "ended" => incident[j].endedAt < incident[i].endedAt

OneOpen == \A i \in Ids : incident[i].stage = "open" => open = i \/ (task.step = "naming" /\ task.id = i)

\* What a report found is the latest, or none is recent.
FoundLatest ==
  task.step = "writing" =>
    /\ task.id # 0 => incident[task.id].stage = "ended" /\ \A j \in Ids : j > task.id => incident[j].stage = "none"
    /\ task.id = 0 => \A i \in Ids : ~Recent(i)

InOrder == IncidentsFollow /\ OneOpen /\ FoundLatest

\* Explanations in course are of incidents that exist, one for each failure of one.
ExplainsFit ==
  /\ \A e \in Explainers : explain[e].step # "idle" =>
       /\ explain[e].id # 0 /\ incident[explain[e].id].stage # "none" /\ explain[e].sig # None
       /\ tried[<<explain[e].id, explain[e].sig>>] = explain[e].since
       /\ explain[e].since <= tick /\ tick <= explain[e].since + 1
  /\ \A e, d \in Explainers : explain[e].step # "idle" /\ explain[d].step # "idle" /\ e # d =>
       explain[e].id # explain[d].id \/ explain[e].sig # explain[d].sig

ViewerFits == viewer.id # 0 => incident[viewer.id].stage # "none" /\ viewer.sig # None
SignaturesFit == \A i \in Ids : incident[i].stage # "none" => incident[i].sig # None

Latest(i) == \A j \in Ids : j > i => incident[j].stage = "none"

\* Whoever is about to mail of the latest incident finds its failure not mailed.
MailsFit ==
  /\ mailedAt = alerted /\ soon = {}
  /\ \A e \in Explainers : explain[e].step = "mailing" /\ Latest(explain[e].id) => ~JustMailed(explain[e].sig)

\* A text is of the failure it was asked for, or the incident had changed by then.
TextsAbout ==
  /\ \A e \in Explainers : explain[e].step \in {"asking", "saving"} =>
       explain[e].about = explain[e].sig \/ explain[e].id \in crossed
  /\ \A i \in Ids : incident[i].explainedFor # None /\ i \notin crossed => incident[i].about = incident[i].explainedFor

WhileWhole == stops = 0 => InOrder /\ MailsFit

IncidentsInv ==
  /\ IncidentsTyped /\ MemoryFollows /\ ExplainsFit /\ ViewerFits /\ SignaturesFit /\ TextsAbout /\ WhileWhole

LEMMA IncidentsHeld == IncidentsInv => IncidentsTypeOK /\ IncidentsFit
<1> SUFFICES ASSUME IncidentsInv PROVE IncidentsTypeOK /\ IncidentsFit
  OBVIOUS
<1>1. IncidentsTypeOK
  BY DEF IncidentsInv, IncidentsTyped, IncidentsElse, IncidentsTypeOK, IncidentType, TaskType, ExplainType
<1>2. MemoryMatches
  BY DEF IncidentsInv, MemoryFollows, WhileWhole, InOrder, OneOpen, MemoryMatches
<1>3. AlertsSeldom
  BY DEF IncidentsInv, WhileWhole, MailsFit, AlertsSeldom
<1>4. ExplanationFits
  BY DEF IncidentsInv, TextsAbout, ExplanationFits, Shown
<1>5. QED
  BY <1>1, <1>2, <1>3, <1>4 DEF IncidentsFit, AlertsFit

LEMMA IncidentNumbers ==
  /\ {ReopenWithin, AlertAgain, MaxIncidents, LastTick, MaxFailures, MaxStops, ExplainRetry} \subseteq Nat
  /\ ExplainRetry >= 2 /\ Unread \notin 0..MaxIncidents /\ Unread \in Nat /\ 0 \notin Ids /\ Ids \subseteq Nat
  /\ Ids \subseteq 0..MaxIncidents /\ Times \subseteq Nat /\ 0 \in Times /\ Times \subseteq 0..NotYet
  /\ NotYet \notin Times /\ NotYet \in 0..NotYet /\ Ids \cup {0} = 0..MaxIncidents
  /\ 0..MaxIncidents \subseteq 0..Unread /\ Unread \in 0..Unread
BY IncidentParameters DEF Ids, Unread, Times, NotYet

LEMMA IdleOnes == IdleTask \in TaskType /\ IdleExplain \in ExplainType
BY IncidentNumbers DEF IdleTask, IdleExplain, TaskType, TaskSteps, ExplainType, ExplainSteps

\* What explanations have in course, of incidents that are not undone.
LEMMA ExplainsStay ==
  ASSUME IncidentsTyped, ExplainsFit, UNCHANGED <<tried, tick>>,
         \A i \in Ids : incident[i].stage # "none" => (incident'[i]).stage # "none",
         \A e \in Explainers : \/ (explain'[e]).step = "idle"
                               \/ /\ explain[e].step # "idle" /\ (explain'[e]).id = explain[e].id
                                  /\ (explain'[e]).sig = explain[e].sig /\ (explain'[e]).since = explain[e].since
  PROVE  ExplainsFit'
<1>1. \A e \in Explainers : explain[e].id \in 0..MaxIncidents
  BY DEF IncidentsTyped, ExplainType
<1>2. ASSUME NEW e \in Explainers, (explain'[e]).step # "idle"
      PROVE  /\ explain[e].step # "idle" /\ (explain'[e]).id = explain[e].id
             /\ (explain'[e]).sig = explain[e].sig /\ (explain'[e]).since = explain[e].since
             /\ explain[e].id \in Ids /\ (incident'[explain[e].id]).stage # "none"
  BY <1>1, <1>2, IncidentNumbers DEF ExplainsFit
<1>3. QED
  BY <1>2 DEF ExplainsFit

\* A request leaves those in course as they are, and asks nothing they ask.
LEMMA RequestKeeps ==
  ASSUME IncidentsTyped, ExplainsFit, NEW id \in Ids, NEW sig \in Signatures, sig # None,
         RequestExplanation(id, sig), tick' = tick,
         incident[id].stage # "none", \A i \in Ids : incident[i].stage # "none" => (incident'[i]).stage # "none"
  PROVE  /\ ExplainsFit' /\ explain' \in [Explainers -> ExplainType] /\ tried' \in [Ids \X Signatures -> 0..NotYet]
         /\ \A e \in Explainers : explain'[e] = explain[e] \/ (explain'[e]).step = "reading"
<1>1. explain \in [Explainers -> ExplainType] /\ tried \in [Ids \X Signatures -> 0..NotYet] /\ tick \in Times
  BY DEF IncidentsTyped, IncidentsElse
<1>2. CASE JustTried(id, sig)
  <2>1. UNCHANGED <<explain, tried>>
    BY <1>2 DEF RequestExplanation
  <2>2. QED
    BY <1>1, <2>1, ExplainsStay
<1>3. CASE ~JustTried(id, sig)
  <2> DEFINE new == [IdleExplain EXCEPT !.step = "reading", !.id = id, !.sig = sig, !.since = tick]
  <2>1. PICK e \in Explainers : /\ explain[e].step = "idle" /\ explain' = [explain EXCEPT ![e] = new]
                                /\ tried' = [tried EXCEPT ![<<id, sig>>] = tick]
    BY <1>3 DEF RequestExplanation, Asks
  <2>2. new \in ExplainType /\ new.step = "reading" /\ new.id = id /\ new.sig = sig /\ new.since = tick
    BY <1>1, IdleOnes, IncidentNumbers DEF IdleExplain, ExplainType, ExplainSteps
  <2> HIDE DEF new
  <2>3. explain' \in [Explainers -> ExplainType] /\ \A d \in Explainers : explain'[d] = IF d = e THEN new ELSE explain[d]
    BY <1>1, <2>1, <2>2
  <2>4. <<id, sig>> \in Ids \X Signatures /\ tick \in 0..NotYet
    BY <1>1, IncidentNumbers
  <2>5. /\ tried' \in [Ids \X Signatures -> 0..NotYet] /\ tried'[<<id, sig>>] = tick
        /\ \A i \in Ids, s \in Signatures : i # id \/ s # sig => tried'[<<i, s>>] = tried[<<i, s>>]
    BY <1>1, <2>1, <2>4
  <2>6. ASSUME NEW d \in Explainers, explain[d].step # "idle"
        PROVE  /\ explain[d].id \in Ids /\ explain[d].sig \in Signatures
               /\ explain[d].id # id \/ explain[d].sig # sig
    <3>1. explain[d].id \in Ids /\ explain[d].sig \in Signatures /\ explain[d].since \in Times
      BY <1>1, <2>6, IncidentNumbers DEF ExplainsFit, ExplainType
    <3>2. CASE explain[d].id = id /\ explain[d].sig = sig
      <4>1. tried[<<id, sig>>] = explain[d].since /\ tick <= explain[d].since + 1
        BY <2>6, <3>2 DEF ExplainsFit
      <4>2. tried[<<id, sig>>] # NotYet
        BY <3>1, <4>1, IncidentNumbers
      <4>3. tick < tried[<<id, sig>>] + ExplainRetry
        BY <1>1, <3>1, <4>1, IncidentNumbers
      <4>4. QED
        BY <1>3, <4>2, <4>3 DEF JustTried
    <3>3. QED
      BY <3>1, <3>2
  <2>7. ExplainsFit'
    <3>1. ASSUME NEW d \in Explainers, (explain'[d]).step # "idle"
          PROVE  /\ (explain'[d]).id # 0 /\ (incident'[(explain'[d]).id]).stage # "none" /\ (explain'[d]).sig # None
                 /\ tried'[<<(explain'[d]).id, (explain'[d]).sig>>] = (explain'[d]).since
                 /\ (explain'[d]).since <= tick /\ tick <= (explain'[d]).since + 1
      <4>1. CASE d = e
        BY <1>1, <2>2, <2>3, <2>5, <4>1, IncidentNumbers
      <4>2. CASE d # e
        <5>1. explain'[d] = explain[d] /\ explain[d].step # "idle"
          BY <2>3, <3>1, <4>2
        <5>2. tried'[<<explain[d].id, explain[d].sig>>] = tried[<<explain[d].id, explain[d].sig>>]
          BY <2>5, <2>6, <5>1
        <5>3. QED
          BY <2>6, <5>1, <5>2 DEF ExplainsFit
      <4>3. QED
        BY <4>1, <4>2
    <3>2. ASSUME NEW d \in Explainers, NEW g \in Explainers, d # g, (explain'[d]).step # "idle", (explain'[g]).step # "idle"
          PROVE  (explain'[d]).id # (explain'[g]).id \/ (explain'[d]).sig # (explain'[g]).sig
      <4>1. CASE d = e \/ g = e
        BY <2>2, <2>3, <2>6, <3>2, <4>1
      <4>2. CASE d # e /\ g # e
        BY <2>3, <3>2, <4>2 DEF ExplainsFit
      <4>3. QED
        BY <4>1, <4>2
    <3>3. QED
      BY <3>1, <3>2 DEF ExplainsFit
  <2>8. QED
    BY <2>2, <2>3, <2>5, <2>7
<1>4. QED
  BY <1>2, <1>3

\* Texts asked for earlier stay about what they were.
LEMMA TextsStay ==
  ASSUME IncidentsTyped, TextsAbout, crossed \subseteq crossed',
         \A e \in Explainers : (explain'[e]).step \in {"asking", "saving"} =>
           \/ (explain'[e]).about = (explain'[e]).sig \/ (explain'[e]).id \in crossed'
           \/ /\ explain[e].step \in {"asking", "saving"} /\ (explain'[e]).about = explain[e].about
              /\ (explain'[e]).sig = explain[e].sig /\ (explain'[e]).id = explain[e].id,
         \A i \in Ids : (incident'[i]).explainedFor = incident[i].explainedFor /\ (incident'[i]).about = incident[i].about
  PROVE  TextsAbout'
BY DEF TextsAbout

\* Time, and incidents to come, make nobody mail again.
LEMMA MailsStay ==
  ASSUME IncidentsTyped, ExplainsFit, MailsFit, UNCHANGED mailing, tick' \in Times, tick' >= tick,
         \A e \in Explainers : (explain'[e]).step = "mailing" =>
           explain[e].step = "mailing" /\ (explain'[e]).id = explain[e].id /\ (explain'[e]).sig = explain[e].sig,
         \A i \in Ids : incident[i].stage # "none" => (incident'[i]).stage # "none"
  PROVE  MailsFit'
<1>1. UNCHANGED <<alerted, mailedAt, soon>>
  BY DEF mailing
<1>2. ASSUME NEW e \in Explainers, (explain'[e]).step = "mailing", Latest(explain[e].id)'
      PROVE ~JustMailed(explain[e].sig)'
  <2>1. explain[e].step = "mailing" /\ (explain'[e]).id = explain[e].id /\ (explain'[e]).sig = explain[e].sig
    BY <1>2
  <2>2. Latest(explain[e].id)
    BY <1>2, <2>1 DEF Latest
  <2>3. ~JustMailed(explain[e].sig)
    BY <2>1, <2>2 DEF MailsFit
  <2>4. explain[e].sig \in Signatures
    BY <2>1 DEF IncidentsTyped, ExplainType, ExplainsFit
  <2>5. alerted[explain[e].sig] \in Nat /\ tick \in Nat /\ tick' \in Nat /\ tick <= tick' /\ AlertAgain \in Nat
    BY <2>4, IncidentNumbers DEF IncidentsTyped, IncidentsElse
  <2>6. alerted[explain[e].sig] # NotYet => ~(tick' < alerted[explain[e].sig] + AlertAgain)
    BY <2>3, <2>5 DEF JustMailed
  <2>7. QED
    BY <1>1, <2>1, <2>6 DEF JustMailed
<1>3. QED
  BY <1>1, <1>2 DEF MailsFit

LEMMA StagesStay ==
  ASSUME IncidentsTyped, InOrder, UNCHANGED open, tick' \in Times, tick' >= tick,
         \A i \in Ids : (incident'[i]).stage = incident[i].stage /\ (incident'[i]).endedAt = incident[i].endedAt,
         task' = task \/ (task.step # "naming" /\ task'.step # "writing")
  PROVE  InOrder'
<1>1. tick \in Nat /\ tick' \in Nat /\ tick <= tick' /\ ReopenWithin \in Nat /\ \A i \in Ids : incident[i].endedAt \in Nat
  BY IncidentNumbers DEF IncidentsTyped, IncidentsElse, IncidentType
<1>2. IncidentsFollow'
  BY <1>1, IncidentNumbers DEF InOrder, IncidentsFollow
<1>3. OneOpen'
  BY DEF InOrder, OneOpen
<1>4. FoundLatest'
  <2>1. SUFFICES ASSUME task'.step = "writing" PROVE FoundLatest'
    BY DEF FoundLatest
  <2>2. task' = task
    BY <2>1
  <2>3. \A i \in Ids : ~Recent(i) => ~(Recent(i))'
    BY <1>1 DEF Recent
  <2>4. task.id # 0 => task.id \in Ids
    BY IncidentNumbers DEF IncidentsTyped, TaskType
  <2>5. QED
    BY <2>1, <2>2, <2>3, <2>4 DEF InOrder, FoundLatest
<1>5. QED
  BY <1>2, <1>3, <1>4 DEF InOrder

-----------------------------------------------------------------------------

\* A report goes on with what it read; explanations and incidents stay.
LEMMA TaskStep ==
  ASSUME IncidentsInv, UNCHANGED <<incidentRows, explain, tried, mailing, viewer, tick, crossed>>,
         IncidentsElse', task' \in TaskType, MemoryFollows', stops' = 0 => stops = 0 /\ InOrder'
  PROVE  IncidentsInv'
<1>1. IncidentsTyped /\ ExplainsFit /\ TextsAbout /\ UNCHANGED <<incident, open>> /\ tick \in Times /\ tick \in Nat
  BY IncidentNumbers DEF IncidentsInv, IncidentsTyped, IncidentsElse, incidentRows
<1>2. ExplainsFit' /\ ViewerFits' /\ SignaturesFit' /\ TextsAbout'
  BY <1>1 DEF IncidentsInv, ExplainsFit, ViewerFits, SignaturesFit, TextsAbout
<1>3. stops' = 0 => MailsFit'
  BY <1>1, MailsStay DEF IncidentsInv, WhileWhole
<1>4. QED
  BY <1>1, <1>2, <1>3 DEF IncidentsInv, IncidentsTyped, WhileWhole

LEMMA BranchIs ==
  ASSUME NEW sig \in Signatures \cup {None}, NEW id \in 0..MaxIncidents
  PROVE  /\ Branch(sig, id) \in TaskType /\ Branch(sig, id).sig = sig /\ Branch(sig, id).id = id
         /\ Branch(sig, id).step \in {"idle", "ending", "finding", "adding"}
         /\ Branch(sig, id).step \in {"ending", "adding"} => id # 0
         /\ Branch(sig, id).step = "finding" => id = 0
         /\ Branch(sig, id).step \in {"finding", "adding"} => sig # None
BY DEF Branch, TaskType, TaskSteps

LEMMA ReportsBegin == ASSUME IncidentsInv, Succeeded \/ (\E s \in Signatures : Failed(s)) PROVE IncidentsInv'
<1>1. PICK sig \in Signatures \cup {None} : task' = Enter(sig)
  BY DEF Succeeded, Failed
<1>2. /\ UNCHANGED <<incidentRows, known, explain, tried, mailing, viewer, tick, crossed, stops>>
      /\ failures' \in 0..MaxFailures /\ task.step = "idle"
  BY IncidentNumbers DEF Succeeded, Failed, IncidentsInv, IncidentsTyped, IncidentsElse
<1>3. UNCHANGED <<incident, open>> /\ IncidentsTyped /\ MemoryFollows
  BY <1>2 DEF incidentRows, IncidentsInv
<1>4. known \in 0..MaxIncidents \/ known = Unread
  BY <1>3 DEF MemoryFollows, IncidentsTyped, IncidentsElse
<1>5. task' \in TaskType /\ MemoryFollows' /\ task'.step # "writing"
  <2>1. CASE known = Unread
    <3>1. task' = [step |-> "loading", sig |-> sig, id |-> 0]
      BY <1>1, <2>1 DEF Enter
    <3>2. QED
      BY <1>2, <1>3, <3>1, IncidentNumbers DEF TaskType, TaskSteps, MemoryFollows
  <2>2. CASE known # Unread
    <3>1. task' = Branch(sig, known) /\ known \in 0..MaxIncidents /\ known = open
      BY <1>1, <1>3, <1>4, <2>2 DEF Enter, MemoryFollows
    <3>2. QED
      BY <1>2, <1>3, <3>1, BranchIs DEF MemoryFollows
  <2>3. QED
    BY <2>1, <2>2
<1>6. IncidentsElse'
  BY <1>2, <1>3 DEF IncidentsTyped, IncidentsElse, mailing
<1>7. stops' = 0 => stops = 0 /\ InOrder'
  <2>1. tick' \in Times /\ tick' >= tick
    BY <1>2, <1>3, IncidentNumbers DEF IncidentsTyped, IncidentsElse
  <2>2. QED
    BY <1>2, <1>3, <1>5, <2>1, StagesStay DEF IncidentsInv, WhileWhole
<1>8. QED
  BY <1>2, <1>5, <1>6, <1>7, TaskStep

LEMMA LoadKeeps == ASSUME IncidentsInv, LoadComponent PROVE IncidentsInv'
<1>1. /\ UNCHANGED <<incidentRows, explain, tried, mailing, viewer, tick, crossed, failures, stops>>
      /\ task.step = "loading" /\ known' = open /\ task' = Branch(task.sig, open)
  BY DEF LoadComponent
<1>2. UNCHANGED <<incident, open>> /\ IncidentsTyped /\ MemoryFollows /\ open \in 0..MaxIncidents /\ task.sig \in Signatures \cup {None}
  BY <1>1 DEF incidentRows, IncidentsInv, IncidentsTyped, IncidentsElse, TaskType
<1>3. task' \in TaskType /\ MemoryFollows' /\ task'.step # "writing"
  BY <1>1, <1>2, BranchIs DEF MemoryFollows
<1>4. IncidentsElse'
  BY <1>1, <1>2, IncidentNumbers DEF IncidentsTyped, IncidentsElse, mailing
<1>5. stops' = 0 => stops = 0 /\ InOrder'
  <2>1. tick' \in Times /\ tick' >= tick
    BY <1>1, <1>2, IncidentNumbers DEF IncidentsTyped, IncidentsElse
  <2>2. QED
    BY <1>1, <1>2, <1>3, <2>1, StagesStay DEF IncidentsInv, WhileWhole
<1>6. QED
  BY <1>1, <1>3, <1>4, <1>5, TaskStep

LEMMA FindRecentKeeps == ASSUME IncidentsInv, FindRecent PROVE IncidentsInv'
<1>1. /\ UNCHANGED <<incidentRows, known, explain, tried, mailing, viewer, tick, crossed, failures, stops>>
      /\ task.step = "finding"
  BY DEF FindRecent
<1>2. UNCHANGED <<incident, open>> /\ IncidentsTyped /\ MemoryFollows /\ task \in TaskType /\ open = 0 /\ task.id = 0
  BY <1>1 DEF incidentRows, IncidentsInv, IncidentsTyped, MemoryFollows
<1>3. \/ \E i \in Ids : /\ Recent(i) /\ \A j \in Ids : Recent(j) => incident[j].endedAt <= incident[i].endedAt
                         /\ task' = [task EXCEPT !.step = "writing", !.id = i]
      \/ (\A i \in Ids : ~Recent(i)) /\ task' = [task EXCEPT !.step = "writing"]
  BY DEF FindRecent
<1>4. task' \in TaskType /\ task'.step = "writing" /\ task'.sig = task.sig
  BY <1>2, <1>3, IncidentNumbers DEF TaskType, TaskSteps
<1>5. MemoryFollows' /\ IncidentsElse'
  BY <1>1, <1>2, <1>4 DEF MemoryFollows, IncidentsTyped, IncidentsElse, mailing
<1>6. ASSUME stops' = 0 PROVE stops = 0 /\ InOrder'
  <2>1. stops = 0 /\ IncidentsFollow /\ OneOpen
    BY <1>1, <1>6 DEF IncidentsInv, WhileWhole, InOrder
  <2>2. \A i \in Ids : incident[i].stage # "open"
    BY <1>1, <1>2, <2>1, IncidentNumbers DEF OneOpen
  <2>3. IncidentsFollow' /\ OneOpen'
    BY <1>1, <1>2, <2>1, <2>2 DEF IncidentsFollow, OneOpen
  <2>4. ASSUME NEW i \in Ids, Recent(i), \A j \in Ids : Recent(j) => incident[j].endedAt <= incident[i].endedAt
        PROVE  \A j \in Ids : j > i => incident[j].stage = "none"
    <3>1. SUFFICES ASSUME NEW j \in Ids, j > i, incident[j].stage # "none" PROVE FALSE
      OBVIOUS
    <3>2. i \in Nat /\ j \in Nat /\ i < j /\ incident[j].stage \in Stages
      BY <1>2, <3>1, IncidentNumbers DEF IncidentsTyped, IncidentType
    <3>3. incident[j].stage = "ended"
      BY <2>2, <3>1, <3>2 DEF Stages
    <3>4. incident[i].endedAt < incident[j].endedAt
      BY <2>1, <3>1, <3>2, <3>3 DEF IncidentsFollow
    <3>5. incident[i].endedAt \in Nat /\ incident[j].endedAt \in Nat /\ tick \in Nat /\ ReopenWithin \in Nat
      BY <1>2, IncidentNumbers DEF IncidentsTyped, IncidentsElse, IncidentType
    <3>6. Recent(j)
      BY <2>4, <3>3, <3>4, <3>5 DEF Recent
    <3>7. QED
      BY <2>4, <3>4, <3>5, <3>6
  <2>5. FoundLatest'
    <3>1. CASE \E i \in Ids : /\ Recent(i) /\ \A j \in Ids : Recent(j) => incident[j].endedAt <= incident[i].endedAt
                               /\ task' = [task EXCEPT !.step = "writing", !.id = i]
      <4>1. PICK i \in Ids : /\ Recent(i) /\ \A j \in Ids : Recent(j) => incident[j].endedAt <= incident[i].endedAt
                             /\ task' = [task EXCEPT !.step = "writing", !.id = i]
        BY <3>1
      <4>2. task'.id = i /\ i # 0 /\ incident[i].stage = "ended"
        BY <1>2, <4>1, IncidentNumbers DEF TaskType, Recent
      <4>3. QED
        BY <1>2, <2>4, <4>1, <4>2 DEF FoundLatest
    <3>2. CASE (\A i \in Ids : ~Recent(i)) /\ task' = [task EXCEPT !.step = "writing"]
      <4>1. task'.id = 0 /\ \A i \in Ids : ~(Recent(i))'
        BY <1>1, <1>2, <3>2 DEF TaskType, Recent
      <4>2. QED
        BY <4>1 DEF FoundLatest
    <3>3. QED
      BY <1>3, <3>1, <3>2
  <2>6. QED
    BY <2>1, <2>3, <2>5 DEF InOrder
<1>7. QED
  BY <1>1, <1>4, <1>5, <1>6, TaskStep

LEMMA ReportFailsKeeps == ASSUME IncidentsInv, ReportFails PROVE IncidentsInv'
<1>1. /\ UNCHANGED <<incidentRows, explain, tried, mailing, viewer, tick, crossed, failures>>
      /\ known' = Unread /\ task' = IdleTask /\ stops < MaxStops /\ stops' = stops + 1
  BY DEF ReportFails
<1>2. UNCHANGED <<incident, open>> /\ IncidentsTyped /\ MemoryFollows /\ stops \in 0..MaxStops
  BY <1>1 DEF incidentRows, IncidentsInv, IncidentsTyped, IncidentsElse
<1>3. stops' \in 0..MaxStops /\ stops' # 0
  BY <1>1, <1>2, IncidentNumbers
<1>4. MemoryFollows'
  BY <1>1, <1>2 DEF MemoryFollows, IdleTask
<1>5. IncidentsElse'
  BY <1>1, <1>2, <1>3, IncidentNumbers DEF IncidentsTyped, IncidentsElse, mailing
<1>6. QED
  BY <1>1, <1>3, <1>4, <1>5, IdleOnes, TaskStep

\* A step of an explanation: the reports' side stays.
LEMMA ExplainStep ==
  ASSUME IncidentsInv, UNCHANGED <<open, known, task, tried, viewer, tick, failures, stops>>,
         incident' \in [Ids -> IncidentType],
         \A i \in Ids : /\ (incident'[i]).stage = incident[i].stage /\ (incident'[i]).endedAt = incident[i].endedAt
                        /\ (incident'[i]).sig = incident[i].sig,
         NEW e \in Explainers, explain[e].step # "idle", explain' = [explain EXCEPT ![e] = explain'[e]], explain'[e] \in ExplainType,
         \/ (explain'[e]).step = "idle"
         \/ /\ (explain'[e]).id = explain[e].id /\ (explain'[e]).sig = explain[e].sig /\ (explain'[e]).since = explain[e].since,
         mailing' \in [Signatures -> 0..NotYet] \X [Signatures -> 0..NotYet] \X SUBSET Signatures,
         crossed' \subseteq Ids, TextsAbout', stops = 0 => MailsFit'
  PROVE  IncidentsInv'
<1>1. IncidentsTyped /\ ExplainsFit /\ explain \in [Explainers -> ExplainType] /\ open \in 0..MaxIncidents
  BY DEF IncidentsInv, IncidentsTyped, IncidentsElse
<1>2. \A d \in Explainers : d # e => explain'[d] = explain[d]
  BY <1>1
<1>3. explain' \in [Explainers -> ExplainType]
  <2> DEFINE s == explain'[e]
  <2>1. s \in ExplainType /\ explain' = [explain EXCEPT ![e] = s]
    OBVIOUS
  <2> HIDE DEF s
  <2>2. QED
    BY <1>1, <2>1
<1>4. ExplainsFit'
  <2>1. \A d \in Explainers : \/ (explain'[d]).step = "idle"
                               \/ /\ explain[d].step # "idle" /\ (explain'[d]).id = explain[d].id
                                  /\ (explain'[d]).sig = explain[d].sig /\ (explain'[d]).since = explain[d].since
    BY <1>2
  <2>2. QED
    BY <1>1, <2>1, ExplainsStay
<1>5. IncidentsElse'
  <2>1. alerted' \in [Signatures -> 0..NotYet] /\ mailedAt' \in [Signatures -> 0..NotYet] /\ soon' \subseteq Signatures
    BY DEF mailing
  <2>2. QED
    BY <1>1, <2>1 DEF IncidentsTyped, IncidentsElse
<1>6. MemoryFollows'
  <2>1. open # 0 => open \in Ids
    BY <1>1, IncidentNumbers
  <2>2. task.id # 0 => task.id \in Ids
    BY <1>1, IncidentNumbers DEF IncidentsTyped, TaskType
  <2>3. QED
    BY <2>1, <2>2 DEF IncidentsInv, MemoryFollows
<1>7. ViewerFits' /\ SignaturesFit'
  <2>1. viewer.id # 0 => viewer.id \in Ids
    BY <1>1, IncidentNumbers DEF IncidentsTyped, IncidentsElse
  <2>2. QED
    BY <2>1 DEF IncidentsInv, ViewerFits, SignaturesFit
<1>8. stops' = 0 => InOrder' /\ MailsFit'
  <2>1. tick' \in Times /\ tick' >= tick
    BY <1>1, IncidentNumbers DEF IncidentsTyped, IncidentsElse
  <2>2. QED
    BY <1>1, <2>1, StagesStay DEF IncidentsInv, WhileWhole
<1>9. QED
  BY <1>1, <1>3, <1>4, <1>5, <1>6, <1>7, <1>8 DEF IncidentsInv, IncidentsTyped, WhileWhole

LEMMA MailingTyped ==
  ASSUME IncidentsTyped PROVE mailing \in [Signatures -> 0..NotYet] \X [Signatures -> 0..NotYet] \X SUBSET Signatures
BY DEF IncidentsTyped, IncidentsElse, mailing

LEMMA ReadIncidentKeeps == ASSUME IncidentsInv, NEW e \in Explainers, ReadIncident(e) PROVE IncidentsInv'
<1> DEFINE i == explain[e].id
           now == incident[i].sig
<1>1. /\ UNCHANGED <<incident, open, known, task, tried, mailing, viewer, tick, failures, stops>> /\ explain[e].step = "reading"
  BY DEF ReadIncident, incidentRows
<1>2. IncidentsTyped /\ ExplainsFit /\ TextsAbout /\ explain \in [Explainers -> ExplainType] /\ explain[e] \in ExplainType
      /\ i \in Ids /\ now \in Signatures \cup {None} /\ crossed \subseteq Ids
  BY <1>1, IncidentNumbers DEF IncidentsInv, IncidentsTyped, IncidentsElse, ExplainsFit, ExplainType, IncidentType
<1>3. \/ explain' = [explain EXCEPT ![e] = IdleExplain] /\ UNCHANGED crossed
      \/ /\ explain' = [explain EXCEPT ![e].step = "asking", ![e].about = now]
         /\ crossed' = IF now = explain[e].sig THEN crossed ELSE crossed \cup {i}
  BY DEF ReadIncident, ExplainEnds
<1>4. \/ explain'[e] = IdleExplain /\ UNCHANGED crossed
      \/ /\ explain'[e] = [explain[e] EXCEPT !.step = "asking", !.about = now]
         /\ crossed' = IF now = explain[e].sig THEN crossed ELSE crossed \cup {i}
  BY <1>2, <1>3
<1>5. explain' = [explain EXCEPT ![e] = explain'[e]]
  BY <1>2, <1>3, <1>4
<1> HIDE DEF now
<1>6. /\ explain'[e] \in ExplainType
      /\ \/ (explain'[e]).step = "idle" /\ UNCHANGED crossed
         \/ /\ (explain'[e]).step = "asking" /\ (explain'[e]).id = explain[e].id /\ (explain'[e]).sig = explain[e].sig
            /\ (explain'[e]).since = explain[e].since /\ (explain'[e]).about = now
            /\ crossed' = IF now = explain[e].sig THEN crossed ELSE crossed \cup {i}
  BY <1>2, <1>4, IdleOnes DEF ExplainType, ExplainSteps, IdleExplain
<1>7. crossed \subseteq crossed' /\ crossed' \subseteq Ids
  BY <1>2, <1>6
<1>8. \A d \in Explainers : d # e => explain'[d] = explain[d]
  BY <1>2, <1>5
<1>9. TextsAbout'
  <2>1. (explain'[e]).step \in {"asking", "saving"} => (explain'[e]).about = (explain'[e]).sig \/ (explain'[e]).id \in crossed'
    BY <1>6
  <2>2. QED
    BY <1>1, <1>2, <1>7, <1>8, <2>1, TextsStay
<1>10. stops = 0 => MailsFit'
  <2>1. tick' \in Times /\ tick' >= tick
    BY <1>1, <1>2, IncidentNumbers DEF IncidentsTyped, IncidentsElse
  <2>2. \A d \in Explainers : (explain'[d]).step = "mailing" =>
           explain[d].step = "mailing" /\ (explain'[d]).id = explain[d].id /\ (explain'[d]).sig = explain[d].sig
    BY <1>6, <1>8
  <2>3. QED
    BY <1>1, <1>2, <2>1, <2>2, MailsStay DEF IncidentsInv, WhileWhole
<1>11. mailing' \in [Signatures -> 0..NotYet] \X [Signatures -> 0..NotYet] \X SUBSET Signatures
  BY <1>1, <1>2, MailingTyped
<1>12. incident' \in [Ids -> IncidentType]
  BY <1>1, <1>2 DEF IncidentsTyped
<1>13. QED
  BY <1>1, <1>5, <1>6, <1>7, <1>9, <1>10, <1>11, <1>12, ExplainStep

\* An explanation that ends, or goes on to a step that says nothing new of it.
LEMMA ExplainGoesOn ==
  ASSUME IncidentsInv, NEW e \in Explainers, explain[e].step # "idle",
         NEW step \in {"saving", "checking", "mailing"}, ExplainTo(e, step) \/ ExplainEnds(e),
         ExplainTo(e, step) /\ step = "saving" => explain[e].step = "asking"
  PROVE  /\ explain' = [explain EXCEPT ![e] = explain'[e]] /\ explain'[e] \in ExplainType
         /\ \/ (explain'[e]).step = "idle"
            \/ /\ (explain'[e]).step = step /\ ExplainTo(e, step)
               /\ (explain'[e]).id = explain[e].id /\ (explain'[e]).sig = explain[e].sig /\ (explain'[e]).since = explain[e].since
               /\ (explain'[e]).about = explain[e].about
         /\ \A d \in Explainers : d # e => explain'[d] = explain[d]
         /\ \A d \in Explainers : (explain'[d]).step \in {"asking", "saving"} =>
               /\ explain[d].step \in {"asking", "saving"} /\ (explain'[d]).about = explain[d].about
               /\ (explain'[d]).sig = explain[d].sig /\ (explain'[d]).id = explain[d].id
<1>1. explain \in [Explainers -> ExplainType] /\ explain[e] \in ExplainType
  BY DEF IncidentsInv, IncidentsTyped
<1>2. \/ explain'[e] = IdleExplain
      \/ explain'[e] = [explain[e] EXCEPT !.step = step] /\ ExplainTo(e, step)
  BY <1>1 DEF ExplainTo, ExplainEnds
<1>3. explain' = [explain EXCEPT ![e] = explain'[e]]
  BY <1>1, <1>2 DEF ExplainTo, ExplainEnds
<1>4. /\ explain'[e] \in ExplainType
      /\ \/ (explain'[e]).step = "idle"
         \/ /\ (explain'[e]).step = step /\ ExplainTo(e, step)
            /\ (explain'[e]).id = explain[e].id /\ (explain'[e]).sig = explain[e].sig /\ (explain'[e]).since = explain[e].since
            /\ (explain'[e]).about = explain[e].about
  BY <1>1, <1>2, IdleOnes DEF ExplainType, ExplainSteps, IdleExplain
<1>5. \A d \in Explainers : d # e => explain'[d] = explain[d]
  BY <1>1, <1>3
<1>6. QED
  BY <1>3, <1>4, <1>5

LEMMA AnswersKeep == ASSUME IncidentsInv, NEW e \in Explainers, Answered(e) \/ ExplainFails(e) \/ CheckAlert(e) PROVE IncidentsInv'
<1>1. /\ UNCHANGED <<incident, open, known, task, tried, mailing, viewer, tick, crossed, failures, stops>> /\ explain[e].step # "idle"
  BY DEF Answered, ExplainFails, CheckAlert, incidentRows
<1>2. IncidentsTyped /\ ExplainsFit /\ TextsAbout /\ crossed \subseteq Ids /\ crossed' \subseteq Ids
  BY <1>1 DEF IncidentsInv, IncidentsTyped, IncidentsElse
<1>3. PICK step \in {"saving", "checking", "mailing"} :
        /\ ExplainTo(e, step) \/ ExplainEnds(e)
        /\ ExplainTo(e, step) /\ step = "saving" => explain[e].step = "asking"
        /\ ExplainTo(e, step) /\ step = "mailing" => ~JustMailed(explain[e].sig)
  <2>1. CASE Answered(e)
    BY <2>1 DEF Answered
  <2>2. CASE ExplainFails(e)
    <3>1. ExplainEnds(e) /\ "checking" # "saving" /\ "checking" # "mailing"
      BY <2>2 DEF ExplainFails
    <3>2. QED
      BY <3>1
  <2>3. CASE CheckAlert(e)
    <3>1. CASE JustMailed(explain[e].sig)
      <4>1. ExplainEnds(e) /\ "checking" # "saving" /\ "checking" # "mailing"
        BY <2>3, <3>1 DEF CheckAlert
      <4>2. QED
        BY <4>1
    <3>2. CASE ~JustMailed(explain[e].sig)
      BY <2>3, <3>2 DEF CheckAlert
    <3>3. QED
      BY <3>1, <3>2
  <2>4. QED
    BY <2>1, <2>2, <2>3
<1>4. /\ explain' = [explain EXCEPT ![e] = explain'[e]] /\ explain'[e] \in ExplainType
      /\ \/ (explain'[e]).step = "idle"
         \/ /\ (explain'[e]).step = step /\ ExplainTo(e, step)
            /\ (explain'[e]).id = explain[e].id /\ (explain'[e]).sig = explain[e].sig /\ (explain'[e]).since = explain[e].since
      /\ \A d \in Explainers : d # e => explain'[d] = explain[d]
      /\ \A d \in Explainers : (explain'[d]).step \in {"asking", "saving"} =>
            /\ explain[d].step \in {"asking", "saving"} /\ (explain'[d]).about = explain[d].about
            /\ (explain'[d]).sig = explain[d].sig /\ (explain'[d]).id = explain[d].id
  BY <1>1, <1>3, ExplainGoesOn
<1>5. TextsAbout'
  BY <1>1, <1>2, <1>4, TextsStay
<1>6. ASSUME stops = 0 PROVE MailsFit'
  <2>1. MailsFit /\ UNCHANGED <<alerted, mailedAt, soon, tick, incident>>
    BY <1>1, <1>6 DEF IncidentsInv, WhileWhole, mailing
  <2>2. ASSUME NEW d \in Explainers, (explain'[d]).step = "mailing", Latest(explain[d].id)' PROVE ~JustMailed(explain[d].sig)'
    <3>1. CASE d = e
      <4>1. (explain'[e]).sig = explain[e].sig /\ ~JustMailed(explain[e].sig)
        BY <1>3, <1>4, <2>2, <3>1
      <4>2. QED
        BY <2>1, <3>1, <4>1 DEF JustMailed
    <3>2. CASE d # e
      <4>1. explain'[d] = explain[d] /\ explain[d].step = "mailing" /\ Latest(explain[d].id)
        BY <1>4, <2>1, <2>2, <3>2 DEF Latest
      <4>2. ~JustMailed(explain[d].sig)
        BY <2>1, <4>1 DEF MailsFit
      <4>3. QED
        BY <2>1, <4>1, <4>2 DEF JustMailed
    <3>3. QED
      BY <3>1, <3>2
  <2>3. QED
    BY <2>1, <2>2 DEF MailsFit
<1>7. mailing' \in [Signatures -> 0..NotYet] \X [Signatures -> 0..NotYet] \X SUBSET Signatures
  BY <1>1, <1>2, MailingTyped
<1>8. incident' \in [Ids -> IncidentType]
  BY <1>1, <1>2 DEF IncidentsTyped
<1>9. QED
  BY <1>1, <1>2, <1>4, <1>5, <1>6, <1>7, <1>8, ExplainStep

LEMMA SaveKeeps == ASSUME IncidentsInv, NEW e \in Explainers, SaveExplanation(e) PROVE IncidentsInv'
<1> DEFINE i == explain[e].id
<1>1. /\ UNCHANGED <<open, known, task, tried, mailing, viewer, tick, crossed, failures, stops>> /\ explain[e].step = "saving"
      /\ incident' = [incident EXCEPT ![i].explainedFor = explain[e].sig, ![i].about = explain[e].about] /\ ExplainTo(e, "checking")
  BY DEF SaveExplanation
<1>2. IncidentsTyped /\ ExplainsFit /\ TextsAbout /\ crossed \subseteq Ids /\ crossed' \subseteq Ids /\ incident \in [Ids -> IncidentType]
      /\ i \in Ids /\ explain[e].sig \in Signatures \cup {None} /\ explain[e].about \in Signatures \cup {None}
  BY <1>1, IncidentNumbers DEF IncidentsInv, IncidentsTyped, IncidentsElse, ExplainsFit, ExplainType
<1>3. incident'[i] = [incident[i] EXCEPT !.explainedFor = explain[e].sig, !.about = explain[e].about]
  BY <1>1, <1>2
<1>4. incident' \in [Ids -> IncidentType] /\ \A j \in Ids : j # i => incident'[j] = incident[j]
  <2>1. [incident[i] EXCEPT !.explainedFor = explain[e].sig, !.about = explain[e].about] \in IncidentType
    BY <1>2 DEF IncidentType
  <2>2. QED
    BY <1>1, <1>2, <2>1
<1>5. \A j \in Ids : /\ (incident'[j]).stage = incident[j].stage /\ (incident'[j]).endedAt = incident[j].endedAt
                     /\ (incident'[j]).sig = incident[j].sig
  <2>1. incident[i] \in IncidentType
    BY <1>2
  <2>2. /\ (incident'[i]).stage = incident[i].stage /\ (incident'[i]).endedAt = incident[i].endedAt
        /\ (incident'[i]).sig = incident[i].sig
    BY <1>3, <2>1 DEF IncidentType
  <2>3. QED
    BY <1>4, <2>2
<1>6. (incident'[i]).explainedFor = explain[e].sig /\ (incident'[i]).about = explain[e].about
  BY <1>2, <1>3 DEF IncidentType
<1>7. /\ explain' = [explain EXCEPT ![e] = explain'[e]] /\ explain'[e] \in ExplainType
      /\ \/ (explain'[e]).step = "idle"
         \/ /\ (explain'[e]).step = "checking"
            /\ (explain'[e]).id = explain[e].id /\ (explain'[e]).sig = explain[e].sig /\ (explain'[e]).since = explain[e].since
      /\ \A d \in Explainers : d # e => explain'[d] = explain[d]
  BY <1>1, ExplainGoesOn
<1>8. TextsAbout'
  <2>1. \A d \in Explainers : (explain'[d]).step \in {"asking", "saving"} =>
          (explain'[d]).about = (explain'[d]).sig \/ (explain'[d]).id \in crossed'
    BY <1>1, <1>2, <1>7 DEF TextsAbout
  <2>2. explain[e].about = explain[e].sig \/ i \in crossed
    BY <1>1, <1>2 DEF TextsAbout
  <2>3. \A j \in Ids : (incident'[j]).explainedFor # None /\ j \notin crossed' => (incident'[j]).about = (incident'[j]).explainedFor
    BY <1>1, <1>2, <1>4, <1>6, <2>2 DEF TextsAbout
  <2>4. QED
    BY <2>1, <2>3 DEF TextsAbout
<1>9. stops = 0 => MailsFit'
  <2>1. tick' \in Times /\ tick' >= tick
    BY <1>1, <1>2, IncidentNumbers DEF IncidentsTyped, IncidentsElse
  <2>2. \A d \in Explainers : (explain'[d]).step = "mailing" =>
           explain[d].step = "mailing" /\ (explain'[d]).id = explain[d].id /\ (explain'[d]).sig = explain[d].sig
    BY <1>7
  <2>3. QED
    BY <1>1, <1>2, <1>5, <2>1, <2>2, MailsStay DEF IncidentsInv, WhileWhole
<1>10. mailing' \in [Signatures -> 0..NotYet] \X [Signatures -> 0..NotYet] \X SUBSET Signatures
  BY <1>1, <1>2, MailingTyped
<1>11. QED
  BY <1>1, <1>2, <1>4, <1>5, <1>7, <1>8, <1>9, <1>10, ExplainStep

LEMMA OpenIsLatest ==
  ASSUME IncidentsTyped, IncidentsFollow, NEW i \in Ids, incident[i].stage = "open"
  PROVE  Latest(i)
<1>1. ASSUME NEW j \in Ids, j > i, incident[j].stage # "none" PROVE FALSE
  <2>1. i < j
    BY <1>1, IncidentNumbers
  <2>2. QED
    BY <1>1, <2>1 DEF IncidentsFollow
<1>2. QED
  BY <1>1 DEF Latest

LEMMA MailAlertKeeps == ASSUME IncidentsInv, NEW e \in Explainers, MailAlert(e) PROVE IncidentsInv'
<1> DEFINE s == explain[e].sig
           i == explain[e].id
<1>1. /\ UNCHANGED <<incident, open, known, task, tried, viewer, tick, crossed, failures, stops>> /\ explain[e].step = "mailing"
      /\ explain' = [explain EXCEPT ![e] = IdleExplain]
  BY DEF MailAlert, ExplainEnds, incidentRows
<1>2. IncidentsTyped /\ ExplainsFit /\ TextsAbout /\ crossed \subseteq Ids /\ crossed' \subseteq Ids
      /\ i \in Ids /\ s \in Signatures /\ explain \in [Explainers -> ExplainType] /\ tick \in Times /\ tick \in 0..NotYet
  BY <1>1, IncidentNumbers DEF IncidentsInv, IncidentsTyped, IncidentsElse, ExplainsFit, ExplainType
<1>3. /\ explain'[e] = IdleExplain /\ (explain'[e]).step = "idle" /\ explain'[e] \in ExplainType
      /\ \A d \in Explainers : d # e => explain'[d] = explain[d]
  BY <1>1, <1>2, IdleOnes DEF IdleExplain
<1>4. explain' = [explain EXCEPT ![e] = explain'[e]]
  BY <1>1, <1>3
<1>5. mailing' \in [Signatures -> 0..NotYet] \X [Signatures -> 0..NotYet] \X SUBSET Signatures
  <2>1. CASE UNCHANGED mailing
    BY <1>2, <2>1, MailingTyped
  <2>2. CASE /\ alerted' = [alerted EXCEPT ![s] = tick] /\ mailedAt' = [mailedAt EXCEPT ![s] = tick]
             /\ soon' \in {soon, soon \cup {s}}
    BY <1>2, <2>2 DEF IncidentsTyped, IncidentsElse, mailing
  <2>3. QED
    BY <2>1, <2>2 DEF MailAlert
<1>6. TextsAbout'
  <2>1. \A d \in Explainers : (explain'[d]).step \in {"asking", "saving"} =>
               /\ explain[d].step \in {"asking", "saving"} /\ (explain'[d]).about = explain[d].about
               /\ (explain'[d]).sig = explain[d].sig /\ (explain'[d]).id = explain[d].id
    BY <1>3
  <2>2. QED
    BY <1>1, <1>2, <2>1, TextsStay
<1>7. ASSUME stops = 0 PROVE MailsFit'
  <2>1. MailsFit /\ IncidentsFollow
    BY <1>7 DEF IncidentsInv, WhileWhole, InOrder
  <2>2. CASE incident[i].stage # "open"
    <3>1. UNCHANGED mailing
      BY <2>2 DEF MailAlert
    <3>2. \A d \in Explainers : (explain'[d]).step = "mailing" =>
            explain[d].step = "mailing" /\ (explain'[d]).id = explain[d].id /\ (explain'[d]).sig = explain[d].sig
      BY <1>3
    <3>3. tick' \in Times /\ tick' >= tick
      BY <1>1, <1>2, IncidentNumbers
    <3>4. QED
      BY <1>1, <1>2, <2>1, <3>1, <3>2, <3>3, MailsStay
  <2>3. CASE incident[i].stage = "open"
    <3>1. Latest(i) /\ ~JustMailed(s)
      BY <1>1, <1>2, <2>1, <2>3, OpenIsLatest DEF MailsFit
    <3>2. /\ alerted' = [alerted EXCEPT ![s] = tick] /\ mailedAt' = [mailedAt EXCEPT ![s] = tick]
          /\ soon' = IF mailedAt[s] # NotYet /\ tick < mailedAt[s] + AlertAgain THEN soon \cup {s} ELSE soon
      BY <2>3 DEF MailAlert
    <3>3. mailedAt' = alerted' /\ soon' = {}
      BY <2>1, <3>1, <3>2 DEF MailsFit, JustMailed
    <3>4. ASSUME NEW d \in Explainers, (explain'[d]).step = "mailing", Latest(explain[d].id)' PROVE ~JustMailed(explain[d].sig)'
      <4>1. d # e /\ explain'[d] = explain[d] /\ explain[d].step = "mailing"
        BY <1>3, <3>4
      <4>2. Latest(explain[d].id) /\ ~JustMailed(explain[d].sig)
        BY <1>1, <2>1, <3>4, <4>1 DEF Latest, MailsFit
      <4>3. explain[d].id \in Ids /\ explain[d].sig \in Signatures /\ incident[explain[d].id].stage # "none"
        BY <1>2, <4>1, IncidentNumbers DEF ExplainsFit, ExplainType
      <4>4. ~(explain[d].id > i) /\ ~(i > explain[d].id)
        BY <1>2, <2>3, <3>1, <4>2, <4>3 DEF Latest
      <4>5. explain[d].id = i
        BY <1>2, <4>3, <4>4, IncidentNumbers
      <4>6. explain[d].sig # s
        BY <1>1, <1>2, <4>1, <4>5 DEF ExplainsFit
      <4>7. alerted'[explain[d].sig] = alerted[explain[d].sig]
        BY <1>2, <3>2, <4>3, <4>6 DEF IncidentsTyped, IncidentsElse
      <4>8. QED
        BY <1>1, <4>1, <4>2, <4>7 DEF JustMailed
    <3>5. QED
      BY <3>3, <3>4 DEF MailsFit
  <2>4. QED
    BY <2>2, <2>3
<1>8. incident' \in [Ids -> IncidentType]
  BY <1>1, <1>2 DEF IncidentsTyped
<1>9. QED
  BY <1>1, <1>2, <1>3, <1>4, <1>5, <1>6, <1>7, <1>8, ExplainStep

-----------------------------------------------------------------------------

LEMMA AddFailureKeeps == ASSUME IncidentsInv, AddFailure PROVE IncidentsInv'
<1> DEFINE i == task.id
<1>1. /\ task.step = "adding" /\ incident' = [incident EXCEPT ![i].sig = task.sig] /\ RequestExplanation(i, task.sig)
      /\ task' = IdleTask /\ UNCHANGED <<open, known, mailing, viewer, tick, crossed, failures, stops>>
  BY DEF AddFailure
<1>2. IncidentsTyped /\ MemoryFollows /\ ExplainsFit /\ TextsAbout /\ incident \in [Ids -> IncidentType] /\ open \in 0..MaxIncidents
  BY DEF IncidentsInv, IncidentsTyped, IncidentsElse
<1>3. i = open /\ i \in Ids /\ incident[i].stage = "open" /\ task.sig \in Signatures /\ task.sig # None
  BY <1>1, <1>2, IncidentNumbers DEF MemoryFollows, IncidentsTyped, TaskType
<1>4. /\ incident' \in [Ids -> IncidentType] /\ (incident'[i]).sig = task.sig
      /\ \A j \in Ids : /\ (incident'[j]).stage = incident[j].stage /\ (incident'[j]).endedAt = incident[j].endedAt
                         /\ (incident'[j]).explainedFor = incident[j].explainedFor /\ (incident'[j]).about = incident[j].about
                         /\ j # i => (incident'[j]).sig = incident[j].sig
  <2> DEFINE new == [incident[i] EXCEPT !.sig = task.sig]
  <2>1. incident[i] \in IncidentType
    BY <1>2, <1>3
  <2>2. new \in IncidentType /\ new.sig = task.sig /\ new.stage = incident[i].stage /\ new.endedAt = incident[i].endedAt
        /\ new.explainedFor = incident[i].explainedFor /\ new.about = incident[i].about
    BY <1>3, <2>1 DEF IncidentType
  <2>3. incident' = [incident EXCEPT ![i] = new]
    BY <1>1
  <2> HIDE DEF new
  <2>4. incident' \in [Ids -> IncidentType] /\ incident'[i] = new /\ \A j \in Ids : j # i => incident'[j] = incident[j]
    BY <1>2, <1>3, <2>2, <2>3
  <2>5. QED
    BY <2>2, <2>4
<1>5. /\ ExplainsFit' /\ explain' \in [Explainers -> ExplainType] /\ tried' \in [Ids \X Signatures -> 0..NotYet]
      /\ \A e \in Explainers : explain'[e] = explain[e] \/ (explain'[e]).step = "reading"
  <2>1. incident[i].stage # "none" /\ tick' = tick /\ \A j \in Ids : incident[j].stage # "none" => (incident'[j]).stage # "none"
    BY <1>1, <1>3, <1>4
  <2> HIDE DEF i
  <2>2. QED
    BY <1>1, <1>2, <1>3, <2>1, RequestKeeps
<1>6. MemoryFollows' /\ task' \in TaskType
  BY <1>1, <1>2, <1>3, <1>4, IdleOnes DEF MemoryFollows, IdleTask
<1>7. IncidentsElse'
  BY <1>1, <1>2, <1>5 DEF IncidentsTyped, IncidentsElse, mailing
<1>8. TextsAbout'
  BY <1>1, <1>2, <1>4, <1>5, TextsStay
<1>9. ViewerFits' /\ SignaturesFit'
  <2>1. viewer.id # 0 => viewer.id \in Ids
    BY <1>2, IncidentNumbers DEF IncidentsTyped, IncidentsElse
  <2>2. QED
    BY <1>1, <1>3, <1>4, <2>1 DEF IncidentsInv, ViewerFits, SignaturesFit
<1>10. WhileWhole'
  <2>1. tick' \in Times /\ tick' >= tick
    BY <1>1, <1>2, IncidentNumbers DEF IncidentsTyped, IncidentsElse
  <2>2. task.step # "naming" /\ task'.step # "writing"
    BY <1>1 DEF IdleTask
  <2>3. ASSUME stops = 0 PROVE InOrder'
    BY <1>1, <1>2, <1>4, <2>1, <2>2, <2>3, StagesStay DEF IncidentsInv, WhileWhole
  <2>4. ASSUME stops = 0 PROVE MailsFit'
    BY <1>1, <1>2, <1>4, <1>5, <2>1, <2>4, MailsStay DEF IncidentsInv, WhileWhole
  <2>5. QED
    BY <1>1, <2>3, <2>4 DEF WhileWhole
<1>11. QED
  BY <1>4, <1>5, <1>6, <1>7, <1>8, <1>9, <1>10 DEF IncidentsInv, IncidentsTyped

LEMMA NameIncidentKeeps == ASSUME IncidentsInv, NameIncident PROVE IncidentsInv'
<1> DEFINE i == task.id
<1>1. /\ task.step = "naming" /\ RequestExplanation(i, task.sig) /\ open' = i /\ known' = i
      /\ task' = IdleTask /\ UNCHANGED <<incident, mailing, viewer, tick, crossed, failures, stops>>
  BY DEF NameIncident
<1>2. IncidentsTyped /\ MemoryFollows /\ ExplainsFit /\ TextsAbout /\ incident \in [Ids -> IncidentType]
  BY DEF IncidentsInv, IncidentsTyped, IncidentsElse
<1>3. i \in Ids /\ incident[i].stage = "open" /\ task.sig \in Signatures /\ task.sig # None /\ open = 0
  BY <1>1, <1>2, IncidentNumbers DEF MemoryFollows, IncidentsTyped, TaskType
<1>4. /\ ExplainsFit' /\ explain' \in [Explainers -> ExplainType] /\ tried' \in [Ids \X Signatures -> 0..NotYet]
      /\ \A e \in Explainers : explain'[e] = explain[e] \/ (explain'[e]).step = "reading"
  BY <1>1, <1>2, <1>3, RequestKeeps
<1>5. MemoryFollows' /\ task' \in TaskType
  BY <1>1, <1>2, <1>3, IdleOnes DEF MemoryFollows, IdleTask
<1>6. IncidentsElse'
  BY <1>1, <1>2, <1>3, <1>4, IncidentNumbers DEF IncidentsTyped, IncidentsElse, mailing
<1>7. TextsAbout' /\ ViewerFits' /\ SignaturesFit'
  BY <1>1, <1>2, <1>4, TextsStay DEF IncidentsInv, ViewerFits, SignaturesFit
<1>8. WhileWhole'
  <2>1. tick' \in Times /\ tick' >= tick
    BY <1>1, <1>2, IncidentNumbers DEF IncidentsTyped, IncidentsElse
  <2>2. ASSUME stops = 0 PROVE InOrder'
    <3>1. IncidentsFollow /\ OneOpen
      BY <2>2 DEF IncidentsInv, WhileWhole, InOrder
    <3>2. OneOpen'
      BY <1>1, <1>3, <3>1, IncidentNumbers DEF OneOpen
    <3>3. IncidentsFollow' /\ FoundLatest'
      BY <1>1, <3>1 DEF IncidentsFollow, FoundLatest, IdleTask
    <3>4. QED
      BY <3>2, <3>3 DEF InOrder
  <2>3. ASSUME stops = 0 PROVE MailsFit'
    BY <1>1, <1>2, <1>4, <2>1, <2>3, MailsStay DEF IncidentsInv, WhileWhole
  <2>4. QED
    BY <1>1, <2>2, <2>3 DEF WhileWhole
<1>9. QED
  BY <1>1, <1>2, <1>4, <1>5, <1>6, <1>7, <1>8 DEF IncidentsInv, IncidentsTyped

\* The rows change and nothing of explanations does.
LEMMA RowsChange ==
  ASSUME IncidentsInv, UNCHANGED <<explain, tried, mailing, viewer, tick, crossed, failures, stops>>,
         incident' \in [Ids -> IncidentType], task' \in TaskType, open' \in 0..MaxIncidents, known' \in 0..Unread,
         \A i \in Ids : /\ incident[i].stage # "none" => (incident'[i]).stage # "none"
                        /\ (incident'[i]).stage # "none" => (incident'[i]).sig # None
                        /\ (incident'[i]).explainedFor = incident[i].explainedFor /\ (incident'[i]).about = incident[i].about,
         MemoryFollows', stops = 0 => InOrder'
  PROVE  IncidentsInv'
<1>1. IncidentsTyped /\ ExplainsFit /\ TextsAbout /\ explain \in [Explainers -> ExplainType]
  BY DEF IncidentsInv, IncidentsTyped
<1>2. ExplainsFit'
  BY <1>1, ExplainsStay
<1>3. IncidentsElse'
  BY <1>1 DEF IncidentsTyped, IncidentsElse, mailing
<1>4. TextsAbout'
  BY <1>1, TextsStay
<1>5. ViewerFits' /\ SignaturesFit'
  <2>1. viewer.id # 0 => viewer.id \in Ids
    BY <1>1, IncidentNumbers DEF IncidentsTyped, IncidentsElse
  <2>2. QED
    BY <2>1 DEF IncidentsInv, ViewerFits, SignaturesFit
<1>6. ASSUME stops = 0 PROVE MailsFit'
  <2>1. tick' \in Times /\ tick' >= tick
    BY <1>1, IncidentNumbers DEF IncidentsTyped, IncidentsElse
  <2>2. QED
    BY <1>1, <1>6, <2>1, MailsStay DEF IncidentsInv, WhileWhole
<1>7. QED
  BY <1>1, <1>2, <1>3, <1>4, <1>5, <1>6 DEF IncidentsInv, IncidentsTyped, WhileWhole

LEMMA EndIncidentKeeps == ASSUME IncidentsInv, EndIncident PROVE IncidentsInv'
<1> DEFINE i == task.id
<1>1. /\ task.step = "ending" /\ incident' = [incident EXCEPT ![i].stage = "ended", ![i].endedAt = tick]
      /\ open' = 0 /\ known' = 0 /\ task' = IdleTask
      /\ UNCHANGED <<explain, tried, mailing, viewer, tick, crossed, failures, stops>>
  BY DEF EndIncident
<1>2. IncidentsTyped /\ MemoryFollows /\ incident \in [Ids -> IncidentType] /\ tick \in Times /\ tick \in Nat
  BY IncidentNumbers DEF IncidentsInv, IncidentsTyped, IncidentsElse
<1>3. i = open /\ i \in Ids /\ incident[i].stage = "open"
  BY <1>1, <1>2, IncidentNumbers DEF MemoryFollows, IncidentsTyped, TaskType
<1>4. incident'[i] = [incident[i] EXCEPT !.stage = "ended", !.endedAt = tick] /\ \A j \in Ids : j # i => incident'[j] = incident[j]
  BY <1>1, <1>2, <1>3
<1>5. [incident[i] EXCEPT !.stage = "ended", !.endedAt = tick] \in IncidentType
  BY <1>2, <1>3 DEF IncidentType, Stages
<1>6. incident' \in [Ids -> IncidentType]
  BY <1>1, <1>2, <1>4, <1>5
<1>7. /\ (incident'[i]).stage = "ended" /\ (incident'[i]).endedAt = tick /\ (incident'[i]).sig = incident[i].sig
      /\ (incident'[i]).explainedFor = incident[i].explainedFor /\ (incident'[i]).about = incident[i].about
  BY <1>2, <1>3, <1>4 DEF IncidentType
<1>8. MemoryFollows' /\ task' \in TaskType
  BY <1>1, IdleOnes DEF MemoryFollows, IdleTask
<1>9. ASSUME stops = 0 PROVE InOrder'
  <2>1. IncidentsFollow /\ OneOpen
    BY <1>9 DEF IncidentsInv, WhileWhole, InOrder
  <2>2. OneOpen' /\ FoundLatest'
    BY <1>1, <1>3, <1>4, <1>7, <2>1 DEF OneOpen, FoundLatest, IdleTask
  <2>3. ASSUME NEW a \in Ids, NEW b \in Ids, b < a, (incident'[a]).stage # "none"
        PROVE  /\ (incident'[b]).stage = "ended" /\ (incident'[b]).endedAt < tick
               /\ (incident'[a]).stage = "ended" => (incident'[b]).endedAt < (incident'[a]).endedAt
    <3>1. incident[a].stage # "none"
      BY <1>3, <1>4, <2>3
    <3>2. incident[b].stage = "ended" /\ incident[b].endedAt < tick
          /\ (incident[a].stage = "ended" => incident[b].endedAt < incident[a].endedAt)
      BY <2>1, <2>3, <3>1 DEF IncidentsFollow
    <3>3. b # i
      BY <1>3, <3>2
    <3>4. incident'[b] = incident[b]
      BY <1>4, <3>3
    <3>5. CASE a = i
      BY <1>7, <3>2, <3>4, <3>5
    <3>6. CASE a # i
      <4>1. incident'[a] = incident[a]
        BY <1>4, <3>6
      <4>2. QED
        BY <3>2, <3>4, <4>1
    <3>7. QED
      BY <3>5, <3>6
  <2>4. IncidentsFollow'
    BY <1>1, <2>3 DEF IncidentsFollow
  <2>5. QED
    BY <2>2, <2>4 DEF InOrder
<1>10. open' \in 0..MaxIncidents /\ known' \in 0..Unread
  BY <1>1, IncidentNumbers
<1>11. \A j \in Ids : /\ incident[j].stage # "none" => (incident'[j]).stage # "none"
                      /\ (incident'[j]).stage # "none" => (incident'[j]).sig # None
                      /\ (incident'[j]).explainedFor = incident[j].explainedFor /\ (incident'[j]).about = incident[j].about
  <2>1. \A j \in Ids : incident[j].stage # "none" => incident[j].sig # None
    BY DEF IncidentsInv, SignaturesFit
  <2>2. (incident'[i]).stage # "none" /\ (incident'[i]).sig # None
    BY <1>3, <1>7, <2>1
  <2>3. QED
    BY <1>4, <1>7, <2>1, <2>2
<1>12. QED
  BY <1>1, <1>6, <1>8, <1>9, <1>10, <1>11, RowsChange

LEMMA ReopenOrCreateKeeps == ASSUME IncidentsInv, ReopenOrCreate PROVE IncidentsInv'
<1>1. PICK i \in Ids :
       /\ IF task.id # 0 THEN i = task.id
          ELSE incident[i].stage = "none" /\ \A j \in 1..(i - 1) : incident[j].stage # "none"
       /\ incident' = [incident EXCEPT ![i].stage = "open", ![i].sig = task.sig]
       /\ task' = [task EXCEPT !.step = "naming", !.id = i]
  BY DEF ReopenOrCreate
<1>2. task.step = "writing" /\ UNCHANGED <<open, known, explain, tried, mailing, viewer, tick, crossed, failures, stops>>
  BY DEF ReopenOrCreate
<1>3. IncidentsTyped /\ MemoryFollows /\ incident \in [Ids -> IncidentType] /\ task \in TaskType /\ open = 0 /\ known \in 0..Unread
      /\ task.sig # None /\ task.sig \in Signatures /\ tick \in Nat
  BY <1>2, IncidentNumbers DEF IncidentsInv, IncidentsTyped, IncidentsElse, MemoryFollows, TaskType
<1>4. task' \in TaskType /\ task'.step = "naming" /\ task'.id = i /\ task'.sig = task.sig /\ i # 0 /\ i \in Nat
  BY <1>1, <1>3, IncidentNumbers DEF TaskType, TaskSteps
<1>5. incident'[i] = [incident[i] EXCEPT !.stage = "open", !.sig = task.sig] /\ \A j \in Ids : j # i => incident'[j] = incident[j]
  BY <1>1, <1>3
<1>6. [incident[i] EXCEPT !.stage = "open", !.sig = task.sig] \in IncidentType
  BY <1>3 DEF IncidentType, Stages
<1>7. incident' \in [Ids -> IncidentType]
  BY <1>1, <1>3, <1>5, <1>6
<1>8. /\ (incident'[i]).stage = "open" /\ (incident'[i]).endedAt = incident[i].endedAt /\ (incident'[i]).sig = task.sig
      /\ (incident'[i]).explainedFor = incident[i].explainedFor /\ (incident'[i]).about = incident[i].about
  BY <1>3, <1>5 DEF IncidentType
<1>9. MemoryFollows'
  BY <1>2, <1>3, <1>4, <1>8 DEF MemoryFollows
<1>10. ASSUME stops = 0 PROVE InOrder'
  <2>1. IncidentsFollow /\ OneOpen /\ FoundLatest
    BY <1>10 DEF IncidentsInv, WhileWhole, InOrder
  <2>2. \A j \in Ids : incident[j].stage # "open"
    BY <1>2, <1>3, <2>1, IncidentNumbers DEF OneOpen
  <2>3. OneOpen' /\ FoundLatest'
    BY <1>4, <1>5, <2>2 DEF OneOpen, FoundLatest
  \* The one opened follows those there were, and is followed by none.
  <2>4. \A b \in Ids : b < i => incident[b].stage = "ended" /\ incident[b].endedAt < tick
    <3>1. CASE task.id # 0
      <4>1. incident[i].stage = "ended"
        BY <1>1, <1>2, <2>1, <3>1 DEF FoundLatest
      <4>2. QED
        BY <2>1, <4>1 DEF IncidentsFollow
    <3>2. CASE task.id = 0
      <4>1. SUFFICES ASSUME NEW b \in Ids, b < i PROVE incident[b].stage = "ended" /\ incident[b].endedAt < tick
        OBVIOUS
      <4>2. b \in 1..(i - 1)
        BY <1>4, <4>1, IncidentNumbers DEF Ids
      <4>3. incident[b].stage # "none" /\ incident[b].stage \in Stages
        BY <1>1, <1>3, <3>2, <4>2 DEF IncidentType
      <4>4. incident[b].stage = "ended"
        BY <2>2, <4>3 DEF Stages
      <4>5. ~Recent(b)
        BY <1>2, <2>1, <3>2 DEF FoundLatest
      <4>6. incident[b].endedAt \in Nat /\ ReopenWithin \in Nat
        BY <1>3, IncidentNumbers DEF IncidentType
      <4>7. QED
        BY <1>3, <4>4, <4>5, <4>6 DEF Recent
    <3>3. QED
      BY <3>1, <3>2
  <2>5. \A a \in Ids : a > i => incident[a].stage = "none"
    <3>1. CASE task.id # 0
      BY <1>1, <1>2, <2>1, <3>1 DEF FoundLatest
    <3>2. CASE task.id = 0
      <4>1. SUFFICES ASSUME NEW a \in Ids, a > i, incident[a].stage # "none" PROVE FALSE
        OBVIOUS
      <4>2. i < a
        BY <1>4, <4>1, IncidentNumbers
      <4>3. QED
        BY <1>1, <2>1, <3>2, <4>1, <4>2 DEF IncidentsFollow
    <3>3. QED
      BY <3>1, <3>2
  <2>6. ASSUME NEW a \in Ids, NEW b \in Ids, b < a, (incident'[a]).stage # "none"
        PROVE  /\ (incident'[b]).stage = "ended" /\ (incident'[b]).endedAt < tick
               /\ (incident'[a]).stage = "ended" => (incident'[b]).endedAt < (incident'[a]).endedAt
    <3>1. a \in Nat /\ b \in Nat
      BY IncidentNumbers
    <3>2. CASE a = i
      <4>1. b < i /\ b # i
        BY <1>4, <2>6, <3>1, <3>2
      <4>2. incident'[b] = incident[b] /\ incident[b].stage = "ended" /\ incident[b].endedAt < tick
        BY <1>5, <2>4, <4>1
      <4>3. (incident'[a]).stage # "ended"
        BY <1>8, <3>2
      <4>4. QED
        BY <4>2, <4>3
    <3>3. CASE a # i
      <4>1. incident[a].stage # "none"
        BY <1>5, <2>6, <3>3
      <4>2. ~(a > i) /\ b # i
        BY <2>5, <2>6, <3>1, <1>4, <4>1
      <4>3. QED
        BY <1>5, <2>1, <2>6, <3>3, <4>1, <4>2 DEF IncidentsFollow
    <3>4. QED
      BY <3>2, <3>3
  <2>7. IncidentsFollow'
    BY <1>2, <2>6 DEF IncidentsFollow
  <2>8. QED
    BY <2>3, <2>7 DEF InOrder
<1>11. \A j \in Ids : /\ incident[j].stage # "none" => (incident'[j]).stage # "none"
                      /\ (incident'[j]).stage # "none" => (incident'[j]).sig # None
                      /\ (incident'[j]).explainedFor = incident[j].explainedFor /\ (incident'[j]).about = incident[j].about
  BY <1>3, <1>5, <1>8 DEF IncidentsInv, SignaturesFit
<1>12. open' \in 0..MaxIncidents /\ known' \in 0..Unread
  BY <1>2, <1>3, IncidentNumbers
<1>13. QED
  BY <1>2, <1>4, <1>7, <1>9, <1>10, <1>11, <1>12, RowsChange
-----------------------------------------------------------------------------

LEMMA OverviewReadKeeps == ASSUME IncidentsInv, OverviewRead PROVE IncidentsInv'
<1>1. /\ UNCHANGED <<incidentRows, known, task, explain, tried, mailing, tick, crossed, failures, stops>>
      /\ open # 0 /\ viewer' = [id |-> open, sig |-> incident[open].sig]
  BY DEF OverviewRead
<1>2. IncidentsTyped /\ UNCHANGED <<incident, open, alerted, mailedAt, soon>> /\ open \in 0..MaxIncidents
  BY <1>1 DEF IncidentsInv, IncidentsTyped, IncidentsElse, incidentRows, mailing
<1>3. open \in Ids /\ incident[open].stage = "open" /\ incident \in [Ids -> IncidentType]
  BY <1>1, <1>2, IncidentNumbers DEF IncidentsInv, MemoryFollows, IncidentsTyped
<1>4. incident[open].sig \in Signatures \cup {None} /\ incident[open].sig # None
  BY <1>3 DEF IncidentType, IncidentsInv, SignaturesFit
<1>5. viewer' \in [id : 0..MaxIncidents, sig : Signatures \cup {None}]
  BY <1>1, <1>2, <1>4
<1>6. IncidentsTyped'
  BY <1>1, <1>2, <1>5 DEF IncidentsTyped, IncidentsElse
<1>7. ViewerFits'
  BY <1>1, <1>2, <1>3, <1>4 DEF ViewerFits
<1>8. MemoryFollows' /\ SignaturesFit' /\ ExplainsFit' /\ TextsAbout'
  BY <1>1, <1>2 DEF IncidentsInv, MemoryFollows, SignaturesFit, ExplainsFit, TextsAbout
<1>9. WhileWhole'
  <2>1. InOrder => InOrder'
    BY <1>1, <1>2 DEF InOrder, IncidentsFollow, OneOpen, FoundLatest, Recent
  <2>2. MailsFit => MailsFit'
    BY <1>1, <1>2 DEF MailsFit, Latest, JustMailed
  <2>3. QED
    BY <1>1, <2>1, <2>2 DEF IncidentsInv, WhileWhole
<1>10. QED
  BY <1>6, <1>7, <1>8, <1>9 DEF IncidentsInv

LEMMA OverviewAsksKeeps == ASSUME IncidentsInv, OverviewAsks PROVE IncidentsInv'
<1>1. /\ UNCHANGED <<incidentRows, known, task, mailing, tick, crossed, failures, stops>>
      /\ viewer.id # 0 /\ RequestExplanation(viewer.id, viewer.sig) /\ viewer' = IdleViewer
  BY DEF OverviewAsks
<1>2. IncidentsTyped /\ ExplainsFit /\ TextsAbout /\ UNCHANGED <<incident, open, alerted, mailedAt, soon>>
  BY <1>1 DEF IncidentsInv, incidentRows, mailing
<1>3. viewer.id \in Ids /\ viewer.sig \in Signatures /\ viewer.sig # None /\ incident[viewer.id].stage # "none"
  BY <1>1, <1>2, IncidentNumbers DEF IncidentsInv, ViewerFits, IncidentsTyped, IncidentsElse
<1>4. /\ ExplainsFit' /\ explain' \in [Explainers -> ExplainType] /\ tried' \in [Ids \X Signatures -> 0..NotYet]
      /\ \A e \in Explainers : explain'[e] = explain[e] \/ (explain'[e]).step = "reading"
  <2>1. tick' = tick /\ \A j \in Ids : incident[j].stage # "none" => (incident'[j]).stage # "none"
    BY <1>1, <1>2
  <2>2. QED
    BY <1>1, <1>2, <1>3, <2>1, RequestKeeps
<1>5. viewer' \in [id : 0..MaxIncidents, sig : Signatures \cup {None}] /\ viewer'.id = 0
  BY <1>1, IncidentNumbers DEF IdleViewer
<1>6. IncidentsTyped'
  BY <1>1, <1>2, <1>4, <1>5 DEF IncidentsTyped, IncidentsElse
<1>7. ViewerFits' /\ MemoryFollows' /\ SignaturesFit'
  BY <1>1, <1>2, <1>5 DEF IncidentsInv, ViewerFits, MemoryFollows, SignaturesFit
<1>8. TextsAbout'
  BY <1>1, <1>2, <1>4, TextsStay
<1>9. WhileWhole'
  <2>1. tick' \in Times /\ tick' >= tick
    BY <1>1, <1>2, IncidentNumbers DEF IncidentsTyped, IncidentsElse
  <2>2. InOrder => InOrder'
    BY <1>1, <1>2 DEF InOrder, IncidentsFollow, OneOpen, FoundLatest, Recent
  <2>3. ASSUME MailsFit PROVE MailsFit'
    <3>1. UNCHANGED mailing /\ \A e \in Explainers : (explain'[e]).step = "mailing" =>
           explain[e].step = "mailing" /\ (explain'[e]).id = explain[e].id /\ (explain'[e]).sig = explain[e].sig
      BY <1>1, <1>4
    <3>2. \A i \in Ids : incident[i].stage # "none" => (incident'[i]).stage # "none"
      BY <1>2
    <3>3. QED
      BY <1>2, <2>1, <2>3, <3>1, <3>2, MailsStay
  <2>4. QED
    BY <1>1, <2>2, <2>3 DEF IncidentsInv, WhileWhole
<1>10. QED
  BY <1>4, <1>6, <1>7, <1>8, <1>9 DEF IncidentsInv

\* No explanation in course is older than the clock's step.
LEMMA IncidentsClockKeeps == ASSUME IncidentsInv, IncidentsClock PROVE IncidentsInv'
<1>1. /\ UNCHANGED <<incidentRows, known, task, explain, tried, mailing, viewer, crossed, failures, stops>>
      /\ tick < LastTick /\ tick' = tick + 1
      /\ \A e \in Explainers : explain[e].step # "idle" => explain[e].since = tick
  BY DEF IncidentsClock
<1>2. IncidentsTyped /\ UNCHANGED <<incident, open, alerted, mailedAt, soon>> /\ tick \in Times
  BY <1>1 DEF IncidentsInv, IncidentsTyped, IncidentsElse, incidentRows, mailing
<1>3. tick \in Nat /\ tick' \in Times /\ tick' >= tick
  BY <1>1, <1>2, IncidentNumbers DEF Times
<1>4. IncidentsTyped'
  BY <1>1, <1>2, <1>3 DEF IncidentsTyped, IncidentsElse
<1>5. ExplainsFit'
  <2>1. ASSUME NEW e \in Explainers, explain[e].step # "idle"
        PROVE explain[e].since <= tick' /\ tick' <= explain[e].since + 1
    BY <1>1, <1>3, <2>1
  <2>2. QED
    BY <1>1, <1>2, <2>1 DEF IncidentsInv, ExplainsFit
<1>6. ViewerFits' /\ MemoryFollows' /\ SignaturesFit' /\ TextsAbout'
  BY <1>1, <1>2 DEF IncidentsInv, ViewerFits, MemoryFollows, SignaturesFit, TextsAbout
<1>7. WhileWhole'
  <2>1. ASSUME InOrder PROVE InOrder'
    <3>1. task' = task /\ open' = open
      BY <1>1, <1>2
    <3>2. \A i \in Ids : (incident'[i]).stage = incident[i].stage /\ (incident'[i]).endedAt = incident[i].endedAt
      BY <1>2
    <3>3. QED
      BY <1>2, <1>3, <2>1, <3>1, <3>2, StagesStay
  <2>2. ASSUME MailsFit PROVE MailsFit'
    <3>1. UNCHANGED mailing /\ \A e \in Explainers : (explain'[e]).step = "mailing" =>
           explain[e].step = "mailing" /\ (explain'[e]).id = explain[e].id /\ (explain'[e]).sig = explain[e].sig
      BY <1>1
    <3>2. ExplainsFit /\ \A i \in Ids : incident[i].stage # "none" => (incident'[i]).stage # "none"
      BY <1>2 DEF IncidentsInv
    <3>3. QED
      BY <1>2, <1>3, <2>2, <3>1, <3>2, MailsStay
  <2>3. QED
    BY <1>1, <2>1, <2>2 DEF IncidentsInv, WhileWhole
<1>8. QED
  BY <1>4, <1>5, <1>6, <1>7 DEF IncidentsInv

LEMMA IncidentsRestartKeeps == ASSUME IncidentsInv, IncidentsRestart PROVE IncidentsInv'
<1>1. /\ UNCHANGED <<incidentRows, soon, tick, crossed, failures>> /\ stops < MaxStops /\ stops' = stops + 1
      /\ known' = Unread /\ task' = IdleTask /\ viewer' = IdleViewer
      /\ explain' = [e \in Explainers |-> IdleExplain]
      /\ tried' = [a \in Ids \X Signatures |-> NotYet]
      /\ alerted' = [s \in Signatures |-> NotYet] /\ mailedAt' = alerted'
  BY DEF IncidentsRestart
<1>2. IncidentsTyped /\ UNCHANGED <<incident, open>> /\ stops \in 0..MaxStops
  BY <1>1 DEF IncidentsInv, IncidentsTyped, IncidentsElse, incidentRows
<1>3. stops' \in 0..MaxStops /\ stops' # 0
  BY <1>1, <1>2, IncidentNumbers
<1>4. viewer' \in [id : 0..MaxIncidents, sig : Signatures \cup {None}] /\ viewer'.id = 0
  BY <1>1, IncidentNumbers DEF IdleViewer
<1>5. IncidentsElse'
  BY <1>1, <1>2, <1>3, <1>4, IncidentNumbers DEF IncidentsTyped, IncidentsElse
<1>6. /\ incident' \in [Ids -> IncidentType] /\ task' \in TaskType /\ explain' \in [Explainers -> ExplainType]
      /\ \A e \in Explainers : (explain'[e]).step = "idle"
  BY <1>1, <1>2, IdleOnes DEF IncidentsTyped, IdleExplain
<1>7. MemoryFollows'
  BY <1>1, <1>2 DEF IncidentsInv, MemoryFollows, IdleTask
<1>8. ExplainsFit' /\ ViewerFits' /\ SignaturesFit'
  BY <1>2, <1>4, <1>6 DEF IncidentsInv, ExplainsFit, ViewerFits, SignaturesFit
<1>9. TextsAbout' /\ WhileWhole'
  BY <1>1, <1>2, <1>3, <1>6 DEF IncidentsInv, TextsAbout, WhileWhole
<1>10. QED
  BY <1>5, <1>6, <1>7, <1>8, <1>9 DEF IncidentsInv, IncidentsTyped

LEMMA IncidentsInitInv == IncidentsInit => IncidentsInv
<1> SUFFICES ASSUME IncidentsInit PROVE IncidentsInv
  OBVIOUS
<1>1. Unused \in IncidentType /\ Unused.stage = "none" /\ Unused.explainedFor = None
  BY IncidentNumbers DEF Unused, IncidentType, Stages
<1>2. incident \in [Ids -> IncidentType] /\ \A i \in Ids : incident[i].stage = "none" /\ incident[i].explainedFor = None
  BY <1>1 DEF IncidentsInit
<1>3. explain \in [Explainers -> ExplainType] /\ \A e \in Explainers : explain[e].step = "idle"
  BY IdleOnes DEF IncidentsInit, IdleExplain
<1>4. task \in TaskType /\ task.step = "idle"
  BY IdleOnes DEF IncidentsInit, IdleTask
<1>5. viewer \in [id : 0..MaxIncidents, sig : Signatures \cup {None}] /\ viewer.id = 0
  BY IncidentNumbers DEF IncidentsInit, IdleViewer
<1>6. IncidentsElse
  BY <1>5, IncidentNumbers DEF IncidentsInit, IncidentsElse
<1>7. MemoryFollows /\ ExplainsFit /\ ViewerFits /\ SignaturesFit /\ TextsAbout
  BY <1>2, <1>3, <1>4, <1>5 DEF IncidentsInit, MemoryFollows, ExplainsFit, ViewerFits, SignaturesFit, TextsAbout
<1>8. WhileWhole
  BY <1>2, <1>3, <1>4 DEF IncidentsInit, WhileWhole, InOrder, IncidentsFollow, OneOpen, FoundLatest, MailsFit
<1>9. QED
  BY <1>2, <1>3, <1>4, <1>6, <1>7, <1>8 DEF IncidentsInv, IncidentsTyped

LEMMA IncidentsNextInv == IncidentsInv /\ [IncidentsNext]_incidentVars => IncidentsInv'
<1> SUFFICES ASSUME IncidentsInv, [IncidentsNext]_incidentVars PROVE IncidentsInv'
  OBVIOUS
<1>1. CASE UNCHANGED incidentVars
  <2>1. UNCHANGED <<incident, open, known, task, explain, tried, alerted, mailedAt, soon, viewer, tick, crossed, failures, stops>>
    BY <1>1 DEF incidentVars, incidentRows, mailing
  <2>2. IncidentsTyped' /\ MemoryFollows' /\ ExplainsFit' /\ ViewerFits' /\ SignaturesFit' /\ TextsAbout'
    BY <2>1 DEF IncidentsInv, IncidentsTyped, IncidentsElse, MemoryFollows, ExplainsFit, ViewerFits, SignaturesFit, TextsAbout
  <2>3. WhileWhole'
    BY <2>1 DEF IncidentsInv, WhileWhole, InOrder, IncidentsFollow, OneOpen, FoundLatest, Recent, MailsFit, Latest, JustMailed
  <2>4. QED
    BY <2>2, <2>3 DEF IncidentsInv
<1>2. CASE Succeeded \/ (\E s \in Signatures : Failed(s))
  BY <1>2, ReportsBegin
<1>3. CASE LoadComponent \/ FindRecent \/ ReportFails
  BY <1>3, LoadKeeps, FindRecentKeeps, ReportFailsKeeps
<1>4. CASE AddFailure \/ ReopenOrCreate \/ NameIncident \/ EndIncident
  BY <1>4, AddFailureKeeps, ReopenOrCreateKeeps, NameIncidentKeeps, EndIncidentKeeps
<1>5. CASE \E e \in Explainers : ReadIncident(e)
  BY <1>5, ReadIncidentKeeps
<1>6. CASE \E e \in Explainers : Answered(e) \/ CheckAlert(e) \/ ExplainFails(e)
  BY <1>6, AnswersKeep
<1>7. CASE \E e \in Explainers : SaveExplanation(e)
  BY <1>7, SaveKeeps
<1>8. CASE \E e \in Explainers : MailAlert(e)
  BY <1>8, MailAlertKeeps
<1>9. CASE OverviewRead \/ OverviewAsks \/ IncidentsClock \/ IncidentsRestart
  BY <1>9, OverviewReadKeeps, OverviewAsksKeeps, IncidentsClockKeeps, IncidentsRestartKeeps
<1>10. QED
  BY <1>1, <1>2, <1>3, <1>4, <1>5, <1>6, <1>7, <1>8, <1>9 DEF IncidentsNext
-----------------------------------------------------------------------------
(* The errors: announced once, reminded of at most so often, noticed *)

ReportType == [step : Steps, failure : Failures, at : 0..LastTime,
               since : 0..MaxOutages, notice : 0..MaxOutages, last : 0..Never]
AuthType == [since : 0..MaxOutages, alert : 0..LastTime, notice : 0..MaxOutages]
MailsType == [first : [Failures -> Nat], down : [Outages -> Nat], up : [Outages -> Nat]]
AlertsType == [Outages -> [from : 0..LastTime, count : Nat]]

ErrorsElse ==
  /\ lastSeen \in [Failures -> 0..Never] /\ occurrences \in [Failures -> Nat]
  /\ notice \in [Outages -> {"none", "open", "resolved"}]
  /\ clock \in 0..LastTime /\ overtaken \subseteq Outages
  /\ opened \in 0..MaxOutages /\ recorded \in 0..MaxRecords /\ broken \in 0..MaxBroken

ErrorsTyped ==
  /\ ErrorsElse /\ report \in [Reports -> ReportType] /\ auth \in AuthType
  /\ mails \in MailsType /\ alerts \in AlertsType

\* Who writes of a new failure created its row, and nobody else did.
FirstsFit ==
  /\ \A f \in Failures : mails.first[f] <= 1 /\ (mails.first[f] > 0 => lastSeen[f] # Never)
  /\ \A r \in Reports : report[r].step = "writing" /\ ~Reappeared(r) =>
       /\ lastSeen[report[r].failure] # Never /\ mails.first[report[r].failure] = 0
       /\ \A q \in Reports : report[q].step = "writing" /\ ~Reappeared(q) /\ report[q].failure = report[r].failure => q = r

Announcing == {"noticing", "linking", "announcing"}
Ending == {"resolving", "recovering"}

\* One report announces an outage, and one its end, that of one in force no more.
OutagesBounded ==
  /\ auth.since <= opened /\ auth.notice <= opened
  /\ \A o \in Outages : (mails.down[o] > 0 \/ mails.up[o] > 0 => o <= opened) /\ mails.down[o] <= 1 /\ mails.up[o] <= 1
  /\ \A r \in Reports : report[r].notice <= opened /\ report[r].since <= opened
  /\ \A r \in Reports : report[r].step = "closing" => report[r].since # 0

OutagesBegin ==
  \A r \in Reports : report[r].step \in Announcing =>
    /\ report[r].since # 0 /\ mails.down[report[r].since] = 0
    /\ \A q \in Reports : report[q].step \in Announcing /\ report[q].since = report[r].since => q = r

OutagesEnd ==
  /\ \A o \in Outages : mails.up[o] > 0 => auth.since # o
  /\ \A r \in Reports : report[r].step \in Ending =>
       /\ report[r].since # 0 /\ mails.up[report[r].since] = 0 /\ auth.since # report[r].since
       /\ \A q \in Reports : report[q].step \in Ending /\ report[q].since = report[r].since => q = r

OutagesFit == OutagesBounded /\ OutagesBegin /\ OutagesEnd

\* Each alert of an outage came RemindEvery after the one before.
Till(o) == IF auth.since = o THEN auth.alert ELSE clock
AlertsFollow ==
  /\ \A r \in Reports : report[r].at <= clock
  /\ auth.alert <= clock
  /\ \A o \in 1..opened :
       /\ alerts[o].count >= 1 /\ alerts[o].from <= clock
       /\ (alerts[o].count - 1) * (RemindEvery + 1) <= Till(o) - alerts[o].from

\* No success in course has read a notice still to be linked.
NoticesFit ==
  /\ NoticesFollow
  /\ \A r \in Reports : report[r].step \in {"noticing", "linking"} =>
       /\ auth.since = report[r].since \/ report[r].since \in overtaken \/ broken > 0
       /\ auth.notice # report[r].since /\ \A q \in Reports : report[q].notice # report[r].since

ErrorsInv == ErrorsTyped /\ FirstsFit /\ OutagesFit /\ AlertsFollow /\ NoticesFit

LEMMA ErrorNumbers ==
  /\ Refusal \in Failures /\ {RemindEvery, ForgetAfter, MaxOutages, LastTime, MaxRecords, MaxBroken, Never} \subseteq Nat
  /\ 0 \in 0..LastTime /\ 0..LastTime \subseteq 0..Never /\ Never \in 0..Never /\ Never \notin 0..LastTime
  /\ 0 \in 0..MaxOutages /\ Outages \subseteq 0..MaxOutages /\ 0 \notin Outages /\ \A o \in 0..MaxOutages : o # 0 => o \in Outages
BY ErrorParameters DEF Never, Outages

LEMMA IdleReportIs == IdleReport \in ReportType /\ IdleReport.step = "idle" /\ IdleReport.at = 0
                      /\ IdleReport.since = 0 /\ IdleReport.notice = 0 /\ IdleReport.last = Never
BY ErrorNumbers DEF IdleReport, ReportType, Steps

LEMMA Quotient ==
  ASSUME NEW n \in Nat, NEW d \in Nat, NEW k \in Nat, k > 0, n * k <= d
  PROVE  n <= d \div k
<1> DEFINE q == d \div k
<1>1. q \in Nat /\ d < q * k + k
  BY SMT
<1>2. CASE n > q
  <2>1. n = (n - q - 1) + q + 1 /\ n - q - 1 \in Nat
    BY <1>1, <1>2
  <2> DEFINE m == n - q - 1
  <2>2. m * k \in Nat /\ n * k = m * k + q * k + k
    BY <1>1, <2>1
  <2>3. QED
    BY <1>1, <2>2
<1>3. QED
  BY <1>1, <1>2

LEMMA ErrorsHeld == ErrorsInv => ErrorsTypeOK /\ OutagesAreTold
<1> SUFFICES ASSUME ErrorsInv PROVE ErrorsTypeOK /\ OutagesAreTold
  OBVIOUS
<1>1. ErrorsTypeOK
  BY DEF ErrorsInv, ErrorsTyped, ErrorsElse, ErrorsTypeOK, ReportType, AuthType, MailsType, AlertsType
<1>2. MailedOnce
  BY DEF ErrorsInv, FirstsFit, OutagesFit, OutagesBounded, MailedOnce
<1>3. AlertsSpaced
  <2>1. SUFFICES ASSUME NEW o \in 1..opened PROVE alerts[o].count <= 1 + (clock - alerts[o].from) \div (RemindEvery + 1)
    BY DEF AlertsSpaced
  <2>2. /\ o \in Outages /\ alerts[o].count \in Nat /\ alerts[o].from \in Nat /\ clock \in Nat /\ RemindEvery \in Nat
        /\ auth.alert \in Nat
    <3>1. opened \in 0..MaxOutages /\ clock \in 0..LastTime /\ auth \in AuthType /\ alerts \in AlertsType
      BY DEF ErrorsInv, ErrorsTyped, ErrorsElse
    <3>2. o \in Outages
      BY <2>1, <3>1, ErrorNumbers DEF Outages
    <3>3. alerts[o] \in [from : 0..LastTime, count : Nat]
      BY <3>1, <3>2 DEF AlertsType
    <3>4. QED
      BY <3>1, <3>2, <3>3, ErrorNumbers DEF AuthType
  <2> DEFINE n == alerts[o].count - 1
             d == clock - alerts[o].from
             k == RemindEvery + 1
  <2>3. n \in Nat /\ d \in Nat /\ k \in Nat /\ k > 0 /\ Till(o) <= clock /\ Till(o) \in Nat
    BY <2>1, <2>2 DEF ErrorsInv, AlertsFollow, Till
  <2>4. n * k <= Till(o) - alerts[o].from
    BY <2>1 DEF ErrorsInv, AlertsFollow
  <2>5. n * k \in Nat
    BY <2>3
  <2>6. n * k <= d
    <3> HIDE DEF n, k
    <3>1. QED
      BY <2>2, <2>3, <2>4, <2>5
  <2>7. n <= d \div k
    <3> HIDE DEF n, d, k
    <3>1. QED
      BY <2>3, <2>6, Quotient
  <2>8. d \div k \in Int
    <3> HIDE DEF d, k
    <3>1. QED
      BY <2>3
  <2>9. QED
    <3>1. alerts[o].count = 1 + n
      BY <2>2
    <3> HIDE DEF n
    <3>2. n <= d \div k => 1 + n <= 1 + (d \div k)
      <4> HIDE DEF d, k
      <4>1. QED
        BY <2>3, <2>8
    <3>3. QED
      BY <2>7, <3>1, <3>2
<1>4. QED
  BY <1>1, <1>2, <1>3 DEF OutagesAreTold, MailsAreSpaced, ErrorsInv, NoticesFit
-----------------------------------------------------------------------------

\* A report goes on: it is the only one that changes.
LEMMA ReportGoes ==
  ASSUME ErrorsTyped, NEW r \in Reports, NEW s \in Steps, StepTo(r, s)
  PROVE  /\ report' \in [Reports -> ReportType] /\ \A q \in Reports : q # r => report'[q] = report[q]
         /\ (report'[r]).step = s /\ (report'[r]).failure = report[r].failure /\ (report'[r]).at = report[r].at
         /\ (report'[r]).since = report[r].since /\ (report'[r]).notice = report[r].notice /\ (report'[r]).last = report[r].last
<1> DEFINE new == [report[r] EXCEPT !.step = s]
<1>1. report \in [Reports -> ReportType] /\ report[r] \in ReportType
  BY DEF ErrorsTyped
<1>2. /\ new \in ReportType /\ new.step = s /\ new.failure = report[r].failure /\ new.at = report[r].at
      /\ new.since = report[r].since /\ new.notice = report[r].notice /\ new.last = report[r].last
  BY <1>1 DEF ReportType
<1>3. report' = [report EXCEPT ![r] = new]
  BY DEF StepTo
<1> HIDE DEF new
<1>4. report' \in [Reports -> ReportType] /\ report'[r] = new /\ \A q \in Reports : q # r => report'[q] = report[q]
  BY <1>1, <1>2, <1>3
<1>5. QED
  BY <1>2, <1>4

LEMMA ReportEnds ==
  ASSUME ErrorsTyped, NEW r \in Reports, Finish(r)
  PROVE  /\ report' \in [Reports -> ReportType] /\ report'[r] = IdleReport
         /\ \A q \in Reports : q # r => report'[q] = report[q]
BY IdleReportIs DEF Finish, ErrorsTyped

\* Nothing is announced that was not to be announced before.
LEMMA FirstsStay ==
  ASSUME ErrorsTyped, FirstsFit, mails'.first = mails.first,
         \A f \in Failures : lastSeen[f] # Never => lastSeen'[f] # Never,
         \A r \in Reports : (report'[r]).step = "writing" => Reappeared(r)' \/ report'[r] = report[r]
  PROVE  FirstsFit'
<1>1. \A r \in Reports : (report'[r]).step = "writing" /\ ~Reappeared(r)' =>
        report'[r] = report[r] /\ report[r].step = "writing" /\ ~Reappeared(r) /\ report[r].failure \in Failures
  BY DEF ErrorsTyped, ReportType, Reappeared
<1>2. QED
  BY <1>1 DEF FirstsFit

\* The outage in force may end, and no report takes up another.
LEMMA OutagesStay ==
  ASSUME ErrorsTyped, OutagesFit, opened' = opened, mails'.down = mails.down, mails'.up = mails.up,
         auth'.since \in {auth.since, 0}, auth'.notice \in 0..opened,
         \A r \in Reports : /\ (report'[r]).notice <= opened /\ (report'[r]).since <= opened
                            /\ (report'[r]).step = "closing" => (report'[r]).since # 0
                            /\ (report'[r]).step \in Announcing => report[r].step \in Announcing /\ (report'[r]).since = report[r].since
                            /\ (report'[r]).step \in Ending => report[r].step \in Ending /\ (report'[r]).since = report[r].since
  PROVE  OutagesFit'
<1>1. opened \in Nat /\ auth.since \in Nat
  BY ErrorNumbers DEF ErrorsTyped, ErrorsElse, AuthType
<1>2. OutagesBounded'
  BY <1>1 DEF OutagesFit, OutagesBounded
<1>3. OutagesBegin'
  BY DEF OutagesFit, OutagesBegin
<1>4. OutagesEnd'
  BY ErrorNumbers DEF OutagesFit, OutagesEnd
<1>5. QED
  BY <1>2, <1>3, <1>4 DEF OutagesFit

\* No alert, and the outage in force may end.
LEMMA AlertsStay ==
  ASSUME ErrorsTyped, AlertsFollow, opened' = opened, alerts' = alerts, clock' \in 0..LastTime, clock' >= clock,
         \/ auth'.since = auth.since /\ auth'.alert = auth.alert
         \/ auth'.since = 0 /\ auth'.alert = 0,
         \A r \in Reports : (report'[r]).at <= clock'
  PROVE  AlertsFollow'
<1>1. clock \in Nat /\ clock' \in Nat /\ auth.alert \in Nat /\ RemindEvery \in Nat /\ opened \in Nat /\ opened <= MaxOutages /\ MaxOutages \in Nat
  BY ErrorNumbers DEF ErrorsTyped, ErrorsElse, AuthType
<1>2. auth'.alert <= clock'
  BY <1>1 DEF AlertsFollow
<1>3. ASSUME NEW o \in 1..opened
      PROVE  /\ alerts[o].count >= 1 /\ alerts[o].from <= clock'
             /\ (alerts[o].count - 1) * (RemindEvery + 1) <= (IF auth'.since = o THEN auth'.alert ELSE clock') - alerts[o].from
  <2>1. alerts[o] \in [from : 0..LastTime, count : Nat]
    BY <1>1 DEF ErrorsTyped, AlertsType, Outages
  <2>2. alerts[o].count \in Nat /\ alerts[o].from \in Nat
    BY <2>1, ErrorNumbers
  <2> DEFINE p == (alerts[o].count - 1) * (RemindEvery + 1)
  <2>3. alerts[o].count >= 1 /\ alerts[o].from <= clock /\ p <= Till(o) - alerts[o].from
    BY DEF AlertsFollow
  <2>4. p \in Int
    BY <1>1, <2>2
  <2>5. Till(o) \in Nat /\ Till(o) <= (IF auth'.since = o THEN auth'.alert ELSE clock')
        /\ (IF auth'.since = o THEN auth'.alert ELSE clock') \in Nat
    BY <1>1 DEF AlertsFollow, Till
  <2> HIDE DEF p
  <2>6. p <= (IF auth'.since = o THEN auth'.alert ELSE clock') - alerts[o].from /\ alerts[o].from <= clock'
    BY <1>1, <2>2, <2>3, <2>4, <2>5
  <2>7. QED
    BY <2>3, <2>6 DEF p
<1>4. QED
  BY <1>2, <1>3 DEF AlertsFollow, Till

LEMMA NoticesStay ==
  ASSUME ErrorsTyped, OutagesFit, NoticesFit, notice' = notice, overtaken' = overtaken, broken' \in Nat, broken' >= broken,
         auth'.since = auth.since, auth'.notice = auth.notice,
         \A q \in Reports : /\ report[q].step = "resolving" => report'[q] = report[q] \/ broken' > 0
                            /\ (report'[q]).step \in {"noticing", "linking"} =>
                                 report[q].step \in {"noticing", "linking"} /\ (report'[q]).since = report[q].since
                            /\ (report'[q]).notice \in {0, report[q].notice}
  PROVE  NoticesFit'
<1>1. broken > 0 => broken' > 0
  BY ErrorNumbers DEF ErrorsTyped, ErrorsElse
<1>2. NoticesFollow'
  BY <1>1 DEF NoticesFit, NoticesFollow
<1>3. ASSUME NEW r \in Reports, (report'[r]).step \in {"noticing", "linking"}
      PROVE  /\ auth'.since = (report'[r]).since \/ (report'[r]).since \in overtaken' \/ broken' > 0
             /\ auth'.notice # (report'[r]).since /\ \A q \in Reports : (report'[q]).notice # (report'[r]).since
  <2>1. report[r].step \in {"noticing", "linking"} /\ (report'[r]).since = report[r].since /\ report[r].since # 0
    BY <1>3 DEF OutagesFit, OutagesBegin, Announcing
  <2>2. /\ auth.since = report[r].since \/ report[r].since \in overtaken \/ broken > 0
        /\ auth.notice # report[r].since /\ \A q \in Reports : report[q].notice # report[r].since
    BY <2>1 DEF NoticesFit
  <2>3. QED
    BY <1>1, <2>1, <2>2
<1>4. QED
  BY <1>2, <1>3 DEF NoticesFit
-----------------------------------------------------------------------------

\* A report goes on with nothing of an outage.
LEMMA RestStays ==
  ASSUME ErrorsInv, NEW r \in Reports, UNCHANGED <<auth, notice, alerts, overtaken, opened, clock>>,
         mails'.down = mails.down, mails'.up = mails.up, broken' \in Nat, broken' >= broken,
         \A q \in Reports : q # r => report'[q] = report[q],
         (report'[r]).step \notin {"noticing", "linking", "announcing", "resolving", "recovering", "closing"},
         (report'[r]).at <= clock,
         (report'[r]).since \in {0, report[r].since}, (report'[r]).notice \in {0, report[r].notice},
         report[r].step = "resolving" => broken' > 0
  PROVE  OutagesFit' /\ AlertsFollow' /\ NoticesFit'
<1>1. ErrorsTyped /\ OutagesFit /\ AlertsFollow /\ NoticesFit /\ opened \in Nat /\ clock \in 0..LastTime /\ clock \in Nat
  BY ErrorNumbers DEF ErrorsInv, ErrorsTyped, ErrorsElse
<1>2. OutagesFit'
  <2>1. \A q \in Reports :
          /\ (report'[q]).notice <= opened /\ (report'[q]).since <= opened
          /\ (report'[q]).step = "closing" => (report'[q]).since # 0
    BY <1>1 DEF OutagesFit, OutagesBounded
  <2>2. \A q \in Reports :
          /\ (report'[q]).step \in Announcing => report[q].step \in Announcing /\ (report'[q]).since = report[q].since
          /\ (report'[q]).step \in Ending => report[q].step \in Ending /\ (report'[q]).since = report[q].since
    BY DEF Announcing, Ending
  <2>3. auth'.since \in {auth.since, 0} /\ auth'.notice \in 0..opened
    BY <1>1 DEF OutagesFit, OutagesBounded, ErrorsTyped, AuthType
  <2>4. \A q \in Reports :
          /\ (report'[q]).notice <= opened /\ (report'[q]).since <= opened
          /\ (report'[q]).step = "closing" => (report'[q]).since # 0
          /\ (report'[q]).step \in Announcing => report[q].step \in Announcing /\ (report'[q]).since = report[q].since
          /\ (report'[q]).step \in Ending => report[q].step \in Ending /\ (report'[q]).since = report[q].since
    BY <2>1, <2>2
  <2>5. QED
    BY <1>1, <2>3, <2>4, OutagesStay
<1>3. AlertsFollow'
  <2>1. \A q \in Reports : (report'[q]).at <= clock'
    BY <1>1 DEF AlertsFollow
  <2>2. clock' \in 0..LastTime /\ clock' >= clock /\ auth'.since = auth.since /\ auth'.alert = auth.alert
    BY <1>1
  <2>3. QED
    BY <1>1, <2>1, <2>2, AlertsStay
<1>4. NoticesFit'
  <2>1. \A q \in Reports :
          /\ report[q].step = "resolving" => report'[q] = report[q] \/ broken' > 0
          /\ (report'[q]).step \in {"noticing", "linking"} =>
               report[q].step \in {"noticing", "linking"} /\ (report'[q]).since = report[q].since
          /\ (report'[q]).notice \in {0, report[q].notice}
    OBVIOUS
  <2>2. QED
    BY <1>1, <2>1, NoticesStay
<1>5. QED
  BY <1>2, <1>3, <1>4

\* A report goes on with nothing to announce.
LEMMA ReportStays ==
  ASSUME ErrorsInv, NEW r \in Reports, UNCHANGED <<auth, notice, mails, alerts, overtaken, opened, clock>>, ErrorsElse',
         broken' >= broken, \A f \in Failures : lastSeen[f] # Never => lastSeen'[f] # Never,
         report' \in [Reports -> ReportType], \A q \in Reports : q # r => report'[q] = report[q],
         (report'[r]).step \notin {"noticing", "linking", "announcing", "resolving", "recovering", "closing"},
         (report'[r]).step = "writing" => Reappeared(r)', (report'[r]).at <= clock,
         (report'[r]).since \in {0, report[r].since}, (report'[r]).notice \in {0, report[r].notice},
         report[r].step = "resolving" => broken' > 0
  PROVE  ErrorsInv'
<1>1. ErrorsTyped /\ FirstsFit /\ mails'.first = mails.first /\ mails'.down = mails.down /\ mails'.up = mails.up
  BY DEF ErrorsInv
<1>2. ErrorsTyped'
  BY <1>1 DEF ErrorsTyped
<1>3. FirstsFit'
  BY <1>1, FirstsStay
<1>4. broken' \in Nat
  BY ErrorNumbers DEF ErrorsElse
<1>5. OutagesFit' /\ AlertsFollow' /\ NoticesFit'
  BY <1>1, <1>4, RestStays
<1>6. QED
  BY <1>2, <1>3, <1>5 DEF ErrorsInv

LEMMA RecordKeeps == ASSUME ErrorsInv, NEW r \in Reports, NEW f \in Failures, RecordFailure(r, f) PROVE ErrorsInv'
<1> DEFINE new == [IdleReport EXCEPT !.step = "finding", !.failure = f]
<1>1. /\ UNCHANGED <<lastSeen, occurrences, auth, notice, mails, alerts, overtaken, opened, clock, broken>>
      /\ report[r].step = "idle" /\ recorded < MaxRecords /\ recorded' = recorded + 1 /\ report' = [report EXCEPT ![r] = new]
  BY DEF RecordFailure, stores, HistoryStays
<1>2. new \in ReportType /\ new.step = "finding" /\ new.at = 0 /\ new.since = 0 /\ new.notice = 0
  BY IdleReportIs DEF ReportType, Steps
<1> HIDE DEF new
<1>3. ErrorsTyped /\ report \in [Reports -> ReportType] /\ clock \in Nat
  BY ErrorNumbers DEF ErrorsInv, ErrorsTyped, ErrorsElse
<1>4. report' \in [Reports -> ReportType] /\ report'[r] = new /\ \A q \in Reports : q # r => report'[q] = report[q]
  BY <1>1, <1>2, <1>3
<1>5. ErrorsElse'
  BY <1>1, <1>3, ErrorNumbers DEF ErrorsTyped, ErrorsElse
<1>6. broken' >= broken /\ (report'[r]).at <= clock
  BY <1>1, <1>2, <1>3, <1>4, ErrorNumbers DEF ErrorsTyped, ErrorsElse
<1>7. /\ (report'[r]).step \notin {"noticing", "linking", "announcing", "resolving", "recovering", "closing"}
      /\ (report'[r]).step # "writing" /\ (report'[r]).since \in {0, report[r].since} /\ (report'[r]).notice \in {0, report[r].notice}
  BY <1>2, <1>4
<1>8. QED
  BY <1>1, <1>4, <1>5, <1>6, <1>7, ReportStays

LEMMA FindRowKeeps == ASSUME ErrorsInv, NEW r \in Reports, FindRow(r) PROVE ErrorsInv'
<1> DEFINE last == lastSeen[report[r].failure]
           s == IF last = Never THEN "creating" ELSE "updating"
           new == [report[r] EXCEPT !.last = last, !.at = clock, !.step = s]
<1>1. /\ UNCHANGED <<lastSeen, occurrences, auth, notice, mails, alerts, overtaken, opened, clock, recorded, broken>>
      /\ report[r].step = "finding" /\ report' = [report EXCEPT ![r] = new]
  BY DEF FindRow, stores, HistoryStays, BoundsStay
<1>2. ErrorsTyped /\ report \in [Reports -> ReportType] /\ report[r] \in ReportType /\ clock \in 0..LastTime /\ clock \in Nat
      /\ last \in 0..Never /\ s \in {"creating", "updating"} /\ s \in Steps
  BY ErrorNumbers DEF ErrorsInv, ErrorsTyped, ErrorsElse, ReportType, Steps
<1> HIDE DEF last, s
<1>3. new \in ReportType /\ new.step = s /\ new.at = clock /\ new.since = report[r].since /\ new.notice = report[r].notice
  BY <1>2 DEF ReportType
<1> HIDE DEF new
<1>4. report' \in [Reports -> ReportType] /\ report'[r] = new /\ \A q \in Reports : q # r => report'[q] = report[q]
  BY <1>1, <1>2, <1>3
<1>5. ErrorsElse'
  BY <1>1, <1>2 DEF ErrorsTyped, ErrorsElse
<1>6. broken' >= broken /\ (report'[r]).at <= clock
  BY <1>1, <1>2, <1>3, <1>4, ErrorNumbers DEF ErrorsTyped, ErrorsElse
<1>7. /\ (report'[r]).step \notin {"noticing", "linking", "announcing", "resolving", "recovering", "closing"}
      /\ (report'[r]).step # "writing" /\ (report'[r]).since \in {0, report[r].since} /\ (report'[r]).notice \in {0, report[r].notice}
  BY <1>2, <1>3, <1>4
<1>8. QED
  BY <1>1, <1>4, <1>5, <1>6, <1>7, ReportStays

\* After counting: what becomes of the report.
LEMMA AfterCountIs ==
  ASSUME ErrorsTyped, AlertsFollow, NEW r \in Reports, NEW isNews \in BOOLEAN, AfterCount(r, isNews)
  PROVE  /\ report' \in [Reports -> ReportType] /\ \A q \in Reports : q # r => report'[q] = report[q]
         /\ (report'[r]).step \in {"opening", "writing", "idle"} /\ (report'[r]).at <= clock
         /\ (report'[r]).since \in {0, report[r].since} /\ (report'[r]).notice \in {0, report[r].notice}
         /\ (report'[r]).step = "writing" =>
              isNews /\ (report'[r]).failure = report[r].failure /\ (report'[r]).last = report[r].last /\ (report'[r]).at = report[r].at
<1>1. report \in [Reports -> ReportType] /\ report[r] \in ReportType /\ clock \in 0..LastTime /\ clock \in Nat
  BY ErrorNumbers DEF ErrorsTyped, ErrorsElse
<1>2. CASE report[r].failure = Refusal
  <2> DEFINE new == [report[r] EXCEPT !.step = "opening", !.at = clock]
  <2>1. new \in ReportType /\ new.step = "opening" /\ new.at = clock /\ new.since = report[r].since /\ new.notice = report[r].notice
    BY <1>1 DEF ReportType, Steps
  <2>2. report' = [report EXCEPT ![r] = new]
    BY <1>2 DEF AfterCount
  <2> HIDE DEF new
  <2>3. report' \in [Reports -> ReportType] /\ report'[r] = new /\ \A q \in Reports : q # r => report'[q] = report[q]
    BY <1>1, <2>1, <2>2
  <2>4. (report'[r]).at <= clock
    BY <1>1, <2>1, <2>3
  <2>5. QED
    BY <2>1, <2>3, <2>4
<1>3. CASE report[r].failure # Refusal /\ isNews
  <2>1. StepTo(r, "writing") /\ "writing" \in Steps
    BY <1>3 DEF AfterCount, Steps
  <2>2. /\ report' \in [Reports -> ReportType] /\ \A q \in Reports : q # r => report'[q] = report[q]
        /\ (report'[r]).step = "writing" /\ (report'[r]).failure = report[r].failure /\ (report'[r]).at = report[r].at
        /\ (report'[r]).since = report[r].since /\ (report'[r]).notice = report[r].notice /\ (report'[r]).last = report[r].last
    BY <2>1, ReportGoes
  <2>3. report[r].at <= clock
    BY DEF AlertsFollow
  <2>4. QED
    BY <1>3, <2>2, <2>3
<1>4. CASE report[r].failure # Refusal /\ ~isNews
  <2>1. Finish(r)
    BY <1>4 DEF AfterCount
  <2>2. report' \in [Reports -> ReportType] /\ report'[r] = IdleReport /\ \A q \in Reports : q # r => report'[q] = report[q]
    BY <2>1, ReportEnds
  <2>3. IdleReport.at <= clock
    BY <1>1, IdleReportIs
  <2>4. QED
    BY <2>2, <2>3, IdleReportIs
<1>5. QED
  BY <1>2, <1>3, <1>4

LEMMA CountTyped ==
  ASSUME ErrorsTyped, NEW r \in Reports,
         lastSeen' = [lastSeen EXCEPT ![report[r].failure] = report[r].at],
         occurrences' = [occurrences EXCEPT ![report[r].failure] = @ + 1],
         UNCHANGED <<notice, overtaken, opened, clock, recorded, broken>>
  PROVE  /\ ErrorsElse' /\ lastSeen'[report[r].failure] # Never /\ broken' >= broken
         /\ \A f \in Failures : lastSeen[f] # Never => lastSeen'[f] # Never
<1>1. /\ report[r].failure \in Failures /\ report[r].at \in 0..LastTime /\ report[r].at \in 0..Never /\ report[r].at # Never
      /\ lastSeen \in [Failures -> 0..Never] /\ occurrences \in [Failures -> Nat] /\ broken \in Nat
  BY ErrorNumbers DEF ErrorsTyped, ErrorsElse, ReportType
<1>2. lastSeen' \in [Failures -> 0..Never] /\ occurrences' \in [Failures -> Nat]
  BY <1>1
<1>3. lastSeen'[report[r].failure] # Never /\ \A f \in Failures : lastSeen[f] # Never => lastSeen'[f] # Never
  BY <1>1
<1>4. ErrorsElse'
  BY <1>2 DEF ErrorsTyped, ErrorsElse
<1>5. QED
  BY <1>1, <1>3, <1>4

LEMMA UpdateRowKeeps == ASSUME ErrorsInv, NEW r \in Reports, UpdateRow(r) PROVE ErrorsInv'
<1>1. /\ UNCHANGED <<auth, notice, mails, alerts, overtaken, opened, clock, recorded, broken>>
      /\ report[r].step = "updating" /\ AfterCount(r, Reappeared(r))
      /\ lastSeen' = [lastSeen EXCEPT ![report[r].failure] = report[r].at]
      /\ occurrences' = [occurrences EXCEPT ![report[r].failure] = @ + 1]
  BY DEF UpdateRow, HistoryStays, BoundsStay
<1>2. ErrorsTyped /\ AlertsFollow /\ Reappeared(r) \in BOOLEAN
  BY DEF ErrorsInv, Reappeared
<1> DEFINE isNews == Reappeared(r)
<1>3. /\ report' \in [Reports -> ReportType] /\ \A q \in Reports : q # r => report'[q] = report[q]
      /\ (report'[r]).step \in {"opening", "writing", "idle"} /\ (report'[r]).at <= clock
      /\ (report'[r]).since \in {0, report[r].since} /\ (report'[r]).notice \in {0, report[r].notice}
      /\ (report'[r]).step = "writing" =>
           isNews /\ (report'[r]).failure = report[r].failure /\ (report'[r]).last = report[r].last /\ (report'[r]).at = report[r].at
  BY <1>1, <1>2, AfterCountIs
<1>4. ErrorsElse' /\ broken' >= broken /\ \A f \in Failures : lastSeen[f] # Never => lastSeen'[f] # Never
  BY <1>1, <1>2, CountTyped
<1>5. (report'[r]).step = "writing" => Reappeared(r)'
  BY <1>3 DEF Reappeared
<1>6. /\ (report'[r]).step \notin {"noticing", "linking", "announcing", "resolving", "recovering", "closing"}
      /\ report[r].step # "resolving"
  BY <1>1, <1>3
<1>7. QED
  BY <1>1, <1>3, <1>4, <1>5, <1>6, ReportStays
LEMMA MailReminderKeeps == ASSUME ErrorsInv, NEW r \in Reports, MailReminder(r) \/ ReportBreaks(r) PROVE ErrorsInv'
<1>1. /\ UNCHANGED <<lastSeen, occurrences, auth, notice, mails, alerts, overtaken, opened, clock, recorded>>
      /\ Finish(r) /\ \/ report[r].step = "reading" /\ broken' = broken
                      \/ broken < MaxBroken /\ broken' = broken + 1
  BY DEF MailReminder, ReportBreaks, stores, HistoryStays, BoundsStay
<1>2. ErrorsTyped /\ clock \in Nat /\ broken \in Nat /\ MaxBroken \in Nat
  BY ErrorNumbers DEF ErrorsInv, ErrorsTyped, ErrorsElse
<1>3. /\ report' \in [Reports -> ReportType] /\ report'[r] = IdleReport
      /\ \A q \in Reports : q # r => report'[q] = report[q]
  BY <1>1, <1>2, ReportEnds
<1>4. /\ (report'[r]).step \notin {"noticing", "linking", "announcing", "resolving", "recovering", "closing"}
      /\ (report'[r]).step # "writing" /\ (report'[r]).since \in {0, report[r].since} /\ (report'[r]).notice \in {0, report[r].notice}
  BY <1>3, IdleReportIs
<1>5. broken' >= broken /\ (report'[r]).at <= clock
  BY <1>1, <1>2, <1>3, IdleReportIs
<1>6. broken' \in 0..MaxBroken /\ (report[r].step = "resolving" => broken' > 0)
  <2>1. CASE report[r].step = "reading" /\ broken' = broken
    BY <2>1 DEF ErrorsInv, ErrorsTyped, ErrorsElse
  <2>2. CASE broken < MaxBroken /\ broken' = broken + 1
    BY <1>2, <2>2
  <2>3. QED
    BY <1>1, <2>1, <2>2
<1>7. ErrorsElse'
  BY <1>1, <1>2, <1>6 DEF ErrorsTyped, ErrorsElse
<1>8. QED
  BY <1>1, <1>3, <1>4, <1>5, <1>6, <1>7, ReportStays

\* The first to find no row: nobody else writes of that failure, nor did.
LEMMA CreateRowKeeps == ASSUME ErrorsInv, NEW r \in Reports, CreateRow(r) PROVE ErrorsInv'
<1>1. /\ UNCHANGED <<auth, notice, mails, alerts, overtaken, opened, clock, recorded, broken>> /\ report[r].step = "creating"
  BY DEF CreateRow, HistoryStays, BoundsStay
<1>2. /\ ErrorsTyped /\ FirstsFit /\ OutagesFit /\ AlertsFollow /\ NoticesFit /\ clock \in Nat /\ clock \in 0..LastTime /\ opened \in Nat
      /\ broken \in Nat /\ mails \in MailsType /\ report[r] \in ReportType
  BY ErrorNumbers DEF ErrorsInv, ErrorsTyped, ErrorsElse
<1> DEFINE f == report[r].failure
<1>3. CASE lastSeen[f] # Never
  <2>1. StepTo(r, "updating") /\ UNCHANGED <<lastSeen, occurrences>> /\ "updating" \in Steps
    BY <1>3 DEF CreateRow, Steps
  <2>2. /\ report' \in [Reports -> ReportType] /\ \A q \in Reports : q # r => report'[q] = report[q]
        /\ (report'[r]).step = "updating" /\ (report'[r]).at = report[r].at
        /\ (report'[r]).since = report[r].since /\ (report'[r]).notice = report[r].notice
    BY <1>2, <2>1, ReportGoes
  <2>3. ErrorsElse' /\ broken' >= broken /\ (report'[r]).at <= clock
    BY <1>1, <1>2, <2>1, <2>2 DEF ErrorsTyped, ErrorsElse, AlertsFollow
  <2>4. /\ (report'[r]).step \notin {"noticing", "linking", "announcing", "resolving", "recovering", "closing"}
        /\ (report'[r]).step # "writing" /\ report[r].step # "resolving"
    BY <1>1, <2>2
  <2>5. QED
    BY <1>1, <2>1, <2>2, <2>3, <2>4, ReportStays
<1>4. CASE lastSeen[f] = Never
  <2>1. /\ AfterCount(r, TRUE)
        /\ lastSeen' = [lastSeen EXCEPT ![report[r].failure] = report[r].at]
        /\ occurrences' = [occurrences EXCEPT ![report[r].failure] = @ + 1]
    BY <1>4 DEF CreateRow
  <2>2. /\ report' \in [Reports -> ReportType] /\ \A q \in Reports : q # r => report'[q] = report[q]
        /\ (report'[r]).step \in {"opening", "writing", "idle"} /\ (report'[r]).at <= clock
        /\ (report'[r]).since \in {0, report[r].since} /\ (report'[r]).notice \in {0, report[r].notice}
        /\ (report'[r]).step = "writing" => (report'[r]).failure = report[r].failure
    BY <1>2, <2>1, AfterCountIs
  <2>3. ErrorsElse' /\ broken' >= broken /\ lastSeen'[f] # Never /\ \A g \in Failures : lastSeen[g] # Never => lastSeen'[g] # Never
    BY <1>1, <1>2, <2>1, CountTyped
  <2>4. FirstsFit'
    <3>1. f \in Failures /\ mails.first[f] = 0
      <4>1. f \in Failures /\ mails.first[f] \in Nat /\ ~(mails.first[f] > 0)
        BY <1>2, <1>4 DEF FirstsFit, MailsType, ReportType
      <4>2. QED
        BY <4>1
    <3>2. ASSUME NEW q \in Reports, q # r, (report'[q]).step = "writing", ~Reappeared(q)'
          PROVE  /\ report'[q] = report[q] /\ report[q].step = "writing" /\ ~Reappeared(q)
                 /\ lastSeen[report[q].failure] # Never /\ report[q].failure \in Failures /\ report[q].failure # f
      <4>1. report'[q] = report[q] /\ report[q].step = "writing" /\ ~Reappeared(q)
        BY <2>2, <3>2 DEF Reappeared
      <4>2. report[q].failure \in Failures /\ lastSeen[report[q].failure] # Never
        BY <1>2, <4>1 DEF FirstsFit, ErrorsTyped, ReportType
      <4>3. QED
        BY <1>4, <4>1, <4>2
    <3>3. \A g \in Failures : mails'.first[g] <= 1 /\ (mails'.first[g] > 0 => lastSeen'[g] # Never)
      BY <1>1, <1>2, <2>3 DEF FirstsFit
    <3>4. ASSUME NEW a \in Reports, (report'[a]).step = "writing", ~Reappeared(a)'
          PROVE  /\ lastSeen'[(report'[a]).failure] # Never /\ mails'.first[(report'[a]).failure] = 0
                 /\ \A q \in Reports : (report'[q]).step = "writing" /\ ~Reappeared(q)' /\ (report'[q]).failure = (report'[a]).failure => q = a
      <4>1. CASE a = r
        <5>1. (report'[a]).failure = f
          BY <2>2, <3>4, <4>1
        <5>2. QED
          BY <1>1, <2>3, <3>1, <3>2, <4>1, <5>1
      <4>2. CASE a # r
        <5>1. report'[a] = report[a] /\ report[a].step = "writing" /\ ~Reappeared(a) /\ report[a].failure \in Failures
              /\ lastSeen[report[a].failure] # Never /\ report[a].failure # f
          BY <3>2, <3>4, <4>2
        <5>2. mails.first[report[a].failure] = 0 /\ lastSeen'[report[a].failure] # Never
          BY <1>2, <2>3, <5>1 DEF FirstsFit
        <5>3. ASSUME NEW q \in Reports, (report'[q]).step = "writing", ~Reappeared(q)', (report'[q]).failure = report[a].failure PROVE q = a
          <6>1. q # r
            BY <2>2, <5>1, <5>3
          <6>2. report'[q] = report[q] /\ report[q].step = "writing" /\ ~Reappeared(q)
            BY <3>2, <5>3, <6>1
          <6>3. QED
            BY <1>2, <5>1, <5>3, <6>2 DEF FirstsFit
        <5>4. QED
          BY <1>1, <5>1, <5>2, <5>3
      <4>3. QED
        BY <4>1, <4>2
    <3>5. QED
      BY <3>3, <3>4 DEF FirstsFit
  <2>5. OutagesFit' /\ AlertsFollow' /\ NoticesFit'
    <3>1. mails'.down = mails.down /\ mails'.up = mails.up /\ broken' \in Nat
      BY <1>1, <1>2
    <3>2. /\ (report'[r]).step \notin {"noticing", "linking", "announcing", "resolving", "recovering", "closing"}
          /\ report[r].step # "resolving"
      BY <1>1, <2>2
    <3>3. QED
      BY <1>1, <2>2, <2>3, <3>1, <3>2, RestStays
  <2>6. ErrorsTyped'
    BY <1>1, <1>2, <2>2, <2>3 DEF ErrorsTyped
  <2>7. QED
    BY <2>4, <2>5, <2>6 DEF ErrorsInv
<1>5. QED
  BY <1>3, <1>4

LEMMA AnnounceErrorKeeps == ASSUME ErrorsInv, NEW r \in Reports, AnnounceError(r) PROVE ErrorsInv'
<1> DEFINE f == report[r].failure
<1>1. /\ UNCHANGED <<lastSeen, occurrences, auth, notice, alerts, overtaken, opened, clock, recorded, broken>>
      /\ report[r].step = "writing" /\ Finish(r)
      /\ mails' = IF Reappeared(r) THEN mails ELSE [mails EXCEPT !.first[f] = @ + 1]
  BY DEF AnnounceError, stores, BoundsStay
<1>2. ErrorsTyped /\ FirstsFit /\ mails \in MailsType /\ f \in Failures /\ clock \in Nat /\ broken \in Nat
  BY ErrorNumbers DEF ErrorsInv, ErrorsTyped, ErrorsElse, ReportType
<1>3. /\ report' \in [Reports -> ReportType] /\ report'[r] = IdleReport
      /\ \A q \in Reports : q # r => report'[q] = report[q]
  BY <1>1, <1>2, ReportEnds
<1>4. /\ (report'[r]).step \notin {"noticing", "linking", "announcing", "resolving", "recovering", "closing"}
      /\ (report'[r]).step # "writing" /\ (report'[r]).since \in {0, report[r].since} /\ (report'[r]).notice \in {0, report[r].notice}
      /\ report[r].step # "resolving"
  BY <1>1, <1>3, IdleReportIs
<1>5. broken' \in Nat /\ broken' >= broken /\ (report'[r]).at <= clock
  BY <1>1, <1>2, <1>3, IdleReportIs
<1>6. ErrorsElse'
  BY <1>1, <1>2 DEF ErrorsTyped, ErrorsElse
<1>7. CASE Reappeared(r)
  <2>1. mails' = mails
    BY <1>1, <1>7
  <2>2. QED
    BY <1>1, <1>3, <1>4, <1>5, <1>6, <2>1, ReportStays
<1>8. CASE ~Reappeared(r)
  <2>1. mails' = [mails EXCEPT !.first = [mails.first EXCEPT ![f] = mails.first[f] + 1]]
    BY <1>1, <1>8
  <2>2. mails'.first = [mails.first EXCEPT ![f] = mails.first[f] + 1] /\ mails'.down = mails.down /\ mails'.up = mails.up
    BY <1>2, <2>1 DEF MailsType
  <2>3. lastSeen[f] # Never /\ mails.first[f] = 0
    BY <1>1, <1>2, <1>8 DEF FirstsFit
  <2>4. mails' \in MailsType
    <3>1. [mails.first EXCEPT ![f] = mails.first[f] + 1] \in [Failures -> Nat]
      BY <1>2 DEF MailsType
    <3>2. QED
      BY <1>2, <2>1, <3>1 DEF MailsType
  <2>5. mails'.first[f] = 1 /\ \A g \in Failures : g # f => mails'.first[g] = mails.first[g]
    BY <1>2, <2>2, <2>3 DEF MailsType
  <2>6. \A q \in Reports : (report'[q]).step = "writing" /\ ~Reappeared(q)' =>
          /\ report'[q] = report[q] /\ report[q].step = "writing" /\ ~Reappeared(q)
          /\ q # r /\ report[q].failure \in Failures /\ report[q].failure # f
    <3>1. SUFFICES ASSUME NEW q \in Reports, (report'[q]).step = "writing", ~Reappeared(q)'
                   PROVE  /\ report'[q] = report[q] /\ report[q].step = "writing" /\ ~Reappeared(q)
                          /\ q # r /\ report[q].failure \in Failures /\ report[q].failure # f
      OBVIOUS
    <3>2. q # r
      BY <1>4, <3>1
    <3>3. report'[q] = report[q] /\ report[q].step = "writing" /\ ~Reappeared(q)
      BY <1>3, <3>1, <3>2 DEF Reappeared
    <3>4. report[q].failure # f
      BY <1>1, <1>2, <1>8, <3>2, <3>3 DEF FirstsFit
    <3>5. report[q].failure \in Failures
      BY <1>2 DEF ErrorsTyped, ReportType
    <3>6. QED
      BY <3>2, <3>3, <3>4, <3>5
  <2>7. FirstsFit'
    <3>1. \A g \in Failures : mails'.first[g] <= 1 /\ (mails'.first[g] > 0 => lastSeen'[g] # Never)
      BY <1>1, <1>2, <2>3, <2>5 DEF FirstsFit
    <3>2. QED
      BY <1>1, <1>2, <2>5, <2>6, <3>1 DEF FirstsFit
  <2>8. OutagesFit' /\ AlertsFollow' /\ NoticesFit'
    BY <1>1, <1>3, <1>4, <1>5, <2>2, RestStays
  <2>9. ErrorsTyped'
    BY <1>1, <1>2, <1>3, <1>6, <2>4 DEF ErrorsTyped
  <2>10. QED
    BY <2>7, <2>8, <2>9 DEF ErrorsInv
<1>9. QED
  BY <1>7, <1>8
-----------------------------------------------------------------------------

\* The outage opened is one no report, mail or notice knew of.
LEMMA OpensKeeps ==
  ASSUME ErrorsInv, NEW r \in Reports, report[r].step = "opening", auth.since = 0, opened < MaxOutages, Opens(r),
         UNCHANGED <<lastSeen, occurrences, notice, mails, overtaken, clock, recorded, broken>>
  PROVE  ErrorsInv'
<1> DEFINE o == opened + 1
           new == [report[r] EXCEPT !.step = "noticing", !.since = o]
<1>1. /\ opened' = o /\ auth' = [auth EXCEPT !.since = o, !.alert = report[r].at]
      /\ alerts' = [alerts EXCEPT ![o] = [from |-> report[r].at, count |-> 1]]
      /\ report' = [report EXCEPT ![r] = new]
  BY DEF Opens
<1>2. /\ ErrorsTyped /\ FirstsFit /\ OutagesFit /\ AlertsFollow /\ NoticesFit
      /\ opened \in Nat /\ MaxOutages \in Nat /\ clock \in Nat /\ RemindEvery \in Nat
      /\ report \in [Reports -> ReportType] /\ report[r] \in ReportType /\ auth \in AuthType /\ mails \in MailsType /\ alerts \in AlertsType
  BY ErrorNumbers DEF ErrorsInv, ErrorsTyped, ErrorsElse
<1>3. o \in 0..MaxOutages /\ o \in Outages /\ o # 0 /\ opened \in 0..MaxOutages /\ o \in Nat
  BY <1>2 DEF Outages
<1>4. report[r].at \in 0..LastTime /\ report[r].at \in Nat /\ report[r].at <= clock
  BY <1>2, ErrorNumbers DEF ReportType, AlertsFollow
<1> HIDE DEF o
<1>5. /\ new \in ReportType /\ new.step = "noticing" /\ new.since = o /\ new.notice = report[r].notice /\ new.at = report[r].at
  BY <1>2, <1>3 DEF ReportType, Steps
<1> HIDE DEF new
<1>6. report' \in [Reports -> ReportType] /\ report'[r] = new /\ \A q \in Reports : q # r => report'[q] = report[q]
  BY <1>1, <1>2, <1>5
<1>7. auth' \in AuthType /\ auth'.since = o /\ auth'.alert = report[r].at /\ auth'.notice = auth.notice
  BY <1>1, <1>2, <1>3, <1>4 DEF AuthType
<1>8. /\ alerts' \in AlertsType /\ alerts'[o] = [from |-> report[r].at, count |-> 1]
      /\ \A p \in Outages : p # o => alerts'[p] = alerts[p]
  <2>1. [from |-> report[r].at, count |-> 1] \in [from : 0..LastTime, count : Nat]
    BY <1>4
  <2>2. QED
    BY <1>1, <1>2, <1>3, <2>1 DEF AlertsType
<1>9. ErrorsTyped'
  BY <1>1, <1>2, <1>3, <1>6, <1>7, <1>8 DEF ErrorsTyped, ErrorsElse
<1>10. FirstsFit'
  <2>1. \A q \in Reports : (report'[q]).step = "writing" => Reappeared(q)' \/ report'[q] = report[q]
    BY <1>5, <1>6
  <2>2. QED
    BY <1>2, <2>1, FirstsStay
\* What was known is of outages before.
<1>11. \A n \in Nat : n <= opened => n <= o /\ n # o
  BY <1>2 DEF o
<1>12. /\ auth.notice \in Nat /\ auth.notice <= opened
       /\ \A q \in Reports : /\ report[q].notice \in Nat /\ report[q].notice <= opened
                             /\ report[q].since \in Nat /\ report[q].since <= opened
  BY <1>2, ErrorNumbers DEF OutagesFit, OutagesBounded, AuthType, ReportType
<1>13. \A p \in Outages : mails.down[p] > 0 \/ mails.up[p] > 0 => p # o /\ p <= o
  BY <1>2, <1>11, ErrorNumbers DEF OutagesFit, OutagesBounded, Outages
<1>14. mails.down[o] = 0
  <2>1. mails.down[o] \in Nat /\ ~(mails.down[o] > 0)
    BY <1>2, <1>3, <1>13 DEF MailsType
  <2>2. QED
    BY <2>1
<1>15. OutagesBounded'
  <2>1. auth'.since <= opened' /\ auth'.notice <= opened'
    BY <1>1, <1>3, <1>7, <1>11, <1>12
  <2>2. \A q \in Reports : (report'[q]).notice <= opened' /\ (report'[q]).since <= opened'
    BY <1>1, <1>3, <1>5, <1>6, <1>11, <1>12
  <2>3. \A q \in Reports : (report'[q]).step = "closing" => (report'[q]).since # 0
    BY <1>2, <1>5, <1>6 DEF OutagesFit, OutagesBounded
  <2>4. \A p \in Outages : (mails.down[p] > 0 \/ mails.up[p] > 0 => p <= opened') /\ mails.down[p] <= 1 /\ mails.up[p] <= 1
    BY <1>1, <1>2, <1>13 DEF OutagesFit, OutagesBounded
  <2>5. QED
    BY <2>1, <2>2, <2>3, <2>4 DEF OutagesBounded
<1>16. \A q \in Reports : q # r => (report'[q]).since # o /\ (report'[q]).notice # o
  BY <1>6, <1>11, <1>12
<1>17. OutagesBegin'
  <2>1. ASSUME NEW q \in Reports, (report'[q]).step \in Announcing, q # r
        PROVE  /\ (report'[q]).since # 0 /\ mails.down[(report'[q]).since] = 0
               /\ \A p \in Reports : (report'[p]).step \in Announcing /\ (report'[p]).since = (report'[q]).since => p = q
    BY <1>2, <1>5, <1>6, <1>16, <2>1 DEF OutagesFit, OutagesBegin
  <2>2. QED
    BY <1>3, <1>5, <1>6, <1>14, <1>16, <2>1 DEF OutagesBegin
<1>18. OutagesEnd'
  <2>1. \A p \in Outages : mails.up[p] > 0 => auth'.since # p
    BY <1>7, <1>13
  <2>2. (report'[r]).step \notin Ending
    BY <1>5, <1>6 DEF Ending
  <2>3. ASSUME NEW q \in Reports, (report'[q]).step \in Ending
        PROVE  /\ (report'[q]).since # 0 /\ mails.up[(report'[q]).since] = 0 /\ auth'.since # (report'[q]).since
               /\ \A p \in Reports : (report'[p]).step \in Ending /\ (report'[p]).since = (report'[q]).since => p = q
    <3>1. q # r /\ report'[q] = report[q] /\ (report'[q]).since # o
      BY <1>6, <1>16, <2>2, <2>3
    <3>2. QED
      BY <1>2, <1>6, <1>7, <2>2, <2>3, <3>1 DEF OutagesFit, OutagesEnd
  <2>4. QED
    BY <2>1, <2>3 DEF OutagesEnd
<1>19. AlertsFollow'
  <2>1. \A q \in Reports : (report'[q]).at <= clock
    BY <1>2, <1>4, <1>5, <1>6 DEF AlertsFollow
  <2>2. auth'.alert <= clock
    BY <1>4, <1>7
  <2>3. ASSUME NEW p \in 1..o
        PROVE  /\ alerts'[p].count >= 1 /\ alerts'[p].from <= clock
               /\ (alerts'[p].count - 1) * (RemindEvery + 1) <= Till(p)' - alerts'[p].from
    <3>1. CASE p = o
      <4>1. alerts'[p].count = 1 /\ alerts'[p].from = report[r].at /\ Till(p)' = report[r].at
        BY <1>7, <1>8, <3>1 DEF Till
      <4>2. QED
        BY <1>2, <1>4, <4>1
    <3>2. CASE p # o
      <4>1. p \in 1..opened /\ p \in Outages
        BY <1>2, <1>3, <3>2 DEF o, Outages
      <4>2. alerts'[p] = alerts[p] /\ Till(p)' = clock /\ Till(p) = clock
        BY <1>3, <1>7, <1>8, <3>2, <4>1, ErrorNumbers DEF Till
      <4>3. QED
        BY <1>2, <4>1, <4>2 DEF AlertsFollow
    <3>3. QED
      BY <3>1, <3>2
  <2>4. QED
    BY <1>1, <2>1, <2>2, <2>3 DEF AlertsFollow
<1>20. NoticesFit'
  <2>1. NoticesFollow'
    <3>1. \A q \in Reports : report[q].step = "resolving" => report'[q] = report[q]
      BY <1>6
    <3>2. QED
      BY <1>2, <3>1, ErrorNumbers DEF NoticesFit, NoticesFollow
  <2>2. ASSUME NEW q \in Reports, (report'[q]).step \in {"noticing", "linking"}
        PROVE  /\ auth'.since = (report'[q]).since \/ (report'[q]).since \in overtaken \/ broken > 0
               /\ auth'.notice # (report'[q]).since /\ \A p \in Reports : (report'[p]).notice # (report'[q]).since
    <3>1. \A p \in Reports : (report'[p]).notice = report[p].notice
      BY <1>5, <1>6
    <3>2. CASE q = r
      BY <1>5, <1>6, <1>7, <1>11, <1>12, <3>1, <3>2
    <3>3. CASE q # r
      <4>1. report'[q] = report[q] /\ report[q].since # 0
        BY <1>2, <1>6, <2>2, <3>3 DEF OutagesFit, OutagesBegin, Announcing
      <4>2. QED
        BY <1>2, <1>7, <2>2, <3>1, <4>1 DEF NoticesFit
    <3>4. QED
      BY <3>2, <3>3
  <2>3. QED
    BY <2>1, <2>2 DEF NoticesFit
<1>21. QED
  BY <1>9, <1>10, <1>15, <1>17, <1>18, <1>19, <1>20 DEF ErrorsInv, OutagesFit

LEMMA OpenOutageKeeps == ASSUME ErrorsInv, NEW r \in Reports, OpenOutage(r) PROVE ErrorsInv'
<1>1. /\ UNCHANGED <<lastSeen, occurrences, notice, mails, overtaken, clock, recorded, broken>> /\ report[r].step = "opening"
  BY DEF OpenOutage, BoundsStay
<1>2. CASE auth.since = 0
  <2>1. opened < MaxOutages /\ Opens(r)
    BY <1>2 DEF OpenOutage
  <2>2. QED
    BY <1>1, <1>2, <2>1, OpensKeeps
<1>3. CASE auth.since # 0
  <2>1. StepTo(r, "reminding") /\ UNCHANGED <<auth, alerts, opened>> /\ "reminding" \in Steps
    BY <1>3 DEF OpenOutage, Steps
  <2>2. ErrorsTyped /\ broken \in Nat
    BY ErrorNumbers DEF ErrorsInv, ErrorsTyped, ErrorsElse
  <2>3. /\ report' \in [Reports -> ReportType] /\ \A q \in Reports : q # r => report'[q] = report[q]
        /\ (report'[r]).step = "reminding" /\ (report'[r]).at = report[r].at
        /\ (report'[r]).since = report[r].since /\ (report'[r]).notice = report[r].notice
    BY <2>1, <2>2, ReportGoes
  <2>4. ErrorsElse' /\ broken' >= broken /\ (report'[r]).at <= clock
    BY <1>1, <2>1, <2>2, <2>3 DEF ErrorsInv, ErrorsTyped, ErrorsElse, AlertsFollow
  <2>5. /\ (report'[r]).step \notin {"noticing", "linking", "announcing", "resolving", "recovering", "closing"}
        /\ (report'[r]).step # "writing" /\ report[r].step # "resolving"
    BY <1>1, <2>3
  <2>6. QED
    BY <1>1, <2>1, <2>3, <2>4, <2>5, ReportStays
<1>4. QED
  BY <1>2, <1>3
-----------------------------------------------------------------------------

LEMMA CreateNoticeKeeps == ASSUME ErrorsInv, NEW r \in Reports, CreateNotice(r) PROVE ErrorsInv'
<1> DEFINE o == report[r].since
<1>1. /\ UNCHANGED <<lastSeen, occurrences, auth, mails, alerts, overtaken, opened, clock, recorded, broken>>
      /\ report[r].step = "noticing" /\ StepTo(r, "linking") /\ "linking" \in Steps
      /\ notice' = [notice EXCEPT ![o] = "open"]
  BY DEF CreateNotice, HistoryStays, BoundsStay, Steps
<1>2. /\ ErrorsTyped /\ FirstsFit /\ OutagesFit /\ AlertsFollow /\ NoticesFit
      /\ clock \in 0..LastTime /\ clock \in Nat /\ report[r] \in ReportType /\ notice \in [Outages -> {"none", "open", "resolved"}]
  BY ErrorNumbers DEF ErrorsInv, ErrorsTyped, ErrorsElse
<1>3. o # 0 /\ o \in Outages
  BY <1>1, <1>2, ErrorNumbers DEF OutagesFit, OutagesBegin, Announcing, ReportType
<1>4. /\ report' \in [Reports -> ReportType] /\ \A q \in Reports : q # r => report'[q] = report[q]
      /\ (report'[r]).step = "linking" /\ (report'[r]).at = report[r].at
      /\ (report'[r]).since = o /\ (report'[r]).notice = report[r].notice
  BY <1>1, <1>2, ReportGoes
<1>5. /\ notice' \in [Outages -> {"none", "open", "resolved"}] /\ \A p \in Outages : p # o => notice'[p] = notice[p]
  BY <1>1, <1>2, <1>3
<1>6. ErrorsTyped'
  BY <1>1, <1>2, <1>4, <1>5 DEF ErrorsTyped, ErrorsElse
<1>7. FirstsFit'
  <2>1. \A q \in Reports : (report'[q]).step = "writing" => report'[q] = report[q]
    BY <1>4
  <2>2. QED
    BY <1>1, <1>2, <2>1, FirstsStay
<1>8. OutagesFit'
  <2>1. \A q \in Reports :
          /\ (report'[q]).notice <= opened /\ (report'[q]).since <= opened
          /\ (report'[q]).step = "closing" => (report'[q]).since # 0
    BY <1>2, <1>4 DEF OutagesFit, OutagesBounded
  <2>2. \A q \in Reports :
          /\ (report'[q]).step \in Announcing => report[q].step \in Announcing /\ (report'[q]).since = report[q].since
          /\ (report'[q]).step \in Ending => report[q].step \in Ending /\ (report'[q]).since = report[q].since
    BY <1>1, <1>4 DEF Announcing, Ending
  <2>3. auth'.since \in {auth.since, 0} /\ auth'.notice \in 0..opened
    BY <1>1, <1>2, ErrorNumbers DEF OutagesFit, OutagesBounded, ErrorsTyped, ErrorsElse, AuthType
  <2>4. opened' = opened /\ mails'.down = mails.down /\ mails'.up = mails.up
    BY <1>1
  <2>5. \A q \in Reports :
          /\ (report'[q]).notice <= opened /\ (report'[q]).since <= opened
          /\ (report'[q]).step = "closing" => (report'[q]).since # 0
          /\ (report'[q]).step \in Announcing => report[q].step \in Announcing /\ (report'[q]).since = report[q].since
          /\ (report'[q]).step \in Ending => report[q].step \in Ending /\ (report'[q]).since = report[q].since
    BY <2>1, <2>2
  <2>6. QED
    BY <1>2, <2>3, <2>4, <2>5, OutagesStay
<1>9. AlertsFollow'
  <2>1. \A q \in Reports : (report'[q]).at <= clock'
    BY <1>1, <1>2, <1>4 DEF AlertsFollow
  <2>2. clock' \in 0..LastTime /\ clock' >= clock /\ auth'.since = auth.since /\ auth'.alert = auth.alert
    BY <1>1, <1>2
  <2>3. QED
    BY <1>1, <1>2, <2>1, <2>2, AlertsStay
<1>10. NoticesFit'
  <2>1. auth.since = o \/ o \in overtaken \/ broken > 0
    BY <1>1, <1>2 DEF NoticesFit
  <2>2. \A q \in Reports : report[q].step = "resolving" => report'[q] = report[q]
    BY <1>1, <1>4
  <2>3. NoticesFollow'
    BY <1>1, <1>2, <1>5, <2>1, <2>2 DEF NoticesFit, NoticesFollow
  <2>4. \A q \in Reports : /\ (report'[q]).notice = report[q].notice
                           /\ (report'[q]).since = report[q].since
                           /\ (report'[q]).step \in {"noticing", "linking"} => report[q].step \in {"noticing", "linking"}
    BY <1>1, <1>4
  <2>5. QED
    BY <1>1, <1>2, <2>3, <2>4 DEF NoticesFit
<1>11. QED
  BY <1>6, <1>7, <1>8, <1>9, <1>10 DEF ErrorsInv

LEMMA LinkNoticeKeeps == ASSUME ErrorsInv, NEW r \in Reports, LinkNotice(r) PROVE ErrorsInv'
<1> DEFINE o == report[r].since
<1>1. /\ UNCHANGED <<lastSeen, occurrences, notice, mails, alerts, overtaken, opened, clock, recorded, broken>>
      /\ report[r].step = "linking" /\ StepTo(r, "announcing") /\ "announcing" \in Steps
      /\ auth' = [auth EXCEPT !.notice = o]
  BY DEF LinkNotice, HistoryStays, BoundsStay, Steps
<1>2. /\ ErrorsTyped /\ FirstsFit /\ OutagesFit /\ AlertsFollow /\ NoticesFit /\ auth \in AuthType
      /\ clock \in 0..LastTime /\ clock \in Nat /\ report[r] \in ReportType
  BY ErrorNumbers DEF ErrorsInv, ErrorsTyped, ErrorsElse
<1>3. o # 0 /\ o \in 0..MaxOutages /\ o <= opened /\ o \in 0..opened /\ report[r].step \in Announcing
  BY <1>1, <1>2, ErrorNumbers DEF OutagesFit, OutagesBegin, OutagesBounded, Announcing, ReportType, ErrorsTyped, ErrorsElse
<1>4. /\ report' \in [Reports -> ReportType] /\ \A q \in Reports : q # r => report'[q] = report[q]
      /\ (report'[r]).step = "announcing" /\ (report'[r]).at = report[r].at
      /\ (report'[r]).since = o /\ (report'[r]).notice = report[r].notice
  BY <1>1, <1>2, ReportGoes
<1>5. auth' \in AuthType /\ auth'.since = auth.since /\ auth'.alert = auth.alert /\ auth'.notice = o
  BY <1>1, <1>2, <1>3 DEF AuthType
<1>6. ErrorsTyped'
  BY <1>1, <1>2, <1>4, <1>5 DEF ErrorsTyped, ErrorsElse
<1>7. FirstsFit'
  <2>1. \A q \in Reports : (report'[q]).step = "writing" => report'[q] = report[q]
    BY <1>4
  <2>2. QED
    BY <1>1, <1>2, <2>1, FirstsStay
<1>8. OutagesFit'
  <2>1. \A q \in Reports :
          /\ (report'[q]).notice <= opened /\ (report'[q]).since <= opened
          /\ (report'[q]).step = "closing" => (report'[q]).since # 0
    BY <1>2, <1>4 DEF OutagesFit, OutagesBounded
  <2>2. \A q \in Reports :
          /\ (report'[q]).step \in Announcing => report[q].step \in Announcing /\ (report'[q]).since = report[q].since
          /\ (report'[q]).step \in Ending => report[q].step \in Ending /\ (report'[q]).since = report[q].since
    BY <1>1, <1>4 DEF Announcing, Ending
  <2>3. auth'.since \in {auth.since, 0} /\ auth'.notice \in 0..opened
    BY <1>3, <1>5
  <2>4. opened' = opened /\ mails'.down = mails.down /\ mails'.up = mails.up
    BY <1>1
  <2>5. \A q \in Reports :
          /\ (report'[q]).notice <= opened /\ (report'[q]).since <= opened
          /\ (report'[q]).step = "closing" => (report'[q]).since # 0
          /\ (report'[q]).step \in Announcing => report[q].step \in Announcing /\ (report'[q]).since = report[q].since
          /\ (report'[q]).step \in Ending => report[q].step \in Ending /\ (report'[q]).since = report[q].since
    BY <2>1, <2>2
  <2>6. QED
    BY <1>2, <2>3, <2>4, <2>5, OutagesStay
<1>9. AlertsFollow'
  <2>1. \A q \in Reports : (report'[q]).at <= clock'
    BY <1>1, <1>2, <1>4 DEF AlertsFollow
  <2>2. clock' \in 0..LastTime /\ clock' >= clock
    BY <1>1, <1>2
  <2>3. QED
    BY <1>1, <1>2, <1>5, <2>1, <2>2, AlertsStay
<1>10. NoticesFit'
  <2>1. \A q \in Reports : report[q].step = "resolving" => report'[q] = report[q]
    BY <1>1, <1>4
  <2>2. NoticesFollow'
    BY <1>1, <1>2, <1>5, <2>1 DEF NoticesFit, NoticesFollow
  <2>3. \A q \in Reports : (report'[q]).notice = report[q].notice
    BY <1>4
  \* Two reports never announce the same outage.
  <2>4. ASSUME NEW q \in Reports, (report'[q]).step \in {"noticing", "linking"}
        PROVE  /\ auth'.since = (report'[q]).since \/ (report'[q]).since \in overtaken \/ broken > 0
               /\ auth'.notice # (report'[q]).since /\ \A p \in Reports : (report'[p]).notice # (report'[q]).since
    <3>1. q # r /\ report'[q] = report[q] /\ report[q].step \in Announcing
      BY <1>4, <2>4 DEF Announcing
    <3>2. report[q].since # o
      BY <1>2, <1>3, <3>1 DEF OutagesFit, OutagesBegin
    <3>3. QED
      BY <1>2, <1>5, <2>3, <2>4, <3>1, <3>2 DEF NoticesFit
  <2>5. QED
    BY <1>1, <2>2, <2>4 DEF NoticesFit
<1>11. QED
  BY <1>6, <1>7, <1>8, <1>9, <1>10 DEF ErrorsInv

\* One mail more, of an outage: the others stay.
LEMMA MailsGo ==
  ASSUME ErrorsTyped, NEW o \in Outages
  PROVE  /\ mails' = [mails EXCEPT !.down[o] = @ + 1] =>
              /\ mails' \in MailsType /\ mails'.first = mails.first /\ mails'.up = mails.up
              /\ mails'.down[o] = mails.down[o] + 1 /\ \A p \in Outages : p # o => mails'.down[p] = mails.down[p]
         /\ mails' = [mails EXCEPT !.up[o] = @ + 1] =>
              /\ mails' \in MailsType /\ mails'.first = mails.first /\ mails'.down = mails.down
              /\ mails'.up[o] = mails.up[o] + 1 /\ \A p \in Outages : p # o => mails'.up[p] = mails.up[p]
<1>1. mails \in MailsType
  BY DEF ErrorsTyped
<1>2. ASSUME mails' = [mails EXCEPT !.down[o] = @ + 1]
      PROVE  /\ mails' \in MailsType /\ mails'.first = mails.first /\ mails'.up = mails.up
             /\ mails'.down[o] = mails.down[o] + 1 /\ \A p \in Outages : p # o => mails'.down[p] = mails.down[p]
  <2> DEFINE new == [mails.down EXCEPT ![o] = mails.down[o] + 1]
  <2>1. mails' = [mails EXCEPT !.down = new]
    BY <1>2
  <2>2. new \in [Outages -> Nat] /\ new[o] = mails.down[o] + 1 /\ \A p \in Outages : p # o => new[p] = mails.down[p]
    BY <1>1 DEF MailsType
  <2> HIDE DEF new
  <2>3. mails' \in MailsType /\ mails'.first = mails.first /\ mails'.up = mails.up /\ mails'.down = new
    BY <1>1, <2>1, <2>2 DEF MailsType
  <2>4. QED
    BY <2>2, <2>3
<1>3. ASSUME mails' = [mails EXCEPT !.up[o] = @ + 1]
      PROVE  /\ mails' \in MailsType /\ mails'.first = mails.first /\ mails'.down = mails.down
             /\ mails'.up[o] = mails.up[o] + 1 /\ \A p \in Outages : p # o => mails'.up[p] = mails.up[p]
  <2> DEFINE new == [mails.up EXCEPT ![o] = mails.up[o] + 1]
  <2>1. mails' = [mails EXCEPT !.up = new]
    BY <1>3
  <2>2. new \in [Outages -> Nat] /\ new[o] = mails.up[o] + 1 /\ \A p \in Outages : p # o => new[p] = mails.up[p]
    BY <1>1 DEF MailsType
  <2> HIDE DEF new
  <2>3. mails' \in MailsType /\ mails'.first = mails.first /\ mails'.down = mails.down /\ mails'.up = new
    BY <1>1, <2>1, <2>2 DEF MailsType
  <2>4. QED
    BY <2>2, <2>3
<1>4. QED
  BY <1>2, <1>3

LEMMA MailKeeps == ASSUME ErrorsInv, NEW r \in Reports, AnnounceOutage(r) \/ MailRecovery(r) PROVE ErrorsInv'
<1> DEFINE o == report[r].since
<1>1. /\ UNCHANGED <<lastSeen, occurrences, auth, notice, alerts, overtaken, opened, clock, recorded, broken>> /\ Finish(r)
      /\ \/ report[r].step = "announcing" /\ mails' = [mails EXCEPT !.down[o] = @ + 1]
         \/ report[r].step = "recovering" /\ mails' = [mails EXCEPT !.up[o] = @ + 1]
  BY DEF AnnounceOutage, MailRecovery, stores, BoundsStay
<1>2. /\ ErrorsTyped /\ FirstsFit /\ OutagesFit /\ AlertsFollow /\ NoticesFit /\ mails \in MailsType
      /\ clock \in 0..LastTime /\ clock \in Nat /\ report[r] \in ReportType /\ opened \in Nat /\ broken \in Nat
  BY ErrorNumbers DEF ErrorsInv, ErrorsTyped, ErrorsElse
<1>3. o # 0 /\ o \in Outages /\ o <= opened
  BY <1>1, <1>2, ErrorNumbers DEF OutagesFit, OutagesBegin, OutagesEnd, OutagesBounded, Announcing, Ending, ReportType
<1>4. /\ mails' \in MailsType /\ mails'.first = mails.first
      /\ \A p \in Outages : p # o => mails'.down[p] = mails.down[p] /\ mails'.up[p] = mails.up[p]
      /\ report[r].step = "announcing" => mails'.up = mails.up /\ mails'.down[o] = mails.down[o] + 1
      /\ report[r].step = "recovering" => mails'.down = mails.down /\ mails'.up[o] = mails.up[o] + 1
  BY <1>1, <1>2, <1>3, MailsGo
<1> HIDE DEF o
<1>5. /\ report' \in [Reports -> ReportType] /\ (report'[r]).step = "idle" /\ (report'[r]).at = 0 /\ (report'[r]).since = 0
      /\ (report'[r]).notice = 0 /\ \A q \in Reports : q # r => report'[q] = report[q]
  BY <1>1, <1>2, ReportEnds, IdleReportIs
<1>6. ErrorsTyped'
  BY <1>1, <1>2, <1>4, <1>5 DEF ErrorsTyped, ErrorsElse
<1>7. FirstsFit'
  <2>1. \A q \in Reports : (report'[q]).step = "writing" => report'[q] = report[q]
    BY <1>5
  <2>2. QED
    BY <1>1, <1>2, <1>4, <2>1, FirstsStay
<1>8. report[r].step = "announcing" => mails.down[o] = 0
  BY <1>2 DEF OutagesFit, OutagesBegin, Announcing, o
<1>9. report[r].step = "recovering" => mails.up[o] = 0 /\ auth.since # o
  BY <1>2 DEF OutagesFit, OutagesEnd, Ending, o
<1>10. OutagesBounded'
  <2>1. ASSUME NEW p \in Outages
        PROVE  (mails'.down[p] > 0 \/ mails'.up[p] > 0 => p <= opened) /\ mails'.down[p] <= 1 /\ mails'.up[p] <= 1
    <3>1. (mails.down[p] > 0 \/ mails.up[p] > 0 => p <= opened) /\ mails.down[p] <= 1 /\ mails.up[p] <= 1
      BY <1>2 DEF OutagesFit, OutagesBounded
    <3>2. CASE p = o
      BY <1>1, <1>3, <1>4, <1>8, <1>9, <3>1, <3>2
    <3>3. CASE p # o
      BY <1>4, <3>1, <3>3
    <3>4. QED
      BY <3>2, <3>3
  <2>2. \A q \in Reports : (report'[q]).notice <= opened /\ (report'[q]).since <= opened
    BY <1>2, <1>5 DEF OutagesFit, OutagesBounded
  <2>3. \A q \in Reports : (report'[q]).step = "closing" => (report'[q]).since # 0
    BY <1>2, <1>5 DEF OutagesFit, OutagesBounded
  <2>4. QED
    BY <1>1, <1>2, <2>1, <2>2, <2>3 DEF OutagesFit, OutagesBounded
<1>11. OutagesBegin'
  <2>1. ASSUME NEW q \in Reports, (report'[q]).step \in Announcing
        PROVE  /\ (report'[q]).since # 0 /\ mails'.down[(report'[q]).since] = 0
               /\ \A p \in Reports : (report'[p]).step \in Announcing /\ (report'[p]).since = (report'[q]).since => p = q
    <3>1. q # r /\ report'[q] = report[q] /\ report[q].step \in Announcing
      BY <1>5, <2>1 DEF Announcing
    <3>2. report[q].since # 0 /\ mails.down[report[q].since] = 0 /\ report[q].since \in Outages
      BY <1>2, <3>1, ErrorNumbers DEF OutagesFit, OutagesBegin, ErrorsTyped, ReportType
    <3>3. mails'.down[report[q].since] = 0
      <4>1. CASE report[r].step = "announcing"
        <5>1. report[q].since # o
          BY <1>2, <3>1, <4>1 DEF OutagesFit, OutagesBegin, Announcing, o
        <5>2. QED
          BY <1>4, <3>2, <5>1
      <4>2. CASE report[r].step = "recovering"
        BY <1>4, <3>2, <4>2
      <4>3. QED
        BY <1>1, <4>1, <4>2
    <3>4. \A p \in Reports : (report'[p]).step \in Announcing => p # r /\ report'[p] = report[p]
      BY <1>5 DEF Announcing
    <3>5. QED
      BY <1>2, <3>1, <3>2, <3>3, <3>4 DEF OutagesFit, OutagesBegin
  <2>2. QED
    BY <2>1 DEF OutagesBegin
<1>12. OutagesEnd'
  <2>1. ASSUME NEW q \in Reports, (report'[q]).step \in Ending
        PROVE  /\ (report'[q]).since # 0 /\ mails'.up[(report'[q]).since] = 0 /\ auth'.since # (report'[q]).since
               /\ \A p \in Reports : (report'[p]).step \in Ending /\ (report'[p]).since = (report'[q]).since => p = q
    <3>1. q # r /\ report'[q] = report[q] /\ report[q].step \in Ending
      BY <1>5, <2>1 DEF Ending
    <3>2. /\ report[q].since # 0 /\ mails.up[report[q].since] = 0 /\ report[q].since \in Outages
          /\ auth'.since # report[q].since
      BY <1>1, <1>2, <3>1, ErrorNumbers DEF OutagesFit, OutagesEnd, ErrorsTyped, ReportType
    <3>3. mails'.up[report[q].since] = 0
      <4>1. CASE report[r].step = "recovering"
        <5>1. report[q].since # o
          BY <1>2, <3>1, <4>1 DEF OutagesFit, OutagesEnd, Ending, o
        <5>2. QED
          BY <1>4, <3>2, <5>1
      <4>2. CASE report[r].step = "announcing"
        BY <1>4, <3>2, <4>2
      <4>3. QED
        BY <1>1, <4>1, <4>2
    <3>4. \A p \in Reports : (report'[p]).step \in Ending => p # r /\ report'[p] = report[p]
      BY <1>5 DEF Ending
    <3>5. QED
      BY <1>2, <3>1, <3>2, <3>3, <3>4 DEF OutagesFit, OutagesEnd
  <2>2. ASSUME NEW p \in Outages, mails'.up[p] > 0 PROVE auth'.since # p
    <3>1. CASE p = o /\ report[r].step = "recovering"
      BY <1>1, <1>9, <3>1
    <3>2. CASE p # o \/ report[r].step = "announcing"
      BY <1>1, <1>2, <1>4, <2>2, <3>2 DEF OutagesFit, OutagesEnd
    <3>3. QED
      BY <1>1, <3>1, <3>2
  <2>3. QED
    BY <2>1, <2>2 DEF OutagesEnd
<1>13. AlertsFollow'
  <2>1. \A q \in Reports : (report'[q]).at <= clock'
    BY <1>1, <1>2, <1>5 DEF AlertsFollow
  <2>2. clock' \in 0..LastTime /\ clock' >= clock /\ auth'.since = auth.since /\ auth'.alert = auth.alert
    BY <1>1, <1>2
  <2>3. QED
    BY <1>1, <1>2, <2>1, <2>2, AlertsStay
<1>14. NoticesFit'
  <2>1. broken' \in Nat /\ broken' >= broken
    BY <1>1, <1>2
  <2>2. \A q \in Reports :
          /\ report[q].step = "resolving" => report'[q] = report[q] \/ broken' > 0
          /\ (report'[q]).step \in {"noticing", "linking"} =>
               report[q].step \in {"noticing", "linking"} /\ (report'[q]).since = report[q].since
          /\ (report'[q]).notice \in {0, report[q].notice}
    BY <1>1, <1>5
  <2>3. QED
    BY <1>1, <1>2, <2>1, <2>2, NoticesStay
<1>15. QED
  BY <1>6, <1>7, <1>10, <1>11, <1>12, <1>13, <1>14 DEF ErrorsInv, OutagesFit
-----------------------------------------------------------------------------

\* The reminder that is due moves the last alert on by a day at least.
LEMMA RemindKeeps == ASSUME ErrorsInv, NEW r \in Reports, RemindOutage(r) PROVE ErrorsInv'
<1> DEFINE o == auth.since
<1>1. /\ UNCHANGED <<lastSeen, occurrences, notice, mails, overtaken, opened, clock, recorded, broken>>
      /\ report[r].step = "reminding"
  BY DEF RemindOutage, BoundsStay
<1>2. /\ ErrorsTyped /\ FirstsFit /\ OutagesFit /\ AlertsFollow /\ NoticesFit /\ auth \in AuthType /\ alerts \in AlertsType
      /\ clock \in 0..LastTime /\ clock \in Nat /\ report[r] \in ReportType /\ opened \in Nat /\ broken \in Nat /\ RemindEvery \in Nat
  BY ErrorNumbers DEF ErrorsInv, ErrorsTyped, ErrorsElse
<1>3. CASE ~(auth.since # 0 /\ report[r].at > auth.alert + RemindEvery)
  <2>1. Finish(r) /\ UNCHANGED <<auth, alerts>>
    BY <1>3 DEF RemindOutage
  <2>2. report' \in [Reports -> ReportType] /\ report'[r] = IdleReport /\ \A q \in Reports : q # r => report'[q] = report[q]
    BY <1>2, <2>1, ReportEnds
  <2>3. /\ (report'[r]).step \notin {"noticing", "linking", "announcing", "resolving", "recovering", "closing"}
        /\ (report'[r]).step # "writing" /\ (report'[r]).since \in {0, report[r].since} /\ (report'[r]).notice \in {0, report[r].notice}
        /\ report[r].step # "resolving"
    BY <1>1, <2>2, IdleReportIs
  <2>4. ErrorsElse' /\ broken' >= broken /\ (report'[r]).at <= clock
    BY <1>1, <1>2, <2>2, IdleReportIs DEF ErrorsTyped, ErrorsElse
  <2>5. QED
    BY <1>1, <2>1, <2>2, <2>3, <2>4, ReportStays
<1>4. CASE auth.since # 0 /\ report[r].at > auth.alert + RemindEvery
  <2>1. /\ auth' = [auth EXCEPT !.alert = report[r].at]
        /\ alerts' = [alerts EXCEPT ![o].count = @ + 1]
        /\ StepTo(r, "reading") /\ "reading" \in Steps
    BY <1>4 DEF RemindOutage, Steps
  <2>2. /\ report' \in [Reports -> ReportType] /\ \A q \in Reports : q # r => report'[q] = report[q]
        /\ (report'[r]).step = "reading" /\ (report'[r]).at = report[r].at
        /\ (report'[r]).since = report[r].since /\ (report'[r]).notice = report[r].notice
    BY <1>2, <2>1, ReportGoes
  <2>3. /\ o \in Outages /\ o \in 1..opened /\ report[r].at \in 0..LastTime /\ report[r].at \in Nat /\ report[r].at <= clock
        /\ auth.alert \in Nat /\ alerts[o] \in [from : 0..LastTime, count : Nat]
    <3>1. o \in Outages /\ o \in Nat /\ o <= opened /\ alerts[o] \in [from : 0..LastTime, count : Nat]
      BY <1>2, <1>4, ErrorNumbers DEF OutagesFit, OutagesBounded, AuthType, AlertsType, Outages
    <3>2. report[r].at \in 0..LastTime /\ report[r].at <= clock /\ auth.alert \in 0..LastTime
      BY <1>2 DEF ReportType, AlertsFollow, AuthType
    <3>3. QED
      BY <1>2, <1>4, <3>1, <3>2, ErrorNumbers
  <2>4. auth' \in AuthType /\ auth'.since = o /\ auth'.notice = auth.notice /\ auth'.alert = report[r].at
    BY <1>2, <2>1, <2>3 DEF AuthType
  <2>5. /\ alerts' \in AlertsType /\ alerts'[o].count = alerts[o].count + 1 /\ alerts'[o].from = alerts[o].from
        /\ \A p \in Outages : p # o => alerts'[p] = alerts[p]
    <3> DEFINE new == [alerts[o] EXCEPT !.count = alerts[o].count + 1]
    <3>1. new \in [from : 0..LastTime, count : Nat] /\ new.count = alerts[o].count + 1 /\ new.from = alerts[o].from
      BY <2>3
    <3>2. alerts' = [alerts EXCEPT ![o] = new]
      BY <2>1
    <3> HIDE DEF new, o
    <3>3. alerts' \in AlertsType /\ alerts'[o] = new /\ \A p \in Outages : p # o => alerts'[p] = alerts[p]
      BY <1>2, <2>3, <3>1, <3>2 DEF AlertsType
    <3>4. QED
      BY <3>1, <3>3
  <2>6. ErrorsTyped'
    BY <1>1, <1>2, <2>2, <2>4, <2>5 DEF ErrorsTyped, ErrorsElse
  <2>7. FirstsFit'
    <3>1. \A q \in Reports : (report'[q]).step = "writing" => report'[q] = report[q]
      BY <2>2
    <3>2. QED
      BY <1>1, <1>2, <3>1, FirstsStay
  <2>8. OutagesFit'
    <3>1. \A q \in Reports :
            /\ (report'[q]).notice <= opened /\ (report'[q]).since <= opened
            /\ (report'[q]).step = "closing" => (report'[q]).since # 0
      BY <1>2, <2>2 DEF OutagesFit, OutagesBounded
    <3>2. \A q \in Reports :
            /\ (report'[q]).step \in Announcing => report[q].step \in Announcing /\ (report'[q]).since = report[q].since
            /\ (report'[q]).step \in Ending => report[q].step \in Ending /\ (report'[q]).since = report[q].since
      BY <2>2 DEF Announcing, Ending
    <3>3. auth'.since \in {auth.since, 0} /\ auth'.notice \in 0..opened
      BY <1>2, <2>4, ErrorNumbers DEF OutagesFit, OutagesBounded, AuthType
    <3>4. opened' = opened /\ mails'.down = mails.down /\ mails'.up = mails.up
      BY <1>1
    <3>5. \A q \in Reports :
            /\ (report'[q]).notice <= opened /\ (report'[q]).since <= opened
            /\ (report'[q]).step = "closing" => (report'[q]).since # 0
            /\ (report'[q]).step \in Announcing => report[q].step \in Announcing /\ (report'[q]).since = report[q].since
            /\ (report'[q]).step \in Ending => report[q].step \in Ending /\ (report'[q]).since = report[q].since
      BY <3>1, <3>2
    <3>6. QED
      BY <1>2, <3>3, <3>4, <3>5, OutagesStay
  <2>9. AlertsFollow'
    <3>1. \A q \in Reports : (report'[q]).at <= clock
      BY <1>2, <2>2 DEF AlertsFollow
    <3>2. auth'.alert <= clock
      BY <2>3, <2>4
    <3>3. ASSUME NEW p \in 1..opened
          PROVE  /\ alerts'[p].count >= 1 /\ alerts'[p].from <= clock
                 /\ (alerts'[p].count - 1) * (RemindEvery + 1) <= Till(p)' - alerts'[p].from
      <4>1. p \in Outages
        <5>1. opened \in 0..MaxOutages
          BY <1>2 DEF ErrorsTyped, ErrorsElse
        <5>2. QED
          BY <5>1, ErrorNumbers DEF Outages
      <4>2. alerts[p].count >= 1 /\ alerts[p].from <= clock /\ (alerts[p].count - 1) * (RemindEvery + 1) <= Till(p) - alerts[p].from
        BY <1>2 DEF AlertsFollow
      <4>3. CASE p = o
        <5> DEFINE n == alerts[o].count
                   a == alerts[o].from
                   k == RemindEvery + 1
        <5>1. n \in Nat /\ a \in Nat /\ k \in Nat /\ n >= 1 /\ (n - 1) * k <= auth.alert - a
          BY <1>2, <2>3, <4>2, <4>3, ErrorNumbers DEF Till
        <5>2. report[r].at >= auth.alert + k
          BY <1>2, <1>4, <2>3
        <5>3. Till(p)' = report[r].at /\ alerts'[p].count = n + 1 /\ alerts'[p].from = a
          BY <2>4, <2>5, <4>3 DEF Till
        <5> HIDE DEF n, a, k
        <5>4. (n + 1 - 1) * k = (n - 1) * k + k /\ (n - 1) * k \in Int
          BY <5>1
        <5>5. (n + 1 - 1) * k <= report[r].at - a
          BY <2>3, <5>1, <5>2, <5>4
        <5>6. QED
          BY <4>2, <4>3, <5>1, <5>3, <5>5 DEF k, a
      <4>4. CASE p # o
        <5>1. alerts'[p] = alerts[p] /\ Till(p)' = Till(p)
          BY <1>1, <2>4, <2>5, <4>1, <4>4 DEF Till
        <5>2. QED
          BY <4>2, <5>1
      <4>5. QED
        BY <4>3, <4>4
    <3>4. QED
      BY <1>1, <3>1, <3>2, <3>3 DEF AlertsFollow
  <2>10. NoticesFit'
    <3>1. broken' \in Nat /\ broken' >= broken
      BY <1>1, <1>2
    <3>2. \A q \in Reports :
            /\ report[q].step = "resolving" => report'[q] = report[q] \/ broken' > 0
            /\ (report'[q]).step \in {"noticing", "linking"} =>
                 report[q].step \in {"noticing", "linking"} /\ (report'[q]).since = report[q].since
            /\ (report'[q]).notice \in {0, report[q].notice}
      BY <1>1, <2>2
    <3>3. QED
      BY <1>1, <1>2, <2>4, <3>1, <3>2, NoticesStay
  <2>11. QED
    BY <2>6, <2>7, <2>8, <2>9, <2>10 DEF ErrorsInv
<1>5. QED
  BY <1>3, <1>4
-----------------------------------------------------------------------------

LEMMA AcceptKeeps == ASSUME ErrorsInv, NEW r \in Reports, Accept(r) PROVE ErrorsInv'
<1> DEFINE new == [IdleReport EXCEPT !.step = "closing", !.since = auth.since, !.notice = auth.notice]
<1>1. /\ UNCHANGED <<lastSeen, occurrences, auth, notice, mails, alerts, overtaken, opened, clock, recorded, broken>>
      /\ report[r].step = "idle" /\ auth.since # 0 /\ report' = [report EXCEPT ![r] = new]
  BY DEF Accept, stores, HistoryStays, BoundsStay
<1>2. /\ ErrorsTyped /\ FirstsFit /\ OutagesFit /\ AlertsFollow /\ NoticesFit /\ auth \in AuthType
      /\ clock \in 0..LastTime /\ clock \in Nat /\ report \in [Reports -> ReportType]
  BY ErrorNumbers DEF ErrorsInv, ErrorsTyped, ErrorsElse
<1>3. /\ new \in ReportType /\ new.step = "closing" /\ new.at = 0 /\ new.since = auth.since /\ new.notice = auth.notice
  BY <1>2, IdleReportIs DEF ReportType, AuthType, Steps
<1> HIDE DEF new
<1>4. report' \in [Reports -> ReportType] /\ report'[r] = new /\ \A q \in Reports : q # r => report'[q] = report[q]
  BY <1>1, <1>2, <1>3
<1>5. ErrorsTyped'
  BY <1>1, <1>2, <1>4 DEF ErrorsTyped, ErrorsElse
<1>6. FirstsFit'
  <2>1. \A q \in Reports : (report'[q]).step = "writing" => report'[q] = report[q]
    BY <1>3, <1>4
  <2>2. QED
    BY <1>1, <1>2, <2>1, FirstsStay
<1>7. OutagesFit'
  <2>1. \A q \in Reports :
          /\ (report'[q]).notice <= opened /\ (report'[q]).since <= opened
          /\ (report'[q]).step = "closing" => (report'[q]).since # 0
    BY <1>1, <1>2, <1>3, <1>4 DEF OutagesFit, OutagesBounded
  <2>2. \A q \in Reports :
          /\ (report'[q]).step \in Announcing => report[q].step \in Announcing /\ (report'[q]).since = report[q].since
          /\ (report'[q]).step \in Ending => report[q].step \in Ending /\ (report'[q]).since = report[q].since
    BY <1>3, <1>4 DEF Announcing, Ending
  <2>3. auth'.since \in {auth.since, 0} /\ auth'.notice \in 0..opened
    BY <1>1, <1>2, ErrorNumbers DEF OutagesFit, OutagesBounded, ErrorsTyped, ErrorsElse, AuthType
  <2>4. opened' = opened /\ mails'.down = mails.down /\ mails'.up = mails.up
    BY <1>1
  <2>5. \A q \in Reports :
          /\ (report'[q]).notice <= opened /\ (report'[q]).since <= opened
          /\ (report'[q]).step = "closing" => (report'[q]).since # 0
          /\ (report'[q]).step \in Announcing => report[q].step \in Announcing /\ (report'[q]).since = report[q].since
          /\ (report'[q]).step \in Ending => report[q].step \in Ending /\ (report'[q]).since = report[q].since
    BY <2>1, <2>2
  <2>6. QED
    BY <1>2, <2>3, <2>4, <2>5, OutagesStay
<1>8. AlertsFollow'
  <2>1. \A q \in Reports : (report'[q]).at <= clock'
    BY <1>1, <1>2, <1>3, <1>4 DEF AlertsFollow
  <2>2. clock' \in 0..LastTime /\ clock' >= clock /\ auth'.since = auth.since /\ auth'.alert = auth.alert
    BY <1>1, <1>2
  <2>3. QED
    BY <1>1, <1>2, <2>1, <2>2, AlertsStay
\* The notice it read is not one still to be linked.
<1>9. NoticesFit'
  <2>1. \A q \in Reports : report[q].step = "resolving" => report'[q] = report[q]
    BY <1>1, <1>4
  <2>2. NoticesFollow'
    BY <1>1, <1>2, <2>1 DEF NoticesFit, NoticesFollow
  <2>3. ASSUME NEW q \in Reports, (report'[q]).step \in {"noticing", "linking"}
        PROVE  /\ auth'.since = (report'[q]).since \/ (report'[q]).since \in overtaken \/ broken > 0
               /\ auth'.notice # (report'[q]).since /\ \A p \in Reports : (report'[p]).notice # (report'[q]).since
    <3>1. q # r /\ report'[q] = report[q]
      BY <1>3, <1>4, <2>3
    <3>2. QED
      BY <1>1, <1>2, <1>3, <1>4, <2>3, <3>1 DEF NoticesFit
  <2>4. QED
    BY <1>1, <2>2, <2>3 DEF NoticesFit
<1>10. QED
  BY <1>5, <1>6, <1>7, <1>8, <1>9 DEF ErrorsInv

\* One success ends the outage it read, whose end nobody mailed yet.
LEMMA ClosesKeeps ==
  ASSUME ErrorsInv, NEW r \in Reports, report[r].step = "closing", auth.since = report[r].since, Closes(r),
         UNCHANGED <<lastSeen, occurrences, notice, mails, alerts, opened, clock, recorded, broken>>
  PROVE  ErrorsInv'
<1> DEFINE o == report[r].since
<1>1. /\ auth' = [since |-> 0, alert |-> 0, notice |-> 0] /\ StepTo(r, "resolving") /\ "resolving" \in Steps
      /\ overtaken' = IF report[r].notice = o THEN overtaken ELSE overtaken \cup {o}
  BY DEF Closes, Steps
<1>2. /\ ErrorsTyped /\ FirstsFit /\ OutagesFit /\ AlertsFollow /\ NoticesFit /\ auth \in AuthType /\ mails \in MailsType
      /\ clock \in 0..LastTime /\ clock \in Nat /\ report[r] \in ReportType /\ opened \in Nat /\ overtaken \subseteq Outages
  BY ErrorNumbers DEF ErrorsInv, ErrorsTyped, ErrorsElse
<1>3. o # 0 /\ o \in Outages
  BY <1>2, ErrorNumbers DEF OutagesFit, OutagesBounded, ReportType
<1>4. /\ report' \in [Reports -> ReportType] /\ \A q \in Reports : q # r => report'[q] = report[q]
      /\ (report'[r]).step = "resolving" /\ (report'[r]).at = report[r].at
      /\ (report'[r]).since = o /\ (report'[r]).notice = report[r].notice
  BY <1>1, <1>2, ReportGoes
<1>5. auth' \in AuthType /\ auth'.since = 0 /\ auth'.alert = 0 /\ auth'.notice = 0
  BY <1>1, ErrorNumbers DEF AuthType
<1>6. overtaken \subseteq overtaken' /\ overtaken' \subseteq Outages
  BY <1>1, <1>2, <1>3
<1>7. ErrorsTyped'
  BY <1>2, <1>4, <1>5, <1>6 DEF ErrorsTyped, ErrorsElse
<1>8. FirstsFit'
  <2>1. \A q \in Reports : (report'[q]).step = "writing" => report'[q] = report[q]
    BY <1>4
  <2>2. QED
    BY <1>2, <2>1, FirstsStay
<1>9. OutagesBounded'
  BY <1>2, <1>4, <1>5 DEF OutagesFit, OutagesBounded
<1>10. OutagesBegin'
  <2>1. \A q \in Reports : (report'[q]).step \in Announcing => q # r /\ report'[q] = report[q]
    BY <1>4 DEF Announcing
  <2>2. QED
    BY <1>2, <2>1 DEF OutagesFit, OutagesBegin
<1>11. mails.up[o] = 0
  <2>1. mails.up[o] \in Nat /\ ~(mails.up[o] > 0)
    BY <1>2, <1>3 DEF OutagesFit, OutagesEnd, MailsType
  <2>2. QED
    BY <2>1
<1>12. OutagesEnd'
  <2>1. \A q \in Reports : q # r /\ (report'[q]).step \in Ending =>
          /\ report'[q] = report[q] /\ report[q].step \in Ending /\ report[q].since # o
          /\ report[q].since # 0 /\ mails.up[report[q].since] = 0
    BY <1>2, <1>4 DEF OutagesFit, OutagesEnd
  <2>2. ASSUME NEW q \in Reports, (report'[q]).step \in Ending
        PROVE  /\ (report'[q]).since # 0 /\ mails.up[(report'[q]).since] = 0 /\ auth'.since # (report'[q]).since
               /\ \A p \in Reports : (report'[p]).step \in Ending /\ (report'[p]).since = (report'[q]).since => p = q
    <3>1. CASE q = r
      BY <1>3, <1>4, <1>5, <1>11, <2>1, <3>1
    <3>2. CASE q # r
      <4>1. report'[q] = report[q] /\ report[q].since # o /\ report[q].since # 0 /\ mails.up[report[q].since] = 0
        BY <2>1, <2>2, <3>2
      <4>2. \A p \in Reports : (report'[p]).step \in Ending /\ (report'[p]).since = report[q].since => p = q
        BY <1>2, <1>4, <2>1, <2>2, <3>2, <4>1 DEF OutagesFit, OutagesEnd
      <4>3. QED
        BY <1>5, <4>1, <4>2
    <3>3. QED
      BY <3>1, <3>2
  <2>3. \A p \in Outages : auth'.since # p
    BY <1>5, ErrorNumbers
  <2>4. QED
    BY <2>2, <2>3 DEF OutagesEnd
<1>13. AlertsFollow'
  <2>1. \A q \in Reports : (report'[q]).at <= clock'
    BY <1>2, <1>4 DEF AlertsFollow
  <2>2. clock' \in 0..LastTime /\ clock' >= clock
    BY <1>2
  <2>3. QED
    BY <1>2, <1>5, <2>1, <2>2, AlertsStay
<1>14. NoticesFit'
  <2>1. ASSUME NEW p \in Outages, notice[p] = "open"
        PROVE  \/ auth'.since = p
               \/ \E q \in Reports : (report'[q]).step = "resolving" /\ (report'[q]).notice = p
               \/ p \in overtaken' \/ broken > 0
    <3>1. CASE p = o
      <4>1. CASE report[r].notice = o
        BY <1>4, <3>1, <4>1
      <4>2. CASE report[r].notice # o
        BY <1>1, <3>1, <4>2
      <4>3. QED
        BY <4>1, <4>2
    <3>2. CASE p # o
      <4>1. (\E q \in Reports : report[q].step = "resolving" /\ report[q].notice = p) \/ p \in overtaken \/ broken > 0
        BY <1>2, <2>1, <3>2 DEF NoticesFit, NoticesFollow
      <4>2. \A q \in Reports : report[q].step = "resolving" => report'[q] = report[q]
        BY <1>4
      <4>3. QED
        BY <1>6, <4>1, <4>2
    <3>3. QED
      BY <3>1, <3>2
  <2>2. ASSUME NEW q \in Reports, (report'[q]).step \in {"noticing", "linking"}
        PROVE  /\ auth'.since = (report'[q]).since \/ (report'[q]).since \in overtaken' \/ broken > 0
               /\ auth'.notice # (report'[q]).since /\ \A p \in Reports : (report'[p]).notice # (report'[q]).since
    <3>1. q # r /\ report'[q] = report[q] /\ report[q].since # 0
      BY <1>2, <1>4, <2>2 DEF OutagesFit, OutagesBegin, Announcing
    <3>2. \A p \in Reports : (report'[p]).notice = report[p].notice
      BY <1>4
    <3>3. report[q].since = o => o \in overtaken'
      BY <1>1, <1>2, <2>2, <3>1 DEF NoticesFit
    <3>4. QED
      BY <1>2, <1>5, <1>6, <2>2, <3>1, <3>2, <3>3 DEF NoticesFit
  <2>3. QED
    BY <2>1, <2>2 DEF NoticesFit, NoticesFollow
<1>15. QED
  BY <1>7, <1>8, <1>9, <1>10, <1>12, <1>13, <1>14 DEF ErrorsInv, OutagesFit

LEMMA CloseOutageKeeps == ASSUME ErrorsInv, NEW r \in Reports, CloseOutage(r) PROVE ErrorsInv'
<1>1. /\ UNCHANGED <<lastSeen, occurrences, notice, mails, alerts, opened, clock, recorded, broken>> /\ report[r].step = "closing"
  BY DEF CloseOutage, BoundsStay
<1>2. CASE auth.since = report[r].since
  <2>1. Closes(r)
    BY <1>2 DEF CloseOutage
  <2>2. QED
    BY <1>1, <1>2, <2>1, ClosesKeeps
<1>3. CASE auth.since # report[r].since
  <2>1. Finish(r) /\ UNCHANGED <<auth, overtaken>>
    BY <1>3 DEF CloseOutage
  <2>2. ErrorsTyped /\ clock \in Nat /\ broken \in Nat
    BY ErrorNumbers DEF ErrorsInv, ErrorsTyped, ErrorsElse
  <2>3. report' \in [Reports -> ReportType] /\ report'[r] = IdleReport /\ \A q \in Reports : q # r => report'[q] = report[q]
    BY <2>1, <2>2, ReportEnds
  <2>4. /\ (report'[r]).step \notin {"noticing", "linking", "announcing", "resolving", "recovering", "closing"}
        /\ (report'[r]).step # "writing" /\ (report'[r]).since \in {0, report[r].since} /\ (report'[r]).notice \in {0, report[r].notice}
        /\ report[r].step # "resolving"
    BY <1>1, <2>3, IdleReportIs
  <2>5. ErrorsElse' /\ broken' >= broken /\ (report'[r]).at <= clock
    BY <1>1, <2>1, <2>2, <2>3, IdleReportIs DEF ErrorsTyped, ErrorsElse
  <2>6. QED
    BY <1>1, <2>1, <2>3, <2>4, <2>5, ReportStays
<1>4. QED
  BY <1>2, <1>3

LEMMA ResolveNoticeKeeps == ASSUME ErrorsInv, NEW r \in Reports, ResolveNotice(r) PROVE ErrorsInv'
<1> DEFINE n == report[r].notice
<1>1. /\ UNCHANGED <<lastSeen, occurrences, auth, mails, alerts, overtaken, opened, clock, recorded, broken>>
      /\ report[r].step = "resolving" /\ StepTo(r, "recovering") /\ "recovering" \in Steps
      /\ notice' = IF n = 0 THEN notice ELSE [notice EXCEPT ![n] = "resolved"]
  BY DEF ResolveNotice, HistoryStays, BoundsStay, Steps
<1>2. /\ ErrorsTyped /\ FirstsFit /\ OutagesFit /\ AlertsFollow /\ NoticesFit
      /\ clock \in 0..LastTime /\ clock \in Nat /\ n \in 0..MaxOutages /\ notice \in [Outages -> {"none", "open", "resolved"}]
  BY ErrorNumbers DEF ErrorsInv, ErrorsTyped, ErrorsElse, ReportType
<1>3. /\ report' \in [Reports -> ReportType] /\ \A q \in Reports : q # r => report'[q] = report[q]
      /\ (report'[r]).step = "recovering" /\ (report'[r]).at = report[r].at
      /\ (report'[r]).since = report[r].since /\ (report'[r]).notice = n
  BY <1>1, <1>2, ReportGoes
<1> HIDE DEF n
<1>4. /\ notice' \in [Outages -> {"none", "open", "resolved"}]
      /\ \A p \in Outages : notice'[p] = "open" => notice[p] = "open" /\ p # n
  <2>1. CASE n = 0
    BY <1>1, <1>2, <2>1, ErrorNumbers
  <2>2. CASE n # 0
    <3>1. n \in Outages /\ notice' = [notice EXCEPT ![n] = "resolved"]
      BY <1>1, <1>2, <2>2, ErrorNumbers
    <3>2. QED
      BY <1>2, <3>1
  <2>3. QED
    BY <2>1, <2>2
<1>5. ErrorsTyped'
  BY <1>1, <1>2, <1>3, <1>4 DEF ErrorsTyped, ErrorsElse
<1>6. FirstsFit'
  <2>1. \A q \in Reports : (report'[q]).step = "writing" => report'[q] = report[q]
    BY <1>3
  <2>2. QED
    BY <1>1, <1>2, <2>1, FirstsStay
<1>7. OutagesFit'
  <2>1. \A q \in Reports :
          /\ (report'[q]).notice <= opened /\ (report'[q]).since <= opened
          /\ (report'[q]).step = "closing" => (report'[q]).since # 0
    BY <1>2, <1>3 DEF OutagesFit, OutagesBounded, n
  <2>2. \A q \in Reports :
          /\ (report'[q]).step \in Announcing => report[q].step \in Announcing /\ (report'[q]).since = report[q].since
          /\ (report'[q]).step \in Ending => report[q].step \in Ending /\ (report'[q]).since = report[q].since
    BY <1>1, <1>3 DEF Announcing, Ending
  <2>3. auth'.since \in {auth.since, 0} /\ auth'.notice \in 0..opened
    BY <1>1, <1>2, ErrorNumbers DEF OutagesFit, OutagesBounded, ErrorsTyped, ErrorsElse, AuthType
  <2>4. opened' = opened /\ mails'.down = mails.down /\ mails'.up = mails.up
    BY <1>1
  <2>5. \A q \in Reports :
          /\ (report'[q]).notice <= opened /\ (report'[q]).since <= opened
          /\ (report'[q]).step = "closing" => (report'[q]).since # 0
          /\ (report'[q]).step \in Announcing => report[q].step \in Announcing /\ (report'[q]).since = report[q].since
          /\ (report'[q]).step \in Ending => report[q].step \in Ending /\ (report'[q]).since = report[q].since
    BY <2>1, <2>2
  <2>6. QED
    BY <1>2, <2>3, <2>4, <2>5, OutagesStay
<1>8. AlertsFollow'
  <2>1. \A q \in Reports : (report'[q]).at <= clock'
    BY <1>1, <1>2, <1>3 DEF AlertsFollow
  <2>2. clock' \in 0..LastTime /\ clock' >= clock /\ auth'.since = auth.since /\ auth'.alert = auth.alert
    BY <1>1, <1>2
  <2>3. QED
    BY <1>1, <1>2, <2>1, <2>2, AlertsStay
<1>9. NoticesFit'
  <2>1. ASSUME NEW p \in Outages, notice'[p] = "open"
        PROVE  \/ auth'.since = p
               \/ \E q \in Reports : (report'[q]).step = "resolving" /\ (report'[q]).notice = p
               \/ p \in overtaken \/ broken > 0
    <3>1. notice[p] = "open" /\ p # n
      BY <1>4, <2>1
    <3>2. auth.since = p \/ (\E q \in Reports : report[q].step = "resolving" /\ report[q].notice = p) \/ p \in overtaken \/ broken > 0
      BY <1>2, <3>1 DEF NoticesFit, NoticesFollow
    <3>3. \A q \in Reports : report[q].notice = p => report'[q] = report[q]
      BY <1>3, <3>1 DEF n
    <3>4. QED
      BY <1>1, <3>2, <3>3
  <2>2. ASSUME NEW q \in Reports, (report'[q]).step \in {"noticing", "linking"}
        PROVE  /\ auth'.since = (report'[q]).since \/ (report'[q]).since \in overtaken \/ broken > 0
               /\ auth'.notice # (report'[q]).since /\ \A p \in Reports : (report'[p]).notice # (report'[q]).since
    <3>1. q # r /\ report'[q] = report[q] /\ \A p \in Reports : (report'[p]).notice = report[p].notice
      BY <1>3, <2>2 DEF n
    <3>2. QED
      BY <1>1, <1>2, <2>2, <3>1 DEF NoticesFit
  <2>3. QED
    BY <1>1, <2>1, <2>2 DEF NoticesFit, NoticesFollow
<1>10. QED
  BY <1>5, <1>6, <1>7, <1>8, <1>9 DEF ErrorsInv

LEMMA ErrorClockKeeps == ASSUME ErrorsInv, ErrorClock PROVE ErrorsInv'
<1>1. /\ UNCHANGED <<lastSeen, occurrences, auth, notice, mails, alerts, overtaken, opened, report, recorded, broken>>
      /\ clock < LastTime /\ clock' = clock + 1
  BY DEF ErrorClock, stores, HistoryStays
<1>2. ErrorsTyped /\ AlertsFollow /\ clock \in Nat /\ LastTime \in Nat /\ clock' \in 0..LastTime /\ clock' >= clock
  BY <1>1, ErrorNumbers DEF ErrorsInv, ErrorsTyped, ErrorsElse
<1>3. AlertsFollow'
  <2>1. \A q \in Reports : (report'[q]).at <= clock'
    <3>1. SUFFICES ASSUME NEW q \in Reports PROVE report[q].at <= clock'
      BY <1>1
    <3>2. report[q].at \in Nat /\ report[q].at <= clock
      BY <1>2, ErrorNumbers DEF ErrorsTyped, ReportType, AlertsFollow
    <3>3. QED
      BY <1>1, <1>2, <3>2
  <2>2. QED
    BY <1>1, <1>2, <2>1, AlertsStay
<1>4. ErrorsTyped'
  BY <1>1, <1>2 DEF ErrorsTyped, ErrorsElse
<1>5. FirstsFit' /\ OutagesFit' /\ NoticesFit'
  BY <1>1 DEF ErrorsInv, FirstsFit, Reappeared, OutagesFit, OutagesBounded, OutagesBegin, OutagesEnd, NoticesFit, NoticesFollow
<1>6. QED
  BY <1>3, <1>4, <1>5 DEF ErrorsInv

LEMMA ErrorsInitInv == ErrorsInit => ErrorsInv
<1> SUFFICES ASSUME ErrorsInit PROVE ErrorsInv
  OBVIOUS
<1>1. report \in [Reports -> ReportType] /\ \A r \in Reports : report[r] = IdleReport
  BY IdleReportIs DEF ErrorsInit
<1>2. auth \in AuthType /\ auth.since = 0 /\ auth.alert = 0 /\ auth.notice = 0
  BY ErrorNumbers DEF ErrorsInit, AuthType
<1>3. /\ mails \in MailsType /\ \A f \in Failures : mails.first[f] = 0
      /\ \A o \in Outages : mails.down[o] = 0 /\ mails.up[o] = 0
  BY DEF ErrorsInit, MailsType
<1>4. alerts \in AlertsType
  BY ErrorNumbers DEF ErrorsInit, AlertsType
<1>5. ErrorsElse
  BY ErrorNumbers DEF ErrorsInit, ErrorsElse
<1>6. FirstsFit
  BY <1>1, <1>3, IdleReportIs DEF FirstsFit
<1>7. OutagesFit
  BY <1>1, <1>2, <1>3, IdleReportIs, ErrorNumbers DEF ErrorsInit, OutagesFit, OutagesBounded, OutagesBegin, OutagesEnd, Announcing, Ending
<1>8. AlertsFollow
  BY <1>1, <1>2, IdleReportIs DEF ErrorsInit, AlertsFollow
<1>9. NoticesFit
  BY <1>1, IdleReportIs DEF ErrorsInit, NoticesFit, NoticesFollow
<1>10. QED
  BY <1>1, <1>2, <1>3, <1>4, <1>5, <1>6, <1>7, <1>8, <1>9 DEF ErrorsInv, ErrorsTyped

LEMMA ErrorsNextInv == ErrorsInv /\ [ErrorsNext]_errorVars => ErrorsInv'
<1> SUFFICES ASSUME ErrorsInv, [ErrorsNext]_errorVars PROVE ErrorsInv'
  OBVIOUS
<1>1. CASE UNCHANGED errorVars
  <2>1. UNCHANGED <<lastSeen, occurrences, auth, notice, report, clock, mails, alerts, overtaken, opened, recorded, broken>>
    BY <1>1 DEF errorVars, stores
  <2>2. ErrorsTyped' /\ FirstsFit'
    BY <2>1 DEF ErrorsInv, ErrorsTyped, ErrorsElse, FirstsFit, Reappeared
  <2>3. OutagesFit' /\ AlertsFollow' /\ NoticesFit'
    BY <2>1 DEF ErrorsInv, OutagesFit, OutagesBounded, OutagesBegin, OutagesEnd, AlertsFollow, Till, NoticesFit, NoticesFollow
  <2>4. QED
    BY <2>2, <2>3 DEF ErrorsInv
<1>2. ASSUME NEW r \in Reports, (\E f \in Failures : RecordFailure(r, f)) \/ FindRow(r) \/ CreateRow(r) \/ UpdateRow(r) \/ AnnounceError(r)
      PROVE ErrorsInv'
  BY <1>2, RecordKeeps, FindRowKeeps, CreateRowKeeps, UpdateRowKeeps, AnnounceErrorKeeps
<1>3. ASSUME NEW r \in Reports, OpenOutage(r) \/ CreateNotice(r) \/ LinkNotice(r) \/ AnnounceOutage(r) \/ RemindOutage(r) \/ MailReminder(r)
      PROVE ErrorsInv'
  BY <1>3, OpenOutageKeeps, CreateNoticeKeeps, LinkNoticeKeeps, MailKeeps, RemindKeeps, MailReminderKeeps
<1>4. ASSUME NEW r \in Reports, Accept(r) \/ CloseOutage(r) \/ ResolveNotice(r) \/ MailRecovery(r) \/ ReportBreaks(r)
      PROVE ErrorsInv'
  BY <1>4, AcceptKeeps, CloseOutageKeeps, ResolveNoticeKeeps, MailKeeps, MailReminderKeeps
<1>5. CASE ErrorClock
  BY <1>5, ErrorClockKeeps
<1>6. QED
  BY <1>1, <1>2, <1>3, <1>4, <1>5 DEF ErrorsNext
-----------------------------------------------------------------------------
(* The claims: told to the office, with the photos that fit *)

PhotoList == Seq(Photos \cup {Portal})
ClaimType == [policy : Policies, code : OfficeLines, status : Status, filed : 0..LastPhotoDay, photos : PhotoList]
FilingType == [at : {"idle", "stored", "mailed", "answered", "failed"}, claim : 0..MaxClaims]
PhotoType == [at : {"unsent", "asked", "found", "joined", "inbox"}, kind : Kinds, line : AllLines \cup {Nothing},
              claim : 0..MaxClaims, read : PhotoList, day : 0..LastPhotoDay]
ReportedType == [mail : SUBSET (1..MaxClaims), matter : SUBSET (1..MaxClaims)]

ClaimsElse ==
  /\ book \in [Policies -> [code : OfficeLines, inForce : BOOLEAN]]
  /\ thread \in [line : AllLines, link : {"none", "active", "old"}]
  /\ together \subseteq Photos /\ today \in 0..LastPhotoDay /\ moves \in 0..MaxThreadMoves /\ cuts \in 0..MaxCuts

ClaimsTyped ==
  /\ ClaimsElse /\ claims \in Seq(ClaimType) /\ Len(claims) <= MaxClaims
  /\ filing \in [Filers -> FilingType] /\ photo \in [Photos -> PhotoType] /\ reported \in ReportedType

\* A request works on a claim of its own.
InCourse(f) == filing[f].at \in {"stored", "mailed"}
FilingsFit ==
  /\ \A f \in Filers : InCourse(f) => filing[f].claim \in 1..Len(claims)
  /\ \A f, g \in Filers : InCourse(f) /\ InCourse(g) /\ filing[f].claim = filing[g].claim => f = g

\* Claims that miss something no request will still do.
Untold ==
  {i \in 1..Len(claims) :
     /\ i \notin reported.mail \/ i \notin reported.matter
     /\ \A f \in Filers : filing[f].claim = i => filing[f].at # "stored"
     /\ \A f \in Filers : filing[f].claim = i /\ filing[f].at = "mailed" => i \notin reported.mail}

ClaimsTold == Cardinality(Untold) <= cuts

\* Photos of the portal come before those of the chat, and there is room for all.
Among(x, s) == \E k \in 1..Len(s) : s[k] = x
KeptSo(s) ==
  /\ Len(s) <= MaxFiles
  /\ \A k, l \in 1..Len(s) : k < l /\ s[l] = Portal => s[k] = Portal
Full(s) == Len(s) = MaxFiles /\ ~Among(Portal, s)

\* A claim has photos that joined it, which fit it.
PhotosHeld ==
  \A i \in 1..Len(claims) :
    /\ KeptSo(claims[i].photos)
    /\ \A p \in Photos : Among(p, claims[i].photos) => photo[p].at = "joined" /\ photo[p].claim = i
PhotosSuit ==
  \A p \in Photos :
    /\ photo[p].at \in {"asked", "found", "joined"} => photo[p].kind # "held"
    /\ photo[p].at \in {"found", "joined"} =>
         /\ photo[p].claim \in 1..Len(claims)
         /\ Serves(photo[p].line, claims[photo[p].claim].code)
         /\ photo[p].kind = "labelled" \/ claims[photo[p].claim].filed + PhotoWindow >= photo[p].day

\* What a photo on its way read is what was there, or another joins at that time.
PhotosRead ==
  \A p \in Photos : photo[p].at = "found" =>
    /\ KeptSo(photo[p].read)
    /\ \A q \in Photos : Among(q, photo[p].read) => photo[q].at = "joined" /\ photo[q].claim = photo[p].claim
    /\ \A q \in Photos : photo[q].at = "found" /\ q # p /\ photo[q].claim = photo[p].claim => p \in together /\ q \in together
    /\ \A q \in Photos : photo[q].at = "joined" /\ photo[q].claim = photo[p].claim =>
         q \in together \/ Among(q, photo[p].read) \/ Full(photo[p].read)
PhotosKept ==
  \A p \in Photos : photo[p].at = "joined" =>
    Among(p, claims[photo[p].claim].photos) \/ p \in together \/ Full(claims[photo[p].claim].photos)

PhotosInv == PhotosHeld /\ PhotosSuit /\ PhotosRead /\ PhotosKept
ClaimsInv == ClaimsTyped /\ FilingsFit /\ ClaimsTold /\ PhotosInv

LEMMA ClaimNumbers ==
  /\ Main \notin OfficeLines /\ Portal \notin Photos
  /\ MaxFiles \in Nat /\ MaxFiles > 0 /\ {PhotoWindow, MaxClaims, LastPhotoDay, MaxThreadMoves, MaxCuts} \subseteq Nat
  /\ 0 \in 0..MaxClaims /\ 0 \in 0..LastPhotoDay
BY ClaimParameters

LEMMA ListsAre ==
  ASSUME NEW s \in PhotoList
  PROVE  Len(s) \in Nat /\ DOMAIN s = 1..Len(s) /\ \A k \in 1..Len(s) : s[k] \in Photos \cup {Portal}
BY LenProperties, ElementOfSeq DEF PhotoList

LEMMA UntoldFinite == ASSUME ClaimsTyped PROVE IsFiniteSet(Untold) /\ Cardinality(Untold) \in Nat
<1>1. Len(claims) \in Nat
  BY LenProperties DEF ClaimsTyped
<1>2. IsFiniteSet(1..Len(claims))
  BY <1>1, FS_Interval
<1>3. Untold \in SUBSET (1..Len(claims))
  BY DEF Untold
<1>4. IsFiniteSet(Untold)
  BY <1>2, <1>3, FS_Subset
<1>5. QED
  BY <1>4, FS_CardinalityType

LEMMA ClaimsHeld == ClaimsInv => ClaimsTypeOK /\ ClaimsFit
<1> SUFFICES ASSUME ClaimsInv PROVE ClaimsTypeOK /\ ClaimsFit
  OBVIOUS
<1>1. ClaimsTyped /\ FilingsFit /\ ClaimsTold /\ PhotosHeld /\ PhotosSuit /\ PhotosRead /\ PhotosKept
  BY DEF ClaimsInv, PhotosInv
<1>2. ClaimsTypeOK
  BY <1>1 DEF ClaimsTyped, ClaimsElse, ClaimsTypeOK, ClaimType, FilingType, PhotoType, ReportedType, PhotoList
<1>3. /\ DOMAIN claims = 1..Len(claims) /\ Len(claims) \in Nat
      /\ \A i \in 1..Len(claims) : claims[i].photos \in PhotoList /\ DOMAIN claims[i].photos = 1..Len(claims[i].photos)
  <2>1. DOMAIN claims = 1..Len(claims) /\ Len(claims) \in Nat /\ \A i \in 1..Len(claims) : claims[i] \in ClaimType
    BY <1>1, LenProperties, ElementOfSeq DEF ClaimsTyped
  <2>2. \A i \in 1..Len(claims) : claims[i].photos \in PhotoList
    BY <2>1 DEF ClaimType
  <2>3. QED
    BY <2>1, <2>2, ListsAre
<1>4. PhotosFit
  <2>1. \A p \in Photos, i \in 1..Len(claims) : Holds(i, p) => photo[p].at = "joined" /\ photo[p].claim = i
    BY <1>1, <1>3 DEF PhotosHeld, Holds, Among
  <2>2. QED
    BY <1>1, <1>3, <2>1 DEF PhotosFit, PhotosSuit
<1>5. PhotosStay
  <2>1. SUFFICES ASSUME NEW p \in Photos, photo[p].at = "joined"
                 PROVE  LET has == claims[photo[p].claim].photos
                        IN Holds(photo[p].claim, p) \/ p \in together \/ (Len(has) = MaxFiles /\ \A k \in DOMAIN has : has[k] # Portal)
    BY DEF PhotosStay
  <2>2. photo[p].claim \in 1..Len(claims)
    BY <1>1, <2>1 DEF PhotosSuit
  <2>3. QED
    BY <1>1, <1>3, <2>1, <2>2 DEF PhotosKept, Holds, Among, Full
<1>6. ClaimsAreTold
  <2> DEFINE settled == {i \in DOMAIN claims : ~\E f \in Filers : filing[f].claim = i /\ filing[f].at \in {"stored", "mailed"}}
             unseen == settled \ reported.matter
             unmailed == (settled \cap reported.matter) \ reported.mail
  <2>1. unseen \in SUBSET Untold /\ unmailed \in SUBSET Untold /\ unseen \cup unmailed \in SUBSET Untold
    BY <1>3 DEF Untold
  <2>2. unseen \cap unmailed = {}
    OBVIOUS
  <2>3. IsFiniteSet(Untold) /\ Cardinality(Untold) \in Nat /\ Cardinality(Untold) <= cuts /\ cuts \in Nat
    BY <1>1, UntoldFinite, ClaimNumbers DEF ClaimsTold, ClaimsTyped, ClaimsElse
  <2> HIDE DEF unseen, unmailed
  <2>4. IsFiniteSet(unseen) /\ IsFiniteSet(unmailed) /\ Cardinality(unseen \cup unmailed) <= Cardinality(Untold)
    BY <2>1, <2>3, FS_Subset
  <2>5. Cardinality(unseen \cup unmailed) = Cardinality(unseen) + Cardinality(unmailed) - Cardinality({})
    BY <2>2, <2>4, FS_Union
  <2>6. Cardinality(unseen) \in Nat /\ Cardinality(unmailed) \in Nat /\ Cardinality({}) = 0
    BY <2>4, FS_CardinalityType, FS_EmptySet
  <2>7. Cardinality(unseen) + Cardinality(unmailed) <= cuts
    BY <2>3, <2>4, <2>5, <2>6
  <2>8. QED
    BY <2>7 DEF ClaimsAreTold, unseen, unmailed
<1>7. QED
  BY <1>2, <1>4, <1>5, <1>6 DEF ClaimsFit
-----------------------------------------------------------------------------

\* A photo is the last of what is kept, and the older go once there is no room:
\* then none of them is the portal's.
LEMMA MergedIs ==
  ASSUME NEW s \in PhotoList, KeptSo(s), NEW p \in Photos
  PROVE  /\ Merged(s, <<p>>) \in PhotoList /\ KeptSo(Merged(s, <<p>>)) /\ Among(p, Merged(s, <<p>>))
         /\ \A q \in Photos : Among(q, Merged(s, <<p>>)) => q = p \/ Among(q, s)
         /\ \A q \in Photos : Among(q, s) => Among(q, Merged(s, <<p>>)) \/ Full(Merged(s, <<p>>))
         /\ Full(s) => Full(Merged(s, <<p>>))
<1> DEFINE T == Photos \cup {Portal}
           all == s \o <<p>>
           n == Len(s)
           m == Merged(s, <<p>>)
<1>1. s \in Seq(T) /\ <<p>> \in Seq(T) /\ Len(<<p>>) = 1 /\ n \in Nat /\ n <= MaxFiles /\ MaxFiles \in Nat /\ MaxFiles > 0 /\ p # Portal
  BY ListsAre, ClaimNumbers DEF PhotoList, KeptSo
<1>2. all \in Seq(T) /\ Len(all) = n + 1 /\ \A k \in 1..(n + 1) : all[k] = IF k <= n THEN s[k] ELSE <<p>>[k - n]
  BY <1>1, ConcatProperties
<1>3. all[n + 1] = p /\ \A k \in 1..n : all[k] = s[k]
  BY <1>1, <1>2
<1>4. \A k \in 1..(n + 1) : all[k] \in T
  BY <1>2, ElementOfSeq
<1>5. m = SubSeq(all, IF Len(all) > MaxFiles THEN Len(all) - MaxFiles + 1 ELSE 1, Len(all))
  BY DEF Merged
<1>6. \A k, l \in 1..n : k < l /\ s[l] = Portal => s[k] = Portal
  BY DEF KeptSo
<1> HIDE DEF T, all, n, m
<1>7. CASE n < MaxFiles
  <2>1. m = SubSeq(all, 1, n + 1)
    BY <1>1, <1>2, <1>5, <1>7
  <2>2. m = all
    BY <1>2, <2>1, SubSeqFull
  <2>3. m \in PhotoList /\ Len(m) <= MaxFiles /\ Len(m) = n + 1
    BY <1>1, <1>2, <1>7, <2>2 DEF PhotoList, T
  <2>4. ASSUME NEW k \in 1..(n + 1), NEW l \in 1..(n + 1), k < l, m[l] = Portal PROVE m[k] = Portal
    BY <1>1, <1>3, <1>6, <2>2, <2>4
  <2>5. KeptSo(m)
    BY <2>3, <2>4 DEF KeptSo
  <2>6. Among(p, m)
    <3>1. n + 1 \in 1..Len(m) /\ m[n + 1] = p
      BY <1>1, <1>3, <2>2, <2>3
    <3>2. QED
      BY <3>1 DEF Among
  <2>7. \A q \in Photos : Among(q, m) => q = p \/ Among(q, s)
    <3>1. SUFFICES ASSUME NEW q \in Photos, NEW k \in 1..(n + 1), m[k] = q, q # p PROVE Among(q, s)
      BY <2>3 DEF Among
    <3>2. k \in 1..n
      BY <1>1, <1>3, <2>2, <3>1
    <3>3. QED
      BY <1>3, <2>2, <3>1, <3>2 DEF Among, n
  <2>8. \A q \in Photos : Among(q, s) => Among(q, m)
    <3>1. SUFFICES ASSUME NEW q \in Photos, NEW k \in 1..n, s[k] = q PROVE Among(q, m)
      BY DEF Among, n
    <3>2. k \in 1..Len(m) /\ m[k] = q
      BY <1>1, <1>3, <2>2, <2>3, <3>1
    <3>3. QED
      BY <3>2 DEF Among
  <2>9. ~Full(s)
    BY <1>1, <1>7 DEF Full, n
  <2>10. QED
    BY <2>3, <2>5, <2>6, <2>7, <2>8, <2>9 DEF m
<1>8. CASE n = MaxFiles
  <2>1. m = SubSeq(all, 2, n + 1) /\ 2 \in Int /\ n + 1 \in Int /\ 2 <= n + 1
    <3>1. n + 1 > MaxFiles /\ (n + 1) - MaxFiles + 1 = 2 /\ n + 1 \in Int /\ 2 <= n + 1
      BY <1>1, <1>8
    <3>2. (IF n + 1 > MaxFiles THEN (n + 1) - MaxFiles + 1 ELSE 1) = 2
      BY <3>1
    <3>3. m = SubSeq(all, IF n + 1 > MaxFiles THEN (n + 1) - MaxFiles + 1 ELSE 1, n + 1)
      BY <1>2, <1>5, Zenon
    <3>4. QED
      BY <3>1, <3>2, <3>3
  <2>2. \A k \in 2..(n + 1) : all[k] \in T
    BY <1>1, <1>4
  <2>3. m \in Seq(T) /\ Len(m) = (n + 1) - 2 + 1 /\ \A k \in 1..((n + 1) - 2 + 1) : m[k] = all[2 + k - 1]
    BY <2>1, <2>2, SubSeqProperties
  <2>4. m \in PhotoList /\ Len(m) = n /\ \A k \in 1..n : m[k] = all[k + 1]
    BY <1>1, <2>3 DEF PhotoList, T
  <2>5. m[n] = p /\ \A k \in 1..n : k # n => m[k] = s[k + 1] /\ k + 1 \in 1..n
    BY <1>1, <1>3, <1>8, <2>4
  <2>6. KeptSo(m)
    <3>1. ASSUME NEW k \in 1..n, NEW l \in 1..n, k < l, m[l] = Portal PROVE m[k] = Portal
      <4>1. l # n /\ k # n
        BY <1>1, <2>5, <3>1
      <4>2. m[l] = s[l + 1] /\ m[k] = s[k + 1] /\ k + 1 \in 1..n /\ l + 1 \in 1..n /\ k + 1 < l + 1
        BY <1>1, <2>5, <3>1, <4>1
      <4>3. QED
        BY <1>6, <3>1, <4>2
    <3>2. QED
      BY <1>1, <1>8, <2>4, <3>1 DEF KeptSo
  <2>7. Among(p, m)
    BY <1>1, <1>8, <2>4, <2>5 DEF Among
  <2>8. \A q \in Photos : Among(q, m) => q = p \/ Among(q, s)
    <3>1. SUFFICES ASSUME NEW q \in Photos, NEW k \in 1..n, m[k] = q, q # p PROVE Among(q, s)
      BY <2>4 DEF Among
    <3>2. k # n
      BY <2>5, <3>1
    <3>3. QED
      BY <2>5, <3>1, <3>2 DEF Among, n
  \* One that goes was the first, so none of the others is the portal's.
  <2>9. ASSUME NEW q \in Photos, Among(q, s), ~Among(q, m) PROVE Full(m)
    <3>1. PICK k \in 1..n : s[k] = q
      BY <2>9 DEF Among, n
    <3>2. k = 1
      <4>1. SUFFICES ASSUME k # 1 PROVE Among(q, m)
        BY <2>9
      <4>2. k - 1 \in 1..n /\ k - 1 # n /\ (k - 1) + 1 = k
        BY <1>1, <4>1
      <4>3. m[k - 1] = q
        BY <2>5, <3>1, <4>2
      <4>4. QED
        BY <2>4, <4>2, <4>3 DEF Among
    <3>3. \A l \in 1..n : s[l] # Portal
      <4>1. SUFFICES ASSUME NEW l \in 1..n, s[l] = Portal PROVE FALSE
        OBVIOUS
      <4>2. q # Portal
        BY ClaimNumbers
      <4>3. l # 1
        BY <3>1, <3>2, <4>1, <4>2
      <4>4. k < l
        BY <1>1, <3>2, <4>3
      <4>5. QED
        BY <1>6, <3>1, <4>1, <4>2, <4>4
    <3>4. ~Among(Portal, m)
      BY <1>1, <2>4, <2>5, <3>3 DEF Among
    <3>5. QED
      BY <1>8, <2>4, <3>4 DEF Full
  <2>10. ASSUME Full(s) PROVE Full(m)
    <3>1. \A l \in 1..n : s[l] # Portal
      BY <2>10 DEF Full, Among, n
    <3>2. ~Among(Portal, m)
      BY <1>1, <2>4, <2>5, <3>1 DEF Among
    <3>3. QED
      BY <1>8, <2>4, <3>2 DEF Full
  <2>11. QED
    BY <2>4, <2>6, <2>7, <2>8, <2>9, <2>10 DEF m
<1>9. QED
  BY <1>1, <1>7, <1>8
-----------------------------------------------------------------------------
\* What a step that leaves the photos of each claim keeps, whatever claims come.
LEMMA PhotosStand ==
  ASSUME ClaimsTyped, ClaimsTyped', PhotosInv, photo' = photo, together' = together,
         \A i \in 1..Len(claims) : /\ i \in 1..Len(claims') /\ (claims'[i]).photos = claims[i].photos
                                   /\ (claims'[i]).code = claims[i].code /\ (claims'[i]).filed = claims[i].filed,
         \A i \in 1..Len(claims') : i \notin 1..Len(claims) => KeptSo((claims'[i]).photos) /\ \A p \in Photos : ~Among(p, (claims'[i]).photos)
  PROVE  PhotosInv'
<1>1. PhotosHeld /\ PhotosSuit /\ PhotosRead /\ PhotosKept
  BY DEF PhotosInv
<1>2. PhotosHeld'
  <2>1. SUFFICES ASSUME NEW i \in 1..Len(claims')
                 PROVE  /\ KeptSo((claims'[i]).photos)
                        /\ \A p \in Photos : Among(p, (claims'[i]).photos) => photo[p].at = "joined" /\ photo[p].claim = i
    BY DEF PhotosHeld, KeptSo, Among
  <2>2. QED
    BY <1>1 DEF PhotosHeld
<1>3. PhotosSuit'
  BY <1>1 DEF PhotosSuit, Serves
<1>4. PhotosRead'
  BY <1>1 DEF PhotosRead, KeptSo, Among, Full
<1>5. PhotosKept'
  <2>1. SUFFICES ASSUME NEW p \in Photos, photo[p].at = "joined"
                 PROVE  Among(p, (claims'[photo[p].claim]).photos) \/ p \in together \/ Full((claims'[photo[p].claim]).photos)
    BY DEF PhotosKept, Among, Full
  <2>2. photo[p].claim \in 1..Len(claims)
    BY <1>1, <2>1 DEF PhotosSuit
  <2>3. (claims'[photo[p].claim]).photos = claims[photo[p].claim].photos
    BY <2>2
  <2>4. QED
    BY <1>1, <2>1, <2>3 DEF PhotosKept
<1>6. QED
  BY <1>2, <1>3, <1>4, <1>5 DEF PhotosInv

\* What a step that neither files nor reports keeps.
LEMMA FilingsStand ==
  ASSUME FilingsFit, ClaimsTold, filing' = filing, reported' = reported, cuts' = cuts, Len(claims') = Len(claims)
  PROVE  FilingsFit' /\ ClaimsTold'
<1>1. FilingsFit'
  BY DEF FilingsFit, InCourse
<1>2. Untold' = Untold
  BY DEF Untold
<1>3. QED
  BY <1>1, <1>2 DEF ClaimsTold

\* What is untold grows by one at most, for each thing that fails.
LEMMA UntoldGrows ==
  ASSUME ClaimsTyped, ClaimsTyped', ClaimsTold, cuts' \in Nat, NEW c,
         \/ cuts' = cuts /\ Untold' \subseteq Untold
         \/ cuts' = cuts + 1 /\ Untold' \subseteq Untold \cup {c}
  PROVE  ClaimsTold'
<1>1. IsFiniteSet(Untold) /\ Cardinality(Untold) \in Nat /\ Cardinality(Untold) <= cuts /\ cuts \in Nat
  BY UntoldFinite, ClaimNumbers DEF ClaimsTold, ClaimsTyped, ClaimsElse
<1>2. CASE cuts' = cuts /\ Untold' \subseteq Untold
  <2>1. Cardinality(Untold') <= Cardinality(Untold) /\ Cardinality(Untold') \in Nat
    BY <1>1, <1>2, FS_Subset, FS_CardinalityType
  <2>2. Cardinality(Untold') <= cuts'
    BY <1>1, <1>2, <2>1
  <2>3. QED
    BY <2>2 DEF ClaimsTold
<1>3. CASE cuts' = cuts + 1 /\ Untold' \subseteq Untold \cup {c}
  <2> DEFINE more == Untold \cup {c}
  <2>1. IsFiniteSet(more) /\ Cardinality(more) \in Nat /\ Cardinality(more) <= Cardinality(Untold) + 1
    <3>1. IsFiniteSet(more) /\ (Cardinality(more) = Cardinality(Untold) \/ Cardinality(more) = Cardinality(Untold) + 1)
      BY <1>1, FS_AddElement
    <3>2. QED
      BY <1>1, <3>1
  <2>2. Untold' \in SUBSET more
    BY <1>3
  <2> HIDE DEF more
  <2>3. Cardinality(Untold') <= Cardinality(more) /\ Cardinality(Untold') \in Nat
    BY <2>1, <2>2, FS_Subset, FS_CardinalityType
  <2>4. Cardinality(Untold') <= cuts'
    BY <1>1, <1>3, <2>1, <2>3
  <2>5. QED
    BY <2>4 DEF ClaimsTold
<1>4. QED
  BY <1>2, <1>3

LEMMA StoringKeeps ==
  ASSUME ClaimsInv, NEW f \in Filers, NEW pol \in Policies, NEW photos \in PhotoList,
         KeptSo(photos), \A p \in Photos : ~Among(p, photos), StoreClaim(f, pol, photos)
  PROVE  ClaimsInv'
<1> DEFINE newClaim == [policy |-> pol, code |-> book[pol].code, status |-> "open", filed |-> today, photos |-> photos]
           n == Len(claims)
           fresh == [at |-> "stored", claim |-> n + 1]
<1>1. ClaimsTyped /\ ClaimsElse /\ FilingsFit /\ ClaimsTold /\ PhotosInv
  BY DEF ClaimsInv, ClaimsTyped
<1>2. /\ claims' = Append(claims, newClaim) /\ filing[f].at \in {"idle", "failed", "answered"} /\ n < MaxClaims
      /\ book' = book /\ photo' = photo /\ thread' = thread /\ reported' = reported /\ together' = together
      /\ today' = today /\ moves' = moves /\ cuts' = cuts
      /\ filing' = [filing EXCEPT ![f] = [at |-> "stored", claim |-> Len(claims')]]
  BY DEF StoreClaim, MayFile
<1>3. newClaim \in ClaimType
  <2>1. book[pol].code \in OfficeLines /\ today \in 0..LastPhotoDay
    BY <1>1 DEF ClaimsElse
  <2>2. QED
    BY <2>1 DEF ClaimType, Status
<1>4. claims \in Seq(ClaimType) /\ n \in Nat /\ n <= MaxClaims /\ MaxClaims \in Nat /\ n + 1 \in 1..MaxClaims
  BY <1>1, <1>2, ClaimNumbers, LenProperties DEF ClaimsTyped
<1> HIDE DEF newClaim
<1>5. claims' \in Seq(ClaimType) /\ Len(claims') = n + 1 /\ claims'[n + 1] = newClaim /\ \A i \in 1..n : claims'[i] = claims[i]
  BY <1>2, <1>3, <1>4, AppendProperties
<1>6. filing' = [filing EXCEPT ![f] = fresh] /\ filing \in [Filers -> FilingType] /\ fresh \in FilingType /\ fresh.at = "stored" /\ fresh.claim = n + 1
  BY <1>1, <1>2, <1>4, <1>5 DEF FilingType, ClaimsTyped
<1> HIDE DEF fresh
<1>7. filing'[f] = fresh /\ filing' \in [Filers -> FilingType] /\ \A g \in Filers : g # f => filing'[g] = filing[g]
  BY <1>6
<1>8. ClaimsTyped'
  BY <1>1, <1>2, <1>4, <1>5, <1>7 DEF ClaimsTyped, ClaimsElse
<1>9. \A g \in Filers : InCourse(g) => g # f /\ filing[g].claim \in 1..n /\ filing[g].claim # n + 1
  BY <1>1, <1>2, <1>4 DEF FilingsFit, InCourse
<1>10. FilingsFit'
  <2>1. \A g \in Filers : InCourse(g)' => (filing'[g]).claim \in 1..(n + 1)
    BY <1>4, <1>6, <1>7, <1>9 DEF InCourse
  <2>2. ASSUME NEW g \in Filers, NEW h \in Filers, InCourse(g)', InCourse(h)', (filing'[g]).claim = (filing'[h]).claim PROVE g = h
    <3>1. CASE g = f
      BY <1>6, <1>7, <1>9, <2>2, <3>1 DEF InCourse
    <3>2. CASE h = f
      BY <1>6, <1>7, <1>9, <2>2, <3>2 DEF InCourse
    <3>3. CASE g # f /\ h # f
      BY <1>1, <1>7, <2>2, <3>3 DEF FilingsFit, InCourse
    <3>4. QED
      BY <3>1, <3>2, <3>3
  <2>3. QED
    BY <1>5, <2>1, <2>2 DEF FilingsFit
<1>11. ClaimsTold'
  <2>1. \A i \in 1..(n + 1) : i \in 1..n \/ i = n + 1
    BY <1>4
  <2>2. ASSUME NEW i \in Untold' PROVE i \in Untold
    <3>1. /\ i \in 1..(n + 1)
          /\ i \notin reported.mail \/ i \notin reported.matter
          /\ \A g \in Filers : (filing'[g]).claim = i => (filing'[g]).at # "stored"
          /\ \A g \in Filers : (filing'[g]).claim = i /\ (filing'[g]).at = "mailed" => i \notin reported.mail
      BY <1>2, <1>5, <2>2 DEF Untold
    <3>2. i # n + 1
      BY <1>6, <1>7, <3>1
    <3>3. i \in 1..n
      BY <2>1, <3>1, <3>2
    <3>4. \A g \in Filers : filing[g].at \in {"stored", "mailed"} => filing'[g] = filing[g]
      BY <1>2, <1>7
    <3>5. QED
      BY <3>1, <3>3, <3>4 DEF Untold
  <2>3. cuts' \in Nat /\ cuts' = cuts /\ Untold' \subseteq Untold
    BY <1>1, <1>2, <2>2, ClaimNumbers DEF ClaimsElse
  <2>4. QED
    BY <1>1, <1>8, <2>3, UntoldGrows
<1>12. PhotosInv'
  <2>1. \A i \in 1..n : /\ i \in 1..Len(claims') /\ (claims'[i]).photos = claims[i].photos
                        /\ (claims'[i]).code = claims[i].code /\ (claims'[i]).filed = claims[i].filed
    BY <1>4, <1>5
  <2>2. newClaim.photos = photos
    BY DEF newClaim
  <2>3. \A i \in 1..(n + 1) : i \notin 1..n => i = n + 1
    BY <1>4
  <2>4. \A i \in 1..Len(claims') : i \notin 1..n => KeptSo((claims'[i]).photos) /\ \A p \in Photos : ~Among(p, (claims'[i]).photos)
    BY <1>5, <2>2, <2>3
  <2>5. QED
    BY <1>1, <1>2, <1>8, <2>1, <2>4, PhotosStand
<1>13. QED
  BY <1>8, <1>10, <1>11, <1>12 DEF ClaimsInv

LEMMA NoPhotos == <<>> \in PhotoList /\ KeptSo(<<>>) /\ \A p \in Photos : ~Among(p, <<>>)
BY ClaimNumbers DEF PhotoList, KeptSo, Among

LEMMA FilingOnWebKeeps == ASSUME ClaimsInv, NEW f \in Filers, NEW pol \in Policies, FileOnWeb(f, pol) PROVE ClaimsInv'
<1>1. PICK n \in {0, MaxFiles} : StoreClaim(f, pol, [k \in 1..n |-> Portal])
  BY DEF FileOnWeb
<1> DEFINE photos == [k \in 1..n |-> Portal]
<1>2. n \in Nat /\ n <= MaxFiles /\ MaxFiles \in Nat
  BY ClaimNumbers
<1>3. photos \in [1..n -> Photos \cup {Portal}]
  OBVIOUS
<1>4. photos \in PhotoList /\ Len(photos) = n
  BY <1>2, <1>3, SeqDef DEF PhotoList
<1>5. KeptSo(photos) /\ \A p \in Photos : ~Among(p, photos)
  BY <1>2, <1>4, ClaimNumbers DEF KeptSo, Among
<1>6. QED
  BY <1>1, <1>4, <1>5, StoringKeeps

LEMMA FilingByBotKeeps == ASSUME ClaimsInv, NEW f \in Filers, NEW pol \in Policies, FileByBot(f, pol) PROVE ClaimsInv'
BY NoPhotos, StoringKeeps DEF FileByBot
-----------------------------------------------------------------------------
\* A request that reports its claim, or fails, leaves the other claims alone.
LEMMA ReportingKeeps ==
  ASSUME ClaimsInv, NEW f \in Filers, InCourse(f), NEW a \in {"mailed", "answered", "failed"},
         filing' = [filing EXCEPT ![f].at = a],
         book' = book, claims' = claims, photo' = photo, thread' = thread, together' = together, today' = today, moves' = moves,
         reported' \in ReportedType, cuts' \in 0..MaxCuts,
         \A i \in 1..MaxClaims : i # filing[f].claim =>
           (i \in reported'.mail <=> i \in reported.mail) /\ (i \in reported'.matter <=> i \in reported.matter),
         cuts' = cuts + 1 \/ (cuts' = cuts /\ (filing[f].claim \in Untold' => filing[f].claim \in Untold))
  PROVE  ClaimsInv'
<1> DEFINE c == filing[f].claim
           n == Len(claims)
           then == [filing[f] EXCEPT !.at = a]
<1>1. ClaimsTyped /\ ClaimsElse /\ FilingsFit /\ ClaimsTold /\ PhotosInv
  BY DEF ClaimsInv, ClaimsTyped
<1>2. filing[f] \in FilingType /\ filing \in [Filers -> FilingType] /\ filing' = [filing EXCEPT ![f] = then]
  BY <1>1 DEF ClaimsTyped
<1>3. then \in FilingType /\ then.at = a /\ then.claim = c
  BY <1>2 DEF FilingType
<1> HIDE DEF then
<1>4. filing'[f] = then /\ filing' \in [Filers -> FilingType] /\ \A g \in Filers : g # f => filing'[g] = filing[g]
  BY <1>2, <1>3
<1>5. \A g \in Filers : (filing'[g]).claim = filing[g].claim
  BY <1>3, <1>4
<1>6. \A g \in Filers : InCourse(g)' => InCourse(g)
  BY <1>4 DEF InCourse
<1>7. ClaimsTyped'
  BY <1>1, <1>4 DEF ClaimsTyped, ClaimsElse
<1>8. FilingsFit'
  BY <1>1, <1>5, <1>6 DEF FilingsFit
<1>9. n \in Nat /\ n <= MaxClaims /\ MaxClaims \in Nat
  BY <1>1, ClaimNumbers, LenProperties DEF ClaimsTyped
<1>10. ASSUME NEW i \in Untold', i # c PROVE i \in Untold
  <2>1. /\ i \in 1..n
        /\ i \notin reported'.mail \/ i \notin reported'.matter
        /\ \A g \in Filers : (filing'[g]).claim = i => (filing'[g]).at # "stored"
        /\ \A g \in Filers : (filing'[g]).claim = i /\ (filing'[g]).at = "mailed" => i \notin reported'.mail
    BY <1>10 DEF Untold
  <2>2. i \in 1..MaxClaims
    BY <1>9, <2>1
  <2>3. \A g \in Filers : filing[g].claim = i => filing'[g] = filing[g]
    BY <1>4, <1>10
  <2>4. (i \in reported'.mail <=> i \in reported.mail) /\ (i \in reported'.matter <=> i \in reported.matter)
    BY <1>10, <2>2
  <2>5. QED
    BY <2>1, <2>3, <2>4 DEF Untold
<1>11. ClaimsTold'
  <2>1. cuts' \in Nat
    BY ClaimNumbers
  <2>2. CASE cuts' = cuts + 1
    BY <1>1, <1>7, <1>10, <2>1, <2>2, UntoldGrows
  <2>3. CASE cuts' = cuts /\ (c \in Untold' => c \in Untold)
    <3>1. Untold' \subseteq Untold
      BY <1>10, <2>3
    <3>2. QED
      BY <1>1, <1>7, <2>1, <2>3, <3>1, UntoldGrows
  <2>4. QED
    BY <2>2, <2>3
<1>12. PhotosInv'
  <2>1. \A i \in 1..Len(claims) : /\ i \in 1..Len(claims') /\ (claims'[i]).photos = claims[i].photos
                        /\ (claims'[i]).code = claims[i].code /\ (claims'[i]).filed = claims[i].filed
    OBVIOUS
  <2>2. \A i \in 1..Len(claims') : i \notin 1..Len(claims) => KeptSo((claims'[i]).photos) /\ \A p \in Photos : ~Among(p, (claims'[i]).photos)
    OBVIOUS
  <2>3. QED
    BY <1>1, <1>7, <2>1, <2>2, PhotosStand
<1>13. QED
  BY <1>7, <1>8, <1>11, <1>12 DEF ClaimsInv

\* One more thing failed, within its bound.
LEMMA CutCounts == ASSUME ClaimsInv, cuts < MaxCuts, cuts' = cuts + 1 PROVE cuts' \in 0..MaxCuts
<1>1. cuts \in 0..MaxCuts /\ MaxCuts \in Nat
  BY ClaimNumbers DEF ClaimsInv, ClaimsTyped, ClaimsElse
<1>2. QED
  BY <1>1

LEMMA NotifyingKeeps == ASSUME ClaimsInv, NEW f \in Filers, NotifyAdvisor(f) PROVE ClaimsInv'
<1> DEFINE c == filing[f].claim
           told == [reported EXCEPT !.mail = @ \cup {c}]
<1>1. /\ InCourse(f) /\ filing[f].at = "stored" /\ filing' = [filing EXCEPT ![f].at = "mailed"]
      /\ book' = book /\ claims' = claims /\ photo' = photo /\ thread' = thread /\ together' = together /\ today' = today /\ moves' = moves
  BY DEF NotifyAdvisor, InCourse
<1>2. reported \in ReportedType /\ cuts \in 0..MaxCuts /\ filing \in [Filers -> FilingType] /\ c \in 1..Len(claims)
  BY <1>1 DEF ClaimsInv, ClaimsTyped, ClaimsElse, FilingsFit
<1>3. CASE reported' = told /\ cuts' = cuts
  <2>1. c \in 1..MaxClaims
    <3>1. Len(claims) \in Nat /\ Len(claims) <= MaxClaims /\ MaxClaims \in Nat
      BY ClaimNumbers, LenProperties DEF ClaimsInv, ClaimsTyped
    <3>2. QED
      BY <1>2, <3>1
  <2>2. told \in ReportedType /\ told.mail = reported.mail \cup {c} /\ told.matter = reported.matter
    BY <1>2, <2>1 DEF ReportedType
  <2>3. c \notin Untold'
    <3>1. filing'[f].claim = c /\ filing'[f].at = "mailed"
      BY <1>1, <1>2 DEF FilingType
    <3>2. c \in reported'.mail
      BY <1>3, <2>2
    <3>3. QED
      BY <3>1, <3>2 DEF Untold
  <2> HIDE DEF told
  <2>4. QED
    BY <1>1, <1>2, <1>3, <2>2, <2>3, ReportingKeeps
<1>4. CASE cuts < MaxCuts /\ cuts' = cuts + 1 /\ reported' = reported
  BY <1>1, <1>2, <1>4, CutCounts, ReportingKeeps
<1>5. QED
  BY <1>3, <1>4 DEF NotifyAdvisor

LEMMA RecordingKeeps == ASSUME ClaimsInv, NEW f \in Filers, RecordMatter(f) PROVE ClaimsInv'
<1> DEFINE c == filing[f].claim
           told == [reported EXCEPT !.matter = @ \cup {c}]
<1>1. /\ InCourse(f) /\ filing[f].at = "mailed" /\ filing' = [filing EXCEPT ![f].at = "answered"]
      /\ book' = book /\ claims' = claims /\ photo' = photo /\ thread' = thread /\ together' = together /\ today' = today /\ moves' = moves
  BY DEF RecordMatter, InCourse
<1>2. reported \in ReportedType /\ cuts \in 0..MaxCuts /\ filing \in [Filers -> FilingType] /\ c \in 1..Len(claims)
  BY <1>1 DEF ClaimsInv, ClaimsTyped, ClaimsElse, FilingsFit
<1>3. CASE reported' = told /\ cuts' = cuts
  <2>1. c \in 1..MaxClaims
    <3>1. Len(claims) \in Nat /\ Len(claims) <= MaxClaims /\ MaxClaims \in Nat
      BY ClaimNumbers, LenProperties DEF ClaimsInv, ClaimsTyped
    <3>2. QED
      BY <1>2, <3>1
  <2>2. told \in ReportedType /\ told.matter = reported.matter \cup {c} /\ told.mail = reported.mail
    BY <1>2, <2>1 DEF ReportedType
  \* It is missing then if its e-mail is, and it was so before.
  <2>3. ASSUME c \in Untold' PROVE c \in Untold
    <3>1. c \notin reported.mail
      BY <1>3, <2>2, <2>3 DEF Untold
    <3>2. \A g \in Filers : (filing'[g]).claim = c => (filing'[g]).at # "stored"
      BY <2>3 DEF Untold
    <3>3. \A g \in Filers : g # f => filing'[g] = filing[g]
      BY <1>1, <1>2
    <3>4. \A g \in Filers : filing[g].claim = c => filing[g].at # "stored"
      BY <1>1, <3>2, <3>3
    <3>5. QED
      BY <1>2, <3>1, <3>4 DEF Untold
  <2> HIDE DEF told
  <2>4. QED
    BY <1>1, <1>2, <1>3, <2>2, <2>3, ReportingKeeps
<1>4. CASE cuts < MaxCuts /\ cuts' = cuts + 1 /\ reported' = reported
  BY <1>1, <1>2, <1>4, CutCounts, ReportingKeeps
<1>5. QED
  BY <1>3, <1>4 DEF RecordMatter

LEMMA FilingBreaksKeeps == ASSUME ClaimsInv, NEW f \in Filers, FilingBreaks(f) PROVE ClaimsInv'
<1>1. /\ InCourse(f) /\ filing' = [filing EXCEPT ![f].at = "failed"] /\ cuts < MaxCuts /\ cuts' = cuts + 1 /\ reported' = reported
      /\ book' = book /\ claims' = claims /\ photo' = photo /\ thread' = thread /\ together' = together /\ today' = today /\ moves' = moves
  BY DEF FilingBreaks, InCourse
<1>2. reported \in ReportedType
  BY DEF ClaimsInv, ClaimsTyped
<1>3. QED
  BY <1>1, <1>2, CutCounts, ReportingKeeps
-----------------------------------------------------------------------------

LEMMA MovesCount == ASSUME ClaimsInv, Moves PROVE moves' \in 0..MaxThreadMoves
<1>1. moves \in 0..MaxThreadMoves /\ MaxThreadMoves \in Nat /\ moves < MaxThreadMoves /\ moves' = moves + 1
  BY ClaimNumbers DEF ClaimsInv, ClaimsTyped, ClaimsElse, Moves
<1>2. QED
  BY <1>1

\* A step of the chat, the office or the calendar.
LEMMA OthersKeep ==
  ASSUME ClaimsInv, ClaimsElse', claims' \in Seq(ClaimType), Len(claims') = Len(claims),
         \A i \in 1..Len(claims) : (claims'[i]).photos = claims[i].photos /\ (claims'[i]).code = claims[i].code /\ (claims'[i]).filed = claims[i].filed,
         filing' = filing, photo' = photo, reported' = reported, together' = together, cuts' = cuts
  PROVE  ClaimsInv'
<1>1. ClaimsTyped /\ FilingsFit /\ ClaimsTold /\ PhotosInv
  BY DEF ClaimsInv
<1>2. ClaimsTyped'
  BY <1>1 DEF ClaimsTyped
<1>3. FilingsFit' /\ ClaimsTold'
  BY <1>1, FilingsStand
<1>4. PhotosInv'
  <2>1. \A i \in 1..Len(claims) : /\ i \in 1..Len(claims') /\ (claims'[i]).photos = claims[i].photos
                        /\ (claims'[i]).code = claims[i].code /\ (claims'[i]).filed = claims[i].filed
    OBVIOUS
  <2>2. \A i \in 1..Len(claims') : i \notin 1..Len(claims) => KeptSo((claims'[i]).photos) /\ \A p \in Photos : ~Among(p, (claims'[i]).photos)
    OBVIOUS
  <2>3. QED
    BY <1>1, <1>2, <2>1, <2>2, PhotosStand
<1>5. QED
  BY <1>2, <1>3, <1>4 DEF ClaimsInv

LEMMA ChatGoesOnKeeps == ASSUME ClaimsInv, ChatGoesOn PROVE ClaimsInv'
<1>1. /\ Moves /\ book' = book /\ claims' = claims /\ filing' = filing /\ photo' = photo /\ reported' = reported /\ together' = together
      /\ today' = today /\ cuts' = cuts
  BY DEF ChatGoesOn
<1>2. ClaimsElse /\ claims \in Seq(ClaimType)
  BY DEF ClaimsInv, ClaimsTyped
<1>3. thread' \in [line : AllLines, link : {"none", "active", "old"}]
  <2>1. thread \in [line : AllLines, link : {"none", "active", "old"}]
    BY <1>2 DEF ClaimsElse
  <2>2. CASE thread' = [thread EXCEPT !.link = "active"]
    BY <2>1, <2>2
  <2>3. CASE thread' = [thread EXCEPT !.link = "old"]
    BY <2>1, <2>3
  <2>4. CASE \E n \in AllLines \ {thread.line} : thread' = [thread EXCEPT !.line = n]
    BY <2>1, <2>4
  <2>5. QED
    BY <2>2, <2>3, <2>4 DEF ChatGoesOn
<1>4. ClaimsElse'
  BY <1>1, <1>2, <1>3, MovesCount DEF ClaimsElse
<1>5. QED
  BY <1>1, <1>2, <1>4, OthersKeep

LEMMA UpdatingClaimKeeps == ASSUME ClaimsInv, NEW i \in DOMAIN claims, NEW s \in Status, UpdateClaim(i, s) PROVE ClaimsInv'
<1> DEFINE n == Len(claims)
           moved == [claims[i] EXCEPT !.status = s]
<1>1. /\ Moves /\ book' = book /\ thread' = thread /\ filing' = filing /\ photo' = photo /\ reported' = reported /\ together' = together
      /\ today' = today /\ cuts' = cuts /\ claims' = [claims EXCEPT ![i] = moved]
  BY DEF UpdateClaim
<1>2. ClaimsElse /\ claims \in Seq(ClaimType) /\ DOMAIN claims = 1..n /\ n \in Nat
  BY LenProperties DEF ClaimsInv, ClaimsTyped
<1>3. claims[i] \in ClaimType
  BY <1>2, ElementOfSeq
<1>4. moved \in ClaimType /\ moved.photos = claims[i].photos /\ moved.code = claims[i].code /\ moved.filed = claims[i].filed
  BY <1>3 DEF ClaimType
<1> HIDE DEF moved
<1>5. claims' \in Seq(ClaimType) /\ Len(claims') = n /\ \A j \in 1..n : claims'[j] = IF j = i THEN moved ELSE claims[j]
  BY <1>1, <1>2, <1>4, ExceptSeq
<1>6. ClaimsElse'
  BY <1>1, <1>2, MovesCount DEF ClaimsElse
<1>7. \A j \in 1..n : (claims'[j]).photos = claims[j].photos /\ (claims'[j]).code = claims[j].code /\ (claims'[j]).filed = claims[j].filed
  BY <1>4, <1>5
<1>8. QED
  BY <1>1, <1>5, <1>6, <1>7, OthersKeep

LEMMA DayPassingKeeps == ASSUME ClaimsInv, DayPasses PROVE ClaimsInv'
<1>1. /\ book' = book /\ claims' = claims /\ filing' = filing /\ photo' = photo /\ thread' = thread /\ reported' = reported /\ together' = together
      /\ moves' = moves /\ cuts' = cuts /\ today < LastPhotoDay /\ today' = today + 1
  BY DEF DayPasses
<1>2. ClaimsElse /\ claims \in Seq(ClaimType)
  BY DEF ClaimsInv, ClaimsTyped
<1>3. today' \in 0..LastPhotoDay
  <2>1. today \in 0..LastPhotoDay /\ LastPhotoDay \in Nat
    BY <1>2, ClaimNumbers DEF ClaimsElse
  <2>2. QED
    BY <1>1, <2>1
<1>4. ClaimsElse'
  BY <1>1, <1>2, <1>3 DEF ClaimsElse
<1>5. QED
  BY <1>1, <1>2, <1>4, OthersKeep

LEMMA ClaimsAtRest == ASSUME ClaimsInv, UNCHANGED claimVars PROVE ClaimsInv'
<1>1. /\ book' = book /\ claims' = claims /\ filing' = filing /\ photo' = photo /\ thread' = thread /\ reported' = reported /\ together' = together
      /\ moves' = moves /\ cuts' = cuts /\ today' = today
  BY DEF claimVars
<1>2. ClaimsElse /\ claims \in Seq(ClaimType)
  BY DEF ClaimsInv, ClaimsTyped
<1>3. ClaimsElse'
  BY <1>1, <1>2 DEF ClaimsElse
<1>4. QED
  BY <1>1, <1>2, <1>3, OthersKeep
-----------------------------------------------------------------------------
\* A photo that reaches no claim changes nothing for the others.
LEMMA PhotoAsideKeeps ==
  ASSUME PhotosInv, NEW p \in Photos, photo[p].at \in {"unsent", "asked"}, (photo'[p]).at \in {"asked", "inbox"},
         (photo'[p]).at = "asked" => (photo'[p]).kind # "held", \A q \in Photos : q # p => photo'[q] = photo[q],
         claims' = claims, together' = together
  PROVE  PhotosInv'
<1>1. PhotosHeld /\ PhotosSuit /\ PhotosRead /\ PhotosKept
  BY DEF PhotosInv
<1>2. \A q \in Photos : (photo'[q]).at \in {"found", "joined"} => q # p
  OBVIOUS
<1>3. PhotosHeld'
  <2>1. \A q \in Photos : photo[q].at = "joined" => q # p
    OBVIOUS
  <2>2. QED
    BY <1>1, <2>1 DEF PhotosHeld, KeptSo, Among
<1>4. PhotosSuit'
  BY <1>1 DEF PhotosSuit, Serves
<1>5. PhotosRead'
  <2>1. SUFFICES ASSUME NEW q \in Photos, photo[q].at = "found", photo'[q] = photo[q]
                 PROVE  /\ KeptSo(photo[q].read)
                        /\ \A r \in Photos : Among(r, photo[q].read) => (photo'[r]).at = "joined" /\ (photo'[r]).claim = photo[q].claim
                        /\ \A r \in Photos : (photo'[r]).at = "found" /\ r # q /\ (photo'[r]).claim = photo[q].claim => q \in together /\ r \in together
                        /\ \A r \in Photos : (photo'[r]).at = "joined" /\ (photo'[r]).claim = photo[q].claim =>
                             r \in together \/ Among(r, photo[q].read) \/ Full(photo[q].read)
    <3>1. \A q \in Photos : (photo'[q]).at = "found" => photo[q].at = "found" /\ photo'[q] = photo[q]
      BY <1>2
    <3>2. QED
      BY <2>1, <3>1 DEF PhotosRead, KeptSo, Among, Full
  <2>2. \A r \in Photos : photo[r].at \in {"found", "joined"} => photo'[r] = photo[r]
    BY <1>2
  <2>3. \A r \in Photos : (photo'[r]).at \in {"found", "joined"} => photo'[r] = photo[r]
    BY <1>2
  <2>4. /\ KeptSo(photo[q].read)
        /\ \A r \in Photos : Among(r, photo[q].read) => photo[r].at = "joined" /\ photo[r].claim = photo[q].claim
        /\ \A r \in Photos : photo[r].at = "found" /\ r # q /\ photo[r].claim = photo[q].claim => q \in together /\ r \in together
        /\ \A r \in Photos : photo[r].at = "joined" /\ photo[r].claim = photo[q].claim =>
             r \in together \/ Among(r, photo[q].read) \/ Full(photo[q].read)
    BY <1>1, <2>1 DEF PhotosRead
  <2>5. QED
    BY <2>2, <2>3, <2>4
<1>6. PhotosKept'
  BY <1>1, <1>2 DEF PhotosKept, Among, Full
<1>7. QED
  BY <1>3, <1>4, <1>5, <1>6 DEF PhotosInv

\* A step of the photos, and of what they join.
LEMMA PhotoStepsKeep ==
  ASSUME ClaimsInv, PhotosInv', claims' \in Seq(ClaimType), Len(claims') = Len(claims), photo' \in [Photos -> PhotoType],
         together' \subseteq Photos,
         book' = book, filing' = filing, thread' = thread, reported' = reported, today' = today, moves' = moves, cuts' = cuts
  PROVE  ClaimsInv'
<1>1. ClaimsTyped /\ ClaimsElse /\ FilingsFit /\ ClaimsTold
  BY DEF ClaimsInv, ClaimsTyped
<1>2. ClaimsTyped'
  BY <1>1 DEF ClaimsTyped, ClaimsElse
<1>3. FilingsFit' /\ ClaimsTold'
  BY <1>1, FilingsStand
<1>4. QED
  BY <1>2, <1>3 DEF ClaimsInv

LEMMA PhotoRows ==
  /\ UnsentPhoto \in PhotoType /\ InInbox \in PhotoType /\ InInbox.at = "inbox"
<1>1. <<>> \in PhotoList
  BY NoPhotos
<1>2. UnsentPhoto \in PhotoType
  BY <1>1, ClaimNumbers DEF UnsentPhoto, PhotoType, Kinds
<1>3. QED
  BY <1>2 DEF InInbox, PhotoType, UnsentPhoto

LEMMA SendingPhotoKeeps == ASSUME ClaimsInv, NEW p \in Photos, NEW k \in Kinds, SendPhoto(p, k) PROVE ClaimsInv'
<1> DEFINE asked == [photo[p] EXCEPT !.at = "asked", !.kind = k, !.line = thread.line]
<1>1. /\ photo[p].at = "unsent" /\ book' = book /\ claims' = claims /\ filing' = filing /\ thread' = thread /\ reported' = reported
      /\ together' = together /\ today' = today /\ moves' = moves /\ cuts' = cuts
      /\ photo' = [photo EXCEPT ![p] = InInbox] \/ (k # "held" /\ photo' = [photo EXCEPT ![p] = asked])
  BY DEF SendPhoto
<1>2. /\ photo \in [Photos -> PhotoType] /\ claims \in Seq(ClaimType) /\ together \subseteq Photos /\ PhotosInv /\ thread.line \in AllLines
  BY DEF ClaimsInv, ClaimsTyped, ClaimsElse
<1>3. asked \in PhotoType /\ asked.at = "asked" /\ asked.kind = k
  <2>1. photo[p] \in PhotoType
    BY <1>2
  <2>2. QED
    BY <1>2, <2>1 DEF PhotoType
<1> HIDE DEF asked
<1>4. /\ photo' \in [Photos -> PhotoType] /\ \A q \in Photos : q # p => photo'[q] = photo[q]
      /\ (photo'[p]).at \in {"asked", "inbox"} /\ ((photo'[p]).at = "asked" => (photo'[p]).kind # "held")
  <2>1. CASE photo' = [photo EXCEPT ![p] = InInbox]
    BY <1>2, <2>1, PhotoRows
  <2>2. CASE k # "held" /\ photo' = [photo EXCEPT ![p] = asked]
    BY <1>2, <1>3, <2>2
  <2>3. QED
    BY <1>1, <2>1, <2>2
<1>5. PhotosInv'
  BY <1>1, <1>2, <1>4, PhotoAsideKeeps
<1>6. QED
  BY <1>1, <1>2, <1>4, <1>5, PhotoStepsKeep

\* A photo that finds its claim reads what joined it; those found at that time
\* know of each other.
LEMMA FoundKeeps ==
  ASSUME ClaimsInv, NEW p \in Photos, photo[p].at = "asked", NEW i \in Candidates(p), claims' = claims,
         photo' \in [Photos -> PhotoType], \A q \in Photos : q # p => photo'[q] = photo[q],
         (photo'[p]).at = "found", (photo'[p]).claim = i, (photo'[p]).read = claims[i].photos, (photo'[p]).day = today,
         (photo'[p]).kind = photo[p].kind, (photo'[p]).line = photo[p].line,
         together \subseteq together',
         \A q \in Photos : photo[q].at = "found" /\ photo[q].claim = i => q \in together' /\ p \in together'
  PROVE  PhotosInv'
<1>1. PhotosHeld /\ PhotosSuit /\ PhotosRead /\ PhotosKept
  BY DEF ClaimsInv, PhotosInv
<1>2. i \in 1..Len(claims)
  <2>1. DOMAIN claims = 1..Len(claims)
    BY LenProperties DEF ClaimsInv, ClaimsTyped
  <2>2. QED
    BY <2>1 DEF Candidates
<1>3. /\ \A q \in Photos : photo[q].at \in {"found", "joined"} => photo'[q] = photo[q] /\ q # p
      /\ \A q \in Photos : (photo'[q]).at = "joined" => photo'[q] = photo[q] /\ q # p
  OBVIOUS
<1>4. PhotosHeld'
  BY <1>1, <1>3 DEF PhotosHeld, KeptSo, Among
<1>5. PhotosSuit'
  <2>1. /\ photo[p].kind # "held" /\ Serves(photo[p].line, claims[i].code)
        /\ photo[p].kind = "labelled" \/ claims[i].filed + PhotoWindow >= today
    BY <1>1 DEF Candidates, PhotosSuit
  <2>2. ASSUME NEW q \in Photos
        PROVE /\ (photo'[q]).at \in {"asked", "found", "joined"} => (photo'[q]).kind # "held"
              /\ (photo'[q]).at \in {"found", "joined"} =>
                   /\ (photo'[q]).claim \in 1..Len(claims)
                   /\ Serves((photo'[q]).line, claims[(photo'[q]).claim].code)
                   /\ (photo'[q]).kind = "labelled" \/ claims[(photo'[q]).claim].filed + PhotoWindow >= (photo'[q]).day
    <3>1. CASE q = p
      BY <1>2, <2>1, <3>1
    <3>2. CASE q # p
      BY <1>1, <3>2 DEF PhotosSuit
    <3>3. QED
      BY <3>1, <3>2
  <2>3. QED
    BY <2>2 DEF PhotosSuit, Serves
<1>6. PhotosRead'
  <2>1. SUFFICES ASSUME NEW q \in Photos, (photo'[q]).at = "found"
                 PROVE  /\ KeptSo((photo'[q]).read)
                        /\ \A r \in Photos : Among(r, (photo'[q]).read) => (photo'[r]).at = "joined" /\ (photo'[r]).claim = (photo'[q]).claim
                        /\ \A r \in Photos : (photo'[r]).at = "found" /\ r # q /\ (photo'[r]).claim = (photo'[q]).claim => q \in together' /\ r \in together'
                        /\ \A r \in Photos : (photo'[r]).at = "joined" /\ (photo'[r]).claim = (photo'[q]).claim =>
                             r \in together' \/ Among(r, (photo'[q]).read) \/ Full((photo'[q]).read)
    BY DEF PhotosRead, KeptSo, Among, Full
  <2>2. CASE q = p
    <3>1. KeptSo(claims[i].photos) /\ \A r \in Photos : Among(r, claims[i].photos) => photo[r].at = "joined" /\ photo[r].claim = i
      BY <1>1, <1>2 DEF PhotosHeld
    <3>2. \A r \in Photos : photo[r].at = "joined" /\ photo[r].claim = i =>
             r \in together \/ Among(r, claims[i].photos) \/ Full(claims[i].photos)
      BY <1>1 DEF PhotosKept
    <3>3. \A r \in Photos : Among(r, claims[i].photos) => (photo'[r]).at = "joined" /\ (photo'[r]).claim = i
      BY <1>3, <3>1
    <3>4. \A r \in Photos : (photo'[r]).at = "found" /\ r # p /\ (photo'[r]).claim = i => p \in together' /\ r \in together'
      OBVIOUS
    <3>5. \A r \in Photos : (photo'[r]).at = "joined" /\ (photo'[r]).claim = i =>
             r \in together' \/ Among(r, claims[i].photos) \/ Full(claims[i].photos)
      BY <1>3, <3>2
    <3>6. QED
      BY <2>2, <3>1, <3>3, <3>4, <3>5
  <2>3. CASE q # p
    <3>1. photo'[q] = photo[q] /\ photo[q].at = "found"
      BY <2>1, <2>3
    <3>2. /\ KeptSo(photo[q].read)
          /\ \A r \in Photos : Among(r, photo[q].read) => photo[r].at = "joined" /\ photo[r].claim = photo[q].claim
          /\ \A r \in Photos : photo[r].at = "found" /\ r # q /\ photo[r].claim = photo[q].claim => q \in together /\ r \in together
          /\ \A r \in Photos : photo[r].at = "joined" /\ photo[r].claim = photo[q].claim =>
               r \in together \/ Among(r, photo[q].read) \/ Full(photo[q].read)
      BY <1>1, <3>1 DEF PhotosRead
    <3>3. \A r \in Photos : Among(r, photo[q].read) => (photo'[r]).at = "joined" /\ (photo'[r]).claim = photo[q].claim
      BY <1>3, <3>2
    <3>4. ASSUME NEW r \in Photos, (photo'[r]).at = "found", r # q, (photo'[r]).claim = photo[q].claim PROVE q \in together' /\ r \in together'
      <4>1. CASE r = p
        <5>1. photo[q].claim = i
          BY <3>4, <4>1
        <5>2. QED
          BY <3>1, <4>1, <5>1
      <4>2. CASE r # p
        <5>1. photo'[r] = photo[r]
          BY <4>2
        <5>2. QED
          BY <3>2, <3>4, <5>1
      <4>3. QED
        BY <4>1, <4>2
    <3>5. \A r \in Photos : (photo'[r]).at = "joined" /\ (photo'[r]).claim = photo[q].claim =>
            r \in together' \/ Among(r, photo[q].read) \/ Full(photo[q].read)
      BY <1>3, <3>2
    <3>6. QED
      BY <3>1, <3>2, <3>3, <3>4, <3>5
  <2>4. QED
    BY <2>2, <2>3
<1>7. PhotosKept'
  BY <1>1, <1>3 DEF PhotosKept, Among, Full
<1>8. QED
  BY <1>4, <1>5, <1>6, <1>7 DEF PhotosInv

LEMMA FindingClaimKeeps == ASSUME ClaimsInv, NEW p \in Photos, FindClaim(p) PROVE ClaimsInv'
<1>1. /\ photo[p].at = "asked" /\ book' = book /\ claims' = claims /\ filing' = filing /\ thread' = thread /\ reported' = reported
      /\ today' = today /\ moves' = moves /\ cuts' = cuts
  BY DEF FindClaim
<1>2. /\ photo \in [Photos -> PhotoType] /\ claims \in Seq(ClaimType) /\ together \subseteq Photos /\ PhotosInv /\ today \in 0..LastPhotoDay
  BY DEF ClaimsInv, ClaimsTyped, ClaimsElse
<1>3. CASE Candidates(p) = {}
  <2>1. photo' = [photo EXCEPT ![p] = InInbox] /\ together' = together
    BY <1>3 DEF FindClaim
  <2>2. /\ photo' \in [Photos -> PhotoType] /\ (photo'[p]).at = "inbox" /\ \A q \in Photos : q # p => photo'[q] = photo[q]
    BY <1>2, <2>1, PhotoRows
  <2>3. PhotosInv'
    BY <1>1, <1>2, <2>1, <2>2, PhotoAsideKeeps
  <2>4. QED
    BY <1>1, <1>2, <2>1, <2>2, <2>3, PhotoStepsKeep
<1>4. CASE Candidates(p) # {}
  <2>1. PICK i \in Candidates(p) :
          /\ photo' = [photo EXCEPT ![p].at = "found", ![p].claim = i, ![p].read = claims[i].photos, ![p].day = today]
          /\ LET others == {q \in Photos : photo[q].at = "found" /\ photo[q].claim = i}
             IN together' = IF others = {} THEN together ELSE together \cup others \cup {p}
    BY <1>4 DEF FindClaim
  <2> DEFINE found == [photo[p] EXCEPT !.at = "found", !.claim = i, !.read = claims[i].photos, !.day = today]
             others == {q \in Photos : photo[q].at = "found" /\ photo[q].claim = i}
  <2>2. i \in 0..MaxClaims /\ claims[i].photos \in PhotoList
    <3>1. DOMAIN claims = 1..Len(claims) /\ Len(claims) \in Nat /\ Len(claims) <= MaxClaims /\ MaxClaims \in Nat
      BY ClaimNumbers, LenProperties DEF ClaimsInv, ClaimsTyped
    <3>2. i \in 1..Len(claims)
      BY <3>1 DEF Candidates
    <3>3. claims[i] \in ClaimType
      BY <1>2, <3>2, ElementOfSeq
    <3>4. QED
      BY <3>1, <3>2, <3>3 DEF ClaimType
  <2>3. photo[p] \in PhotoType
    BY <1>2
  <2>4. /\ found \in PhotoType /\ found.at = "found" /\ found.claim = i /\ found.read = claims[i].photos /\ found.day = today
        /\ found.kind = photo[p].kind /\ found.line = photo[p].line
    BY <1>2, <2>2, <2>3 DEF PhotoType
  <2>5. photo' = [photo EXCEPT ![p] = found]
    BY <2>1
  <2> HIDE DEF found
  <2>6. photo' \in [Photos -> PhotoType] /\ photo'[p] = found /\ \A q \in Photos : q # p => photo'[q] = photo[q]
    BY <1>2, <2>4, <2>5
  <2>7. together' = IF others = {} THEN together ELSE together \cup others \cup {p}
    BY <2>1
  <2>8. /\ together \subseteq together' /\ together' \subseteq Photos
        /\ \A q \in Photos : photo[q].at = "found" /\ photo[q].claim = i => q \in together' /\ p \in together'
    <3>1. CASE others = {}
      BY <1>2, <2>7, <3>1
    <3>2. CASE others # {}
      BY <1>2, <2>7, <3>2
    <3>3. QED
      BY <3>1, <3>2
  <2>9. /\ (photo'[p]).at = "found" /\ (photo'[p]).claim = i /\ (photo'[p]).read = claims[i].photos /\ (photo'[p]).day = today
        /\ (photo'[p]).kind = photo[p].kind /\ (photo'[p]).line = photo[p].line
    BY <2>4, <2>6
  <2>10. PhotosInv'
    BY <1>1, <2>6, <2>8, <2>9, FoundKeeps
  <2>11. QED
    BY <1>1, <1>2, <2>6, <2>8, <2>10, PhotoStepsKeep
<1>5. QED
  BY <1>3, <1>4

\* A photo that joins its claim writes back what it read, merged with itself: what
\* joined since was on its way at the same time.
LEMMA JoinedKeeps ==
  ASSUME ClaimsInv, NEW p \in Photos, photo[p].at = "found", together' = together, Len(claims') = Len(claims),
         photo' \in [Photos -> PhotoType], \A q \in Photos : q # p => photo'[q] = photo[q],
         (photo'[p]).at = "joined", (photo'[p]).claim = photo[p].claim, (photo'[p]).day = photo[p].day,
         (photo'[p]).kind = photo[p].kind, (photo'[p]).line = photo[p].line,
         \A i \in 1..Len(claims) : (claims'[i]).code = claims[i].code /\ (claims'[i]).filed = claims[i].filed,
         \A i \in 1..Len(claims) : i # photo[p].claim => (claims'[i]).photos = claims[i].photos,
         (claims'[photo[p].claim]).photos = Merged(photo[p].read, <<p>>)
  PROVE  PhotosInv'
<1> DEFINE c == photo[p].claim
           m == Merged(photo[p].read, <<p>>)
           before == photo[p].read
<1>1. PhotosHeld /\ PhotosSuit /\ PhotosRead /\ PhotosKept
  BY DEF ClaimsInv, PhotosInv
<1>2. /\ KeptSo(before) /\ before \in PhotoList
      /\ \A q \in Photos : Among(q, before) => photo[q].at = "joined" /\ photo[q].claim = c
      /\ \A q \in Photos : photo[q].at = "found" /\ q # p /\ photo[q].claim = c => p \in together /\ q \in together
      /\ \A q \in Photos : photo[q].at = "joined" /\ photo[q].claim = c => q \in together \/ Among(q, before) \/ Full(before)
  <2>1. photo[p] \in PhotoType
    BY DEF ClaimsInv, ClaimsTyped
  <2>2. before \in PhotoList
    BY <2>1 DEF PhotoType
  <2>3. QED
    BY <1>1, <2>2 DEF PhotosRead
<1>3. c \in 1..Len(claims)
  BY <1>1 DEF PhotosSuit
<1>4. /\ KeptSo(m) /\ Among(p, m)
      /\ \A q \in Photos : Among(q, m) => q = p \/ Among(q, before)
      /\ \A q \in Photos : Among(q, before) => Among(q, m) \/ Full(m)
      /\ Full(before) => Full(m)
  BY <1>2, MergedIs
<1>5. (claims'[c]).photos = m
  OBVIOUS
<1> HIDE DEF m, before, c
<1>6. /\ \A q \in Photos : photo[q].at = "joined" => q # p /\ photo'[q] = photo[q]
      /\ \A q \in Photos : (photo'[q]).at = "found" => q # p /\ photo'[q] = photo[q]
  OBVIOUS
<1>7. PhotosHeld'
  <2>1. SUFFICES ASSUME NEW i \in 1..Len(claims)
                 PROVE  /\ KeptSo((claims'[i]).photos)
                        /\ \A q \in Photos : Among(q, (claims'[i]).photos) => (photo'[q]).at = "joined" /\ (photo'[q]).claim = i
    BY DEF PhotosHeld, KeptSo, Among
  <2>2. CASE i = c
    <3>1. \A q \in Photos : Among(q, m) => (photo'[q]).at = "joined" /\ (photo'[q]).claim = c
      BY <1>2, <1>4, <1>6 DEF c
    <3>2. QED
      BY <1>4, <1>5, <2>2, <3>1
  <2>3. CASE i # c
    <3>1. (claims'[i]).photos = claims[i].photos
      BY <2>3 DEF c
    <3>2. KeptSo(claims[i].photos) /\ \A q \in Photos : Among(q, claims[i].photos) => photo[q].at = "joined" /\ photo[q].claim = i
      BY <1>1 DEF PhotosHeld
    <3>3. QED
      BY <1>6, <3>1, <3>2
  <2>4. QED
    BY <2>2, <2>3
<1>8. PhotosSuit'
  <2>1. ASSUME NEW q \in Photos
        PROVE /\ (photo'[q]).at \in {"asked", "found", "joined"} => (photo'[q]).kind # "held"
              /\ (photo'[q]).at \in {"found", "joined"} =>
                   /\ (photo'[q]).claim \in 1..Len(claims)
                   /\ Serves((photo'[q]).line, claims[(photo'[q]).claim].code)
                   /\ (photo'[q]).kind = "labelled" \/ claims[(photo'[q]).claim].filed + PhotoWindow >= (photo'[q]).day
    <3>1. CASE q = p
      BY <1>1, <3>1 DEF PhotosSuit
    <3>2. CASE q # p
      BY <1>1, <3>2 DEF PhotosSuit
    <3>3. QED
      BY <3>1, <3>2
  <2>2. QED
    BY <2>1 DEF PhotosSuit, Serves
<1>9. PhotosRead'
  <2>1. SUFFICES ASSUME NEW q \in Photos, (photo'[q]).at = "found", q # p, photo'[q] = photo[q]
                 PROVE  /\ KeptSo((photo'[q]).read)
                        /\ \A r \in Photos : Among(r, (photo'[q]).read) => (photo'[r]).at = "joined" /\ (photo'[r]).claim = (photo'[q]).claim
                        /\ \A r \in Photos : (photo'[r]).at = "found" /\ r # q /\ (photo'[r]).claim = (photo'[q]).claim => q \in together /\ r \in together
                        /\ \A r \in Photos : (photo'[r]).at = "joined" /\ (photo'[r]).claim = (photo'[q]).claim =>
                             r \in together \/ Among(r, (photo'[q]).read) \/ Full((photo'[q]).read)
    BY <1>6 DEF PhotosRead, KeptSo, Among, Full
  <2>2. /\ KeptSo(photo[q].read)
        /\ \A r \in Photos : Among(r, photo[q].read) => photo[r].at = "joined" /\ photo[r].claim = photo[q].claim
        /\ \A r \in Photos : photo[r].at = "found" /\ r # q /\ photo[r].claim = photo[q].claim => q \in together /\ r \in together
        /\ \A r \in Photos : photo[r].at = "joined" /\ photo[r].claim = photo[q].claim =>
             r \in together \/ Among(r, photo[q].read) \/ Full(photo[q].read)
    BY <1>1, <2>1 DEF PhotosRead
  <2>3. ASSUME NEW r \in Photos, (photo'[r]).at = "joined", (photo'[r]).claim = photo[q].claim
        PROVE  r \in together \/ Among(r, photo[q].read) \/ Full(photo[q].read)
    <3>1. CASE r = p
      <4>1. photo[p].claim = photo[q].claim
        BY <2>3, <3>1
      <4>2. QED
        BY <2>1, <2>2, <3>1, <4>1
    <3>2. CASE r # p
      <4>1. photo'[r] = photo[r]
        BY <3>2
      <4>2. QED
        BY <2>2, <2>3, <4>1
    <3>3. QED
      BY <3>1, <3>2
  <2>4. \A r \in Photos : Among(r, photo[q].read) => (photo'[r]).at = "joined" /\ (photo'[r]).claim = photo[q].claim
    BY <1>6, <2>2
  <2>5. \A r \in Photos : (photo'[r]).at = "found" /\ r # q /\ (photo'[r]).claim = photo[q].claim => q \in together /\ r \in together
    <3>1. \A r \in Photos : (photo'[r]).at = "found" => photo[r].at = "found" /\ (photo'[r]).claim = photo[r].claim
      BY <1>6
    <3>2. QED
      BY <2>2, <3>1
  <2>6. (photo'[q]).read = photo[q].read /\ (photo'[q]).claim = photo[q].claim
    BY <2>1
  <2>7. KeptSo((photo'[q]).read)
    BY <2>2, <2>6
  <2>8. \A r \in Photos : Among(r, (photo'[q]).read) => (photo'[r]).at = "joined" /\ (photo'[r]).claim = (photo'[q]).claim
    BY <2>4, <2>6
  <2>9. \A r \in Photos : (photo'[r]).at = "found" /\ r # q /\ (photo'[r]).claim = (photo'[q]).claim => q \in together /\ r \in together
    BY <2>5, <2>6
  <2>10. \A r \in Photos : (photo'[r]).at = "joined" /\ (photo'[r]).claim = (photo'[q]).claim =>
           r \in together \/ Among(r, (photo'[q]).read) \/ Full((photo'[q]).read)
    BY <2>3, <2>6
  <2>11. QED
    BY <2>7, <2>8, <2>9, <2>10
<1>10. PhotosKept'
  <2>1. SUFFICES ASSUME NEW q \in Photos, (photo'[q]).at = "joined"
                 PROVE  \/ Among(q, (claims'[(photo'[q]).claim]).photos) \/ q \in together
                        \/ Full((claims'[(photo'[q]).claim]).photos)
    BY DEF PhotosKept, Among, Full
  <2>2. CASE q = p
    <3>1. (photo'[q]).claim = c
      BY <2>2 DEF c
    <3>2. QED
      BY <1>4, <1>5, <2>2, <3>1
  <2>3. CASE q # p /\ photo[q].claim = c
    <3>1. photo'[q] = photo[q] /\ photo[q].at = "joined"
      BY <2>1, <2>3
    <3>2. q \in together \/ Among(q, m) \/ Full(m)
      BY <1>2, <1>4, <2>3, <3>1
    <3>3. QED
      BY <1>5, <2>3, <3>1, <3>2
  <2>4. CASE q # p /\ photo[q].claim # c
    <3>1. photo'[q] = photo[q] /\ photo[q].at = "joined"
      BY <2>1, <2>4
    <3>2. photo[q].claim \in 1..Len(claims)
      BY <1>1, <3>1 DEF PhotosSuit
    <3>3. (claims'[photo[q].claim]).photos = claims[photo[q].claim].photos
      BY <2>4, <3>2 DEF c
    <3>4. Among(q, claims[photo[q].claim].photos) \/ q \in together \/ Full(claims[photo[q].claim].photos)
      BY <1>1, <3>1 DEF PhotosKept
    <3>5. QED
      BY <3>1, <3>3, <3>4
  <2>5. QED
    BY <2>2, <2>3, <2>4
<1>11. QED
  BY <1>7, <1>8, <1>9, <1>10 DEF PhotosInv

LEMMA JoiningClaimKeeps == ASSUME ClaimsInv, NEW p \in Photos, JoinClaim(p) PROVE ClaimsInv'
<1> DEFINE c == photo[p].claim
           n == Len(claims)
           m == Merged(photo[p].read, <<p>>)
           grown == [claims[c] EXCEPT !.photos = m]
           joined == [photo[p] EXCEPT !.at = "joined", !.read = <<>>]
<1>1. /\ photo[p].at = "found" /\ book' = book /\ filing' = filing /\ thread' = thread /\ reported' = reported /\ together' = together
      /\ today' = today /\ moves' = moves /\ cuts' = cuts
      /\ claims' = [claims EXCEPT ![c] = grown] /\ photo' = [photo EXCEPT ![p] = joined]
  BY DEF JoinClaim
<1>2. /\ photo \in [Photos -> PhotoType] /\ claims \in Seq(ClaimType) /\ together \subseteq Photos /\ PhotosSuit /\ PhotosRead
  BY DEF ClaimsInv, ClaimsTyped, ClaimsElse, PhotosInv
<1>3. c \in 1..n /\ KeptSo(photo[p].read)
  BY <1>1, <1>2 DEF PhotosSuit, PhotosRead
<1>4. photo[p] \in PhotoType /\ claims[c] \in ClaimType
  BY <1>2, <1>3, ElementOfSeq
<1>5. /\ joined \in PhotoType /\ joined.at = "joined" /\ joined.claim = c /\ joined.day = photo[p].day
      /\ joined.kind = photo[p].kind /\ joined.line = photo[p].line
  BY <1>4, NoPhotos DEF PhotoType
<1>6. m \in PhotoList
  <2>1. photo[p].read \in PhotoList
    BY <1>4 DEF PhotoType
  <2>2. QED
    BY <1>3, <2>1, MergedIs
<1> HIDE DEF m
<1>7. grown \in ClaimType /\ grown.photos = m /\ grown.code = claims[c].code /\ grown.filed = claims[c].filed
  BY <1>4, <1>6 DEF ClaimType
<1> HIDE DEF grown, joined
<1>8. photo' \in [Photos -> PhotoType] /\ photo'[p] = joined /\ \A q \in Photos : q # p => photo'[q] = photo[q]
  BY <1>1, <1>2, <1>5
<1>9. claims' \in Seq(ClaimType) /\ Len(claims') = n /\ \A j \in 1..n : claims'[j] = IF j = c THEN grown ELSE claims[j]
  BY <1>1, <1>2, <1>3, <1>7, ExceptSeq
<1>10. /\ \A i \in 1..n : (claims'[i]).code = claims[i].code /\ (claims'[i]).filed = claims[i].filed
       /\ \A i \in 1..n : i # c => (claims'[i]).photos = claims[i].photos
       /\ (claims'[c]).photos = m
  BY <1>3, <1>7, <1>9
<1>11. /\ (photo'[p]).at = "joined" /\ (photo'[p]).claim = c /\ (photo'[p]).day = photo[p].day
       /\ (photo'[p]).kind = photo[p].kind /\ (photo'[p]).line = photo[p].line
  BY <1>5, <1>8
<1>12. PhotosInv'
  BY <1>1, <1>8, <1>9, <1>10, <1>11, JoinedKeeps DEF m
<1>13. QED
  BY <1>1, <1>2, <1>8, <1>9, <1>12, PhotoStepsKeep
-----------------------------------------------------------------------------

LEMMA ClaimsNextInv == ClaimsInv /\ [ClaimsNext]_claimVars => ClaimsInv'
<1> SUFFICES ASSUME ClaimsInv, [ClaimsNext]_claimVars PROVE ClaimsInv'
  OBVIOUS
<1>1. CASE \E f \in Filers, pol \in Policies : FileOnWeb(f, pol) \/ FileByBot(f, pol)
  BY <1>1, FilingOnWebKeeps, FilingByBotKeeps
<1>2. CASE \E f \in Filers : NotifyAdvisor(f) \/ RecordMatter(f) \/ FilingBreaks(f)
  BY <1>2, NotifyingKeeps, RecordingKeeps, FilingBreaksKeeps
<1>3. CASE \E p \in Photos, k \in Kinds : SendPhoto(p, k)
  BY <1>3, SendingPhotoKeeps
<1>4. CASE \E p \in Photos : FindClaim(p) \/ JoinClaim(p)
  BY <1>4, FindingClaimKeeps, JoiningClaimKeeps
<1>5. CASE ChatGoesOn
  BY <1>5, ChatGoesOnKeeps
<1>6. CASE DayPasses
  BY <1>6, DayPassingKeeps
<1>7. CASE \E i \in DOMAIN claims, s \in Status : UpdateClaim(i, s)
  BY <1>7, UpdatingClaimKeeps
<1>8. CASE UNCHANGED claimVars
  BY <1>8, ClaimsAtRest
<1>9. QED
  BY <1>1, <1>2, <1>3, <1>4, <1>5, <1>6, <1>7, <1>8 DEF ClaimsNext

LEMMA ClaimsInitInv == ClaimsInit => ClaimsInv
<1> SUFFICES ASSUME ClaimsInit PROVE ClaimsInv
  OBVIOUS
<1>1. /\ claims = <<>> /\ filing = [f \in Filers |-> IdleFiling] /\ photo = [p \in Photos |-> UnsentPhoto]
      /\ thread = [line |-> Main, link |-> "none"] /\ reported = [mail |-> {}, matter |-> {}] /\ together = {}
      /\ today = 0 /\ moves = 0 /\ cuts = 0 /\ book \in [Policies -> [code : OfficeLines, inForce : BOOLEAN]]
  BY DEF ClaimsInit
<1>2. Len(claims) = 0 /\ claims \in Seq(ClaimType) /\ 1..0 = {}
  BY <1>1
<1>3. ClaimsTyped
  <2>1. ClaimsElse
    BY <1>1, ClaimNumbers DEF ClaimsElse, AllLines
  <2>2. IdleFiling \in FilingType
    BY ClaimNumbers DEF IdleFiling, FilingType
  <2>3. reported \in ReportedType
    BY <1>1 DEF ReportedType
  <2>4. Len(claims) <= MaxClaims
    BY <1>2, ClaimNumbers
  <2>5. filing \in [Filers -> FilingType] /\ photo \in [Photos -> PhotoType]
    BY <1>1, <2>2, PhotoRows
  <2>6. QED
    BY <1>2, <2>1, <2>3, <2>4, <2>5 DEF ClaimsTyped
<1>4. FilingsFit
  BY <1>1 DEF FilingsFit, InCourse, IdleFiling
<1>5. ClaimsTold
  <2>1. Untold = {}
    BY <1>2 DEF Untold
  <2>2. QED
    BY <1>1, <2>1, FS_EmptySet DEF ClaimsTold
<1>6. PhotosInv
  <2>1. \A p \in Photos : photo[p].at = "unsent"
    BY <1>1 DEF UnsentPhoto
  <2>2. QED
    BY <1>2, <2>1 DEF PhotosInv, PhotosHeld, PhotosSuit, PhotosRead, PhotosKept
<1>7. QED
  BY <1>3, <1>4, <1>5, <1>6 DEF ClaimsInv
-----------------------------------------------------------------------------
(* The parts together *)

\* Every part keeps its invariant, at work or at rest.
InsurerInv == TokensInv /\ CatalogInv /\ SyncInv /\ IncidentsInv /\ ErrorsInv /\ ClaimsInv

LEMMA InsurerInitInv == InsurerInit => InsurerInv
BY TokensInitInv, CatalogInitInv, SyncInitInv, IncidentsInitInv, ErrorsInitInv, ClaimsInitInv DEF InsurerInit, InsurerInv

\* A step of a part is a step of it, and leaves the variables of the others.
LEMMA PartsStep ==
  ASSUME [InsurerNext]_insurerVars
  PROVE  /\ [TokensNext]_tokenVars /\ [CatalogNext]_catalogVars /\ [SyncNext]_syncVars
         /\ [IncidentsNext]_incidentVars /\ [ErrorsNext]_errorVars /\ [ClaimsNext]_claimVars
<1>1. CASE UNCHANGED insurerVars
  BY <1>1 DEF insurerVars
<1>2. CASE InsurerNext
  BY <1>2, Zenon DEF InsurerNext
<1>3. QED
  BY <1>1, <1>2

LEMMA InsurerNextInv == InsurerInv /\ [InsurerNext]_insurerVars => InsurerInv'
BY PartsStep, TokensNextInv, CatalogNextInv, SyncNextInv, IncidentsNextInv, ErrorsNextInv, ClaimsNextInv DEF InsurerInv

\* Every row, cache and step of every part keeps its type, for any number of them.
THEOREM InsurerTypesAlwaysOK == InsurerSpec => []InsurerTypesOK
<1>1. InsurerInv => InsurerTypesOK
  BY TokensTyped, ErrorsHeld, IncidentsHeld, SyncTyped, CatalogTyped, ClaimsHeld DEF InsurerInv, InsurerTypesOK
<1>2. QED
  BY <1>1, InsurerInitInv, InsurerNextInv, PTL DEF InsurerSpec

\* However many requests want one, one of them at a time asks the insurer for a
\* token and one logs in to the catalog, nobody waits for a login that ended, and a
\* quote is priced on a year the catalog listed and an origin it told
\* (TriunfoService.getTokenRest, InfoAutoService.getToken).
THEOREM AccessAlwaysFits == InsurerSpec => []AccessFits
<1>1. InsurerInv => AccessFits
  BY OneAsks, CatalogTyped DEF InsurerInv, AccessFits
<1>2. QED
  BY <1>1, InsurerInitInv, InsurerNextInv, PTL DEF InsurerSpec

\* For any number of reports, a failure and both ends of an outage are mailed once,
\* its reminders as often as promised, and the pending notice is of the outage in
\* force; a claim misses a report only if it failed; a photo is in one claim at most,
\* of a code its line serves, and stays until newer ones take the room
\* (TriunfoErrorsService, SiniestrosService, BotService.attachAdjuntos).
THEOREM ReportsAlwaysFit == InsurerSpec => []ReportsFit
<1>1. InsurerInv => ReportsFit
  BY ErrorsHeld, ClaimsHeld DEF InsurerInv, ReportsFit
<1>2. QED
  BY <1>1, InsurerInitInv, InsurerNextInv, PTL DEF InsurerSpec

\* For any number of incidents, failures and explanations, the memory agrees with
\* the rows, the same failure is mailed as seldom as promised, and a text shown is
\* about the failure the incident has (IntegrationStatusService).
THEOREM IncidentsAlwaysHold == InsurerSpec => []IncidentsHold
<1>1. InsurerInv => IncidentsHold
  BY IncidentsHeld DEF InsurerInv, IncidentsHold
<1>2. QED
  BY <1>1, InsurerInitInv, InsurerNextInv, PTL DEF InsurerSpec

\* However many runs, endorsements and months there are, the first range leaves no
\* hole but what failed to be written, the policy is at the newest endorsement read
\* and its installment is as the insurer told last (CarteraSyncService).
THEOREM PortfolioAlwaysHolds == InsurerSpec => []PortfolioHolds
<1>1. InsurerInv => PortfolioHolds
  BY SyncTyped DEF InsurerInv, PortfolioHolds
<1>2. QED
  BY <1>1, InsurerInitInv, InsurerNextInv, PTL DEF InsurerSpec
=============================================================================
