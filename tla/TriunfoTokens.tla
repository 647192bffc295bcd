--------------------------- MODULE TriunfoTokens ---------------------------
(* The credentials and the token with which the API calls Triunfo for one       *)
(* organization (triunfo/triunfo.service.ts, triunfo/triunfo-credentials        *)
(* .service.ts): the cached credentials, the token in memory and in MySQL, the  *)
(* request for a token that concurrent callers share, the pause after a         *)
(* refusal, the reading of the portfolio with the password itself, and the      *)
(* owner who saves a new password. All the maps are keyed by producer and user, *)
(* never by password, so one entry of each is enough. Timers count down.        *)
EXTENDS Naturals, FiniteSets

CONSTANTS Callers,        \* quotes and documents of clients that need a token
          LastPassword,   \* passwords are numbered in the order TriunfoNet takes them
          CredentialsTTL, \* CREDENTIALS_TTL_MS
          RefusedPause,   \* REFUSED_PAUSE_MS
          TokenLife,      \* a token's, less TOKEN_MARGIN_MS
          Windows,        \* windows of NOVEDADES_CHUNK_DAYS in the range of a sync
          NoCaller

Passwords == 1..LastPassword

ASSUME TokenParameters ==
  /\ NoCaller \notin Callers
  /\ {LastPassword, CredentialsTTL, RefusedPause, TokenLife, Windows} \subseteq Nat \ {0}

VARIABLES
  accepted,  \* the password TriunfoNet takes now
  stored,    \* the password of the TriunfoCredential row
  kept,      \* credentialsCache: a password and the time it has left
  live,      \* tokens: time left of the token in memory
  row,       \* IntegrationToken: time left of the token in MySQL
  pause,     \* refused: time left
  inFlight,  \* tokensInFlight: the caller whose request the others wait for
  caller, sync, owner

memory == <<kept, live, pause>>
tokenVars == <<accepted, stored, memory, row, inFlight, caller, sync, owner>>

Asking == {"asking", "granted", "denied"}
CallerSteps == {"idle", "reading", "waiting", "loading", "saving"} \cup Asking
SyncSteps == {"idle", "reading"} \cup Asking
OwnerSteps == {"idle", "saving", "storing", "forgetting"} \cup Asking

TokensTypeOK ==
  /\ accepted \in Passwords /\ stored \in Passwords
  /\ kept \in [password : Passwords, left : 0..CredentialsTTL]
  /\ live \in 0..TokenLife /\ row \in 0..TokenLife /\ pause \in 0..RefusedPause
  /\ inFlight \in Callers \cup {NoCaller}
  /\ caller \in [Callers -> [step : CallerSteps, password : Passwords]]
  /\ sync \in [step : SyncSteps, password : Passwords, todo : 0..Windows]
  /\ owner \in [step : OwnerSteps, password : Passwords]

IdleCaller == [step |-> "idle", password |-> 1]
IdleSync == [step |-> "idle", password |-> 1, todo |-> 0]

TokensInit ==
  /\ accepted = 1 /\ stored = 1
  /\ kept = [password |-> 1, left |-> 0]
  /\ live = 0 /\ row = 0 /\ pause = 0
  /\ inFlight = NoCaller
  /\ caller = [c \in Callers |-> IdleCaller]
  /\ sync = IdleSync
  /\ owner = [step |-> "idle", password |-> 1]

\* What TriunfoNet answers to a password, on its side of the call.
Verdict(password) == IF password = accepted THEN "granted" ELSE "denied"

-----------------------------------------------------------------------------
(* A caller: credentialsFor, getToken, loadOrRenewToken, renewToken. *)

CallerAt(c, step) == caller' = [caller EXCEPT ![c].step = step]

\* Slip: a caller does not look for a request in flight.
GetTokenAlone(c, password) ==
  IF live > 0
  THEN caller' = [caller EXCEPT ![c] = IdleCaller] /\ UNCHANGED inFlight
  ELSE /\ caller' = [caller EXCEPT ![c] = [step |-> "loading", password |-> password]]
       /\ inFlight' = c

\* The token in memory, the request in flight, or a request of one's own.
GetToken(c, password) ==
  IF live > 0
  THEN caller' = [caller EXCEPT ![c] = IdleCaller] /\ UNCHANGED inFlight
  ELSE IF inFlight # NoCaller
  THEN caller' = [caller EXCEPT ![c] = [step |-> "waiting", password |-> password]]
       /\ UNCHANGED inFlight
  ELSE /\ caller' = [caller EXCEPT ![c] = [step |-> "loading", password |-> password]]
       /\ inFlight' = c

UseKept(c) ==
  /\ caller[c].step = "idle" /\ kept.left > 0
  /\ GetToken(c, kept.password)
  /\ UNCHANGED <<accepted, stored, memory, row, sync, owner>>

ReadCredentials(c) ==
  /\ caller[c].step = "idle" /\ kept.left = 0
  /\ caller' = [caller EXCEPT ![c] = [step |-> "reading", password |-> stored]]
  /\ UNCHANGED <<accepted, stored, memory, row, inFlight, sync, owner>>

Keep(password) == kept' = [password |-> password, left |-> CredentialsTTL]

KeepCredentials(c) ==
  /\ caller[c].step = "reading"
  /\ Keep(caller[c].password)
  /\ GetToken(c, caller[c].password)
  /\ UNCHANGED <<accepted, stored, live, pause, row, sync, owner>>

\* The shared promise settles: those who wait for it are answered with it.
Settle(c) ==
  /\ inFlight' = NoCaller
  /\ caller' = [d \in Callers |->
       IF d = c \/ caller[d].step = "waiting" THEN IdleCaller ELSE caller[d]]

\* The persisted token is alive.
LoadStored(c) ==
  /\ caller[c].step = "loading" /\ row > 0
  /\ live' = row
  /\ Settle(c)
  /\ UNCHANGED <<accepted, stored, kept, pause, row, sync, owner>>

\* It is not, or the query failed: ask Triunfo, unless it just refused.
LoadMissed(c) ==
  /\ caller[c].step = "loading"
  /\ IF pause > 0 THEN Settle(c) ELSE CallerAt(c, "asking") /\ UNCHANGED inFlight
  /\ UNCHANGED <<accepted, stored, memory, row, sync, owner>>

Judge(c) ==
  /\ caller[c].step = "asking"
  /\ CallerAt(c, Verdict(caller[c].password))
  /\ UNCHANGED <<accepted, stored, memory, row, inFlight, sync, owner>>

\* The token is in memory before it is in MySQL.
Granted(c) ==
  /\ caller[c].step = "granted"
  /\ pause' = 0 /\ live' = TokenLife
  /\ CallerAt(c, "saving")
  /\ UNCHANGED <<accepted, stored, kept, row, inFlight, sync, owner>>

\* Its upsert may fail, which is only logged.
SaveToken(c) ==
  /\ caller[c].step = "saving"
  /\ row' \in {row, TokenLife}
  /\ Settle(c)
  /\ UNCHANGED <<accepted, stored, memory, sync, owner>>

Denied(c) ==
  /\ caller[c].step = "denied"
  /\ pause' = RefusedPause
  /\ Settle(c)
  /\ UNCHANGED <<accepted, stored, kept, live, row, sync, owner>>

\* A timeout or no connection: recorded as an error, not as a refusal.
AskFails(c) ==
  /\ caller[c].step \in Asking
  /\ Settle(c)
  /\ UNCHANGED <<accepted, stored, memory, row, sync, owner>>

-----------------------------------------------------------------------------
(* The portfolio of the master code: getNovedadesCartera, window by window. *)

\* Nothing is asked while the pause lasts; after that only an answer stops it.
SyncWith(password) ==
  sync' = IF pause > 0 THEN IdleSync
          ELSE [step |-> "asking", password |-> password, todo |-> Windows]

\* Slip: the cached credentials never expire.
SyncUseKeptForever ==
  /\ sync.step = "idle"
  /\ SyncWith(kept.password)
  /\ UNCHANGED <<accepted, stored, memory, row, inFlight, caller, owner>>

SyncUseKept ==
  /\ sync.step = "idle" /\ kept.left > 0
  /\ SyncWith(kept.password)
  /\ UNCHANGED <<accepted, stored, memory, row, inFlight, caller, owner>>

SyncRead ==
  /\ sync.step = "idle" /\ kept.left = 0
  /\ sync' = [step |-> "reading", password |-> stored, todo |-> 0]
  /\ UNCHANGED <<accepted, stored, memory, row, inFlight, caller, owner>>

SyncKeep ==
  /\ sync.step = "reading"
  /\ Keep(sync.password)
  /\ SyncWith(sync.password)
  /\ UNCHANGED <<accepted, stored, live, pause, row, inFlight, caller, owner>>

SyncJudge ==
  /\ sync.step = "asking"
  /\ sync' = [sync EXCEPT !.step = Verdict(sync.password)]
  /\ UNCHANGED <<accepted, stored, memory, row, inFlight, caller, owner>>

SyncWindow ==
  /\ sync.step = "granted"
  /\ sync' = IF sync.todo = 1 THEN IdleSync
             ELSE [sync EXCEPT !.step = "asking", !.todo = @ - 1]
  /\ UNCHANGED <<accepted, stored, memory, row, inFlight, caller, owner>>

\* "Productor no valido" for the master code: the user and password stopped working.
SyncDenied ==
  /\ sync.step = "denied"
  /\ pause' = RefusedPause
  /\ sync' = IdleSync
  /\ UNCHANGED <<accepted, stored, kept, live, row, inFlight, caller, owner>>

SyncFails ==
  /\ sync.step \in Asking
  /\ sync' = IdleSync
  /\ UNCHANGED <<accepted, stored, memory, row, inFlight, caller, owner>>

-----------------------------------------------------------------------------
(* The owner saves a password: verifyCredentials, upsert, forgetCredentials. *)

OwnerAt(step) == owner' = [owner EXCEPT !.step = step]

Verify(password) ==
  /\ owner.step = "idle"
  /\ owner' = [step |-> "asking", password |-> password]
  /\ UNCHANGED <<accepted, stored, memory, row, inFlight, caller, sync>>

VerifyJudge ==
  /\ owner.step = "asking"
  /\ OwnerAt(Verdict(owner.password))
  /\ UNCHANGED <<accepted, stored, memory, row, inFlight, caller, sync>>

Verified ==
  /\ owner.step = "granted"
  /\ pause' = 0 /\ live' = TokenLife
  /\ OwnerAt("saving")
  /\ UNCHANGED <<accepted, stored, kept, row, inFlight, caller, sync>>

VerifiedSave ==
  /\ owner.step = "saving"
  /\ row' \in {row, TokenLife}
  /\ OwnerAt("storing")
  /\ UNCHANGED <<accepted, stored, memory, inFlight, caller, sync>>

\* A wrong password typed in the panel is the form's error: nothing is paused.
VerifyDenied ==
  /\ owner.step \in Asking \ {"granted"}
  /\ OwnerAt("idle")
  /\ UNCHANGED <<accepted, stored, memory, row, inFlight, caller, sync>>

StorePassword ==
  /\ owner.step = "storing"
  /\ stored' = owner.password
  /\ OwnerAt("forgetting")
  /\ UNCHANGED <<accepted, memory, row, inFlight, caller, sync>>

ForgetCredentials ==
  /\ owner.step = "forgetting"
  /\ kept' = [kept EXCEPT !.left = 0]
  /\ OwnerAt("idle")
  /\ UNCHANGED <<accepted, stored, live, pause, row, inFlight, caller, sync>>

-----------------------------------------------------------------------------
(* Around it: TriunfoNet's password changes, time passes, the process restarts. *)

ChangeAtTriunfo ==
  /\ accepted < LastPassword
  /\ accepted' = accepted + 1
  /\ UNCHANGED <<stored, memory, row, inFlight, caller, sync, owner>>

Less(left) == IF left > 0 THEN left - 1 ELSE 0

TimePasses ==
  /\ kept' = [kept EXCEPT !.left = Less(@)]
  /\ live' = Less(live) /\ row' = Less(row) /\ pause' = Less(pause)
  /\ UNCHANGED <<accepted, stored, inFlight, caller, sync, owner>>

ProcessRestarts ==
  /\ kept' = [kept EXCEPT !.left = 0] /\ live' = 0 /\ pause' = 0
  /\ inFlight' = NoCaller
  /\ caller' = [c \in Callers |-> IdleCaller]
  /\ sync' = IdleSync
  /\ owner' = [owner EXCEPT !.step = "idle"]
  /\ UNCHANGED <<accepted, stored, row>>

\* What a call in course does next: its query or its request ends.
CallGoesOn(c) ==
  KeepCredentials(c) \/ LoadStored(c) \/ LoadMissed(c) \/ Judge(c)
  \/ Granted(c) \/ SaveToken(c) \/ Denied(c) \/ AskFails(c)
SyncGoesOn == SyncKeep \/ SyncJudge \/ SyncWindow \/ SyncDenied \/ SyncFails
OwnerGoesOn ==
  VerifyJudge \/ Verified \/ VerifiedSave \/ VerifyDenied \/ StorePassword \/ ForgetCredentials

TokensNext ==
  \/ \E c \in Callers : UseKept(c) \/ ReadCredentials(c) \/ CallGoesOn(c)
  \/ SyncUseKept \/ SyncRead \/ SyncGoesOn
  \/ \E p \in Passwords : Verify(p)
  \/ OwnerGoesOn
  \/ ChangeAtTriunfo \/ TimePasses \/ ProcessRestarts

TokensSpec == TokensInit /\ [][TokensNext]_tokenVars

-----------------------------------------------------------------------------
(* Properties *)

\* Concurrent callers share one getTokenRest instead of firing one each
\* (triunfo.service.ts:296), also around a restart and a token that runs out
\* while the answer is on its way.
OneTokenRequest ==
  Cardinality({c \in Callers : caller[c].step \in {"loading", "saving"} \cup Asking}) <= 1

\* Once the stored password is for good the one TriunfoNet takes, the pause
\* ends for good: a refusal of the old password that was still on its way, or
\* one cached by a reader that overtook the save, delays the calls but does
\* not lock the organization out.
AccessRecovers ==
  <>[](stored = accepted /\ owner.step = "idle") => <>[](pause = 0)
=============================================================================
