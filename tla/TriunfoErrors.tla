--------------------------- MODULE TriunfoErrors ---------------------------
(* What the API keeps and says of the failed calls to Triunfo, for one          *)
(* organization (triunfo/triunfo-errors.service.ts): a row per distinct failure *)
(* and the outage of its credentials, with its notice among the pending matters *)
(* and its mails. record and credentialsAccepted are not awaited by those who   *)
(* call them, so several run at once; none of them ever throws to its caller.   *)
EXTENDS Naturals

CONSTANTS Reports,      \* runs of record or of credentialsAccepted
          Failures,     \* distinct failures, by their fingerprint
          Refusal,      \* the one that is a refusal of the credentials
          RemindEvery,  \* REMINDER_EVERY_MS
          ForgetAfter,  \* REAPPEARED_AFTER_MS
          MaxOutages, LastTime, MaxRecords, MaxBroken

ASSUME ErrorParameters ==
  /\ Refusal \in Failures
  /\ {RemindEvery, ForgetAfter, MaxOutages, LastTime, MaxRecords, MaxBroken} \subseteq Nat

Outages == 1..MaxOutages
Never == LastTime + 1

VARIABLES
  lastSeen,    \* TriunfoError: of each failure, Never without a row
  occurrences,
  auth,        \* TriunfoAuthStatus: the outage in force (0 if none), its last
               \* alert and the outage whose notice it names (0 if none)
  notice,      \* of each outage: "none", "open" or "resolved"
  report,      \* record and credentialsAccepted
  clock,
  mails,       \* history: mails of each kind, by outage or failure
  alerts,      \* history: of each outage, when it opened and its alerts
  overtaken,   \* history: outages closed by a success that did not read their notice
  opened, recorded, broken

stores == <<lastSeen, occurrences, auth, notice>>
errorVars == <<stores, report, clock, mails, alerts, overtaken, opened, recorded, broken>>

Steps == {"idle", "finding", "creating", "updating", "writing", "opening", "noticing",
          "linking", "announcing", "reminding", "reading", "closing", "resolving", "recovering"}

ErrorsTypeOK ==
  /\ lastSeen \in [Failures -> 0..Never] /\ occurrences \in [Failures -> Nat]
  /\ auth \in [since : 0..MaxOutages, alert : 0..LastTime, notice : 0..MaxOutages]
  /\ notice \in [Outages -> {"none", "open", "resolved"}]
  /\ report \in [Reports -> [step : Steps, failure : Failures, at : 0..LastTime,
                             since : 0..MaxOutages, notice : 0..MaxOutages, last : 0..Never]]
  /\ clock \in 0..LastTime
  /\ mails \in [first : [Failures -> Nat], down : [Outages -> Nat], up : [Outages -> Nat]]
  /\ alerts \in [Outages -> [from : 0..LastTime, count : Nat]]
  /\ overtaken \subseteq Outages
  /\ opened \in 0..MaxOutages /\ recorded \in 0..MaxRecords /\ broken \in 0..MaxBroken

IdleReport == [step |-> "idle", failure |-> Refusal, at |-> 0, since |-> 0, notice |-> 0, last |-> Never]

ErrorsInit ==
  /\ lastSeen = [f \in Failures |-> Never] /\ occurrences = [f \in Failures |-> 0]
  /\ auth = [since |-> 0, alert |-> 0, notice |-> 0]
  /\ notice = [o \in Outages |-> "none"]
  /\ report = [r \in Reports |-> IdleReport]
  /\ clock = 0
  /\ mails = [first |-> [f \in Failures |-> 0], down |-> [o \in Outages |-> 0], up |-> [o \in Outages |-> 0]]
  /\ alerts = [o \in Outages |-> [from |-> 0, count |-> 0]]
  /\ overtaken = {}
  /\ opened = 0 /\ recorded = 0 /\ broken = 0

StepTo(r, step) == report' = [report EXCEPT ![r].step = step]
Finish(r) == report' = [report EXCEPT ![r] = IdleReport]
HistoryStays == UNCHANGED <<mails, alerts, overtaken, opened>>
BoundsStay == UNCHANGED <<clock, recorded, broken>>

-----------------------------------------------------------------------------
(* record: the failure is counted, then an outage opens or a mail goes out. *)

RecordFailure(r, f) ==
  /\ report[r].step = "idle" /\ recorded < MaxRecords
  /\ recorded' = recorded + 1
  /\ report' = [report EXCEPT ![r] = [IdleReport EXCEPT !.step = "finding", !.failure = f]]
  /\ UNCHANGED <<stores, clock, broken>> /\ HistoryStays

FindRow(r) ==
  /\ report[r].step = "finding"
  /\ LET last == lastSeen[report[r].failure] IN
       report' = [report EXCEPT ![r].last = last, ![r].at = clock,
                                ![r].step = IF last = Never THEN "creating" ELSE "updating"]
  /\ UNCHANGED stores /\ HistoryStays /\ BoundsStay

\* After counting: a refusal goes on to the outage, a failure that is news to a mail.
AfterCount(r, isNews) ==
  IF report[r].failure = Refusal
  THEN report' = [report EXCEPT ![r].step = "opening", ![r].at = clock]
  ELSE IF isNews THEN StepTo(r, "writing") ELSE Finish(r)

\* Slip: a row somebody else created meanwhile counts as created by this one.
CreateAgain(r) ==
  /\ report[r].step = "creating"
  /\ lastSeen' = [lastSeen EXCEPT ![report[r].failure] = report[r].at]
  /\ occurrences' = [occurrences EXCEPT ![report[r].failure] = @ + 1]
  /\ AfterCount(r, TRUE)
  /\ UNCHANGED <<auth, notice>> /\ HistoryStays /\ BoundsStay

\* The unique fingerprint decides who created it (P2002 for the others).
CreateRow(r) ==
  /\ report[r].step = "creating"
  /\ IF lastSeen[report[r].failure] = Never
     THEN /\ lastSeen' = [lastSeen EXCEPT ![report[r].failure] = report[r].at]
          /\ occurrences' = [occurrences EXCEPT ![report[r].failure] = @ + 1]
          /\ AfterCount(r, TRUE)
     ELSE StepTo(r, "updating") /\ UNCHANGED <<lastSeen, occurrences>>
  /\ UNCHANGED <<auth, notice>> /\ HistoryStays /\ BoundsStay

Reappeared(r) == report[r].last # Never /\ report[r].at > report[r].last + ForgetAfter

UpdateRow(r) ==
  /\ report[r].step = "updating"
  /\ lastSeen' = [lastSeen EXCEPT ![report[r].failure] = report[r].at]
  /\ occurrences' = [occurrences EXCEPT ![report[r].failure] = @ + 1]
  /\ AfterCount(r, Reappeared(r))
  /\ UNCHANGED <<auth, notice>> /\ HistoryStays /\ BoundsStay

\* announceError: "Error nuevo" or "Volvio un error".
AnnounceError(r) ==
  /\ report[r].step = "writing"
  /\ mails' = IF Reappeared(r) THEN mails ELSE [mails EXCEPT !.first[report[r].failure] = @ + 1]
  /\ Finish(r)
  /\ UNCHANGED <<stores, alerts, overtaken, opened>> /\ BoundsStay

-----------------------------------------------------------------------------
(* markRejected: the first refusal opens the outage, later ones remind of it. *)

Opens(r) ==
  /\ opened' = opened + 1
  /\ auth' = [auth EXCEPT !.since = opened + 1, !.alert = report[r].at]
  /\ alerts' = [alerts EXCEPT ![opened + 1] = [from |-> report[r].at, count |-> 1]]
  /\ report' = [report EXCEPT ![r].step = "noticing", ![r].since = opened + 1]

\* updateMany where failingSince is null: one refusal opens it.
OpenOutage(r) ==
  /\ report[r].step = "opening"
  /\ IF auth.since = 0
     THEN opened < MaxOutages /\ Opens(r)
     ELSE StepTo(r, "reminding") /\ UNCHANGED <<auth, alerts, opened>>
  /\ UNCHANGED <<lastSeen, occurrences, notice, mails, overtaken>> /\ BoundsStay

CreateNotice(r) ==
  /\ report[r].step = "noticing"
  /\ notice' = [notice EXCEPT ![report[r].since] = "open"]
  /\ StepTo(r, "linking")
  /\ UNCHANGED <<lastSeen, occurrences, auth>> /\ HistoryStays /\ BoundsStay

\* By organization, whatever became of the outage meanwhile.
LinkNotice(r) ==
  /\ report[r].step = "linking"
  /\ auth' = [auth EXCEPT !.notice = report[r].since]
  /\ StepTo(r, "announcing")
  /\ UNCHANGED <<lastSeen, occurrences, notice>> /\ HistoryStays /\ BoundsStay

AnnounceOutage(r) ==
  /\ report[r].step = "announcing"
  /\ mails' = [mails EXCEPT !.down[report[r].since] = @ + 1]
  /\ Finish(r)
  /\ UNCHANGED <<stores, alerts, overtaken, opened>> /\ BoundsStay

\* Slip: the reminder does not note when it was given.
RemindUnnoted(r) ==
  /\ report[r].step = "reminding"
  /\ IF auth.since # 0 /\ report[r].at > auth.alert + RemindEvery
     THEN alerts' = [alerts EXCEPT ![auth.since].count = @ + 1] /\ StepTo(r, "reading")
     ELSE Finish(r) /\ UNCHANGED alerts
  /\ UNCHANGED <<stores, mails, overtaken, opened>> /\ BoundsStay

\* updateMany where the last alert is a day old: one refusal reminds.
RemindOutage(r) ==
  /\ report[r].step = "reminding"
  /\ IF auth.since # 0 /\ report[r].at > auth.alert + RemindEvery
     THEN /\ auth' = [auth EXCEPT !.alert = report[r].at]
          /\ alerts' = [alerts EXCEPT ![auth.since].count = @ + 1]
          /\ StepTo(r, "reading")
     ELSE Finish(r) /\ UNCHANGED <<auth, alerts>>
  /\ UNCHANGED <<lastSeen, occurrences, notice, mails, overtaken, opened>> /\ BoundsStay

\* It reads again since when it fails: no mail if it ended meanwhile.
MailReminder(r) ==
  /\ report[r].step = "reading"
  /\ Finish(r)
  /\ UNCHANGED stores /\ HistoryStays /\ BoundsStay

-----------------------------------------------------------------------------
(* credentialsAccepted: the outage that was read ends. *)

Accept(r) ==
  /\ report[r].step = "idle" /\ auth.since # 0
  /\ report' = [report EXCEPT ![r] =
       [IdleReport EXCEPT !.step = "closing", !.since = auth.since, !.notice = auth.notice]]
  /\ UNCHANGED stores /\ HistoryStays /\ BoundsStay

Closes(r) ==
  /\ auth' = [since |-> 0, alert |-> 0, notice |-> 0]
  /\ overtaken' = IF report[r].notice = report[r].since THEN overtaken ELSE overtaken \cup {report[r].since}
  /\ StepTo(r, "resolving")

\* Slip: whoever read an outage closes it, even if it was closed meanwhile.
CloseBlindly(r) ==
  /\ report[r].step = "closing"
  /\ Closes(r)
  /\ UNCHANGED <<lastSeen, occurrences, notice, mails, alerts, opened>> /\ BoundsStay

\* updateMany where failingSince is the one read: one success closes it.
CloseOutage(r) ==
  /\ report[r].step = "closing"
  /\ IF auth.since = report[r].since
     THEN Closes(r)
     ELSE Finish(r) /\ UNCHANGED <<auth, overtaken>>
  /\ UNCHANGED <<lastSeen, occurrences, notice, mails, alerts, opened>> /\ BoundsStay

\* Slip: the notice stays among the pending matters.
ForgetNotice(r) ==
  /\ report[r].step = "resolving"
  /\ StepTo(r, "recovering")
  /\ UNCHANGED stores /\ HistoryStays /\ BoundsStay

ResolveNotice(r) ==
  /\ report[r].step = "resolving"
  /\ notice' = IF report[r].notice = 0 THEN notice ELSE [notice EXCEPT ![report[r].notice] = "resolved"]
  /\ StepTo(r, "recovering")
  /\ UNCHANGED <<lastSeen, occurrences, auth>> /\ HistoryStays /\ BoundsStay

MailRecovery(r) ==
  /\ report[r].step = "recovering"
  /\ mails' = [mails EXCEPT !.up[report[r].since] = @ + 1]
  /\ Finish(r)
  /\ UNCHANGED <<stores, alerts, overtaken, opened>> /\ BoundsStay

-----------------------------------------------------------------------------

\* A query throws, or the process restarts: the catch only logs.
ReportBreaks(r) ==
  /\ report[r].step # "idle" /\ broken < MaxBroken
  /\ broken' = broken + 1
  /\ Finish(r)
  /\ UNCHANGED <<stores, clock, recorded>> /\ HistoryStays

ErrorClock ==
  /\ clock < LastTime /\ clock' = clock + 1
  /\ UNCHANGED <<stores, report, recorded, broken>> /\ HistoryStays

ErrorsNext ==
  \/ \E r \in Reports :
       \/ \E f \in Failures : RecordFailure(r, f)
       \/ FindRow(r) \/ CreateRow(r) \/ UpdateRow(r) \/ AnnounceError(r)
       \/ OpenOutage(r) \/ CreateNotice(r) \/ LinkNotice(r) \/ AnnounceOutage(r)
       \/ RemindOutage(r) \/ MailReminder(r)
       \/ Accept(r) \/ CloseOutage(r) \/ ResolveNotice(r) \/ MailRecovery(r)
       \/ ReportBreaks(r)
  \/ ErrorClock

ErrorsSpec == ErrorsInit /\ [][ErrorsNext]_errorVars

-----------------------------------------------------------------------------
(* Properties *)

\* However many calls fail or succeed at once, a failure is announced as new
\* once, an outage once when it begins and once when it ends
\* (triunfo-errors.service.ts:155 and 255).
MailedOnce ==
  /\ \A f \in Failures : mails.first[f] <= 1
  /\ \A o \in Outages : mails.down[o] <= 1 /\ mails.up[o] <= 1

\* "While the credentials keep failing, the reminder goes out once a day",
\* also when several refusals find it due together.
AlertsSpaced ==
  \A o \in 1..opened : alerts[o].count <= 1 + (clock - alerts[o].from) \div (RemindEvery + 1)

\* Both bounds on the mails of the insurer's failures.
MailsAreSpaced == MailedOnce /\ AlertsSpaced

\* A notice that is pending tells of the outage in force, unless it ended
\* before its notice was linked, or a query of its end failed.
NoticesFollow ==
  \A o \in Outages : notice[o] = "open" =>
    \/ auth.since = o
    \/ \E r \in Reports : report[r].step = "resolving" /\ report[r].notice = o
    \/ o \in overtaken \/ broken > 0

\* The office is told of an outage as often as promised, and its pending
\* matters name the one in force.
OutagesAreTold == MailsAreSpaced /\ NoticesFollow

\* What the code does not keep: a success that comes in before the notice is
\* linked leaves it among the pending matters of an outage that ended.
NoNoticeLeftBehind ==
  (\A r \in Reports : report[r].step = "idle") /\ broken = 0 =>
    \A o \in Outages : notice[o] = "open" => auth.since = o
=============================================================================
