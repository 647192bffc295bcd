------------------------------ MODULE PlanPause ------------------------------
(***************************************************************************)
(* The plan of one WhatsApp number and the pause of its assistant          *)
(* (UsageService.recordMeta, BillingService).                              *)
(*                                                                         *)
(* Every delivered message is reported to the API, which counts it in the  *)
(* month it was delivered.  The report that reaches the month's plan       *)
(* pauses the assistant, and the office is told.  The office continues on  *)
(* a bigger plan, keeps the pause, or is given another plan; or the month  *)
(* ends.  Reports and answers run together: each reads the number, awaits  *)
(* its queries, and writes what it decided from what it read.              *)
(*                                                                         *)
(* A plan is named by the messages it includes: a catalog with two plans   *)
(* of one size, and edits of the catalog, are left out.  So is the column  *)
(* billedUsd, which reports write and every reader computes again.         *)
(***************************************************************************)
EXTENDS Integers, FiniteSetsExt

CONSTANTS
  NULL,
  Paid,           \* the active paid plans of the catalog
  Trial,          \* the trial plan, NULL when there is none
  BlockMessages,  \* messages of a block past the largest plan
  Start,          \* the plan the number starts on, NULL for the smallest paid
  Messages,       \* messages the platform sends on the number
  Campaigns,      \* those of a campaign, which count twice
  Reports,        \* requests to /bot/usage that may run at once
  Desks,          \* people of the office with the billing page open
  LastMonth,      \* bound: months
  MaxFaults       \* bound: requests that a failed query or a restart ends

Months == 1..LastMonth
Plans == Paid \cup ({Trial} \ {NULL})

ASSUME Catalog ==
  /\ Paid \subseteq Nat \ {0}
  /\ \E p \in Paid : \A q \in Paid : p <= q
  /\ \E p \in Paid : \A q \in Paid : q <= p
  /\ Trial # NULL => Trial \in Nat \ {0} /\ Trial \notin Paid
  /\ NULL \notin Nat
  /\ BlockMessages \in Nat \ {0}
  /\ Start \in Plans \cup {NULL}
ASSUME Bounds ==
  /\ Campaigns \subseteq Messages
  /\ LastMonth \in Nat \ {0} /\ MaxFaults \in Nat

VARIABLES
  month,      \* currentPeriod()
  delivered,  \* the month each message was delivered, NULL before
  recorded,   \* messages with a UsageEvent
  used,       \* messages consumed, by month (UsageMonthly)
  rows,       \* months with a UsageMonthly row, of a message or of a call to the model
  phone,      \* the PhoneNumber row
  notices,    \* open notices that the assistant is paused
  report,     \* recordMeta, by request
  desk,       \* resolveLimit or assignPlan, by person
  pauses,     \* history: times the assistant was paused, by month
  lifts,      \* history: times a pause was lifted, by its month
  faults

usage == <<delivered, recorded, used, rows>>
history == <<pauses, lifts>>
vars == <<month, usage, phone, notices, report, desk, history, faults>>

Phone == [plan : Plans \cup {NULL}, pausedAt : Months \cup {NULL},
          confirmed : BOOLEAN, blocks : Nat, blocksFor : Months \cup {NULL}]

\* seen: the number as resolvePhone read it, row: the month of the message had
\* its row by then; total: what the transaction returned; assigned, over: what
\* the bill says.
ReportState ==
  [step : {"idle", "recording", "billing", "billed", "limit", "announcing"},
   msg : Messages \cup {NULL}, seen : Phone, row : BOOLEAN, total : Nat,
   assigned : Plans \cup {NULL}, over : BOOLEAN]
DeskState == [step : {"idle", "limit", "plan", "resolving"},
              plan : Plans \cup {NULL}, period : Months \cup {NULL}, total : Nat]

New == [plan |-> Start, pausedAt |-> NULL, confirmed |-> FALSE,
        blocks |-> 0, blocksFor |-> NULL]
NoReport == [step |-> "idle", msg |-> NULL, seen |-> New, row |-> FALSE, total |-> 0,
             assigned |-> NULL, over |-> FALSE]
NoDesk == [step |-> "idle", plan |-> NULL, period |-> NULL, total |-> 0]

ReportsOK == report \in [Reports -> ReportState]
DesksOK == desk \in [Desks -> DeskState]

TypeOK ==
  /\ month \in Months
  /\ delivered \in [Messages -> Months \cup {NULL}]
  /\ recorded \subseteq Messages
  /\ used \in [Months -> Nat] /\ rows \subseteq Months
  /\ phone \in Phone
  /\ notices \in Nat
  /\ ReportsOK /\ DesksOK
  /\ pauses \in [Months -> Nat] /\ lifts \in [Months -> Nat]
  /\ faults \in 0..MaxFaults

Init ==
  /\ month = 1
  /\ delivered = [m \in Messages |-> NULL] /\ recorded = {}
  /\ used = [p \in Months |-> 0] /\ rows = {}
  /\ phone = New /\ notices = 0
  /\ report = [r \in Reports |-> NoReport] /\ desk = [d \in Desks |-> NoDesk]
  /\ pauses = [p \in Months |-> 0] /\ lifts = [p \in Months |-> 0]
  /\ faults = 0

-----------------------------------------------------------------------------
(* What a month is billed on                                               *)

Smallest == CHOOSE p \in Paid : \A q \in Paid : p <= q
Largest == CHOOSE p \in Paid : \A q \in Paid : q <= p

Weight(m) == IF m \in Campaigns THEN 2 ELSE 1

\* The number went live in this month, or did not yet: it has no earlier row.
FirstMonth(p) == \A q \in rows : p <= q

AssignedPlan(plan, p) ==
  IF plan # NULL /\ (plan = Trial => FirstMonth(p)) THEN plan ELSE Smallest

AcceptedBlocks(ph, p) == IF ph.blocksFor = p THEN ph.blocks ELSE 0

Included(ph, p) ==
  AssignedPlan(ph.plan, p) + AcceptedBlocks(ph, p) * BlockMessages

PausedIn(ph, p) == ph.pausedAt = p

\* The bot context lets the assistant answer.
Answers == ~PausedIn(phone, month)

-----------------------------------------------------------------------------
(* A report of a delivered message (recordMeta)                            *)

\* WhatsApp delivers a message: of the bot, the panel or a notice.
Deliver(m) ==
  /\ delivered[m] = NULL
  /\ delivered' = [delivered EXCEPT ![m] = month]
  /\ UNCHANGED <<month, recorded, used, rows, phone, notices, report, desk, history, faults>>

\* A call to the model of this month or, reported late, of an earlier one: it
\* opens the month's row and counts no message (recordOpenAI).
RecordCall(p) ==
  /\ p <= month /\ p \notin rows
  /\ rows' = rows \cup {p}
  /\ UNCHANGED <<month, delivered, recorded, used, phone, notices, report, desk, history, faults>>

\* The report comes, once or again, and the number is looked up.
Resolve(r, m) ==
  /\ report[r].step = "idle" /\ delivered[m] # NULL
  /\ report' = [report EXCEPT ![r] =
       [NoReport EXCEPT !.step = "recording", !.msg = m, !.seen = phone,
                        !.row = delivered[m] \in rows]]
  /\ UNCHANGED <<month, usage, phone, notices, desk, history, faults>>

\* A new UsageEvent and the month's counters, in one transaction.
CountAnyway(r) ==
  LET m == report[r].msg  p == delivered[m] IN
  /\ report[r].step = "recording"
  /\ recorded' = recorded \cup {m}
  /\ used' = [used EXCEPT ![p] = @ + Weight(m)] /\ rows' = rows \cup {p}
  /\ report' = [report EXCEPT ![r].step = "billing", ![r].total = used'[p]]
  /\ UNCHANGED <<month, delivered, phone, notices, desk, history, faults>>

Record(r) ==
  LET m == report[r].msg  p == delivered[m] IN
  /\ report[r].step = "recording" /\ m \notin recorded
  /\ recorded' = recorded \cup {m}
  /\ used' = [used EXCEPT ![p] = @ + Weight(m)] /\ rows' = rows \cup {p}
  /\ report' = [report EXCEPT ![r].step = "billing", ![r].total = used'[p]]
  /\ UNCHANGED <<month, delivered, phone, notices, desk, history, faults>>

\* The upsert found no row of the month, and another request created it before
\* this one did: the P2002 is taken for that of a repeated event, which it rolls
\* back with the message uncounted.
Collided(r) ==
  /\ report[r].step = "recording" /\ report[r].msg \notin recorded
  /\ ~report[r].row /\ delivered[report[r].msg] \in rows
  /\ report' = [report EXCEPT ![r] = NoReport]
  /\ UNCHANGED <<month, usage, phone, notices, desk, history, faults>>

\* The unique index refuses a second event of the message (P2002).
Repeated(r) ==
  /\ report[r].step = "recording" /\ report[r].msg \in recorded
  /\ report' = [report EXCEPT ![r] = NoReport]
  /\ UNCHANGED <<month, usage, phone, notices, desk, history, faults>>

\* Slip: the message that crosses the limit is the one that pauses.
BillCrossing(r) ==
  LET s == report[r]  p == delivered[s.msg] IN
  /\ s.step = "billing"
  /\ report' = [report EXCEPT ![r].step = "billed",
       ![r].assigned = AssignedPlan(s.seen.plan, p),
       ![r].over = s.total \in Included(s.seen, p) .. Included(s.seen, p) + Weight(s.msg) - 1]
  /\ UNCHANGED <<month, usage, phone, notices, desk, history, faults>>

\* refreshBilled: the bill of the row the transaction returned, on the plan
\* and the blocks the number had when it was looked up.
Bill(r) ==
  LET s == report[r]  p == delivered[s.msg] IN
  /\ s.step = "billing"
  /\ report' = [report EXCEPT ![r].step = "billed",
       ![r].assigned = AssignedPlan(s.seen.plan, p),
       ![r].over = s.total >= Included(s.seen, p)]
  /\ UNCHANGED <<month, usage, phone, notices, desk, history, faults>>

Expires(s) == s.seen.plan # NULL /\ s.assigned # s.seen.plan

\* A trial past its month gives way to the smallest paid plan.
ResetPlan(r) ==
  LET s == report[r] IN
  /\ s.step = "billed" /\ delivered[s.msg] = month /\ Expires(s)
  /\ phone' = [phone EXCEPT !.plan = IF @ = s.seen.plan THEN NULL ELSE @]
  /\ report' = [report EXCEPT ![r].step = "limit"]
  /\ UNCHANGED <<month, usage, notices, desk, history, faults>>

\* Nothing is awaited before the limit when the plan stays.
AtLimit(s) ==
  \/ s.step = "limit"
  \/ s.step = "billed" /\ delivered[s.msg] = month /\ ~Expires(s)

Reached(s) == s.over /\ ~PausedIn(s.seen, month)

PauseBlindly(r) ==
  LET s == report[r] IN
  /\ AtLimit(s) /\ Reached(s)
  /\ phone' = [phone EXCEPT !.pausedAt = month, !.confirmed = FALSE]
  /\ pauses' = [pauses EXCEPT ![month] = @ + 1]
  /\ report' = [report EXCEPT ![r].step = "announcing"]
  /\ UNCHANGED <<month, usage, notices, desk, lifts, faults>>

\* Only a number that is not paused this month.
Pause(r) ==
  LET s == report[r] IN
  /\ AtLimit(s) /\ Reached(s)
  /\ phone.pausedAt # NULL => phone.pausedAt < month
  /\ phone' = [phone EXCEPT !.pausedAt = month, !.confirmed = FALSE]
  /\ pauses' = [pauses EXCEPT ![month] = @ + 1]
  /\ report' = [report EXCEPT ![r].step = "announcing"]
  /\ UNCHANGED <<month, usage, notices, desk, lifts, faults>>

\* A report of another month, under the limit, or of a number paused already.
Leave(r) ==
  LET s == report[r] IN
  /\ \/ s.step = "billed" /\ delivered[s.msg] # month
     \/ AtLimit(s) /\ (Reached(s) => PausedIn(phone, month))
  /\ report' = [report EXCEPT ![r] = NoReport]
  /\ UNCHANGED <<month, usage, phone, notices, desk, history, faults>>

Announce(r) ==
  /\ report[r].step = "announcing"
  /\ notices' = notices + 1
  /\ report' = [report EXCEPT ![r] = NoReport]
  /\ UNCHANGED <<month, usage, phone, desk, history, faults>>

\* A query fails or the process restarts: what the request had left to do is lost.
ReportDies(r) ==
  /\ report[r].step # "idle" /\ faults < MaxFaults
  /\ faults' = faults + 1
  /\ report' = [report EXCEPT ![r] = NoReport]
  /\ UNCHANGED <<month, usage, phone, notices, desk, history>>

-----------------------------------------------------------------------------
(* The office (resolveLimit, assignPlan)                                   *)

\* The update clears planPausedAt.
Lift == lifts' = IF phone.pausedAt = NULL THEN lifts
                 ELSE [lifts EXCEPT ![phone.pausedAt] = @ + 1]

AskLimit(d) ==
  /\ desk[d].step = "idle" /\ PausedIn(phone, month)
  /\ desk' = [desk EXCEPT ![d] = [NoDesk EXCEPT
       !.step = "limit", !.period = month, !.total = used[month]]]
  /\ UNCHANGED <<month, usage, phone, notices, report, history, faults>>

KeepPause(d) ==
  /\ desk[d].step = "limit"
  /\ phone' = [phone EXCEPT !.confirmed = TRUE]
  /\ desk' = [desk EXCEPT ![d].step = "resolving"]
  /\ UNCHANGED <<month, usage, notices, report, history, faults>>

\* The smallest plan with more messages than the number sent.
ContinueOn(d, p) ==
  LET total == desk[d].total IN
  /\ desk[d].step = "limit"
  /\ p > total /\ \A q \in Paid : q > total => p <= q
  /\ phone' = [plan |-> p, pausedAt |-> NULL, confirmed |-> FALSE,
               blocks |-> 0, blocksFor |-> NULL]
  /\ Lift
  /\ desk' = [desk EXCEPT ![d].step = "resolving"]
  /\ UNCHANGED <<month, usage, notices, report, pauses, faults>>

\* Past the largest plan: enough blocks for the messages and one more.
OneBlockShort(d) ==
  LET total == desk[d].total IN
  /\ desk[d].step = "limit" /\ \A p \in Paid : p <= total
  /\ phone' = [plan |-> Largest, pausedAt |-> NULL, confirmed |-> FALSE,
               blocks |-> (total - Largest) \div BlockMessages,
               blocksFor |-> desk[d].period]
  /\ Lift
  /\ desk' = [desk EXCEPT ![d].step = "resolving"]
  /\ UNCHANGED <<month, usage, notices, report, pauses, faults>>

ContinueAlwaysPast(d) ==
  LET total == desk[d].total IN
  /\ desk[d].step = "limit"
  /\ phone' = [plan |-> Largest, pausedAt |-> NULL, confirmed |-> FALSE,
               blocks |-> (total - Largest) \div BlockMessages + 1,
               blocksFor |-> desk[d].period]
  /\ Lift
  /\ desk' = [desk EXCEPT ![d].step = "resolving"]
  /\ UNCHANGED <<month, usage, notices, report, pauses, faults>>

ContinuePast(d) ==
  LET total == desk[d].total IN
  /\ desk[d].step = "limit" /\ \A p \in Paid : p <= total
  /\ phone' = [plan |-> Largest, pausedAt |-> NULL, confirmed |-> FALSE,
               blocks |-> (total - Largest) \div BlockMessages + 1,
               blocksFor |-> desk[d].period]
  /\ Lift
  /\ desk' = [desk EXCEPT ![d].step = "resolving"]
  /\ UNCHANGED <<month, usage, notices, report, pauses, faults>>

AskPlan(d, p) ==
  /\ desk[d].step = "idle"
  /\ desk' = [desk EXCEPT ![d] = [NoDesk EXCEPT
       !.step = "plan", !.plan = p, !.total = used[month]]]
  /\ UNCHANGED <<month, usage, phone, notices, report, history, faults>>

\* A plan that covers the month ends the pause; a smaller one leaves it.
AssignCovering(d) ==
  LET s == desk[d] IN
  /\ s.step = "plan" /\ s.plan > s.total
  /\ phone' = [plan |-> s.plan, pausedAt |-> NULL, confirmed |-> FALSE,
               blocks |-> 0, blocksFor |-> NULL]
  /\ Lift
  /\ desk' = [desk EXCEPT ![d].step = "resolving"]
  /\ UNCHANGED <<month, usage, notices, report, pauses, faults>>

AssignSmall(d) ==
  LET s == desk[d] IN
  /\ s.step = "plan" /\ s.plan <= s.total
  /\ phone' = [phone EXCEPT !.plan = s.plan, !.blocks = 0, !.blocksFor = NULL]
  /\ desk' = [desk EXCEPT ![d] = NoDesk]
  /\ UNCHANGED <<month, usage, notices, report, history, faults>>

ResolveNotices(d) ==
  /\ desk[d].step = "resolving"
  /\ notices' = 0
  /\ desk' = [desk EXCEPT ![d] = NoDesk]
  /\ UNCHANGED <<month, usage, phone, report, history, faults>>

DeskDies(d) ==
  /\ desk[d].step # "idle" /\ faults < MaxFaults
  /\ faults' = faults + 1
  /\ desk' = [desk EXCEPT ![d] = NoDesk]
  /\ UNCHANGED <<month, usage, phone, notices, report, history>>

MonthTurns ==
  /\ month < LastMonth
  /\ month' = month + 1
  /\ UNCHANGED <<usage, phone, notices, report, desk, history, faults>>

Handle(r) ==
  \/ Record(r) \/ Collided(r) \/ Repeated(r) \/ Bill(r) \/ ResetPlan(r)
  \/ Pause(r) \/ Leave(r) \/ Announce(r)

Answer(d) ==
  \/ KeepPause(d)
  \/ \E p \in Paid : ContinueOn(d, p)
  \/ ContinuePast(d) \/ AssignCovering(d) \/ AssignSmall(d)
  \/ ResolveNotices(d)

Next ==
  \/ \E m \in Messages : Deliver(m)
  \/ \E r \in Reports : \/ \E m \in Messages : Resolve(r, m)
                        \/ Handle(r) \/ ReportDies(r)
  \/ \E d \in Desks : \/ AskLimit(d) \/ \E p \in Paid : AskPlan(d, p)
                      \/ Answer(d) \/ DeskDies(d)
  \/ \E p \in Months : RecordCall(p)
  \/ MonthTurns

Spec == Init /\ [][Next]_vars

\* A report that started goes on until it ends: its queries end or throw.
FairSpec ==
  /\ Spec
  /\ \A r \in Reports : WF_vars(Handle(r))

-----------------------------------------------------------------------------
(* Properties                                                              *)

\* A message that is recorded counts once, in the month it was delivered, however
\* many reports of it come and wherever they stop (recordMeta's transaction).
CountedOnce ==
  \A p \in Months :
    used[p] = MapThenSumSet(Weight, {m \in recorded : delivered[m] = p})

\* The assistant is paused, and the office told, once a month and once more
\* for each time somebody lifted the pause (followLimit's conditional update).
PausedOncePerAnswer == \A p \in Months : pauses[p] <= lifts[p] + 1

\* A number that nobody moved is paused only in a month whose messages reached
\* its plan: not by a late report of last month (followLimit).
PauseIsEarned == PausedIn(phone, month) => used[month] >= Included(phone, month)

\* Continuing buys room: the update that lifts a pause leaves a plan that the
\* messages it was chosen for do not fill (resolveLimit, assignPlan).
LiftedWithRoom ==
  [][\A d \in Desks :
       /\ phone.pausedAt # NULL /\ phone'.pausedAt = NULL
       /\ desk[d].step # "resolving" /\ desk'[d].step = "resolving"
       /\ desk[d].period \in {NULL, month}
       => desk[d].total < Included(phone', month)]_vars

Full == used[month] >= Included(phone, month)

\* A new message whose report looked up a number that is full and answering.
NewOnFull ==
  \E r \in Reports :
    /\ report[r].step = "recording" /\ report[r].seen = phone /\ report[r].row
    /\ report[r].msg \notin recorded /\ delivered[report[r].msg] = month
    /\ \A q \in Reports \ {r} : report[q].msg # report[r].msg

\* A number left full and answering (a report failed after its count, or the
\* office gave it a plan already used up) is paused by the next new message
\* reported, whatever the other requests do meanwhile, once failures are over;
\* only the month's end or a plan with room excuse it.
NextReportPauses ==
  \A p \in Months :
    (month = p /\ Full /\ faults = MaxFaults /\ NewOnFull) ~> (~Answers \/ month # p \/ ~Full)

\* A month starts with the assistant answering: it pauses for the messages of
\* the month itself (followLimit, schema.prisma on planPausedAt).
PausesForItsMonth == PausedIn(phone, month) => used[month] > 0

\* A report that ended without a failure left its message counted.  Two first
\* messages of a month together do not keep it (Collided).
EndedMeansCounted ==
  [][\A r \in Reports :
       report[r].step = "recording" /\ report'[r].step = "idle" /\ faults' = faults
         => report[r].msg \in recorded]_vars

\* Once the office answers, the notices of the pause leave the pending list
\* (resolveLimitNotices).
NoticeMeansPause ==
  notices > 0 /\ phone.pausedAt = NULL => \E d \in Desks : desk[d].step = "resolving"
=============================================================================
