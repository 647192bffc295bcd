----------------------------- MODULE MonthClose -----------------------------
(* The plan and the messages of each number, frozen once a month ends           *)
(* (monthly-close/monthly-close.service.ts): a close at 00:00 of the 1st, one at *)
(* boot and the ones the owner asks for, one at a time. A month has two parts,  *)
(* its 1st and the rest. Edits of the catalog are left out.                     *)
EXTENDS Naturals

CONSTANTS Numbers,
          Plans, Trial, Smallest,  \* the catalog, its trial and its smallest paid plan
          NoPlan,                  \* null: the smallest paid
          FirstPlan,               \* initialPlanId: of a new number
          LastMonth, MaxChanges, MaxMishaps

ASSUME CloseParameters ==
  /\ Trial \in Plans /\ Smallest \in Plans \ {Trial} /\ NoPlan \notin Plans /\ FirstPlan \in {Trial, NoPlan}
  /\ LastMonth \in Nat \ {0} /\ MaxChanges \in Nat /\ MaxMishaps \in Nat

Months == 0..LastMonth

VARIABLES
  month, first,  \* and whether it is its 1st
  number,        \* PhoneNumber: "active", "off" or "removed", and its plan
  recorded,      \* whether a number has something in UsageMonthly, by month
  closes,        \* MonthlyClose of each month, by number
  closing,       \* the close in course
  due,           \* the close of this 1st is still to come
  plansOf,       \* history: planId of a number at a month's end or on the next 1st
  endPlan,       \* history: its planId at the month's end
  missed,        \* history: the close of this 1st overlapped another or failed
  changes, mishaps

closeHistory == <<plansOf, endPlan, missed>>
closeVars == <<month, first, number, recorded, closes, closing, due, closeHistory, changes, mishaps>>

NoRow == [live |-> FALSE, plan |-> Smallest, usage |-> FALSE, backfilled |-> FALSE]
Rows == [live : BOOLEAN, plan : Plans, usage : BOOLEAN, backfilled : BOOLEAN]
PlanIds == Plans \cup {NoPlan}
NotClosing == [step |-> "idle", period |-> 0, force |-> FALSE, cron |-> FALSE, existing |-> {},
               month |-> [n \in Numbers |-> NoRow]]

CloseTypeOK ==
  /\ month \in Months /\ first \in BOOLEAN
  /\ number \in [Numbers -> [state : {"active", "off", "removed"}, plan : PlanIds]]
  /\ recorded \in [Numbers -> [Months -> BOOLEAN]]
  /\ closes \in [Months -> [Numbers -> Rows]]
  /\ closing \in [step : {"idle", "checking", "reading", "writing"}, period : Months, force : BOOLEAN,
                  cron : BOOLEAN, existing : SUBSET Numbers, month : [Numbers -> Rows]]
  /\ due \in BOOLEAN /\ missed \in BOOLEAN
  /\ plansOf \in [Numbers -> [Months -> SUBSET PlanIds]] /\ endPlan \in [Numbers -> [Months -> PlanIds]]
  /\ changes \in 0..MaxChanges /\ mishaps \in 0..MaxMishaps

CloseInit ==
  /\ month = 0 /\ first = FALSE
  /\ number = [n \in Numbers |-> [state |-> "active", plan |-> FirstPlan]]
  /\ recorded = [n \in Numbers |-> [m \in Months |-> FALSE]]
  /\ closes = [m \in Months |-> [n \in Numbers |-> NoRow]]
  /\ closing = NotClosing /\ due = FALSE /\ missed = FALSE
  /\ plansOf = [n \in Numbers |-> [m \in Months |-> {}]]
  /\ endPlan = [n \in Numbers |-> [m \in Months |-> NoPlan]]
  /\ changes = 0 /\ mishaps = 0

-----------------------------------------------------------------------------
(* close *)

StartClose(p, force, cron) ==
  closing' = [NotClosing EXCEPT !.step = "checking", !.period = p, !.force = force, !.cron = cron]

\* scheduledClose: the conflict with a close in course is only logged.
ScheduledClose ==
  /\ due
  /\ due' = FALSE
  /\ IF closing.step = "idle"
     THEN StartClose(month - 1, FALSE, TRUE) /\ UNCHANGED missed
     ELSE missed' = TRUE /\ UNCHANGED closing
  /\ UNCHANGED <<month, first, number, recorded, closes, plansOf, endPlan, changes, mishaps>>

\* onApplicationBootstrap closes the month before; the owner any that has ended.
AskClose(p, force) ==
  /\ closing.step = "idle" /\ p < month
  /\ StartClose(p, force, FALSE)
  /\ UNCHANGED <<month, first, number, recorded, closes, due, closeHistory, changes, mishaps>>

Closed(p) == \E n \in Numbers : closes[p][n].live
LiveRows(p) == {n \in Numbers : closes[p][n].live}

\* A month with live rows is left alone unless it is forced.
ReadExisting ==
  /\ closing.step = "checking"
  /\ closing' = IF Closed(closing.period) /\ ~closing.force THEN NotClosing
                ELSE [closing EXCEPT !.step = "reading", !.existing = LiveRows(closing.period)]
  /\ UNCHANGED <<month, first, number, recorded, closes, due, closeHistory, changes, mishaps>>

\* serviceStarts: the month of its first message or call.
Started(n, p) == \E m \in 0..p : recorded[n][m]
FirstMonth(n, p) == \A m \in 0..p : m < p => ~recorded[n][m]

\* billFor, assignedPlanFor: a trial holds in the number's first month, and a
\* number without a plan is on the smallest paid one.
BilledPlan(n, p) ==
  LET plan == number[n].plan IN
  IF plan \in Plans /\ (plan = Trial => FirstMonth(n, p)) THEN plan ELSE Smallest

\* The rows close keeps: in service, or with something recorded that month.
Kept(n, p) ==
  /\ number[n].state # "removed" /\ Started(n, p)
  /\ number[n].state = "active" \/ recorded[n][p]

\* isBackfill: after the 1st of the next month.
IsBackfill(p) == month > p + 1 \/ ~first

\* liveMonth: the month computed with the plans of now.
ReadMonth ==
  /\ closing.step = "reading"
  /\ LET p == closing.period IN
       closing' = [closing EXCEPT !.step = "writing",
         !.month = [n \in Numbers |->
           IF Kept(n, p)
           THEN [live |-> TRUE, plan |-> BilledPlan(n, p), usage |-> recorded[n][p], backfilled |-> IsBackfill(p)]
           ELSE NoRow]]
  /\ UNCHANGED <<month, first, number, recorded, closes, due, closeHistory, changes, mishaps>>

\* One transaction: the month's rows, and the end of those that no longer qualify.
WriteClose ==
  /\ closing.step = "writing"
  /\ closes' = [closes EXCEPT ![closing.period] = [n \in Numbers |->
       IF closing.month[n].live THEN closing.month[n]
       ELSE IF n \in closing.existing THEN [closes[closing.period][n] EXCEPT !.live = FALSE]
       ELSE closes[closing.period][n]]]
  /\ closing' = NotClosing
  /\ UNCHANGED <<month, first, number, recorded, due, closeHistory, changes, mishaps>>

-----------------------------------------------------------------------------
(* The months go by, with what the rows read; queries fail and the API restarts. *)

MonthTurns ==
  /\ ~first /\ month < LastMonth /\ closing.step = "idle"
  /\ month' = month + 1 /\ first' = TRUE /\ due' = TRUE /\ missed' = FALSE
  /\ endPlan' = [n \in Numbers |-> [endPlan[n] EXCEPT ![month] = number[n].plan]]
  /\ plansOf' = [n \in Numbers |-> [plansOf[n] EXCEPT ![month] = {number[n].plan}]]
  /\ UNCHANGED <<number, recorded, closes, closing, changes, mishaps>>

\* A close takes seconds: none goes on across a day.
FirstEnds ==
  /\ first /\ ~due /\ closing.step = "idle"
  /\ first' = FALSE
  /\ UNCHANGED <<month, number, recorded, closes, closing, due, closeHistory, changes, mishaps>>

\* assignPlan; and the end of a trial or of the plan itself, which leave none.
ChangePlan(n, p) ==
  /\ changes < MaxChanges /\ number[n].state # "removed" /\ number[n].plan # p
  /\ changes' = changes + 1
  /\ number' = [number EXCEPT ![n].plan = p]
  /\ plansOf' = IF first THEN [plansOf EXCEPT ![n][month - 1] = @ \cup {p}] ELSE plansOf
  /\ UNCHANGED <<month, first, recorded, closes, closing, due, endPlan, missed, mishaps>>

TakeOut(n, state) ==
  /\ changes < MaxChanges /\ number[n].state = "active"
  /\ changes' = changes + 1
  /\ number' = [number EXCEPT ![n].state = state]
  /\ UNCHANGED <<month, first, recorded, closes, closing, due, closeHistory, mishaps>>

\* The first message or call to the model of this month or, reported late, of one
\* before it.
Record(n, m) ==
  /\ number[n].state # "removed" /\ m <= month /\ ~recorded[n][m]
  /\ recorded' = [recorded EXCEPT ![n][m] = TRUE]
  /\ UNCHANGED <<month, first, number, closes, closing, due, closeHistory, changes, mishaps>>

\* A query throws, or the process dies, with the close of the 1st still to come or not.
CloseBreaks ==
  /\ closing.step # "idle" \/ due
  /\ mishaps < MaxMishaps /\ mishaps' = mishaps + 1
  /\ closing' = NotClosing
  /\ due' \in {due, FALSE}
  /\ missed' = (missed \/ closing.cron \/ (due /\ ~due'))
  /\ UNCHANGED <<month, first, number, recorded, closes, plansOf, endPlan, changes>>

CloseNext ==
  \/ ScheduledClose \/ (\E p \in Months, force \in BOOLEAN : AskClose(p, force))
  \/ ReadExisting \/ ReadMonth \/ WriteClose
  \/ MonthTurns \/ FirstEnds \/ CloseBreaks
  \/ \E n \in Numbers :
       \/ \E p \in PlanIds : ChangePlan(n, p)
       \/ \E s \in {"off", "removed"} : TakeOut(n, s)
       \/ \E m \in Months : Record(n, m)

CloseSpec == CloseInit /\ [][CloseNext]_closeVars

-----------------------------------------------------------------------------
(* Properties *)

\* "A closed month is never written again unless the owner asks for it with
\* force", whichever closes of the cron, the boot and the owner come together
\* (monthly-close.service.ts:133).
FrozenUnlessForced ==
  [][\A p \in Months : Closed(p) /\ closes'[p] # closes[p] => closing.force]_closeVars

\* The plans a month may be billed on, by those the number had.
BilledOf(plans) == (plans \cap Plans) \cup IF plans \cap {Trial, NoPlan} = {} THEN {} ELSE {Smallest}

\* A row that is not marked as a backfill is of a plan its number had at the
\* month's end or on the 1st: of the smallest paid, if that was none or a trial
\* it was past, and of no plan of later days (isBackfill).
UnmarkedIsTimely ==
  \A p \in Months, n \in Numbers :
    closes[p][n].live /\ ~closes[p][n].backfilled => closes[p][n].plan \in BilledOf(plansOf[n][p])

\* What the code does not keep: a plan changed on the 1st before the close is
\* frozen as the month's.
UnmarkedIsMonthsEnd ==
  \A p \in Months, n \in Numbers :
    closes[p][n].live /\ ~closes[p][n].backfilled => closes[p][n].plan \in BilledOf({endPlan[n][p]})

\* What the code does not keep: a message of the month reported after its close
\* is in no row.
ClosedIsWhole == \A p \in Months, n \in Numbers : closes[p][n].live => closes[p][n].usage = recorded[n][p]
=============================================================================
