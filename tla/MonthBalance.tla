---------------------------- MODULE MonthBalance ----------------------------
(* The balance of an organization's months                                      *)
(* (balance/monthly-balance-snapshot.service.ts): the month's records are       *)
(* counted whenever it is written, as they are then, but the state at its end   *)
(* is read only within three days of it. A snapshot runs at 00:30 of the 1st,   *)
(* at boot or for the owner, one at a time. A month has three parts: its 1st,   *)
(* the other days of grace, and the rest.                                       *)
EXTENDS Naturals

CONSTANTS LastPeriod,
          MonthsBack,  \* MONTHLY_BALANCE_BACKFILL_MONTHS
          MaxMoves, MaxBreaks

ASSUME BalanceParameters ==
  {LastPeriod, MonthsBack, MaxMoves, MaxBreaks} \subseteq Nat \ {0}

Periods == 0..LastPeriod
Unread == 2  \* null: nobody read it
Parts == {"first", "grace", "rest"}

VARIABLES
  now,       \* month and part
  debt,      \* what the month-end metrics read: unpaid installments, open claims...
  records,   \* what is counted as of each month: quotes, claims, messages, policies...
  balance,   \* MonthlyBalance of each month
  snapshot,  \* the one in course
  owed,      \* the snapshot of this 1st is still to come
  debts,     \* history: what debt was between a month's end and the end of its grace
  counts,    \* history: and what records of the month there were
  skipped,   \* history: "overlap" or "mishap": why the snapshot of this 1st did not write
  moves, breaks

balanceHistory == <<debts, counts, skipped>>
balanceVars == <<now, debt, records, balance, snapshot, owed, balanceHistory, moves, breaks>>

SnapshotSteps == {"idle", "checking", "reading", "counting", "writing"}
NoSnapshot == [step |-> "idle", todo |-> {}, force |-> FALSE, cron |-> FALSE, debt |-> Unread, count |-> 0]
NoBalance == [taken |-> FALSE, debt |-> Unread, count |-> 0, backfilled |-> FALSE]

BalanceTypeOK ==
  /\ now \in [month : Periods, part : Parts]
  /\ debt \in 0..1 /\ records \in [Periods -> 0..MaxMoves]
  /\ balance \in [Periods -> [taken : BOOLEAN, debt : 0..2, count : 0..MaxMoves, backfilled : BOOLEAN]]
  /\ snapshot \in [step : SnapshotSteps, todo : SUBSET Periods, force : BOOLEAN, cron : BOOLEAN,
                   debt : 0..2, count : 0..MaxMoves]
  /\ owed \in BOOLEAN
  /\ debts \in [Periods -> SUBSET (0..1)] /\ counts \in [Periods -> SUBSET (0..MaxMoves)]
  /\ skipped \subseteq {"overlap", "mishap"}
  /\ moves \in 0..MaxMoves /\ breaks \in 0..MaxBreaks

BalanceInit ==
  /\ now = [month |-> 0, part |-> "rest"]
  /\ debt = 0 /\ records = [p \in Periods |-> 0]
  /\ balance = [p \in Periods |-> NoBalance]
  /\ snapshot = NoSnapshot /\ owed = FALSE
  /\ debts = [p \in Periods |-> {}] /\ counts = [p \in Periods |-> {}] /\ skipped = {}
  /\ moves = 0 /\ breaks = 0

-----------------------------------------------------------------------------
(* backfill, snapshotPeriod and snapshotOrganization, through runGuarded *)

\* closedPeriods: the last months that have ended.
ClosedPeriods == {p \in Periods : p < now.month /\ p + MonthsBack >= now.month}

StartSnapshot(todo, force, cron) ==
  snapshot' = [NoSnapshot EXCEPT !.step = "checking", !.todo = todo, !.force = force, !.cron = cron]

\* closeMonth: another one in course makes it skip this run.
ScheduledSnapshot ==
  /\ owed
  /\ owed' = FALSE
  /\ IF snapshot.step = "idle"
     THEN StartSnapshot(ClosedPeriods, FALSE, TRUE) /\ UNCHANGED skipped
     ELSE skipped' = skipped \cup {"overlap"} /\ UNCHANGED snapshot
  /\ UNCHANGED <<now, debt, records, balance, debts, counts, moves, breaks>>

BootSnapshot ==
  /\ snapshot.step = "idle" /\ ClosedPeriods # {}
  /\ StartSnapshot(ClosedPeriods, FALSE, FALSE)
  /\ UNCHANGED <<now, debt, records, balance, owed, balanceHistory, moves, breaks>>

OwnerSnapshot(p, force) ==
  /\ snapshot.step = "idle" /\ p < now.month
  /\ StartSnapshot({p}, force, FALSE)
  /\ UNCHANGED <<now, debt, records, balance, owed, balanceHistory, moves, breaks>>

\* Oldest first.
Period == CHOOSE p \in snapshot.todo : \A q \in snapshot.todo : p <= q

NextPeriod ==
  snapshot' = IF snapshot.todo = {Period} THEN NoSnapshot
              ELSE [snapshot EXCEPT !.step = "checking", !.todo = @ \ {Period}, !.debt = Unread, !.count = 0]

\* A month with rows is left alone unless it is forced.
CheckBalance ==
  /\ snapshot.step = "checking"
  /\ IF balance[Period].taken /\ ~snapshot.force THEN NextPeriod
     ELSE snapshot' = [snapshot EXCEPT !.step = "reading"]
  /\ UNCHANGED <<now, debt, records, balance, owed, balanceHistory, moves, breaks>>

\* Slip: the state of any month still is that of its end.
AlwaysMonthEnd(p) == p < now.month

\* Within MONTH_END_GRACE_MS of the end.
MonthEnd(p) == now.month = p + 1 /\ now.part # "rest"

\* computeOrganization: the month-end metrics, of the state as it is now...
ReadState ==
  /\ snapshot.step = "reading"
  /\ snapshot' = [snapshot EXCEPT !.step = "counting", !.debt = IF MonthEnd(Period) THEN debt ELSE Unread]
  /\ UNCHANGED <<now, debt, records, balance, owed, balanceHistory, moves, breaks>>

\* ...and those that count what is dated in the month, as it is now.
CountRecords ==
  /\ snapshot.step = "counting"
  /\ snapshot' = [snapshot EXCEPT !.step = "writing", !.count = records[Period]]
  /\ UNCHANGED <<now, debt, records, balance, owed, balanceHistory, moves, breaks>>

WriteBalance ==
  /\ snapshot.step = "writing"
  /\ balance' = [balance EXCEPT ![Period] =
       [taken |-> TRUE, debt |-> snapshot.debt, count |-> snapshot.count, backfilled |-> ~MonthEnd(Period)]]
  /\ NextPeriod
  /\ UNCHANGED <<now, debt, records, owed, balanceHistory, moves, breaks>>

-----------------------------------------------------------------------------

\* A snapshot takes minutes: none goes on across the parts of a month.
TurnMonth ==
  /\ now.part = "rest" /\ now.month < LastPeriod /\ snapshot.step = "idle"
  /\ now' = [month |-> now.month + 1, part |-> "first"]
  /\ owed' = TRUE /\ skipped' = {}
  /\ debts' = [debts EXCEPT ![now.month] = {debt}]
  /\ counts' = [counts EXCEPT ![now.month] = {records[now.month]}]
  /\ UNCHANGED <<debt, records, balance, snapshot, moves, breaks>>

DaysPass ==
  /\ now.part # "rest" /\ snapshot.step = "idle" /\ ~owed
  /\ now' = [now EXCEPT !.part = IF @ = "first" THEN "grace" ELSE "rest"]
  /\ UNCHANGED <<debt, records, balance, snapshot, owed, balanceHistory, moves, breaks>>

DebtChanges ==
  /\ moves < MaxMoves /\ moves' = moves + 1
  /\ debt' = 1 - debt
  /\ debts' = IF now.part = "rest" THEN debts ELSE [debts EXCEPT ![now.month - 1] = @ \cup {1 - debt}]
  /\ UNCHANGED <<now, records, balance, snapshot, owed, counts, skipped, breaks>>

\* The records of the months change, those that ended too.
Recount(rows) ==
  /\ moves < MaxMoves /\ moves' = moves + 1
  /\ records' = rows
  /\ counts' = IF now.part = "rest" THEN counts
               ELSE [counts EXCEPT ![now.month - 1] = @ \cup {rows[now.month - 1]}]
  /\ UNCHANGED <<now, debt, balance, snapshot, owed, debts, skipped, breaks>>

\* One of this month, or a message of a past one that is reported late.
RecordAdded(p) ==
  /\ p <= now.month
  /\ Recount([records EXCEPT ![p] = @ + 1])

\* One that is removed, or a policy that does not count by its status of today.
RecordGone(p) ==
  /\ p <= now.month /\ records[p] > 0
  /\ Recount([records EXCEPT ![p] = @ - 1])

\* A request for a person joined by another, which dates it anew (joinOpenHandoff).
RecordMoved(p) ==
  /\ p < now.month /\ records[p] > 0
  /\ Recount([records EXCEPT ![p] = @ - 1, ![now.month] = @ + 1])

\* A query throws, or the process dies, with the snapshot of the 1st still to come or not.
SnapshotBreaks ==
  /\ snapshot.step # "idle" \/ owed
  /\ breaks < MaxBreaks /\ breaks' = breaks + 1
  /\ snapshot' = NoSnapshot
  /\ owed' \in {owed, FALSE}
  /\ skipped' = IF snapshot.cron \/ (owed /\ ~owed') THEN skipped \cup {"mishap"} ELSE skipped
  /\ UNCHANGED <<now, debt, records, balance, debts, counts, moves>>

BalanceNext ==
  \/ ScheduledSnapshot \/ BootSnapshot \/ (\E p \in Periods, force \in BOOLEAN : OwnerSnapshot(p, force))
  \/ CheckBalance \/ ReadState \/ CountRecords \/ WriteBalance
  \/ TurnMonth \/ DaysPass \/ DebtChanges \/ SnapshotBreaks
  \/ \E p \in Periods : RecordAdded(p) \/ RecordGone(p) \/ RecordMoved(p)

BalanceSpec == BalanceInit /\ [][BalanceNext]_balanceVars

-----------------------------------------------------------------------------
(* Properties *)

\* A month's balance tells its month-end state only as read in the days of grace,
\* and one that is not marked as rebuilt counts what there was in them; it is
\* there by then, unless the snapshot of the 1st overlapped another or failed
\* (monthly-balance-snapshot.service.ts:38-42, 116-120).
BalanceIsTimely ==
  /\ \A p \in Periods : balance[p].taken =>
       /\ balance[p].backfilled \/ balance[p].count \in counts[p]
       /\ balance[p].debt \in debts[p] \cup {Unread}
       /\ balance[p].backfilled <=> balance[p].debt = Unread
  /\ now.part = "grace" /\ skipped = {} => balance[now.month - 1].taken

\* "A month with rows is never rewritten unless the owner forces it."
RewrittenIfForced ==
  [][\A p \in Periods : balance[p].taken /\ balance'[p] # balance[p] => snapshot.force]_balanceVars

\* What the code does not keep: what is counted as of a month goes on changing
\* after its balance is written (monthly-balance-snapshot.service.ts:204, 256).
CountIsWhole == \A p \in Periods : balance[p].taken => balance[p].count = records[p]

\* What the code does not keep: the snapshot of the 1st is skipped while the
\* owner's of another month goes on, and the month-end state is never read.
FirstIsTaken == now.part = "grace" /\ "mishap" \notin skipped => balance[now.month - 1].taken
=============================================================================
