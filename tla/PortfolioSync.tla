--------------------------- MODULE PortfolioSync ---------------------------
(* The portfolio of one producer code, copied from Triunfo twice a day          *)
(* (cartera-sync/cartera-sync.service.ts): the novedades of a range of months,  *)
(* each with the endorsement of a policy and the state of one of its            *)
(* installments, are written one after the other. A code never synced reads     *)
(* further back. Runs come from the cron, the boot and the panel. The date of a *)
(* novedad and the due date of the installment are months of the clock.         *)
EXTENDS Naturals, FiniteSetsExt

CONSTANTS Runs,
          LastSup,      \* endorsements of the policy, by Suplemento
          Backfill,     \* BACKFILL_MONTHS
          Incremental,  \* INCREMENTAL_MONTHS
          Due,          \* due date of the installment
          LastMonth, MaxFailing

ASSUME SyncParameters ==
  /\ {LastSup, Backfill, Incremental, Due, LastMonth, MaxFailing} \subseteq Nat
  /\ Incremental <= Backfill

Sups == 1..LastSup
Months == 0..LastMonth
NoMonth == LastMonth + 1
Estados == {"PENDIENTE", "PAGADA", "RECHAZADA", "EN PRELIQUIDACION", "ANULADA"}

VARIABLES
  posted,    \* Triunfo: month and installment of each novedad
  month,
  stamped,   \* ProducerCode.lastCarteraSyncAt: NoMonth until the first sync
  syncing,
  run,
  client,    \* Client of the policy: "none", "bare" (no email) or "mailed"
  taken,     \* another client of the organization has the email
  policy,    \* Policy.endorsementNumber, 0 without the row
  cuota,     \* Installment
  written,   \* history: novedades written to the end
  dropped,   \* history: novedades that failed in a run of the whole range
  owed,      \* history: novedades of earlier months in the range of the first stamped run
  cut,       \* history: an ANULADA installment was left alive by a failed write
  lastRead,  \* history: what the last run read, {} if it skipped a part of it
  failing

portfolio == <<client, taken, policy, cuota>>
syncHistory == <<written, dropped, owed, cut, lastRead>>
syncVars == <<posted, month, stamped, syncing, run, portfolio, syncHistory, failing>>

RunSteps == {"idle", "asking", "next", "finding", "checking", "creating", "filling",
             "policy", "cuota", "cancelling", "stamping"}

SyncTypeOK ==
  /\ posted \in [Sups -> [month : 0..NoMonth, estado : Estados]]
  /\ month \in Months /\ stamped \in 0..NoMonth /\ syncing \in BOOLEAN
  /\ run \in [Runs -> [step : RunSteps, from : Months, whole : BOOLEAN, read : SUBSET Sups,
                       todo : SUBSET Sups, clean : BOOLEAN, free : BOOLEAN]]
  /\ client \in {"none", "bare", "mailed"} /\ taken \in BOOLEAN
  /\ policy \in 0..LastSup
  /\ cuota \in [exists : BOOLEAN, status : {"paid", "rejected", "pending", "overdue"},
                estado : Estados, deleted : BOOLEAN]
  /\ written \subseteq Sups /\ dropped \subseteq Sups /\ owed \subseteq Sups /\ cut \in BOOLEAN /\ lastRead \subseteq Sups
  /\ failing \in 0..MaxFailing

IdleRun == [step |-> "idle", from |-> 0, whole |-> FALSE, read |-> {}, todo |-> {}, clean |-> TRUE, free |-> FALSE]

SyncInit ==
  /\ posted = [s \in Sups |-> [month |-> NoMonth, estado |-> "PENDIENTE"]]
  /\ month = 0 /\ stamped = NoMonth /\ syncing = FALSE
  /\ run = [r \in Runs |-> IdleRun]
  /\ client = "none" /\ taken = FALSE /\ policy = 0
  /\ cuota = [exists |-> FALSE, status |-> "pending", estado |-> "PENDIENTE", deleted |-> FALSE]
  /\ written = {} /\ dropped = {} /\ owed = {} /\ cut = FALSE /\ lastRead = {} /\ failing = 0

RunTo(r, step) == run' = [run EXCEPT ![r].step = step]

-----------------------------------------------------------------------------
(* runGuarded and the reading of the code. *)

\* buildDateRange: of the stamp as the run read it.
From == LET back == IF stamped = NoMonth THEN Backfill ELSE Incremental
        IN IF month >= back THEN month - back ELSE 0

\* Slip: a run starts whether or not another is in flight.
RunAnyway(r) ==
  /\ run[r].step = "idle"
  /\ syncing' = TRUE
  /\ run' = [run EXCEPT ![r] = [IdleRun EXCEPT !.step = "asking", !.from = From, !.whole = stamped = NoMonth]]
  /\ UNCHANGED <<posted, month, stamped, portfolio, syncHistory, failing>>

RunGuarded(r) ==
  /\ run[r].step = "idle" /\ ~syncing
  /\ syncing' = TRUE
  /\ run' = [run EXCEPT ![r] = [IdleRun EXCEPT !.step = "asking", !.from = From, !.whole = stamped = NoMonth]]
  /\ UNCHANGED <<posted, month, stamped, portfolio, syncHistory, failing>>

InRange(s, r) == posted[s].month \in run[r].from..month

Novedades(r) ==
  /\ run[r].step = "asking"
  /\ LET read == {s \in Sups : InRange(s, r)} IN
       run' = [run EXCEPT ![r].step = "next", ![r].read = read, ![r].todo = read]
  /\ UNCHANGED <<posted, month, stamped, syncing, portfolio, syncHistory, failing>>

\* Slip: a code Triunfo did not answer for is stamped all the same.
StampFailed(r) ==
  /\ run[r].step = "asking"
  /\ RunTo(r, "stamping")
  /\ UNCHANGED <<posted, month, stamped, syncing, portfolio, syncHistory, failing>>

\* It fails, or the credentials are refused: the code keeps its range.
NovedadesFail(r) ==
  /\ run[r].step = "asking"
  /\ run' = [run EXCEPT ![r] = IdleRun] /\ syncing' = FALSE
  /\ UNCHANGED <<posted, month, stamped, portfolio, syncHistory, failing>>

\* Slip: in the order Triunfo sent them, the newest first.
NewestFirst(r) == Max(run[r].todo)

\* sortBySuplemento: oldest endorsement first, so the newest is written last.
Current(r) == Min(run[r].todo)

NextNovedad(r) ==
  /\ run[r].step = "next"
  /\ RunTo(r, IF run[r].todo = {} THEN "stamping" ELSE "finding")
  /\ UNCHANGED <<posted, month, stamped, syncing, portfolio, syncHistory, failing>>

-----------------------------------------------------------------------------
(* syncNovedad *)

FindClient(r) ==
  /\ run[r].step = "finding"
  /\ RunTo(r, CASE client = "none" -> "checking" [] client = "bare" -> "filling" [] OTHER -> "policy")
  /\ UNCHANGED <<posted, month, stamped, syncing, portfolio, syncHistory, failing>>

CheckEmail(r) ==
  /\ run[r].step = "checking"
  /\ run' = [run EXCEPT ![r].step = "creating", ![r].free = ~taken]
  /\ UNCHANGED <<posted, month, stamped, syncing, portfolio, syncHistory, failing>>

\* The novedad is logged and skipped.
Skips(r) ==
  /\ run' = [run EXCEPT ![r].step = "next", ![r].todo = @ \ {Current(r)}, ![r].clean = FALSE]
  /\ dropped' = IF run[r].whole THEN dropped \cup {Current(r)} ELSE dropped

\* The email is unique: somebody who took it meanwhile makes the creation throw.
CreateClient(r) ==
  /\ run[r].step = "creating"
  /\ IF run[r].free /\ taken
     THEN Skips(r) /\ UNCHANGED client
     ELSE /\ client' = IF run[r].free THEN "mailed" ELSE "bare"
          /\ RunTo(r, "policy") /\ UNCHANGED dropped
  /\ UNCHANGED <<posted, month, stamped, syncing, taken, policy, cuota, written, owed, cut, lastRead, failing>>

\* The email Triunfo reports at last; a conflict is ignored.
FillEmail(r) ==
  /\ run[r].step = "filling"
  /\ client' = IF taken THEN client ELSE "mailed"
  /\ RunTo(r, "policy")
  /\ UNCHANGED <<posted, month, stamped, syncing, taken, policy, cuota, syncHistory, failing>>

UpsertPolicy(r) ==
  /\ run[r].step = "policy"
  /\ policy' = Current(r)
  /\ RunTo(r, "cuota")
  /\ UNCHANGED <<posted, month, stamped, syncing, client, taken, cuota, syncHistory, failing>>

\* Slip: Triunfo's words are stored as they come.
StatusAsIs(estado) == estado

\* mapCuotaStatus; the due date is the midnight its day begins with.
CuotaStatus(estado) ==
  CASE estado = "PAGADA" -> "paid"
    [] estado = "RECHAZADA" -> "rejected"
    [] estado = "EN PRELIQUIDACION" -> "pending"
    [] OTHER -> IF Due <= month THEN "overdue" ELSE "pending"

Written(r) ==
  /\ run' = [run EXCEPT ![r].step = "next", ![r].todo = @ \ {Current(r)}]
  /\ written' = written \cup {Current(r)}

\* Slip: a cuota that came back stays deleted.
UpsertKeepsDeleted(r) ==
  /\ run[r].step = "cuota"
  /\ LET estado == posted[Current(r)].estado cancelled == estado = "ANULADA" IN
       /\ cuota' = [exists |-> TRUE, status |-> CuotaStatus(estado), estado |-> estado,
                    deleted |-> IF cuota.exists THEN cuota.deleted ELSE cancelled]
       /\ IF cancelled THEN RunTo(r, "cancelling") /\ UNCHANGED written ELSE Written(r)
       /\ cut' = (cut /\ cancelled)
  /\ UNCHANGED <<posted, month, stamped, syncing, client, taken, policy, dropped, owed, lastRead, failing>>

\* A cuota that is no longer ANULADA comes back.
UpsertCuota(r) ==
  /\ run[r].step = "cuota"
  /\ LET estado == posted[Current(r)].estado cancelled == estado = "ANULADA" IN
       /\ cuota' = [exists |-> TRUE, status |-> CuotaStatus(estado), estado |-> estado,
                    deleted |-> cancelled /\ (cuota.exists => cuota.deleted)]
       /\ IF cancelled THEN RunTo(r, "cancelling") /\ UNCHANGED written ELSE Written(r)
       /\ cut' = (cut /\ cancelled)
  /\ UNCHANGED <<posted, month, stamped, syncing, client, taken, policy, dropped, owed, lastRead, failing>>

CancelCuota(r) ==
  /\ run[r].step = "cancelling"
  /\ cuota' = [cuota EXCEPT !.deleted = TRUE]
  /\ cut' = FALSE
  /\ Written(r)
  /\ UNCHANGED <<posted, month, stamped, syncing, client, taken, policy, dropped, owed, lastRead, failing>>

InNovedad == {"finding", "checking", "creating", "policy", "cuota", "cancelling"}

\* A query of the novedad throws.
NovedadFails(r) ==
  /\ run[r].step \in InNovedad /\ failing < MaxFailing
  /\ failing' = failing + 1
  /\ Skips(r)
  /\ cut' = (cut \/ run[r].step = "cancelling")
  /\ UNCHANGED <<posted, month, stamped, syncing, portfolio, written, owed, lastRead>>

\* Even when novedades were skipped: they are read again within the shorter range.
\* Its query may fail, which is only logged.
Stamp(r) ==
  /\ run[r].step = "stamping"
  /\ stamped' \in {stamped, month}
  /\ owed' = IF stamped = NoMonth /\ stamped' = month
             THEN {s \in Sups : InRange(s, r) /\ posted[s].month < month} ELSE owed
  /\ lastRead' = IF run[r].clean THEN run[r].read ELSE {}
  /\ run' = [run EXCEPT ![r] = IdleRun] /\ syncing' = FALSE
  /\ UNCHANGED <<posted, month, portfolio, written, dropped, cut, failing>>

-----------------------------------------------------------------------------
(* Around the runs. *)

\* Slip: every pending cuota past its date, debits in course included.
MarkAllOverdue ==
  /\ cuota.exists /\ ~cuota.deleted /\ cuota.status = "pending" /\ Due < month
  /\ cuota' = [cuota EXCEPT !.status = "overdue"]
  /\ UNCHANGED <<posted, month, stamped, syncing, run, client, taken, policy, syncHistory, failing>>

\* markOverdueInstallments, every night: not a debit the bank has not answered.
MarkOverdue ==
  /\ cuota.exists /\ ~cuota.deleted /\ cuota.status = "pending" /\ Due < month
  /\ cuota.estado # "EN PRELIQUIDACION"
  /\ cuota' = [cuota EXCEPT !.status = "overdue"]
  /\ UNCHANGED <<posted, month, stamped, syncing, run, client, taken, policy, syncHistory, failing>>

Post(s, estado) ==
  /\ posted[s].month = NoMonth
  /\ \A t \in Sups : t < s => posted[t].month # NoMonth
  /\ posted' = [posted EXCEPT ![s] = [month |-> month, estado |-> estado]]
  /\ UNCHANGED <<month, stamped, syncing, run, portfolio, syncHistory, failing>>

\* The panel gives the email to somebody else, or frees it.
EmailElsewhere ==
  /\ client # "mailed" /\ taken' = ~taken
  /\ UNCHANGED <<posted, month, stamped, syncing, run, client, policy, cuota, syncHistory, failing>>

\* Runs last minutes: none goes on across a month.
MonthPasses ==
  /\ month < LastMonth /\ ~syncing
  /\ month' = month + 1
  /\ UNCHANGED <<posted, stamped, syncing, run, portfolio, syncHistory, failing>>

SyncRestarts ==
  /\ syncing /\ failing < MaxFailing
  /\ failing' = failing + 1
  /\ cut' = (cut \/ \E r \in Runs : run[r].step = "cancelling")
  /\ run' = [r \in Runs |-> IdleRun] /\ syncing' = FALSE /\ lastRead' = {}
  /\ UNCHANGED <<posted, month, stamped, portfolio, written, dropped, owed>>

SyncNext ==
  \/ \E r \in Runs :
       \/ RunGuarded(r) \/ Novedades(r) \/ NovedadesFail(r) \/ NextNovedad(r)
       \/ FindClient(r) \/ CheckEmail(r) \/ CreateClient(r) \/ FillEmail(r)
       \/ UpsertPolicy(r) \/ UpsertCuota(r) \/ CancelCuota(r) \/ NovedadFails(r) \/ Stamp(r)
  \/ \E s \in Sups, e \in Estados : Post(s, e)
  \/ MarkOverdue \/ EmailElsewhere \/ MonthPasses \/ SyncRestarts

SyncSpec == SyncInit /\ [][SyncNext]_syncVars

-----------------------------------------------------------------------------
(* Properties *)

\* However runs are started, and whatever happens to one, the policy is at the
\* newest endorsement of the last answer that was written whole
\* (cartera-sync.service.ts:122-130 and 223).
NewestStays == ~syncing /\ lastRead # {} => policy = Max(lastRead)

\* "A failed code must keep its range instead of leaving a permanent hole": of
\* the months before the first stamp, every novedad was written or its own
\* writing failed.
BackfillWhole == owed \subseteq written \cup dropped

\* The installment is what Triunfo said last: ANULADA exactly when deleted
\* (save by a write that was cut), a debit in the bank neither paid nor overdue,
\* whatever the night's pass does between the statements of a run.
CuotaIsTriunfos ==
  /\ cuota.exists /\ ~cut /\ (\A r \in Runs : run[r].step # "cancelling")
       => (cuota.estado = "ANULADA" <=> cuota.deleted)
  /\ cuota.estado = "EN PRELIQUIDACION" => cuota.status = "pending"
  /\ cuota.estado = "PAGADA" => cuota.status = "paid"

\* The policy and its installment are as Triunfo last told.
PortfolioFollows == NewestStays /\ CuotaIsTriunfos

\* Nothing of the first range is missed, and what is written follows Triunfo.
PortfolioFits == BackfillWhole /\ PortfolioFollows

\* What the code does not keep: a novedad of the first range that failed and is
\* older than the shorter one is never read again.
FailedIsRetried ==
  \A s \in dropped \ written : stamped # NoMonth => posted[s].month + Incremental >= stamped
=============================================================================
