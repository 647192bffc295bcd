-------------------------- MODULE RejectionNotices --------------------------
(***************************************************************************)
(* The notices of rejected debits (RejectionsService).                     *)
(*                                                                         *)
(* The office uploads Triunfo's Excels, whose periods overlap; each        *)
(* becomes an import with one row per rejected installment.  Rows are then *)
(* sent (claimed one by one, delivered in the background), marked as told  *)
(* by hand, or removed with their import.  WhatsApp cannot be rolled back: *)
(* what it took and what the row says are written apart, and a failed      *)
(* query or a restart may come between.                                    *)
(***************************************************************************)
EXTENDS Integers

CONSTANTS
  NULL,
  Imports,        \* the Excels uploaded
  Installments,   \* installments, numbered as the rows of the Excel are
  Paid,           \* rows whose Excel says the installment is no longer pending
  Reachable,      \* installments with a phone that reads as a WhatsApp id
  Requests,       \* requests to send made by the panel
  MaxFaults,      \* bound: failed queries
  MaxLost,        \* bound: sends WhatsApp took whose answer never came
  MaxRestarts     \* bound: restarts of the process

Rows == Imports \X Installments

Open == {"READY", "SKIPPED", "FAILED"}
Statuses == Open \cup {"SENDING", "SENT", "MARKED"}

ASSUME Parameters ==
  /\ Installments \subseteq Nat
  /\ Paid \subseteq Rows /\ Reachable \subseteq Installments
  /\ MaxFaults \in Nat /\ MaxLost \in Nat /\ MaxRestarts \in Nat
  /\ NULL \notin Statuses /\ NULL \notin Rows

VARIABLES
  status,    \* of each row, NULL before its Excel is stored
  removed,   \* imports with deletedAt (their rows have it too)
  chat,      \* rows whose notice is a message of the client's chat
  note,      \* rows whose error says it was sent and is not in the chat
  upload,    \* RejectionsService.create, by import
  remover,   \* RejectionsService.remove, by import
  send,      \* RejectionsService.send and its deliverAll, by request
  told,      \* history: how many times WhatsApp took the notice of each row
  taken,     \* history: rows it took since they were last claimed
  doubts,    \* history: how many times a taken row was left as FAILED
  faults, lost, restarts

rows == <<status, chat, note>>
history == <<told, taken, doubts>>
counts == <<faults, lost, restarts>>
vars == <<rows, removed, upload, remover, send, history, counts>>

UploadState == [step : {"due", "read", "stored"}, notified : SUBSET Installments]

\* todo: rows still to claim; mine: claimed and still to deliver; cur: in course.
Working == {"sending", "refused", "recording", "saving", "noting", "giving_up"}
SendState == [step : {"idle", "claiming", "delivering", "done", "dead"} \cup Working,
              todo : SUBSET Rows, mine : SUBSET Rows, cur : Rows \cup {NULL}]

HandsOK == send \in [Requests -> SendState]

TypeOK ==
  /\ status \in [Rows -> Statuses \cup {NULL}]
  /\ removed \subseteq Imports /\ chat \subseteq Rows /\ note \subseteq Rows
  /\ upload \in [Imports -> UploadState]
  /\ remover \in [Imports -> {"idle", "counted"}]
  /\ HandsOK
  /\ told \in [Rows -> Nat] /\ taken \subseteq Rows /\ doubts \in [Rows -> Nat]
  /\ faults \in Nat /\ lost \in Nat /\ restarts \in Nat

At(step) == [step |-> step, todo |-> {}, mine |-> {}, cur |-> NULL]

Init ==
  /\ status = [r \in Rows |-> NULL]
  /\ removed = {} /\ chat = {} /\ note = {}
  /\ upload = [i \in Imports |-> [step |-> "due", notified |-> {}]]
  /\ remover = [i \in Imports |-> "idle"]
  /\ send = [q \in Requests |-> At("idle")]
  /\ told = [r \in Rows |-> 0] /\ taken = {} /\ doubts = [r \in Rows |-> 0]
  /\ faults = 0 /\ lost = 0 /\ restarts = 0

RowsOf(i) == {r \in Rows : r[1] = i}
Stored(i) == upload[i].step = "stored" /\ i \notin removed

-----------------------------------------------------------------------------
(* The imports: create, mark, remove. *)

\* alreadyNotified, read before the rows are stored.
Notified ==
  {n \in Installments :
     \E j \in Imports \ removed : status[<<j, n>>] \in {"SENT", "MARKED"}}

CreateRead(i) ==
  /\ upload[i].step = "due"
  /\ upload' = [upload EXCEPT ![i] = [step |-> "read", notified |-> Notified]]
  /\ UNCHANGED <<rows, removed, remover, send, history, counts>>

\* Slip: the reason goes to the column of the status.
ReasonAsStatus(r, notified) ==
  IF r[2] \notin Reachable THEN "NO_PHONE" ELSE IF r \in Paid THEN "ALREADY_PAID" ELSE "READY"

FirstStatus(r, notified) ==
  IF r[2] \notin Reachable \/ r \in Paid \/ r[2] \in notified THEN "SKIPPED" ELSE "READY"

CreateStore(i) ==
  /\ upload[i].step = "read"
  /\ status' = [r \in Rows |->
       IF r[1] = i THEN FirstStatus(r, upload[i].notified) ELSE status[r]]
  /\ upload' = [upload EXCEPT ![i] = [step |-> "stored", notified |-> {}]]
  /\ UNCHANGED <<removed, chat, note, remover, send, history, counts>>

\* One updateMany: the office told these clients by other means.
Mark(i, chosen) ==
  /\ Stored(i)
  /\ \E r \in chosen : status[r] \in Open
  /\ status' = [r \in Rows |->
       IF r \in chosen /\ status[r] \in Open THEN "MARKED" ELSE status[r]]
  /\ note' = note \ {r \in chosen : status[r] \in Open}
  /\ UNCHANGED <<removed, chat, upload, remover, send, history, counts>>

\* The count of SENDING and the transaction that deletes are two statements.
RemoveCount(i) ==
  /\ remover[i] = "idle"
  /\ Stored(i)
  /\ \A r \in RowsOf(i) : status[r] # "SENDING"
  /\ remover' = [remover EXCEPT ![i] = "counted"]
  /\ UNCHANGED <<rows, removed, upload, send, history, counts>>

RemoveCommit(i) ==
  /\ remover[i] = "counted"
  /\ removed' = removed \cup {i}
  /\ remover' = [remover EXCEPT ![i] = "idle"]
  /\ UNCHANGED <<rows, upload, send, history, counts>>

-----------------------------------------------------------------------------
(* Sending: the request reads the rows and claims them one by one. *)

\* orderBy rowNumber; the rows of a request are of one import.
First(r, S) == r \in S /\ \A s \in S : r[2] <= s[2]

SendRead(q, i, chosen) ==
  /\ send[q].step = "idle"
  /\ Stored(i)
  /\ LET candidates == {r \in chosen : status[r] \in Open /\ r[2] \in Reachable} IN
       /\ candidates # {}
       /\ send' = [send EXCEPT ![q] = [At("claiming") EXCEPT !.todo = candidates]]
  /\ UNCHANGED <<rows, removed, upload, remover, history, counts>>

\* Slip: the update does not ask for an open status again.
ClaimBlindly(q, r) ==
  /\ send[q].step = "claiming" /\ First(r, send[q].todo)
  /\ status' = [status EXCEPT ![r] = "SENDING"]
  /\ note' = note \ {r} /\ taken' = taken \ {r}
  /\ send' = [send EXCEPT ![q].todo = @ \ {r}, ![q].mine = @ \cup {r}]
  /\ UNCHANGED <<removed, chat, upload, remover, told, doubts, counts>>

\* updateMany where the status is still open: counts 1.
Claim(q, r) ==
  /\ send[q].step = "claiming" /\ First(r, send[q].todo)
  /\ status[r] \in Open
  /\ status' = [status EXCEPT ![r] = "SENDING"]
  /\ note' = note \ {r} /\ taken' = taken \ {r}
  /\ send' = [send EXCEPT ![q].todo = @ \ {r}, ![q].mine = @ \cup {r}]
  /\ UNCHANGED <<removed, chat, upload, remover, told, doubts, counts>>

\* Somebody else took it or it was marked: counts 0.
ClaimMissed(q, r) ==
  /\ send[q].step = "claiming" /\ First(r, send[q].todo)
  /\ status[r] \notin Open
  /\ send' = [send EXCEPT ![q].todo = @ \ {r}]
  /\ UNCHANGED <<rows, removed, upload, remover, history, counts>>

\* With nothing claimed it answers 400, else deliverAll starts in the background.
Launch(q) ==
  /\ send[q].step = "claiming" /\ send[q].todo = {}
  /\ send' = [send EXCEPT ![q].step = IF send[q].mine = {} THEN "done" ELSE "delivering"]
  /\ UNCHANGED <<rows, removed, upload, remover, history, counts>>

\* A query of the claiming loop fails: the request ends and its claims stay.
ClaimFails(q) ==
  /\ send[q].step = "claiming" /\ faults < MaxFaults
  /\ faults' = faults + 1
  /\ send' = [send EXCEPT ![q].step = "dead", ![q].todo = {}]
  /\ UNCHANGED <<rows, removed, upload, remover, history, lost, restarts>>

-----------------------------------------------------------------------------
(* Delivering: deliverAll and deliverOne, one row after another. *)

Go(q, step) == send' = [send EXCEPT ![q].step = step]

\* The row in course is finished with: on to the next one.
Done(q) ==
  send' = [send EXCEPT ![q].cur = NULL,
                       ![q].step = IF send[q].mine = {} THEN "done" ELSE "delivering"]

\* deliverOne reads the row and the client's conversation.
Load(q, r) ==
  /\ send[q].step = "delivering" /\ First(r, send[q].mine)
  /\ send' = [send EXCEPT ![q].step = "sending", ![q].mine = @ \ {r}, ![q].cur = r]
  /\ UNCHANGED <<rows, removed, upload, remover, history, counts>>

\* WhatsApp takes it, refuses it, or takes it and the answer is lost.
Taken(q) ==
  /\ send[q].step = "sending"
  /\ told' = [told EXCEPT ![send[q].cur] = @ + 1]
  /\ taken' = taken \cup {send[q].cur}
  /\ Go(q, "recording")
  /\ UNCHANGED <<rows, removed, upload, remover, doubts, counts>>

Refused(q) ==
  /\ send[q].step = "sending"
  /\ Go(q, "refused")
  /\ UNCHANGED <<rows, removed, upload, remover, history, counts>>

AnswerLost(q) ==
  /\ send[q].step = "sending" /\ lost < MaxLost
  /\ lost' = lost + 1
  /\ told' = [told EXCEPT ![send[q].cur] = @ + 1]
  /\ taken' = taken \cup {send[q].cur}
  /\ Go(q, "refused")
  /\ UNCHANGED <<rows, removed, upload, remover, doubts, faults, restarts>>

\* A row is left as FAILED: a doubt if WhatsApp had taken it.
Fail(r) ==
  /\ status' = [status EXCEPT ![r] = "FAILED"]
  /\ doubts' = [doubts EXCEPT ![r] = IF r \in taken THEN @ + 1 ELSE @]
  /\ note' = note \ {r}

\* Slip: the reason is logged and the row is not touched.
RefuseQuietly(q) ==
  /\ send[q].step = "refused"
  /\ Done(q)
  /\ UNCHANGED <<rows, removed, upload, remover, history, counts>>

Refuse(q) ==
  /\ send[q].step = "refused"
  /\ Fail(send[q].cur)
  /\ Done(q)
  /\ UNCHANGED <<chat, removed, upload, remover, told, taken, counts>>

\* recordInChat, then the update to SENT.
Record(q) ==
  /\ send[q].step = "recording"
  /\ chat' = chat \cup {send[q].cur}
  /\ Go(q, "saving")
  /\ UNCHANGED <<status, note, removed, upload, remover, history, counts>>

Save(q) ==
  /\ send[q].step = "saving"
  /\ status' = [status EXCEPT ![send[q].cur] = "SENT"]
  /\ note' = note \ {send[q].cur}
  /\ Done(q)
  /\ UNCHANGED <<chat, removed, upload, remover, history, counts>>

\* Slip: without the error text.
SaveSilently(q) ==
  /\ send[q].step = "noting"
  /\ status' = [status EXCEPT ![send[q].cur] = "SENT"]
  /\ Done(q)
  /\ UNCHANGED <<chat, note, removed, upload, remover, history, counts>>

\* Either query failed: "Se envió, pero no quedó registrado en el chat".
SaveNoted(q) ==
  /\ send[q].step = "noting"
  /\ status' = [status EXCEPT ![send[q].cur] = "SENT"]
  /\ note' = note \cup {send[q].cur}
  /\ Done(q)
  /\ UNCHANGED <<chat, removed, upload, remover, history, counts>>

\* Slip: what could not be sent is stored as sent.
GiveUpAsSent(q) ==
  /\ send[q].step = "giving_up"
  /\ status' = [status EXCEPT ![send[q].cur] = "SENT"]
  /\ Done(q)
  /\ UNCHANGED <<chat, note, removed, upload, remover, history, counts>>

\* deliverOne threw: the catch of deliverAll (where the row is SENDING).
GiveUp(q) ==
  /\ send[q].step = "giving_up"
  /\ IF status[send[q].cur] = "SENDING"
     THEN Fail(send[q].cur)
     ELSE UNCHANGED <<status, note, doubts>>
  /\ Done(q)
  /\ UNCHANGED <<chat, removed, upload, remover, told, taken, counts>>

\* The query after each point fails; the last one ends deliverAll.
AfterFailure(step) ==
  CASE step \in {"sending", "refused", "noting"} -> "giving_up"
    [] step \in {"recording", "saving"} -> "noting"
    [] step = "giving_up" -> "dead"

QueryFails(q) ==
  /\ send[q].step \in Working
  /\ faults < MaxFaults
  /\ faults' = faults + 1
  /\ Go(q, AfterFailure(send[q].step))
  /\ UNCHANGED <<rows, removed, upload, remover, history, lost, restarts>>

-----------------------------------------------------------------------------
(* A restart of the process, and onModuleInit before it serves again. *)

Lost(q) == IF send[q].step \in {"idle", "done"} THEN send[q] ELSE At("done")

Restarted ==
  /\ restarts < MaxRestarts
  /\ restarts' = restarts + 1
  /\ send' = [q \in Requests |-> Lost(q)]
  /\ remover' = [i \in Imports |-> "idle"]
  /\ upload' = [i \in Imports |->
       IF upload[i].step = "read" THEN [step |-> "due", notified |-> {}] ELSE upload[i]]

\* Slip: what was going out is ready to go out again.
RestartAsReady ==
  /\ Restarted
  /\ status' = [r \in Rows |-> IF status[r] = "SENDING" THEN "READY" ELSE status[r]]
  /\ UNCHANGED <<chat, note, removed, history, faults, lost>>

Restart ==
  /\ Restarted
  /\ status' = [r \in Rows |-> IF status[r] = "SENDING" THEN "FAILED" ELSE status[r]]
  /\ note' = {r \in note : status[r] # "SENDING"}
  /\ doubts' = [r \in Rows |->
       IF status[r] = "SENDING" /\ r \in taken THEN doubts[r] + 1 ELSE doubts[r]]
  /\ UNCHANGED <<chat, removed, told, taken, faults, lost>>

-----------------------------------------------------------------------------

ImportStep(i) ==
  \/ CreateRead(i) \/ CreateStore(i)
  \/ \E chosen \in SUBSET RowsOf(i) : Mark(i, chosen)
  \/ RemoveCount(i) \/ RemoveCommit(i)

Claiming(q) ==
  \/ \E r \in send[q].todo : Claim(q, r) \/ ClaimMissed(q, r)
  \/ Launch(q)

Delivering(q) ==
  \/ \E r \in send[q].mine : Load(q, r)
  \/ Taken(q) \/ Refused(q) \/ AnswerLost(q)
  \/ Refuse(q) \/ Record(q) \/ Save(q) \/ SaveNoted(q) \/ GiveUp(q)

SendStep(q) ==
  \/ \E i \in Imports : \E chosen \in SUBSET RowsOf(i) : SendRead(q, i, chosen)
  \/ Claiming(q) \/ ClaimFails(q)
  \/ Delivering(q) \/ QueryFails(q)

Next ==
  \/ \E i \in Imports : ImportStep(i)
  \/ \E q \in Requests : SendStep(q)
  \/ Restart

Spec == Init /\ [][Next]_vars

\* A request that began runs on: the event loop serves every pending promise,
\* and a fetch to the bot ends, with an answer or an error.
FairSpec == Spec /\ \A q \in Requests : WF_vars(Claiming(q) \/ Delivering(q))

-----------------------------------------------------------------------------
(* Properties *)

\* The rows a request has claimed and not finished with.
Held(q) == send[q].mine \cup ({send[q].cur} \cap Rows)

\* Two requests never have the same row to deliver: the claim decides who
\* sends it (rejections.service.ts:287, "a double click never sends the same
\* notice twice").
OneSender ==
  \A q1, q2 \in Requests : q1 # q2 => Held(q1) \cap Held(q2) = {}

\* A client gets the same notice again only if, after WhatsApp took it, the
\* row was left as failed and somebody chose to send it again.
TwiceOnlyAfterDoubt == \A r \in Rows : told[r] <= 1 + doubts[r]

\* What the panel shows as sent, WhatsApp took.
SentWasTaken == \A r \in Rows : status[r] = "SENT" => r \in taken

\* A sent notice is in the client's chat, or its row says that it is not.
ChatOrNote == \A r \in Rows : status[r] = "SENT" => r \in chat \cup note

\* "The office told these clients by other means: they will not be sent
\* again": no request, not even one that read the row before, sends it.
MarkedIsFinal ==
  [][\A r \in Rows : status[r] = "MARKED" =>
       status'[r] = "MARKED" /\ told'[r] = told[r]]_vars

\* What the claim and the outcomes of a row are for: one sender at a time, no
\* repeat without a doubt, and SENT means that WhatsApp took it.
SendsAreTrue == []OneSender /\ []TwiceOnlyAfterDoubt /\ []SentWasTaken /\ MarkedIsFinal

Orphan(r) == \E q \in Requests : send[q].step = "dead" /\ r \in Held(q)

\* The panel polls while a row is SENDING: it ends, unless the query that had
\* to move it failed too and the request died with the row in its hands.
SendingEnds ==
  \A r \in Rows : status[r] = "SENDING" ~> (status[r] # "SENDING" \/ Orphan(r))

\* What the panel and its texts say, and the runs refute.

\* "WhatsApp already took it: it must not look unsent and go out twice."
NeverLooksUnsent == \A r \in Rows : status[r] = "FAILED" => r \notin taken

\* "Esperá a que terminen de enviarse los avisos antes de borrar la carga."
NothingLeavesRemoved ==
  \A r \in Rows : r[1] \in removed => status[r] # "SENDING"

\* "El panel consulta la carga hasta que ninguna quede en SENDING."
PollingEnds == \A r \in Rows : status[r] = "SENDING" ~> status[r] # "SENDING"

\* "Se envió, pero no quedó registrado en el chat del panel."
NoteIsTrue == note \cap chat = {}

\* An installment already told in another import is not offered as READY.
ReadyIsNews ==
  \A r, s \in Rows :
    (/\ r # s /\ r[2] = s[2] /\ r[1] \notin removed /\ s[1] \notin removed
     /\ status[s] \in {"SENT", "MARKED"}) => status[r] # "READY"
=============================================================================
