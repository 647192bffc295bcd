-------------------------- MODULE AssistantActions --------------------------
(***************************************************************************)
(* Changes the panel's assistant proposes and only the person runs         *)
(* (AssistantActionsService).                                              *)
(*                                                                         *)
(* A tool reads what the office has stored and proposes a value for it, as *)
(* a card.  Confirming claims the card, runs the change through the same   *)
(* service as the panel's form, and saves how it went; cancelling discards *)
(* it; a change that was confirmed can be proposed back.  All of them take *)
(* several queries, and run together with edits in the panel.              *)
(*                                                                         *)
(* The executors set one field (the state of a claim, the hours, ...): the *)
(* model has one, Field; those that create a row cannot be undone and are  *)
(* left out.                                                               *)
(***************************************************************************)
EXTENDS Integers

CONSTANTS
  NULL,
  Actions,      \* proposals (rows AssistantAction)
  Values,       \* values of the field the proposals change
  First,        \* the one it has
  Requests,     \* requests to confirm or to cancel that may run at once
  MaxEdits,     \* bound: edits of the field in the panel
  MaxRefusals,  \* bound: changes the service refuses
  MaxFaults,    \* bound: failed queries
  MaxRestarts   \* bound: restarts of the process

ASSUME Parameters ==
  /\ First \in Values
  /\ NULL \notin Actions /\ NULL \notin Values
  /\ MaxEdits \in Nat /\ MaxRefusals \in Nat /\ MaxFaults \in Nat /\ MaxRestarts \in Nat

VARIABLES
  field,     \* what the office has stored
  card,      \* the proposals, NONE before they are made; late: expiresAt passed
  turn,      \* the assistant's turn: what its tool read
  request,   \* confirm and cancel
  ran,       \* history: times the change of each proposal was made
  replaced,  \* history: what it replaced
  edits, refusals, faults, restarts

history == <<ran, replaced>>
counts == <<edits, refusals, faults, restarts>>
vars == <<field, card, turn, request, history, counts>>

Statuses == {"PENDING", "CONFIRMED", "CANCELLED", "FAILED"}

\* undo: the value that going back restores; of: the proposal it goes back on.
Card == [status : Statuses \cup {"NONE"}, to : Values, undo : Values,
         late : BOOLEAN, of : Actions \cup {NULL}]
TurnState == [step : {"idle", "proposing"}, to : Values, undo : Values, of : Actions \cup {NULL}]
Running == {"running", "saving", "touching", "failing"}
RequestState == [step : {"idle", "claiming", "cancelling"} \cup Running,
                 action : Actions \cup {NULL}]

NoCard == [status |-> "NONE", to |-> First, undo |-> First, late |-> FALSE, of |-> NULL]
NoTurn == [step |-> "idle", to |-> First, undo |-> First, of |-> NULL]
NoRequest == [step |-> "idle", action |-> NULL]

CardsOK == card \in [Actions -> Card]
RequestsOK == request \in [Requests -> RequestState]

TypeOK ==
  /\ field \in Values
  /\ CardsOK /\ RequestsOK
  /\ turn \in TurnState
  /\ ran \in [Actions -> Nat] /\ replaced \in [Actions -> Values \cup {NULL}]
  /\ edits \in 0..MaxEdits /\ refusals \in 0..MaxRefusals
  /\ faults \in 0..MaxFaults /\ restarts \in 0..MaxRestarts

Init ==
  /\ field = First
  /\ card = [a \in Actions |-> NoCard]
  /\ turn = NoTurn
  /\ request = [q \in Requests |-> NoRequest]
  /\ ran = [a \in Actions |-> 0] /\ replaced = [a \in Actions |-> NULL]
  /\ edits = 0 /\ refusals = 0 /\ faults = 0 /\ restarts = 0

Stored(a) == card[a].status # "NONE"
Pending(a) == card[a].status = "PENDING" /\ ~card[a].late

Go(q, step) == request' = [request EXCEPT ![q].step = step]
Answer(q) == request' = [request EXCEPT ![q] = NoRequest]

-----------------------------------------------------------------------------
(* The assistant's turn                                                    *)

ReadForgetting(v) ==
  /\ turn.step = "idle" /\ v # field
  /\ turn' = [step |-> "proposing", to |-> v, undo |-> NULL, of |-> NULL]
  /\ UNCHANGED <<field, card, request, history, counts>>

\* A tool reads the field and proposes another value.
ReadField(v) ==
  /\ turn.step = "idle" /\ v # field
  /\ turn' = [step |-> "proposing", to |-> v, undo |-> field, of |-> NULL]
  /\ UNCHANGED <<field, card, request, history, counts>>

\* proponer_deshacer: the other way round, from what was stored when proposed.
ReadConfirmed(b) ==
  /\ turn.step = "idle" /\ card[b].status = "CONFIRMED"
  /\ turn' = [step |-> "proposing", to |-> card[b].undo, undo |-> card[b].to, of |-> b]
  /\ UNCHANGED <<field, card, request, history, counts>>

Propose(a) ==
  /\ turn.step = "proposing" /\ ~Stored(a)
  /\ card' = [card EXCEPT ![a] = [status |-> "PENDING", to |-> turn.to,
                                  undo |-> turn.undo, late |-> FALSE, of |-> turn.of]]
  /\ turn' = NoTurn
  /\ UNCHANGED <<field, request, history, counts>>

\* Half an hour passes.
Expire(a) ==
  /\ Pending(a)
  /\ card' = [card EXCEPT ![a].late = TRUE]
  /\ UNCHANGED <<field, turn, request, history, counts>>

-----------------------------------------------------------------------------
(* Confirming                                                              *)

ConfirmRead(q, a) ==
  /\ request[q].step = "idle" /\ Pending(a)
  /\ request' = [request EXCEPT ![q] = [step |-> "claiming", action |-> a]]
  /\ UNCHANGED <<field, card, turn, history, counts>>

ClaimBlindly(q) ==
  LET a == request[q].action IN
  /\ request[q].step = "claiming"
  /\ card' = [card EXCEPT ![a].status = "CONFIRMED"]
  /\ Go(q, "running")
  /\ UNCHANGED <<field, turn, history, counts>>

\* "Claim it first": expiry is judged by the time the request came.
Claim(q) ==
  LET a == request[q].action IN
  /\ request[q].step = "claiming" /\ card[a].status = "PENDING"
  /\ card' = [card EXCEPT ![a].status = "CONFIRMED"]
  /\ Go(q, "running")
  /\ UNCHANGED <<field, turn, history, counts>>

ClaimMissed(q) ==
  /\ request[q].step = "claiming" /\ card[request[q].action].status # "PENDING"
  /\ Answer(q)
  /\ UNCHANGED <<field, card, turn, history, counts>>

Execute(q) ==
  LET a == request[q].action IN
  /\ request[q].step = "running"
  /\ field' = card[a].to
  /\ ran' = [ran EXCEPT ![a] = @ + 1]
  /\ replaced' = [replaced EXCEPT ![a] = field]
  /\ Go(q, "saving")
  /\ UNCHANGED <<card, turn, counts>>

\* The service refuses the change: not found, no permission, not valid.
ExecuteRefused(q) ==
  /\ request[q].step = "running" /\ refusals < MaxRefusals
  /\ refusals' = refusals + 1
  /\ Go(q, "failing")
  /\ UNCHANGED <<field, card, turn, history, edits, faults, restarts>>

\* The result of the card, then the date of its conversation.
SaveResult(q) ==
  /\ request[q].step = "saving"
  /\ Go(q, "touching")
  /\ UNCHANGED <<field, card, turn, history, counts>>

Touch(q) ==
  /\ request[q].step = "touching"
  /\ Answer(q)
  /\ UNCHANGED <<field, card, turn, history, counts>>

FailQuietly(q) ==
  /\ request[q].step = "failing"
  /\ Answer(q)
  /\ UNCHANGED <<field, card, turn, history, counts>>

Fail(q) ==
  /\ request[q].step = "failing"
  /\ card' = [card EXCEPT ![request[q].action].status = "FAILED"]
  /\ Answer(q)
  /\ UNCHANGED <<field, turn, history, counts>>

\* Inside the try a failed query goes to the catch; elsewhere it ends the request.
QueryFails(q) ==
  /\ faults < MaxFaults /\ faults' = faults + 1
  /\ \/ request[q].step \in {"running", "saving", "touching"} /\ Go(q, "failing")
     \/ request[q].step \in {"claiming", "failing", "cancelling"} /\ Answer(q)
  /\ UNCHANGED <<field, card, turn, history, edits, refusals, restarts>>

-----------------------------------------------------------------------------
(* Cancelling, the panel and the process                                   *)

CancelRead(q, a) ==
  /\ request[q].step = "idle" /\ Pending(a)
  /\ request' = [request EXCEPT ![q] = [step |-> "cancelling", action |-> a]]
  /\ UNCHANGED <<field, card, turn, history, counts>>

Cancel(q) ==
  /\ request[q].step = "cancelling"
  /\ card' = [card EXCEPT ![request[q].action].status = "CANCELLED"]
  /\ Answer(q)
  /\ UNCHANGED <<field, turn, history, counts>>

\* Somebody edits the field in the panel.
Edit(v) ==
  /\ edits < MaxEdits /\ edits' = edits + 1
  /\ v # field /\ field' = v
  /\ UNCHANGED <<card, turn, request, history, refusals, faults, restarts>>

Restart ==
  /\ restarts < MaxRestarts /\ restarts' = restarts + 1
  /\ turn' = NoTurn /\ request' = [q \in Requests |-> NoRequest]
  /\ UNCHANGED <<field, card, history, edits, refusals, faults>>

Assistant ==
  \/ \E v \in Values : ReadField(v)
  \/ \E b \in Actions : ReadConfirmed(b)
  \/ \E a \in Actions : Propose(a) \/ Expire(a)

Confirm(q) ==
  \/ \E a \in Actions : ConfirmRead(q, a)
  \/ Claim(q) \/ ClaimMissed(q) \/ Execute(q) \/ ExecuteRefused(q)
  \/ SaveResult(q) \/ Touch(q) \/ Fail(q) \/ QueryFails(q)

Discard(q) == (\E a \in Actions : CancelRead(q, a)) \/ Cancel(q)

Next ==
  \/ Assistant
  \/ \E q \in Requests : Confirm(q) \/ Discard(q)
  \/ \E v \in Values : Edit(v)
  \/ Restart

Spec == Init /\ [][Next]_vars

-----------------------------------------------------------------------------
(* Properties                                                              *)

\* "Each proposal runs at most once", however many taps, tabs, cancellations,
\* failures and restarts (AssistantActionsService.confirm).
RunsOnce == \A a \in Actions : ran[a] <= 1

BeingRun(a) == \E q \in Requests : request[q].step \in Running /\ request[q].action = a

\* Once no request is at it, a card says what happened, unless a query failed or
\* the process restarted: confirmed, the change was made; failed, it was not
\* (confirm).
CardIsTrue ==
  faults = 0 /\ restarts = 0 =>
    \A a \in Actions : ~BeingRun(a) =>
      /\ card[a].status = "CONFIRMED" => ran[a] = 1
      /\ card[a].status = "FAILED" => ran[a] = 0

\* A card that says the change failed was not carried out (schema.prisma,
\* AssistantActionStatus).
FailedDidNothing ==
  \A a \in Actions : card[a].status = "FAILED" => ran[a] = 0

\* Cancelling discards a pending proposal only: one that ran stays as it was.
CancelledDidNothing ==
  \A a \in Actions : card[a].status = "CANCELLED" => ran[a] = 0

\* "Esta propuesta ya se aplicó": what a second confirmation is told.
ConfirmedWasApplied ==
  \A a \in Actions :
    card[a].status = "CONFIRMED" /\ ~BeingRun(a) => ran[a] = 1

\* Only a change that was confirmed and applied is proposed back (proposeUndo).
UndoneWasApplied == turn.of # NULL => ran[turn.of] = 1

\* Going back restores exactly what the change replaced (proposeUndo).
UndoPutsBack ==
  \A a \in Actions : Stored(a) /\ ran[a] = 1 => card[a].undo = replaced[a]
=============================================================================
