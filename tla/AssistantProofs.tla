-------------------------- MODULE AssistantProofs ---------------------------
(***************************************************************************)
(* What holds of the assistant's proposals for every number of them, of    *)
(* requests, of failures and of restarts.                                  *)
(***************************************************************************)
EXTENDS AssistantActions, TLAPS

-----------------------------------------------------------------------------
(* The inductive invariant *)

\* A request is at a stored card; the one it runs was taken from the person.
RequestsHold ==
  \A q \in Requests :
    LET a == request[q].action IN
    /\ request[q].step # "idle" => a \in Actions /\ Stored(a)
    /\ request[q].step \in Running => card[a].status # "PENDING"
    /\ request[q].step = "running" => ran[a] = 0

OneRunner ==
  \A p, q \in Requests :
    /\ request[p].step \in Running /\ request[q].step \in Running
    /\ request[p].action = request[q].action
    => p = q

UnclaimedNeverRan ==
  \A a \in Actions : card[a].status \in {"NONE", "PENDING"} => ran[a] = 0

IInv == TypeOK /\ RequestsHold /\ OneRunner /\ UnclaimedNeverRan /\ RunsOnce

-----------------------------------------------------------------------------

LEMMA InitIInv == Init => IInv
<1> SUFFICES ASSUME Init PROVE IInv
  OBVIOUS
<1>1. NoRequest \in RequestState /\ NoRequest.step = "idle"
  BY DEF NoRequest, RequestState
<1>2. NoTurn \in TurnState
  BY Parameters DEF NoTurn, TurnState
<1>3. TypeOK
  BY <1>1, <1>2, Parameters DEF Init, TypeOK, CardsOK, RequestsOK, Card, NoCard
<1>4. RequestsHold /\ OneRunner
  BY <1>1 DEF Init, RequestsHold, OneRunner, Running
<1>5. UnclaimedNeverRan /\ RunsOnce
  BY DEF Init, UnclaimedNeverRan, RunsOnce
<1>6. QED
  BY <1>3, <1>4, <1>5 DEF IInv

\* Typing of the requests and of the cards.
LEMMA GoTyping ==
  ASSUME RequestsOK, NEW q \in Requests, NEW step \in Running, Go(q, step)
  PROVE RequestsOK'
BY DEF RequestsOK, RequestState, Go

LEMMA AnswerTyping ==
  ASSUME RequestsOK, NEW q \in Requests, Answer(q) PROVE RequestsOK'
BY DEF RequestsOK, RequestState, Answer, NoRequest

LEMMA StatusTyping ==
  ASSUME CardsOK, NEW a \in Actions, card[a] \in Card, NEW s \in Statuses,
         card' = [card EXCEPT ![a].status = s]
  PROVE CardsOK' /\ card'[a] \in Card /\ card'[a].status = s
<1>1. [card[a] EXCEPT !.status = s] \in Card
  BY DEF Card
<1>2. card' = [card EXCEPT ![a] = [card[a] EXCEPT !.status = s]]
  OBVIOUS
<1>3. QED
  BY <1>1, <1>2 DEF CardsOK, Card

\* The request that takes a card to run; nobody else was running it.
LEMMA ClaimKeepsIInv ==
  ASSUME IInv, NEW q \in Requests, Claim(q) PROVE IInv'
<1> DEFINE a == request[q].action
<1> USE DEF IInv
<1>1. a \in Actions /\ card[a] \in Card /\ card[a].status = "PENDING" /\ ran[a] = 0
  BY DEF Claim, RequestsHold, UnclaimedNeverRan, TypeOK, CardsOK
<1>2. CardsOK' /\ card'[a] \in Card /\ card'[a].status = "CONFIRMED"
  BY <1>1, StatusTyping DEF TypeOK, Claim, Statuses
<1>3. RequestsOK'
  BY GoTyping DEF TypeOK, Claim, Running
<1>4. TypeOK'
  BY <1>2, <1>3 DEF TypeOK, Claim, history, counts
<1>5. /\ request'[q].step = "running" /\ request'[q].action = a
      /\ \A p \in Requests : p # q => request'[p] = request[p]
      /\ \A b \in Actions : b # a => card'[b] = card[b]
      /\ ran' = ran
  BY DEF TypeOK, RequestsOK, RequestState, CardsOK, Claim, Go, history
<1>6. RequestsHold'
  <2>1. ASSUME NEW p \in Requests, p # q
        PROVE  LET b == request[p].action IN
               /\ request[p].step # "idle" => b \in Actions /\ card'[b].status # "NONE"
               /\ request[p].step \in Running => card'[b].status # "PENDING"
               /\ request[p].step = "running" => ran[b] = 0
    BY <1>1, <1>2, <1>5 DEF RequestsHold, Stored, Running
  <2>2. a \in Actions /\ card'[a].status \notin {"NONE", "PENDING"} /\ ran[a] = 0
    BY <1>1, <1>2
  <2>3. QED
    BY <2>1, <2>2, <1>5 DEF RequestsHold, Stored
<1>7. OneRunner'
  BY <1>1, <1>5 DEF OneRunner, RequestsHold
<1>8. UnclaimedNeverRan' /\ RunsOnce'
  BY <1>1, <1>5 DEF UnclaimedNeverRan, RunsOnce
<1>9. QED
  BY <1>4, <1>6, <1>7, <1>8

LEMMA ExecuteKeepsIInv ==
  ASSUME IInv, NEW q \in Requests, Execute(q) PROVE IInv'
<1> DEFINE a == request[q].action
<1> USE DEF IInv
<1>1. a \in Actions /\ card[a] \in Card /\ card[a].status \notin {"NONE", "PENDING"} /\ ran[a] = 0
  BY DEF Execute, RequestsHold, Running, TypeOK, CardsOK, Stored
<1>2. field' \in Values
  BY <1>1 DEF Execute, Card
<1>3. RequestsOK'
  BY GoTyping DEF TypeOK, Execute, Running
<1>4. TypeOK'
  BY <1>1, <1>2, <1>3 DEF TypeOK, CardsOK, Execute, counts
<1>5. /\ request'[q].step = "saving" /\ request'[q].action = a
      /\ \A p \in Requests : p # q => request'[p] = request[p]
      /\ card' = card /\ ran'[a] = 1
      /\ \A b \in Actions : b # a => ran'[b] = ran[b]
  BY <1>1 DEF TypeOK, RequestsOK, RequestState, Execute, Go
<1>6. \A p \in Requests : p # q /\ request[p].step = "running" => request[p].action # a
  BY DEF OneRunner, Execute, Running
<1>7. RequestsHold'
  BY <1>1, <1>5, <1>6 DEF RequestsHold, Running, Stored
<1>8. OneRunner'
  BY <1>5 DEF OneRunner, Execute, Running
<1>9. UnclaimedNeverRan' /\ RunsOnce'
  <2>1. \A b \in Actions : b # a => ran'[b] = ran[b] /\ card'[b] = card[b]
    BY <1>5
  <2>2. RunsOnce'
    BY <1>5, <2>1 DEF RunsOnce
  <2>3. QED
    BY <1>1, <1>5, <2>1, <2>2 DEF UnclaimedNeverRan
<1>10. QED
  BY <1>4, <1>7, <1>8, <1>9

\* A card that changes its status away from PENDING, or appears as PENDING,
\* and a request that ends or goes on with its card.
LEMMA StatusKeepsIInv ==
  ASSUME IInv, NEW q \in Requests, NEW s \in {"FAILED", "CANCELLED"}, Answer(q),
         request[q].step # "idle",
         card' = [card EXCEPT ![request[q].action].status = s],
         UNCHANGED <<field, turn, history, counts>>
  PROVE IInv'
<1> DEFINE a == request[q].action
<1> USE DEF IInv
<1>1. a \in Actions /\ card[a] \in Card
  BY DEF RequestsHold, TypeOK, CardsOK
<1>2. CardsOK' /\ card'[a].status = s
  BY <1>1, StatusTyping DEF TypeOK, Statuses
<1>3. RequestsOK'
  BY AnswerTyping DEF TypeOK
<1>4. TypeOK'
  BY <1>2, <1>3 DEF TypeOK, history, counts
<1>5. /\ request'[q] = NoRequest
      /\ \A p \in Requests : p # q => request'[p] = request[p]
      /\ \A b \in Actions : b # a => card'[b] = card[b]
      /\ ran' = ran
  BY DEF TypeOK, RequestsOK, CardsOK, Answer, history
<1>6. RequestsHold'
  BY <1>2, <1>5 DEF RequestsHold, Stored, NoRequest, Running
<1>7. OneRunner'
  BY <1>5 DEF OneRunner, NoRequest, Running
<1>8. UnclaimedNeverRan' /\ RunsOnce'
  BY <1>2, <1>5 DEF UnclaimedNeverRan, RunsOnce
<1>9. QED
  BY <1>4, <1>6, <1>7, <1>8

\* Steps of a request that leave cards and histories alone.
LEMMA RequestKeepsIInv ==
  ASSUME IInv, NEW q \in Requests, UNCHANGED <<field, card, turn, history>>,
         RequestsOK', edits' \in 0..MaxEdits, refusals' \in 0..MaxRefusals,
         faults' \in 0..MaxFaults, restarts' \in 0..MaxRestarts,
         \A p \in Requests : p # q => request'[p] = request[p],
         \/ request'[q] = NoRequest
         \/ /\ request'[q].action = request[q].action
            /\ request[q].step \in Running /\ request'[q].step \in Running \ {"running"}
         \/ /\ request[q].step = "idle" /\ request'[q].step \in {"claiming", "cancelling"}
            /\ request'[q].action \in Actions /\ Stored(request'[q].action)
  PROVE IInv'
<1> USE DEF IInv
<1>1. TypeOK'
  BY DEF TypeOK, CardsOK, history
<1>2. RequestsHold'
  BY DEF RequestsHold, Stored, NoRequest, Running, history
<1>3. OneRunner'
  BY DEF OneRunner, NoRequest, Running
<1>4. UnclaimedNeverRan' /\ RunsOnce'
  BY DEF UnclaimedNeverRan, RunsOnce, history
<1>5. QED
  BY <1>1, <1>2, <1>3, <1>4

LEMMA ConfirmKeepsIInv ==
  ASSUME IInv, NEW q \in Requests, Confirm(q) \/ Discard(q) PROVE IInv'
<1>0. TypeOK /\ RequestsOK /\ CardsOK
  BY DEF IInv, TypeOK
<1>1. ASSUME NEW a \in Actions, ConfirmRead(q, a) \/ CancelRead(q, a) PROVE IInv'
  <2>1. Stored(a) /\ request[q].step = "idle" /\ UNCHANGED <<field, card, turn, history, counts>>
    BY <1>1 DEF ConfirmRead, CancelRead, Pending, Stored
  <2>2. PICK step \in {"claiming", "cancelling"} :
          request' = [request EXCEPT ![q] = [step |-> step, action |-> a]]
    BY <1>1 DEF ConfirmRead, CancelRead
  <2>3. RequestsOK'
    BY <1>0, <2>2 DEF RequestsOK, RequestState
  <2>4. /\ request'[q].step = step /\ request'[q].action = a
        /\ \A p \in Requests : p # q => request'[p] = request[p]
    BY <1>0, <2>2 DEF RequestsOK
  <2>5. QED
    BY <1>0, <2>1, <2>3, <2>4, RequestKeepsIInv DEF TypeOK, counts
<1>2. CASE Claim(q)
  BY <1>2, ClaimKeepsIInv
<1>3. CASE Execute(q)
  BY <1>3, ExecuteKeepsIInv
<1>4. CASE ClaimMissed(q) \/ Touch(q)
  <2>1. Answer(q) /\ UNCHANGED <<field, card, turn, history, counts>>
    BY <1>4 DEF ClaimMissed, Touch
  <2>2. RequestsOK' /\ request'[q] = NoRequest /\ \A p \in Requests : p # q => request'[p] = request[p]
    BY <1>0, <2>1, AnswerTyping DEF Answer, RequestsOK
  <2>3. QED
    BY <1>0, <2>1, <2>2, RequestKeepsIInv DEF TypeOK, counts
<1>5. CASE ExecuteRefused(q) \/ SaveResult(q)
  <2>1. PICK step \in {"failing", "touching"} : Go(q, step)
    BY <1>5 DEF ExecuteRefused, SaveResult
  <2>2. /\ request[q].step \in Running /\ UNCHANGED <<field, card, turn, history, edits, faults, restarts>>
        /\ refusals' \in 0..MaxRefusals
    BY <1>0, <1>5, Parameters DEF ExecuteRefused, SaveResult, Running, TypeOK, counts
  <2>3. RequestsOK'
    BY <1>0, <2>1, GoTyping DEF Running
  <2>4. /\ request'[q].step = step /\ request'[q].action = request[q].action
        /\ \A p \in Requests : p # q => request'[p] = request[p]
    BY <1>0, <2>1 DEF Go, RequestsOK, RequestState
  <2>5. QED
    BY <1>0, <2>2, <2>3, <2>4, RequestKeepsIInv DEF TypeOK, Running
<1>6. CASE Fail(q)
  BY <1>6, StatusKeepsIInv DEF Fail
<1>7. CASE Cancel(q)
  BY <1>7, StatusKeepsIInv DEF Cancel
<1>8. CASE QueryFails(q)
  <2>1. UNCHANGED <<field, card, turn, history, edits, refusals, restarts>> /\ faults' \in 0..MaxFaults
    BY <1>0, <1>8, Parameters DEF QueryFails, TypeOK
  <2>2. CASE request[q].step \in {"running", "saving", "touching"} /\ Go(q, "failing")
    <3>1. RequestsOK'
      BY <1>0, <2>2, GoTyping DEF Running
    <3>2. /\ request'[q].step = "failing" /\ request'[q].action = request[q].action
          /\ \A p \in Requests : p # q => request'[p] = request[p]
      BY <1>0, <2>2 DEF Go, RequestsOK, RequestState
    <3>3. QED
      BY <1>0, <2>1, <2>2, <3>1, <3>2, RequestKeepsIInv DEF TypeOK, Running
  <2>3. CASE Answer(q)
    <3>1. RequestsOK' /\ request'[q] = NoRequest /\ \A p \in Requests : p # q => request'[p] = request[p]
      BY <1>0, <2>3, AnswerTyping DEF Answer, RequestsOK
    <3>2. QED
      BY <1>0, <2>1, <3>1, RequestKeepsIInv DEF TypeOK
  <2>4. QED
    BY <1>8, <2>2, <2>3 DEF QueryFails
<1>9. QED
  BY <1>1, <1>2, <1>3, <1>4, <1>5, <1>6, <1>7, <1>8 DEF Confirm, Discard

LEMMA NextKeepsIInv == IInv /\ [Next]_vars => IInv'
<1> SUFFICES ASSUME IInv, [Next]_vars PROVE IInv'
  OBVIOUS
<1>0. TypeOK /\ RequestsOK /\ CardsOK
  BY DEF IInv, TypeOK
<1>1. ASSUME NEW v \in Values, ReadField(v) \/ Edit(v) PROVE IInv'
  <2>1. TypeOK'
    BY <1>0, <1>1, Parameters DEF ReadField, Edit, TypeOK, TurnState, CardsOK, RequestsOK, history, counts
  <2>2. QED
    BY <1>1, <2>1 DEF ReadField, Edit, IInv, RequestsHold, OneRunner, UnclaimedNeverRan, RunsOnce,
                      Stored, history
<1>2. ASSUME NEW b \in Actions, ReadConfirmed(b) PROVE IInv'
  <2>1. TypeOK'
    BY <1>0, <1>2 DEF ReadConfirmed, TypeOK, TurnState, Card, CardsOK, RequestsOK, history, counts
  <2>2. QED
    BY <1>2, <2>1 DEF ReadConfirmed, IInv, RequestsHold, OneRunner, UnclaimedNeverRan, RunsOnce,
                      Stored, history
<1>3. ASSUME NEW a \in Actions, Propose(a) PROVE IInv'
  <2>1. CardsOK'
    BY <1>0, <1>3 DEF Propose, CardsOK, Card, TypeOK, TurnState, Statuses
  <2>2. TypeOK'
    BY <1>0, <1>3, <2>1, Parameters DEF Propose, TypeOK, TurnState, NoTurn, RequestsOK, history, counts
  <2>3. ~Stored(a) /\ ran[a] = 0
    BY <1>0, <1>3 DEF Propose, IInv, UnclaimedNeverRan, Stored
  <2>4. \A b \in Actions : b # a => card'[b] = card[b]
    BY <1>0, <1>3 DEF Propose, CardsOK
  <2>5. RequestsHold'
    BY <1>3, <2>3, <2>4 DEF Propose, IInv, RequestsHold, Stored, history, Running
  <2>6. QED
    BY <1>3, <2>2, <2>3, <2>4, <2>5 DEF Propose, IInv, OneRunner, UnclaimedNeverRan, RunsOnce, history
<1>4. ASSUME NEW a \in Actions, Expire(a) PROVE IInv'
  <2>1. CardsOK' /\ \A b \in Actions : card'[b].status = card[b].status
    BY <1>0, <1>4 DEF Expire, CardsOK, Card
  <2>2. TypeOK'
    BY <1>4, <1>0, <2>1 DEF Expire, TypeOK, RequestsOK, history, counts
  <2>3. QED
    BY <1>4, <2>1, <2>2 DEF Expire, IInv, RequestsHold, OneRunner, UnclaimedNeverRan, RunsOnce,
                            Stored, history
<1>5. CASE Restart
  <2>1. RequestsOK' /\ NoTurn \in TurnState
    BY <1>5, Parameters DEF Restart, RequestsOK, RequestState, NoRequest, NoTurn, TurnState
  <2>2. TypeOK'
    BY <1>5, <1>0, <2>1, Parameters DEF Restart, TypeOK, CardsOK, history
  <2>3. \A q \in Requests : request'[q].step = "idle"
    BY <1>5 DEF Restart, NoRequest
  <2>4. RequestsHold' /\ OneRunner'
    BY <2>3 DEF RequestsHold, OneRunner, Running
  <2>5. QED
    BY <1>5, <2>2, <2>4 DEF Restart, IInv, UnclaimedNeverRan, RunsOnce, history
<1>6. CASE UNCHANGED vars
  BY <1>6 DEF vars, history, counts, IInv, TypeOK, CardsOK, RequestsOK, RequestsHold, OneRunner,
              UnclaimedNeverRan, RunsOnce, Stored
<1>7. QED
  BY <1>1, <1>2, <1>3, <1>4, <1>5, <1>6, ConfirmKeepsIInv DEF Next, Assistant

LEMMA Inductive == Spec => []IInv
BY InitIInv, NextKeepsIInv, PTL DEF Spec

-----------------------------------------------------------------------------

\* Cards, requests and the field keep their types.
THEOREM TypeCorrect == Spec => []TypeOK
BY Inductive, PTL DEF IInv

\* No proposal is carried out twice, whatever taps, tabs, cancellations,
\* failures and restarts come (the claim of AssistantActionsService.confirm).
THEOREM RunsAtMostOnce == Spec => []RunsOnce
BY Inductive, PTL DEF IInv

-----------------------------------------------------------------------------
(* What a card says, while no query fails and the process stays up. A card    *)
(* that is being run is not yet bound to tell: its run is.                     *)

RunsTell ==
  \A q \in Requests :
    LET a == request[q].action IN
    /\ request[q].step \in Running => card[a].status # "FAILED"
    /\ request[q].step \in {"saving", "touching"} => ran[a] = 1
    /\ request[q].step = "failing" => ran[a] = 0

CardsTell ==
  \A a \in Actions : ~BeingRun(a) =>
    /\ card[a].status = "CONFIRMED" => ran[a] = 1
    /\ card[a].status = "FAILED" => ran[a] = 0

TellInv == faults = 0 /\ restarts = 0 => RunsTell /\ CardsTell

\* A request's step that leaves cards and histories alone, and goes on running or
\* ends without having run.
LEMMA StepKeepsTelling ==
  ASSUME IInv, RunsTell, CardsTell, NEW q \in Requests,
         UNCHANGED <<card, ran>>,
         \A p \in Requests : p # q => request'[p] = request[p],
         \/ request'[q].step \notin Running /\ request[q].step \notin Running \ {"touching"}
         \/ /\ request'[q].action = request[q].action
            /\ \/ request[q].step = "running" /\ request'[q].step = "failing"
               \/ request[q].step = "saving" /\ request'[q].step = "touching"
  PROVE  RunsTell' /\ CardsTell'
<1>1. RunsTell'
  BY DEF RunsTell, IInv, RequestsHold, Running
<1>2. ASSUME NEW a \in Actions, ~BeingRun(a)'
      PROVE /\ card[a].status = "CONFIRMED" => ran[a] = 1
            /\ card[a].status = "FAILED" => ran[a] = 0
  <2>1. CASE ~BeingRun(a)
    BY <2>1 DEF CardsTell
  <2>2. CASE BeingRun(a)
    <3>1. PICK p \in Requests : request[p].step \in Running /\ request[p].action = a
      BY <2>2 DEF BeingRun
    <3>2. p = q /\ request[q].step = "touching"
      BY <1>2, <3>1 DEF BeingRun, Running
    <3>3. QED
      BY <3>1, <3>2 DEF RunsTell
  <2>3. QED
    BY <2>1, <2>2
<1>3. QED
  BY <1>1, <1>2 DEF CardsTell, BeingRun

\* The steps of a request on its card.
LEMMA RequestKeepsTelling ==
  ASSUME IInv, RunsTell, CardsTell, NEW q \in Requests, Confirm(q) \/ Discard(q), faults' = 0
  PROVE  RunsTell' /\ CardsTell'
<1> DEFINE a == request[q].action
<1>0. RequestsOK /\ CardsOK /\ ran \in [Actions -> Nat] /\ faults \in 0..MaxFaults
  BY DEF IInv, TypeOK
<1>1. CASE Claim(q)
  <2>1. a \in Actions /\ card[a].status = "PENDING" /\ ran[a] = 0
    BY <1>1 DEF Claim, IInv, RequestsHold, UnclaimedNeverRan
  <2>2. /\ request'[q].step = "running" /\ request'[q].action = a /\ ran' = ran
        /\ \A p \in Requests : p # q => request'[p] = request[p]
        /\ card'[a].status = "CONFIRMED" /\ \A b \in Actions : b # a => card'[b] = card[b]
    BY <1>0, <1>1, <2>1, StatusTyping DEF RequestsOK, RequestState, CardsOK, Claim, Go, history, Statuses
  <2>3. \A p \in Requests : request[p].step \in Running => request[p].action \in Actions /\ request[p].action # a
    BY <2>1 DEF IInv, RequestsHold, Running
  <2>4. RunsTell'
    BY <2>2, <2>3 DEF RunsTell, Running
  <2>5. BeingRun(a)' /\ \A b \in Actions : b # a => (BeingRun(b)' <=> BeingRun(b))
    BY <1>1, <2>2 DEF BeingRun, Running, Claim
  <2>6. QED
    BY <2>2, <2>4, <2>5 DEF CardsTell
<1>2. CASE Execute(q)
  <2>1. a \in Actions /\ ran[a] = 0
    BY <1>2 DEF Execute, IInv, RequestsHold
  <2>2. /\ request'[q].step = "saving" /\ request'[q].action = a /\ card' = card
        /\ \A p \in Requests : p # q => request'[p] = request[p]
        /\ ran'[a] = 1 /\ \A b \in Actions : b # a => ran'[b] = ran[b]
    BY <1>0, <1>2, <2>1 DEF RequestsOK, RequestState, Execute, Go
  <2>3. \A p \in Requests : p # q /\ request[p].step \in Running => request[p].action \in Actions /\ request[p].action # a
    BY <1>2 DEF Execute, IInv, OneRunner, RequestsHold, Running
  <2>4. RunsTell'
    BY <1>2, <2>2, <2>3 DEF RunsTell, Running, Execute
  <2>5. BeingRun(a)' /\ \A b \in Actions : BeingRun(b)' <=> BeingRun(b)
    BY <1>2, <2>2 DEF BeingRun, Running, Execute
  <2>6. QED
    BY <2>2, <2>4, <2>5 DEF CardsTell
<1>3. CASE Fail(q) \/ Cancel(q)
  <2>1. a \in Actions
    BY <1>3 DEF Fail, Cancel, IInv, RequestsHold
  <2>2. PICK s \in {"FAILED", "CANCELLED"} :
          /\ card' = [card EXCEPT ![a].status = s]
          /\ s = "FAILED" => request[q].step = "failing"
          /\ request[q].step \notin Running => s = "CANCELLED"
    BY <1>3 DEF Fail, Cancel, Running
  <2>3. /\ request'[q] = NoRequest /\ ran' = ran
        /\ \A p \in Requests : p # q => request'[p] = request[p]
        /\ card'[a].status = s /\ \A b \in Actions : b # a => card'[b] = card[b]
    BY <1>0, <1>3, <2>1, <2>2, StatusTyping DEF RequestsOK, CardsOK, Fail, Cancel, Answer, history, Statuses
  <2>4. RunsTell'
    <3>1. ASSUME NEW p \in Requests, p # q, request[p].step \in Running, request[p].action = a, s = "FAILED"
          PROVE FALSE
      BY <2>2, <3>1 DEF IInv, OneRunner, Running
    <3>2. \A p \in Requests : request[p].step \in Running => request[p].action \in Actions
      BY DEF IInv, RequestsHold, Running
    <3>3. QED
      BY <2>3, <3>1, <3>2 DEF RunsTell, NoRequest, Running
  <2>5. s = "FAILED" => ran[a] = 0
    BY <2>2 DEF RunsTell
  <2>6. \A b \in Actions : b # a => (BeingRun(b)' <=> BeingRun(b))
    BY <2>3 DEF BeingRun, NoRequest, Running
  <2>7. QED
    BY <2>3, <2>4, <2>5, <2>6 DEF CardsTell
<1>4. CASE \E b \in Actions : ConfirmRead(q, b) \/ CancelRead(q, b)
  <2>1. /\ request[q].step = "idle" /\ request'[q].step \in {"claiming", "cancelling"} /\ UNCHANGED <<card, ran>>
        /\ \A p \in Requests : p # q => request'[p] = request[p]
    BY <1>0, <1>4 DEF ConfirmRead, CancelRead, RequestsOK, history
  <2>2. QED
    BY <2>1, StepKeepsTelling DEF Running
<1>5. CASE ClaimMissed(q) \/ Touch(q)
  <2>1. /\ request[q].step \in {"claiming", "touching"} /\ request'[q] = NoRequest /\ UNCHANGED <<card, ran>>
        /\ \A p \in Requests : p # q => request'[p] = request[p]
    BY <1>0, <1>5 DEF ClaimMissed, Touch, Answer, RequestsOK, history
  <2>2. QED
    BY <2>1, StepKeepsTelling DEF Running, NoRequest
<1>6. CASE ExecuteRefused(q) \/ SaveResult(q)
  <2>1. /\ request'[q].action = a /\ UNCHANGED <<card, ran>>
        /\ \A p \in Requests : p # q => request'[p] = request[p]
        /\ \/ request[q].step = "running" /\ request'[q].step = "failing"
           \/ request[q].step = "saving" /\ request'[q].step = "touching"
    BY <1>0, <1>6 DEF ExecuteRefused, SaveResult, Go, RequestsOK, RequestState, history
  <2>2. QED
    BY <2>1, StepKeepsTelling
<1>7. CASE QueryFails(q)
  BY <1>0, <1>7, Parameters DEF QueryFails
<1>8. QED
  BY <1>1, <1>2, <1>3, <1>4, <1>5, <1>6, <1>7 DEF Confirm, Discard

LEMMA NextKeepsTelling == IInv /\ TellInv /\ [Next]_vars => TellInv'
<1> SUFFICES ASSUME IInv, TellInv, [Next]_vars, faults' = 0, restarts' = 0
             PROVE  RunsTell' /\ CardsTell'
  BY DEF TellInv
<1>0. CardsOK /\ faults \in Nat /\ restarts \in Nat
  BY Parameters DEF IInv, TypeOK
<1>1. ASSUME NEW q \in Requests, Confirm(q) \/ Discard(q) PROVE RunsTell' /\ CardsTell'
  <2>1. restarts' = restarts /\ faults = 0
    BY <1>0, <1>1 DEF Confirm, Discard, ConfirmRead, Claim, ClaimMissed, Execute, ExecuteRefused, SaveResult,
                      Touch, Fail, QueryFails, CancelRead, Cancel, counts
  <2>2. QED
    BY <1>1, <2>1, RequestKeepsTelling DEF TellInv
<1>2. CASE \E v \in Values : ReadField(v) \/ Edit(v)
  BY <1>2 DEF ReadField, Edit, TellInv, RunsTell, CardsTell, BeingRun, history, counts
<1>3. CASE \E b \in Actions : ReadConfirmed(b)
  BY <1>3 DEF ReadConfirmed, TellInv, RunsTell, CardsTell, BeingRun, history, counts
<1>4. ASSUME NEW b \in Actions, Propose(b) \/ Expire(b) PROVE RunsTell' /\ CardsTell'
  <2>1. /\ UNCHANGED <<request, ran>> /\ faults = 0 /\ restarts = 0
        /\ card'[b].status = "PENDING" /\ \A c \in Actions : c # b => card'[c] = card[c]
    BY <1>0, <1>4 DEF Propose, Expire, Pending, CardsOK, Card, history, counts
  <2>2. \A q \in Requests : request[q].step \in Running => request[q].action \in Actions
    BY DEF IInv, RequestsHold, Running
  <2>3. QED
    BY <2>1, <2>2 DEF TellInv, RunsTell, CardsTell, BeingRun, Running
<1>5. CASE Restart
  BY <1>0, <1>5 DEF Restart
<1>6. CASE UNCHANGED vars
  BY <1>6 DEF vars, history, counts, TellInv, RunsTell, CardsTell, BeingRun
<1>7. QED
  BY <1>1, <1>2, <1>3, <1>4, <1>5, <1>6 DEF Next, Assistant

LEMMA InitTells == Init => TellInv
BY DEF Init, TellInv, RunsTell, CardsTell, NoRequest, NoCard, Running

\* A card nobody is running says what happened to its change, unless a query
\* failed or the process restarted (AssistantActionsService.confirm).
THEOREM CardsTellTheTruth == Spec => []CardIsTrue
<1>1. TellInv => CardIsTrue
  BY DEF TellInv, CardsTell, CardIsTrue
<1>2. QED
  BY <1>1, Inductive, InitTells, NextKeepsTelling, PTL DEF Spec
=============================================================================
