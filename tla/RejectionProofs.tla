-------------------------- MODULE RejectionProofs ---------------------------
(***************************************************************************)
(* What holds of the rejection notices for every number of Excels, rows    *)
(* and requests, and however often queries fail, answers are lost and the  *)
(* process restarts.                                                       *)
(***************************************************************************)
EXTENDS RejectionNotices, TLAPS

-----------------------------------------------------------------------------
(* The inductive invariant *)

\* A claimed row is SENDING; the one in course is no longer in the queue.
HeldIsSending ==
  \A q \in Requests :
    /\ \A r \in Held(q) : status[r] = "SENDING"
    /\ send[q].cur \notin send[q].mine
    /\ send[q].step \in Working => send[q].cur \in Rows
    /\ send[q].step \in {"idle", "claiming", "delivering", "done"} => send[q].cur = NULL
    /\ send[q].step \in {"idle", "done"} => send[q].mine = {}

\* A row is not stored before its Excel is.
NotStored ==
  \A i \in Imports : upload[i].step # "stored" => \A r \in RowsOf(i) : status[r] = NULL

\* WhatsApp has not taken, for this claim, what has not been sent yet.
Unsent ==
  \A q \in Requests :
    /\ send[q].mine \cap taken = {}
    /\ send[q].step = "sending" => send[q].cur \notin taken
    /\ send[q].step \in {"recording", "saving", "noting"} => send[q].cur \in taken

\* Each delivery after the first is paid for by a doubt.
Accounted ==
  \A r \in Rows :
    /\ told[r] <= 1 + doubts[r]
    /\ r \notin taken \/ status[r] \in Open \cup {NULL} => told[r] <= doubts[r]

IInv == TypeOK /\ HeldIsSending /\ OneSender /\ NotStored /\ Unsent /\ Accounted /\ SentWasTaken

-----------------------------------------------------------------------------

LEMMA InitIInv == Init => IInv
<1> SUFFICES ASSUME Init PROVE IInv
  OBVIOUS
<1>1. TypeOK
  BY DEF Init, TypeOK, HandsOK, UploadState, SendState, At
<1>2. HeldIsSending /\ OneSender
  BY Parameters DEF Init, At, HeldIsSending, OneSender, Held, Working
<1>3. NotStored /\ Unsent
  BY DEF Init, At, NotStored, RowsOf, Unsent
<1>4. Accounted
  BY DEF Init, Accounted
<1>5. SentWasTaken
  <2>1. NULL # "SENT"
    BY Parameters DEF Statuses
  <2>2. QED
    BY <2>1 DEF Init, SentWasTaken
<1>6. QED
  BY <1>1, <1>2, <1>3, <1>4, <1>5 DEF IInv

\* Steps of the imports: no request's rows change hands.
LEMMA ImportsKeepIInv ==
  ASSUME IInv, NEW i \in Imports, ImportStep(i) PROVE IInv'
<1> USE DEF IInv, rows, history, counts
<1>1. CASE CreateRead(i)
  <2>1. TypeOK'
    BY <1>1 DEF CreateRead, TypeOK, UploadState, Notified, HandsOK
  <2>2. NotStored'
    BY <1>1 DEF CreateRead, NotStored, RowsOf, TypeOK, UploadState
  <2>3. QED
    BY <1>1, <2>1, <2>2 DEF CreateRead, HeldIsSending, OneSender, Held, Unsent, Accounted, SentWasTaken
<1>2. CASE CreateStore(i)
  <2> USE <1>2 DEF CreateStore
  <2>1. \A r \in Rows : status'[r] = status[r] \/ (status[r] = NULL /\ status'[r] \in {"READY", "SKIPPED"})
    BY DEF NotStored, RowsOf, FirstStatus, TypeOK
  <2>2. status' \in [Rows -> Statuses \cup {NULL}]
    BY DEF TypeOK, FirstStatus, Statuses, Open
  <2>3. upload' \in [Imports -> UploadState]
    BY DEF TypeOK, UploadState
  <2>4. TypeOK'
    BY <2>2, <2>3 DEF TypeOK, HandsOK
  <2>5. NotStored'
    BY DEF NotStored, RowsOf, TypeOK, Rows
  <2>6. HeldIsSending' /\ OneSender'
    <3>1. \A q \in Requests : Held(q) \subseteq Rows /\ Held(q)' = Held(q)
      BY DEF Held, TypeOK, HandsOK, SendState
    <3>2. QED
      BY <2>1, <3>1, Parameters DEF HeldIsSending, OneSender, Statuses
  <2>7. Accounted' /\ SentWasTaken'
    BY <2>1 DEF Accounted, SentWasTaken, Open
  <2>8. QED
    BY <2>4, <2>5, <2>6, <2>7 DEF Unsent
<1>3. ASSUME NEW chosen \in SUBSET RowsOf(i), Mark(i, chosen) PROVE IInv'
  <2> USE <1>3 DEF Mark
  <2>1. \A r \in Rows : status'[r] = status[r] \/ (status[r] \in Open /\ status'[r] = "MARKED")
    BY DEF TypeOK
  <2>2. TypeOK'
    BY DEF TypeOK, HandsOK, Statuses
  <2>3. NotStored'
    BY <2>1, Parameters DEF NotStored, RowsOf, Statuses
  <2>4. HeldIsSending' /\ OneSender'
    <3>1. \A q \in Requests : Held(q) \subseteq Rows /\ Held(q)' = Held(q)
      BY DEF Held, TypeOK, HandsOK, SendState
    <3>2. QED
      BY <2>1, <3>1 DEF HeldIsSending, OneSender, Open
  <2>5. Accounted' /\ SentWasTaken'
    BY <2>1, Parameters DEF Accounted, SentWasTaken, Open, Statuses
  <2>6. QED
    BY <2>2, <2>3, <2>4, <2>5 DEF Unsent
<1>4. CASE RemoveCount(i)
  BY <1>4 DEF RemoveCount, TypeOK, HandsOK, HeldIsSending, OneSender, Held, NotStored, Unsent, Accounted, SentWasTaken
<1>5. CASE RemoveCommit(i)
  BY <1>5 DEF RemoveCommit, TypeOK, HandsOK, HeldIsSending, OneSender, Held, NotStored, Unsent, Accounted, SentWasTaken
<1>6. QED
  BY <1>1, <1>2, <1>3, <1>4, <1>5 DEF ImportStep

\* Going on to another point, or to the next row, keeps the local variables typed.
LEMMA GoTyping ==
  ASSUME NEW q \in Requests, HandsOK, NEW step \in Working \cup {"dead"}, Go(q, step) PROVE HandsOK'
BY DEF HandsOK, SendState, Go, Working

LEMMA DoneTyping ==
  ASSUME NEW q \in Requests, HandsOK, Done(q) PROVE HandsOK'
BY DEF HandsOK, SendState, Done

LEMMA ClaimTyping ==
  ASSUME NEW q \in Requests, HandsOK, NEW r \in send[q].todo, Claim(q, r) PROVE HandsOK'
<1>1. send[q] \in SendState
  BY DEF HandsOK
<1>2. send[q].todo \ {r} \in SUBSET Rows /\ send[q].mine \cup {r} \in SUBSET Rows
  BY <1>1 DEF SendState
<1>3. send' = [send EXCEPT ![q].todo = send[q].todo \ {r}, ![q].mine = send[q].mine \cup {r}]
  BY DEF Claim
<1>4. QED
  BY <1>2, <1>3 DEF HandsOK, SendState

LEMMA LoopTyping ==
  ASSUME NEW q \in Requests, HandsOK,
         \/ \E r \in send[q].todo : ClaimMissed(q, r)
         \/ \E r \in send[q].mine : Load(q, r)
         \/ Launch(q) \/ ClaimFails(q)
         \/ \E i \in Imports : \E chosen \in SUBSET RowsOf(i) : SendRead(q, i, chosen)
  PROVE  HandsOK'
<1> USE DEF HandsOK, SendState
<1>1. CASE \E r \in send[q].todo : ClaimMissed(q, r)
  BY <1>1 DEF ClaimMissed
<1>2. CASE \E r \in send[q].mine : Load(q, r)
  <2>1. PICK r \in send[q].mine : Load(q, r)
    BY <1>2
  <2>2. send[q] \in SendState
    OBVIOUS
  <2>3. r \in Rows /\ send[q].mine \ {r} \in SUBSET Rows
    BY <2>2
  <2>4. send' = [send EXCEPT ![q].step = "sending", ![q].mine = send[q].mine \ {r}, ![q].cur = r]
    BY <2>1 DEF Load
  <2>5. QED
    BY <2>3, <2>4 DEF Working
<1>3. CASE Launch(q)
  BY <1>3 DEF Launch
<1>4. CASE ClaimFails(q)
  BY <1>4 DEF ClaimFails
<1>5. CASE \E i \in Imports : \E chosen \in SUBSET RowsOf(i) : SendRead(q, i, chosen)
  <2>0. PICK i \in Imports : \E chosen \in SUBSET RowsOf(i) : SendRead(q, i, chosen)
    BY <1>5
  <2>1. PICK chosen \in SUBSET RowsOf(i) : SendRead(q, i, chosen)
    BY <2>0
  <2>2. {r \in chosen : status[r] \in Open /\ r[2] \in Reachable} \in SUBSET Rows
    BY DEF RowsOf
  <2>3. QED
    BY <2>1, <2>2 DEF SendRead, At
<1>6. QED
  BY <1>1, <1>2, <1>3, <1>4, <1>5

\* Steps of a request that move no row from or to SENDING.
LEMMA ClaimingKeepsIInv ==
  ASSUME IInv, NEW q \in Requests,
         \/ \E i \in Imports : \E chosen \in SUBSET RowsOf(i) : SendRead(q, i, chosen)
         \/ Claiming(q) \/ ClaimFails(q)
  PROVE  IInv'
<1> USE DEF IInv, rows, history, counts
<1>1. ASSUME NEW i \in Imports, NEW chosen \in SUBSET RowsOf(i), SendRead(q, i, chosen)
      PROVE  IInv'
  <2> USE <1>1 DEF SendRead, At
  <2>1. TypeOK'
    BY LoopTyping DEF TypeOK
  <2>2. send'[q] \in [step : {"claiming"}, todo : SUBSET Rows, mine : {{}}, cur : {NULL}]
    BY DEF TypeOK, HandsOK, RowsOf
  <2>3. \A p \in Requests : Held(p)' \subseteq Held(p)
    BY <2>2, Parameters DEF Held, TypeOK, HandsOK, SendState
  <2>4. HeldIsSending' /\ OneSender'
    BY <2>2, <2>3 DEF HeldIsSending, OneSender, TypeOK, HandsOK, SendState, Working
  <2>5. QED
    BY <2>1, <2>2, <2>4 DEF NotStored, Unsent, Accounted, SentWasTaken, TypeOK, HandsOK, SendState
<1>2. ASSUME NEW r \in send[q].todo, Claim(q, r) PROVE IInv'
  <2> USE <1>2 DEF Claim, First
  <2>1. r \in Rows /\ status[r] \in Open /\ status[r] # NULL
    BY Parameters DEF TypeOK, HandsOK, SendState, Statuses
  <2>2. TypeOK'
    <3>1. status' \in [Rows -> Statuses \cup {NULL}]
      BY <2>1 DEF TypeOK, Statuses
    <3>2. HandsOK'
      BY ClaimTyping DEF TypeOK
    <3>3. QED
      BY <3>1, <3>2 DEF TypeOK
  <2>3. \A p \in Requests : r \notin Held(p)
    BY <2>1 DEF HeldIsSending, Open
  <2>4. \A p \in Requests : Held(p)' = IF p = q THEN Held(p) \cup {r} ELSE Held(p)
    BY <2>1 DEF Held, TypeOK, HandsOK, SendState
  <2>5. OneSender'
    BY <2>3, <2>4 DEF OneSender
  <2>6. HeldIsSending'
    <3>1. \A p \in Requests : /\ send'[p].step = send[p].step /\ send'[p].cur = send[p].cur
                              /\ send'[p].mine = IF p = q THEN send[p].mine \cup {r} ELSE send[p].mine
      BY DEF TypeOK, HandsOK, SendState
    <3>2. \A p \in Requests : send'[p].cur \notin send'[p].mine
      <4>1. send[q].cur = NULL
        BY DEF HeldIsSending
      <4>2. QED
        BY <2>1, <3>1, <4>1, Parameters DEF HeldIsSending, TypeOK, HandsOK, SendState
    <3>3. \A p \in Requests : \A s \in Held(p)' : status'[s] = "SENDING"
      BY <2>1, <2>4 DEF HeldIsSending, TypeOK
    <3>4. QED
      BY <3>1, <3>2, <3>3 DEF HeldIsSending
  <2>7. NotStored'
    BY <2>1 DEF NotStored, RowsOf, TypeOK
  <2>8. Unsent'
    <3>1. \A p \in Requests : send[p].cur # r \/ send[p].step \notin Working
      BY <2>1, <2>3 DEF Held
    <3>2. QED
      BY <3>1 DEF Unsent, TypeOK, HandsOK, SendState, Working
  <2>9. Accounted'
    BY <2>1 DEF Accounted, TypeOK, Open
  <2>10. SentWasTaken'
    BY <2>1 DEF SentWasTaken, TypeOK
  <2>11. QED
    BY <2>2, <2>5, <2>6, <2>7, <2>8, <2>9, <2>10
<1>3. ASSUME NEW r \in send[q].todo, ClaimMissed(q, r) PROVE IInv'
  <2> USE <1>3 DEF ClaimMissed
  <2>1. TypeOK'
    BY LoopTyping DEF TypeOK
  <2>2. \A p \in Requests : Held(p)' = Held(p)
    BY DEF Held, TypeOK, HandsOK, SendState
  <2>3. HeldIsSending' /\ OneSender'
    BY <2>2 DEF HeldIsSending, OneSender, TypeOK, HandsOK, SendState
  <2>4. QED
    BY <2>1, <2>3 DEF NotStored, Unsent, Accounted, SentWasTaken, TypeOK, HandsOK, SendState
<1>4. CASE Launch(q)
  <2> USE <1>4 DEF Launch
  <2>1. TypeOK'
    <3>1. HandsOK'
      BY <1>4, LoopTyping DEF TypeOK
    <3>2. QED
      BY <3>1 DEF TypeOK
  <2>2. \A p \in Requests : Held(p)' = Held(p)
    BY DEF Held, TypeOK, HandsOK, SendState
  <2>3. HeldIsSending' /\ OneSender'
    BY <2>2 DEF HeldIsSending, OneSender, TypeOK, HandsOK, SendState, Working
  <2>4. QED
    BY <2>1, <2>3 DEF NotStored, Unsent, Accounted, SentWasTaken, TypeOK, HandsOK, SendState
<1>5. CASE ClaimFails(q)
  <2> USE <1>5 DEF ClaimFails
  <2>1. TypeOK'
    <3>1. HandsOK'
      BY <1>5, LoopTyping DEF TypeOK
    <3>2. QED
      BY <3>1 DEF TypeOK
  <2>2. \A p \in Requests : Held(p)' = Held(p)
    BY DEF Held, TypeOK, HandsOK, SendState
  <2>3. HeldIsSending' /\ OneSender'
    BY <2>2 DEF HeldIsSending, OneSender, TypeOK, HandsOK, SendState, Working
  <2>4. QED
    BY <2>1, <2>3 DEF NotStored, Unsent, Accounted, SentWasTaken, TypeOK, HandsOK, SendState
<1>6. QED
  BY <1>1, <1>2, <1>3, <1>4, <1>5 DEF Claiming

\* The row in course is of this request alone.
LEMMA CurrentIsMine ==
  ASSUME IInv, NEW q \in Requests, send[q].step \in Working
  PROVE  /\ send[q].cur \in Rows /\ status[send[q].cur] = "SENDING"
         /\ \A p \in Requests : send[q].cur \in Held(p) => p = q
<1>1. send[q].cur \in Held(q) /\ send[q].cur \in Rows
  BY DEF IInv, HeldIsSending, Held
<1>2. QED
  BY <1>1 DEF IInv, HeldIsSending, OneSender

\* Going on with the same row changes no hands.
LEMMA GoKeepsHands ==
  ASSUME IInv, NEW q \in Requests, send[q].step \in Working,
         NEW step \in Working \cup {"dead"}, Go(q, step), UNCHANGED status
  PROVE  HeldIsSending' /\ OneSender'
<1>1. \A p \in Requests : /\ send'[p].mine = send[p].mine /\ send'[p].cur = send[p].cur
                          /\ send'[p].step = IF p = q THEN step ELSE send[p].step
  BY DEF Go, IInv, TypeOK, HandsOK, SendState
<1>2. \A p \in Requests : Held(p)' = Held(p)
  BY <1>1 DEF Held
<1>3. HeldIsSending'
  BY <1>1, <1>2, CurrentIsMine DEF HeldIsSending, Working, IInv
<1>4. QED
  BY <1>2, <1>3 DEF OneSender, IInv

\* Finishing a row lets go of that row, and of no other.
LEMMA DoneKeepsHands ==
  ASSUME IInv, NEW q \in Requests, send[q].step \in Working, Done(q), UNCHANGED taken,
         \A r \in Rows : r # send[q].cur => status'[r] = status[r]
  PROVE  HeldIsSending' /\ OneSender' /\ Unsent'
<1>1. \A p \in Requests : p # q => send'[p] = send[p]
  BY DEF Done, IInv, TypeOK, HandsOK
<1>2. /\ send'[q].mine = send[q].mine /\ send'[q].cur = NULL
      /\ send'[q].step \in {"done", "delivering"}
      /\ send'[q].step = "done" => send[q].mine = {}
  BY DEF Done, IInv, TypeOK, HandsOK, SendState
<1>3. \A p \in Requests : Held(p) \subseteq Rows
  BY DEF Held, IInv, TypeOK, HandsOK, SendState
<1>4. Held(q)' = send[q].mine /\ send[q].cur \notin send[q].mine
  BY <1>2, Parameters DEF Held, IInv, HeldIsSending
<1>5. \A p \in Requests : p # q => Held(p)' = Held(p)
  BY <1>1 DEF Held
<1>6. \A p \in Requests : Held(p)' \subseteq Held(p) /\ send[q].cur \notin Held(p)'
  BY <1>4, <1>5, CurrentIsMine DEF Held
<1>7. HeldIsSending'
  <2>1. \A p \in Requests : \A r \in Held(p)' : status'[r] = "SENDING"
    BY <1>3, <1>6 DEF IInv, HeldIsSending
  <2>2. send'[q].cur \notin send'[q].mine
    BY <1>2, <1>3, Parameters DEF Held
  <2>3. QED
    BY <1>1, <1>2, <2>1, <2>2 DEF IInv, HeldIsSending, Working
<1>8. OneSender'
  BY <1>6 DEF IInv, OneSender
<1>9. Unsent'
  BY <1>1, <1>2 DEF IInv, Unsent
<1>10. QED
  BY <1>7, <1>8, <1>9

\* A row left as failed counts as a doubt if WhatsApp had taken it.
LEMMA FailKeeps ==
  ASSUME IInv, NEW r \in Rows, status[r] = "SENDING", Fail(r), UNCHANGED <<told, taken>>
  PROVE  Accounted' /\ SentWasTaken'
<1>1. \A s \in Rows : s # r => status'[s] = status[s] /\ doubts'[s] = doubts[s]
  BY DEF Fail, IInv, TypeOK
<1>2. status'[r] = "FAILED" /\ doubts'[r] = IF r \in taken THEN doubts[r] + 1 ELSE doubts[r]
  BY DEF Fail, IInv, TypeOK
<1>3. told[r] \in Nat /\ doubts[r] \in Nat
  BY DEF IInv, TypeOK
<1>4. Accounted'
  BY <1>1, <1>2, <1>3 DEF IInv, Accounted
<1>5. QED
  BY <1>1, <1>2, <1>4 DEF IInv, SentWasTaken

LEMMA DeliveringKeepsIInv ==
  ASSUME IInv, NEW q \in Requests, Delivering(q) \/ QueryFails(q) PROVE IInv'
<1> USE DEF rows, history, counts
<1>1. ASSUME NEW r \in send[q].mine, Load(q, r) PROVE IInv'
  <2>1. HandsOK'
    BY <1>1, LoopTyping DEF IInv, TypeOK
  <2>2. TypeOK'
    BY <1>1, <2>1 DEF Load, IInv, TypeOK
  <2>3. /\ \A p \in Requests : p # q => send'[p] = send[p]
        /\ send'[q].step = "sending" /\ send'[q].cur = r /\ send'[q].mine = send[q].mine \ {r}
        /\ send[q].cur = NULL /\ send[q].mine \subseteq Rows /\ r \in Rows
    BY <1>1 DEF Load, IInv, TypeOK, HandsOK, SendState, HeldIsSending
  <2>4. \A p \in Requests : Held(p)' = Held(p)
    BY <2>3, Parameters DEF Held
  <2>5. UNCHANGED <<status, upload, told, taken, doubts>>
    BY <1>1 DEF Load
  <2>6. HeldIsSending'
    <3>1. \A p \in Requests : \A s \in Held(p)' : status'[s] = "SENDING"
      BY <2>4, <2>5 DEF IInv, HeldIsSending
    <3>2. \A p \in Requests : p # q => send'[p].step = send[p].step /\ send'[p].cur = send[p].cur
                                     /\ send'[p].mine = send[p].mine
      BY <2>3
    <3>3. QED
      BY <2>3, <3>1, <3>2 DEF IInv, HeldIsSending
  <2>7. OneSender'
    BY <2>4 DEF IInv, OneSender
  <2>8. Unsent'
    <3>1. r \notin taken
      BY <1>1 DEF IInv, Unsent
    <3>2. \A p \in Requests : p # q => send'[p].step = send[p].step /\ send'[p].cur = send[p].cur
                                     /\ send'[p].mine = send[p].mine
      BY <2>3
    <3>3. QED
      BY <2>3, <2>5, <3>1, <3>2 DEF IInv, Unsent
  <2>9. QED
    BY <2>2, <2>5, <2>6, <2>7, <2>8 DEF IInv, NotStored, Accounted, SentWasTaken
<1>2. CASE Taken(q) \/ AnswerLost(q)
  <2> DEFINE c == send[q].cur
  <2>1. c \in Rows /\ c \notin taken /\ status[c] = "SENDING" /\ send[q].step \in Working
    BY <1>2, CurrentIsMine DEF IInv, Unsent, Taken, AnswerLost, Working
  <2>2. PICK step \in {"recording", "refused"} : Go(q, step)
    BY <1>2 DEF Taken, AnswerLost
  <2>3. /\ told' = [told EXCEPT ![c] = told[c] + 1] /\ taken' = taken \cup {c}
        /\ UNCHANGED <<status, chat, note, removed, upload, remover, doubts>>
        /\ faults' \in Nat /\ lost' \in Nat /\ restarts' \in Nat
    BY <1>2 DEF Taken, AnswerLost, IInv, TypeOK
  <2>4. HeldIsSending' /\ OneSender'
    BY <2>1, <2>2, <2>3, GoKeepsHands DEF Working
  <2>5. HandsOK'
    BY <2>2, GoTyping DEF IInv, TypeOK, Working
  <2>6. told' \in [Rows -> Nat] /\ taken' \subseteq Rows
    BY <2>1, <2>3 DEF IInv, TypeOK
  <2>7. TypeOK'
    BY <2>3, <2>5, <2>6 DEF IInv, TypeOK
  <2>8. \A p \in Requests : /\ send'[p].mine = send[p].mine /\ send'[p].cur = send[p].cur
                            /\ send'[p].step = IF p = q THEN step ELSE send[p].step
    BY <2>2 DEF Go, IInv, TypeOK, HandsOK, SendState
  <2>9. \A p \in Requests : c \notin send[p].mine
    BY <2>1, CurrentIsMine DEF Held, IInv, HeldIsSending
  <2>10. \A p \in Requests : p # q => send[p].cur # c \/ send[p].step \notin Working
    BY <2>1, CurrentIsMine DEF Held
  <2>11. Unsent'
    BY <2>3, <2>8, <2>9, <2>10 DEF IInv, Unsent, Working
  <2>12. Accounted'
    BY <2>1, <2>3, Parameters DEF IInv, TypeOK, Accounted, Open, Statuses
  <2>13. QED
    BY <2>3, <2>4, <2>7, <2>11, <2>12 DEF IInv, NotStored, SentWasTaken
<1>3. CASE Refused(q) \/ Record(q) \/ QueryFails(q)
  <2>1. send[q].step \in Working
    BY <1>3 DEF Refused, Record, QueryFails, Working
  <2>2. PICK step \in {"refused", "saving", "noting", "giving_up", "dead"} :
          /\ Go(q, step)
          /\ step \in {"saving", "noting"} => send[q].step \in {"recording", "saving"}
    BY <1>3 DEF Refused, Record, QueryFails, AfterFailure, Working
  <2>3. /\ UNCHANGED <<status, note, removed, upload, remover, told, taken, doubts>>
        /\ faults' \in Nat /\ lost' \in Nat /\ restarts' \in Nat
    BY <1>3 DEF Refused, Record, QueryFails, IInv, TypeOK
  <2>4. chat' \subseteq Rows
    BY <1>3, <2>1, CurrentIsMine DEF Refused, Record, QueryFails, IInv, TypeOK
  <2>5. HeldIsSending' /\ OneSender'
    BY <2>1, <2>2, <2>3, GoKeepsHands DEF Working
  <2>6. HandsOK'
    BY <2>2, GoTyping DEF IInv, TypeOK, Working
  <2>7. Unsent'
    BY <2>2, <2>3 DEF Go, IInv, TypeOK, HandsOK, SendState, Unsent
  <2>8. QED
    BY <2>3, <2>4, <2>5, <2>6, <2>7 DEF IInv, TypeOK, NotStored, Accounted, SentWasTaken
<1>4. CASE Refuse(q) \/ GiveUp(q)
  <2>1. /\ send[q].step \in Working /\ Done(q) /\ Fail(send[q].cur)
        /\ UNCHANGED <<chat, removed, upload, remover, told, taken, counts>>
    <3>1. send[q].step \in Working /\ status[send[q].cur] = "SENDING"
      BY <1>4, CurrentIsMine DEF Refuse, GiveUp, Working
    <3>2. QED
      BY <1>4, <3>1 DEF Refuse, GiveUp
  <2>2. send[q].cur \in Rows /\ status[send[q].cur] = "SENDING"
    BY <2>1, CurrentIsMine
  <2>3. \A r \in Rows : r # send[q].cur => status'[r] = status[r]
    BY <2>1 DEF Fail, IInv, TypeOK
  <2>4. HeldIsSending' /\ OneSender' /\ Unsent'
    BY <2>1, <2>3, DoneKeepsHands
  <2>5. Accounted' /\ SentWasTaken'
    BY <2>1, <2>2, FailKeeps
  <2>6. HandsOK'
    BY <2>1, DoneTyping DEF IInv, TypeOK
  <2>7. TypeOK'
    BY <2>1, <2>2, <2>6 DEF IInv, TypeOK, Fail, Statuses, Open
  <2>8. NotStored'
    BY <2>1, <2>2, <2>3, Parameters DEF IInv, NotStored, RowsOf, Statuses
  <2>9. QED
    BY <2>4, <2>5, <2>7, <2>8 DEF IInv
<1>5. CASE Save(q) \/ SaveNoted(q)
  <2>1. /\ send[q].step \in Working /\ Done(q) /\ send[q].cur \in taken
        /\ status' = [status EXCEPT ![send[q].cur] = "SENT"]
        /\ UNCHANGED <<chat, removed, upload, remover, told, taken, doubts, counts>>
    BY <1>5 DEF Save, SaveNoted, Working, IInv, Unsent
  <2>2. send[q].cur \in Rows /\ status[send[q].cur] = "SENDING"
    BY <2>1, CurrentIsMine
  <2>3. /\ status'[send[q].cur] = "SENT"
        /\ \A r \in Rows : r # send[q].cur => status'[r] = status[r]
    BY <2>1, <2>2 DEF IInv, TypeOK
  <2>4. HeldIsSending' /\ OneSender' /\ Unsent'
    BY <2>1, <2>3, DoneKeepsHands
  <2>5. Accounted' /\ SentWasTaken'
    BY <2>1, <2>2, <2>3 , Parameters DEF IInv, Accounted, SentWasTaken, Open, Statuses
  <2>6. HandsOK'
    BY <2>1, DoneTyping DEF IInv, TypeOK
  <2>7. note' \subseteq Rows
    BY <1>5, <2>2 DEF Save, SaveNoted, IInv, TypeOK
  <2>8. TypeOK'
    BY <2>1, <2>2, <2>6, <2>7 DEF IInv, TypeOK, Statuses
  <2>9. NotStored'
    BY <2>1, <2>2, <2>3, Parameters DEF IInv, NotStored, RowsOf, Statuses
  <2>10. QED
    BY <2>4, <2>5, <2>8, <2>9 DEF IInv
<1>6. QED
  BY <1>1, <1>2, <1>3, <1>4, <1>5 DEF Delivering

LEMMA RestartKeepsIInv == IInv /\ Restart => IInv'
<1> SUFFICES ASSUME IInv, Restart PROVE IInv'
  OBVIOUS
<1> USE DEF Restart, Restarted, history, counts
<1>1. \A r \in Rows : /\ status'[r] = IF status[r] = "SENDING" THEN "FAILED" ELSE status[r]
                      /\ doubts'[r] = IF status[r] = "SENDING" /\ r \in taken
                                       THEN doubts[r] + 1 ELSE doubts[r]
  OBVIOUS
<1>2. \A q \in Requests :
        \/ /\ send'[q] \in SendState /\ send'[q].mine = {} /\ send'[q].cur = NULL
           /\ send'[q].step \in {"idle", "done"}
        \/ send'[q] = send[q] /\ send[q].step \in {"idle", "done"}
  <2> SUFFICES ASSUME NEW q \in Requests
               PROVE  \/ /\ send'[q] \in SendState /\ send'[q].mine = {} /\ send'[q].cur = NULL
                         /\ send'[q].step \in {"idle", "done"}
                      \/ send'[q] = send[q] /\ send[q].step \in {"idle", "done"}
    OBVIOUS
  <2>1. send'[q] = Lost(q) /\ send[q] \in SendState
    BY DEF IInv, TypeOK, HandsOK
  <2>2. At("done") \in SendState
    BY DEF At, SendState
  <2>3. QED
    BY <2>1, <2>2 DEF Lost, At
<1>3. TypeOK'
  <2>1. status' \in [Rows -> Statuses \cup {NULL}] /\ doubts' \in [Rows -> Nat]
    BY DEF IInv, TypeOK, Statuses, Open
  <2>2. HandsOK'
    BY <1>2 DEF IInv, TypeOK, HandsOK
  <2>3. upload' \in [Imports -> UploadState] /\ remover' \in [Imports -> {"idle", "counted"}]
    BY DEF IInv, TypeOK, UploadState
  <2>4. QED
    BY <2>1, <2>2, <2>3 DEF IInv, TypeOK
<1>4. \A q \in Requests : Held(q)' = {}
  BY <1>2, Parameters DEF Held, IInv, HeldIsSending
<1>5. HeldIsSending' /\ OneSender' /\ Unsent'
  BY <1>2, <1>4 DEF IInv, HeldIsSending, OneSender, Unsent, Working
<1>6. NotStored'
  <2>1. \A i \in Imports : upload'[i].step # "stored" => upload[i].step # "stored"
    BY DEF IInv, TypeOK, UploadState
  <2>2. \A r \in Rows : status[r] = NULL => status'[r] = NULL
    BY <1>1, Parameters DEF Statuses
  <2>3. QED
    BY <2>1, <2>2 DEF IInv, NotStored, RowsOf
<1>7. Accounted'
  BY <1>1, Parameters DEF IInv, TypeOK, Accounted, Open, Statuses
<1>8. SentWasTaken'
  BY <1>1 DEF IInv, SentWasTaken
<1>9. QED
  BY <1>3, <1>5, <1>6, <1>7, <1>8 DEF IInv

LEMMA Invariance == Spec => []IInv
<1>1. IInv /\ [Next]_vars => IInv'
  <2> SUFFICES ASSUME IInv, [Next]_vars PROVE IInv'
    OBVIOUS
  <2>1. CASE Next
    BY <2>1, ImportsKeepIInv, ClaimingKeepsIInv, DeliveringKeepsIInv, RestartKeepsIInv
    DEF Next, SendStep
  <2>2. CASE UNCHANGED vars
    BY <2>2 DEF vars, rows, history, counts, IInv, TypeOK, HandsOK, HeldIsSending, OneSender, Held,
                NotStored, Unsent, Accounted, SentWasTaken
  <2>3. QED
    BY <2>1, <2>2
<1>2. QED
  BY InitIInv, <1>1, PTL DEF Spec

-----------------------------------------------------------------------------
(* Theorems *)

\* Rows and local variables stay in their types.
THEOREM TypeCorrect == Spec => []TypeOK
BY Invariance, PTL DEF IInv

\* A double click, or two users of the panel, never deliver one row twice at
\* once: the claim gives each row to one request.
THEOREM OneSenderAtATime == Spec => []OneSender
BY Invariance, PTL DEF IInv

\* Every delivery of a row after the first was preceded by one more time in
\* which it had been taken and was left as failed.
THEOREM NoRepeatWithoutDoubt == Spec => []TwiceOnlyAfterDoubt
<1>1. IInv => TwiceOnlyAfterDoubt
  BY DEF IInv, Accounted, TwiceOnlyAfterDoubt
<1>2. QED
  BY Invariance, <1>1, PTL

\* SENT in the panel means that WhatsApp took the notice.
THEOREM SentIsTrue == Spec => []SentWasTaken
BY Invariance, PTL DEF IInv

\* What the office marked as told by other means is not sent any more, by a
\* request that had already read it either.
THEOREM MarkedNeverSent == Spec => MarkedIsFinal
<1>1. IInv /\ [Next]_vars =>
        [\A r \in Rows : status[r] = "MARKED" => status'[r] = "MARKED" /\ told'[r] = told[r]]_vars
  <2> SUFFICES ASSUME IInv, Next, NEW r \in Rows, status[r] = "MARKED"
               PROVE  status'[r] = "MARKED" /\ told'[r] = told[r]
    OBVIOUS
  <2> USE DEF rows, history, counts
  <2>1. \A q \in Requests : send[q].step \in Working => send[q].cur # r
    BY CurrentIsMine
  <2>2. ASSUME NEW i \in Imports, ImportStep(i) PROVE status'[r] = "MARKED" /\ told'[r] = told[r]
    <3>1. CASE CreateStore(i)
      <4>1. r[1] # i
        BY <3>1, Parameters DEF CreateStore, IInv, NotStored, RowsOf, Statuses
      <4>2. QED
        BY <3>1, <4>1 DEF CreateStore
    <3>2. ASSUME NEW chosen \in SUBSET RowsOf(i), Mark(i, chosen)
          PROVE  status'[r] = "MARKED" /\ told'[r] = told[r]
      BY <3>2 DEF Mark
    <3>3. QED
      BY <2>2, <3>1, <3>2 DEF ImportStep, CreateRead, RemoveCount, RemoveCommit
  <2>3. ASSUME NEW q \in Requests, SendStep(q) PROVE status'[r] = "MARKED" /\ told'[r] = told[r]
    <3>1. ASSUME NEW s \in send[q].todo, Claim(q, s) PROVE status'[r] = "MARKED" /\ told'[r] = told[r]
      BY <3>1 DEF Claim, Open, IInv, TypeOK
    <3>2. CASE Delivering(q)
      BY <2>1, <3>2 DEF Delivering, Load, Taken, Refused, AnswerLost, Refuse, Record, Save, SaveNoted,
                        GiveUp, Fail, Working, IInv, TypeOK
    <3>3. CASE QueryFails(q) \/ ClaimFails(q) \/ Launch(q)
      BY <3>3 DEF QueryFails, ClaimFails, Launch
    <3>4. QED
      BY <2>3, <3>1, <3>2, <3>3 DEF SendStep, Claiming, SendRead, ClaimMissed
  <2>4. CASE Restart
    BY <2>4 DEF Restart
  <2>5. QED
    BY <2>2, <2>3, <2>4 DEF Next
<1>2. QED
  BY Invariance, <1>1, PTL DEF Spec, MarkedIsFinal

\* The claim and the outcomes do what they are for, for any number of Excels,
\* rows, requests and failures.
THEOREM SendsStayTrue == Spec => SendsAreTrue
BY OneSenderAtATime, NoRepeatWithoutDoubt, SentIsTrue, MarkedNeverSent DEF SendsAreTrue

-----------------------------------------------------------------------------
(* The row of a sent notice *)

\* What is about to be stored as sent is in the chat already, unless the row
\* is to say that it is not.
Recorded ==
  /\ ChatOrNote
  /\ \A q \in Requests : send[q].step = "saving" => send[q].cur \in chat

\* The steps that bring no row to SENT and drop no note of a sent one.
LEMMA QuietKeepsRecorded ==
  ASSUME Recorded,
         chat \subseteq chat',
         \A r \in Rows : status'[r] = "SENT" => status[r] = "SENT",
         \A r \in Rows : status'[r] = "SENT" /\ r \in note => r \in note',
         \A q \in Requests : send'[q].step = "saving" => send[q].step = "saving" /\ send'[q].cur = send[q].cur
  PROVE  Recorded'
BY DEF Recorded, ChatOrNote

LEMMA ImportsKeepRecorded ==
  ASSUME IInv, Recorded, NEW i \in Imports, ImportStep(i) PROVE Recorded'
<1> USE DEF rows, history, counts, IInv
<1>1. CASE CreateStore(i)
  <2>1. \A r \in Rows : status'[r] = "SENT" => status[r] = "SENT"
    BY <1>1 DEF CreateStore, FirstStatus
  <2>2. QED
    BY <1>1, <2>1, QuietKeepsRecorded DEF CreateStore
<1>2. ASSUME NEW chosen \in SUBSET RowsOf(i), Mark(i, chosen) PROVE Recorded'
  <2>1. \A r \in Rows : status'[r] = "SENT" => status[r] = "SENT"
    BY <1>2 DEF Mark
  <2>2. \A r \in Rows : status'[r] = "SENT" /\ r \in note => r \in note'
    BY <1>2 DEF Mark, Open
  <2>3. QED
    BY <1>2, <2>1, <2>2, QuietKeepsRecorded DEF Mark
<1>3. CASE CreateRead(i) \/ RemoveCount(i) \/ RemoveCommit(i)
  BY <1>3, QuietKeepsRecorded DEF CreateRead, RemoveCount, RemoveCommit
<1>4. QED
  BY <1>1, <1>2, <1>3 DEF ImportStep

LEMMA ClaimingKeepsRecorded ==
  ASSUME IInv, Recorded, NEW q \in Requests,
         \/ \E i \in Imports : \E chosen \in SUBSET RowsOf(i) : SendRead(q, i, chosen)
         \/ Claiming(q) \/ ClaimFails(q)
  PROVE  Recorded'
<1> USE DEF rows, history, counts, IInv
<1>0. /\ send \in [Requests -> SendState]
      /\ status \in [Rows -> Statuses \cup {NULL}]
  BY DEF TypeOK, HandsOK
<1>1. ASSUME NEW i \in Imports, NEW chosen \in SUBSET RowsOf(i), SendRead(q, i, chosen)
      PROVE  Recorded'
  <2>1. \A p \in Requests : send'[p].step = "saving" => send[p].step = "saving" /\ send'[p].cur = send[p].cur
    BY <1>0, <1>1 DEF SendRead, At
  <2>2. QED
    BY <1>1, <2>1, QuietKeepsRecorded DEF SendRead
<1>2. ASSUME NEW r \in send[q].todo, Claim(q, r) PROVE Recorded'
  <2>1. \A p \in Requests : send'[p].step = send[p].step /\ send'[p].cur = send[p].cur
    BY <1>0, <1>2 DEF Claim, SendState
  <2>2. \A s \in Rows : status'[s] = "SENT" => status[s] = "SENT" /\ s # r
    BY <1>0, <1>2 DEF Claim
  <2>3. \A s \in Rows : status'[s] = "SENT" /\ s \in note => s \in note'
    BY <1>2, <2>2 DEF Claim
  <2>4. QED
    BY <1>2, <2>1, <2>2, <2>3, QuietKeepsRecorded DEF Claim
<1>3. ASSUME NEW r \in send[q].todo, ClaimMissed(q, r) PROVE Recorded'
  <2>1. \A p \in Requests : send'[p].step = send[p].step /\ send'[p].cur = send[p].cur
    BY <1>0, <1>3 DEF ClaimMissed, SendState
  <2>2. QED
    BY <1>3, <2>1, QuietKeepsRecorded DEF ClaimMissed
<1>4. CASE Launch(q) \/ ClaimFails(q)
  <2>1. \A p \in Requests : send'[p].step = "saving" => send[p].step = "saving" /\ send'[p].cur = send[p].cur
    BY <1>0, <1>4 DEF Launch, ClaimFails, SendState
  <2>2. QED
    BY <1>4, <2>1, QuietKeepsRecorded DEF Launch, ClaimFails
<1>5. QED
  BY <1>1, <1>2, <1>3, <1>4 DEF Claiming

\* Failing a row, or going on, leaves the sent ones as they are.
LEMMA FailingKeepsRecorded ==
  ASSUME IInv, Recorded, NEW q \in Requests, send[q].step \in Working, Done(q), chat' = chat,
         Fail(send[q].cur)
  PROVE  Recorded'
<1>1. \A r \in Rows : status'[r] = "SENT" => status[r] = "SENT" /\ r # send[q].cur
  BY CurrentIsMine DEF Fail, IInv, TypeOK
<1>2. \A r \in Rows : status'[r] = "SENT" /\ r \in note => r \in note'
  BY <1>1 DEF Fail
<1>3. \A p \in Requests : send'[p].step = "saving" => send[p].step = "saving" /\ send'[p].cur = send[p].cur
  BY DEF Done, IInv, TypeOK, HandsOK, SendState
<1>4. QED
  BY <1>1, <1>2, <1>3, QuietKeepsRecorded

\* Storing a row as sent keeps the fact, if it is in the chat or gets its note.
LEMMA SavingKeepsRecorded ==
  ASSUME IInv, Recorded, NEW q \in Requests, send[q].step \in Working, Done(q), chat' = chat,
         status' = [status EXCEPT ![send[q].cur] = "SENT"],
         note \ {send[q].cur} \subseteq note',
         send[q].cur \in chat \cup note'
  PROVE  Recorded'
<1>1. \A r \in Rows : r # send[q].cur => status'[r] = status[r]
  BY DEF IInv, TypeOK
<1>2. ChatOrNote'
  BY <1>1 DEF Recorded, ChatOrNote
<1>3. \A p \in Requests : send'[p].step = "saving" => send[p].step = "saving" /\ send'[p].cur = send[p].cur
  BY DEF Done, IInv, TypeOK, HandsOK, SendState
<1>4. QED
  BY <1>2, <1>3 DEF Recorded

LEMMA DeliveringKeepsRecorded ==
  ASSUME IInv, Recorded, NEW q \in Requests, Delivering(q) \/ QueryFails(q) PROVE Recorded'
<1> USE DEF rows, history, counts
<1>0. send \in [Requests -> SendState]
  BY DEF IInv, TypeOK, HandsOK
<1>1. ASSUME NEW r \in send[q].mine, Load(q, r) PROVE Recorded'
  <2>1. \A p \in Requests : send'[p].step = "saving" => send[p].step = "saving" /\ send'[p].cur = send[p].cur
    BY <1>0, <1>1 DEF Load, SendState
  <2>2. QED
    BY <1>1, <2>1, QuietKeepsRecorded DEF Load
<1>2. CASE Taken(q) \/ Refused(q) \/ AnswerLost(q)
  <2>1. \A p \in Requests : send'[p].step = "saving" => send[p].step = "saving" /\ send'[p].cur = send[p].cur
    BY <1>0, <1>2 DEF Taken, Refused, AnswerLost, Go, SendState
  <2>2. QED
    BY <1>2, <2>1, QuietKeepsRecorded DEF Taken, Refused, AnswerLost
<1>3. CASE Record(q)
  <2>1. \A p \in Requests : send'[p].step = "saving" => send'[p].cur \in chat'
    BY <1>0, <1>3 DEF Record, Go, Recorded, SendState
  <2>2. ChatOrNote'
    BY <1>3 DEF Record, Recorded, ChatOrNote
  <2>3. QED
    BY <2>1, <2>2 DEF Recorded
<1>4. CASE Refuse(q)
  BY <1>4, FailingKeepsRecorded DEF Refuse, Working
<1>5. CASE GiveUp(q)
  <2>1. send[q].step \in Working
    BY <1>5 DEF GiveUp, Working
  <2>2. Fail(send[q].cur)
    BY <1>5, <2>1, CurrentIsMine DEF GiveUp
  <2>3. QED
    BY <1>5, <2>1, <2>2, FailingKeepsRecorded DEF GiveUp
<1>6. CASE Save(q)
  <2>1. send[q].cur \in chat
    BY <1>6 DEF Save, Recorded
  <2>2. QED
    BY <1>6, <2>1, SavingKeepsRecorded DEF Save, Working
<1>7. CASE SaveNoted(q)
  BY <1>7, SavingKeepsRecorded DEF SaveNoted, Working
<1>8. CASE QueryFails(q)
  <2>1. AfterFailure(send[q].step) # "saving"
    BY <1>8 DEF QueryFails, AfterFailure, Working
  <2>2. \A p \in Requests : send'[p].step = "saving" => send[p].step = "saving" /\ send'[p].cur = send[p].cur
    BY <1>0, <1>8, <2>1 DEF QueryFails, Go, SendState
  <2>3. QED
    BY <1>8, <2>2, QuietKeepsRecorded DEF QueryFails
<1>9. QED
  BY <1>1, <1>2, <1>3, <1>4, <1>5, <1>6, <1>7, <1>8 DEF Delivering

\* What the panel shows as sent can be read in the client's chat, or its row
\* says that it cannot: whatever query fails and whenever the process restarts.
THEOREM SentIsInChat == Spec => []ChatOrNote
<1>1. Init => Recorded
  <2>1. NULL # "SENT"
    BY Parameters DEF Statuses
  <2>2. Init => ChatOrNote
    BY <2>1 DEF Init, ChatOrNote
  <2>3. Init => \A q \in Requests : send[q].step = "idle"
    BY DEF Init, At
  <2>4. QED
    BY <2>2, <2>3 DEF Recorded
<1>2. IInv /\ Recorded /\ [Next]_vars => Recorded'
  <2> SUFFICES ASSUME IInv, Recorded, [Next]_vars PROVE Recorded'
    OBVIOUS
  <2>1. CASE UNCHANGED vars
    BY <2>1 DEF vars, rows, Recorded, ChatOrNote
  <2>2. CASE Restart
    <3>1. \A r \in Rows : status'[r] = "SENT" => status[r] = "SENT"
      BY <2>2 DEF Restart
    <3>2. \A r \in Rows : status'[r] = "SENT" /\ r \in note => r \in note'
      BY <2>2, <3>1 DEF Restart
    <3>3. \A q \in Requests : send'[q].step # "saving"
      BY <2>2 DEF Restart, Restarted, Lost, At
    <3>4. QED
      BY <2>2, <3>1, <3>2, <3>3, QuietKeepsRecorded DEF Restart
  <2>3. ASSUME NEW q \in Requests, SendStep(q) PROVE Recorded'
    BY <2>3, ClaimingKeepsRecorded, DeliveringKeepsRecorded DEF SendStep
  <2>4. QED
    BY <2>1, <2>2, <2>3, ImportsKeepRecorded DEF Next
<1>3. QED
  BY Invariance, <1>1, <1>2, PTL DEF Spec, Recorded
=============================================================================
