--------------------------- MODULE HandoverProofs ---------------------------
(***************************************************************************)
(* What holds of the handover for every number of agents, echoes, requests *)
(* and matters, and for every value of the timeouts.                       *)
(***************************************************************************)
EXTENDS Handover, TLAPS

\* Answering and resolving touch the status of matters that exist.
LEMMA ResolvingTyping ==
  ASSUME MattersOK, ResolveAnswered PROVE MattersOK'
BY DEF MattersOK, ResolveAnswered, Present, Matter, Statuses

LEMMA NewMatterTyping ==
  ASSUME MattersOK, now \in Nat, NEW type \in {"handoff", "baja_poliza"},
         NEW body \in SUBSET Topics, NEW category \in Categories \cup {"baja"},
         NewMatter(type, body, category)
  PROVE  MattersOK'
BY DEF MattersOK, NewMatter, Matter, Statuses, EchoInBetween

\* Each handler leaves every column and local variable in its type.
LEMMA AgentTyping ==
  ASSUME NEW a \in Agents, AgentStep(a), TypeOK PROVE TypeOK'
<1> USE DEF TypeOK, HandlersOK, rows, clock
<1>1. CASE Takeover(a)
  BY <1>1 DEF Takeover, MattersOK, RowsOK, Conversation, Stamp
<1>2. CASE Release(a)
  <2>1. RowsOK'
    BY <1>2 DEF Release, BackToBot, RowsOK, Conversation, Stamp
  <2>2. agent' \in [Agents -> AgentState]
    BY <1>2 DEF Release, AgentState
  <2>3. QED
    BY <1>2, <2>1, <2>2 DEF Release, MattersOK

<1>3. CASE ReleaseResolve(a)
  <2>1. MattersOK'
    BY <1>3, ResolvingTyping DEF ReleaseResolve
  <2>2. agent' \in [Agents -> AgentState]
    BY <1>3 DEF ReleaseResolve, AgentState
  <2>3. QED
    BY <1>3, <2>1, <2>2 DEF ReleaseResolve, RowsOK
<1>4. CASE CheckSend(a)
  BY <1>4 DEF CheckSend, AgentState, RowsOK, MattersOK
<1>5. CASE SendFails(a)
  BY <1>5 DEF SendFails, AgentState, RowsOK, MattersOK
<1>6. CASE Persist(a)
  BY <1>6 DEF Persist, AgentState, RowsOK, MattersOK, Stamp
<1>7. CASE SendMark(a)
  <2>1. MattersOK'
    BY <1>7 DEF SendMark, MarkAnswered, MattersOK, Present, Matter, Statuses
  <2>2. agent' \in [Agents -> AgentState]
    BY <1>7 DEF SendMark, AgentState, Stamp
  <2>3. QED
    BY <1>7, <2>1, <2>2 DEF SendMark, RowsOK
<1>8. CASE AgentFails(a)
  BY <1>8 DEF AgentFails, AgentState, RowsOK, MattersOK, Stamp
<1>9. QED
  BY <1>1, <1>2, <1>3, <1>4, <1>5, <1>6, <1>7, <1>8 DEF AgentStep, AgentRuns

LEMMA EchoTyping ==
  ASSUME NEW d \in Deliveries, EchoStep(d), TypeOK PROVE TypeOK'
<1> USE DEF TypeOK, HandlersOK, rows, clock
<1>1. CASE EchoRead(d)
  BY <1>1 DEF EchoRead, EchoState, RowsOK, MattersOK, Conversation
<1>2. CASE EchoDuplicate(d)
  BY <1>2 DEF EchoDuplicate, EchoState, RowsOK, MattersOK
<1>3. CASE EchoStore(d)
  <2>1. conv' \in Conversation
    BY <1>3 DEF EchoStore, RowsOK, Conversation, Stamp
  <2>2. stored' \subseteq Wamids
    BY <1>3, Parameters DEF EchoStore, RowsOK
  <2>3. talk' \in [office : Stamp, customer : Stamp]
    BY <1>3 DEF EchoStore, RowsOK, Stamp
  <2>4. echo' \in [Deliveries -> EchoState]
    BY <1>3 DEF EchoStore, EchoState
  <2>5. QED
    BY <1>3, <2>1, <2>2, <2>3, <2>4 DEF EchoStore, RowsOK, MattersOK
<1>4. CASE EchoMark(d)
  <2>1. MattersOK'
    BY <1>4 DEF EchoMark, MarkAnswered, MattersOK, Present, Matter, Statuses
  <2>2. QED
    BY <1>4, <2>1 DEF EchoMark, EchoState, RowsOK
<1>5. CASE EchoFails(d)
  BY <1>5 DEF EchoFails, EchoState, RowsOK, MattersOK
<1>6. QED
  BY <1>1, <1>2, <1>3, <1>4, <1>5 DEF EchoStep, EchoRuns

LEMMA SweepTyping ==
  ASSUME SweepRuns \/ SweepFails, TypeOK PROVE TypeOK'
<1> USE DEF TypeOK, HandlersOK, rows, clock
<1>1. CASE SweepRead
  BY <1>1 DEF SweepRead, SweepState, RowsOK, MattersOK, Conversation, Stamp
<1>2. CASE SweepJudge
  BY <1>2 DEF SweepJudge, SweepAt, SweepState, Later, RowsOK, MattersOK, Stamp
<1>3. CASE SweepRelease
  <2>1. RowsOK'
    BY <1>3 DEF SweepRelease, BackToBot, RowsOK, Conversation, Stamp
  <2>2. QED
    BY <1>3, <2>1 DEF SweepRelease, SweepAt, SweepState, MattersOK, Stamp
<1>4. CASE SweepTooLate
  BY <1>4 DEF SweepTooLate, SweepAt, SweepState, RowsOK, MattersOK, Stamp
<1>5. CASE SweepResolve
  BY <1>5, ResolvingTyping DEF SweepResolve, SweepAt, SweepState, RowsOK, Stamp
<1>6. CASE SweepFails
  BY <1>6 DEF SweepFails, SweepAt, SweepState, RowsOK, MattersOK, Stamp
<1>7. QED
  BY <1>1, <1>2, <1>3, <1>4, <1>5, <1>6 DEF SweepRuns

\* The words and the category of a request.
LEMMA RequestTyping ==
  ASSUME NEW c \in Calls PROVE Body(c) \in SUBSET Topics /\ Category(c) \in Categories
BY Parameters DEF Body, Category, Categories

LEMMA CallTyping ==
  ASSUME NEW c \in Calls, CallStep(c), TypeOK PROVE TypeOK'
<1>a. \A s \in {"asked", "marked", "matching", "create", "bump", "file", "done"} :
        To(c, s) => call' \in [Calls -> CallState]
  BY DEF TypeOK, HandlersOK, To, Idle, CallState, Categories
<1> USE DEF TypeOK, HandlersOK, rows, clock
<1>1. CASE AskSkip(c) \/ AskRead(c)
  BY <1>a, <1>1 DEF AskSkip, AskRead, RowsOK, MattersOK
<1>2. CASE AskMark(c)
  BY <1>a, <1>2 DEF AskMark, RowsOK, MattersOK, Conversation
<1>3. CASE AskRepeat(c)
  BY <1>a, <1>3 DEF AskRepeat, RowsOK, MattersOK
<1>4. CASE AskMatch(c)
  <2>1. call' \in [Calls -> CallState]
    <3>1. CASE Newest = {}
      BY <1>a, <1>4, <3>1 DEF AskMatch
    <3>2. ASSUME NEW m \in Newest PROVE matters[m] \in Matter /\ m \in MatterIds
      BY <3>2, Parameters DEF Newest, Recent, Unresolved, Present, MattersOK
    <3>3. QED
      BY <1>a, <1>4, <3>1, <3>2, RequestTyping DEF AskMatch, Matter, CallState, Categories
  <2>2. QED
    BY <1>4, <2>1 DEF AskMatch, RowsOK, MattersOK
<1>5. CASE AskJoin(c)
  <2> DEFINE t == call[c].target
  <2>1. t \in MatterIds /\ matters[t] \in Matter
    BY <1>5 DEF AskJoin, MattersOK
  <2>2. call[c].body \in SUBSET Topics /\ call[c].category \in Categories \cup {"baja"}
    BY DEF CallState
  <2>3. [matters[t] EXCEPT !.body = call[c].body, !.category = call[c].category,
                           !.status = "pending", !.askedAt = now, !.crossed = EchoInBetween] \in Matter
    BY <2>1, <2>2 DEF Matter, Statuses, EchoInBetween
  <2>4. MattersOK'
    BY <1>5, <2>1, <2>3 DEF AskJoin, MattersOK
  <2>5. QED
    BY <1>a, <1>5, <2>4 DEF AskJoin, RowsOK
<1>6. CASE AskCreate(c)
  BY <1>a, <1>6, RequestTyping, NewMatterTyping DEF AskCreate, RowsOK
<1>7. CASE CancelRead(c)
  BY <1>a, <1>7 DEF CancelRead, RowsOK, MattersOK
<1>8. CASE CancelCommit(c)
  <2>1. MattersOK'
    BY <1>8, RequestTyping, NewMatterTyping DEF CancelCommit, MattersOK
  <2>2. QED
    BY <1>a, <1>8, <2>1 DEF CancelCommit, RowsOK, Conversation
<1>9. CASE CallFails(c)
  BY <1>a, <1>9 DEF CallFails, RowsOK, MattersOK
<1>10. QED
  BY <1>1, <1>2, <1>3, <1>4, <1>5, <1>6, <1>7, <1>8, <1>9 DEF CallStep, CallRuns

LEMMA OutsideTyping ==
  ASSUME Desk \/ CustomerWrites \/ SwitchBot \/ Tick, TypeOK PROVE TypeOK'
<1> USE DEF TypeOK, HandlersOK, rows, clock
<1>1. ASSUME NEW m \in MatterIds, NEW s \in HandEdits, NEW k \in Categories, UpdateMatter(m, s, k)
      PROVE  TypeOK'
  <2>1. s \in Statuses
    BY Parameters
  <2>2. MattersOK'
    BY <1>1, <2>1 DEF UpdateMatter, MattersOK, Matter, Present
  <2>3. QED
    BY <1>1, <2>2 DEF UpdateMatter, RowsOK
<1>2. CASE ClearAll
  BY <1>2 DEF ClearAll, MattersOK, Matter, RowsOK
<1>3. CASE CustomerWrites
  BY <1>3 DEF CustomerWrites, MattersOK, RowsOK, Stamp
<1>4. CASE SwitchBot
  <2>1. botEnabled' \in BOOLEAN
    BY <1>4, Zenon DEF SwitchBot
  <2>2. QED
    BY <1>4, <2>1 DEF SwitchBot, MattersOK, RowsOK
<1>5. CASE Tick
  BY <1>5 DEF Tick, MattersOK, RowsOK
<1>6. QED
  BY <1>1, <1>2, <1>3, <1>4, <1>5 DEF Desk

LEMMA TypeInit == Init => TypeOK
<1> SUFFICES ASSUME Init PROVE TypeOK
  OBVIOUS
<1>1. RowsOK /\ MattersOK
  BY DEF Init, RowsOK, MattersOK, Conversation, Stamp
<1>2. agent \in [Agents -> AgentState] /\ echo \in [Deliveries -> EchoState]
  BY DEF Init, AgentState, EchoState, Stamp
<1>3. call \in [Calls -> CallState]
  BY DEF Init, CallState, Idle, Categories
<1>4. sweep \in SweepState
  BY DEF Init, SweepState, SweepAt, Stamp
<1>5. QED
  BY <1>1, <1>2, <1>3, <1>4 DEF Init, TypeOK, HandlersOK

\* Every row and every handler's local variable keeps its type.
THEOREM TypeCorrect == Spec => []TypeOK
<1>1. Init => TypeOK
  BY TypeInit
<1>2. TypeOK /\ [Next]_vars => TypeOK'
  <2>1. CASE UNCHANGED vars
    BY <2>1 DEF vars, TypeOK, RowsOK, MattersOK, HandlersOK
  <2>2. QED
    BY <2>1, AgentTyping, EchoTyping, CallTyping, SweepTyping, OutsideTyping DEF Next
<1>3. QED
  BY <1>1, <1>2, PTL DEF Spec

-----------------------------------------------------------------------------
(* Who attends the chat. *)

\* The five things a step can do to the conversation row.
ConvStep ==
  \/ conv' = conv
  \/ conv' = [conv EXCEPT !.status = "pending"]
  \/ BackToBot
  \/ \E a \in Agents :
       /\ conv.assigned = NULL
       /\ conv' = [conv EXCEPT !.botPaused = TRUE, !.assigned = a, !.handedOverAt = now, !.status = "pending"]
  \/ \E h \in {now, conv.handedOverAt} :
       conv' = [conv EXCEPT !.botPaused = TRUE, !.status = "open", !.handedOverAt = h]

LEMMA ConvSteps == ASSUME [Next]_vars PROVE ConvStep
<1> USE DEF ConvStep, rows
<1>1. ASSUME NEW a \in Agents, AgentStep(a) PROVE ConvStep
  BY <1>1 DEF AgentStep, AgentRuns, Takeover, Release, ReleaseResolve, CheckSend, SendFails,
     Persist, SendMark, AgentFails
<1>2. ASSUME NEW d \in Deliveries, EchoStep(d) PROVE ConvStep
  BY <1>2 DEF EchoStep, EchoRuns, EchoRead, EchoDuplicate, EchoStore, EchoMark, EchoFails
<1>3. ASSUME NEW c \in Calls, CallStep(c) PROVE ConvStep
  BY <1>3 DEF CallStep, CallRuns, AskSkip, AskRead, AskMark, AskRepeat, AskMatch, AskJoin,
     AskCreate, CancelRead, CancelCommit, CallFails
<1>4. CASE SweepRuns \/ SweepFails
  BY <1>4 DEF SweepRuns, SweepRead, SweepJudge, SweepRelease, SweepTooLate, SweepResolve, SweepFails
<1>5. CASE Desk \/ CustomerWrites \/ SwitchBot \/ Tick \/ UNCHANGED vars
  BY <1>5 DEF Desk, UpdateMatter, ClearAll, CustomerWrites, SwitchBot, Tick, vars
<1>6. QED
  BY <1>1, <1>2, <1>3, <1>4, <1>5 DEF Next

\* An owner implies a pause and its time; the bot's chats carry no trace of one.
THEOREM PauseIsCoherent == Spec => []PauseCoherent
<1>1. Init => PauseCoherent
  BY DEF Init, PauseCoherent
<1>2. TypeOK /\ PauseCoherent /\ [Next]_vars => PauseCoherent'
  <2> SUFFICES ASSUME TypeOK, PauseCoherent, [Next]_vars PROVE PauseCoherent'
    OBVIOUS
  <2>1. now # NULL /\ conv \in Conversation
    BY Parameters DEF TypeOK, RowsOK
  <2>2. ConvStep
    BY ConvSteps
  <2>3. CASE BackToBot
    BY <2>1, <2>3 DEF BackToBot, PauseCoherent, Conversation
  <2>4. CASE \E h \in {now, conv.handedOverAt} :
               conv' = [conv EXCEPT !.botPaused = TRUE, !.status = "open", !.handedOverAt = h]
    BY <2>1, <2>4 DEF PauseCoherent, Conversation
  <2>5. CASE \E a \in Agents :
               /\ conv.assigned = NULL
               /\ conv' = [conv EXCEPT !.botPaused = TRUE, !.assigned = a, !.handedOverAt = now, !.status = "pending"]
    BY <2>1, <2>5 DEF PauseCoherent, Conversation
  <2>6. CASE conv' = conv \/ conv' = [conv EXCEPT !.status = "pending"]
    BY <2>1, <2>6 DEF PauseCoherent, Conversation
  <2>7. QED
    BY <2>2, <2>3, <2>4, <2>5, <2>6 DEF ConvStep
<1>3. QED
  BY <1>1, <1>2, TypeCorrect, PTL DEF Spec

\* A chat changes owner only through nobody.
THEOREM OwnerStaysExclusive == Spec => OwnerIsExclusive
<1>1. TypeOK /\ [Next]_vars =>
        [conv.assigned # NULL /\ conv'.assigned # conv.assigned => conv'.assigned = NULL]_vars
  BY ConvSteps DEF ConvStep, BackToBot, TypeOK, RowsOK, Conversation
<1>2. QED
  BY <1>1, TypeCorrect, PTL DEF Spec, OwnerIsExclusive

\* The handlers do what ChatOwner promises.
THEOREM HandoverImplementsOwner == Spec => ImplementsOwner
<1>1. Init => Owner!Init
  BY DEF Init, Owner!Init
<1>2. TypeOK /\ PauseCoherent /\ [Next]_vars => [Owner!Next]_<<IF conv.botPaused THEN "office" ELSE "bot", conv.assigned>>
  BY ConvSteps DEF ConvStep, BackToBot, TypeOK, RowsOK, Conversation, PauseCoherent,
     Owner!Next, Owner!Claim, Owner!AnswerFromTheApp, Owner!HandBack
<1>3. QED
  BY <1>1, <1>2, TypeCorrect, PauseIsCoherent, PTL DEF Spec, ImplementsOwner, Owner!Spec

\* The bot falls silent only for a takeover or a reply it had not seen.
THEOREM PauseAlwaysHasCause == Spec => PauseHasCause
<1> DEFINE Cause == \/ conv'.assigned # NULL
                    \/ stored' # stored
                    \/ \E d \in Deliveries : WamidOf[d] = NULL /\ echo'[d] # echo[d]
<1>1. ASSUME TypeOK, [Next]_vars, ~conv.botPaused, conv'.botPaused PROVE Cause
  <2>1. conv \in Conversation /\ echo \in [Deliveries -> EchoState]
    BY <1>1 DEF TypeOK, RowsOK, HandlersOK
  <2>2. ASSUME NEW a \in Agents, AgentStep(a) PROVE Cause
    BY <1>1, <2>1, <2>2, Parameters DEF AgentStep, AgentRuns, Takeover, Release, BackToBot,
       ReleaseResolve, CheckSend, SendFails, Persist, SendMark, AgentFails, rows, Conversation
  <2>3. ASSUME NEW d \in Deliveries, EchoStep(d) PROVE Cause
    <3>1. EchoStore(d)
      BY <1>1, <2>1, <2>3 DEF EchoStep, EchoRuns, EchoRead, EchoDuplicate, EchoMark, EchoFails, rows
    <3>2. CASE WamidOf[d] = NULL
      BY <2>1, <3>1, <3>2 DEF EchoStore, EchoState
    <3>3. CASE WamidOf[d] # NULL
      BY <3>1, <3>3 DEF EchoStore
    <3>4. QED
      BY <3>2, <3>3
  <2>4. CASE \E c \in Calls : CallStep(c)
    BY <1>1, <2>1, <2>4 DEF CallStep, CallRuns, AskSkip, AskRead, AskMark, AskRepeat, AskMatch,
       AskJoin, AskCreate, CancelRead, CancelCommit, CallFails, rows, Conversation
  <2>5. CASE SweepRuns \/ SweepFails
    BY <1>1, <2>1, <2>5 DEF SweepRuns, SweepRead, SweepJudge, SweepRelease, BackToBot,
       SweepTooLate, SweepResolve, SweepFails, rows, Conversation
  <2>6. CASE Desk \/ CustomerWrites \/ SwitchBot \/ Tick \/ UNCHANGED vars
    BY <1>1, <2>6 DEF Desk, UpdateMatter, ClearAll, CustomerWrites, SwitchBot, Tick, rows, vars
  <2>7. QED
    BY <1>1, <2>2, <2>3, <2>4, <2>5, <2>6 DEF Next
<1>2. TypeOK /\ [Next]_vars => [~conv.botPaused /\ conv'.botPaused => Cause]_vars
  BY <1>1
<1>3. QED
  BY <1>2, TypeCorrect, PTL DEF Spec, PauseHasCause

\* Whoever writes the columns of a chat, their state makes sense, a chat has one
\* owner at a time and the bot is not silenced without a cause.
THEOREM ChatStaysOwned == Spec => ChatIsOwned
BY PauseIsCoherent, OwnerStaysExclusive, PauseAlwaysHasCause DEF ChatIsOwned

-----------------------------------------------------------------------------
(* What the office answers, from the panel and from the app. *)

\* An answer is marked with a time the thread already shows, but for an echo
\* between its two queries: what is not crossed was asked before it was stored.
AnswersDated ==
  /\ talk.office # NULL => talk.office <= now
  /\ \A a \in Agents : agent[a].step = "marking" =>
       agent[a].at # NULL /\ talk.office # NULL /\ agent[a].at <= talk.office
  /\ EchoInBetween =>
       /\ talk.office # NULL
       /\ \A m \in MatterIds :
            matters[m] # NULL /\ ~matters[m].crossed => matters[m].askedAt <= talk.office

\* A matter is asked before now.
AskedInTime == \A m \in MatterIds : matters[m] # NULL => matters[m].askedAt <= now

AnswerInv == SettledByAnswer /\ AnswersDated /\ AskedInTime

LEMMA AnswerTypes ==
  ASSUME TypeOK
  PROVE  /\ now \in Nat /\ NULL \notin Nat
         /\ talk \in [office : Stamp, customer : Stamp]
         /\ agent \in [Agents -> AgentState]
         /\ echo \in [Deliveries -> EchoState]
         /\ matters \in [MatterIds -> Matter \cup {NULL}]
BY Parameters DEF TypeOK, RowsOK, HandlersOK, MattersOK

LEMMA AgentAnswers ==
  ASSUME TypeOK, AnswerInv, NEW a \in Agents, AgentStep(a) PROVE AnswerInv'
<1> USE DEF AnswerInv, SettledByAnswer, AnswersDated, AskedInTime, EchoInBetween, rows, clock
<1>1. CASE Takeover(a) \/ Release(a) \/ CheckSend(a) \/ SendFails(a) \/ AgentFails(a)
  BY <1>1, AnswerTypes DEF Takeover, Release, CheckSend, SendFails, AgentFails, AgentState
<1>2. CASE Persist(a)
  BY <1>2, AnswerTypes DEF Persist, AgentState, Stamp, Matter
<1>3. CASE SendMark(a)
  BY <1>3, AnswerTypes DEF SendMark, MarkAnswered, AgentState, Stamp, Matter, Present
<1>4. CASE ReleaseResolve(a)
  BY <1>4, AnswerTypes DEF ReleaseResolve, ResolveAnswered, AgentState, Matter, Present
<1>5. QED
  BY <1>1, <1>2, <1>3, <1>4 DEF AgentStep, AgentRuns

LEMMA EchoAnswers ==
  ASSUME TypeOK, AnswerInv, NEW d \in Deliveries, EchoStep(d) PROVE AnswerInv'
<1> USE DEF AnswerInv, SettledByAnswer, AnswersDated, AskedInTime, EchoInBetween, rows, clock
<1>1. CASE EchoRead(d) \/ EchoDuplicate(d) \/ EchoFails(d)
  BY <1>1, AnswerTypes DEF EchoRead, EchoDuplicate, EchoFails, EchoState
<1>2. CASE EchoStore(d)
  <2>1. talk'.office = now /\ UNCHANGED <<now, matters, byHand, agent>>
    BY <1>2, AnswerTypes DEF EchoStore
  <2>2. SettledByAnswer' /\ AskedInTime'
    BY <2>1, AnswerTypes DEF Matter
  <2>3. AnswersDated'
    BY <2>1, AnswerTypes DEF Stamp, AgentState, Matter
  <2>4. QED
    BY <2>2, <2>3
<1>3. CASE EchoMark(d)
  BY <1>3, AnswerTypes DEF EchoMark, MarkAnswered, EchoState, Stamp, Matter, Present
<1>4. QED
  BY <1>1, <1>2, <1>3 DEF EchoStep, EchoRuns

LEMMA CallAnswers ==
  ASSUME TypeOK, AnswerInv, NEW c \in Calls, CallStep(c) PROVE AnswerInv'
<1> USE DEF AnswerInv, SettledByAnswer, AnswersDated, AskedInTime, rows, clock
<1>1. CASE UNCHANGED <<matters, byHand, talk, agent, echo, now>>
  BY <1>1 DEF EchoInBetween
<1>2. CASE AskJoin(c)
  <2>1. EchoInBetween' <=> EchoInBetween
    BY <1>2 DEF AskJoin, EchoInBetween
  <2>2. EchoInBetween \in BOOLEAN
    BY DEF EchoInBetween
  <2>3. QED
    BY <1>2, <2>1, <2>2, AnswerTypes DEF AskJoin, Matter
<1>3. ASSUME NEW type, NEW body, NEW category, NewMatter(type, body, category),
             UNCHANGED <<byHand, talk, agent, echo, now>>
      PROVE  AnswerInv'
  <2>1. EchoInBetween' <=> EchoInBetween
    BY <1>3 DEF EchoInBetween
  <2>2. QED
    BY <1>3, <2>1, AnswerTypes DEF NewMatter, Matter
<1>4. QED
  BY <1>1, <1>2, <1>3 DEF CallStep, CallRuns, AskSkip, AskRead, AskMark, AskRepeat,
     AskMatch, AskCreate, CancelRead, CancelCommit, CallFails

LEMMA OtherAnswers ==
  ASSUME TypeOK, AnswerInv,
         SweepRuns \/ SweepFails \/ Desk \/ CustomerWrites \/ SwitchBot \/ Tick \/ UNCHANGED vars
  PROVE  AnswerInv'
<1> USE DEF AnswerInv, SettledByAnswer, AnswersDated, AskedInTime, EchoInBetween, rows, clock
<1>1. CASE SweepResolve
  BY <1>1, AnswerTypes DEF SweepResolve, ResolveAnswered, Matter, Present
<1>2. CASE SweepRead \/ SweepJudge \/ SweepRelease \/ SweepTooLate \/ SweepFails
  BY <1>2 DEF SweepRead, SweepJudge, SweepRelease, SweepTooLate, SweepFails
<1>3. ASSUME NEW m \in MatterIds, NEW s \in HandEdits, NEW k \in Categories, UpdateMatter(m, s, k)
      PROVE  AnswerInv'
  BY <1>3, AnswerTypes DEF UpdateMatter, Matter, Present
<1>4. CASE ClearAll
  BY <1>4, AnswerTypes DEF ClearAll, Matter
<1>5. CASE CustomerWrites \/ SwitchBot \/ Tick \/ UNCHANGED vars
  BY <1>5, AnswerTypes DEF CustomerWrites, SwitchBot, Tick, vars, Stamp, Matter
<1>6. QED
  BY <1>1, <1>2, <1>3, <1>4, <1>5 DEF SweepRuns, Desk

\* Over the panel's replies, the app's echoes, requests that join, releases and
\* the staff's edits: no matter stops waiting without an answer stored since it
\* was asked, but for one asked between an echo's two queries.
THEOREM SettledOnlyByAnswer == Spec => []SettledByAnswer
<1>1. Init => AnswerInv
  BY DEF Init, AnswerInv, SettledByAnswer, AnswersDated, AskedInTime, EchoInBetween
<1>2. TypeOK /\ AnswerInv /\ [Next]_vars => AnswerInv'
  BY AgentAnswers, EchoAnswers, CallAnswers, OtherAnswers DEF Next
<1>3. AnswerInv => SettledByAnswer
  BY DEF AnswerInv
<1>4. QED
  BY <1>1, <1>2, <1>3, TypeCorrect, PTL DEF Spec
=============================================================================
