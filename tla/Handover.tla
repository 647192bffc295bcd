------------------------------ MODULE Handover ------------------------------
(***************************************************************************)
(* One WhatsApp conversation passed between the bot and the office.        *)
(*                                                                         *)
(* The office takes it over from the panel (InboxService.takeover) or by   *)
(* answering from the WhatsApp Business app (an "echo" that Meta may        *)
(* deliver more than once); it goes back by hand (InboxService.release) or *)
(* through the sweep that runs every minute (BotTakeoverTimeoutService).   *)
(* What the customer asked the office for is kept as "matters" (the        *)
(* notification table), which answering settles and the bot's requests     *)
(* open.  Every handler is a process: one step per awaited database call   *)
(* that another handler can get in between.                                *)
(***************************************************************************)
EXTENDS Integers

CONSTANTS
  NULL,         \* SQL null
  Agents,       \* panel sessions of the office's users
  Wamids,       \* Meta's message ids
  Deliveries,   \* webhook deliveries of echoes, retries included
  WamidOf,      \* the id each delivery carries, or NULL when Meta sent none
  Calls,        \* requests to the office sent by the bot
  CancelCalls,  \* those that ask to cancel a policy
  Topics,       \* what a request can be about (its text)
  TopicOf,      \* the reason of each request, or NULL for a bare one
  CategoryOf,   \* the office category of each topic
  Blocked,      \* requests filed because the bot refused to open a claim
  MaxMatters,   \* bound: matters a behaviour may open
  HandEdits,    \* bound: statuses the staff sets by hand
  OperatorIdle, Quiet, MaxSilence,  \* BOT_TAKEOVER_* of the sweep
  JoinWindow,   \* HANDOFF_JOIN_WINDOW_MS
  ReplyWindow,  \* Meta's 24 hour window
  ActiveUntil,  \* bound: last instant at which people write
  MaxTime,      \* bound: last instant of the clock
  MaxFaults     \* bound: handlers cut short by a failed query or a crash

MatterIds == 1..MaxMatters
Categories == {"other", "siniestro"} \cup {CategoryOf[t] : t \in Topics}
Statuses == {"pending", "in_progress", "resolved"}

ASSUME Parameters ==
  /\ NULL \notin Agents /\ NULL \notin Wamids /\ NULL \notin Topics /\ NULL \notin Nat
  /\ WamidOf \in [Deliveries -> Wamids \cup {NULL}]
  /\ CancelCalls \subseteq Calls /\ Blocked \subseteq Calls
  /\ TopicOf \in [Calls -> Topics \cup {NULL}]
  /\ \A c \in CancelCalls : TopicOf[c] \in Topics
  /\ HandEdits \subseteq Statuses
  /\ MaxMatters \in Nat /\ ActiveUntil \in Nat /\ MaxTime \in Nat /\ MaxFaults \in Nat
  /\ OperatorIdle \in Nat /\ Quiet \in Nat /\ MaxSilence \in Nat
  /\ JoinWindow \in Nat /\ ReplyWindow \in Nat

VARIABLES
  now,         \* the clock
  open,        \* inside the number's business hours
  botEnabled,  \* the number's own bot switch
  conv,        \* the conversation row
  talk,        \* createdAt of the last office and customer messages
  stored,      \* wamids of the stored messages (unique column)
  matters,     \* the chat's notification rows, by id
  byHand,      \* history: matters whose status a person set
  agent, echo, call, sweep,  \* where each handler is, and its local variables
  faults

vars == <<now, open, botEnabled, conv, talk, stored, matters, byHand,
          agent, echo, call, sweep, faults>>

Stamp == Nat \cup {NULL}

Conversation == [status : {"open", "pending"}, botPaused : BOOLEAN,
                 assigned : Agents \cup {NULL}, handedOverAt : Stamp]

\* crossed is history: the matter was last asked while an echo was stored and
\* had not marked yet what it answers.
Matter == [type : {"handoff", "baja_poliza"}, body : SUBSET Topics,
           category : Categories \cup {"baja"}, status : Statuses, askedAt : Nat,
           cleared : BOOLEAN, crossed : BOOLEAN]

AgentState == [step : {"idle", "sending", "marking", "resolving"}, at : Stamp]

EchoState == [step : {"due", "read", "marking", "done"}, paused : BOOLEAN]

CallState == [step : {"idle", "asked", "marked", "matching", "join", "create", "bump", "file", "done"},
           target : MatterIds \cup {NULL}, body : SUBSET Topics, category : Categories \cup {"baja"}]

SweepState == [step : {"idle", "reading", "releasing", "resolving"}, at : Nat,
                handedOverAt : Stamp, open : BOOLEAN, human : Stamp]

RowsOK ==
  /\ conv \in Conversation
  /\ talk \in [office : Stamp, customer : Stamp]
  /\ stored \subseteq Wamids
  /\ byHand \subseteq MatterIds

MattersOK == matters \in [MatterIds -> Matter \cup {NULL}]

HandlersOK ==
  /\ agent \in [Agents -> AgentState]
  /\ echo \in [Deliveries -> EchoState]
  /\ call \in [Calls -> CallState]
  /\ sweep \in SweepState

TypeOK ==
  /\ now \in Nat /\ faults \in Nat /\ open \in BOOLEAN /\ botEnabled \in BOOLEAN
  /\ RowsOK /\ MattersOK /\ HandlersOK

\* A handler at rest keeps no local variables.
Idle == [step |-> "idle", target |-> NULL, body |-> {}, category |-> "other"]
SweepAt(step, human) ==
  [step |-> step, at |-> 0, handedOverAt |-> NULL, open |-> FALSE, human |-> human]

Init ==
  /\ now = 0 /\ faults = 0
  /\ open \in BOOLEAN /\ botEnabled \in BOOLEAN
  /\ conv = [status |-> "open", botPaused |-> FALSE, assigned |-> NULL, handedOverAt |-> NULL]
  /\ talk = [office |-> NULL, customer |-> NULL]
  /\ stored = {}
  /\ matters = [m \in MatterIds |-> NULL]
  /\ byHand = {}
  /\ agent = [a \in Agents |-> [step |-> "idle", at |-> NULL]]
  /\ echo = [d \in Deliveries |-> [step |-> "due", paused |-> FALSE]]
  /\ call = [c \in Calls |-> Idle]
  /\ sweep = SweepAt("idle", NULL)

-----------------------------------------------------------------------------
(* Matters *)

Present(m) == matters[m] # NULL /\ ~matters[m].cleared
Unresolved(m) == Present(m) /\ matters[m].status # "resolved"

\* Slip: answering settles whatever waits, asked before or after the answer.
MarkEverything(at) ==
  matters' = [m \in MatterIds |->
    IF Present(m) /\ matters[m].status = "pending"
    THEN [matters[m] EXCEPT !.status = "in_progress"] ELSE matters[m]]

\* NovedadesService.markConversationAnswered
MarkAnswered(at) ==
  matters' = [m \in MatterIds |->
    IF Present(m) /\ matters[m].status = "pending" /\ matters[m].askedAt <= at
    THEN [matters[m] EXCEPT !.status = "in_progress"] ELSE matters[m]]

\* NovedadesService.resolveAnsweredMatters
ResolveAnswered ==
  matters' = [m \in MatterIds |->
    IF Present(m) /\ matters[m].status = "in_progress"
    THEN [matters[m] EXCEPT !.status = "resolved"] ELSE matters[m]]

\* An echo is between its transaction and its marking.
EchoInBetween == \E d \in Deliveries : echo[d].step = "marking"

\* A new row takes the next autoincrement id.
NextId(m) == matters[m] = NULL /\ \A k \in MatterIds : k < m => matters[k] # NULL

NewMatter(type, body, category) ==
  \E m \in MatterIds :
    /\ NextId(m)
    /\ matters' = [matters EXCEPT ![m] =
         [type |-> type, body |-> body, category |-> category,
          status |-> "pending", askedAt |-> now, cleared |-> FALSE, crossed |-> EchoInBetween]]

\* The customer's words as the matter keeps them; a bare request has no body.
Body(c) == IF TopicOf[c] = NULL THEN {} ELSE {TopicOf[c]}

\* A stopped claim is a claims matter whatever words its reason uses.
Category(c) ==
  IF c \in Blocked THEN "siniestro"
  ELSE IF TopicOf[c] = NULL THEN "other" ELSE CategoryOf[TopicOf[c]]

SameOpenMatter(c, type) ==
  \E m \in MatterIds : Unresolved(m) /\ matters[m].type = type /\ matters[m].body = Body(c)

\* The open handoffs joinOpenHandoff can pick: the newest in the window.
Recent == {m \in MatterIds : /\ Unresolved(m) /\ matters[m].type = "handoff"
                             /\ now - matters[m].askedAt <= JoinWindow}
Newest == {m \in Recent : \A k \in Recent : matters[k].askedAt <= matters[m].askedAt}

Compatible(a, b) == a = b \/ a = "other" \/ b = "other"

-----------------------------------------------------------------------------
(* The panel: taking over, giving back, answering.  InboxService. *)

rows == <<conv, talk, stored, matters, byHand>>
clock == <<now, open>>

\* Slips: the release forgets the owner; it writes a matter's status.
ReleaseForgetsOwner ==
  conv' = [conv EXCEPT !.botPaused = FALSE, !.handedOverAt = NULL, !.status = "open"]
ReleaseAsMatter ==
  conv' = [conv EXCEPT !.botPaused = FALSE, !.assigned = NULL, !.handedOverAt = NULL, !.status = "resolved"]

\* The row as release and autoReleaseToBot write it.
BackToBot ==
  conv' = [conv EXCEPT !.botPaused = FALSE, !.assigned = NULL, !.handedOverAt = NULL, !.status = "open"]

\* Slip: the claim is a plain update, without the WHERE on the owner.
TakeoverUnguarded(a) ==
  /\ agent[a].step = "idle" /\ now <= ActiveUntil
  /\ conv' = [conv EXCEPT !.botPaused = TRUE, !.assigned = a, !.handedOverAt = now, !.status = "pending"]
  /\ UNCHANGED <<clock, botEnabled, talk, stored, matters, byHand, agent, echo, call, sweep, faults>>

Takeover(a) ==
  /\ agent[a].step = "idle" /\ now <= ActiveUntil
  /\ conv.assigned = NULL
  /\ conv' = [conv EXCEPT !.botPaused = TRUE, !.assigned = a, !.handedOverAt = now, !.status = "pending"]
  /\ UNCHANGED <<clock, botEnabled, talk, stored, matters, byHand, agent, echo, call, sweep, faults>>

Release(a) ==
  /\ agent[a].step = "idle" /\ now <= ActiveUntil
  /\ BackToBot
  /\ agent' = [agent EXCEPT ![a].step = "resolving"]
  /\ UNCHANGED <<clock, botEnabled, talk, stored, matters, byHand, echo, call, sweep, faults>>

ReleaseResolve(a) ==
  /\ agent[a].step = "resolving"
  /\ ResolveAnswered
  /\ agent' = [agent EXCEPT ![a].step = "idle"]
  /\ UNCHANGED <<clock, botEnabled, conv, talk, stored, byHand, echo, call, sweep, faults>>

\* assertCanSend, before the message goes out to WhatsApp.
CheckSend(a) ==
  /\ agent[a].step = "idle" /\ now <= ActiveUntil
  /\ conv.botPaused \/ ~botEnabled
  /\ talk.customer # NULL
  /\ now - talk.customer <= ReplyWindow
  /\ agent' = [agent EXCEPT ![a].step = "sending"]
  /\ UNCHANGED <<clock, botEnabled, rows, echo, call, sweep, faults>>

\* WhatsApp refused it: nothing is kept, so no bubble of a message nobody got.
SendFails(a) ==
  /\ agent[a].step = "sending"
  /\ agent' = [agent EXCEPT ![a].step = "idle"]
  /\ UNCHANGED <<clock, botEnabled, rows, echo, call, sweep, faults>>

\* Delivered: persistAgentMessage stores it.
Persist(a) ==
  /\ agent[a].step = "sending"
  /\ talk' = [talk EXCEPT !.office = now]
  /\ agent' = [agent EXCEPT ![a] = [step |-> "marking", at |-> now]]
  /\ UNCHANGED <<clock, botEnabled, conv, stored, matters, byHand, echo, call, sweep, faults>>

SendMark(a) ==
  /\ agent[a].step = "marking"
  /\ MarkAnswered(agent[a].at)
  /\ agent' = [agent EXCEPT ![a] = [step |-> "idle", at |-> NULL]]
  /\ UNCHANGED <<clock, botEnabled, conv, talk, stored, byHand, echo, call, sweep, faults>>

\* NovedadesService.updateMatter: the status (and category) a person picks.
UpdateMatter(m, s, k) ==
  /\ now <= ActiveUntil
  /\ Present(m)
  /\ matters' = [matters EXCEPT ![m].status = s, ![m].category = k]
  /\ byHand' = IF s = "pending" THEN byHand \ {m} ELSE byHand \cup {m}
  /\ UNCHANGED <<clock, botEnabled, conv, talk, stored, agent, echo, call, sweep, faults>>

\* NovedadesService.clearAll
ClearAll ==
  /\ now <= ActiveUntil
  /\ \E m \in MatterIds : Present(m)
  /\ matters' = [m \in MatterIds |->
       IF matters[m] = NULL THEN NULL ELSE [matters[m] EXCEPT !.cleared = TRUE]]
  /\ UNCHANGED <<clock, botEnabled, conv, talk, stored, byHand, agent, echo, call, sweep, faults>>

-----------------------------------------------------------------------------
(* A reply from the WhatsApp Business app.  BotService.recordAgentEcho. *)

EchoRead(d) ==
  /\ echo[d].step = "due" /\ now <= ActiveUntil
  /\ echo' = [echo EXCEPT ![d] = [step |-> "read", paused |-> conv.botPaused]]
  /\ UNCHANGED <<clock, botEnabled, rows, agent, call, sweep, faults>>

\* The transaction: the unique wamid makes a retry of the webhook a no-op.
EchoDuplicate(d) ==
  /\ echo[d].step = "read"
  /\ WamidOf[d] \in stored
  /\ echo' = [echo EXCEPT ![d] = [step |-> "done", paused |-> FALSE]]
  /\ UNCHANGED <<clock, botEnabled, rows, agent, call, sweep, faults>>

\* Slip: the update does not depend on the insert, so a retry pauses again.
EchoAlwaysPauses(d) ==
  /\ echo[d].step = "read"
  /\ stored' = IF WamidOf[d] = NULL THEN stored ELSE stored \cup {WamidOf[d]}
  /\ talk' = [talk EXCEPT !.office = now]
  /\ conv' = [conv EXCEPT !.botPaused = TRUE, !.status = "open",
                          !.handedOverAt = IF echo[d].paused THEN @ ELSE now]
  /\ echo' = [echo EXCEPT ![d] = [step |-> "marking", paused |-> FALSE]]
  /\ UNCHANGED <<clock, botEnabled, matters, byHand, agent, call, sweep, faults>>

EchoStore(d) ==
  /\ echo[d].step = "read"
  /\ WamidOf[d] \notin stored
  /\ stored' = IF WamidOf[d] = NULL THEN stored ELSE stored \cup {WamidOf[d]}
  /\ talk' = [talk EXCEPT !.office = now]
  /\ conv' = [conv EXCEPT !.botPaused = TRUE, !.status = "open",
                          !.handedOverAt = IF echo[d].paused THEN @ ELSE now]
  /\ echo' = [echo EXCEPT ![d] = [step |-> "marking", paused |-> FALSE]]
  /\ UNCHANGED <<clock, botEnabled, matters, byHand, agent, call, sweep, faults>>

\* markConversationAnswered with its default answeredAt, the time of the call.
EchoMark(d) ==
  /\ echo[d].step = "marking"
  /\ MarkAnswered(now)
  /\ echo' = [echo EXCEPT ![d] = [step |-> "done", paused |-> FALSE]]
  /\ UNCHANGED <<clock, botEnabled, conv, talk, stored, byHand, agent, call, sweep, faults>>

-----------------------------------------------------------------------------
(* The sweep.  BotTakeoverTimeoutService. *)

Later(a, b) == IF a = NULL \/ (b # NULL /\ b > a) THEN b ELSE a

\* releaseReason, with the clock and the hours as the sweep read them.
Due(human, customer) ==
  \/ human = NULL
  \/ /\ sweep.at - human >= OperatorIdle
     /\ \/ ~sweep.open
        \/ sweep.at - Later(human, customer) >= Quiet
        \/ sweep.at - human >= MaxSilence

\* Slip: only the takeovers of the panel are swept.
SweepReadOwned ==
  /\ sweep.step = "idle" /\ conv.botPaused /\ conv.assigned # NULL
  /\ sweep' = [step |-> "reading", at |-> now, handedOverAt |-> conv.handedOverAt,
               open |-> open, human |-> NULL]
  /\ UNCHANGED <<clock, botEnabled, rows, agent, echo, call, faults>>

\* findMany of the paused chats.
SweepRead ==
  /\ sweep.step = "idle" /\ conv.botPaused
  /\ sweep' = [step |-> "reading", at |-> now, handedOverAt |-> conv.handedOverAt,
               open |-> open, human |-> NULL]
  /\ UNCHANGED <<clock, botEnabled, rows, agent, echo, call, faults>>

\* lastHumanActivity and lastCustomerMessage, then releaseReason.
SweepJudge ==
  /\ sweep.step = "reading"
  /\ LET human == Later(sweep.handedOverAt, talk.office) IN
       sweep' = IF Due(human, talk.customer) THEN SweepAt("releasing", human)
                ELSE SweepAt("idle", NULL)
  /\ UNCHANGED <<clock, botEnabled, rows, agent, echo, call, faults>>

\* InboxService.autoReleaseToBot
SweepRelease ==
  /\ sweep.step = "releasing"
  /\ conv.botPaused
  /\ BackToBot
  /\ sweep' = SweepAt("resolving", NULL)
  /\ UNCHANGED <<clock, botEnabled, talk, stored, matters, byHand, agent, echo, call, faults>>

SweepTooLate ==
  /\ sweep.step = "releasing"
  /\ ~conv.botPaused
  /\ sweep' = SweepAt("idle", NULL)
  /\ UNCHANGED <<clock, botEnabled, rows, agent, echo, call, faults>>

SweepResolve ==
  /\ sweep.step = "resolving"
  /\ ResolveAnswered
  /\ sweep' = SweepAt("idle", NULL)
  /\ UNCHANGED <<clock, botEnabled, conv, talk, stored, byHand, agent, echo, call, faults>>

-----------------------------------------------------------------------------
(* Requests to the office.  BotService.requestHandoff and                  *)
(* NovedadesService.recordHandoff; requestPolicyCancellation.              *)

To(c, step) == call' = [call EXCEPT ![c] = [Idle EXCEPT !.step = step]]

\* A bare request of a chat already waiting is answered without a new matter.
AskSkip(c) ==
  /\ call[c].step = "idle" /\ now <= ActiveUntil /\ c \notin CancelCalls
  /\ conv.status = "pending" /\ TopicOf[c] = NULL
  /\ To(c, "done")
  /\ UNCHANGED <<clock, botEnabled, rows, agent, echo, sweep, faults>>

AskRead(c) ==
  /\ call[c].step = "idle" /\ now <= ActiveUntil /\ c \notin CancelCalls
  /\ conv.status # "pending" \/ TopicOf[c] # NULL
  /\ To(c, "asked")
  /\ UNCHANGED <<clock, botEnabled, rows, agent, echo, sweep, faults>>

AskMark(c) ==
  /\ call[c].step = "asked"
  /\ conv' = [conv EXCEPT !.status = "pending"]
  /\ To(c, "marked")
  /\ UNCHANGED <<clock, botEnabled, talk, stored, matters, byHand, agent, echo, sweep, faults>>

\* recordHandoff's read: if the same request is already open they share it.
AskRepeat(c) ==
  /\ call[c].step = "marked"
  /\ To(c, IF SameOpenMatter(c, "handoff") THEN "done" ELSE "matching")
  /\ UNCHANGED <<clock, botEnabled, rows, agent, echo, sweep, faults>>

\* joinOpenHandoff reads the newest open matter of the window.
AskMatch(c) ==
  /\ call[c].step = "matching"
  /\ \/ Newest = {} /\ To(c, "create")
     \/ \E m \in Newest :
          IF ~Compatible(matters[m].category, Category(c)) THEN To(c, "create")
          ELSE IF Body(c) \subseteq matters[m].body THEN To(c, "done")
          ELSE call' = [call EXCEPT ![c] =
                 [step |-> "join", target |-> m, body |-> matters[m].body \cup Body(c),
                  category |-> IF matters[m].category = "other" THEN Category(c)
                               ELSE matters[m].category]]
  /\ UNCHANGED <<clock, botEnabled, rows, agent, echo, sweep, faults>>

\* The addition makes the matter wait for the office once more (an update by
\* id, whatever became of the row since it was read).
AskJoin(c) ==
  /\ call[c].step = "join"
  /\ call[c].target \in MatterIds /\ matters[call[c].target] # NULL
  /\ matters' = [matters EXCEPT ![call[c].target] =
       [@ EXCEPT !.body = call[c].body, !.category = call[c].category,
                 !.status = "pending", !.askedAt = now, !.crossed = EchoInBetween]]
  /\ byHand' = byHand \ {call[c].target}
  /\ To(c, "done")
  /\ UNCHANGED <<clock, botEnabled, conv, talk, stored, agent, echo, sweep, faults>>

AskCreate(c) ==
  /\ call[c].step = "create"
  /\ NewMatter("handoff", Body(c), Category(c))
  /\ To(c, "done")
  /\ UNCHANGED <<clock, botEnabled, conv, talk, stored, byHand, agent, echo, sweep, faults>>

\* requestPolicyCancellation: one transaction, the read first.
CancelRead(c) ==
  /\ call[c].step = "idle" /\ now <= ActiveUntil /\ c \in CancelCalls
  /\ To(c, IF SameOpenMatter(c, "baja_poliza") THEN "bump" ELSE "file")
  /\ UNCHANGED <<clock, botEnabled, rows, agent, echo, sweep, faults>>

CancelCommit(c) ==
  /\ \/ call[c].step = "bump" /\ UNCHANGED matters
     \/ call[c].step = "file" /\ NewMatter("baja_poliza", Body(c), "baja")
  /\ conv' = [conv EXCEPT !.status = "pending"]
  /\ To(c, "done")
  /\ UNCHANGED <<clock, botEnabled, talk, stored, byHand, agent, echo, sweep, faults>>

-----------------------------------------------------------------------------
(* The customer, the clock and failures. *)

CustomerWrites ==
  /\ now <= ActiveUntil
  /\ talk' = [talk EXCEPT !.customer = now]
  /\ UNCHANGED <<clock, botEnabled, conv, stored, matters, byHand, agent, echo, call, sweep, faults>>

SwitchBot ==
  /\ now <= ActiveUntil
  /\ botEnabled' = ~botEnabled
  /\ UNCHANGED <<clock, rows, agent, echo, call, sweep, faults>>

AtRest ==
  /\ \A a \in Agents : agent[a].step = "idle"
  /\ \A d \in Deliveries : echo[d].step \in {"due", "done"}
  /\ \A c \in Calls : call[c].step \in {"idle", "done"}

\* Past ActiveUntil the clock only runs on once the last requests ended.
Tick ==
  /\ now < MaxTime
  /\ now < ActiveUntil \/ AtRest
  /\ now' = now + 1
  /\ open' \in BOOLEAN
  /\ UNCHANGED <<botEnabled, rows, agent, echo, call, sweep, faults>>

\* A query fails or the process dies: the handler writes nothing more.  A
\* request whose search for a repeat fails goes on, and one that could not join
\* a matter still tries to open its own.
AgentFails(a) ==
  /\ agent[a].step # "idle" /\ faults < MaxFaults
  /\ agent' = [agent EXCEPT ![a] = [step |-> "idle", at |-> NULL]]
  /\ faults' = faults + 1
  /\ UNCHANGED <<clock, botEnabled, rows, echo, call, sweep>>

EchoFails(d) ==
  /\ echo[d].step \in {"read", "marking"} /\ faults < MaxFaults
  /\ echo' = [echo EXCEPT ![d] = [step |-> "done", paused |-> FALSE]]
  /\ faults' = faults + 1
  /\ UNCHANGED <<clock, botEnabled, rows, agent, call, sweep>>

CallFails(c) ==
  /\ call[c].step \notin {"idle", "done"} /\ faults < MaxFaults
  /\ \/ To(c, "done")
     \/ call[c].step = "marked" /\ To(c, "matching")
     \/ call[c].step \in {"matching", "join"} /\ To(c, "create")
  /\ faults' = faults + 1
  /\ UNCHANGED <<clock, botEnabled, rows, agent, echo, sweep>>

SweepFails ==
  /\ sweep.step # "idle" /\ faults < MaxFaults
  /\ sweep' = SweepAt("idle", NULL)
  /\ faults' = faults + 1
  /\ UNCHANGED <<clock, botEnabled, rows, agent, echo, call>>

-----------------------------------------------------------------------------
AgentRuns(a) == ReleaseResolve(a) \/ SendFails(a) \/ Persist(a) \/ SendMark(a)
AgentStep(a) == Takeover(a) \/ Release(a) \/ CheckSend(a) \/ AgentRuns(a) \/ AgentFails(a)

EchoRuns(d) == EchoDuplicate(d) \/ EchoStore(d) \/ EchoMark(d)
EchoStep(d) == EchoRead(d) \/ EchoRuns(d) \/ EchoFails(d)

CallRuns(c) == AskMark(c) \/ AskRepeat(c) \/ AskMatch(c) \/ AskJoin(c) \/ AskCreate(c) \/ CancelCommit(c)
CallStep(c) == AskSkip(c) \/ AskRead(c) \/ CancelRead(c) \/ CallRuns(c) \/ CallFails(c)

SweepRuns == SweepRead \/ SweepJudge \/ SweepRelease \/ SweepTooLate \/ SweepResolve

Desk ==
  \/ \E m \in MatterIds, s \in HandEdits, k \in Categories : UpdateMatter(m, s, k)
  \/ HandEdits # {} /\ ClearAll

Next ==
  \/ \E a \in Agents : AgentStep(a)
  \/ \E d \in Deliveries : EchoStep(d)
  \/ \E c \in Calls : CallStep(c)
  \/ SweepRuns \/ SweepFails
  \/ Desk \/ CustomerWrites \/ SwitchBot \/ Tick

Spec == Init /\ [][Next]_vars

\* A handler that started goes on (its queries end or throw), the cron fires
\* every minute, and time does not stop.
Fairness ==
  /\ \A a \in Agents : WF_vars(AgentRuns(a))
  /\ \A d \in Deliveries : WF_vars(EchoRuns(d))
  /\ \A c \in Calls : WF_vars(CallRuns(c))
  /\ WF_vars(SweepRuns)
  /\ SF_vars(Tick)

FairSpec == Spec /\ Fairness

-----------------------------------------------------------------------------
(* Properties *)

\* Nobody owns a chat the bot attends, and a chat the bot attends carries no
\* trace of a takeover; an owned chat says since when.  Takeover, release, the
\* sweep and the echoes all write these columns, from different reads.
PauseCoherent ==
  /\ conv.assigned # NULL => conv.botPaused /\ conv.handedOverAt # NULL
  /\ ~conv.botPaused => conv.handedOverAt = NULL

\* A chat goes from one owner to another only through nobody: two agents that
\* press "Tomar" at once never both believe they have it.
OwnerIsExclusive ==
  [][conv.assigned # NULL /\ conv'.assigned # conv.assigned => conv'.assigned = NULL]_vars

\* The bot is silenced by a takeover or by a reply the chat did not hold yet:
\* Meta's retry of an old echo never silences a chat given back since.
PauseHasCause ==
  [][~conv.botPaused /\ conv'.botPaused =>
       \/ conv'.assigned # NULL
       \/ stored' # stored
       \/ \E d \in Deliveries : WamidOf[d] = NULL /\ echo'[d] # echo[d]]_vars

\* What the columns of a chat promise the panel, whoever writes them: a state
\* that makes sense, one owner at a time and no silence without a cause.
ChatIsOwned == []PauseCoherent /\ OwnerIsExclusive /\ PauseHasCause

\* A matter stops waiting only because the office wrote in the chat since it was
\* last asked, or because a person moved it: what nobody answered stays pending.
\* The echoes are part of it, and they miss in one place alone: a matter asked
\* between an echo's transaction and its marking, which is dated by the latter.
SettledByAnswer ==
  \A m \in MatterIds :
    matters[m] # NULL /\ matters[m].status # "pending" /\ m \notin byHand =>
      \/ talk.office # NULL /\ talk.office >= matters[m].askedAt
      \/ matters[m].crossed

\* "Already waiting for an agent": a request that is dropped for it leaves the
\* office a matter to attend.
SkipOnlyIfWaiting ==
  [][\A c \in Calls : AskSkip(c) => \E m \in MatterIds : Unresolved(m)]_vars

\* The automatic release never undoes a takeover or a reply made since the
\* sweep judged the chat.
SweepUndoesNothing ==
  [][SweepRelease => Later(conv.handedOverAt, talk.office) = sweep.human]_vars

\* A paused chat shows since when a person has been on it.
SinceWhenKnown == conv.botPaused => conv.handedOverAt # NULL

\* Exact repeats of a request share a matter.
RepeatsShare ==
  \A m, k \in MatterIds :
    /\ Unresolved(m) /\ Unresolved(k)
    /\ matters[m].type = matters[k].type /\ matters[m].body = matters[k].body
    => m = k

\* The detailed handlers do what ChatOwner promises.
Owner == INSTANCE ChatOwner WITH
  Nobody <- NULL,
  speaker <- IF conv.botPaused THEN "office" ELSE "bot",
  owner <- conv.assigned

ImplementsOwner == Owner!Spec

\* Once the office falls silent the chat returns to the bot by itself.
TakeoverEnds == conv.botPaused ~> ~conv.botPaused

=============================================================================
