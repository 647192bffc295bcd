---------------------------- MODULE AssistantChat ----------------------------
(* A person's chat with the panel's assistant (AssistantService,              *)
(* AssistantConversationsService): a question is admitted and saved, the model *)
(* answers in rounds that may run tools, and the answer is saved with the      *)
(* cards of the changes it proposed. A person may have several tabs.           *)
EXTENDS Naturals, Sequences, FiniteSets

CONSTANTS
  Turns,      \* requests of the person's tabs
  Questions,  \* what they may ask
  Cards,      \* proposals (rows AssistantAction)
  MaxRounds,  \* rounds of tools before the model has to answer
  PerHour,    \* questions per hour
  LastHour, MaxTurns, MaxStops  \* bounds: hours, turns, closed tabs and restarts

ASSUME ChatParameters ==
  /\ Questions # {} /\ MaxRounds \in Nat /\ PerHour \in Nat \ {0} /\ LastHour \in Nat /\ MaxTurns \in Nat /\ MaxStops \in Nat

VARIABLES
  hour,
  asked,      \* the hours of the person's questions, in the memory of the process
  chat,       \* AssistantConversation: "none", "live" or "removed"
  messages,   \* AssistantMessage
  cards,      \* AssistantAction
  turns,
  admitted,   \* history: questions admitted in each hour since the process began
  overlapped, \* history: two turns were in course at once
  lost,       \* history: cards of turns that failed
  taken, stops

chatVars == <<hour, asked, chat, messages, cards, turns, admitted, overlapped, lost, taken, stops>>

Message == [role : {"user", "assistant"}, text : Questions, cards : SUBSET Cards]
NoTurnYet(q) == [step |-> "idle", text |-> q, saved |-> TRUE, round |-> 0, calls |-> 0, wrote |-> FALSE,
                 closed |-> FALSE, cards |-> {}]
AQuestion == CHOOSE q \in Questions : TRUE

ChatTypeOK ==
  /\ hour \in 0..LastHour /\ chat \in {"none", "live", "removed"}
  /\ asked \subseteq (0..LastHour) \X (1..MaxTurns)
  /\ \A i \in DOMAIN messages : messages[i] \in Message
  /\ cards \in [Cards -> {"none", "pending", "confirmed", "cancelled"}]
  /\ \A t \in Turns :
       /\ turns[t].step \in {"idle", "finding", "reading", "adding", "preparing", "asking", "running", "saving"}
       /\ turns[t].round \in 0..MaxRounds /\ turns[t].cards \subseteq Cards /\ turns[t].text \in Questions
  /\ taken \in 0..MaxTurns /\ stops \in 0..MaxStops

ChatInit ==
  /\ hour = 0 /\ asked = {} /\ chat = "none" /\ messages = <<>>
  /\ cards = [c \in Cards |-> "none"]
  /\ turns = [t \in Turns |-> NoTurnYet(AQuestion)]
  /\ admitted = [h \in 0..LastHour |-> 0] /\ overlapped = FALSE /\ lost = {} /\ taken = 0 /\ stops = 0

Idle(t) == turns[t].step = "idle"
At(t, step) == turns[t].step = step
GoTo(t, step) == turns' = [turns EXCEPT ![t].step = step]
End(t) == turns' = [turns EXCEPT ![t] = NoTurnYet(AQuestion)]

-----------------------------------------------------------------------------
(* The question *)

\* countQuestion keeps those of the last hour.
Recent == {a \in asked : a[1] > hour - 1}

\* admit: a bounded number of questions an hour, of those this process remembers.
\* ask, the old endpoint, saves nothing.
Admit(t, q, saved) ==
  /\ Idle(t) /\ taken < MaxTurns /\ taken' = taken + 1
  /\ Cardinality(Recent) < PerHour
  /\ asked' = Recent \cup {<<hour, taken'>>}
  /\ admitted' = [admitted EXCEPT ![hour] = @ + 1]
  /\ turns' = [turns EXCEPT ![t] = [NoTurnYet(q) EXCEPT !.step = IF saved THEN "finding" ELSE "asking", !.saved = saved]]
  /\ overlapped' = (overlapped \/ \E u \in Turns : ~Idle(u))
  /\ UNCHANGED <<hour, chat, messages, cards, lost, stops>>

\* findOwn, or a conversation of its own.
FindConversation(t) ==
  /\ At(t, "finding")
  /\ IF chat = "removed" THEN End(t) /\ UNCHANGED chat ELSE GoTo(t, "reading") /\ chat' = "live"
  /\ UNCHANGED <<hour, asked, messages, cards, admitted, overlapped, lost, taken, stops>>

LastMessage == messages[Len(messages)]

\* addQuestion: the same text, last in the chat and with no answer, is a retry.
IsRetry(t) == messages # <<>> /\ LastMessage.role = "user" /\ LastMessage.text = turns[t].text

ReadLast(t) ==
  /\ At(t, "reading")
  /\ GoTo(t, IF IsRetry(t) THEN "preparing" ELSE "adding")
  /\ UNCHANGED <<hour, asked, chat, messages, cards, admitted, overlapped, lost, taken, stops>>

AddQuestion(t) ==
  /\ At(t, "adding")
  /\ messages' = Append(messages, [role |-> "user", text |-> turns[t].text, cards |-> {}])
  /\ GoTo(t, "preparing")
  /\ UNCHANGED <<hour, asked, chat, cards, admitted, overlapped, lost, taken, stops>>

-----------------------------------------------------------------------------
(* The answer *)

\* historyForModel, and who is asking.
ReadHistory(t) ==
  /\ At(t, "preparing") /\ GoTo(t, "asking")
  /\ UNCHANGED <<hour, asked, chat, messages, cards, admitted, overlapped, lost, taken, stops>>

LastRound(t) == turns[t].round = MaxRounds

\* A round: the model writes, asks for tools, or both; in the last one its calls
\* are not run. A closed stream stops it.
ModelAnswers(t) ==
  /\ At(t, "asking") /\ ~turns[t].closed
  /\ \E wrote \in BOOLEAN, calls \in 0..2 :
       LET text == turns[t].wrote \/ wrote
           over == calls = 0 \/ LastRound(t)
           \* Nothing to say and nothing proposed is an error.
           empty == ~text /\ turns[t].cards = {}
       IN IF over /\ (empty \/ ~turns[t].saved) THEN End(t)
          ELSE turns' = [turns EXCEPT ![t].wrote = text, ![t].calls = IF over THEN 0 ELSE calls,
                                      ![t].step = IF over THEN "saving" ELSE "running"]
  /\ UNCHANGED <<hour, asked, chat, messages, cards, admitted, overlapped, lost, taken, stops>>

\* OpenAI refuses, fails half-way or takes too long, or the tab was closed.
ModelFails(t) ==
  /\ At(t, "asking") /\ End(t)
  /\ lost' = lost \cup turns[t].cards
  /\ UNCHANGED <<hour, asked, chat, messages, cards, admitted, overlapped, taken, stops>>

CardsOfTurn(t, new) == turns[t].cards \cup new

\* A tool reads, or proposes a change, which is only done in a saved chat.
RunTool(t) ==
  /\ At(t, "running")
  /\ \E new \in {{}} \cup {{c} : c \in {d \in Cards : turns[t].saved /\ cards[d] = "none"}} :
       LET last == turns[t].calls = 1 IN
       /\ cards' = [c \in Cards |-> IF c \in new THEN "pending" ELSE cards[c]]
       /\ turns' = [turns EXCEPT ![t].cards = CardsOfTurn(t, new), ![t].calls = @ - 1,
                                 ![t].step = IF last THEN "asking" ELSE "running",
                                 ![t].round = IF last THEN @ + 1 ELSE @]
  /\ UNCHANGED <<hour, asked, chat, messages, admitted, overlapped, lost, taken, stops>>

\* addAnswer, whatever became of the chat and the tab.
SaveAnswer(t) ==
  /\ At(t, "saving")
  /\ messages' = Append(messages, [role |-> "assistant", text |-> turns[t].text, cards |-> turns[t].cards])
  /\ End(t)
  /\ UNCHANGED <<hour, asked, chat, cards, admitted, overlapped, lost, taken, stops>>

-----------------------------------------------------------------------------
(* The person and the process *)

CloseTab(t) ==
  /\ stops < MaxStops /\ stops' = stops + 1
  /\ turns[t].step \in {"preparing", "asking", "running", "saving"} /\ turns[t].saved
  /\ turns' = [turns EXCEPT ![t].closed = TRUE]
  /\ UNCHANGED <<hour, asked, chat, messages, cards, admitted, overlapped, lost, taken>>

RemoveConversation ==
  /\ chat = "live" /\ chat' = "removed"
  /\ UNCHANGED <<hour, asked, messages, cards, turns, admitted, overlapped, lost, taken, stops>>

\* The person decides about a card they see (AssistantActions).
Decide(c) ==
  /\ cards[c] = "pending"
  /\ \E s \in {"confirmed", "cancelled"} : cards' = [cards EXCEPT ![c] = s]
  /\ UNCHANGED <<hour, asked, chat, messages, turns, admitted, overlapped, lost, taken, stops>>

HourPasses ==
  /\ hour < LastHour /\ hour' = hour + 1
  /\ UNCHANGED <<asked, chat, messages, cards, turns, admitted, overlapped, lost, taken, stops>>

\* The process starts anew: what it remembered of the hour is gone.
ProcessRestarts ==
  /\ stops < MaxStops /\ stops' = stops + 1
  /\ turns' = [t \in Turns |-> NoTurnYet(AQuestion)] /\ asked' = {}
  /\ admitted' = [h \in 0..LastHour |-> 0]
  /\ lost' = lost \cup UNION {turns[t].cards : t \in Turns}
  /\ UNCHANGED <<hour, chat, messages, cards, overlapped, taken>>

ChatNext ==
  \/ \E t \in Turns :
       \/ \E q \in Questions, saved \in BOOLEAN : Admit(t, q, saved)
       \/ FindConversation(t) \/ ReadLast(t) \/ AddQuestion(t) \/ ReadHistory(t)
       \/ ModelAnswers(t) \/ ModelFails(t) \/ RunTool(t) \/ SaveAnswer(t) \/ CloseTab(t)
  \/ \E c \in Cards : Decide(c)
  \/ RemoveConversation \/ HourPasses \/ ProcessRestarts

ChatSpec == ChatInit /\ [][ChatNext]_chatVars

-----------------------------------------------------------------------------
(* Properties *)

Told(c) == \E i \in DOMAIN messages : c \in messages[i].cards
InCourse(c) == \E t \in Turns : c \in turns[t].cards

\* A proposed change is in the answer of its turn, unless the turn failed after
\* the card was made.
ProposedIsAnswered == \A c \in Cards : cards[c] # "none" => Told(c) \/ InCourse(c) \/ c \in lost

\* One tab at a time, a question asked again after a failure is not repeated
\* (addQuestion).
NoQuestionTwice ==
  ~overlapped => \A i \in 1..(Len(messages) - 1) :
    messages[i].role = "user" /\ messages[i + 1].role = "user" => messages[i].text # messages[i + 1].text

\* A person has their hour's questions and no more, of one process.
LimitIsKept == \A h \in 0..LastHour : admitted[h] <= PerHour

\* Retries do not repeat the question, cards stay with their answer, and the limit
\* of the hour holds.
AnswersFit == NoQuestionTwice /\ ProposedIsAnswered /\ LimitIsKept

\* What was proposed can be seen in the chat.
ProposedIsTold == \A c \in Cards : cards[c] # "none" => Told(c) \/ InCourse(c)

\* Each question gets one answer.
OneAnswerEach ==
  \A i \in 1..(Len(messages) - 1) : ~(messages[i].role = "assistant" /\ messages[i + 1].role = "assistant")

\* The answer is to the question the model read last.
AnswersItsQuestion == [][\A t \in Turns : At(t, "preparing") /\ At(t, "asking")' => LastMessage.text = turns[t].text]_chatVars
=============================================================================
