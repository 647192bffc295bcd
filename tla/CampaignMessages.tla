--------------------------- MODULE CampaignMessages ---------------------------
(* The messages of a sales campaign (sales-campaigns.service.ts): a send reads  *)
(* the latest messages and who asked not to get them, creates a row per ticked  *)
(* policy or quote, and delivers the rows one by one in the background. Several *)
(* sends, marks and opt-outs run at once; queries fail and the process dies.    *)
(* A target is an item of a person; a stored mobile may read as two WhatsApp    *)
(* ids, of which the person's chat has one.                                     *)
EXTENDS Naturals, Sequences

CONSTANTS Requests,      \* sends, marks and opt-outs in course at once
          People, Items, \* a target is a person's policy (or quote)
          Cooldown,      \* days
          LastToday, MaxMessages,
          MaxUnusual     \* troubles, and days that pass

Readings == {1, 2}
ChatReading == 1
Targets == People \X Items

ASSUME MessageParameters ==
  /\ People # {} /\ Items # {}
  /\ {Cooldown, LastToday, MaxMessages, MaxUnusual} \subseteq Nat

VARIABLES
  messages,   \* SalesCampaignMessage rows, oldest first
  optOuts,    \* SalesCampaignOptOut: WhatsApp ids by person
  byChat,     \* the campaign writes to the chats of quotes, not to phones
  request,
  today,
  asked,      \* history: people whose opt-out was answered
  unusual

messageVars == <<messages, optOuts, byChat, request, today, asked, unusual>>

(* A row and, of its send: how many messages there were, the day and whether   *)
(* the person had opted out when it read; and whether WhatsApp took it.         *)
Message == [person : People, item : Items, status : {"SENDING", "SENT", "FAILED", "MARKED"},
            day : 0..LastToday, seen : 0..MaxMessages, asOf : 0..LastToday,
            barred : BOOLEAN, taken : BOOLEAN]

IdleRequest == [op |-> "idle", todo |-> {}, queue |-> <<>>, seen |-> 0, asOf |-> 0, barred |-> {}]

MessagesTypeOK ==
  /\ messages \in Seq(Message) /\ Len(messages) <= MaxMessages
  /\ optOuts \subseteq People \X Readings /\ byChat \in BOOLEAN
  /\ request \in [Requests -> [op : {"idle", "send", "mark", "optOut"},
                               todo : SUBSET (Targets \cup (People \X Readings)), queue : Seq(1..MaxMessages),
                               seen : 0..MaxMessages, asOf : 0..LastToday, barred : SUBSET People]]
  /\ today \in 0..LastToday /\ asked \subseteq People /\ unusual \in 0..MaxUnusual

MessagesInit ==
  /\ messages = <<>> /\ optOuts = {} /\ byChat \in BOOLEAN
  /\ request = [r \in Requests |-> IdleRequest]
  /\ today = 0 /\ asked = {} /\ unusual = 0

Unusual == unusual < MaxUnusual /\ unusual' = unusual + 1

-----------------------------------------------------------------------------
(* What a request reads. *)

\* Slip: the latest message of that policy alone.
OfItem(t) == {i \in DOMAIN messages : messages[i].person = t[1] /\ messages[i].item = t[2]}

\* lastMessageFor looks for them by client, any of their policies, or by chat.
Of(t) == {i \in DOMAIN messages : messages[i].person = t[1]}
Newest(t) == messages[CHOOSE i \in Of(t) : \A j \in Of(t) : j <= i]

GoingOut(t) == Of(t) # {} /\ Newest(t).status = "SENDING"
Recent(t) == Of(t) # {} /\ Newest(t).status \in {"SENT", "MARKED"} /\ Newest(t).day + Cooldown >= today

\* isOptedOut: the chat's id, or any reading of the phone.
IsOptedOut(person) ==
  IF byChat THEN <<person, ChatReading>> \in optOuts ELSE \E i \in Readings : <<person, i>> \in optOuts

\* send reads the latest messages and the opt-outs once. With nobody left it is refused.
Send(r, ticked) ==
  LET chosen == {t \in ticked : ~GoingOut(t) /\ ~Recent(t) /\ ~IsOptedOut(t[1])} IN
    /\ request[r].op = "idle" /\ chosen # {}
    /\ request' = [request EXCEPT ![r] =
         [IdleRequest EXCEPT !.op = "send", !.todo = chosen, !.seen = Len(messages), !.asOf = today, !.barred = asked]]
    /\ UNCHANGED <<messages, optOuts, byChat, today, asked, unusual>>

\* mark: not those going out.
Mark(r, t) ==
  /\ request[r].op = "idle" /\ ~GoingOut(t)
  /\ request' = [request EXCEPT ![r] = [IdleRequest EXCEPT !.op = "mark", !.todo = {t}, !.seen = Len(messages)]]
  /\ UNCHANGED <<messages, optOuts, byChat, today, asked, unusual>>

\* Slip: only the id of the chat.
OptOutOfChat(r, person, viaChat) ==
  /\ request[r].op = "idle" /\ person \notin asked
  /\ request' = [request EXCEPT ![r] =
       [IdleRequest EXCEPT !.op = "optOut", !.todo = {<<person, IF viaChat THEN ChatReading ELSE 2>>}]]
  /\ UNCHANGED <<messages, optOuts, byChat, today, asked, unusual>>

\* optOut, from any campaign: the chat's id, or every reading of the phone. Asked
\* once: the rows of a second time are the same.
OptOut(r, person, viaChat) ==
  /\ request[r].op = "idle" /\ person \notin asked
  /\ request' = [request EXCEPT ![r] =
       [IdleRequest EXCEPT !.op = "optOut", !.todo = {person} \X IF viaChat THEN {ChatReading} ELSE Readings]]
  /\ UNCHANGED <<messages, optOuts, byChat, today, asked, unusual>>

-----------------------------------------------------------------------------
(* What it writes, a statement at a time. *)

Row(r, t, status) ==
  [person |-> t[1], item |-> t[2], status |-> status, day |-> today, seen |-> request[r].seen,
   asOf |-> request[r].asOf, barred |-> t[1] \in request[r].barred, taken |-> FALSE]

CreateRow(r, t) ==
  /\ request[r].op = "send" /\ t \in request[r].todo /\ Len(messages) < MaxMessages
  /\ messages' = Append(messages, Row(r, t, "SENDING"))
  /\ request' = [request EXCEPT ![r].todo = @ \ {t}, ![r].queue = Append(@, Len(messages) + 1)]
  /\ UNCHANGED <<optOuts, byChat, today, asked, unusual>>

WriteMark(r, t) ==
  /\ request[r].op = "mark" /\ t \in request[r].todo /\ Len(messages) < MaxMessages
  /\ messages' = Append(messages, Row(r, t, "MARKED"))
  /\ request' = [request EXCEPT ![r] = IdleRequest]
  /\ UNCHANGED <<optOuts, byChat, today, asked, unusual>>

StoreOptOut(r, reading) ==
  /\ request[r].op = "optOut" /\ reading \in request[r].todo
  /\ optOuts' = optOuts \cup {reading}
  /\ IF request[r].todo = {reading}
     THEN asked' = asked \cup {reading[1]} /\ request' = [request EXCEPT ![r] = IdleRequest]
     ELSE request' = [request EXCEPT ![r].todo = @ \ {reading}] /\ UNCHANGED asked
  /\ UNCHANGED <<messages, byChat, today, unusual>>

-----------------------------------------------------------------------------
(* deliverAll, over the rows its send created. *)

Delivering(r) == request[r].op = "send" /\ request[r].todo = {} /\ request[r].queue # <<>>
Current(r) == Head(request[r].queue)
Leave(r) ==
  LET rest == Tail(request[r].queue) IN
    request' = [request EXCEPT ![r] = IF rest = <<>> THEN IdleRequest ELSE [@ EXCEPT !.queue = rest]]

\* deliverOne: WhatsApp takes it...
Taken(r) ==
  /\ Delivering(r) /\ ~messages[Current(r)].taken
  /\ messages' = [messages EXCEPT ![Current(r)].taken = TRUE]
  /\ UNCHANGED <<optOuts, byChat, request, today, asked, unusual>>

\* ...or refuses it, or its answer, or a query before it, is lost: FAILED.
Refused(r) ==
  /\ Delivering(r) /\ ~messages[Current(r)].taken /\ Unusual
  /\ \E took \in BOOLEAN :
       messages' = [messages EXCEPT ![Current(r)].status = "FAILED", ![Current(r)].taken = took]
  /\ Leave(r)
  /\ UNCHANGED <<optOuts, byChat, today, asked>>

\* It is recorded in the chat and SENT; SENT with a note if the chat fails.
StoreSent(r) ==
  /\ Delivering(r) /\ messages[Current(r)].taken
  /\ messages' = [messages EXCEPT ![Current(r)].status = "SENT"]
  /\ Leave(r)
  /\ UNCHANGED <<optOuts, byChat, today, asked, unusual>>

\* Neither SENT could be written: deliverAll writes FAILED where still SENDING.
StoreFails(r) ==
  /\ Delivering(r) /\ messages[Current(r)].taken /\ Unusual
  /\ messages' = [messages EXCEPT ![Current(r)].status = IF @ = "SENDING" THEN "FAILED" ELSE @]
  /\ Leave(r)
  /\ UNCHANGED <<optOuts, byChat, today, asked>>

\* The database is down: a request throws, and the rows it created stay SENDING.
RequestFails(r) ==
  /\ request[r].op # "idle" /\ Unusual
  /\ request' = [request EXCEPT ![r] = IdleRequest]
  /\ UNCHANGED <<messages, optOuts, byChat, today, asked>>

\* onModuleInit: nobody delivers what was SENDING.
Restart ==
  /\ Unusual
  /\ request' = [r \in Requests |-> IdleRequest]
  /\ messages' = [i \in DOMAIN messages |->
       [messages[i] EXCEPT !.status = IF @ = "SENDING" THEN "FAILED" ELSE @]]
  /\ UNCHANGED <<optOuts, byChat, today, asked>>

NextDay ==
  /\ today < LastToday /\ Unusual
  /\ today' = today + 1
  /\ UNCHANGED <<messages, optOuts, byChat, request, asked>>

MessagesNext ==
  \/ \E r \in Requests :
       \/ \E ticked \in SUBSET Targets : Send(r, ticked)
       \/ \E t \in Targets : Mark(r, t) \/ CreateRow(r, t) \/ WriteMark(r, t)
       \/ \E p \in People : (\E viaChat \in BOOLEAN : OptOut(r, p, viaChat))
                            \/ (\E i \in Readings : StoreOptOut(r, <<p, i>>))
       \/ Taken(r) \/ Refused(r) \/ StoreSent(r) \/ StoreFails(r) \/ RequestFails(r)
  \/ Restart \/ NextDay

MessagesSpec == MessagesInit /\ [][MessagesNext]_messageVars

-----------------------------------------------------------------------------
(* Properties *)

Again(i, j) ==
  /\ i < j /\ messages[i].person = messages[j].person
  /\ messages[i].taken /\ messages[j].taken
  /\ messages[j].asOf <= messages[i].day + Cooldown

\* "Someone written to within the cooldown or still going out is left out": a
\* person got two messages within it only from sends that overlapped or a send of
\* two of their policies, after one that does not know it went out, or when a
\* later message that failed hid the one that went.
AgainOnlyUnseen ==
  \A i, j \in DOMAIN messages : Again(i, j) =>
    \/ messages[j].seen < i
    \/ messages[i].status = "FAILED"
    \/ \E k \in (i + 1)..messages[j].seen :
         messages[k].person = messages[i].person /\ messages[k].status = "FAILED"

\* "An ambiguous mobile must not slip through by the other one": no send begun
\* after somebody's opt-out was answered writes to them, by phone or by chat.
OptOutIsKept == \A i \in DOMAIN messages : messages[i].status # "MARKED" => ~messages[i].barred

\* What the code does not keep: nobody gets two messages within the cooldown, even
\* of a send at a time and nothing lost: two ticked policies of a client are written to.
OneMessageEach == \A i, j \in DOMAIN messages : ~Again(i, j)

\* What the code does not keep: a message that went out is never seen as failed.
TakenIsSent == \A i \in DOMAIN messages : messages[i].taken => messages[i].status # "FAILED"
=============================================================================
