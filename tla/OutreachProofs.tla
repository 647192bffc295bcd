--------------------------- MODULE OutreachProofs ---------------------------
(***************************************************************************)
(* What holds of the office's messages for every number of people, items,  *)
(* requests, rows and failures: a send tells nobody it saw told, and       *)
(* whoever asked not to be written to is not.                              *)
(***************************************************************************)
EXTENDS MCOutreach, SequenceTheorems, WellFoundedInduction, TLAPS

-----------------------------------------------------------------------------
(* The inductive invariant of CampaignMessages *)

\* What each kind of request has left to do.
RequestsHold ==
  \A r \in Requests : LET q == request[r] IN
    /\ q.op = "idle" => q = IdleRequest
    /\ q.op \in {"send", "mark"} => q.todo \subseteq Targets
    /\ q.op = "send" => \A t \in q.todo : t[1] \notin q.barred
    /\ q.op # "send" => q.queue = <<>>
    /\ q.op = "optOut" => \E p \in People :
         /\ q.todo \subseteq {p} \X Readings
         /\ <<p, ChatReading>> \in q.todo \cup optOuts
    /\ q.seen <= Len(messages) /\ q.asOf <= today

\* An answered opt-out holds the id of the person's chat, whatever was asked.
AskedIsStored == \A p \in asked : <<p, ChatReading>> \in optOuts

\* Only rows still going out wait for delivery, each once.
QueuedGoOut ==
  \A r \in Requests : \A k \in DOMAIN request[r].queue :
    /\ request[r].queue[k] \in DOMAIN messages
    /\ messages[request[r].queue[k]].status = "SENDING"

QueuedOnce ==
  \A r, s \in Requests : \A k \in DOMAIN request[r].queue, l \in DOMAIN request[s].queue :
    request[r].queue[k] = request[s].queue[l] => r = s /\ k = l

\* Rows are stored in the order of their days.
DaysInOrder ==
  /\ \A i \in DOMAIN messages : messages[i].day <= today
  /\ \A i, j \in DOMAIN messages : i <= j => messages[i].day <= messages[j].day

\* Row i leaves a send free that on a day read the first n rows of its person.
Frees(rows, i, person, n, day) ==
  rows[i].person = person /\ i <= n =>
    \/ rows[i].day + Cooldown < day
    \/ \E k \in i..n : rows[k].person = person /\ rows[k].status = "FAILED"

SendsAreFree ==
  \A r \in Requests : request[r].op = "send" =>
    \A t \in request[r].todo, i \in DOMAIN messages : Frees(messages, i, t[1], request[r].seen, request[r].asOf)

RowsWereFree ==
  \A j \in DOMAIN messages : messages[j].status # "MARKED" =>
    /\ messages[j].seen < j
    /\ \A i \in DOMAIN messages : Frees(messages, i, messages[j].person, messages[j].seen, messages[j].asOf)

MarksAreNotTaken == \A i \in DOMAIN messages : messages[i].taken => messages[i].status # "MARKED"

MessagesInv ==
  /\ MessagesTypeOK /\ RequestsHold /\ AskedIsStored /\ QueuedGoOut /\ QueuedOnce
  /\ DaysInOrder /\ SendsAreFree /\ RowsWereFree /\ MarksAreNotTaken /\ OptOutIsKept

-----------------------------------------------------------------------------
(* Sequences and the rows in them *)

\* Of some numbers up to n, one is the last.
LEMMA LastOne ==
  ASSUME NEW n \in Nat, NEW S \in SUBSET (1..n), S # {}
  PROVE \E k \in S : \A j \in S : j <= k
<1> DEFINE R == OpToRel(<, Nat)
           T == {m \in Nat : n - m \in S}
<1>1. IsWellFoundedOn(R, Nat)
  BY NatLessThanWellFounded, Zenon
<1>2. T \subseteq Nat /\ T # {}
  <2>1. PICK k \in S : TRUE
    OBVIOUS
  <2>2. n - k \in T
    BY <2>1
  <2>3. QED
    BY <2>2
<1> HIDE DEF R, T
<1>3. PICK m \in T : \A y \in T : ~(<<y, m>> \in R)
  BY <1>1, <1>2, WFMin
<1>4. m \in Nat /\ n - m \in S
  BY <1>3 DEF T
<1>5. ASSUME NEW j \in S PROVE j <= n - m
  <2>1. n - j \in T /\ n - j \in Nat
    BY DEF T
  <2>2. ~(<<n - j, m>> \in R)
    BY <1>3, <2>1
  <2>3. ~(n - j < m)
    BY <2>1, <2>2, <1>4 DEF R, OpToRel
  <2>4. QED
    BY <2>3, <1>4
<1>6. QED
  BY <1>4, <1>5

\* What is left of a queue, a place nearer.
LEMMA TailShifts ==
  ASSUME NEW S, NEW q \in Seq(S), q # <<>>
  PROVE /\ Tail(q) \in Seq(S) /\ DOMAIN q = 1..Len(q)
        /\ Head(q) = q[1] /\ 1 \in DOMAIN q /\ Len(q) \in Nat
        /\ Len(Tail(q)) = Len(q) - 1 /\ DOMAIN Tail(q) = 1..(Len(q) - 1)
        /\ \A k \in DOMAIN Tail(q) : k + 1 \in DOMAIN q /\ Tail(q)[k] = q[k + 1]
<1>1. Tail(q) \in Seq(S) /\ Len(Tail(q)) = Len(q) - 1
  BY HeadTailProperties
<1>2. \A k \in 1..Len(Tail(q)) : Tail(q)[k] = q[k + 1]
  BY HeadTailProperties
<1>3. Len(q) \in Nat \ {0} /\ DOMAIN q = 1..Len(q)
  BY EmptySeq, LenProperties
<1>4. DOMAIN Tail(q) = 1..(Len(q) - 1)
  BY <1>1, LenProperties
<1>5. Head(q) = q[1]
  OBVIOUS
<1>6. QED
  BY <1>1, <1>2, <1>3, <1>4, <1>5

RequestType ==
  [op : {"idle", "send", "mark", "optOut"},
   todo : SUBSET (Targets \cup (People \X Readings)), queue : Seq(1..MaxMessages),
   seen : 0..MaxMessages, asOf : 0..LastToday, barred : SUBSET People]

LEMMA IdleType == IdleRequest \in RequestType /\ IdleRequest.op = "idle" /\ IdleRequest.queue = <<>>
                  /\ DOMAIN IdleRequest.queue = {} /\ IdleRequest.seen = 0 /\ IdleRequest.asOf = 0
<1>1. <<>> \in Seq(1..MaxMessages) /\ DOMAIN <<>> = {}
  BY EmptySeq, LenProperties
<1>2. QED
  BY <1>1, MessageParameters DEF IdleRequest, RequestType

\* What rows and requests are.
LEMMA MessageShapes ==
  ASSUME MessagesTypeOK
  PROVE /\ Len(messages) \in Nat /\ DOMAIN messages = 1..Len(messages)
        /\ \A i \in DOMAIN messages : messages[i] \in Message
        /\ request \in [Requests -> RequestType]
        /\ today \in Nat
        /\ \A r \in Requests :
             /\ Len(request[r].queue) \in Nat /\ request[r].queue \in Seq(1..MaxMessages)
             /\ DOMAIN request[r].queue = 1..Len(request[r].queue)
             /\ \A k \in DOMAIN request[r].queue : request[r].queue[k] \in 1..MaxMessages
<1>1. messages \in Seq(Message) /\ request \in [Requests -> RequestType] /\ today \in Nat
  BY MessageParameters DEF MessagesTypeOK, RequestType
<1>2. \A r \in Requests : request[r].queue \in Seq(1..MaxMessages)
  BY <1>1 DEF RequestType
<1>3. QED
  BY <1>1, <1>2, LenProperties, ElementOfSeq

\* A step settles rows that were going out and leaves the others alone.
RowsSettle ==
  /\ messages' \in Seq(Message) /\ Len(messages') = Len(messages)
  /\ \A i \in DOMAIN messages :
       /\ messages[i].status # "SENDING" => messages'[i] = messages[i]
       /\ messages[i].status = "SENDING" => messages'[i].status # "MARKED"
       /\ messages'[i].person = messages[i].person /\ messages'[i].day = messages[i].day
       /\ messages'[i].seen = messages[i].seen /\ messages'[i].asOf = messages[i].asOf
       /\ messages'[i].barred = messages[i].barred

LEMMA SettledFrees ==
  ASSUME MessagesTypeOK, RowsSettle, NEW i \in DOMAIN messages, NEW p, NEW n \in Nat, n <= Len(messages),
         NEW d, Frees(messages, i, p, n, d)
  PROVE Frees(messages', i, p, n, d)
<1>1. DOMAIN messages = 1..Len(messages) /\ Len(messages) \in Nat
  BY MessageShapes
<1>2. \A k \in i..n : k \in DOMAIN messages
  BY <1>1
<1>3. QED
  BY <1>2 DEF Frees, RowsSettle

LEMMA AppendedFrees ==
  ASSUME MessagesTypeOK, NEW row \in Message, messages' = Append(messages, row),
         NEW i \in DOMAIN messages, NEW p, NEW n \in Nat, n <= Len(messages),
         NEW d, Frees(messages, i, p, n, d)
  PROVE Frees(messages', i, p, n, d)
<1>1. DOMAIN messages = 1..Len(messages) /\ Len(messages) \in Nat
  BY MessageShapes
<1>2. \A k \in DOMAIN messages : messages'[k] = messages[k]
  BY <1>1, AppendProperties DEF MessagesTypeOK
<1>3. \A k \in i..n : k \in DOMAIN messages
  BY <1>1
<1>4. QED
  BY <1>2, <1>3 DEF Frees

\* Some requests leave the row at the head of their queue, or end.
QueuesShrink ==
  /\ request' \in [Requests -> RequestType]
  /\ \A r \in Requests :
       \/ request'[r] = IdleRequest
       \/ request'[r] = request[r]
       \/ /\ request[r].op = "send" /\ request[r].queue # <<>>
          /\ request'[r] = [request[r] EXCEPT !.queue = Tail(@)]

\* What waits waited, in the same order.
LEMMA ShrunkQueues ==
  ASSUME MessagesTypeOK, QueuesShrink, NEW r \in Requests
  PROVE \E d \in {0, 1} : \A k \in DOMAIN (request'[r]).queue :
          k + d \in DOMAIN request[r].queue /\ (request'[r]).queue[k] = request[r].queue[k + d]
<1> DEFINE old == request[r].queue  new == (request'[r]).queue
<1>1. old \in Seq(1..MaxMessages) /\ Len(old) \in Nat /\ DOMAIN old = 1..Len(old)
  BY MessageShapes
<1>2. CASE request'[r] = IdleRequest
  <2>1. DOMAIN (request'[r]).queue = {}
    BY <1>2, IdleType
  <2>2. QED
    BY <2>1
<1>3. CASE request'[r] = request[r]
  BY <1>1, <1>3
<1>4. CASE request[r].queue # <<>> /\ request'[r] = [request[r] EXCEPT !.queue = Tail(@)]
  <2>1. request[r] \in RequestType
    BY MessageShapes
  <2>2. new = Tail(old)
    BY <2>1, <1>4 DEF RequestType
  <2>3. \A k \in DOMAIN new : k + 1 \in DOMAIN old /\ new[k] = old[k + 1]
    BY <1>1, <1>4, <2>2, TailShifts
  <2>4. QED
    BY <2>3
<1>5. QED
  BY <1>2, <1>3, <1>4 DEF QueuesShrink

\* Deliveries, failures and restarts: rows settle and queues shrink to those that
\* still go out.
LEMMA SettlingKeepsInv ==
  ASSUME MessagesInv, RowsSettle, QueuesShrink, unusual' \in 0..MaxUnusual,
         UNCHANGED <<optOuts, byChat, today, asked>>,
         \A r \in Requests : \A k \in DOMAIN (request'[r]).queue : messages'[(request'[r]).queue[k]].status = "SENDING"
  PROVE MessagesInv'
<1> USE DEF MessagesInv
<1>1. /\ Len(messages) \in Nat /\ DOMAIN messages = 1..Len(messages) /\ request \in [Requests -> RequestType]
      /\ \A i \in DOMAIN messages : messages[i] \in Message
  BY MessageShapes
<1>2. DOMAIN messages' = DOMAIN messages
  BY <1>1, LenProperties DEF RowsSettle
<1>3. MessagesTypeOK'
  BY DEF MessagesTypeOK, RowsSettle, QueuesShrink, RequestType
<1>4. RequestsHold'
  <2> SUFFICES ASSUME NEW r \in Requests
               PROVE  LET q == request'[r] IN
                 /\ q.op = "idle" => q = IdleRequest
                 /\ q.op \in {"send", "mark"} => q.todo \subseteq Targets
                 /\ q.op = "send" => \A t \in q.todo : t[1] \notin q.barred
                 /\ q.op # "send" => q.queue = <<>>
                 /\ q.op = "optOut" => \E p \in People :
                      /\ q.todo \subseteq {p} \X Readings
                      /\ <<p, ChatReading>> \in q.todo \cup optOuts
                 /\ q.seen <= Len(messages) /\ q.asOf <= today
    BY DEF RowsSettle, RequestsHold
  <2>1. CASE request'[r] = IdleRequest
    BY <2>1, <1>1, IdleType, MessageShapes
  <2>2. CASE request'[r] = request[r]
    BY <2>2 DEF RequestsHold
  <2>3. CASE request[r].op = "send" /\ request'[r] = [request[r] EXCEPT !.queue = Tail(@)]
    BY <2>3, <1>1 DEF RequestsHold, RequestType
  <2>4. QED
    BY <2>1, <2>2, <2>3 DEF QueuesShrink
<1>5. AskedIsStored'
  BY DEF AskedIsStored
<1>6. QueuedGoOut'
  BY <1>2, ShrunkQueues DEF QueuedGoOut
<1>7. QueuedOnce'
  <2> SUFFICES ASSUME NEW r \in Requests, NEW s \in Requests,
                      NEW k \in DOMAIN (request'[r]).queue, NEW l \in DOMAIN (request'[s]).queue,
                      (request'[r]).queue[k] = (request'[s]).queue[l]
               PROVE  r = s /\ k = l
    BY DEF QueuedOnce
  <2>1. PICK d \in {0, 1} : \A n \in DOMAIN (request'[r]).queue :
          n + d \in DOMAIN request[r].queue /\ (request'[r]).queue[n] = request[r].queue[n + d]
    BY ShrunkQueues
  <2>2. PICK e \in {0, 1} : \A n \in DOMAIN (request'[s]).queue :
          n + e \in DOMAIN request[s].queue /\ (request'[s]).queue[n] = request[s].queue[n + e]
    BY ShrunkQueues
  <2>3. r = s
    BY <2>1, <2>2 DEF QueuedOnce
  <2>4. k + d = l + d
    BY <2>1, <2>3 DEF QueuedOnce
  <2>5. (request'[r]).queue \in Seq(1..MaxMessages)
    BY DEF QueuesShrink, RequestType
  <2>6. k \in Nat /\ l \in Nat
    BY <2>3, <2>5, LenProperties
  <2>7. QED
    BY <2>3, <2>4, <2>6
<1>8. DaysInOrder'
  BY <1>2 DEF DaysInOrder, RowsSettle
<1>9. SendsAreFree'
  <2> SUFFICES ASSUME NEW r \in Requests, (request'[r]).op = "send",
                      NEW t \in (request'[r]).todo, NEW i \in DOMAIN messages
               PROVE  Frees(messages', i, t[1], (request'[r]).seen, (request'[r]).asOf)
    BY <1>2 DEF SendsAreFree
  <2>1. request[r] \in RequestType
    BY <1>1
  <2>2. /\ request[r].op = "send" /\ (request'[r]).todo = request[r].todo
        /\ (request'[r]).seen = request[r].seen /\ (request'[r]).asOf = request[r].asOf
    BY <2>1, IdleType DEF QueuesShrink, RequestType
  <2>3. Frees(messages, i, t[1], request[r].seen, request[r].asOf)
    BY <2>2 DEF SendsAreFree
  <2>4. request[r].seen \in Nat /\ request[r].seen <= Len(messages)
    BY <2>1, MessageParameters DEF RequestsHold, RequestType
  <2>5. QED
    BY <2>2, <2>3, <2>4, SettledFrees
<1>10. RowsWereFree'
  <2> SUFFICES ASSUME NEW j \in DOMAIN messages, (messages'[j]).status # "MARKED"
               PROVE  /\ (messages'[j]).seen < j
                      /\ \A i \in DOMAIN messages :
                           Frees(messages', i, (messages'[j]).person, (messages'[j]).seen, (messages'[j]).asOf)
    BY <1>2 DEF RowsWereFree
  <2>1. /\ messages[j].status # "MARKED" /\ messages'[j].person = messages[j].person
        /\ messages'[j].seen = messages[j].seen /\ messages'[j].asOf = messages[j].asOf
    BY DEF RowsSettle
  <2>2. messages[j].seen \in Nat /\ messages[j].seen < j /\ messages[j].seen <= Len(messages)
    BY <1>1, <2>1, MessageParameters DEF RowsWereFree, Message
  <2>3. ASSUME NEW i \in DOMAIN messages
        PROVE  Frees(messages', i, messages[j].person, messages[j].seen, messages[j].asOf)
    BY <2>1, <2>2, SettledFrees DEF RowsWereFree
  <2>4. QED
    BY <2>1, <2>2, <2>3
<1>11. MarksAreNotTaken'
  BY <1>2 DEF MarksAreNotTaken, RowsSettle
<1>12. OptOutIsKept'
  BY <1>2 DEF OptOutIsKept, RowsSettle
<1>13. QED
  BY <1>3, <1>4, <1>5, <1>6, <1>7, <1>8, <1>9, <1>10, <1>11, <1>12

-----------------------------------------------------------------------------
(* The deliveries of a send *)

\* One row that goes out is written anew.
LEMMA RowIsSettled ==
  ASSUME MessagesTypeOK, NEW c \in DOMAIN messages, messages[c].status = "SENDING",
         NEW status \in {"SENDING", "SENT", "FAILED"}, NEW taken \in BOOLEAN,
         messages' = [messages EXCEPT ![c] = [@ EXCEPT !.status = status, !.taken = taken]]
  PROVE RowsSettle /\ messages'[c].status = status /\ \A i \in DOMAIN messages \ {c} : messages'[i] = messages[i]
<1> DEFINE row == [messages[c] EXCEPT !.status = status, !.taken = taken]
<1>1. /\ messages \in Seq(Message) /\ Len(messages) \in Nat /\ DOMAIN messages = 1..Len(messages)
      /\ messages[c] \in Message
  BY MessageShapes DEF MessagesTypeOK
<1>2. /\ row \in Message /\ row.status = status /\ row.person = messages[c].person /\ row.day = messages[c].day
      /\ row.seen = messages[c].seen /\ row.asOf = messages[c].asOf /\ row.barred = messages[c].barred
  BY <1>1 DEF Message
<1> HIDE DEF row
<1>3. messages' = [messages EXCEPT ![c] = row]
  BY DEF row
<1>4. /\ messages' \in Seq(Message) /\ Len(messages') = Len(messages)
      /\ \A i \in DOMAIN messages : messages'[i] = IF i = c THEN row ELSE messages[i]
  BY <1>1, <1>2, <1>3, ExceptSeq
<1>5. QED
  BY <1>1, <1>2, <1>4 DEF RowsSettle

\* The request that left its row is at the next one, or over.
LEMMA LeavingShrinks ==
  ASSUME MessagesTypeOK, NEW r \in Requests, request[r].op = "send", request[r].queue # <<>>, Leave(r)
  PROVE /\ QueuesShrink
        /\ \A s \in Requests \ {r} : request'[s] = request[s]
        /\ \A k \in DOMAIN (request'[r]).queue :
             k + 1 \in DOMAIN request[r].queue /\ (request'[r]).queue[k] = request[r].queue[k + 1]
<1> DEFINE left == Tail(request[r].queue)
           rest == [request[r] EXCEPT !.queue = left]
<1>1. request \in [Requests -> RequestType] /\ request[r] \in RequestType /\ request[r].queue \in Seq(1..MaxMessages)
  BY MessageShapes
<1>2. left \in Seq(1..MaxMessages)
  BY <1>1, TailShifts
<1>3. rest \in RequestType /\ rest.queue = left
  BY <1>1, <1>2 DEF RequestType
<1>4. request' = [request EXCEPT ![r] = IF left = <<>> THEN IdleRequest ELSE rest]
  BY DEF Leave
<1> HIDE DEF rest
<1>5. /\ request' \in [Requests -> RequestType]
      /\ \A s \in Requests \ {r} : request'[s] = request[s]
      /\ request'[r] \in {IdleRequest, rest}
  BY <1>1, <1>3, <1>4, IdleType
<1>6. \A k \in DOMAIN rest.queue :
        k + 1 \in DOMAIN request[r].queue /\ rest.queue[k] = request[r].queue[k + 1]
  BY <1>1, <1>3, TailShifts
<1>7. QueuesShrink
  BY <1>5 DEF QueuesShrink, rest
<1>8. QED
  BY <1>5, <1>6, <1>7, IdleType

\* Nobody else waits for the row a send delivers.
LEMMA CurrentGoesOut ==
  ASSUME MessagesInv, NEW r \in Requests, Delivering(r)
  PROVE /\ Current(r) \in DOMAIN messages /\ messages[Current(r)].status = "SENDING"
        /\ messages[Current(r)] \in Message
        /\ 1 \in DOMAIN request[r].queue /\ request[r].queue[1] = Current(r)
<1>1. request[r].queue \in Seq(1..MaxMessages) /\ request[r].queue # <<>>
  BY MessageShapes DEF MessagesInv, Delivering
<1>2. 1 \in DOMAIN request[r].queue /\ request[r].queue[1] = Current(r)
  BY <1>1, TailShifts DEF Current
<1>3. Current(r) \in DOMAIN messages /\ messages[Current(r)].status = "SENDING"
  BY <1>2 DEF MessagesInv, QueuedGoOut
<1>4. QED
  BY <1>2, <1>3, MessageShapes DEF MessagesInv

\* A delivery that ends, well or badly.
LEMMA DeliveredKeepsInv ==
  ASSUME MessagesInv, NEW r \in Requests, Delivering(r), Leave(r),
         NEW status \in {"SENT", "FAILED"}, NEW taken \in BOOLEAN,
         messages' = [messages EXCEPT ![Current(r)] = [@ EXCEPT !.status = status, !.taken = taken]],
         unusual' \in 0..MaxUnusual, UNCHANGED <<optOuts, byChat, today, asked>>
  PROVE MessagesInv'
<1> DEFINE c == Current(r)
<1>1. /\ c \in DOMAIN messages /\ messages[c].status = "SENDING"
      /\ 1 \in DOMAIN request[r].queue /\ request[r].queue[1] = c
  BY CurrentGoesOut
<1>2. MessagesTypeOK /\ QueuedOnce /\ QueuedGoOut
  BY DEF MessagesInv
<1>3. RowsSettle /\ \A i \in DOMAIN messages \ {c} : messages'[i] = messages[i]
  BY <1>1, <1>2, RowIsSettled
<1>4. /\ QueuesShrink
      /\ \A s \in Requests \ {r} : request'[s] = request[s]
      /\ \A k \in DOMAIN (request'[r]).queue :
           k + 1 \in DOMAIN request[r].queue /\ (request'[r]).queue[k] = request[r].queue[k + 1]
  BY <1>2, LeavingShrinks DEF Delivering
<1>5. ASSUME NEW s \in Requests, NEW k \in DOMAIN (request'[s]).queue
      PROVE  messages'[(request'[s]).queue[k]].status = "SENDING"
  <2>1. CASE s # r
    <3>1. k \in DOMAIN request[s].queue /\ (request'[s]).queue[k] = request[s].queue[k]
      BY <2>1, <1>4
    <3>2. request[s].queue[k] # c
      BY <2>1, <3>1, <1>1, <1>2 DEF QueuedOnce
    <3>3. QED
      BY <3>1, <3>2, <1>2, <1>3 DEF QueuedGoOut
  <2>2. CASE s = r
    <3>1. k + 1 \in DOMAIN request[r].queue /\ (request'[r]).queue[k] = request[r].queue[k + 1]
      BY <2>2, <1>4
    <3>2. k \in Nat \ {0}
      <4>1. (request'[r]).queue \in Seq(1..MaxMessages)
        BY <1>4 DEF QueuesShrink, RequestType
      <4>2. QED
        BY <4>1, <2>2, LenProperties
    <3>3. request[r].queue[k + 1] # c
      BY <3>1, <3>2, <1>1, <1>2 DEF QueuedOnce
    <3>4. QED
      BY <2>2, <3>1, <3>3, <1>2, <1>3 DEF QueuedGoOut
  <2>3. QED
    BY <2>1, <2>2
<1>6. QED
  BY <1>3, <1>4, <1>5, SettlingKeepsInv

LEMMA DeliveriesKeepInv ==
  ASSUME MessagesInv, NEW r \in Requests, Taken(r) \/ Refused(r) \/ StoreSent(r) \/ StoreFails(r)
  PROVE MessagesInv'
<1> DEFINE c == Current(r)
<1>1. MessagesTypeOK /\ unusual \in Nat /\ MaxUnusual \in Nat /\ unusual \in 0..MaxUnusual
  BY MessageParameters DEF MessagesInv, MessagesTypeOK
<1>2. Delivering(r)
  BY DEF Taken, Refused, StoreSent, StoreFails
<1>3. /\ c \in DOMAIN messages /\ messages[c] \in Message /\ messages[c].status = "SENDING"
      /\ messages[c].taken \in BOOLEAN
  BY <1>2, CurrentGoesOut DEF Message
<1> DEFINE With(status, taken) == [messages EXCEPT ![c] = [@ EXCEPT !.status = status, !.taken = taken]]
<1>4. CASE Taken(r)
  <2>1. messages' = With("SENDING", TRUE)
    <3>1. [messages[c] EXCEPT !.taken = TRUE] = [messages[c] EXCEPT !.status = "SENDING", !.taken = TRUE]
      BY <1>3 DEF Message
    <3>2. QED
      BY <1>4, <3>1 DEF Taken
  <2> HIDE DEF c
  <2>2. RowsSettle /\ messages'[c].status = "SENDING" /\ \A i \in DOMAIN messages \ {c} : messages'[i] = messages[i]
    BY <2>1, <1>1, <1>3, RowIsSettled
  <2>3. UNCHANGED <<optOuts, byChat, request, today, asked, unusual>>
    BY <1>4 DEF Taken
  <2>4. QueuesShrink
    BY <2>3, <1>1, MessageShapes DEF QueuesShrink
  <2>5. \A s \in Requests : \A k \in DOMAIN (request'[s]).queue : messages'[(request'[s]).queue[k]].status = "SENDING"
    BY <2>2, <2>3 DEF MessagesInv, QueuedGoOut
  <2>6. QED
    BY <2>2, <2>3, <2>4, <2>5, <1>1, SettlingKeepsInv
<1>5. CASE Refused(r)
  <2>1. PICK took \in BOOLEAN : messages' = With("FAILED", took)
    BY <1>5 DEF Refused
  <2>2. Leave(r) /\ unusual' \in 0..MaxUnusual /\ UNCHANGED <<optOuts, byChat, today, asked>>
    BY <1>5, <1>1 DEF Refused, Unusual
  <2>3. QED
    BY <2>1, <2>2, <1>2, DeliveredKeepsInv
<1>6. CASE StoreSent(r)
  <2>1. messages' = With("SENT", messages[c].taken)
    <3>1. [messages[c] EXCEPT !.status = "SENT"] = [messages[c] EXCEPT !.status = "SENT", !.taken = messages[c].taken]
      BY <1>3 DEF Message
    <3>2. QED
      BY <1>6, <3>1 DEF StoreSent
  <2>2. Leave(r) /\ unusual' \in 0..MaxUnusual /\ UNCHANGED <<optOuts, byChat, today, asked>>
    BY <1>6, <1>1 DEF StoreSent
  <2>3. QED
    BY <2>1, <2>2, <1>2, <1>3, DeliveredKeepsInv
<1>7. CASE StoreFails(r)
  <2>1. messages' = With("FAILED", messages[c].taken)
    <3>1. [messages[c] EXCEPT !.status = "FAILED"] = [messages[c] EXCEPT !.status = "FAILED", !.taken = messages[c].taken]
      BY <1>3 DEF Message
    <3>2. QED
      BY <1>7, <1>3, <3>1 DEF StoreFails
  <2>2. Leave(r) /\ unusual' \in 0..MaxUnusual /\ UNCHANGED <<optOuts, byChat, today, asked>>
    BY <1>7, <1>1 DEF StoreFails, Unusual
  <2>3. QED
    BY <2>1, <2>2, <1>2, <1>3, DeliveredKeepsInv
<1>8. QED
  BY <1>4, <1>5, <1>6, <1>7

\* Requests that end short and the restart of the process.
LEMMA FailuresKeepInv ==
  ASSUME MessagesInv, (\E r \in Requests : RequestFails(r)) \/ Restart
  PROVE MessagesInv'
<1>1. /\ MessagesTypeOK /\ unusual \in Nat /\ MaxUnusual \in Nat /\ unusual \in 0..MaxUnusual
      /\ messages \in Seq(Message) /\ \A i \in DOMAIN messages : messages[i] \in Message
      /\ Len(messages) \in Nat /\ DOMAIN messages = 1..Len(messages)
  BY MessageParameters, MessageShapes DEF MessagesInv, MessagesTypeOK
<1>2. ASSUME NEW r \in Requests, RequestFails(r)
      PROVE  MessagesInv'
  <2>1. UNCHANGED <<messages, optOuts, byChat, today, asked>> /\ unusual' \in 0..MaxUnusual
    BY <1>1, <1>2 DEF RequestFails, Unusual
  <2>2. request' \in [Requests -> RequestType] /\ \A s \in Requests : request'[s] \in {request[s], IdleRequest}
    BY <1>1, <1>2, IdleType, MessageShapes DEF RequestFails
  <2>3. QueuesShrink
    BY <2>2 DEF QueuesShrink
  <2>4. RowsSettle
    BY <2>1, <1>1 DEF RowsSettle
  <2>5. \A s \in Requests : \A k \in DOMAIN (request'[s]).queue : messages'[(request'[s]).queue[k]].status = "SENDING"
    BY <2>1, <2>2, IdleType DEF MessagesInv, QueuedGoOut
  <2>6. QED
    BY <2>1, <2>3, <2>4, <2>5, SettlingKeepsInv
<1>3. CASE Restart
  <2>1. UNCHANGED <<optOuts, byChat, today, asked>> /\ unusual' \in 0..MaxUnusual
    BY <1>1, <1>3 DEF Restart, Unusual
  <2>2. QueuesShrink /\ \A s \in Requests : request'[s] = IdleRequest
    BY <1>3, IdleType DEF Restart, QueuesShrink
  <2>3. /\ DOMAIN messages' = 1..Len(messages) /\ \A i \in 1..Len(messages) : messages'[i] \in Message
        /\ messages' \in [1..Len(messages) -> Message]
    <3>1. messages' = [i \in 1..Len(messages) |-> [messages[i] EXCEPT !.status = IF @ = "SENDING" THEN "FAILED" ELSE @]]
      BY <1>1, <1>3 DEF Restart
    <3>2. \A i \in 1..Len(messages) : [messages[i] EXCEPT !.status = IF @ = "SENDING" THEN "FAILED" ELSE @] \in Message
      BY <1>1 DEF Message
    <3>3. QED
      BY <3>1, <3>2
  <2>4. messages' \in Seq(Message) /\ Len(messages') = Len(messages)
    BY <1>1, <2>3
  <2>5. RowsSettle
    <3>1. ASSUME NEW i \in DOMAIN messages
          PROVE  messages'[i] = [messages[i] EXCEPT !.status = IF @ = "SENDING" THEN "FAILED" ELSE @]
      BY <1>3 DEF Restart
    <3>2. ASSUME NEW i \in DOMAIN messages, messages[i].status # "SENDING"
          PROVE  messages'[i] = messages[i]
      BY <1>1, <3>1, <3>2 DEF Message
    <3>3. ASSUME NEW i \in DOMAIN messages
          PROVE  /\ messages[i].status = "SENDING" => messages'[i].status # "MARKED"
                 /\ messages'[i].person = messages[i].person /\ messages'[i].day = messages[i].day
                 /\ messages'[i].seen = messages[i].seen /\ messages'[i].asOf = messages[i].asOf
                 /\ messages'[i].barred = messages[i].barred
      BY <1>1, <3>1 DEF Message
    <3>4. QED
      BY <2>4, <3>2, <3>3 DEF RowsSettle
  <2>6. QED
    BY <2>1, <2>2, <2>5, IdleType, SettlingKeepsInv
<1>4. QED
  BY <1>2, <1>3

-----------------------------------------------------------------------------
(* What requests read *)

RequestHolds(q, n, day, opted) ==
  /\ q.op = "idle" => q = IdleRequest
  /\ q.op \in {"send", "mark"} => q.todo \subseteq Targets
  /\ q.op = "send" => \A t \in q.todo : t[1] \notin q.barred
  /\ q.op # "send" => q.queue = <<>>
  /\ q.op = "optOut" => \E p \in People :
       /\ q.todo \subseteq {p} \X Readings
       /\ <<p, ChatReading>> \in q.todo \cup opted
  /\ q.seen <= n /\ q.asOf <= day

LEMMA RequestsHoldEach == RequestsHold <=> \A r \in Requests : RequestHolds(request[r], Len(messages), today, optOuts)
BY DEF RequestsHold, RequestHolds

\* A request with nothing to deliver yet takes another's place, and readings of
\* opted-out people may be added.
LEMMA RequestKeepsInv ==
  ASSUME MessagesInv, NEW r \in Requests, NEW q \in RequestType,
         request' = [request EXCEPT ![r] = q], q.queue = <<>>,
         UNCHANGED <<messages, byChat, today, unusual>>,
         optOuts \subseteq optOuts', optOuts' \subseteq People \X Readings, asked' \subseteq People, AskedIsStored',
         RequestHolds(q, Len(messages), today, optOuts'),
         q.op = "send" => \A t \in q.todo, i \in DOMAIN messages : Frees(messages, i, t[1], q.seen, q.asOf)
  PROVE MessagesInv'
<1> USE DEF MessagesInv
<1>1. /\ request' \in [Requests -> RequestType] /\ request'[r] = q /\ DOMAIN q.queue = {}
      /\ \A s \in Requests \ {r} : request'[s] = request[s]
  <2>1. DOMAIN <<>> = {}
    BY EmptySeq, LenProperties
  <2>2. QED
    BY <2>1, MessageShapes
<1>2. MessagesTypeOK'
  BY <1>1 DEF MessagesTypeOK, RequestType
<1>3. RequestsHold'
  <2> SUFFICES ASSUME NEW s \in Requests
               PROVE  RequestHolds(request'[s], Len(messages), today, optOuts')
    BY DEF RequestsHold, RequestHolds
  <2>1. CASE s = r
    BY <1>1, <2>1
  <2>2. CASE s # r
    BY <1>1, <2>2 DEF RequestsHold, RequestHolds
  <2>3. QED
    BY <2>1, <2>2
<1>4. QueuedGoOut'
  BY <1>1 DEF QueuedGoOut
<1>5. QueuedOnce'
  BY <1>1 DEF QueuedOnce
<1>6. DaysInOrder' /\ RowsWereFree' /\ MarksAreNotTaken' /\ OptOutIsKept'
  BY DEF DaysInOrder, RowsWereFree, MarksAreNotTaken, OptOutIsKept
<1>7. SendsAreFree'
  BY <1>1 DEF SendsAreFree
<1>8. QED
  BY <1>2, <1>3, <1>4, <1>5, <1>6, <1>7

\* Whoever is neither being written to nor was written to recently is free.
LEMMA ChosenAreFree ==
  ASSUME MessagesInv, NEW t \in Targets, ~GoingOut(t), ~Recent(t), NEW i \in DOMAIN messages
  PROVE Frees(messages, i, t[1], Len(messages), today)
<1> SUFFICES ASSUME messages[i].person = t[1]
             PROVE  \/ messages[i].day + Cooldown < today
                    \/ \E k \in i..Len(messages) : messages[k].person = t[1] /\ messages[k].status = "FAILED"
  BY DEF Frees
<1>1. /\ Len(messages) \in Nat /\ DOMAIN messages = 1..Len(messages)
      /\ \A k \in DOMAIN messages : messages[k] \in Message
      /\ today \in Nat /\ Cooldown \in Nat /\ LastToday \in Nat
  BY MessageShapes, MessageParameters DEF MessagesInv
<1>2. Of(t) \subseteq 1..Len(messages) /\ i \in Of(t)
  BY <1>1 DEF Of
<1>3. PICK k \in Of(t) : \A j \in Of(t) : j <= k
  BY <1>1, <1>2, LastOne
<1>4. \A m \in Of(t) : (\A j \in Of(t) : j <= m) => m = k
  BY <1>1, <1>2, <1>3
<1>5. (CHOOSE m \in Of(t) : \A j \in Of(t) : j <= m) = k
  BY <1>3, <1>4
<1>6. Newest(t) = messages[k]
  BY <1>5 DEF Newest
<1>7. k \in i..Len(messages) /\ messages[k].person = t[1] /\ messages[k] \in Message
  BY <1>1, <1>2, <1>3 DEF Of
<1>8. messages[k].status = "FAILED" \/ messages[k].day + Cooldown < today
  BY <1>1, <1>2, <1>6, <1>7 DEF GoingOut, Recent, Message
<1>9. messages[i].day <= messages[k].day /\ messages[i].day \in Nat /\ messages[k].day \in Nat
  BY <1>1, <1>7 DEF MessagesInv, DaysInOrder, Message
<1>10. QED
  BY <1>1, <1>7, <1>8, <1>9

LEMMA SendKeepsInv ==
  ASSUME MessagesInv, NEW r \in Requests, NEW ticked \in SUBSET Targets, Send(r, ticked)
  PROVE MessagesInv'
<1> DEFINE chosen == {t \in ticked : ~GoingOut(t) /\ ~Recent(t) /\ ~IsOptedOut(t[1])}
           q == [IdleRequest EXCEPT !.op = "send", !.todo = chosen, !.seen = Len(messages), !.asOf = today, !.barred = asked]
<1>1. request' = [request EXCEPT ![r] = q] /\ UNCHANGED <<messages, optOuts, byChat, today, asked, unusual>>
  BY DEF Send
<1>2. /\ q.op = "send" /\ q.todo = chosen /\ q.queue = <<>> /\ q.seen = Len(messages)
      /\ q.asOf = today /\ q.barred = asked
  BY DEF IdleRequest
<1>3. MessagesTypeOK /\ Len(messages) \in Nat /\ today \in Nat
  BY MessageShapes DEF MessagesInv
<1>4. q \in RequestType
  <2>1. chosen \in SUBSET (Targets \cup (People \X Readings))
    OBVIOUS
  <2>2. Len(messages) \in 0..MaxMessages /\ today \in 0..LastToday /\ asked \in SUBSET People
    BY <1>3 DEF MessagesTypeOK
  <2>3. QED
    BY <2>1, <2>2, IdleType DEF RequestType, IdleRequest
<1>5. \A t \in chosen : t[1] \notin asked
  BY DEF MessagesInv, AskedIsStored, IsOptedOut, ChatReading, Readings
<1>6. \A t \in chosen, i \in DOMAIN messages : Frees(messages, i, t[1], Len(messages), today)
  BY ChosenAreFree
<1> HIDE DEF q
<1>7. RequestHolds(q, Len(messages), today, optOuts)
  BY <1>2, <1>3, <1>5 DEF RequestHolds
<1>8. optOuts \subseteq People \X Readings /\ asked \subseteq People /\ AskedIsStored'
  BY <1>1, <1>3 DEF MessagesTypeOK, MessagesInv, AskedIsStored
<1>9. QED
  BY <1>1, <1>2, <1>4, <1>6, <1>7, <1>8, RequestKeepsInv

LEMMA MarkKeepsInv ==
  ASSUME MessagesInv, NEW r \in Requests, NEW t \in Targets, Mark(r, t)
  PROVE MessagesInv'
<1> DEFINE q == [IdleRequest EXCEPT !.op = "mark", !.todo = {t}, !.seen = Len(messages)]
<1>1. request' = [request EXCEPT ![r] = q] /\ UNCHANGED <<messages, optOuts, byChat, today, asked, unusual>>
  BY DEF Mark
<1>2. q.op = "mark" /\ q.todo = {t} /\ q.queue = <<>> /\ q.seen = Len(messages) /\ q.asOf = 0
  BY DEF IdleRequest
<1>3. MessagesTypeOK /\ Len(messages) \in Nat /\ today \in Nat /\ Len(messages) \in 0..MaxMessages
  BY MessageShapes DEF MessagesInv, MessagesTypeOK
<1>4. q \in RequestType
  BY <1>3, IdleType DEF RequestType, IdleRequest
<1> HIDE DEF q
<1>5. RequestHolds(q, Len(messages), today, optOuts)
  BY <1>2, <1>3 DEF RequestHolds
<1>6. optOuts \subseteq People \X Readings /\ asked \subseteq People /\ AskedIsStored'
  BY <1>1, <1>3 DEF MessagesTypeOK, MessagesInv, AskedIsStored
<1>7. QED
  BY <1>1, <1>2, <1>4, <1>5, <1>6, RequestKeepsInv

LEMMA OptOutKeepsInv ==
  ASSUME MessagesInv, NEW r \in Requests, NEW p \in People, NEW viaChat \in BOOLEAN, OptOut(r, p, viaChat)
  PROVE MessagesInv'
<1> DEFINE ids == {p} \X IF viaChat THEN {ChatReading} ELSE Readings
           q == [IdleRequest EXCEPT !.op = "optOut", !.todo = ids]
<1>1. request' = [request EXCEPT ![r] = q] /\ UNCHANGED <<messages, optOuts, byChat, today, asked, unusual>>
  BY DEF OptOut
<1>2. q.op = "optOut" /\ q.todo = ids /\ q.queue = <<>> /\ q.seen = 0 /\ q.asOf = 0
  BY DEF IdleRequest
<1>3. ids \subseteq {p} \X Readings /\ <<p, ChatReading>> \in ids
  BY DEF Readings, ChatReading
<1>4. MessagesTypeOK /\ Len(messages) \in Nat /\ today \in Nat
  BY MessageShapes DEF MessagesInv
<1>5. q \in RequestType
  BY <1>3, IdleType DEF RequestType, IdleRequest
<1> HIDE DEF q, ids
<1>6. RequestHolds(q, Len(messages), today, optOuts)
  BY <1>2, <1>3, <1>4 DEF RequestHolds
<1>7. optOuts \subseteq People \X Readings /\ asked \subseteq People /\ AskedIsStored'
  BY <1>1, <1>4 DEF MessagesTypeOK, MessagesInv, AskedIsStored
<1>8. QED
  BY <1>1, <1>2, <1>5, <1>6, <1>7, RequestKeepsInv

-----------------------------------------------------------------------------
(* What requests write *)

LEMMA StoreOptOutKeepsInv ==
  ASSUME MessagesInv, NEW r \in Requests, NEW p \in People, NEW i \in Readings, StoreOptOut(r, <<p, i>>)
  PROVE MessagesInv'
<1> DEFINE id == <<p, i>>
           old == request[r]
           rest == [request[r] EXCEPT !.todo = @ \ {id}]
<1>1. /\ old \in RequestType /\ old.op = "optOut" /\ id \in old.todo /\ optOuts' = optOuts \cup {id}
      /\ UNCHANGED <<messages, byChat, today, unusual>>
  BY MessageShapes DEF StoreOptOut, MessagesInv
<1>2. RequestHolds(old, Len(messages), today, optOuts) /\ Len(messages) \in Nat /\ today \in Nat
  BY RequestsHoldEach, MessageShapes DEF MessagesInv
<1>3. PICK o \in People : old.todo \subseteq {o} \X Readings /\ <<o, ChatReading>> \in old.todo \cup optOuts
  BY <1>1, <1>2 DEF RequestHolds
<1>4. o = p
  BY <1>1, <1>3
<1>5. optOuts \subseteq People \X Readings /\ asked \subseteq People
  BY DEF MessagesInv, MessagesTypeOK
<1>6. optOuts \subseteq optOuts' /\ optOuts' \subseteq People \X Readings
  BY <1>1, <1>5
<1>7. CASE old.todo = {id}
  <2>1. asked' = asked \cup {p} /\ request' = [request EXCEPT ![r] = IdleRequest]
    BY <1>7 DEF StoreOptOut
  <2>2. <<p, ChatReading>> \in optOuts'
    BY <1>1, <1>3, <1>4, <1>7
  <2>3. AskedIsStored'
    BY <2>1, <2>2, <1>1 DEF AskedIsStored, MessagesInv
  <2>4. RequestHolds(IdleRequest, Len(messages), today, optOuts')
    BY <1>2, IdleType DEF RequestHolds
  <2>5. QED
    BY <2>1, <2>3, <2>4, <1>1, <1>5, <1>6, IdleType, RequestKeepsInv
<1>8. CASE old.todo # {id}
  <2>1. asked' = asked /\ request' = [request EXCEPT ![r] = rest]
    BY <1>8 DEF StoreOptOut
  <2>2. /\ rest \in RequestType /\ rest.op = "optOut" /\ rest.todo = old.todo \ {id} /\ rest.queue = old.queue
        /\ rest.seen = old.seen /\ rest.asOf = old.asOf
    BY <1>1 DEF RequestType
  <2> HIDE DEF rest
  <2>3. rest.queue = <<>>
    BY <1>1, <1>2, <2>2 DEF RequestHolds
  <2>4. RequestHolds(rest, Len(messages), today, optOuts')
    BY <1>1, <1>2, <1>3, <2>2, <2>3 DEF RequestHolds
  <2>5. AskedIsStored'
    BY <2>1, <1>1 DEF AskedIsStored, MessagesInv
  <2>6. QED
    BY <2>1, <2>2, <2>3, <2>4, <2>5, <1>1, <1>5, <1>6, RequestKeepsInv
<1>9. QED
  BY <1>7, <1>8

\* A request adds a row, which it may have to deliver.
LEMMA AppendingKeepsInv ==
  ASSUME MessagesInv, NEW r \in Requests, NEW q \in RequestType, NEW row \in Message,
         Len(messages) < MaxMessages, messages' = Append(messages, row), request' = [request EXCEPT ![r] = q],
         UNCHANGED <<optOuts, byChat, today, asked, unusual>>,
         row.day = today, ~row.taken,
         row.status # "MARKED" =>
           /\ ~row.barred /\ row.seen <= Len(messages)
           /\ \A i \in DOMAIN messages : Frees(messages, i, row.person, row.seen, row.asOf),
         RequestHolds(q, Len(messages), today, optOuts),
         q.queue # <<>> => row.status = "SENDING" /\ q.queue = Append(request[r].queue, Len(messages) + 1),
         q.op = "send" => /\ request[r].op = "send" /\ q.todo \subseteq request[r].todo
                          /\ q.seen = request[r].seen /\ q.asOf = request[r].asOf
  PROVE MessagesInv'
<1> USE DEF MessagesInv
<1> DEFINE new == Len(messages) + 1
<1>1. /\ messages \in Seq(Message) /\ Len(messages) \in Nat /\ DOMAIN messages = 1..Len(messages)
      /\ request \in [Requests -> RequestType] /\ today \in Nat /\ MaxMessages \in Nat
      /\ \A i \in DOMAIN messages : messages[i] \in Message
  BY MessageShapes, MessageParameters DEF MessagesTypeOK
<1>2. /\ messages' \in Seq(Message) /\ Len(messages') = new /\ messages'[new] = row
      /\ \A i \in DOMAIN messages : messages'[i] = messages[i]
  BY <1>1, AppendProperties
<1>3. DOMAIN messages' = DOMAIN messages \cup {new} /\ new \notin DOMAIN messages
  BY <1>1, <1>2, LenProperties
<1>4. /\ request' \in [Requests -> RequestType] /\ request'[r] = q
      /\ \A s \in Requests \ {r} : request'[s] = request[s]
  BY <1>1
<1>5. MessagesTypeOK'
  <2>1. Len(messages') <= MaxMessages
    BY <1>1, <1>2
  <2>2. QED
    BY <2>1, <1>2, <1>4 DEF MessagesTypeOK, RequestType
<1>6. RequestsHold'
  <2> SUFFICES ASSUME NEW s \in Requests
               PROVE  RequestHolds(request'[s], Len(messages'), today, optOuts)
    BY DEF RequestsHold, RequestHolds
  <2>1. RequestHolds(request'[s], Len(messages), today, optOuts)
    BY <1>4, RequestsHoldEach
  <2>2. (request'[s]).seen \in Nat
    BY <1>4, MessageParameters DEF RequestType
  <2>3. (request'[s]).seen <= Len(messages')
    BY <2>1, <2>2, <1>1, <1>2 DEF RequestHolds
  <2>4. QED
    BY <2>1, <2>3 DEF RequestHolds
<1>7. AskedIsStored'
  BY DEF AskedIsStored
<1>8. \A s \in Requests : \A k \in DOMAIN request[s].queue : request[s].queue[k] \in DOMAIN messages
  BY DEF QueuedGoOut
\* The queue of r: its old rows, then the new one.
<1>9. ASSUME NEW k \in DOMAIN q.queue
      PROVE  /\ row.status = "SENDING"
             /\ \/ k \in DOMAIN request[r].queue /\ q.queue[k] = request[r].queue[k]
                \/ k = Len(request[r].queue) + 1 /\ q.queue[k] = new
  <2>1. /\ request[r].queue \in Seq(1..MaxMessages) /\ Len(request[r].queue) \in Nat
        /\ DOMAIN request[r].queue = 1..Len(request[r].queue)
    BY MessageShapes
  <2>2. q.queue # <<>>
    BY EmptySeq, LenProperties
  <2>3. new \in 1..MaxMessages
    BY <1>1
  <2>4. /\ Len(q.queue) = Len(request[r].queue) + 1 /\ q.queue \in Seq(1..MaxMessages)
        /\ \A n \in 1..Len(request[r].queue) : q.queue[n] = request[r].queue[n]
        /\ q.queue[Len(request[r].queue) + 1] = new
    <3>1. q.queue = Append(request[r].queue, new)
      BY <2>2
    <3> HIDE DEF new
    <3>2. QED
      BY <3>1, <2>1, <2>3, AppendProperties
  <2>5. k \in 1..(Len(request[r].queue) + 1)
    BY <2>4, LenProperties
  <2>6. QED
    BY <2>1, <2>2, <2>4, <2>5
<1>10. QueuedGoOut'
  BY <1>2, <1>3, <1>4, <1>8, <1>9 DEF QueuedGoOut
<1>11. QueuedOnce'
  <2> SUFFICES ASSUME NEW s \in Requests, NEW u \in Requests,
                      NEW k \in DOMAIN (request'[s]).queue, NEW l \in DOMAIN (request'[u]).queue,
                      (request'[s]).queue[k] = (request'[u]).queue[l]
               PROVE  s = u /\ k = l
    BY DEF QueuedOnce
  <2>1. \/ k \in DOMAIN request[s].queue /\ (request'[s]).queue[k] = request[s].queue[k]
        \/ s = r /\ k = Len(request[r].queue) + 1 /\ (request'[s]).queue[k] = new
    BY <1>4, <1>9
  <2>2. \/ l \in DOMAIN request[u].queue /\ (request'[u]).queue[l] = request[u].queue[l]
        \/ u = r /\ l = Len(request[r].queue) + 1 /\ (request'[u]).queue[l] = new
    BY <1>4, <1>9
  <2>3. QED
    BY <2>1, <2>2, <1>3, <1>8 DEF QueuedOnce
<1>12. DaysInOrder'
  <2>1. \A i \in DOMAIN messages' : messages'[i].day <= today
    BY <1>1, <1>2, <1>3 DEF DaysInOrder
  <2>2. ASSUME NEW i \in DOMAIN messages', NEW j \in DOMAIN messages', i <= j
        PROVE  messages'[i].day <= messages'[j].day
    <3>1. CASE j \in DOMAIN messages
      BY <3>1, <2>2, <1>1, <1>2, <1>3 DEF DaysInOrder
    <3>2. CASE j = new
      BY <3>2, <2>1, <1>2
    <3>3. QED
      BY <3>1, <3>2, <1>3
  <2>3. QED
    BY <2>1, <2>2 DEF DaysInOrder
<1>13. ASSUME NEW p, NEW n \in Nat, n <= Len(messages), NEW d,
              \A i \in DOMAIN messages : Frees(messages, i, p, n, d)
       PROVE  \A i \in DOMAIN messages' : Frees(messages', i, p, n, d)
  <2>1. \A i \in DOMAIN messages : Frees(messages', i, p, n, d)
    BY <1>13, AppendedFrees
  <2>2. Frees(messages', new, p, n, d)
    BY <1>1, <1>13 DEF Frees
  <2>3. QED
    BY <2>1, <2>2, <1>3
<1>14. SendsAreFree'
  <2> SUFFICES ASSUME NEW s \in Requests, (request'[s]).op = "send", NEW t \in (request'[s]).todo
               PROVE  \A i \in DOMAIN messages' :
                        Frees(messages', i, t[1], (request'[s]).seen, (request'[s]).asOf)
    BY DEF SendsAreFree
  <2>1. /\ request[s].op = "send" /\ t \in request[s].todo
        /\ (request'[s]).seen = request[s].seen /\ (request'[s]).asOf = request[s].asOf
    BY <1>4
  <2>2. request[s].seen \in Nat /\ request[s].seen <= Len(messages)
    BY <1>1, MessageParameters DEF RequestsHold, RequestType
  <2>3. \A i \in DOMAIN messages : Frees(messages, i, t[1], request[s].seen, request[s].asOf)
    BY <2>1 DEF SendsAreFree
  <2>4. QED
    BY <2>1, <2>2, <2>3, <1>13
<1>15. RowsWereFree'
  <2> SUFFICES ASSUME NEW j \in DOMAIN messages', (messages'[j]).status # "MARKED"
               PROVE  /\ (messages'[j]).seen < j
                      /\ \A i \in DOMAIN messages' :
                           Frees(messages', i, (messages'[j]).person, (messages'[j]).seen, (messages'[j]).asOf)
    BY DEF RowsWereFree
  <2>1. CASE j \in DOMAIN messages
    <3>1. messages'[j] = messages[j] /\ messages[j] \in Message
      BY <2>1, <1>1, <1>2
    <3>2. messages[j].seen \in Nat /\ messages[j].seen < j /\ messages[j].seen <= Len(messages)
      <4>1. messages[j].seen \in Nat
        BY <3>1, MessageParameters DEF Message
      <4>2. messages[j].seen < j
        BY <2>1, <3>1 DEF RowsWereFree
      <4>3. QED
        BY <4>1, <4>2, <2>1, <1>1
    <3>3. \A i \in DOMAIN messages : Frees(messages, i, messages[j].person, messages[j].seen, messages[j].asOf)
      BY <2>1, <3>1 DEF RowsWereFree
    <3>4. QED
      BY <3>1, <3>2, <3>3, <1>13
  <2>2. CASE j = new
    <3>1. messages'[j] = row /\ row.seen \in Nat /\ row.seen <= Len(messages)
      BY <2>2, <1>2, MessageParameters DEF Message
    <3>2. QED
      BY <2>2, <3>1, <1>1, <1>2, <1>13
  <2>3. QED
    BY <2>1, <2>2, <1>3
<1>16. MarksAreNotTaken'
  BY <1>2, <1>3 DEF MarksAreNotTaken
<1>17. OptOutIsKept'
  BY <1>2, <1>3 DEF OptOutIsKept
<1>18. QED
  BY <1>5, <1>6, <1>7, <1>10, <1>11, <1>12, <1>14, <1>15, <1>16, <1>17

LEMMA RowType ==
  ASSUME MessagesInv, NEW r \in Requests, NEW t \in Targets, NEW status \in {"SENDING", "MARKED"}
  PROVE /\ Row(r, t, status) \in Message
        /\ Row(r, t, status).person = t[1] /\ Row(r, t, status).status = status
        /\ Row(r, t, status).day = today /\ Row(r, t, status).taken = FALSE
        /\ Row(r, t, status).seen = request[r].seen /\ Row(r, t, status).asOf = request[r].asOf
        /\ Row(r, t, status).barred = (t[1] \in request[r].barred)
<1>1. request[r] \in RequestType /\ today \in 0..LastToday
  BY MessageShapes DEF MessagesInv, MessagesTypeOK
<1>2. t[1] \in People /\ t[2] \in Items
  BY DEF Targets
<1>3. (t[1] \in request[r].barred) \in BOOLEAN
  OBVIOUS
<1>4. QED
  BY <1>1, <1>2, <1>3 DEF Row, Message, RequestType

LEMMA CreateRowKeepsInv ==
  ASSUME MessagesInv, NEW r \in Requests, NEW t \in Targets, CreateRow(r, t)
  PROVE MessagesInv'
<1> DEFINE old == request[r]
           row == Row(r, t, "SENDING")
           queue == Append(old.queue, Len(messages) + 1)
           q == [old EXCEPT !.todo = @ \ {t}, !.queue = queue]
<1>1. /\ old \in RequestType /\ old.queue \in Seq(1..MaxMessages) /\ Len(messages) \in Nat /\ today \in Nat
      /\ old.op = "send" /\ t \in old.todo /\ Len(messages) < MaxMessages /\ MaxMessages \in Nat
  BY MessageShapes, MessageParameters DEF MessagesInv, CreateRow
<1>2. /\ messages' = Append(messages, row) /\ UNCHANGED <<optOuts, byChat, today, asked, unusual>>
      /\ request' = [request EXCEPT ![r] = q]
  BY DEF CreateRow
<1>3. queue \in Seq(1..MaxMessages)
  <2>1. Len(messages) + 1 \in 1..MaxMessages
    BY <1>1
  <2>2. QED
    BY <2>1, <1>1, AppendProperties
<1>4. /\ q \in RequestType /\ q.op = "send" /\ q.todo = old.todo \ {t} /\ q.queue = queue
      /\ q.seen = old.seen /\ q.asOf = old.asOf /\ q.barred = old.barred
  <2> HIDE DEF queue
  <2>1. QED
    BY <1>1, <1>3 DEF RequestType
<1>5. RequestHolds(old, Len(messages), today, optOuts)
  BY RequestsHoldEach DEF MessagesInv
<1> HIDE DEF q
<1>6. RequestHolds(q, Len(messages), today, optOuts)
  BY <1>1, <1>4, <1>5 DEF RequestHolds
<1>7. \A i \in DOMAIN messages : Frees(messages, i, t[1], old.seen, old.asOf)
  BY <1>1 DEF MessagesInv, SendsAreFree
<1>8. /\ row \in Message /\ row.person = t[1] /\ row.status = "SENDING" /\ row.day = today /\ row.taken = FALSE
      /\ row.seen = old.seen /\ row.asOf = old.asOf /\ row.barred = (t[1] \in old.barred)
  BY RowType
<1>9. ~row.barred /\ row.seen <= Len(messages)
  BY <1>1, <1>5, <1>8 DEF RequestHolds
<1> HIDE DEF row
<1>10. QED
  BY <1>1, <1>2, <1>4, <1>6, <1>7, <1>8, <1>9, AppendingKeepsInv

LEMMA WriteMarkKeepsInv ==
  ASSUME MessagesInv, NEW r \in Requests, NEW t \in Targets, WriteMark(r, t)
  PROVE MessagesInv'
<1> DEFINE row == Row(r, t, "MARKED")
<1>1. /\ messages' = Append(messages, row) /\ UNCHANGED <<optOuts, byChat, today, asked, unusual>>
      /\ request' = [request EXCEPT ![r] = IdleRequest] /\ Len(messages) < MaxMessages
  BY DEF WriteMark
<1>2. row \in Message /\ row.status = "MARKED" /\ row.day = today /\ row.taken = FALSE
  BY RowType
<1>3. Len(messages) \in Nat /\ today \in Nat
  BY MessageShapes DEF MessagesInv
<1>4. RequestHolds(IdleRequest, Len(messages), today, optOuts)
  BY <1>3, IdleType DEF RequestHolds
<1> HIDE DEF row
<1>5. QED
  BY <1>1, <1>2, <1>4, IdleType, AppendingKeepsInv

LEMMA NextDayKeepsInv ==
  ASSUME MessagesInv, NextDay
  PROVE MessagesInv'
<1> USE DEF MessagesInv
<1>1. UNCHANGED <<messages, optOuts, byChat, request, asked>> /\ today < LastToday /\ today' = today + 1
  BY DEF NextDay
<1>2. today \in Nat /\ LastToday \in Nat /\ MaxUnusual \in Nat /\ unusual \in 0..MaxUnusual
  BY MessageParameters DEF MessagesTypeOK
<1>3. today' \in 0..LastToday /\ unusual' \in 0..MaxUnusual
  BY <1>1, <1>2 DEF NextDay, Unusual
<1>4. MessagesTypeOK'
  BY <1>1, <1>3 DEF MessagesTypeOK
<1>5. RequestsHold'
  <2> SUFFICES ASSUME NEW r \in Requests PROVE RequestHolds(request[r], Len(messages), today', optOuts)
    BY <1>1 DEF RequestsHold, RequestHolds
  <2>1. RequestHolds(request[r], Len(messages), today, optOuts)
    BY RequestsHoldEach
  <2>2. request[r].asOf \in Nat
    BY MessageShapes, MessageParameters DEF RequestType
  <2>3. QED
    BY <2>1, <2>2, <1>1, <1>2 DEF RequestHolds
<1>6. DaysInOrder'
  <2>1. \A i \in DOMAIN messages : messages[i].day \in Nat
    BY MessageShapes, MessageParameters DEF Message
  <2>2. QED
    BY <2>1, <1>1, <1>2 DEF DaysInOrder
<1>7. AskedIsStored' /\ QueuedGoOut' /\ QueuedOnce' /\ MarksAreNotTaken' /\ OptOutIsKept'
  BY <1>1 DEF AskedIsStored, QueuedGoOut, QueuedOnce, MarksAreNotTaken, OptOutIsKept
<1>8. SendsAreFree' /\ RowsWereFree'
  BY <1>1 DEF SendsAreFree, RowsWereFree
<1>9. QED
  BY <1>4, <1>5, <1>6, <1>7, <1>8

-----------------------------------------------------------------------------
(* Sends of a campaign *)

LEMMA MessagesInitInv == MessagesInit => MessagesInv
<1> SUFFICES ASSUME MessagesInit PROVE MessagesInv
  OBVIOUS
<1>1. messages = <<>> /\ messages \in Seq(Message) /\ Len(messages) = 0 /\ DOMAIN messages = {}
  BY EmptySeq, LenProperties DEF MessagesInit
<1>2. request \in [Requests -> RequestType] /\ \A r \in Requests : request[r] = IdleRequest
  BY IdleType DEF MessagesInit
<1>3. /\ optOuts = {} /\ asked = {} /\ byChat \in BOOLEAN /\ today = 0 /\ unusual = 0
      /\ {LastToday, MaxMessages, MaxUnusual} \subseteq Nat
  BY MessageParameters DEF MessagesInit
<1>4. MessagesTypeOK
  <2>1. 0 \in 0..LastToday /\ 0 \in 0..MaxUnusual /\ 0 <= MaxMessages
    BY <1>3
  <2>2. QED
    BY <2>1, <1>1, <1>2, <1>3 DEF MessagesTypeOK, RequestType
<1>5. RequestsHold
  <2>1. RequestHolds(IdleRequest, 0, 0, {})
    BY IdleType DEF RequestHolds
  <2>2. QED
    BY <2>1, <1>1, <1>2, <1>3, RequestsHoldEach
<1>6. AskedIsStored /\ QueuedGoOut /\ QueuedOnce /\ SendsAreFree
  BY <1>2, <1>3, IdleType DEF AskedIsStored, QueuedGoOut, QueuedOnce, SendsAreFree
<1>7. DaysInOrder /\ RowsWereFree /\ MarksAreNotTaken /\ OptOutIsKept
  BY <1>1 DEF DaysInOrder, RowsWereFree, MarksAreNotTaken, OptOutIsKept
<1>8. QED
  BY <1>4, <1>5, <1>6, <1>7 DEF MessagesInv

LEMMA MessagesNextInv == MessagesInv /\ [MessagesNext]_messageVars => MessagesInv'
<1> SUFFICES ASSUME MessagesInv, [MessagesNext]_messageVars PROVE MessagesInv'
  OBVIOUS
<1>1. ASSUME NEW r \in Requests, NEW ticked \in SUBSET Targets, Send(r, ticked) PROVE MessagesInv'
  BY <1>1, SendKeepsInv
<1>2. ASSUME NEW r \in Requests, NEW t \in Targets, Mark(r, t) PROVE MessagesInv'
  BY <1>2, MarkKeepsInv
<1>3. ASSUME NEW r \in Requests, NEW t \in Targets, CreateRow(r, t) PROVE MessagesInv'
  BY <1>3, CreateRowKeepsInv
<1>4. ASSUME NEW r \in Requests, NEW t \in Targets, WriteMark(r, t) PROVE MessagesInv'
  BY <1>4, WriteMarkKeepsInv
<1>5. ASSUME NEW r \in Requests, NEW p \in People, NEW viaChat \in BOOLEAN, OptOut(r, p, viaChat) PROVE MessagesInv'
  BY <1>5, OptOutKeepsInv
<1>6. ASSUME NEW r \in Requests, NEW p \in People, NEW i \in Readings, StoreOptOut(r, <<p, i>>) PROVE MessagesInv'
  BY <1>6, StoreOptOutKeepsInv
<1>7. ASSUME NEW r \in Requests, Taken(r) \/ Refused(r) \/ StoreSent(r) \/ StoreFails(r) PROVE MessagesInv'
  BY <1>7, DeliveriesKeepInv
<1>8. ASSUME NEW r \in Requests, RequestFails(r) PROVE MessagesInv'
  BY <1>8, FailuresKeepInv
<1>9. CASE Restart
  BY <1>9, FailuresKeepInv
<1>10. CASE NextDay
  BY <1>10, NextDayKeepsInv
<1>11. CASE UNCHANGED messageVars
  <2>1. UNCHANGED <<messages, optOuts, byChat, request, today, asked, unusual>>
    BY <1>11 DEF messageVars
  <2>2. MessagesTypeOK'
    BY <2>1 DEF MessagesInv, MessagesTypeOK
  <2>3. RequestsHold'
    BY <2>1 DEF MessagesInv, RequestsHold
  <2>4. AskedIsStored' /\ QueuedGoOut' /\ QueuedOnce' /\ MarksAreNotTaken' /\ OptOutIsKept'
    BY <2>1 DEF MessagesInv, AskedIsStored, QueuedGoOut, QueuedOnce, MarksAreNotTaken, OptOutIsKept
  <2>5. DaysInOrder' /\ SendsAreFree' /\ RowsWereFree'
    BY <2>1 DEF MessagesInv, DaysInOrder, SendsAreFree, RowsWereFree
  <2>6. QED
    BY <2>2, <2>3, <2>4, <2>5 DEF MessagesInv
<1>12. QED
  BY <1>1, <1>2, <1>3, <1>4, <1>5, <1>6, <1>7, <1>8, <1>9, <1>10, <1>11 DEF MessagesNext

\* What was free when its send read leaves only the sends that could not know.
LEMMA FreeRowsAreNotAgain == MessagesInv => AgainOnlyUnseen
<1> SUFFICES ASSUME MessagesInv, NEW i \in DOMAIN messages, NEW j \in DOMAIN messages, Again(i, j)
             PROVE  \/ messages[j].seen < i
                    \/ messages[i].status = "FAILED"
                    \/ \E k \in (i + 1)..messages[j].seen :
                         messages[k].person = messages[i].person /\ messages[k].status = "FAILED"
  BY DEF AgainOnlyUnseen
<1>1. /\ messages[i] \in Message /\ messages[j] \in Message /\ i \in Nat /\ Cooldown \in Nat
      /\ messages[i].day \in Nat /\ messages[j].asOf \in Nat /\ messages[j].seen \in Nat
  BY MessageShapes, MessageParameters DEF MessagesInv, Message
<1>2. messages[j].status # "MARKED"
  BY DEF Again, MessagesInv, MarksAreNotTaken
<1>3. Frees(messages, i, messages[j].person, messages[j].seen, messages[j].asOf)
  BY <1>2 DEF MessagesInv, RowsWereFree
<1>4. ~(messages[i].day + Cooldown < messages[j].asOf)
  BY <1>1 DEF Again
<1>5. CASE i <= messages[j].seen
  <2>1. PICK k \in i..messages[j].seen : messages[k].person = messages[j].person /\ messages[k].status = "FAILED"
    BY <1>3, <1>4, <1>5 DEF Frees, Again
  <2>2. k = i \/ k \in (i + 1)..messages[j].seen
    BY <1>1
  <2>3. QED
    BY <2>1, <2>2 DEF Again
<1>6. QED
  BY <1>1, <1>5

-----------------------------------------------------------------------------
(* The inductive invariant of ExpiryNotices *)

SendingType == [claims : SUBSET Expired, rows : Seq(1..MaxNotices),
                read : 0..MaxNotices, asOf : 0..LastDate, renewed : SUBSET Expired]

SendsRead == \A s \in Senders : sending[s].read <= Len(expiryNotices)

\* Only notices still going out wait for delivery, each once.
RowsGoOut ==
  \A s \in Senders : \A k \in DOMAIN sending[s].rows :
    /\ sending[s].rows[k] \in DOMAIN expiryNotices
    /\ expiryNotices[sending[s].rows[k]].status = "SENDING"

RowsWaitOnce ==
  \A s, u \in Senders : \A k \in DOMAIN sending[s].rows, l \in DOMAIN sending[u].rows :
    sending[s].rows[k] = sending[u].rows[l] => s = u /\ k = l

\* Notice i leaves free a send that on a day read the first n of its policy.
LetsSend(notices, i, policy, n, day) ==
  notices[i].policy = policy /\ i <= n =>
    notices[i].date + RenotifyAfter < day \/ notices[i].status = "FAILED"

ClaimsAreFree ==
  \A s \in Senders : \A p \in sending[s].claims, i \in DOMAIN expiryNotices :
    LetsSend(expiryNotices, i, p, sending[s].read, sending[s].asOf)

NoticesWereFree ==
  \A j \in DOMAIN expiryNotices : expiryNotices[j].status # "MARKED" =>
    /\ expiryNotices[j].read < j
    /\ \A i \in DOMAIN expiryNotices :
         LetsSend(expiryNotices, i, expiryNotices[j].policy, expiryNotices[j].read, expiryNotices[j].asOf)

MarksAreNotAccepted == \A i \in DOMAIN expiryNotices : expiryNotices[i].accepted => expiryNotices[i].status # "MARKED"

NoticesInv ==
  /\ NoticesTypeOK /\ SendsRead /\ RowsGoOut /\ RowsWaitOnce
  /\ ClaimsAreFree /\ NoticesWereFree /\ MarksAreNotAccepted

LEMMA NoSendType == NoSend \in SendingType /\ NoSend.rows = <<>> /\ DOMAIN NoSend.rows = {} /\ NoSend.claims = {} /\ NoSend.read = 0
<1>1. <<>> \in Seq(1..MaxNotices) /\ DOMAIN <<>> = {}
  BY EmptySeq, LenProperties
<1>2. QED
  BY <1>1, NoticeParameters DEF NoSend, SendingType

LEMMA NoticeShapes ==
  ASSUME NoticesTypeOK
  PROVE /\ expiryNotices \in Seq(Notice) /\ Len(expiryNotices) \in Nat
        /\ DOMAIN expiryNotices = 1..Len(expiryNotices)
        /\ \A i \in DOMAIN expiryNotices : expiryNotices[i] \in Notice
        /\ sending \in [Senders -> SendingType]
        /\ date \in Nat /\ incidentals \in Nat
        /\ \A s \in Senders :
             /\ Len(sending[s].rows) \in Nat /\ sending[s].rows \in Seq(1..MaxNotices)
             /\ DOMAIN sending[s].rows = 1..Len(sending[s].rows)
             /\ sending[s].read \in Nat
<1>1. /\ expiryNotices \in Seq(Notice) /\ sending \in [Senders -> SendingType]
      /\ date \in Nat /\ incidentals \in Nat /\ MaxNotices \in Nat
  BY NoticeParameters DEF NoticesTypeOK, SendingType
<1>2. \A s \in Senders : sending[s].rows \in Seq(1..MaxNotices) /\ sending[s].read \in Nat
  BY <1>1 DEF SendingType
<1>3. QED
  BY <1>1, <1>2, LenProperties, ElementOfSeq

\* A step settles notices that were going out and leaves the others alone.
NoticesSettle ==
  /\ expiryNotices' \in Seq(Notice) /\ Len(expiryNotices') = Len(expiryNotices)
  /\ \A i \in DOMAIN expiryNotices :
       /\ expiryNotices[i].status # "SENDING" => expiryNotices'[i] = expiryNotices[i]
       /\ expiryNotices[i].status = "SENDING" => expiryNotices'[i].status # "MARKED"
       /\ expiryNotices'[i].policy = expiryNotices[i].policy /\ expiryNotices'[i].date = expiryNotices[i].date
       /\ expiryNotices'[i].read = expiryNotices[i].read /\ expiryNotices'[i].asOf = expiryNotices[i].asOf

LEMMA SettledLets ==
  ASSUME NoticesSettle, NEW i \in DOMAIN expiryNotices, NEW p, NEW n, NEW d, LetsSend(expiryNotices, i, p, n, d)
  PROVE LetsSend(expiryNotices', i, p, n, d)
BY DEF LetsSend, NoticesSettle

\* Some sends leave the notice at the head of their rows, or end.
SendsShrink ==
  /\ sending' \in [Senders -> SendingType]
  /\ \A s \in Senders :
       \/ sending'[s] = NoSend
       \/ sending'[s] = sending[s]
       \/ sending[s].rows # <<>> /\ sending'[s] = [sending[s] EXCEPT !.rows = Tail(@)]

LEMMA ShrunkSends ==
  ASSUME NoticesTypeOK, SendsShrink, NEW s \in Senders
  PROVE \E d \in {0, 1} : \A k \in DOMAIN (sending'[s]).rows :
          k + d \in DOMAIN sending[s].rows /\ (sending'[s]).rows[k] = sending[s].rows[k + d]
<1> DEFINE old == sending[s].rows  new == (sending'[s]).rows
<1>1. old \in Seq(1..MaxNotices) /\ Len(old) \in Nat /\ DOMAIN old = 1..Len(old) /\ sending[s] \in SendingType
  BY NoticeShapes
<1>2. CASE sending'[s] = NoSend
  <2>1. DOMAIN (sending'[s]).rows = {}
    BY <1>2, NoSendType
  <2>2. QED
    BY <2>1
<1>3. CASE sending'[s] = sending[s]
  BY <1>1, <1>3
<1>4. CASE sending[s].rows # <<>> /\ sending'[s] = [sending[s] EXCEPT !.rows = Tail(@)]
  <2>1. new = Tail(old)
    BY <1>1, <1>4 DEF SendingType
  <2>2. \A k \in DOMAIN new : k + 1 \in DOMAIN old /\ new[k] = old[k + 1]
    BY <1>1, <1>4, <2>1, TailShifts
  <2>3. QED
    BY <2>2
<1>5. QED
  BY <1>2, <1>3, <1>4 DEF SendsShrink

LEMMA SettlingKeepsNotices ==
  ASSUME NoticesInv, NoticesSettle, SendsShrink, incidentals' \in 0..MaxIncidentals,
         UNCHANGED <<hidden, renewed, listed, date>>,
         \A s \in Senders : \A k \in DOMAIN (sending'[s]).rows : expiryNotices'[(sending'[s]).rows[k]].status = "SENDING"
  PROVE NoticesInv'
<1> USE DEF NoticesInv
<1>1. /\ Len(expiryNotices) \in Nat /\ DOMAIN expiryNotices = 1..Len(expiryNotices) /\ sending \in [Senders -> SendingType]
      /\ \A i \in DOMAIN expiryNotices : expiryNotices[i] \in Notice
  BY NoticeShapes
<1>2. DOMAIN expiryNotices' = DOMAIN expiryNotices
  BY <1>1, LenProperties DEF NoticesSettle
<1>3. NoticesTypeOK'
  BY DEF NoticesTypeOK, NoticesSettle, SendsShrink, SendingType
<1>4. \A s \in Senders :
        \/ (sending'[s]).claims = {} /\ (sending'[s]).read = 0
        \/ /\ (sending'[s]).claims = sending[s].claims /\ (sending'[s]).read = sending[s].read
           /\ (sending'[s]).asOf = sending[s].asOf
  <2> TAKE s \in Senders
  <2>1. CASE sending'[s] = NoSend
    BY <2>1, NoSendType
  <2>2. CASE sending'[s] = sending[s]
    BY <2>2
  <2>3. CASE sending'[s] = [sending[s] EXCEPT !.rows = Tail(@)]
    <3>1. sending[s] \in SendingType
      BY <1>1
    <3>2. QED
      BY <2>3, <3>1 DEF SendingType
  <2>4. QED
    BY <2>1, <2>2, <2>3 DEF SendsShrink
<1>5. SendsRead'
  BY <1>1, <1>4 DEF SendsRead, NoticesSettle
<1>6. RowsGoOut'
  BY <1>2, ShrunkSends DEF RowsGoOut
<1>7. RowsWaitOnce'
  <2> SUFFICES ASSUME NEW r \in Senders, NEW s \in Senders,
                      NEW k \in DOMAIN (sending'[r]).rows, NEW l \in DOMAIN (sending'[s]).rows,
                      (sending'[r]).rows[k] = (sending'[s]).rows[l]
               PROVE  r = s /\ k = l
    BY DEF RowsWaitOnce
  <2>1. PICK d \in {0, 1} : \A n \in DOMAIN (sending'[r]).rows :
          n + d \in DOMAIN sending[r].rows /\ (sending'[r]).rows[n] = sending[r].rows[n + d]
    BY ShrunkSends
  <2>2. PICK e \in {0, 1} : \A n \in DOMAIN (sending'[s]).rows :
          n + e \in DOMAIN sending[s].rows /\ (sending'[s]).rows[n] = sending[s].rows[n + e]
    BY ShrunkSends
  <2>3. r = s
    BY <2>1, <2>2 DEF RowsWaitOnce
  <2>4. k + d = l + d
    BY <2>1, <2>3 DEF RowsWaitOnce
  <2>5. (sending'[r]).rows \in Seq(1..MaxNotices)
    BY DEF SendsShrink, SendingType
  <2>6. k \in Nat /\ l \in Nat
    BY <2>3, <2>5, LenProperties
  <2>7. QED
    BY <2>3, <2>4, <2>6
<1>8. ClaimsAreFree'
  <2> SUFFICES ASSUME NEW s \in Senders, NEW p \in (sending'[s]).claims, NEW i \in DOMAIN expiryNotices
               PROVE  LetsSend(expiryNotices', i, p, (sending'[s]).read, (sending'[s]).asOf)
    BY <1>2 DEF ClaimsAreFree
  <2>1. /\ p \in sending[s].claims /\ (sending'[s]).read = sending[s].read
        /\ (sending'[s]).asOf = sending[s].asOf
    BY <1>4
  <2>2. LetsSend(expiryNotices, i, p, sending[s].read, sending[s].asOf)
    BY <2>1 DEF ClaimsAreFree
  <2>3. QED
    BY <2>1, <2>2, SettledLets
<1>9. NoticesWereFree'
  <2> SUFFICES ASSUME NEW j \in DOMAIN expiryNotices, (expiryNotices'[j]).status # "MARKED"
               PROVE  /\ (expiryNotices'[j]).read < j
                      /\ \A i \in DOMAIN expiryNotices :
                           LetsSend(expiryNotices', i, (expiryNotices'[j]).policy, (expiryNotices'[j]).read, (expiryNotices'[j]).asOf)
    BY <1>2 DEF NoticesWereFree
  <2>1. /\ expiryNotices[j].status # "MARKED" /\ expiryNotices'[j].policy = expiryNotices[j].policy
        /\ expiryNotices'[j].read = expiryNotices[j].read /\ expiryNotices'[j].asOf = expiryNotices[j].asOf
    BY DEF NoticesSettle
  <2>2. ASSUME NEW i \in DOMAIN expiryNotices
        PROVE  LetsSend(expiryNotices', i, expiryNotices[j].policy, expiryNotices[j].read, expiryNotices[j].asOf)
    BY <2>1, SettledLets DEF NoticesWereFree
  <2>3. QED
    BY <2>1, <2>2 DEF NoticesWereFree
<1>10. MarksAreNotAccepted'
  BY <1>2 DEF MarksAreNotAccepted, NoticesSettle
<1>11. QED
  BY <1>3, <1>5, <1>6, <1>7, <1>8, <1>9, <1>10

\* One notice that goes out is written anew.
LEMMA NoticeIsSettled ==
  ASSUME NoticesTypeOK, NEW c \in DOMAIN expiryNotices, expiryNotices[c].status = "SENDING",
         NEW status \in {"SENDING", "SENT", "FAILED"}, NEW accepted \in BOOLEAN,
         expiryNotices' = [expiryNotices EXCEPT ![c] = [@ EXCEPT !.status = status, !.accepted = accepted]]
  PROVE /\ NoticesSettle /\ expiryNotices'[c].status = status
        /\ \A i \in DOMAIN expiryNotices \ {c} : expiryNotices'[i] = expiryNotices[i]
<1> DEFINE row == [expiryNotices[c] EXCEPT !.status = status, !.accepted = accepted]
<1>1. /\ expiryNotices \in Seq(Notice) /\ Len(expiryNotices) \in Nat /\ DOMAIN expiryNotices = 1..Len(expiryNotices)
      /\ expiryNotices[c] \in Notice
  BY NoticeShapes
<1>2. /\ row \in Notice /\ row.status = status /\ row.policy = expiryNotices[c].policy /\ row.date = expiryNotices[c].date
      /\ row.read = expiryNotices[c].read /\ row.asOf = expiryNotices[c].asOf
  BY <1>1 DEF Notice
<1> HIDE DEF row
<1>3. expiryNotices' = [expiryNotices EXCEPT ![c] = row]
  BY DEF row
<1>4. /\ expiryNotices' \in Seq(Notice) /\ Len(expiryNotices') = Len(expiryNotices)
      /\ \A i \in DOMAIN expiryNotices : expiryNotices'[i] = IF i = c THEN row ELSE expiryNotices[i]
  BY <1>1, <1>2, <1>3, ExceptSeq
<1>5. QED
  BY <1>1, <1>2, <1>4 DEF NoticesSettle

LEMMA PassingShrinks ==
  ASSUME NoticesTypeOK, NEW s \in Senders, sending[s].rows # <<>>, Pass(s)
  PROVE /\ SendsShrink
        /\ \A u \in Senders \ {s} : sending'[u] = sending[u]
        /\ \A k \in DOMAIN (sending'[s]).rows :
             k + 1 \in DOMAIN sending[s].rows /\ (sending'[s]).rows[k] = sending[s].rows[k + 1]
<1> DEFINE left == Tail(sending[s].rows)
           rest == [sending[s] EXCEPT !.rows = left]
<1>1. sending \in [Senders -> SendingType] /\ sending[s] \in SendingType /\ sending[s].rows \in Seq(1..MaxNotices)
  BY NoticeShapes
<1>2. left \in Seq(1..MaxNotices)
  BY <1>1, TailShifts
<1>3. rest \in SendingType /\ rest.rows = left
  BY <1>1, <1>2 DEF SendingType
<1>4. sending' = [sending EXCEPT ![s] = IF left = <<>> THEN NoSend ELSE rest]
  BY DEF Pass
<1> HIDE DEF rest
<1>5. /\ sending' \in [Senders -> SendingType]
      /\ \A u \in Senders \ {s} : sending'[u] = sending[u]
      /\ sending'[s] \in {NoSend, rest}
  BY <1>1, <1>3, <1>4, NoSendType
<1>6. \A k \in DOMAIN rest.rows :
        k + 1 \in DOMAIN sending[s].rows /\ rest.rows[k] = sending[s].rows[k + 1]
  BY <1>1, <1>3, TailShifts
<1>7. SendsShrink
  BY <1>5 DEF SendsShrink, rest
<1>8. QED
  BY <1>5, <1>6, <1>7, NoSendType

LEMMA InTurnGoesOut ==
  ASSUME NoticesInv, NEW s \in Senders, Turn(s)
  PROVE /\ InTurn(s) \in DOMAIN expiryNotices /\ expiryNotices[InTurn(s)].status = "SENDING"
        /\ expiryNotices[InTurn(s)] \in Notice
        /\ 1 \in DOMAIN sending[s].rows /\ sending[s].rows[1] = InTurn(s)
<1>1. sending[s].rows \in Seq(1..MaxNotices) /\ sending[s].rows # <<>>
  BY NoticeShapes DEF NoticesInv, Turn
<1>2. 1 \in DOMAIN sending[s].rows /\ sending[s].rows[1] = InTurn(s)
  BY <1>1, TailShifts DEF InTurn
<1>3. InTurn(s) \in DOMAIN expiryNotices /\ expiryNotices[InTurn(s)].status = "SENDING"
  BY <1>2 DEF NoticesInv, RowsGoOut
<1>4. QED
  BY <1>2, <1>3, NoticeShapes DEF NoticesInv

LEMMA PassedKeepsNotices ==
  ASSUME NoticesInv, NEW s \in Senders, Turn(s), Pass(s),
         NEW status \in {"SENT", "FAILED"}, NEW accepted \in BOOLEAN,
         expiryNotices' = [expiryNotices EXCEPT ![InTurn(s)] = [@ EXCEPT !.status = status, !.accepted = accepted]],
         incidentals' \in 0..MaxIncidentals, UNCHANGED <<hidden, renewed, listed, date>>
  PROVE NoticesInv'
<1> DEFINE c == InTurn(s)
<1>1. /\ c \in DOMAIN expiryNotices /\ expiryNotices[c].status = "SENDING"
      /\ 1 \in DOMAIN sending[s].rows /\ sending[s].rows[1] = c
  BY InTurnGoesOut
<1>2. NoticesTypeOK /\ RowsWaitOnce /\ RowsGoOut
  BY DEF NoticesInv
<1>3. NoticesSettle /\ \A i \in DOMAIN expiryNotices \ {c} : expiryNotices'[i] = expiryNotices[i]
  BY <1>1, <1>2, NoticeIsSettled
<1>4. /\ SendsShrink
      /\ \A u \in Senders \ {s} : sending'[u] = sending[u]
      /\ \A k \in DOMAIN (sending'[s]).rows :
           k + 1 \in DOMAIN sending[s].rows /\ (sending'[s]).rows[k] = sending[s].rows[k + 1]
  BY <1>2, PassingShrinks DEF Turn
<1>5. ASSUME NEW u \in Senders, NEW k \in DOMAIN (sending'[u]).rows
      PROVE  expiryNotices'[(sending'[u]).rows[k]].status = "SENDING"
  <2>1. CASE u # s
    <3>1. k \in DOMAIN sending[u].rows /\ (sending'[u]).rows[k] = sending[u].rows[k]
      BY <2>1, <1>4
    <3>2. sending[u].rows[k] # c
      BY <2>1, <3>1, <1>1, <1>2 DEF RowsWaitOnce
    <3>3. QED
      BY <3>1, <3>2, <1>2, <1>3 DEF RowsGoOut
  <2>2. CASE u = s
    <3>1. k + 1 \in DOMAIN sending[s].rows /\ (sending'[s]).rows[k] = sending[s].rows[k + 1]
      BY <2>2, <1>4
    <3>2. k \in Nat \ {0}
      <4>1. (sending'[s]).rows \in Seq(1..MaxNotices)
        BY <1>4 DEF SendsShrink, SendingType
      <4>2. QED
        BY <4>1, <2>2, LenProperties
    <3>3. sending[s].rows[k + 1] # c
      BY <3>1, <3>2, <1>1, <1>2 DEF RowsWaitOnce
    <3>4. QED
      BY <2>2, <3>1, <3>3, <1>2, <1>3 DEF RowsGoOut
  <2>3. QED
    BY <2>1, <2>2
<1>6. QED
  BY <1>3, <1>4, <1>5, SettlingKeepsNotices

LEMMA NoticeDeliveriesKeep ==
  ASSUME NoticesInv, NEW s \in Senders,
         NoticeAccepted(s) \/ NoticeRefused(s) \/ NoticeSent(s) \/ NoticeUnstored(s)
  PROVE NoticesInv'
<1> DEFINE c == InTurn(s)
<1>1. NoticesTypeOK /\ incidentals \in Nat /\ MaxIncidentals \in Nat /\ incidentals \in 0..MaxIncidentals
  BY NoticeParameters DEF NoticesInv, NoticesTypeOK
<1>2. Turn(s)
  BY DEF NoticeAccepted, NoticeRefused, NoticeSent, NoticeUnstored
<1>3. /\ c \in DOMAIN expiryNotices /\ expiryNotices[c] \in Notice /\ expiryNotices[c].status = "SENDING"
      /\ expiryNotices[c].accepted \in BOOLEAN
  BY <1>2, InTurnGoesOut DEF Notice
<1> DEFINE With(status, accepted) == [expiryNotices EXCEPT ![c] = [@ EXCEPT !.status = status, !.accepted = accepted]]
<1>4. CASE NoticeAccepted(s)
  <2>1. expiryNotices' = With("SENDING", TRUE)
    <3>1. [expiryNotices[c] EXCEPT !.accepted = TRUE] = [expiryNotices[c] EXCEPT !.status = "SENDING", !.accepted = TRUE]
      BY <1>3 DEF Notice
    <3>2. QED
      BY <1>4, <3>1 DEF NoticeAccepted
  <2> HIDE DEF c
  <2>2. /\ NoticesSettle /\ expiryNotices'[c].status = "SENDING"
        /\ \A i \in DOMAIN expiryNotices \ {c} : expiryNotices'[i] = expiryNotices[i]
    BY <2>1, <1>1, <1>3, NoticeIsSettled
  <2>3. UNCHANGED <<hidden, renewed, listed, sending, date, incidentals>>
    BY <1>4 DEF NoticeAccepted
  <2>4. SendsShrink
    BY <2>3, <1>1, NoticeShapes DEF SendsShrink
  <2>5. \A u \in Senders : \A k \in DOMAIN (sending'[u]).rows : expiryNotices'[(sending'[u]).rows[k]].status = "SENDING"
    BY <2>2, <2>3 DEF NoticesInv, RowsGoOut
  <2>6. QED
    BY <2>2, <2>3, <2>4, <2>5, <1>1, SettlingKeepsNotices
<1>5. CASE NoticeRefused(s)
  <2>1. PICK took \in BOOLEAN : expiryNotices' = With("FAILED", took)
    BY <1>5 DEF NoticeRefused
  <2>2. Pass(s) /\ incidentals' \in 0..MaxIncidentals /\ UNCHANGED <<hidden, renewed, listed, date>>
    BY <1>5, <1>1 DEF NoticeRefused, Incidental
  <2>3. QED
    BY <2>1, <2>2, <1>2, PassedKeepsNotices
<1>6. CASE NoticeSent(s)
  <2>1. expiryNotices' = With("SENT", expiryNotices[c].accepted)
    <3>1. [expiryNotices[c] EXCEPT !.status = "SENT"]
            = [expiryNotices[c] EXCEPT !.status = "SENT", !.accepted = expiryNotices[c].accepted]
      BY <1>3 DEF Notice
    <3>2. QED
      BY <1>6, <3>1 DEF NoticeSent
  <2>2. Pass(s) /\ incidentals' \in 0..MaxIncidentals /\ UNCHANGED <<hidden, renewed, listed, date>>
    BY <1>6, <1>1 DEF NoticeSent
  <2>3. QED
    BY <2>1, <2>2, <1>2, <1>3, PassedKeepsNotices
<1>7. CASE NoticeUnstored(s)
  <2>1. expiryNotices' = With("FAILED", expiryNotices[c].accepted)
    <3>1. [expiryNotices[c] EXCEPT !.status = "FAILED"]
            = [expiryNotices[c] EXCEPT !.status = "FAILED", !.accepted = expiryNotices[c].accepted]
      BY <1>3 DEF Notice
    <3>2. QED
      BY <1>7, <1>3, <3>1 DEF NoticeUnstored
  <2>2. Pass(s) /\ incidentals' \in 0..MaxIncidentals /\ UNCHANGED <<hidden, renewed, listed, date>>
    BY <1>7, <1>1 DEF NoticeUnstored, Incidental
  <2>3. QED
    BY <2>1, <2>2, <1>2, <1>3, PassedKeepsNotices
<1>8. QED
  BY <1>4, <1>5, <1>6, <1>7

LEMMA NoticeFailuresKeep ==
  ASSUME NoticesInv, (\E s \in Senders : SendFails(s)) \/ NoticesRestart
  PROVE NoticesInv'
<1>1. /\ NoticesTypeOK /\ incidentals \in Nat /\ MaxIncidentals \in Nat /\ incidentals \in 0..MaxIncidentals
      /\ expiryNotices \in Seq(Notice) /\ \A i \in DOMAIN expiryNotices : expiryNotices[i] \in Notice
      /\ Len(expiryNotices) \in Nat /\ DOMAIN expiryNotices = 1..Len(expiryNotices)
  BY NoticeParameters, NoticeShapes DEF NoticesInv, NoticesTypeOK
<1>2. ASSUME NEW s \in Senders, SendFails(s)
      PROVE  NoticesInv'
  <2>1. UNCHANGED <<expiryNotices, hidden, renewed, listed, date>> /\ incidentals' \in 0..MaxIncidentals
    BY <1>1, <1>2 DEF SendFails, Incidental
  <2>2. sending' \in [Senders -> SendingType] /\ \A u \in Senders : sending'[u] \in {sending[u], NoSend}
    BY <1>1, <1>2, NoSendType, NoticeShapes DEF SendFails
  <2>3. SendsShrink
    BY <2>2 DEF SendsShrink
  <2>4. NoticesSettle
    BY <2>1, <1>1 DEF NoticesSettle
  <2>5. \A u \in Senders : \A k \in DOMAIN (sending'[u]).rows : expiryNotices'[(sending'[u]).rows[k]].status = "SENDING"
    BY <2>1, <2>2, NoSendType DEF NoticesInv, RowsGoOut
  <2>6. QED
    BY <2>1, <2>3, <2>4, <2>5, SettlingKeepsNotices
<1>3. CASE NoticesRestart
  <2>1. UNCHANGED <<hidden, renewed, listed, date>> /\ incidentals' \in 0..MaxIncidentals
    BY <1>1, <1>3 DEF NoticesRestart, Incidental
  <2>2. SendsShrink /\ \A s \in Senders : sending'[s] = NoSend
    BY <1>3, NoSendType DEF NoticesRestart, SendsShrink
  <2>3. expiryNotices' \in [1..Len(expiryNotices) -> Notice]
    <3>1. expiryNotices' = [i \in 1..Len(expiryNotices) |->
            [expiryNotices[i] EXCEPT !.status = IF @ = "SENDING" THEN "FAILED" ELSE @]]
      BY <1>1, <1>3 DEF NoticesRestart
    <3>2. \A i \in 1..Len(expiryNotices) :
            [expiryNotices[i] EXCEPT !.status = IF @ = "SENDING" THEN "FAILED" ELSE @] \in Notice
      BY <1>1 DEF Notice
    <3>3. QED
      BY <3>1, <3>2
  <2>4. expiryNotices' \in Seq(Notice) /\ Len(expiryNotices') = Len(expiryNotices)
    BY <1>1, <2>3
  <2>5. NoticesSettle
    <3>1. ASSUME NEW i \in DOMAIN expiryNotices
          PROVE  expiryNotices'[i] = [expiryNotices[i] EXCEPT !.status = IF @ = "SENDING" THEN "FAILED" ELSE @]
      BY <1>3 DEF NoticesRestart
    <3>2. ASSUME NEW i \in DOMAIN expiryNotices, expiryNotices[i].status # "SENDING"
          PROVE  expiryNotices'[i] = expiryNotices[i]
      BY <1>1, <3>1, <3>2 DEF Notice
    <3>3. ASSUME NEW i \in DOMAIN expiryNotices
          PROVE  /\ expiryNotices[i].status = "SENDING" => expiryNotices'[i].status # "MARKED"
                 /\ expiryNotices'[i].policy = expiryNotices[i].policy /\ expiryNotices'[i].date = expiryNotices[i].date
                 /\ expiryNotices'[i].read = expiryNotices[i].read /\ expiryNotices'[i].asOf = expiryNotices[i].asOf
      BY <1>1, <3>1 DEF Notice
    <3>4. QED
      BY <2>4, <3>2, <3>3 DEF NoticesSettle
  <2>6. QED
    BY <2>1, <2>2, <2>5, NoSendType, SettlingKeepsNotices
<1>4. QED
  BY <1>2, <1>3

\* A send that reads: what it claims, nothing it read forbids.
LEMMA SendNoticesKeep ==
  ASSUME NoticesInv, NEW s \in Senders, NEW ticked \in SUBSET Expired, SendNotices(s, ticked)
  PROVE NoticesInv'
<1> USE DEF NoticesInv
<1> DEFINE claims == {p \in ticked \ hidden : ~OnItsWay(p) /\ ~Told(p)}
           q == [NoSend EXCEPT !.claims = claims, !.read = Len(expiryNotices), !.asOf = date, !.renewed = renewed]
<1>1. sending' = [sending EXCEPT ![s] = q] /\ UNCHANGED <<expiryNotices, hidden, renewed, listed, date, incidentals>>
  BY DEF SendNotices
<1>2. q.claims = claims /\ q.rows = <<>> /\ q.read = Len(expiryNotices) /\ q.asOf = date
  BY DEF NoSend
<1>3. /\ Len(expiryNotices) \in 0..MaxNotices /\ date \in 0..LastDate /\ date \in Nat /\ renewed \in SUBSET Expired
      /\ RenotifyAfter \in Nat /\ sending \in [Senders -> SendingType]
      /\ \A i \in DOMAIN expiryNotices : expiryNotices[i] \in Notice
  BY NoticeShapes, NoticeParameters DEF NoticesTypeOK
<1>4. q \in SendingType
  <2>1. claims \in SUBSET Expired
    OBVIOUS
  <2> HIDE DEF claims
  <2>2. QED
    BY <2>1, <1>3, NoSendType DEF SendingType, NoSend
<1>5. ASSUME NEW p \in claims, NEW i \in DOMAIN expiryNotices
      PROVE  LetsSend(expiryNotices, i, p, Len(expiryNotices), date)
  <2>1. expiryNotices[i] \in Notice /\ ~OnItsWay(p) /\ ~Told(p)
    BY <1>3
  <2>2. QED
    BY <2>1, <1>3 DEF LetsSend, OnItsWay, Told, NoticesOf, Notice
<1> HIDE DEF q, claims
<1>6. /\ sending' \in [Senders -> SendingType] /\ sending'[s] = q /\ DOMAIN q.rows = {}
      /\ \A u \in Senders \ {s} : sending'[u] = sending[u]
  <2>1. DOMAIN <<>> = {}
    BY EmptySeq, LenProperties
  <2>2. QED
    BY <2>1, <1>1, <1>2, <1>3, <1>4
<1>7. NoticesTypeOK'
  BY <1>1, <1>6 DEF NoticesTypeOK, SendingType
<1>8. SendsRead' /\ RowsGoOut' /\ RowsWaitOnce'
  BY <1>1, <1>2, <1>3, <1>6 DEF SendsRead, RowsGoOut, RowsWaitOnce
<1>9. ClaimsAreFree'
  BY <1>1, <1>2, <1>5, <1>6 DEF ClaimsAreFree
<1>10. NoticesWereFree' /\ MarksAreNotAccepted'
  BY <1>1 DEF NoticesWereFree, MarksAreNotAccepted
<1>11. QED
  BY <1>7, <1>8, <1>9, <1>10

\* A notice is added, which a send may have to deliver.
LEMMA NoticeAddedKeeps ==
  ASSUME NoticesInv, NEW row \in Notice, NEW o,
         Len(expiryNotices) < MaxNotices, expiryNotices' = Append(expiryNotices, row),
         sending' \in [Senders -> SendingType], UNCHANGED <<hidden, renewed, listed, date, incidentals>>,
         \A s \in Senders \ {o} : sending'[s] = sending[s],
         o \in Senders =>
           /\ (sending'[o]).claims \subseteq sending[o].claims
           /\ (sending'[o]).read = sending[o].read /\ (sending'[o]).asOf = sending[o].asOf
           /\ \/ (sending'[o]).rows = sending[o].rows
              \/ row.status = "SENDING" /\ (sending'[o]).rows = Append(sending[o].rows, Len(expiryNotices) + 1),
         ~row.accepted,
         row.status # "MARKED" =>
           /\ row.read <= Len(expiryNotices)
           /\ \A i \in DOMAIN expiryNotices : LetsSend(expiryNotices, i, row.policy, row.read, row.asOf)
  PROVE NoticesInv'
<1> USE DEF NoticesInv
<1> DEFINE new == Len(expiryNotices) + 1
<1>1. /\ expiryNotices \in Seq(Notice) /\ Len(expiryNotices) \in Nat /\ DOMAIN expiryNotices = 1..Len(expiryNotices)
      /\ MaxNotices \in Nat /\ \A i \in DOMAIN expiryNotices : expiryNotices[i] \in Notice
  BY NoticeShapes, NoticeParameters
<1>2. /\ expiryNotices' \in Seq(Notice) /\ Len(expiryNotices') = new /\ expiryNotices'[new] = row
      /\ \A i \in DOMAIN expiryNotices : expiryNotices'[i] = expiryNotices[i]
  BY <1>1, AppendProperties
<1>3. DOMAIN expiryNotices' = DOMAIN expiryNotices \cup {new} /\ new \notin DOMAIN expiryNotices
  BY <1>1, <1>2, LenProperties
<1>4. \A s \in Senders :
        /\ (sending'[s]).claims \subseteq sending[s].claims
        /\ (sending'[s]).read = sending[s].read /\ (sending'[s]).asOf = sending[s].asOf
  OBVIOUS
<1>5. \A s \in Senders : sending[s].read \in Nat /\ sending[s].read <= Len(expiryNotices)
  BY NoticeShapes DEF SendsRead
<1>6. NoticesTypeOK'
  <2>1. Len(expiryNotices') <= MaxNotices
    BY <1>1, <1>2
  <2>2. QED
    BY <2>1, <1>2 DEF NoticesTypeOK, SendingType
<1>7. SendsRead'
  <2> SUFFICES ASSUME NEW s \in Senders PROVE (sending'[s]).read <= Len(expiryNotices')
    BY DEF SendsRead
  <2>1. QED
    BY <1>1, <1>2, <1>4, <1>5
<1>8. \A s \in Senders : \A k \in DOMAIN sending[s].rows : sending[s].rows[k] \in DOMAIN expiryNotices
  BY DEF RowsGoOut
\* The rows of a send: its old ones, then perhaps the new one.
<1>9. ASSUME NEW s \in Senders, NEW k \in DOMAIN (sending'[s]).rows
      PROVE  \/ k \in DOMAIN sending[s].rows /\ (sending'[s]).rows[k] = sending[s].rows[k]
             \/ s = o /\ row.status = "SENDING" /\ k = Len(sending[o].rows) + 1 /\ (sending'[s]).rows[k] = new
  <2>1. CASE (sending'[s]).rows = sending[s].rows
    BY <2>1
  <2>2. CASE s = o /\ row.status = "SENDING" /\ (sending'[o]).rows = Append(sending[o].rows, new)
    <3>1. /\ sending[o].rows \in Seq(1..MaxNotices) /\ Len(sending[o].rows) \in Nat
          /\ DOMAIN sending[o].rows = 1..Len(sending[o].rows)
      BY <2>2, NoticeShapes
    <3>2. new \in 1..MaxNotices
      BY <1>1
    <3> HIDE DEF new
    <3>3. /\ Append(sending[o].rows, new) \in Seq(1..MaxNotices)
          /\ Len(Append(sending[o].rows, new)) = Len(sending[o].rows) + 1
          /\ \A n \in 1..Len(sending[o].rows) : Append(sending[o].rows, new)[n] = sending[o].rows[n]
          /\ Append(sending[o].rows, new)[Len(sending[o].rows) + 1] = new
      BY <3>1, <3>2, AppendProperties
    <3>4. k \in 1..(Len(sending[o].rows) + 1)
      BY <2>2, <3>3, LenProperties
    <3>5. QED
      BY <2>2, <3>1, <3>3, <3>4
  <2>3. QED
    BY <2>1, <2>2
<1>10. RowsGoOut'
  <2> SUFFICES ASSUME NEW s \in Senders, NEW k \in DOMAIN (sending'[s]).rows
               PROVE  /\ (sending'[s]).rows[k] \in DOMAIN expiryNotices'
                      /\ expiryNotices'[(sending'[s]).rows[k]].status = "SENDING"
    BY DEF RowsGoOut
  <2>1. CASE k \in DOMAIN sending[s].rows /\ (sending'[s]).rows[k] = sending[s].rows[k]
    BY <2>1, <1>2, <1>3 DEF RowsGoOut
  <2>2. CASE row.status = "SENDING" /\ (sending'[s]).rows[k] = new
    BY <2>2, <1>2, <1>3
  <2>3. QED
    BY <2>1, <2>2, <1>9
<1>11. RowsWaitOnce'
  <2> SUFFICES ASSUME NEW s \in Senders, NEW u \in Senders,
                      NEW k \in DOMAIN (sending'[s]).rows, NEW l \in DOMAIN (sending'[u]).rows,
                      (sending'[s]).rows[k] = (sending'[u]).rows[l]
               PROVE  s = u /\ k = l
    BY DEF RowsWaitOnce
  <2>1. \/ k \in DOMAIN sending[s].rows /\ (sending'[s]).rows[k] = sending[s].rows[k]
        \/ s = o /\ k = Len(sending[o].rows) + 1 /\ (sending'[s]).rows[k] = new
    BY <1>9
  <2>2. \/ l \in DOMAIN sending[u].rows /\ (sending'[u]).rows[l] = sending[u].rows[l]
        \/ u = o /\ l = Len(sending[o].rows) + 1 /\ (sending'[u]).rows[l] = new
    BY <1>9
  <2>3. QED
    BY <2>1, <2>2, <1>3, <1>8 DEF RowsWaitOnce
<1>12. ASSUME NEW p, NEW n \in Nat, n <= Len(expiryNotices), NEW d,
              \A i \in DOMAIN expiryNotices : LetsSend(expiryNotices, i, p, n, d)
       PROVE  \A i \in DOMAIN expiryNotices' : LetsSend(expiryNotices', i, p, n, d)
  <2>1. \A i \in DOMAIN expiryNotices : LetsSend(expiryNotices', i, p, n, d)
    BY <1>2, <1>12 DEF LetsSend
  <2>2. LetsSend(expiryNotices', new, p, n, d)
    BY <1>1, <1>12 DEF LetsSend
  <2>3. QED
    BY <2>1, <2>2, <1>3
<1>13. ClaimsAreFree'
  <2> SUFFICES ASSUME NEW s \in Senders, NEW p \in (sending'[s]).claims
               PROVE  \A i \in DOMAIN expiryNotices' :
                        LetsSend(expiryNotices', i, p, (sending'[s]).read, (sending'[s]).asOf)
    BY DEF ClaimsAreFree
  <2>1. \A i \in DOMAIN expiryNotices : LetsSend(expiryNotices, i, p, sending[s].read, sending[s].asOf)
    BY <1>4 DEF ClaimsAreFree
  <2>2. QED
    BY <2>1, <1>4, <1>5, <1>12
<1>14. NoticesWereFree'
  <2> SUFFICES ASSUME NEW j \in DOMAIN expiryNotices', (expiryNotices'[j]).status # "MARKED"
               PROVE  /\ (expiryNotices'[j]).read < j
                      /\ \A i \in DOMAIN expiryNotices' :
                           LetsSend(expiryNotices', i, (expiryNotices'[j]).policy, (expiryNotices'[j]).read, (expiryNotices'[j]).asOf)
    BY DEF NoticesWereFree
  <2>1. CASE j \in DOMAIN expiryNotices
    <3>1. expiryNotices'[j] = expiryNotices[j] /\ expiryNotices[j] \in Notice
      BY <2>1, <1>1, <1>2
    <3>2. expiryNotices[j].read \in Nat
      BY <3>1, NoticeParameters DEF Notice
    <3>3. expiryNotices[j].read < j
      BY <2>1, <3>1 DEF NoticesWereFree
    <3>4. \A i \in DOMAIN expiryNotices :
            LetsSend(expiryNotices, i, expiryNotices[j].policy, expiryNotices[j].read, expiryNotices[j].asOf)
      BY <2>1, <3>1 DEF NoticesWereFree
    <3>5. expiryNotices[j].read <= Len(expiryNotices)
      BY <2>1, <3>2, <3>3, <1>1
    <3>6. QED
      BY <3>1, <3>2, <3>3, <3>4, <3>5, <1>12
  <2>2. CASE j = new
    <3>1. expiryNotices'[j] = row /\ row.read \in Nat /\ row.read <= Len(expiryNotices)
      BY <2>2, <1>2, NoticeParameters DEF Notice
    <3>2. QED
      BY <2>2, <3>1, <1>1, <1>2, <1>12
  <2>3. QED
    BY <2>1, <2>2, <1>3
<1>15. MarksAreNotAccepted'
  BY <1>2, <1>3 DEF MarksAreNotAccepted
<1>16. QED
  BY <1>6, <1>7, <1>10, <1>11, <1>13, <1>14, <1>15

LEMMA ClaimNoticeKeeps ==
  ASSUME NoticesInv, NEW s \in Senders, NEW p \in Expired, ClaimNotice(s, p)
  PROVE NoticesInv'
<1> DEFINE old == sending[s]
           row == NoticeRow(p, "SENDING", old)
           rows == Append(old.rows, Len(expiryNotices) + 1)
           q == [old EXCEPT !.claims = @ \ {p}, !.rows = rows]
<1>1. /\ sending \in [Senders -> SendingType] /\ old \in SendingType /\ old.rows \in Seq(1..MaxNotices)
      /\ Len(expiryNotices) \in Nat /\ p \in old.claims /\ Len(expiryNotices) < MaxNotices /\ MaxNotices \in Nat
  BY NoticeShapes, NoticeParameters DEF NoticesInv, ClaimNotice
<1>2. /\ expiryNotices' = Append(expiryNotices, row) /\ UNCHANGED <<hidden, renewed, listed, date, incidentals>>
      /\ sending' = [sending EXCEPT ![s] = q]
  BY DEF ClaimNotice
<1>3. rows \in Seq(1..MaxNotices)
  <2>1. Len(expiryNotices) + 1 \in 1..MaxNotices
    BY <1>1
  <2>2. QED
    BY <2>1, <1>1, AppendProperties
<1>4. /\ q \in SendingType /\ q.claims \subseteq old.claims /\ q.rows = rows
      /\ q.read = old.read /\ q.asOf = old.asOf
  <2> HIDE DEF rows
  <2>1. QED
    BY <1>1, <1>3 DEF SendingType
<1>5. /\ row \in Notice /\ row.policy = p /\ row.status = "SENDING" /\ row.accepted = FALSE
      /\ row.read = old.read /\ row.asOf = old.asOf
  <2>1. date \in 0..LastDate /\ (p \in old.renewed) \in BOOLEAN
    BY DEF NoticesInv, NoticesTypeOK
  <2> HIDE DEF old
  <2>2. QED
    BY <1>1, <2>1 DEF NoticeRow, Notice, SendingType
<1>6. row.read <= Len(expiryNotices)
  BY <1>5 DEF NoticesInv, SendsRead
<1>7. \A i \in DOMAIN expiryNotices : LetsSend(expiryNotices, i, p, old.read, old.asOf)
  BY <1>1 DEF NoticesInv, ClaimsAreFree
<1> HIDE DEF q, row
<1>8. sending' \in [Senders -> SendingType] /\ sending'[s] = q /\ \A u \in Senders \ {s} : sending'[u] = sending[u]
  BY <1>1, <1>2, <1>4
<1>9. /\ (sending'[s]).claims \subseteq sending[s].claims
      /\ (sending'[s]).read = sending[s].read /\ (sending'[s]).asOf = sending[s].asOf
      /\ row.status = "SENDING" /\ (sending'[s]).rows = Append(sending[s].rows, Len(expiryNotices) + 1)
  BY <1>4, <1>5, <1>8
<1>10. /\ ~row.accepted /\ row.read <= Len(expiryNotices)
       /\ \A i \in DOMAIN expiryNotices : LetsSend(expiryNotices, i, row.policy, row.read, row.asOf)
  BY <1>5, <1>6, <1>7
<1>11. expiryNotices' = Append(expiryNotices, row) /\ Len(expiryNotices) < MaxNotices /\ row \in Notice
  BY <1>1, <1>2, <1>5
<1>12. UNCHANGED <<hidden, renewed, listed, date, incidentals>>
  BY <1>2
<1> HIDE DEF old, rows
<1>13. QED
  BY <1>8, <1>9, <1>10, <1>11, <1>12, NoticeAddedKeeps

LEMMA MarkToldKeeps ==
  ASSUME NoticesInv, NEW p \in Expired, MarkTold(p)
  PROVE NoticesInv'
<1> DEFINE send == [NoSend EXCEPT !.read = Len(expiryNotices), !.asOf = date, !.renewed = renewed]
           row == NoticeRow(p, "MARKED", send)
<1>1. /\ expiryNotices' = Append(expiryNotices, row) /\ Len(expiryNotices) < MaxNotices
      /\ UNCHANGED <<hidden, renewed, listed, sending, date, incidentals>>
  BY DEF MarkTold
<1>2. /\ Len(expiryNotices) \in 0..MaxNotices /\ date \in 0..LastDate /\ renewed \in SUBSET Expired
      /\ sending \in [Senders -> SendingType]
  BY NoticeShapes DEF NoticesInv, NoticesTypeOK
<1>3. send \in SendingType
  BY <1>2, NoSendType DEF SendingType, NoSend
<1> HIDE DEF send
<1>4. row \in Notice /\ row.status = "MARKED" /\ row.accepted = FALSE
  <2>1. date \in 0..LastDate /\ (p \in send.renewed) \in BOOLEAN
    BY <1>2
  <2>2. QED
    BY <1>3, <2>1 DEF NoticeRow, Notice, SendingType
<1> HIDE DEF row
<1>5. /\ sending' \in [Senders -> SendingType] /\ \A s \in Senders \ {p} : sending'[s] = sending[s]
      /\ p \in Senders =>
           /\ (sending'[p]).claims \subseteq sending[p].claims
           /\ (sending'[p]).read = sending[p].read /\ (sending'[p]).asOf = sending[p].asOf
           /\ (sending'[p]).rows = sending[p].rows
  BY <1>1, <1>2
<1>6. QED
  BY <1>1, <1>4, <1>5, NoticeAddedKeeps

\* The worklist and the days: no notice changes.
LEMMA WorklistKeeps ==
  ASSUME NoticesInv,
         \/ List \/ DatePasses \/ UNCHANGED noticeVars
         \/ \E p \in Expired : Hide(p) \/ Unhide(p) \/ Renew(p)
  PROVE NoticesInv'
<1> USE DEF NoticesInv
<1>1. UNCHANGED <<expiryNotices, sending>>
  BY DEF List, DatePasses, Hide, Unhide, Renew, noticeVars
<1>2. date \in 0..LastDate /\ LastDate \in Nat /\ MaxIncidentals \in Nat /\ incidentals \in 0..MaxIncidentals
  BY NoticeParameters DEF NoticesTypeOK
<1>3. /\ date' \in 0..LastDate /\ incidentals' \in 0..MaxIncidentals
      /\ hidden' \subseteq Expired /\ renewed' \subseteq Expired /\ listed' \subseteq Expired
  BY <1>2 DEF List, DatePasses, Hide, Unhide, Renew, Incidental, noticeVars, NoticesTypeOK
<1>4. NoticesTypeOK'
  BY <1>1, <1>3 DEF NoticesTypeOK
<1>5. SendsRead' /\ RowsGoOut' /\ RowsWaitOnce' /\ ClaimsAreFree' /\ NoticesWereFree' /\ MarksAreNotAccepted'
  BY <1>1 DEF SendsRead, RowsGoOut, RowsWaitOnce, ClaimsAreFree, NoticesWereFree, MarksAreNotAccepted
<1>6. QED
  BY <1>4, <1>5

LEMMA NoticesInitInv == NoticesInit => NoticesInv
<1> SUFFICES ASSUME NoticesInit PROVE NoticesInv
  OBVIOUS
<1>1. expiryNotices = <<>> /\ expiryNotices \in Seq(Notice) /\ Len(expiryNotices) = 0 /\ DOMAIN expiryNotices = {}
  BY EmptySeq, LenProperties DEF NoticesInit
<1>2. sending \in [Senders -> SendingType] /\ \A s \in Senders : sending[s] = NoSend
  BY NoSendType DEF NoticesInit
<1>3. NoticesTypeOK
  BY <1>1, <1>2, NoticeParameters DEF NoticesInit, NoticesTypeOK, SendingType
<1>4. SendsRead /\ RowsGoOut /\ RowsWaitOnce /\ ClaimsAreFree
  BY <1>1, <1>2, NoSendType DEF SendsRead, RowsGoOut, RowsWaitOnce, ClaimsAreFree
<1>5. NoticesWereFree /\ MarksAreNotAccepted
  BY <1>1 DEF NoticesWereFree, MarksAreNotAccepted
<1>6. QED
  BY <1>3, <1>4, <1>5 DEF NoticesInv

LEMMA NoticesNextInv == NoticesInv /\ [NoticesNext]_noticeVars => NoticesInv'
<1> SUFFICES ASSUME NoticesInv, [NoticesNext]_noticeVars PROVE NoticesInv'
  OBVIOUS
<1>1. CASE List \/ DatePasses \/ UNCHANGED noticeVars
  BY <1>1, WorklistKeeps
<1>2. CASE NoticesRestart
  BY <1>2, NoticeFailuresKeep
<1>3. ASSUME NEW p \in Expired, Hide(p) \/ Unhide(p) \/ Renew(p) PROVE NoticesInv'
  BY <1>3, WorklistKeeps
<1>4. ASSUME NEW p \in Expired, MarkTold(p) PROVE NoticesInv'
  BY <1>4, MarkToldKeeps
<1>5. ASSUME NEW s \in Senders, NEW ticked \in SUBSET Expired, SendNotices(s, ticked) PROVE NoticesInv'
  BY <1>5, SendNoticesKeep
<1>6. ASSUME NEW s \in Senders, NEW p \in Expired, ClaimNotice(s, p) PROVE NoticesInv'
  BY <1>6, ClaimNoticeKeeps
<1>7. ASSUME NEW s \in Senders, NoticeAccepted(s) \/ NoticeRefused(s) \/ NoticeSent(s) \/ NoticeUnstored(s)
      PROVE  NoticesInv'
  BY <1>7, NoticeDeliveriesKeep
<1>8. ASSUME NEW s \in Senders, SendFails(s) PROVE NoticesInv'
  BY <1>8, NoticeFailuresKeep
<1>9. QED
  BY <1>1, <1>2, <1>3, <1>4, <1>5, <1>6, <1>7, <1>8 DEF NoticesNext

LEMMA FreeNoticesAreToldOnce == NoticesInv => ToldOncePerMonth
<1> SUFFICES ASSUME NoticesInv, NEW i \in DOMAIN expiryNotices, NEW j \in DOMAIN expiryNotices,
                    expiryNotices[i].policy = expiryNotices[j].policy, expiryNotices[j].accepted,
                    expiryNotices[j].asOf <= expiryNotices[i].date + RenotifyAfter
             PROVE  expiryNotices[j].read < i \/ expiryNotices[i].status = "FAILED"
  BY DEF ToldOncePerMonth
<1>1. /\ expiryNotices[i] \in Notice /\ expiryNotices[j] \in Notice /\ i \in Nat
      /\ RenotifyAfter \in Nat /\ LastDate \in Nat /\ MaxNotices \in Nat
  BY NoticeShapes, NoticeParameters DEF NoticesInv
<1>5. /\ expiryNotices[i].date \in Nat /\ expiryNotices[j].asOf \in Nat /\ expiryNotices[j].read \in Nat
  BY <1>1 DEF Notice
<1>2. expiryNotices[j].status # "MARKED"
  BY DEF NoticesInv, MarksAreNotAccepted
<1>3. LetsSend(expiryNotices, i, expiryNotices[j].policy, expiryNotices[j].read, expiryNotices[j].asOf)
  BY <1>2 DEF NoticesInv, NoticesWereFree
<1>4. QED
  BY <1>1, <1>5, <1>3 DEF LetsSend

-----------------------------------------------------------------------------
(* The text of a campaign and Meta's reviews *)

WriterType == [op : Ops, step : {"asking", "merging"}, version : 0..LastVersion, text : Texts,
               todo : SUBSET AccountIds, missing : SUBSET AccountIds, got : [AccountIds -> Template]]
CampaignType == [version : 0..LastVersion, text : Texts, templates : [AccountIds -> Template]]
MetaType == [AccountIds \X Versions -> [text : Texts, review : Reviews \cup {"none"}]]

\* A template never sent has no version.
NeverSent(templates) == \A a \in AccountIds : templates[a].version = 0 => templates[a].status = "NOT_SUBMITTED"

\* What a writer asks Meta about has a version.
WriterShape(r) ==
  /\ NeverSent(r.got)
  /\ r.op \in {"idle", "switch"} => r.todo = {}
  /\ r.op \in Submits \cup {"open"} => r.version > 0
  /\ r.op \in {"refresh", "open"} => \A a \in r.todo : r.got[a].version > 0
  /\ r.step = "merging" => r.op \in {"sync", "topUp"}

OfVersion(templates, v) == \A a \in AccountIds : templates[a].version \in {0, v}

\* A save goes one version on; the others read this text or an older one.
Reads(r, c) ==
  /\ r.op = "save" => r.version = c.version + 1 /\ OfVersion(r.got, r.version)
  /\ r.op \notin {"idle", "save"} => r.version <= c.version
  /\ r.op \notin {"idle", "save"} /\ r.version = c.version => r.text = c.text /\ OfVersion(r.got, r.version)

OneSaver == \A v, w \in Writers : writer[v].op = "save" /\ writer[w].op = "save" => v = w

\* Meta has under a version only the text it was given.
MetaHasTheText ==
  \A a \in AccountIds, v \in Versions : meta[<<a, v>>].review # "none" /\ v \notin cutAfter =>
    \/ v < campaign.version
    \/ v = campaign.version /\ meta[<<a, v>>].text = campaign.text
    \/ \E w \in Writers : writer[w].op = "save" /\ writer[w].version = v /\ meta[<<a, v>>].text = writer[w].text

Uncrossed ==
  /\ OneSaver /\ MetaHasTheText /\ OfVersion(campaign.templates, campaign.version)
  /\ \A w \in Writers : Reads(writer[w], campaign)

TextsInv ==
  /\ TextsTypeOK /\ NeverSent(campaign.templates)
  /\ \A w \in Writers : WriterShape(writer[w])
  /\ ~crossed => Uncrossed

LEMMA TextTypes ==
  TextsTypeOK <=> /\ campaign \in CampaignType /\ writer \in [Writers -> WriterType] /\ meta \in MetaType
                  /\ connected \subseteq AccountIds /\ passDue \in BOOLEAN /\ crossed \in BOOLEAN
                  /\ cutAfter \subseteq Versions /\ rare \in 0..MaxRare
BY DEF TextsTypeOK, CampaignType, WriterType, MetaType

LEMMA IdleWriterFits ==
  /\ IdleWriter \in WriterType /\ WriterShape(IdleWriter) /\ IdleWriter.op = "idle"
  /\ NoTemplates \in [AccountIds -> Template] /\ NeverSent(NoTemplates) /\ \A v : OfVersion(NoTemplates, v)
<1>1. NoTemplate \in Template /\ NoTemplate.version = 0 /\ NoTemplate.status = "NOT_SUBMITTED" /\ 0 \in 0..LastVersion
  BY TextParameters DEF NoTemplate, Template
<1>2. NoTemplates \in [AccountIds -> Template] /\ NeverSent(NoTemplates) /\ \A v : OfVersion(NoTemplates, v)
  BY <1>1 DEF NoTemplates, NeverSent, OfVersion
<1>3. IdleWriter \in WriterType /\ IdleWriter.op = "idle" /\ IdleWriter.todo = {}
      /\ IdleWriter.step = "asking" /\ IdleWriter.got = NoTemplates
  BY <1>1, <1>2, TextParameters DEF IdleWriter, WriterType, Ops
<1>4. QED
  BY <1>2, <1>3 DEF WriterShape, Submits

\* Of some numbers, one is the first.
LEMMA FirstOne ==
  ASSUME NEW S \in SUBSET Nat, S # {}
  PROVE  \E a \in S : \A b \in S : a <= b
<1> DEFINE R == OpToRel(<, Nat)
<1>1. IsWellFoundedOn(R, Nat)
  BY NatLessThanWellFounded, Zenon
<1> HIDE DEF R
<1>2. PICK a \in S : \A b \in S : ~(<<b, a>> \in R)
  BY <1>1, WFMin
<1>3. ASSUME NEW b \in S PROVE a <= b
  <2>1. a \in Nat /\ b \in Nat /\ ~(<<b, a>> \in R)
    BY <1>2
  <2>2. ~(b < a)
    BY <2>1 DEF R, OpToRel
  <2>3. QED
    BY <2>1, <2>2
<1>4. QED
  BY <1>2, <1>3

LEMMA AskedIsToDo ==
  ASSUME TextsTypeOK, NEW w \in Writers, writer[w].todo # {}
  PROVE  Asked(w) \in writer[w].todo
<1>1. writer[w].todo \subseteq Nat
  BY TextTypes DEF WriterType, AccountIds
<1>2. \E a \in writer[w].todo : \A b \in writer[w].todo : a <= b
  BY <1>1, FirstOne
<1>3. QED
  BY <1>2 DEF Asked

\* The writer's row changes and the campaign does not.
LEMMA WriterStep ==
  ASSUME TextsInv, NEW w \in Writers, NEW r \in WriterType, writer' = [writer EXCEPT ![w] = r],
         UNCHANGED campaign, WriterShape(r), TextsTypeOK',
         crossed => crossed',
         ~crossed' => Reads(r, campaign) /\ MetaHasTheText',
         ~crossed' /\ r.op = "save" => writer[w].op = "save" \/ ~Saving
  PROVE  TextsInv'
<1>1. writer \in [Writers -> WriterType] /\ crossed \in BOOLEAN /\ crossed' \in BOOLEAN
  BY TextTypes DEF TextsInv, TextsTypeOK
<1>2. \A u \in Writers : writer'[u] = IF u = w THEN r ELSE writer[u]
  BY <1>1
<1>3. NeverSent(campaign'.templates) /\ \A u \in Writers : WriterShape(writer'[u])
  BY <1>2 DEF TextsInv
<1>4. ASSUME ~crossed' PROVE Uncrossed'
  <2>1. Uncrossed /\ Reads(r, campaign) /\ MetaHasTheText'
    BY <1>4, <1>1 DEF TextsInv
  <2>2. OneSaver'
    BY <1>2, <1>4, <2>1 DEF OneSaver, Uncrossed, Saving
  <2>3. \A u \in Writers : Reads(writer'[u], campaign')
    BY <1>2, <2>1 DEF Uncrossed
  <2>4. QED
    BY <2>1, <2>2, <2>3 DEF Uncrossed
<1>5. QED
  BY <1>3, <1>4 DEF TextsInv

\* Meta keeps what it has, and a save in course stays or is counted as cut.
LEMMA MetaStays ==
  ASSUME TextsInv, ~crossed, UNCHANGED <<campaign, meta>>, cutAfter \subseteq cutAfter',
         \A u \in Writers : writer[u].op = "save" =>
           \/ writer'[u].op = "save" /\ writer'[u].version = writer[u].version /\ writer'[u].text = writer[u].text
           \/ writer[u].version \in cutAfter'
  PROVE  MetaHasTheText'
<1>1. MetaHasTheText
  BY DEF TextsInv, Uncrossed
<1>2. QED
  BY <1>1 DEF MetaHasTheText

LEMMA TextsTyped ==
  ASSUME TextsInv
  PROVE  /\ campaign \in CampaignType /\ writer \in [Writers -> WriterType] /\ meta \in MetaType
         /\ connected \subseteq AccountIds /\ passDue \in BOOLEAN /\ crossed \in BOOLEAN
         /\ cutAfter \subseteq Versions /\ rare \in 0..MaxRare
         /\ campaign.version \in Nat /\ campaign.text \in Texts /\ campaign.templates \in [AccountIds -> Template]
         /\ LastVersion \in Nat /\ MaxRare \in Nat /\ \A v \in 0..LastVersion : v \in Nat
         /\ \A w \in Writers : writer[w].version \in Nat /\ writer[w].text \in Texts
<1>1. TextsTypeOK
  BY DEF TextsInv
<1>2. QED
  BY <1>1, TextTypes, TextParameters DEF CampaignType, WriterType

LEMMA SaveTextKeeps ==
  ASSUME TextsInv, NEW w \in Writers, NEW t \in Texts, SaveText(w, t) PROVE TextsInv'
<1> DEFINE r == [IdleWriter EXCEPT !.op = "save", !.version = campaign.version + 1, !.text = t, !.todo = connected]
<1>1. r \in WriterType /\ r.op = "save" /\ r.version = campaign.version + 1 /\ r.got = NoTemplates /\ r.step = "asking"
  <2>1. campaign.version + 1 \in 0..LastVersion /\ campaign.version < LastVersion
    BY TextsTyped DEF SaveText
  <2>2. IdleWriter \in WriterType /\ IdleWriter.got = NoTemplates /\ IdleWriter.step = "asking"
    BY IdleWriterFits DEF IdleWriter
  <2>3. connected \in SUBSET AccountIds /\ "save" \in Ops
    BY TextsTyped DEF Ops
  <2>4. QED
    BY <2>1, <2>2, <2>3 DEF WriterType, IdleWriter
<1>2. writer' = [writer EXCEPT ![w] = r] /\ writer[w].op = "idle"
      /\ UNCHANGED <<campaign, connected, meta, passDue, cutAfter, rare>> /\ crossed' = (crossed \/ Saving)
  BY DEF SaveText
<1> HIDE DEF r
<1>3. TextsTypeOK'
  BY <1>1, <1>2, TextsTyped, TextTypes DEF TextsTypeOK, CampaignType, WriterType, MetaType
<1>4. WriterShape(r)
  BY <1>1, IdleWriterFits, TextsTyped DEF WriterShape, Submits
<1>5. Reads(r, campaign)
  BY <1>1, IdleWriterFits DEF Reads
<1>6. ~crossed => MetaHasTheText'
  BY <1>2, TextsTyped, MetaStays
<1>7. QED
  BY <1>1, <1>2, <1>3, <1>4, <1>5, <1>6, TextsTyped, WriterStep

\* Begin, whoever begins.
LEMMA BeginKeeps ==
  ASSUME TextsInv, NEW w \in Writers, writer[w].op = "idle",
         NEW op \in Ops \ {"idle", "save"}, NEW todo \in SUBSET AccountIds, NEW missing \in SUBSET AccountIds,
         NEW got, got \in {NoTemplates, campaign.templates},
         Begin(w, op, todo, missing, got), UNCHANGED <<campaign, connected, meta, crossed, cutAfter>>,
         passDue' \in BOOLEAN, rare' \in 0..MaxRare,
         op = "switch" => todo = {},
         op \in Submits \cup {"open"} => campaign.version > 0,
         op \in {"refresh", "open"} => got = campaign.templates /\ todo \subseteq Waiting
  PROVE  TextsInv'
<1> DEFINE r == [IdleWriter EXCEPT !.op = op, !.version = campaign.version, !.text = campaign.text,
                                   !.todo = todo, !.missing = missing, !.got = got]
<1>1. got \in [AccountIds -> Template] /\ NeverSent(got)
  BY IdleWriterFits, TextsTyped DEF TextsInv
<1>2. r \in WriterType /\ r.op = op /\ r.version = campaign.version /\ r.text = campaign.text /\ r.got = got
      /\ r.step = "asking" /\ r.todo = todo
  BY <1>1, IdleWriterFits, TextsTyped DEF WriterType, IdleWriter, CampaignType
<1>3. writer' = [writer EXCEPT ![w] = r]
  BY DEF Begin
<1> HIDE DEF r
<1>4. TextsTypeOK'
  BY <1>2, <1>3, TextsTyped, TextTypes DEF TextsTypeOK, CampaignType, WriterType, MetaType
<1>5. WriterShape(r)
  <2>1. \A a \in Waiting : campaign.templates[a].version # 0 /\ campaign.templates[a].version \in Nat
    BY TextsTyped DEF TextsInv, NeverSent, Waiting, Template
  <2>2. op \in {"refresh", "open"} => \A a \in r.todo : r.got[a].version > 0
    BY <1>2, <2>1
  <2>3. QED
    BY <1>1, <1>2, <2>2 DEF WriterShape
<1>6. ~crossed => Reads(r, campaign)
  BY <1>2, IdleWriterFits, TextsTyped DEF Reads, TextsInv, Uncrossed
<1>7. ~crossed => MetaHasTheText'
  BY <1>3, TextsTyped, MetaStays
<1>8. QED
  BY <1>2, <1>3, <1>4, <1>5, <1>6, <1>7, WriterStep

LEMMA BeginsKeep ==
  ASSUME TextsInv, NEW w \in Writers, Switch(w) \/ Open(w) \/ RefreshPending(w) \/ SyncNewAccounts(w)
  PROVE  TextsInv'
<1>1. /\ Waiting \cap connected \in SUBSET AccountIds /\ Missing \in SUBSET AccountIds
      /\ Missing \cap connected \in SUBSET AccountIds /\ {} \in SUBSET AccountIds
      /\ Waiting \cap connected \subseteq Waiting
  BY DEF Waiting, Missing
<1>2. {"switch", "open", "refresh", "sync"} \subseteq Ops \ {"idle", "save"}
  BY DEF Ops
<1>3. rare \in 0..MaxRare /\ (Rare => rare' \in 0..MaxRare) /\ passDue \in BOOLEAN /\ campaign.version \in Nat
  BY TextsTyped DEF Rare
<1>4. CASE Switch(w)
  BY <1>1, <1>2, <1>3, <1>4, BeginKeeps DEF Switch, Submits
<1>5. CASE Open(w)
  BY <1>1, <1>2, <1>3, <1>5, BeginKeeps DEF Open, Submits
<1>6. CASE RefreshPending(w)
  <2>1. UNCHANGED <<campaign, connected, meta, crossed, cutAfter, rare>> /\ passDue' = FALSE /\ writer[w].op = "idle"
    BY <1>6 DEF RefreshPending, textHistory
  <2>2. CASE Waiting # {}
    <3>1. Begin(w, "refresh", Waiting \cap connected, {}, campaign.templates)
      BY <1>6, <2>2 DEF RefreshPending
    <3>2. QED
      BY <1>1, <1>2, <1>3, <2>1, <3>1, BeginKeeps DEF Submits
  <2>3. CASE Waiting = {}
    <3>1. UNCHANGED writer
      BY <1>6, <2>3 DEF RefreshPending
    <3>2. TextsTypeOK'
      BY <2>1, <3>1, TextsTyped, TextTypes DEF TextsTypeOK, CampaignType, WriterType, MetaType
    <3>3. Uncrossed => Uncrossed'
      BY <2>1, <3>1 DEF Uncrossed, OneSaver, MetaHasTheText
    <3>4. QED
      BY <2>1, <3>1, <3>2, <3>3 DEF TextsInv
  <2>4. QED
    BY <2>2, <2>3
<1>7. CASE SyncNewAccounts(w)
  BY <1>1, <1>2, <1>3, <1>7, BeginKeeps DEF SyncNewAccounts, Submits, textHistory
<1>8. QED
  BY <1>4, <1>5, <1>6, <1>7

\* Meta's answer, whatever it says.
LEMMA AnswerKeeps ==
  ASSUME TextsInv, NEW w \in Writers, Asking(w), NEW v \in 1..LastVersion,
         NEW status \in Reviews \cup {"ERROR", "NOT_SUBMITTED"}, Answer(w, v, status),
         UNCHANGED <<campaign, connected, passDue, crossed, cutAfter>>, meta' \in MetaType, rare' \in 0..MaxRare,
         writer[w].op \in Submits => v = writer[w].version,
         writer[w].op \notin Submits => v = writer[w].got[Asked(w)].version,
         ~crossed => MetaHasTheText'
  PROVE  TextsInv'
<1> DEFINE a == Asked(w)
           answer == [version |-> v, status |-> status, age |-> 0]
           r == [writer[w] EXCEPT !.todo = @ \ {a}, !.got[a] = answer]
<1>1. a \in writer[w].todo /\ writer[w] \in WriterType /\ a \in AccountIds
  BY AskedIsToDo, TextsTyped DEF Asking, TextsInv, WriterType
<1>2. answer \in Template /\ answer.version = v /\ v # 0
  BY TextParameters DEF Template
<1>3. writer' = [writer EXCEPT ![w] = r]
  BY TextsTyped DEF Answer
<1>4. /\ r \in WriterType /\ r.op = writer[w].op /\ r.step = writer[w].step /\ r.version = writer[w].version
      /\ r.text = writer[w].text /\ r.todo = writer[w].todo \ {a}
      /\ r.got = [writer[w].got EXCEPT ![a] = answer]
  BY <1>1, <1>2 DEF WriterType
<1>5. \A b \in AccountIds : r.got[b] = IF b = a THEN answer ELSE writer[w].got[b]
  BY <1>1, <1>4 DEF WriterType
<1> HIDE DEF r, answer, a
<1>6. TextsTypeOK'
  BY <1>3, <1>4, TextsTyped, TextTypes DEF TextsTypeOK, CampaignType, WriterType, MetaType
<1>7. WriterShape(r)
  <2>1. WriterShape(writer[w])
    BY DEF TextsInv
  <2>2. NeverSent(r.got)
    BY <2>1, <1>2, <1>5 DEF NeverSent, WriterShape
  <2>3. \A b \in r.todo : b \in AccountIds /\ b \in writer[w].todo /\ r.got[b] = writer[w].got[b]
    BY <1>1, <1>4, <1>5 DEF WriterType
  <2>4. r.op \in {"idle", "switch"} => r.todo = {}
    BY <2>1, <1>4 DEF WriterShape
  <2>5. QED
    BY <2>1, <2>2, <2>3, <2>4, <1>4 DEF WriterShape
<1>8. ASSUME ~crossed PROVE Reads(r, campaign)
  <2>1. Reads(writer[w], campaign)
    BY <1>8 DEF TextsInv, Uncrossed
  <2>2. OfVersion(writer[w].got, writer[w].version) => OfVersion(r.got, r.version)
    <3>1. SUFFICES ASSUME OfVersion(writer[w].got, writer[w].version) PROVE answer.version \in {0, r.version}
      BY <1>4, <1>5 DEF OfVersion
    <3>2. QED
      BY <1>1, <1>2, <1>4, <3>1 DEF OfVersion, a
  <2>3. QED
    BY <2>1, <2>2, <1>4 DEF Reads
<1>9. QED
  BY <1>3, <1>4, <1>6, <1>7, <1>8, WriterStep

LEMMA SubmitsKeep ==
  ASSUME TextsInv, NEW w \in Writers, CreateTemplate(w) \/ AlreadyExists(w) PROVE TextsInv'
<1> DEFINE v == writer[w].version
           key == <<Asked(w), v>>
<1>1. /\ Asking(w) /\ writer[w].op \in Submits /\ UNCHANGED <<campaign, connected, passDue, crossed, cutAfter>>
  BY DEF CreateTemplate, AlreadyExists
<1>2. Asked(w) \in AccountIds /\ v \in 1..LastVersion
  <2>1. Asked(w) \in AccountIds /\ v \in 0..LastVersion
    BY <1>1, AskedIsToDo, TextsTyped DEF Asking, TextsInv, WriterType
  <2>2. v > 0
    BY <1>1 DEF TextsInv, WriterShape
  <2>3. QED
    BY <2>1, <2>2, TextsTyped
<1>3. key \in AccountIds \X Versions /\ meta[key] \in [text : Texts, review : Reviews \cup {"none"}]
  BY <1>2, TextsTyped DEF Versions, MetaType
<1> HIDE DEF v, key
<1>4. rare \in 0..MaxRare /\ (Rare => rare' \in 0..MaxRare)
  BY TextsTyped DEF Rare
<1>5. CASE CreateTemplate(w)
  <2> DEFINE taken == [meta EXCEPT ![key] = [text |-> writer[w].text, review |-> "PENDING"]]
  <2>1. meta' \in {taken, meta} /\ rare' \in 0..MaxRare /\ \E s \in {"PENDING", "ERROR"} : Answer(w, v, s)
    BY <1>4, <1>5 DEF CreateTemplate, v, key
  <2>2. taken \in MetaType
    BY <1>3, TextsTyped DEF MetaType, Reviews
  <2>3. \A k \in AccountIds \X Versions : taken[k] = IF k = key THEN [text |-> writer[w].text, review |-> "PENDING"] ELSE meta[k]
    BY TextsTyped DEF MetaType
  <2> HIDE DEF taken
  <2>4. ASSUME ~crossed PROVE MetaHasTheText'
    <3>1. Reads(writer[w], campaign) /\ MetaHasTheText /\ writer[w].op # "idle" /\ v \in Nat
      BY <1>1, <1>2, <2>4 DEF TextsInv, Uncrossed, Submits
    <3>2. \/ writer[w].op = "save"
          \/ v < campaign.version
          \/ v = campaign.version /\ writer[w].text = campaign.text
      BY <3>1, TextsTyped DEF Reads, v
    <3>3. \A u \in Writers : writer'[u].op = writer[u].op /\ writer'[u].version = writer[u].version /\ writer'[u].text = writer[u].text
      BY <2>1, TextsTyped DEF Answer, WriterType
    <3>4. SUFFICES ASSUME NEW a \in AccountIds, NEW n \in Versions, meta'[<<a, n>>].review # "none", n \notin cutAfter
                   PROVE  \/ n < campaign.version
                          \/ n = campaign.version /\ meta'[<<a, n>>].text = campaign.text
                          \/ \E u \in Writers : writer[u].op = "save" /\ writer[u].version = n /\ meta'[<<a, n>>].text = writer[u].text
      BY <1>1, <3>3 DEF MetaHasTheText
    <3>5. CASE meta'[<<a, n>>] = meta[<<a, n>>]
      BY <3>1, <3>4, <3>5 DEF MetaHasTheText
    <3>6. CASE <<a, n>> = key /\ meta' = taken
      <4>1. n = v /\ meta'[<<a, n>>].text = writer[w].text
        BY <3>6, <2>3 DEF key
      <4>2. QED
        BY <4>1, <3>2 DEF v
    <3>7. QED
      BY <2>1, <2>3, <3>5, <3>6
  <2>5. {"PENDING", "ERROR"} \subseteq Reviews \cup {"ERROR"} /\ meta' \in MetaType
    BY <2>1, <2>2, TextsTyped DEF Reviews
  <2>6. QED
    BY <1>1, <1>2, <2>1, <2>4, <2>5, AnswerKeeps DEF v
<1>6. CASE AlreadyExists(w)
  <2>1. meta' = meta /\ rare' \in 0..MaxRare /\ \E s \in Reviews \cup {"ERROR"} : Answer(w, v, s)
    BY <1>3, <1>4, <1>6 DEF AlreadyExists, v, key, Reviews
  <2>2. ASSUME ~crossed PROVE MetaHasTheText'
    <3>1. \A u \in Writers : writer'[u].op = writer[u].op /\ writer'[u].version = writer[u].version /\ writer'[u].text = writer[u].text
      BY <2>1, TextsTyped DEF Answer, WriterType
    <3>2. QED
      BY <1>1, <2>1, <2>2, <3>1, MetaStays
  <2>3. QED
    BY <1>1, <1>2, <2>1, <2>2, TextsTyped, AnswerKeeps DEF v
<1>7. QED
  BY <1>5, <1>6

LEMMA LookupKeeps ==
  ASSUME TextsInv, NEW w \in Writers, Lookup(w) PROVE TextsInv'
<1> DEFINE got == writer[w].got[Asked(w)]
<1>1. /\ Asking(w) /\ writer[w].op \notin Submits /\ UNCHANGED <<campaign, connected, meta, passDue, crossed, cutAfter>>
  BY DEF Lookup
<1>2. Asked(w) \in writer[w].todo /\ Asked(w) \in AccountIds /\ writer[w].op \in Ops /\ got \in Template
  BY <1>1, AskedIsToDo, TextsTyped DEF Asking, TextsInv, WriterType
<1>3. writer[w].op \in {"refresh", "open"}
  BY <1>1, <1>2 DEF TextsInv, WriterShape, Ops, Submits
<1>4. got.version \in 1..LastVersion
  <2>1. got.version > 0
    BY <1>2, <1>3 DEF TextsInv, WriterShape
  <2>2. QED
    BY <1>2, <2>1, TextsTyped DEF Template
<1>5. meta[<<Asked(w), got.version>>].review \in Reviews \cup {"none"} /\ got.status \in Reviews \cup {"ERROR", "NOT_SUBMITTED"}
  BY <1>2, <1>4, TextsTyped DEF Versions, MetaType, Template
<1>6. rare' \in 0..MaxRare /\ \E s \in Reviews \cup {"ERROR", "NOT_SUBMITTED"} : Answer(w, got.version, s)
  BY <1>5, TextsTyped DEF Lookup, Rare
<1>7. ASSUME ~crossed PROVE MetaHasTheText'
  <2>1. \A u \in Writers : writer'[u].op = writer[u].op /\ writer'[u].version = writer[u].version /\ writer'[u].text = writer[u].text
    BY <1>6, TextsTyped DEF Answer, WriterType
  <2>2. QED
    BY <1>1, <1>7, <2>1, MetaStays
<1>8. QED
  BY <1>1, <1>3, <1>4, <1>6, <1>7, TextsTyped, AnswerKeeps DEF Submits

\* What a writer stores becomes the row, and the writer ends or goes on to the
\* accounts without the text.
LEMMA StoreStep ==
  ASSUME TextsInv, NEW w \in Writers, writer[w].op # "idle",
         Store(w, writer[w], writer[w].got) \/ (writer[w].op # "save" /\ Store(w, campaign, writer[w].got)),
         NEW r \in WriterType, writer' = [writer EXCEPT ![w] = r], WriterShape(r), r.op # "save",
         r.op \notin {"idle", "save"} => r.version = writer[w].version /\ r.text = writer[w].text /\ r.got = NoTemplates
  PROVE  TextsInv'
<1>1. PICK c : /\ campaign' = c
               /\ crossed' = (crossed \/ Overtaken(w)) /\ UNCHANGED <<connected, meta, passDue, cutAfter, rare>>
               /\ \/ c = [version |-> writer[w].version, text |-> writer[w].text, templates |-> writer[w].got]
                  \/ writer[w].op # "save" /\ c = [version |-> campaign.version, text |-> campaign.text, templates |-> writer[w].got]
  BY DEF Store
<1>2. c \in CampaignType /\ c.templates = writer[w].got /\ NeverSent(writer[w].got)
  BY <1>1, TextsTyped DEF CampaignType, WriterType, TextsInv, WriterShape
<1>3. \A u \in Writers : writer'[u] = IF u = w THEN r ELSE writer[u]
  BY TextsTyped
<1>4. TextsTypeOK'
  BY <1>1, <1>2, TextsTyped, TextTypes DEF TextsTypeOK, CampaignType, WriterType, MetaType
<1>5. NeverSent(campaign'.templates) /\ \A u \in Writers : WriterShape(writer'[u])
  BY <1>1, <1>2, <1>3 DEF TextsInv
<1>6. ASSUME ~crossed' PROVE Uncrossed'
  <2>1. Uncrossed /\ ~Overtaken(w)
    BY <1>1, <1>6, TextsTyped DEF TextsInv
  <2>2. Reads(writer[w], campaign) /\ writer[w].version \in Nat /\ campaign.version \in Nat
    BY <2>1, TextsTyped DEF Uncrossed
  <2>3. /\ OfVersion(c.templates, c.version) /\ c.version = writer[w].version /\ c.text = IF writer[w].op = "save" THEN writer[w].text ELSE campaign.text
        /\ writer[w].op # "save" => c.version = campaign.version
        /\ writer[w].op = "save" => c.version = campaign.version + 1
    BY <1>1, <2>1, <2>2 DEF Overtaken, Reads
  <2>4. OneSaver'
    BY <1>3, <2>1 DEF OneSaver, Uncrossed
  <2>5. ASSUME NEW u \in Writers PROVE Reads(writer'[u], c)
    <3>1. CASE u = w
      <4>1. \A v : OfVersion(NoTemplates, v)
        BY IdleWriterFits
      <4>2. r.op \notin {"idle", "save"} /\ writer[w].op # "save" => r.text = c.text
        BY <2>1, <2>2, <2>3 DEF Reads, Overtaken
      <4>3. r.op \notin {"idle", "save"} => r.text = c.text
        BY <4>2, <2>3
      <4>4. QED
        BY <1>3, <2>2, <2>3, <3>1, <4>1, <4>3 DEF Reads
    <3>2. CASE u # w
      <4>1. writer'[u] = writer[u] /\ Reads(writer[u], campaign) /\ writer[u].version \in Nat
        BY <1>3, <2>1, <3>2, TextsTyped DEF Uncrossed
      <4>2. CASE writer[w].op = "save"
        <5>1. writer[u].op # "save"
          BY <2>1, <3>2, <4>2 DEF OneSaver, Uncrossed
        <5>2. QED
          BY <2>2, <2>3, <4>1, <4>2, <5>1 DEF Reads
      <4>3. CASE writer[w].op # "save"
        BY <2>2, <2>3, <4>1, <4>3 DEF Reads
      <4>4. QED
        BY <4>2, <4>3
    <3>3. QED
      BY <3>1, <3>2
  <2>6. MetaHasTheText'
    <3>1. SUFFICES ASSUME NEW a \in AccountIds, NEW v \in Versions, meta[<<a, v>>].review # "none", v \notin cutAfter
                   PROVE  \/ v < c.version
                          \/ v = c.version /\ meta[<<a, v>>].text = c.text
                          \/ \E u \in Writers : writer'[u].op = "save" /\ writer'[u].version = v /\ meta[<<a, v>>].text = writer'[u].text
      BY <1>1 DEF MetaHasTheText
    <3>2. v \in Nat
      BY TextsTyped DEF Versions
    <3>3. \/ v < campaign.version
          \/ v = campaign.version /\ meta[<<a, v>>].text = campaign.text
          \/ \E u \in Writers : writer[u].op = "save" /\ writer[u].version = v /\ meta[<<a, v>>].text = writer[u].text
      BY <2>1, <3>1 DEF Uncrossed, MetaHasTheText
    <3>4. ASSUME NEW u \in Writers, writer[u].op = "save", writer[u].version = v, meta[<<a, v>>].text = writer[u].text
          PROVE  \/ v = c.version /\ meta[<<a, v>>].text = c.text
                 \/ \E x \in Writers : writer'[x].op = "save" /\ writer'[x].version = v /\ meta[<<a, v>>].text = writer'[x].text
      BY <1>3, <2>3, <3>4
    <3>5. QED
      BY <2>2, <2>3, <3>2, <3>3, <3>4
  <2>7. QED
    BY <1>1, <2>3, <2>4, <2>5, <2>6 DEF Uncrossed
<1>7. QED
  BY <1>4, <1>5, <1>6 DEF TextsInv

LEMMA StoresKeep ==
  ASSUME TextsInv, NEW w \in Writers, StoreText(w) \/ StoreReviews(w) \/ AddTemplates(w) PROVE TextsInv'
<1>1. CASE StoreText(w)
  <2>1. writer[w].op \in {"save", "switch"} /\ Store(w, writer[w], writer[w].got) /\ writer' = [writer EXCEPT ![w] = IdleWriter]
    BY <1>1 DEF StoreText
  <2>2. writer[w].op # "idle" /\ IdleWriter \in WriterType /\ WriterShape(IdleWriter)
        /\ IdleWriter.op # "save" /\ ~(IdleWriter.op \notin {"idle", "save"})
    BY <2>1, IdleWriterFits
  <2>3. Store(w, writer[w], writer[w].got) \/ (writer[w].op # "save" /\ Store(w, campaign, writer[w].got))
    BY <2>1
  <2>4. QED
    BY <2>1, <2>2, <2>3, StoreStep, Zenon
<1>2. CASE AddTemplates(w)
  <2>1. writer[w].op \in {"sync", "topUp"} /\ Store(w, campaign, writer[w].got) /\ writer' = [writer EXCEPT ![w] = IdleWriter]
    BY <1>2 DEF AddTemplates, TextsInv, WriterShape
  <2>2. QED
    BY <2>1, IdleWriterFits, StoreStep
<1>3. CASE StoreReviews(w)
  <2> DEFINE todo == writer[w].missing \cap connected
             top == [IdleWriter EXCEPT !.op = "topUp", !.version = writer[w].version, !.text = writer[w].text, !.todo = todo]
  <2>1. writer[w].op \in {"refresh", "open"} /\ Store(w, campaign, writer[w].got)
    BY <1>3 DEF StoreReviews
  <2>2. CASE writer' = [writer EXCEPT ![w] = IdleWriter]
    BY <2>1, <2>2, IdleWriterFits, StoreStep
  <2>3. CASE writer[w].op = "open" /\ writer' = [writer EXCEPT ![w] = top]
    <3>1. top \in WriterType /\ top.op = "topUp" /\ top.version = writer[w].version /\ top.text = writer[w].text
          /\ top.got = NoTemplates /\ top.step = "asking"
      BY IdleWriterFits, TextsTyped DEF IdleWriter, WriterType, Ops
    <3>2. writer[w].version > 0
      BY <2>3 DEF TextsInv, WriterShape
    <3> HIDE DEF top
    <3>3. WriterShape(top)
      BY <3>1, <3>2, IdleWriterFits DEF WriterShape, Submits
    <3>4. QED
      BY <2>1, <2>3, <3>1, <3>3, StoreStep
  <2>4. QED
    BY <1>3, <2>1, <2>2, <2>3, TextsTyped DEF StoreReviews
<1>4. QED
  BY <1>1, <1>2, <1>3

LEMMA ReadAgainKeeps ==
  ASSUME TextsInv, NEW w \in Writers, ReadAgain(w) PROVE TextsInv'
<1> DEFINE merged == [a \in AccountIds |-> IF writer[w].got[a].version = 0 THEN campaign.templates[a] ELSE writer[w].got[a]]
           r == [writer[w] EXCEPT !.step = "merging", !.got = merged]
<1>1. /\ writer[w] \in WriterType /\ writer[w].op \in {"sync", "topUp"} /\ writer[w].todo = {}
      /\ UNCHANGED <<campaign, connected, meta, passDue, textHistory>>
  BY TextsTyped DEF ReadAgain, AllAsked
<1>2. writer' = [writer EXCEPT ![w] = r]
  BY <1>1, TextsTyped DEF ReadAgain, WriterType
<1>3. merged \in [AccountIds -> Template] /\ \A a \in AccountIds : merged[a] \in {campaign.templates[a], writer[w].got[a]}
  BY <1>1, TextsTyped DEF WriterType
<1> HIDE DEF merged
<1>4. /\ r \in WriterType /\ r.op = writer[w].op /\ r.version = writer[w].version /\ r.text = writer[w].text
      /\ r.todo = {} /\ r.got = merged
  BY <1>1, <1>3 DEF WriterType
<1> HIDE DEF r
<1>5. TextsTypeOK'
  BY <1>1, <1>2, <1>4, TextsTyped, TextTypes DEF TextsTypeOK, CampaignType, WriterType, MetaType, textHistory
<1>6. WriterShape(r)
  BY <1>1, <1>3, <1>4 DEF WriterShape, TextsInv, NeverSent, Submits
<1>7. ASSUME ~crossed PROVE Reads(r, campaign) /\ MetaHasTheText'
  <2>1. Reads(writer[w], campaign) /\ OfVersion(campaign.templates, campaign.version)
    BY <1>7 DEF TextsInv, Uncrossed
  <2>2. OfVersion(writer[w].got, campaign.version) => OfVersion(r.got, campaign.version)
    BY <1>3, <1>4, <2>1 DEF OfVersion
  <2>3. MetaHasTheText'
    BY <1>1, <1>2, <1>4, <1>7, TextsTyped, MetaStays DEF textHistory
  <2>4. QED
    BY <1>1, <1>4, <2>1, <2>2, <2>3 DEF Reads
<1>8. QED
  BY <1>1, <1>2, <1>4, <1>5, <1>6, <1>7, WriterStep DEF textHistory

LEMMA WriterCutKeeps ==
  ASSUME TextsInv, NEW w \in Writers, WriterCut(w) PROVE TextsInv'
<1>1. /\ writer' = [writer EXCEPT ![w] = IdleWriter] /\ UNCHANGED <<campaign, connected, meta, passDue, crossed>>
      /\ rare' \in 0..MaxRare
  BY TextsTyped DEF WriterCut, Rare
<1>2. cutAfter' \subseteq Versions /\ cutAfter \subseteq cutAfter'
  <2>1. CASE writer[w].op = "save"
    <3>1. writer[w].version \in Versions
      BY <2>1, TextsTyped DEF TextsInv, WriterShape, Submits, WriterType, Versions
    <3>2. QED
      BY <2>1, <3>1, TextsTyped DEF WriterCut
  <2>2. CASE writer[w].op # "save"
    BY <2>2, TextsTyped DEF WriterCut
  <2>3. QED
    BY <2>1, <2>2
<1>3. writer[w].op = "save" => writer[w].version \in cutAfter'
  BY DEF WriterCut
<1>4. TextsTypeOK'
  BY <1>1, <1>2, IdleWriterFits, TextsTyped, TextTypes DEF TextsTypeOK, CampaignType, WriterType, MetaType
<1>5. ASSUME ~crossed PROVE MetaHasTheText'
  <2>1. \A u \in Writers : writer'[u] = IF u = w THEN IdleWriter ELSE writer[u]
    BY <1>1, TextsTyped
  <2>2. QED
    BY <1>1, <1>2, <1>3, <1>5, <2>1, MetaStays
<1>6. Reads(IdleWriter, campaign)
  BY IdleWriterFits DEF Reads
<1>7. QED
  BY <1>1, <1>4, <1>5, <1>6, IdleWriterFits, WriterStep

\* Meta reviews a template or loses it, numbers come and go.
LEMMA OutsideKeeps ==
  ASSUME TextsInv, UNCHANGED <<campaign, writer, passDue, crossed, cutAfter>>, rare' \in 0..MaxRare,
         connected' \subseteq AccountIds, meta' \in MetaType,
         \A k \in AccountIds \X Versions :
           (meta'[k]).review # "none" => meta[k].review # "none" /\ (meta'[k]).text = meta[k].text
  PROVE  TextsInv'
<1>1. TextsTypeOK'
  BY TextsTyped, TextTypes DEF TextsTypeOK, CampaignType, WriterType, MetaType
<1>2. MetaHasTheText => MetaHasTheText'
  <2>1. SUFFICES ASSUME MetaHasTheText, NEW a \in AccountIds, NEW v \in Versions, (meta'[<<a, v>>]).review # "none", v \notin cutAfter
                 PROVE  \/ v < campaign.version
                        \/ v = campaign.version /\ (meta'[<<a, v>>]).text = campaign.text
                        \/ \E w \in Writers : writer[w].op = "save" /\ writer[w].version = v /\ (meta'[<<a, v>>]).text = writer[w].text
    BY DEF MetaHasTheText
  <2>2. meta[<<a, v>>].review # "none" /\ (meta'[<<a, v>>]).text = meta[<<a, v>>].text
    BY <2>1
  <2>3. QED
    BY <2>1, <2>2 DEF MetaHasTheText
<1>3. Uncrossed => Uncrossed'
  BY <1>2 DEF Uncrossed, OneSaver
<1>4. QED
  BY <1>1, <1>3 DEF TextsInv

LEMMA AccountsKeep ==
  ASSUME TextsInv, NEW a \in AccountIds,
         \/ \E v \in Versions : (\E review \in Reviews : MetaReviews(a, v, review)) \/ MetaLoses(a, v)
         \/ Connect(a) \/ Disconnect(a)
  PROVE  TextsInv'
<1>1. rare \in 0..MaxRare /\ (Rare => rare' \in 0..MaxRare) /\ meta \in MetaType
  BY TextsTyped DEF Rare
<1>2. ASSUME NEW v \in Versions, NEW review \in Reviews, MetaReviews(a, v, review) PROVE TextsInv'
  <2> DEFINE key == <<a, v>>
  <2>1. /\ meta' = [meta EXCEPT ![key].review = review] /\ meta[key].review # "none"
        /\ UNCHANGED <<campaign, connected, writer, passDue, crossed, cutAfter, rare>>
    BY <1>2 DEF MetaReviews, textHistory
  <2>2. key \in AccountIds \X Versions
    OBVIOUS
  <2> HIDE DEF key
  <2>3. meta' \in MetaType
    BY <1>1, <2>1, <2>2 DEF MetaType, Reviews
  <2>4. \A k \in AccountIds \X Versions :
          (meta'[k]).review # "none" => meta[k].review # "none" /\ (meta'[k]).text = meta[k].text
    BY <1>1, <2>1, <2>2 DEF MetaType
  <2>5. QED
    BY <1>1, <2>1, <2>3, <2>4, TextsTyped, OutsideKeeps
<1>3. ASSUME NEW v \in Versions, MetaLoses(a, v) PROVE TextsInv'
  <2> DEFINE key == <<a, v>>
  <2>1. /\ meta' = [meta EXCEPT ![key] = NotThere] /\ rare' \in 0..MaxRare
        /\ UNCHANGED <<campaign, connected, writer, passDue, crossed, cutAfter>>
    BY <1>1, <1>3 DEF MetaLoses
  <2>2. key \in AccountIds \X Versions
    OBVIOUS
  <2>3. NotThere \in [text : Texts, review : Reviews \cup {"none"}] /\ NotThere.review = "none"
    BY TextParameters DEF NotThere
  <2> HIDE DEF key
  <2>4. meta' \in MetaType
    BY <1>1, <2>1, <2>2, <2>3 DEF MetaType
  <2>5. \A k \in AccountIds \X Versions :
          (meta'[k]).review # "none" => meta[k].review # "none" /\ (meta'[k]).text = meta[k].text
    BY <1>1, <2>1, <2>2, <2>3 DEF MetaType
  <2>6. QED
    BY <1>1, <2>1, <2>4, <2>5, TextsTyped, OutsideKeeps
<1>4. CASE Connect(a) \/ Disconnect(a)
  <2>1. /\ UNCHANGED <<campaign, writer, meta, passDue, crossed, cutAfter>> /\ rare' \in 0..MaxRare
        /\ connected' \subseteq AccountIds
    BY <1>1, <1>4, TextsTyped DEF Connect, Disconnect, textHistory
  <2>2. QED
    BY <1>1, <2>1, OutsideKeeps
<1>5. QED
  BY <1>2, <1>3, <1>4

LEMMA OlderFits ==
  ASSUME NEW templates \in [AccountIds -> Template]
  PROVE  /\ Older(templates) \in [AccountIds -> Template]
         /\ \A a \in AccountIds : /\ (Older(templates)[a]).version = templates[a].version
                                  /\ (Older(templates)[a]).status = templates[a].status
<1>1. SUFFICES ASSUME NEW a \in AccountIds
               PROVE  /\ Older(templates)[a] \in Template
                      /\ (Older(templates)[a]).version = templates[a].version
                      /\ (Older(templates)[a]).status = templates[a].status
  BY DEF Older
<1>2. templates[a] \in Template /\ Day \in Nat
  BY TextParameters
<1>3. CASE templates[a].status = "ERROR" /\ templates[a].age <= Day
  <2>1. Older(templates)[a] = [templates[a] EXCEPT !.age = templates[a].age + 1] /\ templates[a].age + 1 \in 0..(Day + 1)
    BY <1>2, <1>3 DEF Older, Template
  <2>2. QED
    BY <1>2, <2>1 DEF Template
<1>4. CASE ~(templates[a].status = "ERROR" /\ templates[a].age <= Day)
  <2>1. Older(templates)[a] = templates[a]
    BY <1>4 DEF Older
  <2>2. QED
    BY <1>2, <2>1
<1>5. QED
  BY <1>3, <1>4

LEMMA HalfHourKeeps ==
  ASSUME TextsInv, HalfHour PROVE TextsInv'
<1>1. /\ UNCHANGED <<connected, meta, crossed, cutAfter, rare>> /\ passDue' = TRUE
      /\ campaign' \in CampaignType /\ campaign'.version = campaign.version /\ campaign'.text = campaign.text
      /\ campaign'.templates = Older(campaign.templates)
  <2>1. campaign' = [campaign EXCEPT !.templates = Older(campaign.templates)]
    BY DEF HalfHour
  <2>2. QED
    BY <2>1, TextsTyped, OlderFits DEF HalfHour, textHistory, CampaignType
<1>2. ASSUME NEW w \in Writers
      PROVE  /\ writer'[w] \in WriterType /\ (writer'[w]).got = Older(writer[w].got)
             /\ (writer'[w]).op = writer[w].op /\ (writer'[w]).step = writer[w].step /\ (writer'[w]).todo = writer[w].todo
             /\ (writer'[w]).version = writer[w].version /\ (writer'[w]).text = writer[w].text
             /\ writer[w].got \in [AccountIds -> Template]
  <2>1. writer[w] \in WriterType /\ writer'[w] = [writer[w] EXCEPT !.got = Older(writer[w].got)]
    BY TextsTyped DEF HalfHour
  <2>2. QED
    BY <2>1, OlderFits DEF WriterType
<1>3. writer' \in [Writers -> WriterType]
  BY <1>2 DEF HalfHour
<1>4. TextsTypeOK'
  BY <1>1, <1>3, TextsTyped, TextTypes DEF TextsTypeOK, CampaignType, WriterType, MetaType
<1>5. NeverSent(campaign'.templates)
  BY <1>1, TextsTyped, OlderFits DEF TextsInv, NeverSent
<1>6. ASSUME NEW w \in Writers PROVE WriterShape(writer'[w])
  <2>1. WriterShape(writer[w]) /\ writer[w].todo \subseteq AccountIds
    BY TextsTyped DEF TextsInv, WriterType
  <2>2. NeverSent((writer'[w]).got)
    BY <1>2, <2>1, OlderFits DEF NeverSent, WriterShape
  <2>3. \A a \in writer[w].todo : (writer'[w]).got[a].version = writer[w].got[a].version
    BY <1>2, <2>1, OlderFits
  <2>4. QED
    BY <1>2, <2>1, <2>2, <2>3 DEF WriterShape
<1>7. ASSUME ~crossed PROVE Uncrossed'
  <2>1. Uncrossed
    BY <1>7 DEF TextsInv
  <2>2. OneSaver'
    BY <1>2, <2>1 DEF Uncrossed, OneSaver
  <2>3. OfVersion(campaign'.templates, campaign'.version)
    BY <1>1, <2>1, TextsTyped, OlderFits DEF Uncrossed, OfVersion
  <2>4. ASSUME NEW w \in Writers PROVE Reads(writer'[w], campaign')
    <3>1. \A v : OfVersion(writer[w].got, v) => OfVersion((writer'[w]).got, v)
      BY <1>2, OlderFits DEF OfVersion
    <3>2. Reads(writer[w], campaign)
      BY <2>1 DEF Uncrossed
    <3>3. QED
      BY <1>1, <1>2, <3>1, <3>2 DEF Reads
  <2>5. MetaHasTheText'
    <3>1. MetaHasTheText
      BY <2>1 DEF Uncrossed
    <3>2. QED
      BY <1>1, <1>2, <3>1 DEF MetaHasTheText
  <2>6. QED
    BY <2>2, <2>3, <2>4, <2>5 DEF Uncrossed
<1>8. QED
  BY <1>1, <1>4, <1>5, <1>6, <1>7 DEF TextsInv

LEMMA TextsInitInv == TextsInit => TextsInv
<1> SUFFICES ASSUME TextsInit PROVE TextsInv
  OBVIOUS
<1>1. campaign \in CampaignType /\ campaign.templates = NoTemplates
  BY IdleWriterFits, TextParameters DEF TextsInit, CampaignType
<1>2. meta \in MetaType /\ \A k \in AccountIds \X Versions : meta[k].review = "none"
  BY TextParameters DEF TextsInit, NotThere, MetaType
<1>3. \A w \in Writers : writer[w] = IdleWriter
  BY DEF TextsInit
<1>4. TextsTypeOK
  <2>1. writer \in [Writers -> WriterType]
    BY IdleWriterFits DEF TextsInit
  <2>2. connected = {} /\ passDue = FALSE /\ crossed = FALSE /\ cutAfter = {} /\ rare = 0
    BY DEF TextsInit
  <2>3. 0 \in 0..MaxRare
    BY TextParameters
  <2>4. QED
    BY <1>1, <1>2, <2>1, <2>2, <2>3, TextTypes
<1>5. Uncrossed
  BY <1>1, <1>2, <1>3, IdleWriterFits DEF Uncrossed, OneSaver, MetaHasTheText, Reads
<1>6. QED
  BY <1>1, <1>3, <1>4, <1>5, IdleWriterFits DEF TextsInv

LEMMA TextsNextInv == TextsInv /\ [TextsNext]_textVars => TextsInv'
<1> SUFFICES ASSUME TextsInv, [TextsNext]_textVars PROVE TextsInv'
  OBVIOUS
<1>1. CASE UNCHANGED textVars
  <2>1. UNCHANGED <<campaign, connected, meta, writer, passDue, crossed, cutAfter, rare>>
    BY <1>1 DEF textVars, textHistory
  <2>2. TextsTypeOK'
    BY <2>1 DEF TextsInv, TextsTypeOK
  <2>3. Uncrossed => Uncrossed'
    BY <2>1 DEF Uncrossed, OneSaver, MetaHasTheText
  <2>4. QED
    BY <2>1, <2>2, <2>3 DEF TextsInv
<1>2. ASSUME NEW w \in Writers, NEW t \in Texts, SaveText(w, t) PROVE TextsInv'
  BY <1>2, SaveTextKeeps
<1>3. ASSUME NEW w \in Writers, Switch(w) \/ Open(w) \/ RefreshPending(w) \/ SyncNewAccounts(w) PROVE TextsInv'
  BY <1>3, BeginsKeep
<1>4. ASSUME NEW w \in Writers, WriterGoesOn(w) PROVE TextsInv'
  BY <1>4, SubmitsKeep, LookupKeeps, StoresKeep, ReadAgainKeeps DEF WriterGoesOn
<1>5. ASSUME NEW w \in Writers, WriterCut(w) PROVE TextsInv'
  BY <1>5, WriterCutKeeps
<1>6. ASSUME NEW a \in AccountIds, NEW v \in Versions, (\E r \in Reviews : MetaReviews(a, v, r)) \/ MetaLoses(a, v)
      PROVE  TextsInv'
  BY <1>6, AccountsKeep
<1>7. ASSUME NEW a \in AccountIds, Connect(a) \/ Disconnect(a) PROVE TextsInv'
  BY <1>7, AccountsKeep
<1>8. CASE HalfHour
  BY <1>8, HalfHourKeeps
<1>9. QED
  BY <1>1, <1>2, <1>3, <1>4, <1>5, <1>6, <1>7, <1>8 DEF TextsNext

LEMMA ApprovedIsTheText == TextsInv => TextsFit
<1> SUFFICES ASSUME TextsInv, ~crossed, NEW a \in AccountIds, campaign.templates[a].status = "APPROVED",
                    campaign.templates[a].version \notin cutAfter
             PROVE  /\ campaign.templates[a].version = campaign.version
                    /\ \/ meta[<<a, campaign.templates[a].version>>].review = "none"
                       \/ meta[<<a, campaign.templates[a].version>>].text = campaign.text
  BY DEF TextsFit
<1> DEFINE v == campaign.templates[a].version
<1>1. Uncrossed /\ NeverSent(campaign.templates) /\ campaign.templates[a] \in Template
  BY TextsTyped DEF TextsInv
<1>2. v = campaign.version /\ v # 0
  BY <1>1 DEF Uncrossed, OfVersion, NeverSent
<1>3. v \in Versions /\ ~(v < campaign.version)
  BY <1>1, <1>2, TextsTyped DEF Template, Versions
<1>4. ~\E w \in Writers : writer[w].op = "save" /\ writer[w].version = v
  BY <1>1, <1>2, TextsTyped DEF Uncrossed, Reads
<1>5. QED
  BY <1>1, <1>2, <1>3, <1>4 DEF Uncrossed, MetaHasTheText

-----------------------------------------------------------------------------
(* Whom the campaigns find *)

\* What the finder compares: dates that are numbers or none.
LEMMA FinderDates ==
  ASSUME FinderTypeOK, NEW p \in Policies
  PROVE /\ portfolio[p].validFrom # NoDate => portfolio[p].validFrom \in Nat
        /\ portfolio[p].validTo # NoDate => portfolio[p].validTo \in Nat
        /\ portfolio[p].cancelled # NoDate => portfolio[p].cancelled \in Nat
        /\ Now \in Nat
<1>1. Now \in Nat /\ LastInstant \in Nat
  BY FinderParameters DEF Instants
<1>2. portfolio[p] \in PolicyRow
  BY DEF FinderTypeOK
<1>3. QED
  BY <1>1, <1>2 DEF PolicyRow, Dates, Instants

LEMMA RenewedNotOffered == FinderTypeOK => RenewedIsNotOffered
<1> SUFFICES ASSUME FinderTypeOK, NEW p \in Policies PROVE
      /\ p \in Renewal(Policies) => ~\E q \in Policies :
           ~Cancelled(q) /\ SameKey(p, q) /\ EndsFrom(q, portfolio[p].validTo + 1)
      /\ p \in Winback(Policies) => ~\E q \in Policies : ~Cancelled(q) /\ SameKey(p, q) /\ EndsFrom(q, Now)
      /\ p \in Renewal(Policies) => ~\E q \in Winback(Policies) : SameKey(p, q)
  BY DEF RenewedIsNotOffered
<1>1. ASSUME p \in Renewal(Policies), NEW q \in Policies,
             ~Cancelled(q), SameKey(p, q), EndsFrom(q, portfolio[p].validTo + 1)
      PROVE  FALSE
  <2>1. Running(p) /\ ~Renewed(p)
    BY <1>1 DEF Renewal, InForce
  <2>2. /\ portfolio[p].validTo \in Nat /\ portfolio[q].validTo \in Nat /\ Now \in Nat
        /\ portfolio[p].validTo >= Now /\ portfolio[q].validTo > portfolio[p].validTo
    BY <1>1, <2>1, FinderDates DEF Running, EndsFrom
  <2>3. Running(q) /\ q # p
    BY <1>1, <2>2, FinderDates DEF Running, EndsFrom
  <2>4. QED
    BY <1>1, <2>1, <2>2, <2>3 DEF Renewed, SameKey
<1>2. ASSUME p \in Winback(Policies), NEW q \in Policies, ~Cancelled(q), SameKey(p, q), EndsFrom(q, Now)
      PROVE  FALSE
  BY <1>2 DEF Winback, Lost, Running, SameKey
<1>3. ASSUME p \in Renewal(Policies), NEW q \in Winback(Policies), SameKey(p, q)
      PROVE  FALSE
  BY <1>3 DEF Renewal, InForce, Winback, Lost, SameKey
<1>4. QED
  BY <1>1, <1>2, <1>3

LEMMA TickedAreFound == TickedIsFound
<1>1. ASSUME NEW ids \in SUBSET Policies
      PROVE  /\ ids \subseteq CoverageUpgrade(Policies) => CoverageUpgrade(ids) = ids
             /\ ids \subseteq Renewal(Policies) => Renewal(ids) = ids
             /\ ids \subseteq Winback(Policies) => Winback(ids) = ids
             /\ ids \subseteq CrossSell(Policies) => CrossSell(ids) = ids
  <2>1. ids \subseteq CoverageUpgrade(Policies) => CoverageUpgrade(ids) = ids
    BY DEF CoverageUpgrade
  <2>2. ids \subseteq Renewal(Policies) => Renewal(ids) = ids
    BY DEF Renewal
  <2>3. ids \subseteq Winback(Policies) => Winback(ids) = ids
    BY DEF Winback
  <2>4. ids \subseteq CrossSell(Policies) => CrossSell(ids) = ids
    BY DEF CrossSell
  <2>5. QED
    BY <2>1, <2>2, <2>3, <2>4
<1>2. ASSUME NEW ids \in SUBSET Quotes, ids \subseteq QuoteFollowup(Quotes)
      PROVE  QuoteFollowup(ids) = ids
  BY <1>2 DEF QuoteFollowup
<1>3. QED
  BY <1>1, <1>2 DEF TickedIsFound

LEMMA ShownIsInForce == FinderTypeOK => InForceIsVigente
<1> SUFFICES ASSUME FinderTypeOK, NEW p \in Policies, portfolio[p].validTo # NoDate
             PROVE  InForce(p) <=> Validity(p) = "vigente"
  BY DEF InForceIsVigente
<1>1. portfolio[p].validTo \in Nat /\ Now \in Nat /\ (portfolio[p].validFrom # NoDate => portfolio[p].validFrom \in Nat)
  BY FinderDates
<1>2. CASE Cancelled(p)
  <2>1. Validity(p) = "anulada"
    BY <1>2 DEF Validity
  <2>2. QED
    BY <1>2, <2>1 DEF InForce, Running
<1>3. CASE ~Cancelled(p) /\ portfolio[p].validFrom # NoDate /\ portfolio[p].validFrom > Now
  <2>1. Validity(p) = "proxima"
    BY <1>3 DEF Validity
  <2>2. QED
    BY <1>1, <1>3, <2>1 DEF InForce
<1>4. CASE ~Cancelled(p) /\ ~(portfolio[p].validFrom # NoDate /\ portfolio[p].validFrom > Now)
  <2>1. Validity(p) = IF portfolio[p].validTo < Now THEN "vencida" ELSE "vigente"
    BY <1>4 DEF Validity
  <2>2. QED
    BY <1>1, <1>4, <2>1 DEF InForce, Running, EndsFrom
<1>5. QED
  BY <1>2, <1>3, <1>4

LEMMA FinderInitType == FinderInit => FinderTypeOK
<1> SUFFICES ASSUME FinderInit PROVE FinderTypeOK
  OBVIOUS
<1>1. Now \in Nat /\ 0 \in 0..Now
  BY FinderParameters DEF Instants
<1>2. (CHOOSE c \in Cars : TRUE) \in Cars
  BY FinderParameters
<1>3. AnyPolicy \in PolicyRow
  BY <1>2 DEF AnyPolicy, PolicyRow, Dates
<1>4. \A i \in Instants : [AnyPolicy EXCEPT !.validFrom = i] \in PolicyRow
  BY <1>3 DEF PolicyRow, Dates
<1>5. quotes \in [Quotes -> QuoteRow]
  <2>1. [at |-> 0, requested |-> TRUE] \in QuoteRow
    BY <1>1 DEF QuoteRow
  <2>2. [q \in Quotes |-> [at |-> 0, requested |-> TRUE]] \in [Quotes -> QuoteRow]
    BY <2>1
  <2>3. QED
    BY <2>2 DEF FinderInit
<1>6. portfolio \in [Policies -> PolicyRow]
  <2>1. {p \in PolicyRow : p.cancelled \in {NoDate} \cup 0..Now /\ (p.lost => p.cancelled # NoDate)} \subseteq PolicyRow
    OBVIOUS
  <2>2. {[AnyPolicy EXCEPT !.validFrom = i] : i \in Instants} \subseteq PolicyRow
    BY <1>4
  <2>3. \A S : S \subseteq PolicyRow => (portfolio \in [Policies -> S] => portfolio \in [Policies -> PolicyRow])
    OBVIOUS
  <2>4. QED
    BY <2>1, <2>2, <2>3 DEF FinderInit
<1>7. QED
  BY <1>5, <1>6 DEF FinderTypeOK

-----------------------------------------------------------------------------
(* The theorems *)

\* One part works; the others stay as they began.
OutreachInv == TextsInv /\ MessagesInv /\ NoticesInv /\ (part = "finder" => FinderTypeOK)

LEMMA OutreachInitInv == OutreachInit => OutreachInv
BY TextsInitInv, MessagesInitInv, NoticesInitInv, FinderInitType DEF OutreachInit, OutreachInv

LEMMA OutreachNextInv == OutreachInv /\ [OutreachNext]_outreachVars => OutreachInv'
<1> SUFFICES ASSUME OutreachInv, [OutreachNext]_outreachVars PROVE OutreachInv'
  OBVIOUS
<1>1. [TextsNext]_textVars /\ [MessagesNext]_messageVars /\ [NoticesNext]_noticeVars /\ UNCHANGED <<part, finderVars>>
  BY DEF OutreachNext, outreachVars
<1>2. TextsInv' /\ MessagesInv' /\ NoticesInv'
  BY <1>1, TextsNextInv, MessagesNextInv, NoticesNextInv DEF OutreachInv
<1>3. (part = "finder" => FinderTypeOK)'
  BY <1>1 DEF OutreachInv, finderVars, FinderTypeOK
<1>4. QED
  BY <1>2, <1>3 DEF OutreachInv

\* Every row, request, pass and send keeps its type, for any clients, accounts,
\* texts and people (the three services and their passes).
THEOREM OutreachTypes == OutreachSpec => []OutreachTypesOK
<1>1. OutreachInv => OutreachTypesOK
  BY DEF OutreachInv, TextsInv, MessagesInv, NoticesInv, OutreachTypesOK
<1>2. QED
  BY <1>1, OutreachInitInv, OutreachNextInv, PTL DEF OutreachSpec

\* What the campaign's row says Meta approved is its text, for any accounts,
\* writers and failures, while no save overlapped another writer nor was cut
\* (SalesCampaignsService.update, CampaignTemplatesService, TemplateSyncService).
THEOREM ApprovedTextsFit == OutreachSpec => []TextsFit
<1>1. OutreachInv => TextsFit
  BY ApprovedIsTheText DEF OutreachInv
<1>2. QED
  BY <1>1, OutreachInitInv, OutreachNextInv, PTL DEF OutreachSpec

\* No send begun after somebody's opt-out was answered writes to them, however many
\* requests, rows, failures and restarts (SalesCampaignsService.send, optOut).
THEOREM OptOutsAreKept == OutreachSpec => []OptOutIsKept
<1>1. OutreachInv => OptOutIsKept
  BY DEF OutreachInv, MessagesInv
<1>2. QED
  BY <1>1, OutreachInitInv, OutreachNextInv, PTL DEF OutreachSpec

\* Nobody is written to again of whom the send could know, within the cooldown of
\* a campaign or the month of an expired policy (send of both services).
THEOREM NobodyIsWrittenAgain == OutreachSpec => []WrittenOnce
<1>1. OutreachInv => WrittenOnce
  BY FreeRowsAreNotAgain, FreeNoticesAreToldOnce DEF OutreachInv, WrittenOnce
<1>2. QED
  BY <1>1, OutreachInitInv, OutreachNextInv, PTL DEF OutreachSpec

\* For any portfolio: nobody is offered what they renewed, whom the panel lists is
\* found when ticked, and the query for the policies in force and the status
\* shown agree (CampaignFinderService, poliza-vigencia).
THEOREM OffersAlwaysFit == OutreachSpec => []OffersFit
<1>1. OutreachInv => OffersFit
  BY RenewedNotOffered, TickedAreFound, ShownIsInForce DEF OutreachInv, OffersFit, OffersAgree
<1>2. QED
  BY <1>1, OutreachInitInv, OutreachNextInv, PTL DEF OutreachSpec

=============================================================================
