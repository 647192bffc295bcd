---------------------------- MODULE OfficeProofs ----------------------------
(***************************************************************************)
(* What holds around the office's chats for every number of messages,      *)
(* lines, submitters, coverages, plans and months: the session of a chat,  *)
(* the lines it comes by, the requests for a quote and the months that     *)
(* close keep an inductive invariant each, and a step of one part leaves   *)
(* the others' state alone.                                                *)
(***************************************************************************)
EXTENDS MCOffice, SequenceTheorems, WellFoundedInduction, TLAPS

-----------------------------------------------------------------------------
(* The requests and their matters *)

Matter == [status : MatterState, unread : BOOLEAN, cleared : BOOLEAN]
SubmitterState == [at : {"idle", "upsert", "find", "record", "attach", "change"},
                   coverage : Choice, found : 0..MaxMatters, read : Payload, files : Seq(Documents)]

\* A submission that is still to put the request before the office: the matter it
\* found is one the office sees, or it will create one.
Lists(s) == \/ submitter[s].at = "find"
            \/ submitter[s].at = "record" /\ submitter[s].found \in Live \cup {0}
Listed == \E i \in Live : matters[i].status = "pending"

\* A request that was sent has a matter the office sees, or is to have one; a new
\* one has a pending matter, or is to.
ListedFits ==
  ~overtaken /\ request.status # "none" =>
    /\ (\E s \in Submitters : Lists(s)) \/ Live # {}
    /\ request.status = "NEW" => (\E s \in Submitters : Lists(s)) \/ Listed

\* What was found is a matter, since no row is ever deleted.
FoundThere == \A s \in Submitters : submitter[s].found \in DOMAIN matters \cup {0}

PayloadFits(p) ==
  /\ p.price \in {NoCoverage, p.coverage}
  /\ p.before # NoCoverage => p.before # p.coverage /\ p.coverage # NoCoverage

\* So does what each request read before it writes.
ReadsFit == \A s \in Submitters : /\ PayloadFits(submitter[s].read) /\ Len(submitter[s].read.documents) <= MaxDocuments
                                  /\ submitter[s].at = "change" => submitter[s].coverage \in Coverages

QuoteInv == QuoteTypeOK /\ ListedFits /\ FoundThere /\ PayloadFits(payload) /\ ReadsFit

LEMMA QuoteNumbers == MaxDocuments \in Nat /\ MaxDocuments > 0 /\ MaxMatters \in Nat /\ MaxOffice \in Nat /\ MaxFailures \in Nat
BY QuoteParameters

LEMMA QuoteTypes ==
  ASSUME QuoteInv
  PROVE  /\ online \in BOOLEAN /\ quoted \subseteq Coverages
         /\ request \in [status : RequestState \cup {"none"}, coverage : Choice]
         /\ matters \in Seq(Matter) /\ Len(matters) \in Nat /\ Len(matters) <= MaxMatters
         /\ DOMAIN matters = 1..Len(matters) /\ \A i \in DOMAIN matters : matters[i] \in Matter
         /\ payload \in Payload /\ Len(payload.documents) <= MaxDocuments
         /\ submitter \in [Submitters -> SubmitterState]
         /\ attached \subseteq Documents /\ overtaken \in BOOLEAN
         /\ officeDid \in 0..MaxOffice /\ failures \in 0..MaxFailures
<1>1. matters \in Seq(Matter) /\ Len(matters) <= MaxMatters
  BY DEF QuoteInv, QuoteTypeOK, Matter
<1>2. Len(matters) \in Nat /\ DOMAIN matters = 1..Len(matters) /\ \A i \in DOMAIN matters : matters[i] \in Matter
  BY <1>1, LenProperties, ElementOfSeq
<1>3. QED
  BY <1>1, <1>2 DEF QuoteInv, QuoteTypeOK, SubmitterState

LEMMA EmptyPayloadTyping ==
  /\ EmptyPayload \in Payload /\ PayloadFits(EmptyPayload) /\ Len(EmptyPayload.documents) = 0
  /\ EmptyPayload.coverage = NoCoverage /\ EmptyPayload.before = NoCoverage
  /\ NoCoverage \in Choice /\ Coverages \subseteq Choice
<1>1. <<>> \in Seq(Documents) /\ Len(<<>>) = 0
  BY EmptySeq
<1>2. QED
  BY <1>1 DEF EmptyPayload, Payload, PayloadFits, Choice

LEMMA IdleTyping ==
  /\ IdleSubmitter \in SubmitterState
  /\ IdleSubmitter.at = "idle" /\ IdleSubmitter.found = 0 /\ IdleSubmitter.read = EmptyPayload
<1>1. <<>> \in Seq(Documents)
  BY EmptySeq
<1>2. 0 \in 0..MaxMatters
  BY QuoteNumbers
<1>3. QED
  BY <1>1, <1>2, EmptyPayloadTyping DEF IdleSubmitter, SubmitterState

LEMMA QuoteInitFits == QuoteInit => QuoteInv
<1> SUFFICES ASSUME QuoteInit PROVE QuoteInv
  OBVIOUS
<1>1. <<>> \in Seq(Matter) /\ Len(<<>>) = 0 /\ 0 <= MaxMatters /\ 0 <= MaxDocuments
      /\ 0 \in 0..MaxOffice /\ 0 \in 0..MaxFailures
  BY EmptySeq, QuoteNumbers
<1>2. /\ submitter \in [Submitters -> SubmitterState]
      /\ \A s \in Submitters : submitter[s] = IdleSubmitter
  BY IdleTyping DEF QuoteInit
<1>3. QuoteTypeOK
  <2>1. request \in [status : RequestState \cup {"none"}, coverage : Choice]
    BY EmptyPayloadTyping DEF QuoteInit
  <2>2. payload \in Payload /\ Len(payload.documents) <= MaxDocuments
    BY <1>1, EmptyPayloadTyping DEF QuoteInit
  <2>3. matters \in Seq(Matter) /\ Len(matters) <= MaxMatters
    BY <1>1 DEF QuoteInit
  <2>4. online \in BOOLEAN /\ quoted \subseteq Coverages /\ attached \subseteq Documents /\ overtaken \in BOOLEAN
        /\ officeDid \in 0..MaxOffice /\ failures \in 0..MaxFailures
    BY <1>1 DEF QuoteInit
  <2>5. QED
    BY <1>2, <2>1, <2>2, <2>3, <2>4 DEF QuoteTypeOK, SubmitterState, Matter
<1>4. ListedFits
  BY DEF QuoteInit, ListedFits
<1>5. FoundThere /\ ReadsFit /\ PayloadFits(payload)
  BY <1>1, <1>2, IdleTyping, EmptyPayloadTyping DEF QuoteInit, FoundThere, ReadsFit
<1>6. QED
  BY <1>3, <1>4, <1>5 DEF QuoteInv

\* A step of one submitter that writes no matter and leaves its promise as it was.
LEMMA SubmitterMoves ==
  ASSUME QuoteInv, NEW s \in Submitters, NEW new \in SubmitterState,
         submitter' = [submitter EXCEPT ![s] = new],
         UNCHANGED <<online, quoted, matters, officeDid>>,
         request' \in [status : RequestState \cup {"none"}, coverage : Choice],
         payload' \in Payload, Len(payload'.documents) <= MaxDocuments, PayloadFits(payload'),
         attached' \subseteq Documents, overtaken' \in BOOLEAN, failures' \in 0..MaxFailures,
         new.found \in DOMAIN matters \cup {0}, PayloadFits(new.read), Len(new.read.documents) <= MaxDocuments,
         new.at = "change" => new.coverage \in Coverages,
         \/ new.at = "find"
         \/ overtaken'
         \/ /\ UNCHANGED <<request, overtaken>>
            /\ Lists(s) => new.at = "record" /\ new.found \in Live \cup {0}
  PROVE  QuoteInv'
<1>0. /\ submitter \in [Submitters -> SubmitterState] /\ matters \in Seq(Matter) /\ Len(matters) <= MaxMatters
      /\ online \in BOOLEAN /\ quoted \subseteq Coverages /\ officeDid \in 0..MaxOffice
  BY QuoteTypes
<1>1. submitter' \in [Submitters -> SubmitterState] /\ submitter'[s] = new
      /\ \A r \in Submitters : r # s => submitter'[r] = submitter[r]
  BY <1>0
<1>2. QuoteTypeOK'
  BY <1>0, <1>1 DEF QuoteTypeOK, SubmitterState, Matter
<1>3. FoundThere' /\ ReadsFit'
  BY <1>1 DEF QuoteInv, FoundThere, ReadsFit
<1>4. Live' = Live /\ (Listed' <=> Listed)
  BY DEF Live, Listed
<1>5. \A r \in Submitters : r # s => (Lists(r)' <=> Lists(r))
  BY <1>1, <1>4 DEF Lists
<1>6. ListedFits'
  <2>1. CASE new.at = "find"
    <3>1. Lists(s)'
      BY <1>1, <2>1 DEF Lists
    <3>2. QED
      BY <3>1 DEF ListedFits
  <2>2. CASE overtaken'
    BY <2>2 DEF ListedFits
  <2>3. CASE /\ UNCHANGED <<request, overtaken>>
             /\ Lists(s) => new.at = "record" /\ new.found \in Live \cup {0}
    <3>1. Lists(s) => Lists(s)'
      BY <1>1, <1>4, <2>3 DEF Lists
    <3>2. (\E r \in Submitters : Lists(r)) => \E r \in Submitters : Lists(r)'
      BY <1>5, <3>1
    <3>3. QED
      BY <1>4, <2>3, <3>2 DEF QuoteInv, ListedFits
  <2>4. QED
    BY <2>1, <2>2, <2>3
<1>7. QED
  BY <1>2, <1>3, <1>6 DEF QuoteInv

LEMMA QuoteSubmits ==
  ASSUME QuoteInv, NEW s \in Submitters,
         \/ \E c \in Coverages : RequestCoverage(s, c) \/ ChangeChoice(s, c)
         \/ \E c \in Choice, priced \in BOOLEAN : CreateLead(s, c, priced)
         \/ UpsertRequest(s) \/ FindMatter(s)
         \/ \E d \in Documents : Attach(s, d)
  PROVE  QuoteInv'
<1>0. /\ submitter \in [Submitters -> SubmitterState] /\ submitter[s] \in SubmitterState
      /\ request \in [status : RequestState \cup {"none"}, coverage : Choice]
      /\ payload \in Payload /\ Len(payload.documents) <= MaxDocuments /\ PayloadFits(payload)
      /\ attached \subseteq Documents /\ overtaken \in BOOLEAN /\ failures \in 0..MaxFailures
      /\ DOMAIN matters = 1..Len(matters) /\ Len(matters) \in Nat /\ Len(matters) <= MaxMatters
  BY QuoteTypes DEF QuoteInv
<1>1. /\ submitter[s].found \in DOMAIN matters \cup {0} /\ PayloadFits(submitter[s].read)
      /\ Len(submitter[s].read.documents) <= MaxDocuments
  BY DEF QuoteInv, FoundThere, ReadsFit
<1>2. 0 <= MaxDocuments /\ MaxDocuments \in Nat
  BY QuoteNumbers
<1>3. Len(EmptyPayload.documents) <= MaxDocuments
  BY <1>2, EmptyPayloadTyping
<1>4. ASSUME NEW c \in Coverages, RequestCoverage(s, c) PROVE QuoteInv'
  <2> DEFINE new == [IdleSubmitter EXCEPT !.at = "upsert", !.coverage = c]
  <2>1. /\ submitter[s].at = "idle" /\ submitter' = [submitter EXCEPT ![s] = new]
        /\ UNCHANGED <<online, quoted, request, matters, payload, attached, overtaken, officeDid, failures>>
    BY <1>4 DEF RequestCoverage
  <2>2. new \in SubmitterState /\ new.at = "upsert" /\ new.found = 0 /\ new.read = EmptyPayload
    BY IdleTyping, EmptyPayloadTyping DEF SubmitterState
  <2> HIDE DEF new
  <2>3. QED
    BY <1>0, <1>3, <2>1, <2>2, EmptyPayloadTyping, SubmitterMoves DEF Lists
<1>5. ASSUME NEW c \in Coverages, ChangeChoice(s, c) PROVE QuoteInv'
  <2> DEFINE new == [IdleSubmitter EXCEPT !.at = "change", !.read = payload, !.coverage = c]
  <2>1. /\ submitter[s].at = "idle" /\ submitter' = [submitter EXCEPT ![s] = new]
        /\ UNCHANGED <<online, quoted, request, matters, payload, attached, overtaken, officeDid, failures>>
    BY <1>5 DEF ChangeChoice, ReadLead
  <2>2. new \in SubmitterState /\ new.at = "change" /\ new.found = 0 /\ new.read = payload /\ new.coverage = c
    BY <1>0, IdleTyping, EmptyPayloadTyping DEF SubmitterState
  <2> HIDE DEF new
  <2>3. QED
    BY <1>0, <2>1, <2>2, SubmitterMoves DEF Lists
<1>6. ASSUME NEW c \in Choice, NEW priced \in BOOLEAN, CreateLead(s, c, priced) PROVE QuoteInv'
  <2> DEFINE new == [submitter[s] EXCEPT !.at = "find"]
             price == IF priced THEN c ELSE NoCoverage
             form == [EmptyPayload EXCEPT !.coverage = c, !.price = price]
  <2>1. /\ submitter' = [submitter EXCEPT ![s] = new] /\ request' = [request EXCEPT !.status = "NEW"]
        /\ payload' = form
        /\ UNCHANGED <<online, quoted, matters, attached, overtaken, officeDid, failures>>
    BY <1>6 DEF CreateLead, Goes
  <2>2. /\ new \in SubmitterState /\ new.at = "find" /\ new.found = submitter[s].found /\ new.read = submitter[s].read
    BY <1>0 DEF SubmitterState
  <2>3. /\ form \in Payload /\ form.coverage = c /\ form.price \in {NoCoverage, c} /\ form.before = NoCoverage
        /\ form.documents = EmptyPayload.documents
    BY EmptyPayloadTyping DEF Payload
  <2>4. PayloadFits(form)
    BY <2>3 DEF PayloadFits
  <2>5. request' \in [status : RequestState \cup {"none"}, coverage : Choice]
    BY <1>0, <2>1 DEF RequestState
  <2> HIDE DEF new, form
  <2>6. QED
    BY <1>0, <1>1, <1>3, <2>1, <2>2, <2>3, <2>4, <2>5, SubmitterMoves
<1>7. CASE UpsertRequest(s)
  <2> DEFINE new == [submitter[s] EXCEPT !.at = "find"]
  <2>1. /\ submitter' = [submitter EXCEPT ![s] = new]
        /\ request' = [status |-> "NEW", coverage |-> submitter[s].coverage]
        /\ overtaken' = FALSE
        /\ UNCHANGED <<online, quoted, matters, payload, attached, officeDid, failures>>
    BY <1>7 DEF UpsertRequest, Goes
  <2>2. /\ new \in SubmitterState /\ new.at = "find" /\ new.found = submitter[s].found /\ new.read = submitter[s].read
    BY <1>0 DEF SubmitterState
  <2>3. request' \in [status : RequestState \cup {"none"}, coverage : Choice]
    BY <1>0, <2>1 DEF RequestState, SubmitterState
  <2> HIDE DEF new
  <2>4. QED
    BY <1>0, <1>1, <2>1, <2>2, <2>3, SubmitterMoves
<1>8. CASE FindMatter(s)
  <2>0. PICK i \in IF Live = {} THEN {0} ELSE Live :
          submitter' = [submitter EXCEPT ![s].at = "record", ![s].found = i]
    BY <1>8 DEF FindMatter
  <2> DEFINE new == [submitter[s] EXCEPT !.at = "record", !.found = i]
  <2>1. /\ submitter' = [submitter EXCEPT ![s] = new]
        /\ UNCHANGED <<online, quoted, request, matters, payload, attached, overtaken, officeDid, failures>>
    BY <1>0, <1>8, <2>0 DEF FindMatter
  <2>2. i \in Live \cup {0} /\ i \in DOMAIN matters \cup {0} /\ i \in 0..MaxMatters
    BY <1>0, QuoteNumbers DEF Live
  <2>3. /\ new \in SubmitterState /\ new.at = "record" /\ new.found = i /\ new.read = submitter[s].read
    BY <1>0, <2>2 DEF SubmitterState
  <2> HIDE DEF new
  <2>4. QED
    BY <1>0, <1>1, <2>1, <2>2, <2>3, SubmitterMoves
<1>9. ASSUME NEW d \in Documents, Attach(s, d) PROVE QuoteInv'
  <2> DEFINE new == [IdleSubmitter EXCEPT !.at = "attach", !.read = payload, !.files = <<d>>]
  <2>1. /\ submitter[s].at = "idle" /\ submitter' = [submitter EXCEPT ![s] = new]
        /\ UNCHANGED <<online, quoted, request, matters, payload, attached, overtaken, officeDid, failures>>
    BY <1>9 DEF Attach, ReadLead
  <2>2. <<d>> \in Seq(Documents)
    OBVIOUS
  <2>3. new \in SubmitterState /\ new.at = "attach" /\ new.found = 0 /\ new.read = payload
    BY <1>0, <2>2, IdleTyping DEF SubmitterState
  <2> HIDE DEF new
  <2>4. QED
    BY <1>0, <2>1, <2>3, SubmitterMoves DEF Lists
<1>10. QED
  BY <1>4, <1>5, <1>6, <1>7, <1>8, <1>9

LEMMA QuotePayloads ==
  ASSUME QuoteInv, NEW s \in Submitters,
         (\E priced \in BOOLEAN : WriteChoice(s, priced)) \/ WriteDocuments(s) \/ SubmitterFails(s)
  PROVE  QuoteInv'
<1> DEFINE read == submitter[s].read
<1>0. /\ submitter \in [Submitters -> SubmitterState] /\ submitter[s] \in SubmitterState
      /\ request \in [status : RequestState \cup {"none"}, coverage : Choice]
      /\ payload \in Payload /\ Len(payload.documents) <= MaxDocuments /\ PayloadFits(payload)
      /\ attached \subseteq Documents /\ overtaken \in BOOLEAN /\ failures \in 0..MaxFailures
  BY QuoteTypes DEF QuoteInv
<1>1. /\ read \in Payload /\ submitter[s].coverage \in Choice /\ submitter[s].files \in Seq(Documents)
      /\ read.documents \in Seq(Documents)
  BY <1>0 DEF SubmitterState, Payload
<1>2. PayloadFits(read) /\ Len(read.documents) <= MaxDocuments
  BY DEF QuoteInv, ReadsFit
<1>3. Len(EmptyPayload.documents) <= MaxDocuments
  BY QuoteNumbers, EmptyPayloadTyping
<1>4. ASSUME NEW priced \in BOOLEAN, WriteChoice(s, priced) PROVE QuoteInv'
  <2> DEFINE c == submitter[s].coverage
             price == IF priced THEN c ELSE NoCoverage
             before == IF read.coverage \notin {NoCoverage, c} THEN read.coverage ELSE read.before
             chosen == [read EXCEPT !.coverage = c, !.price = price, !.before = before]
  <2>1. /\ submitter[s].at = "change" /\ submitter' = [submitter EXCEPT ![s] = IdleSubmitter]
        /\ payload' = chosen
        /\ UNCHANGED <<online, quoted, request, matters, attached, overtaken, officeDid, failures>>
    BY <1>4 DEF WriteChoice, Ends, Chosen
  <2>2. c \in Coverages /\ c # NoCoverage
    BY <2>1, QuoteParameters DEF QuoteInv, ReadsFit
  <2>3. before \in Choice /\ price \in Choice /\ c \in Choice
    BY <1>1, EmptyPayloadTyping DEF Payload
  <2>4. before # NoCoverage => before # c
    BY <1>2, <2>2 DEF PayloadFits
  <2> HIDE DEF before, c
  <2>5. /\ chosen \in Payload /\ chosen.coverage = c /\ chosen.price \in {NoCoverage, c}
        /\ chosen.before = before /\ chosen.documents = read.documents
    BY <1>1, <2>3 DEF Payload
  <2>6. PayloadFits(chosen)
    BY <2>2, <2>4, <2>5 DEF PayloadFits, c
  <2> HIDE DEF chosen
  <2>7. QED
    BY <1>0, <1>2, <1>3, <2>1, <2>5, <2>6, IdleTyping, EmptyPayloadTyping, SubmitterMoves DEF Lists
<1>5. CASE WriteDocuments(s)
  <2> DEFINE all == read.documents \o submitter[s].files
             m == IF Len(all) > MaxDocuments THEN Len(all) - MaxDocuments + 1 ELSE 1
             keptOf == SubSeq(all, m, Len(all))
  <2>1. /\ submitter[s].at = "attach" /\ submitter' = [submitter EXCEPT ![s] = IdleSubmitter]
        /\ payload' = [read EXCEPT !.documents = keptOf]
        /\ attached' = attached \cup ToSet(submitter[s].files)
        /\ UNCHANGED <<online, quoted, request, matters, overtaken, officeDid, failures>>
    BY <1>5 DEF WriteDocuments, Ends
  <2>2. all \in Seq(Documents) /\ Len(all) \in Nat
    BY <1>1, ConcatProperties, LenProperties
  <2> HIDE DEF all
  <2>3. MaxDocuments \in Nat /\ MaxDocuments > 0 /\ m \in Nat /\ m >= 1
    BY <2>2, QuoteNumbers
  <2>4. \A i \in m..Len(all) : all[i] \in Documents
    BY <2>2, <2>3, ElementOfSeq
  <2>5. keptOf \in Seq(Documents) /\ Len(keptOf) = IF m <= Len(all) THEN Len(all) - m + 1 ELSE 0
    BY <2>2, <2>3, <2>4, SubSeqProperties
  <2>6. Len(keptOf) <= MaxDocuments
    <3>1. CASE Len(all) > MaxDocuments
      BY <2>2, <2>3, <2>5, <3>1
    <3>2. CASE ~(Len(all) > MaxDocuments)
      BY <2>2, <2>3, <2>5, <3>2
    <3>3. QED
      BY <3>1, <3>2
  <2> HIDE DEF keptOf, m
  <2>7. /\ payload' \in Payload /\ payload'.documents = keptOf /\ payload'.coverage = read.coverage
        /\ payload'.price = read.price /\ payload'.before = read.before
    BY <1>1, <2>1, <2>5 DEF Payload
  <2>8. PayloadFits(payload')
    BY <1>2, <2>7 DEF PayloadFits
  <2>9. attached' \subseteq Documents
    <3>1. ToSet(submitter[s].files) \subseteq Documents
      BY <1>1, ElementOfSeq, LenProperties DEF ToSet
    <3>2. QED
      BY <1>0, <2>1, <3>1
  <2>10. QED
    BY <1>0, <1>3, <2>1, <2>6, <2>7, <2>8, <2>9, IdleTyping, EmptyPayloadTyping, SubmitterMoves DEF Lists
<1>6. CASE SubmitterFails(s)
  <2>1. /\ submitter' = [submitter EXCEPT ![s] = IdleSubmitter] /\ submitter[s].at # "idle"
        /\ failures < MaxFailures /\ failures' = failures + 1
        /\ overtaken' = (overtaken \/ submitter[s].at \in {"find", "record"})
        /\ UNCHANGED <<online, quoted, request, matters, payload, attached, officeDid>>
    BY <1>6 DEF SubmitterFails, Ends
  <2>2. failures' \in 0..MaxFailures
    BY <1>0, <2>1, QuoteNumbers
  <2>3. CASE submitter[s].at \in {"find", "record"}
    <3>1. overtaken' = TRUE
      BY <2>1, <2>3
    <3>2. QED
      BY <1>0, <1>3, <2>1, <2>2, <3>1, IdleTyping, EmptyPayloadTyping, SubmitterMoves
  <2>4. CASE submitter[s].at \notin {"find", "record"}
    <3>1. overtaken' = overtaken
      BY <1>0, <2>1, <2>4
    <3>2. ~Lists(s)
      BY <2>4 DEF Lists
    <3>3. QED
      BY <1>0, <1>3, <2>1, <2>2, <3>1, <3>2, IdleTyping, EmptyPayloadTyping, SubmitterMoves
  <2>5. QED
    BY <2>3, <2>4
<1>7. QED
  BY <1>4, <1>5, <1>6

\* Its matter is the pending one: found and seen by the office, or new.
LEMMA QuoteRecords == ASSUME QuoteInv, NEW s \in Submitters, RecordQuote(s) PROVE QuoteInv'
<1> DEFINE i == submitter[s].found
           new == [status |-> "pending", unread |-> TRUE, cleared |-> FALSE]
<1>0. /\ submitter \in [Submitters -> SubmitterState] /\ submitter[s] \in SubmitterState
      /\ matters \in Seq(Matter) /\ Len(matters) \in Nat /\ Len(matters) <= MaxMatters
      /\ DOMAIN matters = 1..Len(matters) /\ \A j \in DOMAIN matters : matters[j] \in Matter
  BY QuoteTypes
<1>1. /\ submitter' = [submitter EXCEPT ![s] = IdleSubmitter] /\ submitter[s].at = "record"
      /\ UNCHANGED <<online, quoted, request, payload, attached, overtaken, officeDid, failures>>
  BY DEF RecordQuote, Ends
<1>2. i \in DOMAIN matters \cup {0}
  BY DEF QuoteInv, FoundThere
<1>3. /\ matters' \in Seq(Matter) /\ Len(matters') <= MaxMatters /\ DOMAIN matters \subseteq DOMAIN matters'
      /\ \A j \in DOMAIN matters : matters'[j].cleared = matters[j].cleared
      /\ \A j \in DOMAIN matters : j # i => matters'[j] = matters[j]
      /\ i # 0 => matters'[i].status = "pending"
      /\ i = 0 => \E j \in DOMAIN matters' : matters'[j] = new
  <2>1. CASE i # 0
    <3> DEFINE row == [matters[i] EXCEPT !.status = "pending", !.unread = TRUE]
    <3>1. i \in 1..Len(matters) /\ matters[i] \in Matter
      BY <1>0, <1>2, <2>1
    <3>2. row \in Matter /\ row.status = "pending" /\ row.cleared = matters[i].cleared
      BY <3>1 DEF Matter, MatterState
    <3>3. matters' = [matters EXCEPT ![i] = row]
      BY <1>0, <2>1, <3>1 DEF RecordQuote
    <3> HIDE DEF row
    <3>4. /\ matters' \in Seq(Matter) /\ Len(matters') = Len(matters)
          /\ \A j \in 1..Len(matters) : matters'[j] = IF j = i THEN row ELSE matters[j]
      BY <1>0, <3>1, <3>2, <3>3, ExceptSeq
    <3>5. DOMAIN matters' = 1..Len(matters)
      BY <3>4, LenProperties
    <3>6. QED
      BY <1>0, <2>1, <3>1, <3>2, <3>4, <3>5
  <2>2. CASE i = 0
    <3>1. new \in Matter
      BY DEF Matter, MatterState
    <3>2. matters' = Append(matters, new) /\ Len(matters) < MaxMatters
      BY <2>2 DEF RecordQuote
    <3> HIDE DEF new
    <3>3. /\ matters' \in Seq(Matter) /\ Len(matters') = Len(matters) + 1
          /\ \A j \in 1..Len(matters) : matters'[j] = matters[j]
          /\ matters'[Len(matters) + 1] = new
      BY <1>0, <3>1, <3>2, AppendProperties
    <3>4. DOMAIN matters' = 1..(Len(matters) + 1)
      BY <3>3, LenProperties
    <3>5. Len(matters') <= MaxMatters
      BY <1>0, <3>2, <3>3, QuoteNumbers
    <3>6. Len(matters) + 1 \in DOMAIN matters'
      BY <1>0, <3>4
    <3>7. QED
      BY <1>0, <2>2, <3>3, <3>4, <3>5, <3>6
  <2>3. QED
    BY <2>1, <2>2
<1>4. /\ submitter' \in [Submitters -> SubmitterState] /\ submitter'[s] = IdleSubmitter
      /\ \A r \in Submitters : r # s => submitter'[r] = submitter[r]
  BY <1>0, <1>1, IdleTyping
<1>5. QuoteTypeOK'
  BY <1>1, <1>3, <1>4 DEF QuoteInv, QuoteTypeOK, SubmitterState, Matter
<1>6. FoundThere' /\ ReadsFit'
  <2>1. Len(EmptyPayload.documents) <= MaxDocuments
    BY QuoteNumbers, EmptyPayloadTyping
  <2>2. QED
    BY <1>3, <1>4, <2>1, IdleTyping, EmptyPayloadTyping DEF QuoteInv, FoundThere, ReadsFit
<1>7. Live \subseteq Live'
  BY <1>3 DEF Live
<1>8. ListedFits'
  <2>1. CASE Lists(s)
    <3>1. i \in Live \cup {0}
      BY <1>1, <2>1 DEF Lists
    <3>2. Listed'
      <4>1. CASE i = 0
        BY <1>3, <4>1 DEF Listed, Live
      <4>2. CASE i # 0
        BY <1>3, <1>7, <3>1, <4>2 DEF Listed
      <4>3. QED
        BY <4>1, <4>2
    <3>3. Live' # {}
      BY <3>2 DEF Listed
    <3>4. QED
      BY <3>2, <3>3 DEF ListedFits
  <2>2. CASE ~Lists(s)
    <3>1. \A r \in Submitters : Lists(r) => Lists(r)'
      BY <1>4, <1>7, <2>2 DEF Lists
    <3>2. Listed => Listed'
      <4>1. \A j \in Live : matters[j].status = "pending" => matters'[j].status = "pending"
        <5>1. \A j \in Live : j \in DOMAIN matters /\ j # 0
          BY <1>0 DEF Live
        <5>2. QED
          BY <1>3, <5>1
      <4>2. QED
        BY <1>7, <4>1 DEF Listed
    <3>3. QED
      BY <1>1, <1>7, <3>1, <3>2 DEF QuoteInv, ListedFits
  <2>3. QED
    BY <2>1, <2>2
<1>9. QED
  BY <1>1, <1>5, <1>6, <1>8 DEF QuoteInv

\* A sequence of the same places, row by row.
LEMMA RowsOfMatters ==
  ASSUME NEW n \in Nat, NEW f \in [1..n -> Matter]
  PROVE  f \in Seq(Matter) /\ Len(f) = n /\ DOMAIN f = 1..n
<1>1. f \in Seq(Matter)
  BY SeqDef
<1>2. QED
  BY <1>1

\* What the office does to rows that stay in their places.
LEMMA OfficeMoves ==
  ASSUME QuoteInv, OfficeTouches,
         NEW f \in [1..Len(matters) -> Matter], matters' = f,
         request' \in [status : RequestState \cup {"none"}, coverage : Choice], overtaken' \in BOOLEAN,
         overtaken => overtaken',
         \/ overtaken'
         \/ /\ \A i \in DOMAIN matters : f[i].cleared = matters[i].cleared
            /\ request.status = "none" => request'.status = "none" \/ Live # {}
            /\ request'.status = "NEW" =>
                 \/ \A i \in Live : f[i].status = "pending"
                 \/ \E i \in Live : f[i].status = "pending"
                 \/ request.status = "NEW" /\ \A i \in Live : matters[i].status = "pending" => f[i].status = "pending"
  PROVE  QuoteInv'
<1>0. /\ Len(matters) \in Nat /\ Len(matters) <= MaxMatters /\ DOMAIN matters = 1..Len(matters)
      /\ officeDid \in 0..MaxOffice
  BY QuoteTypes
<1>1. matters' \in Seq(Matter) /\ Len(matters') = Len(matters) /\ DOMAIN matters' = DOMAIN matters
  BY <1>0, RowsOfMatters
<1>2. /\ UNCHANGED <<online, quoted, payload, submitter, attached, failures>>
      /\ officeDid < MaxOffice /\ officeDid' = officeDid + 1
  BY DEF OfficeTouches
<1>3. officeDid' \in 0..MaxOffice
  BY <1>0, <1>2, QuoteNumbers
<1>4. QuoteTypeOK'
  BY <1>0, <1>1, <1>2, <1>3 DEF QuoteInv, QuoteTypeOK, Matter
<1>5. FoundThere' /\ ReadsFit' /\ PayloadFits(payload)'
  BY <1>1, <1>2 DEF QuoteInv, FoundThere, ReadsFit
<1>6. ListedFits'
  <2>1. CASE overtaken'
    BY <2>1 DEF ListedFits
  <2>2. CASE /\ \A i \in DOMAIN matters : f[i].cleared = matters[i].cleared
             /\ request.status = "none" => request'.status = "none" \/ Live # {}
             /\ request'.status = "NEW" =>
                  \/ \A i \in Live : f[i].status = "pending"
                  \/ \E i \in Live : f[i].status = "pending"
                  \/ request.status = "NEW" /\ \A i \in Live : matters[i].status = "pending" => f[i].status = "pending"
    <3>1. Live' = Live
      BY <1>1, <2>2 DEF Live
    <3>2. \A s \in Submitters : Lists(s) => Lists(s)'
      BY <1>2, <3>1 DEF Lists
    <3>3. QED
      BY <2>2, <3>1, <3>2 DEF QuoteInv, ListedFits, Listed
  <2>3. QED
    BY <2>1, <2>2
<1>7. QED
  BY <1>4, <1>5, <1>6 DEF QuoteInv

LEMMA QuoteOffice ==
  ASSUME QuoteInv,
         \/ \E status \in RequestState : UpdateStatus(status) \/ \E i \in DOMAIN matters : UpdateMatter(i, status)
         \/ \E read \in SUBSET DOMAIN matters : ReadMatters(read)
         \/ ClearMatters
  PROVE  QuoteInv'
<1>0. /\ matters \in Seq(Matter) /\ Len(matters) \in Nat
      /\ DOMAIN matters = 1..Len(matters) /\ \A j \in DOMAIN matters : matters[j] \in Matter
      /\ request \in [status : RequestState \cup {"none"}, coverage : Choice] /\ overtaken \in BOOLEAN
      /\ matters \in [1..Len(matters) -> Matter]
  BY QuoteTypes, LenProperties
<1>1. \A status : MatterOf(status) \in MatterState
  BY DEF MatterOf, MatterState
<1>2. MatterOf("NEW") = "pending"
  BY DEF MatterOf
<1>3. ASSUME NEW status \in RequestState, UpdateStatus(status) PROVE QuoteInv'
  <2> DEFINE f == [i \in DOMAIN matters |-> IF i \in Live THEN [matters[i] EXCEPT !.status = MatterOf(status)] ELSE matters[i]]
  <2>1. /\ OfficeTouches /\ request.status # "none" /\ request' = [request EXCEPT !.status = status]
        /\ matters' = f /\ overtaken' = overtaken
    BY <1>3 DEF UpdateStatus
  <2>2. f \in [1..Len(matters) -> Matter] /\ (\A i \in DOMAIN matters : f[i].cleared = matters[i].cleared)
        /\ \A i \in Live : f[i].status = MatterOf(status)
    BY <1>0, <1>1 DEF Matter, Live
  <2>3. request' \in [status : RequestState \cup {"none"}, coverage : Choice] /\ request'.status = status
    BY <1>0, <2>1
  <2> HIDE DEF f
  <2>4. QED
    BY <1>0, <1>2, <2>1, <2>2, <2>3, OfficeMoves
<1>4. ASSUME NEW status \in RequestState, NEW i \in DOMAIN matters, UpdateMatter(i, status) PROVE QuoteInv'
  <2> DEFINE row == [matters[i] EXCEPT !.status = MatterOf(status)]
             f == [matters EXCEPT ![i] = row]
  <2>1. /\ OfficeTouches /\ i \in Live /\ request' = [request EXCEPT !.status = status]
        /\ matters' = f /\ overtaken' = overtaken
    BY <1>4 DEF UpdateMatter
  <2>2. row \in Matter /\ row.cleared = matters[i].cleared /\ row.status = MatterOf(status)
    BY <1>0, <1>1 DEF Matter
  <2> HIDE DEF row
  <2>3. f \in [1..Len(matters) -> Matter] /\ (\A j \in DOMAIN matters : f[j].cleared = matters[j].cleared)
        /\ f[i].status = MatterOf(status)
    BY <1>0, <2>2
  <2>4. request' \in [status : RequestState \cup {"none"}, coverage : Choice] /\ request'.status = status
    BY <1>0, <2>1
  <2> HIDE DEF f
  <2>5. QED
    BY <1>0, <1>2, <2>1, <2>3, <2>4, OfficeMoves
<1>5. ASSUME NEW read \in SUBSET DOMAIN matters, ReadMatters(read) PROVE QuoteInv'
  <2> DEFINE f == [i \in DOMAIN matters |-> [matters[i] EXCEPT !.unread = matters[i].unread /\ i \notin read]]
  <2>1. OfficeTouches /\ request' = request /\ matters' = f /\ overtaken' = overtaken
    BY <1>5 DEF ReadMatters
  <2>2. \A i \in DOMAIN matters :
          LET row == [matters[i] EXCEPT !.unread = matters[i].unread /\ i \notin read] IN
            row \in Matter /\ row.cleared = matters[i].cleared /\ row.status = matters[i].status
    BY <1>0 DEF Matter
  <2>3. f \in [1..Len(matters) -> Matter]
        /\ \A i \in DOMAIN matters : f[i].cleared = matters[i].cleared /\ f[i].status = matters[i].status
    BY <1>0, <2>2
  <2>4. \A i \in Live : i \in DOMAIN matters
    BY DEF Live
  <2> HIDE DEF f
  <2>5. QED
    BY <1>0, <2>1, <2>3, <2>4, OfficeMoves
<1>6. CASE ClearMatters
  <2> DEFINE f == [i \in DOMAIN matters |-> [matters[i] EXCEPT !.cleared = TRUE]]
  <2>1. OfficeTouches /\ request' = request /\ matters' = f /\ overtaken' = TRUE
    BY <1>6 DEF ClearMatters
  <2>2. f \in [1..Len(matters) -> Matter]
    BY <1>0 DEF Matter
  <2> HIDE DEF f
  <2>3. QED
    BY <1>0, <2>1, <2>2, OfficeMoves
<1>7. QED
  BY <1>3, <1>4, <1>5, <1>6

LEMMA QuoteKeepsFit == QuoteInv /\ [QuoteNext]_quoteVars => QuoteInv'
<1> SUFFICES ASSUME QuoteInv, [QuoteNext]_quoteVars PROVE QuoteInv'
  OBVIOUS
<1>1. CASE UNCHANGED quoteVars
  <2>1. Live' = Live /\ (\A s \in Submitters : Lists(s)' <=> Lists(s)) /\ (Listed' <=> Listed)
    BY <1>1 DEF quoteVars, Live, Lists, Listed
  <2>2. ListedFits'
    BY <1>1, <2>1 DEF quoteVars, QuoteInv, ListedFits
  <2>3. QED
    BY <1>1, <2>2 DEF quoteVars, QuoteInv, QuoteTypeOK, FoundThere, ReadsFit, PayloadFits
<1>2. ASSUME NEW coverages \in SUBSET Coverages, StoreQuote(coverages) PROVE QuoteInv'
  <2>1. Live' = Live /\ (\A s \in Submitters : Lists(s)' <=> Lists(s)) /\ (Listed' <=> Listed)
    BY <1>2 DEF StoreQuote, Live, Lists, Listed
  <2>2. ListedFits'
    BY <1>2, <2>1 DEF StoreQuote, QuoteInv, ListedFits
  <2>3. QED
    BY <1>2, <2>2 DEF StoreQuote, QuoteInv, QuoteTypeOK, FoundThere, ReadsFit, PayloadFits
<1>3. CASE QuoteNext
  BY <1>2, <1>3, QuoteSubmits, QuotePayloads, QuoteRecords, QuoteOffice DEF QuoteNext
<1>4. QED
  BY <1>1, <1>3

LEMMA QuotesFit == QuoteInv => NewIsListed /\ LeadFits
<1> SUFFICES ASSUME QuoteInv PROVE NewIsListed /\ LeadFits
  OBVIOUS
<1>1. NewIsListed
  BY DEF QuoteInv, ListedFits, Lists, Listed, NewIsListed, Submitting
<1>2. LeadFits
  BY DEF QuoteInv, PayloadFits, LeadFits
<1>3. QED
  BY <1>1, <1>2

-----------------------------------------------------------------------------
(* The months that close *)

\* What is written of a month was read in it, if it is not marked as a backfill.
TimelyRow(row, n, p) == row.live /\ ~row.backfilled => row.plan \in BilledOf(plansOf[n][p])

\* The plan of each number is among those of the month that ended, on its 1st.
PlansKept == first => /\ month > 0
                      /\ \A n \in Numbers : number[n].plan \in plansOf[n][month - 1]

\* A close is of a month that ended; past its check, that one is not closed yet
\* or is forced; what it is about to write was read in time.
ClosingFits ==
  closing.step # "idle" =>
    /\ closing.period < month
    /\ closing.step \in {"reading", "writing"} => closing.force \/ ~Closed(closing.period)
    /\ closing.step = "writing" => \A n \in Numbers : TimelyRow(closing.month[n], n, closing.period)

\* No month is closed before its end.
NoneAhead == \A p \in Months : p >= month => \A n \in Numbers : ~closes[p][n].live

CloseInv ==
  /\ CloseTypeOK /\ UnmarkedIsTimely /\ PlansKept /\ ClosingFits /\ NoneAhead
  /\ due => first

CloseType(c) ==
  c \in [step : {"idle", "checking", "reading", "writing"}, period : Months, force : BOOLEAN,
         cron : BOOLEAN, existing : SUBSET Numbers, month : [Numbers -> Rows]]

LEMMA NoRowTyping == NoRow \in Rows /\ ~NoRow.live
BY CloseParameters DEF NoRow, Rows

\* What a number is billed on is among what its plan may be billed on.
LEMMA BilledFits ==
  ASSUME NEW n \in Numbers, NEW p, NEW plans, number[n].plan \in plans, number[n].plan \in PlanIds
  PROVE  BilledPlan(n, p) \in Plans /\ BilledPlan(n, p) \in BilledOf(plans)
<1>1. CASE number[n].plan \in Plans /\ (number[n].plan = Trial => FirstMonth(n, p))
  <2>1. BilledPlan(n, p) = number[n].plan
    BY <1>1 DEF BilledPlan
  <2>2. QED
    BY <1>1, <2>1 DEF BilledOf
<1>2. CASE ~(number[n].plan \in Plans /\ (number[n].plan = Trial => FirstMonth(n, p)))
  <2>1. BilledPlan(n, p) = Smallest
    BY <1>2 DEF BilledPlan
  <2>2. number[n].plan \in {Trial, NoPlan}
    BY <1>2 DEF PlanIds
  <2>3. Smallest \in BilledOf(plans)
    BY <2>2 DEF BilledOf
  <2>4. QED
    BY <2>1, <2>3, CloseParameters
<1>3. QED
  BY <1>1, <1>2

LEMMA BilledGrows ==
  ASSUME NEW few, NEW many, few \subseteq many PROVE BilledOf(few) \subseteq BilledOf(many)
BY DEF BilledOf

LEMMA NotClosingTyping == CloseType(NotClosing) /\ NotClosing.step = "idle"
<1>1. [n \in Numbers |-> NoRow] \in [Numbers -> Rows]
  BY NoRowTyping
<1>2. 0 \in Months
  BY CloseParameters DEF Months
<1>3. QED
  BY <1>1, <1>2 DEF CloseType, NotClosing

LEMMA MonthsAre == /\ Months \subseteq Nat /\ LastMonth \in Nat
                   /\ \A p \in Nat : p <= LastMonth => p \in Months
                   /\ \A p \in Months : p <= LastMonth
BY CloseParameters DEF Months

LEMMA CloseInitFits == CloseInit => CloseInv
<1> SUFFICES ASSUME CloseInit PROVE CloseInv
  OBVIOUS
<1>0. 0 \in Months
  BY MonthsAre
<1>1. CloseTypeOK
  <2>1. closes \in [Months -> [Numbers -> Rows]]
    BY NoRowTyping DEF CloseInit
  <2>2. closing \in [step : {"idle", "checking", "reading", "writing"}, period : Months, force : BOOLEAN,
                  cron : BOOLEAN, existing : SUBSET Numbers, month : [Numbers -> Rows]]
    BY NotClosingTyping DEF CloseInit, CloseType
  <2>3. 0 \in 0..MaxChanges /\ 0 \in 0..MaxMishaps /\ 0 \in 0..1
    BY CloseParameters
  <2>4. /\ number \in [Numbers -> [state : {"active", "off", "removed"}, plan : PlanIds]]
        /\ recorded \in [Numbers -> [Months -> BOOLEAN]]
    BY CloseParameters DEF CloseInit, PlanIds
  <2>5. /\ plansOf \in [Numbers -> [Months -> SUBSET PlanIds]] /\ endPlan \in [Numbers -> [Months -> PlanIds]]
    BY CloseParameters DEF CloseInit, PlanIds
  <2>6. month \in Months /\ first \in BOOLEAN /\ due \in BOOLEAN /\ missed \in BOOLEAN
    BY <1>0 DEF CloseInit
  <2>7. changes \in 0..MaxChanges /\ mishaps \in 0..MaxMishaps
    BY <2>3 DEF CloseInit
  <2>8. QED
    BY <2>1, <2>2, <2>4, <2>5, <2>6, <2>7 DEF CloseTypeOK
<1>2. \A p \in Months, n \in Numbers : ~closes[p][n].live
  BY NoRowTyping DEF CloseInit
<1>3. QED
  BY <1>1, <1>2, NotClosingTyping DEF CloseInit, CloseInv, UnmarkedIsTimely, PlansKept, ClosingFits, NoneAhead

\* Plans, months and rows are left, and what the close knows is still so.
LEMMA ClosingChanges ==
  ASSUME CloseInv, CloseType(closing'), due' => first, missed' \in BOOLEAN, due' \in BOOLEAN,
         mishaps' \in 0..MaxMishaps,
         UNCHANGED <<month, first, number, recorded, closes, plansOf, endPlan, changes>>,
         closing'.step # "idle" =>
           /\ closing'.period < month
           /\ closing'.step \in {"reading", "writing"} => closing'.force \/ ~Closed(closing'.period)
           /\ closing'.step = "writing" => \A n \in Numbers : TimelyRow(closing'.month[n], n, closing'.period)
  PROVE  CloseInv'
<1>1. CloseTypeOK'
  BY DEF CloseInv, CloseTypeOK, CloseType
<1>2. UnmarkedIsTimely' /\ PlansKept' /\ NoneAhead'
  BY DEF CloseInv, UnmarkedIsTimely, BilledOf, PlansKept, NoneAhead
<1>3. ClosingFits'
  BY DEF ClosingFits, Closed, TimelyRow, BilledOf
<1>4. QED
  BY <1>1, <1>2, <1>3 DEF CloseInv

LEMMA StartTyping ==
  ASSUME NEW p \in Months, NEW force \in BOOLEAN, NEW cron \in BOOLEAN, StartClose(p, force, cron)
  PROVE  CloseType(closing') /\ closing'.step = "checking" /\ closing'.period = p
<1>1. closing' = [NotClosing EXCEPT !.step = "checking", !.period = p, !.force = force, !.cron = cron]
  BY DEF StartClose
<1>2. QED
  BY <1>1, NotClosingTyping DEF CloseType

LEMMA CloseStarts ==
  ASSUME CloseInv, ScheduledClose \/ \E p \in Months, force \in BOOLEAN : AskClose(p, force)
  PROVE  CloseInv'
<1>0. /\ month \in Months /\ CloseType(closing) /\ missed \in BOOLEAN /\ due \in BOOLEAN
      /\ mishaps \in 0..MaxMishaps
  BY DEF CloseInv, CloseTypeOK, CloseType
<1>1. CASE ScheduledClose /\ closing.step = "idle"
  <2>1. /\ month - 1 \in Months /\ month - 1 < month
    BY <1>0, <1>1, MonthsAre DEF ScheduledClose, CloseInv, PlansKept
  <2>2. CloseType(closing') /\ closing'.step = "checking" /\ closing'.period = month - 1
    BY <1>1, <2>1, StartTyping DEF ScheduledClose
  <2>3. QED
    BY <1>0, <1>1, <2>1, <2>2, ClosingChanges DEF ScheduledClose
<1>2. CASE ScheduledClose /\ closing.step # "idle"
  <2>1. UNCHANGED closing /\ missed' = TRUE /\ due' = FALSE
        /\ UNCHANGED <<month, first, number, recorded, closes, plansOf, endPlan, changes, mishaps>>
    BY <1>2 DEF ScheduledClose
  <2>2. CloseTypeOK'
    BY <1>0, <2>1 DEF CloseInv, CloseTypeOK
  <2>3. QED
    BY <2>1, <2>2 DEF CloseInv, UnmarkedIsTimely, BilledOf, PlansKept, NoneAhead, ClosingFits, Closed, TimelyRow
<1>3. ASSUME NEW p \in Months, NEW force \in BOOLEAN, AskClose(p, force) PROVE CloseInv'
  <2>1. CloseType(closing') /\ closing'.step = "checking" /\ closing'.period = p
    BY <1>3, StartTyping DEF AskClose
  <2>2. QED
    BY <1>0, <1>3, <2>1, ClosingChanges DEF AskClose, CloseInv, closeHistory
<1>4. QED
  BY <1>1, <1>2, <1>3

LEMMA CloseReads ==
  ASSUME CloseInv, ReadExisting \/ ReadMonth \/ CloseBreaks PROVE CloseInv'
<1>0. /\ month \in Months /\ CloseType(closing) /\ missed \in BOOLEAN /\ due \in BOOLEAN /\ first \in BOOLEAN
      /\ mishaps \in 0..MaxMishaps /\ (due => first)
      /\ number \in [Numbers -> [state : {"active", "off", "removed"}, plan : PlanIds]]
      /\ recorded \in [Numbers -> [Months -> BOOLEAN]]
  BY DEF CloseInv, CloseTypeOK, CloseType
<1>1. CASE ReadExisting
  <2> USE <1>1 DEF ReadExisting
  <2>0. /\ closing.step = "checking" /\ closing.period < month
        /\ UNCHANGED <<month, first, number, recorded, closes, due, plansOf, endPlan, missed, changes, mishaps>>
    BY DEF CloseInv, ClosingFits, closeHistory
  <2>1. CASE Closed(closing.period) /\ ~closing.force
    <3>1. closing' = NotClosing
      BY <2>1
    <3>2. QED
      BY <1>0, <2>0, <3>1, NotClosingTyping, ClosingChanges
  <2>2. CASE ~(Closed(closing.period) /\ ~closing.force)
    <3>1. closing' = [closing EXCEPT !.step = "reading", !.existing = LiveRows(closing.period)]
      BY <2>2
    <3>2. LiveRows(closing.period) \subseteq Numbers
      BY DEF LiveRows
    <3>3. CloseType(closing')
      BY <1>0, <3>1, <3>2 DEF CloseType
    <3>4. closing'.step = "reading" /\ closing'.period = closing.period /\ closing'.force = closing.force
      BY <1>0, <3>1 DEF CloseType
    <3>5. closing.force \/ ~Closed(closing.period)
      BY <1>0, <2>2 DEF CloseType
    <3>6. QED
      BY <1>0, <2>0, <3>3, <3>4, <3>5, ClosingChanges
  <2>3. QED
    BY <2>1, <2>2
<1>2. CASE ReadMonth
  <2> DEFINE p == closing.period
             read == [n \in Numbers |->
                       IF Kept(n, p)
                       THEN [live |-> TRUE, plan |-> BilledPlan(n, p), usage |-> recorded[n][p], backfilled |-> IsBackfill(p)]
                       ELSE NoRow]
  <2>0. /\ closing.step = "reading" /\ p < month /\ (closing.force \/ ~Closed(p))
        /\ UNCHANGED <<month, first, number, recorded, closes, due, plansOf, endPlan, missed, changes, mishaps>>
    BY <1>2 DEF ReadMonth, CloseInv, ClosingFits, closeHistory
  <2>1. closing' = [closing EXCEPT !.step = "writing", !.month = read]
    BY <1>2 DEF ReadMonth
  <2>2. p \in Months /\ IsBackfill(p) \in BOOLEAN
    BY <1>0, MonthsAre DEF CloseType, IsBackfill
  <2>3. read \in [Numbers -> Rows]
    <3>1. \A n \in Numbers : BilledPlan(n, p) \in Plans
      BY <1>0, BilledFits
    <3>2. QED
      BY <1>0, <2>2, <3>1, NoRowTyping DEF Rows
  <2>4. \A n \in Numbers : TimelyRow(read[n], n, p)
    <3> SUFFICES ASSUME NEW n \in Numbers, read[n].live, ~read[n].backfilled
                 PROVE  read[n].plan \in BilledOf(plansOf[n][p])
      BY DEF TimelyRow
    <3>1. read[n] = [live |-> TRUE, plan |-> BilledPlan(n, p), usage |-> recorded[n][p], backfilled |-> IsBackfill(p)]
      BY NoRowTyping
    <3>2. ~IsBackfill(p)
      BY <3>1
    <3>3. first /\ month = p + 1
      <4>1. first /\ ~(month > p + 1)
        BY <3>2 DEF IsBackfill
      <4>2. month \in Nat /\ p \in Nat /\ p < month
        BY <1>0, <2>0, <2>2, MonthsAre
      <4>3. month = p + 1
        BY <4>1, <4>2
      <4>4. QED
        BY <4>1, <4>3
    <3>4. number[n].plan \in plansOf[n][month - 1]
      BY <3>3 DEF CloseInv, PlansKept
    <3>5. p \in Nat
      BY <2>2, MonthsAre
    <3>6. month - 1 = p
      BY <3>3, <3>5
    <3>7. number[n].plan \in plansOf[n][p] /\ number[n].plan \in PlanIds
      BY <1>0, <3>4, <3>6
    <3>8. BilledPlan(n, p) \in BilledOf(plansOf[n][p])
      BY <3>7, BilledFits
    <3>9. QED
      BY <3>1, <3>8
  <2> HIDE DEF read
  <2>5. /\ CloseType(closing') /\ closing'.step = "writing" /\ closing'.period = p
        /\ closing'.force = closing.force /\ closing'.month = read
    BY <1>0, <2>1, <2>3 DEF CloseType
  <2>6. QED
    BY <1>0, <2>0, <2>4, <2>5, ClosingChanges
<1>3. CASE CloseBreaks
  <2>1. /\ closing' = NotClosing /\ due' \in {due, FALSE}
        /\ mishaps < MaxMishaps /\ mishaps' = mishaps + 1
        /\ missed' = (missed \/ closing.cron \/ (due /\ ~due'))
        /\ UNCHANGED <<month, first, number, recorded, closes, plansOf, endPlan, changes>>
    BY <1>3 DEF CloseBreaks
  <2>2. mishaps' \in 0..MaxMishaps
    BY <1>0, <2>1, CloseParameters
  <2>3. due' \in BOOLEAN /\ missed' \in BOOLEAN /\ (due' => first)
    <3>1. missed' \in BOOLEAN
      <4>1. missed' = (missed \/ closing.cron \/ (due /\ ~due'))
        BY <2>1
      <4>2. QED
        BY <4>1, Zenon
    <3>2. due' \in BOOLEAN
      BY <1>0, <2>1
    <3>3. due' => first
      BY <1>0, <2>1
    <3>4. QED
      BY <3>1, <3>2, <3>3
  <2>4. QED
    BY <2>1, <2>2, <2>3, NotClosingTyping, ClosingChanges
<1>4. QED
  BY <1>1, <1>2, <1>3

\* Only the month of the close in course is written.
LEMMA OneMonthWritten ==
  ASSUME CloseInv, WriteClose
  PROVE  /\ closing.period \in Months
         /\ \A p \in Months : p # closing.period => closes'[p] = closes[p]
         /\ \A n \in Numbers : \/ closes'[closing.period][n] = closing.month[n] /\ closing.month[n].live
                               \/ ~closes'[closing.period][n].live
                               \/ closes'[closing.period][n] = closes[closing.period][n]
         /\ closes' \in [Months -> [Numbers -> Rows]]
<1> DEFINE p == closing.period
           new == [n \in Numbers |->
                    IF closing.month[n].live THEN closing.month[n]
                    ELSE IF n \in closing.existing THEN [closes[p][n] EXCEPT !.live = FALSE]
                    ELSE closes[p][n]]
<1>1. closes' = [closes EXCEPT ![p] = new]
  BY DEF WriteClose
<1>2. CloseType(closing) /\ closes \in [Months -> [Numbers -> Rows]]
  BY DEF CloseInv, CloseTypeOK, CloseType
<1>3. p \in Months /\ closing.month \in [Numbers -> Rows]
  BY <1>2 DEF CloseType
<1>4. \A n \in Numbers : closes[p][n] \in Rows
  BY <1>2, <1>3
<1>5. \A n \in Numbers : LET row == [closes[p][n] EXCEPT !.live = FALSE] IN row \in Rows /\ ~row.live
  BY <1>4 DEF Rows
<1>6. new \in [Numbers -> Rows]
  BY <1>3, <1>4, <1>5
<1>7. \A n \in Numbers : \/ new[n] = closing.month[n] /\ closing.month[n].live
                         \/ ~new[n].live
                         \/ new[n] = closes[p][n]
  BY <1>5
<1> HIDE DEF new
<1>8. QED
  BY <1>1, <1>2, <1>3, <1>6, <1>7

LEMMA CloseWrites == ASSUME CloseInv, WriteClose PROVE CloseInv'
<1> DEFINE p == closing.period
<1>1. /\ closing.step = "writing" /\ closing' = NotClosing
      /\ UNCHANGED <<month, first, number, recorded, due, plansOf, endPlan, missed, changes, mishaps>>
  BY DEF WriteClose, closeHistory
<1>2. CloseTypeOK'
  BY <1>1, OneMonthWritten, NotClosingTyping DEF CloseInv, CloseTypeOK, CloseType
<1>3. p \in Months /\ p < month /\ \A n \in Numbers : TimelyRow(closing.month[n], n, p)
  BY <1>1, OneMonthWritten DEF CloseInv, ClosingFits
<1>4. UnmarkedIsTimely'
  <2> SUFFICES ASSUME NEW q \in Months, NEW n \in Numbers, closes'[q][n].live, ~closes'[q][n].backfilled
               PROVE  closes'[q][n].plan \in BilledOf(plansOf[n][q])
    BY <1>1 DEF UnmarkedIsTimely, BilledOf
  <2>1. CASE closes'[q][n] = closes[q][n]
    BY <2>1 DEF CloseInv, UnmarkedIsTimely
  <2>2. CASE q = p /\ closes'[p][n] = closing.month[n]
    BY <1>3, <2>2 DEF TimelyRow
  <2>3. QED
    BY <2>1, <2>2, OneMonthWritten
<1>5. NoneAhead'
  <2>1. \A q \in Months : q >= month => q # p
    BY <1>3, MonthsAre DEF CloseInv, CloseTypeOK
  <2>2. QED
    BY <1>1, <2>1, OneMonthWritten DEF CloseInv, NoneAhead
<1>6. PlansKept' /\ ClosingFits' /\ (due' => first')
  BY <1>1, NotClosingTyping DEF CloseInv, PlansKept, ClosingFits
<1>7. QED
  BY <1>2, <1>4, <1>5, <1>6 DEF CloseInv

LEMMA CloseDays ==
  ASSUME CloseInv, MonthTurns \/ FirstEnds PROVE CloseInv'
<1>0. month \in Months /\ closing.step = "idle"
  BY DEF CloseInv, CloseTypeOK, MonthTurns, FirstEnds
<1>1. CASE MonthTurns
  <2>0. /\ month < LastMonth /\ month' = month + 1 /\ first' = TRUE /\ due' = TRUE /\ missed' = FALSE
        /\ endPlan' = [n \in Numbers |-> [endPlan[n] EXCEPT ![month] = number[n].plan]]
        /\ plansOf' = [n \in Numbers |-> [plansOf[n] EXCEPT ![month] = {number[n].plan}]]
        /\ UNCHANGED <<number, recorded, closes, closing, changes, mishaps>>
    BY <1>1 DEF MonthTurns
  <2>c. month < LastMonth /\ month' = month + 1 /\ month \in Nat /\ LastMonth \in Nat
    BY <1>0, <2>0, MonthsAre
  <2>d. month' \in Nat /\ month' > 0 /\ month' - 1 = month /\ month' <= LastMonth
    BY <2>c
  <2>1. month' \in Months /\ month' > 0 /\ month' - 1 = month
    BY <2>d, MonthsAre
  <2>a. /\ number \in [Numbers -> [state : {"active", "off", "removed"}, plan : PlanIds]]
        /\ plansOf \in [Numbers -> [Months -> SUBSET PlanIds]] /\ endPlan \in [Numbers -> [Months -> PlanIds]]
    BY DEF CloseInv, CloseTypeOK
  <2>b. \A n \in Numbers : number[n].plan \in PlanIds
    BY <2>a
  <2>2. /\ plansOf' \in [Numbers -> [Months -> SUBSET PlanIds]]
        /\ endPlan' \in [Numbers -> [Months -> PlanIds]]
    <3>1. \A n \in Numbers : [plansOf[n] EXCEPT ![month] = {number[n].plan}] \in [Months -> SUBSET PlanIds]
      BY <1>0, <2>a, <2>b
    <3>2. \A n \in Numbers : [endPlan[n] EXCEPT ![month] = number[n].plan] \in [Months -> PlanIds]
      BY <1>0, <2>a, <2>b
    <3>3. QED
      BY <2>0, <3>1, <3>2
  <2>3. CloseTypeOK'
    BY <2>0, <2>1, <2>2 DEF CloseInv, CloseTypeOK
  <2>4. \A n \in Numbers : /\ plansOf'[n][month] = {number[n].plan}
                           /\ \A p \in Months : p # month => plansOf'[n][p] = plansOf[n][p]
    BY <1>0, <2>0 DEF CloseInv, CloseTypeOK
  <2>5. UnmarkedIsTimely'
    <3>1. \A n \in Numbers : ~closes[month][n].live
      BY <1>0, MonthsAre DEF CloseInv, NoneAhead
    <3>2. QED
      BY <2>0, <2>4, <3>1 DEF CloseInv, UnmarkedIsTimely, BilledOf
  <2>6. PlansKept'
    BY <2>0, <2>1, <2>4 DEF PlansKept
  <2>7. NoneAhead'
    <3>1. \A p \in Months : p >= month' => p >= month
      BY <1>0, <2>0, MonthsAre
    <3>2. QED
      BY <2>0, <3>1 DEF CloseInv, NoneAhead
  <2>8. QED
    BY <1>0, <2>0, <2>3, <2>5, <2>6, <2>7 DEF CloseInv, ClosingFits
<1>2. CASE FirstEnds
  <2>0. first' = FALSE /\ ~due
        /\ UNCHANGED <<month, number, recorded, closes, closing, due, plansOf, endPlan, missed, changes, mishaps>>
    BY <1>2 DEF FirstEnds, closeHistory
  <2>1. CloseTypeOK'
    BY <2>0 DEF CloseInv, CloseTypeOK
  <2>2. QED
    BY <1>0, <2>0, <2>1 DEF CloseInv, UnmarkedIsTimely, BilledOf, PlansKept, NoneAhead, ClosingFits
<1>3. QED
  BY <1>1, <1>2

LEMMA CloseNumbers ==
  ASSUME CloseInv, NEW n \in Numbers,
         \/ \E p \in PlanIds : ChangePlan(n, p)
         \/ \E s \in {"off", "removed"} : TakeOut(n, s)
         \/ \E m \in Months : Record(n, m)
  PROVE  CloseInv'
<1>0. /\ number \in [Numbers -> [state : {"active", "off", "removed"}, plan : PlanIds]]
      /\ recorded \in [Numbers -> [Months -> BOOLEAN]] /\ plansOf \in [Numbers -> [Months -> SUBSET PlanIds]]
      /\ month \in Months /\ changes \in 0..MaxChanges
  BY DEF CloseInv, CloseTypeOK
<1>1. ASSUME NEW p \in PlanIds, ChangePlan(n, p) PROVE CloseInv'
  <2>0. /\ number' = [number EXCEPT ![n].plan = p]
        /\ plansOf' = IF first THEN [plansOf EXCEPT ![n][month - 1] = @ \cup {p}] ELSE plansOf
        /\ changes < MaxChanges /\ changes' = changes + 1
        /\ UNCHANGED <<month, first, recorded, closes, closing, due, endPlan, missed, mishaps>>
    BY <1>1 DEF ChangePlan
  <2>1. /\ number' \in [Numbers -> [state : {"active", "off", "removed"}, plan : PlanIds]]
        /\ number'[n].plan = p /\ \A o \in Numbers : o # n => number'[o] = number[o]
    BY <1>0, <2>0
  <2>2. changes' \in 0..MaxChanges
    BY <1>0, <2>0, CloseParameters
  <2>3. /\ plansOf' \in [Numbers -> [Months -> SUBSET PlanIds]]
        /\ \A o \in Numbers, q \in Months : plansOf[o][q] \subseteq plansOf'[o][q]
        /\ first => p \in plansOf'[n][month - 1]
    <3>1. CASE first
      <4>1. month - 1 \in Months
        BY <1>0, <3>1, MonthsAre DEF CloseInv, PlansKept
      <4>2. plansOf' = [plansOf EXCEPT ![n] = [plansOf[n] EXCEPT ![month - 1] = plansOf[n][month - 1] \cup {p}]]
        BY <2>0, <3>1
      <4>3. plansOf[n] \in [Months -> SUBSET PlanIds]
        BY <1>0
      <4>4. [plansOf[n] EXCEPT ![month - 1] = plansOf[n][month - 1] \cup {p}] \in [Months -> SUBSET PlanIds]
        BY <4>1, <4>3
      <4>5. QED
        BY <1>0, <4>1, <4>2, <4>3, <4>4
    <3>2. CASE ~first
      BY <1>0, <2>0, <3>2
    <3>3. QED
      BY <3>1, <3>2
  <2>4. CloseTypeOK'
    BY <2>0, <2>1, <2>2, <2>3 DEF CloseInv, CloseTypeOK
  <2>5. UnmarkedIsTimely'
    <3>1. \A o \in Numbers, q \in Months : BilledOf(plansOf[o][q]) \subseteq BilledOf(plansOf'[o][q])
      BY <2>3, BilledGrows
    <3>2. QED
      BY <2>0, <3>1 DEF CloseInv, UnmarkedIsTimely
  <2>6. PlansKept'
    <3>1. first => month > 0 /\ month - 1 \in Months
      BY <1>0, MonthsAre DEF CloseInv, PlansKept
    <3>2. QED
      BY <2>0, <2>1, <2>3, <3>1 DEF CloseInv, PlansKept
  <2>7. ClosingFits'
    <3>1. CloseType(closing)
      BY DEF CloseInv, CloseTypeOK, CloseType
    <3>2. closing.period \in Months
      BY <3>1 DEF CloseType
    <3>3. QED
      <4>1. \A o \in Numbers, q \in Months : BilledOf(plansOf[o][q]) \subseteq BilledOf(plansOf'[o][q])
        BY <2>3, BilledGrows
      <4>2. QED
        BY <2>0, <3>2, <4>1 DEF CloseInv, ClosingFits, Closed, TimelyRow
  <2>8. QED
    BY <2>0, <2>4, <2>5, <2>6, <2>7 DEF CloseInv, NoneAhead
<1>2. ASSUME NEW s \in {"off", "removed"}, TakeOut(n, s) PROVE CloseInv'
  <2>0. /\ number' = [number EXCEPT ![n].state = s]
        /\ changes < MaxChanges /\ changes' = changes + 1
        /\ UNCHANGED <<month, first, recorded, closes, closing, due, plansOf, endPlan, missed, mishaps>>
    BY <1>2 DEF TakeOut, closeHistory
  <2>1. /\ number' \in [Numbers -> [state : {"active", "off", "removed"}, plan : PlanIds]]
        /\ \A o \in Numbers : number'[o].plan = number[o].plan
    BY <1>0, <2>0
  <2>2. changes' \in 0..MaxChanges
    BY <1>0, <2>0, CloseParameters
  <2>3. CloseTypeOK'
    BY <2>0, <2>1, <2>2 DEF CloseInv, CloseTypeOK
  <2>4. QED
    BY <2>0, <2>1, <2>3 DEF CloseInv, UnmarkedIsTimely, BilledOf, PlansKept, NoneAhead, ClosingFits, Closed, TimelyRow
<1>3. ASSUME NEW m \in Months, Record(n, m) PROVE CloseInv'
  <2>0. /\ recorded' = [recorded EXCEPT ![n][m] = TRUE]
        /\ UNCHANGED <<month, first, number, closes, closing, due, plansOf, endPlan, missed, changes, mishaps>>
    BY <1>3 DEF Record, closeHistory
  <2>1. recorded' \in [Numbers -> [Months -> BOOLEAN]]
    BY <1>0, <2>0
  <2>2. CloseTypeOK'
    BY <2>0, <2>1 DEF CloseInv, CloseTypeOK
  <2>3. QED
    BY <2>0, <2>2 DEF CloseInv, UnmarkedIsTimely, BilledOf, PlansKept, NoneAhead, ClosingFits, Closed, TimelyRow
<1>4. QED
  BY <1>1, <1>2, <1>3

LEMMA CloseKeepsFit == CloseInv /\ [CloseNext]_closeVars => CloseInv'
<1> SUFFICES ASSUME CloseInv, [CloseNext]_closeVars PROVE CloseInv'
  OBVIOUS
<1>1. CASE UNCHANGED closeVars
  BY <1>1 DEF closeVars, closeHistory, CloseInv, CloseTypeOK, UnmarkedIsTimely, BilledOf, PlansKept, NoneAhead, ClosingFits,
              Closed, TimelyRow
<1>2. CASE CloseNext
  BY <1>2, CloseStarts, CloseReads, CloseWrites, CloseDays, CloseNumbers DEF CloseNext
<1>3. QED
  BY <1>1, <1>2

\* A month that has rows is written again by a forced close alone.
LEMMA CloseFreezes ==
  CloseInv /\ [CloseNext]_closeVars =>
    \A p \in Months : Closed(p) /\ closes'[p] # closes[p] => closing.force
<1> SUFFICES ASSUME CloseInv, [CloseNext]_closeVars, NEW p \in Months, Closed(p), closes'[p] # closes[p]
             PROVE  closing.force
  OBVIOUS
<1>1. WriteClose
  BY DEF CloseNext, closeVars, ScheduledClose, AskClose, ReadExisting, ReadMonth, MonthTurns, FirstEnds,
         CloseBreaks, ChangePlan, TakeOut, Record
<1>2. closing.period = p /\ closing.step = "writing"
  BY <1>1, OneMonthWritten DEF WriteClose
<1>3. QED
  BY <1>2 DEF CloseInv, ClosingFits

-----------------------------------------------------------------------------
(* The balance of each month *)

\* What was read of the month p: its state in the days of grace, or none.
StateFits(d, p) == d \in debts[p] \cup {Unread} /\ (d = Unread <=> ~MonthEnd(p))

\* What was counted of the month p in its days of grace was so in them.
CountFits(c, p) == MonthEnd(p) => c \in counts[p]

\* A snapshot is of months that ended; what it has read of one is still so.
SnapshotFits ==
  snapshot.step # "idle" =>
    /\ snapshot.todo # {} /\ \A p \in snapshot.todo : p < now.month
    /\ snapshot.step \in {"reading", "counting", "writing"} => snapshot.force \/ ~balance[Period].taken
    /\ snapshot.step \in {"counting", "writing"} => StateFits(snapshot.debt, Period)
    /\ snapshot.step = "writing" => CountFits(snapshot.count, Period)

\* The month's end is in what debt and the records were since then, in its days of grace.
GraceFits ==
  /\ now.part # "rest" => /\ now.month > 0 /\ debt \in debts[now.month - 1]
                          /\ records[now.month - 1] \in counts[now.month - 1]
  /\ owed => now.part = "first"

BalancesPast == \A p \in Periods : balance[p].taken => p < now.month

\* On the 1st its snapshot is to come, on its way to the month, or done.
FirstComing ==
  now.part = "first" /\ skipped = {} =>
    \/ owed
    \/ balance[now.month - 1].taken
    \/ snapshot.step # "idle" /\ snapshot.cron /\ now.month - 1 \in snapshot.todo

MovesCounted == \A p \in Periods : records[p] <= moves

BalanceInv ==
  /\ BalanceTypeOK /\ BalanceIsTimely
  /\ SnapshotFits /\ GraceFits /\ BalancesPast /\ FirstComing /\ MovesCounted

SnapshotType(s) ==
  s \in [step : SnapshotSteps, todo : SUBSET Periods, force : BOOLEAN, cron : BOOLEAN,
         debt : 0..2, count : 0..MaxMoves]

LEMMA PeriodsAre ==
  /\ Periods \subseteq Nat /\ LastPeriod \in Nat /\ MonthsBack \in Nat /\ MonthsBack >= 1
  /\ MaxMoves \in Nat /\ MaxBreaks \in Nat
  /\ \A p \in Periods : p <= LastPeriod
  /\ \A p \in Nat : p <= LastPeriod => p \in Periods
BY BalanceParameters DEF Periods

LEMMA NoSnapshotTyping == SnapshotType(NoSnapshot) /\ NoSnapshot.step = "idle"
BY PeriodsAre DEF SnapshotType, NoSnapshot, SnapshotSteps, Unread

LEMMA BalanceTypes ==
  ASSUME BalanceInv
  PROVE  /\ now \in [month : Periods, part : Parts] /\ now.month \in Periods /\ now.month \in Nat
         /\ debt \in 0..1 /\ records \in [Periods -> 0..MaxMoves]
         /\ balance \in [Periods -> [taken : BOOLEAN, debt : 0..2, count : 0..MaxMoves, backfilled : BOOLEAN]]
         /\ SnapshotType(snapshot) /\ owed \in BOOLEAN
         /\ debts \in [Periods -> SUBSET (0..1)] /\ counts \in [Periods -> SUBSET (0..MaxMoves)]
         /\ skipped \subseteq {"overlap", "mishap"}
         /\ moves \in 0..MaxMoves /\ breaks \in 0..MaxBreaks
BY PeriodsAre DEF BalanceInv, BalanceTypeOK, SnapshotType

\* The period in course is the first of those to do.
LEMMA FirstPeriod ==
  ASSUME SnapshotType(snapshot), snapshot.todo # {}
  PROVE  Period \in snapshot.todo /\ Period \in Periods
<1> DEFINE R == OpToRel(<, Nat)
           S == snapshot.todo
<1>1. IsWellFoundedOn(R, Nat)
  BY NatLessThanWellFounded, Zenon
<1>2. S \subseteq Periods /\ S \subseteq Nat
  BY PeriodsAre DEF SnapshotType
<1> HIDE DEF R
<1>3. PICK a \in S : \A b \in S : ~(<<b, a>> \in R)
  BY <1>1, <1>2, WFMin
<1>4. ASSUME NEW b \in S PROVE a <= b
  <2>1. a \in Nat /\ b \in Nat /\ ~(<<b, a>> \in R)
    BY <1>2, <1>3
  <2>2. ~(b < a)
    BY <2>1 DEF R, OpToRel
  <2>3. QED
    BY <2>1, <2>2
<1>5. \E x \in S : \A y \in S : x <= y
  BY <1>3, <1>4
<1>6. QED
  BY <1>2, <1>5 DEF Period

LEMMA BalanceInitFits == BalanceInit => BalanceInv
<1> SUFFICES ASSUME BalanceInit PROVE BalanceInv
  OBVIOUS
<1>1. /\ now \in [month : Periods, part : Parts] /\ now.part = "rest"
      /\ debt \in 0..1 /\ skipped \subseteq {"overlap", "mishap"} /\ owed = FALSE
      /\ moves = 0 /\ breaks = 0 /\ moves \in 0..MaxMoves /\ breaks \in 0..MaxBreaks
  BY PeriodsAre DEF BalanceInit, Parts
<1>2. records \in [Periods -> 0..MaxMoves] /\ \A p \in Periods : records[p] = 0
  BY PeriodsAre DEF BalanceInit
<1>3. /\ balance \in [Periods -> [taken : BOOLEAN, debt : 0..2, count : 0..MaxMoves, backfilled : BOOLEAN]]
      /\ \A p \in Periods : ~balance[p].taken
  BY PeriodsAre DEF BalanceInit, NoBalance, Unread
<1>4. debts \in [Periods -> SUBSET (0..1)] /\ counts \in [Periods -> SUBSET (0..MaxMoves)]
  BY DEF BalanceInit
<1>5. snapshot = NoSnapshot
  BY DEF BalanceInit
<1>6. BalanceTypeOK
  BY <1>1, <1>2, <1>3, <1>4, <1>5, NoSnapshotTyping DEF BalanceTypeOK, SnapshotType
<1>7. BalanceIsTimely
  BY <1>1, <1>3 DEF BalanceIsTimely
<1>8. SnapshotFits /\ GraceFits /\ BalancesPast /\ FirstComing
  BY <1>1, <1>3, <1>5, NoSnapshotTyping DEF SnapshotFits, GraceFits, BalancesPast, FirstComing
<1>9. MovesCounted
  BY <1>1, <1>2 DEF MovesCounted
<1>10. QED
  BY <1>6, <1>7, <1>8, <1>9 DEF BalanceInv

\* A step of the snapshot that writes no balance.
LEMMA SnapshotMoves ==
  ASSUME BalanceInv, UNCHANGED <<now, debt, records, balance, debts, counts, moves>>,
         SnapshotType(snapshot'), owed' \in BOOLEAN, skipped' \subseteq {"overlap", "mishap"},
         breaks' \in 0..MaxBreaks, skipped \subseteq skipped', owed' => owed,
         snapshot'.step # "idle" =>
           /\ snapshot'.todo # {} /\ \A p \in snapshot'.todo : p < now.month
           /\ snapshot'.step \in {"reading", "counting", "writing"} => snapshot'.force \/ ~balance[Period'].taken
           /\ snapshot'.step \in {"counting", "writing"} => StateFits(snapshot'.debt, Period')
           /\ snapshot'.step = "writing" => CountFits(snapshot'.count, Period'),
         now.part = "first" /\ skipped' = {} =>
           \/ owed'
           \/ balance[now.month - 1].taken
           \/ snapshot'.step # "idle" /\ snapshot'.cron /\ now.month - 1 \in snapshot'.todo
  PROVE  BalanceInv'
<1>1. BalanceTypeOK'
  BY DEF BalanceInv, BalanceTypeOK, SnapshotType
<1>2. BalanceIsTimely'
  BY DEF BalanceInv, BalanceIsTimely
<1>3. SnapshotFits'
  BY DEF SnapshotFits, StateFits, CountFits, MonthEnd
<1>4. GraceFits'
  BY DEF BalanceInv, GraceFits
<1>5. BalancesPast' /\ MovesCounted'
  BY DEF BalanceInv, BalancesPast, MovesCounted
<1>6. FirstComing'
  BY DEF FirstComing
<1>7. QED
  BY <1>1, <1>2, <1>3, <1>4, <1>5, <1>6 DEF BalanceInv

LEMMA StartsTyping ==
  ASSUME NEW todo \in SUBSET Periods, NEW force \in BOOLEAN, NEW cron \in BOOLEAN,
         StartSnapshot(todo, force, cron)
  PROVE  /\ SnapshotType(snapshot') /\ snapshot'.step = "checking" /\ snapshot'.todo = todo
         /\ snapshot'.cron = cron
<1>1. snapshot' = [NoSnapshot EXCEPT !.step = "checking", !.todo = todo, !.force = force, !.cron = cron]
  BY DEF StartSnapshot
<1>2. QED
  BY <1>1, NoSnapshotTyping DEF SnapshotType, SnapshotSteps

LEMMA BalanceStarts ==
  ASSUME BalanceInv,
         ScheduledSnapshot \/ BootSnapshot \/ \E p \in Periods, force \in BOOLEAN : OwnerSnapshot(p, force)
  PROVE  BalanceInv'
<1>0. /\ SnapshotType(snapshot) /\ now.month \in Nat /\ now.month \in Periods /\ owed \in BOOLEAN
      /\ skipped \subseteq {"overlap", "mishap"} /\ breaks \in 0..MaxBreaks
  BY BalanceTypes
<1>1. ClosedPeriods \in SUBSET Periods /\ \A p \in ClosedPeriods : p < now.month
  BY DEF ClosedPeriods
<1>2. now.month > 0 => now.month - 1 \in ClosedPeriods
  BY <1>0, PeriodsAre DEF ClosedPeriods
<1>3. CASE ScheduledSnapshot /\ snapshot.step = "idle"
  <2>1. /\ owed /\ owed' = FALSE /\ StartSnapshot(ClosedPeriods, FALSE, TRUE)
        /\ UNCHANGED <<skipped, now, debt, records, balance, debts, counts, moves, breaks>>
    BY <1>3 DEF ScheduledSnapshot
  <2>2. now.month - 1 \in ClosedPeriods
    BY <1>2, <2>1 DEF BalanceInv, GraceFits
  <2>3. /\ SnapshotType(snapshot') /\ snapshot'.step = "checking" /\ snapshot'.todo = ClosedPeriods
        /\ snapshot'.cron
    BY <1>1, <2>1, StartsTyping
  <2>4. QED
    BY <1>0, <1>1, <2>1, <2>2, <2>3, SnapshotMoves
<1>4. CASE ScheduledSnapshot /\ snapshot.step # "idle"
  <2>1. /\ owed /\ owed' = FALSE /\ skipped' = skipped \cup {"overlap"}
        /\ UNCHANGED <<snapshot, now, debt, records, balance, debts, counts, moves, breaks>>
    BY <1>4 DEF ScheduledSnapshot
  <2>2. skipped' # {} /\ skipped' \subseteq {"overlap", "mishap"} /\ skipped \subseteq skipped'
    BY <1>0, <2>1
  <2>3. Period' = Period
    BY <2>1 DEF Period
  <2>4. snapshot.step # "idle" =>
           /\ snapshot.todo # {} /\ \A p \in snapshot.todo : p < now.month
           /\ snapshot.step \in {"reading", "counting", "writing"} => snapshot.force \/ ~balance[Period].taken
           /\ snapshot.step \in {"counting", "writing"} => StateFits(snapshot.debt, Period)
           /\ snapshot.step = "writing" => CountFits(snapshot.count, Period)
    BY DEF BalanceInv, SnapshotFits
  <2>5. QED
    BY <1>0, <2>1, <2>2, <2>3, <2>4, SnapshotMoves
<1>5. CASE BootSnapshot
  <2>1. /\ snapshot.step = "idle" /\ ClosedPeriods # {} /\ StartSnapshot(ClosedPeriods, FALSE, FALSE)
        /\ UNCHANGED <<now, debt, records, balance, owed, debts, counts, skipped, moves, breaks>>
    BY <1>5 DEF BootSnapshot, balanceHistory
  <2>2. SnapshotType(snapshot') /\ snapshot'.step = "checking" /\ snapshot'.todo = ClosedPeriods
    BY <1>1, <2>1, StartsTyping
  <2>3. now.part = "first" /\ skipped = {} => owed \/ balance[now.month - 1].taken
    BY <2>1 DEF BalanceInv, FirstComing
  <2>4. QED
    BY <1>0, <1>1, <2>1, <2>2, <2>3, SnapshotMoves
<1>6. ASSUME NEW p \in Periods, NEW force \in BOOLEAN, OwnerSnapshot(p, force) PROVE BalanceInv'
  <2>1. /\ snapshot.step = "idle" /\ p < now.month /\ StartSnapshot({p}, force, FALSE)
        /\ UNCHANGED <<now, debt, records, balance, owed, debts, counts, skipped, moves, breaks>>
    BY <1>6 DEF OwnerSnapshot, balanceHistory
  <2>2. SnapshotType(snapshot') /\ snapshot'.step = "checking" /\ snapshot'.todo = {p}
    BY <2>1, StartsTyping
  <2>3. now.part = "first" /\ skipped = {} => owed \/ balance[now.month - 1].taken
    BY <2>1 DEF BalanceInv, FirstComing
  <2>4. QED
    BY <1>0, <2>1, <2>2, <2>3, SnapshotMoves
<1>7. QED
  BY <1>3, <1>4, <1>5, <1>6

\* The snapshot goes on to the next month, or ends, when this one has its rows.
LEMMA NextPeriodFits ==
  ASSUME BalanceInv, snapshot.step # "idle", NextPeriod
  PROVE  /\ SnapshotType(snapshot') /\ snapshot'.step \in {"idle", "checking"}
         /\ snapshot'.step # "idle" => /\ snapshot'.todo # {} /\ snapshot'.todo = snapshot.todo \ {Period}
                                       /\ snapshot'.cron = snapshot.cron
         /\ snapshot'.step = "idle" => snapshot.todo = {Period}
<1>0. SnapshotType(snapshot) /\ snapshot.todo # {}
  BY BalanceTypes DEF BalanceInv, SnapshotFits
<1>1. Period \in snapshot.todo
  BY <1>0, FirstPeriod
<1>2. CASE snapshot.todo = {Period}
  BY <1>2, NoSnapshotTyping DEF NextPeriod
<1>3. CASE snapshot.todo # {Period}
  <2> DEFINE left == snapshot.todo \ {Period}
  <2>1. left \in SUBSET Periods /\ left # {}
    BY <1>0, <1>1, <1>3 DEF SnapshotType
  <2>2. snapshot' = [snapshot EXCEPT !.step = "checking", !.todo = left, !.debt = Unread, !.count = 0]
    BY <1>3 DEF NextPeriod
  <2> HIDE DEF left
  <2>3. "checking" \in SnapshotSteps /\ Unread \in 0..2 /\ 0 \in 0..MaxMoves
    BY PeriodsAre DEF SnapshotSteps, Unread
  <2>4. /\ SnapshotType(snapshot') /\ snapshot'.step = "checking" /\ snapshot'.todo = left
        /\ snapshot'.cron = snapshot.cron
    BY <1>0, <2>1, <2>2, <2>3 DEF SnapshotType
  <2>5. QED
    BY <2>1, <2>4 DEF left
<1>4. QED
  BY <1>2, <1>3

LEMMA BalanceReads ==
  ASSUME BalanceInv, CheckBalance \/ ReadState \/ CountRecords \/ SnapshotBreaks PROVE BalanceInv'
<1>0. /\ SnapshotType(snapshot) /\ now.month \in Nat /\ now.month \in Periods /\ owed \in BOOLEAN
      /\ skipped \subseteq {"overlap", "mishap"} /\ breaks \in 0..MaxBreaks
      /\ records \in [Periods -> 0..MaxMoves] /\ debt \in 0..1
      /\ now \in [month : Periods, part : Parts]
  BY BalanceTypes
<1>1. snapshot.step # "idle" => /\ snapshot.todo # {} /\ \A p \in snapshot.todo : p < now.month
                                /\ Period \in snapshot.todo /\ Period \in Periods
  BY <1>0, FirstPeriod DEF BalanceInv, SnapshotFits
<1>2. now.part = "first" /\ skipped = {} =>
           \/ owed
           \/ balance[now.month - 1].taken
           \/ snapshot.step # "idle" /\ snapshot.cron /\ now.month - 1 \in snapshot.todo
  BY DEF BalanceInv, FirstComing
<1>3. CASE CheckBalance /\ balance[Period].taken /\ ~snapshot.force
  <2>1. /\ snapshot.step = "checking" /\ NextPeriod
        /\ UNCHANGED <<now, debt, records, balance, owed, debts, counts, skipped, moves, breaks>>
    BY <1>3 DEF CheckBalance, balanceHistory
  <2>2. /\ SnapshotType(snapshot') /\ snapshot'.step \in {"idle", "checking"}
        /\ snapshot'.step # "idle" => /\ snapshot'.todo # {} /\ snapshot'.todo = snapshot.todo \ {Period}
                                      /\ snapshot'.cron = snapshot.cron
        /\ snapshot'.step = "idle" => snapshot.todo = {Period}
    BY <2>1, NextPeriodFits
  <2>3. now.part = "first" /\ skipped = {} =>
           \/ owed
           \/ balance[now.month - 1].taken
           \/ snapshot'.step # "idle" /\ snapshot'.cron /\ now.month - 1 \in snapshot'.todo
    BY <1>2, <1>3, <2>2
  <2>4. QED
    BY <1>0, <1>1, <2>1, <2>2, <2>3, SnapshotMoves
<1>4. CASE CheckBalance /\ ~(balance[Period].taken /\ ~snapshot.force)
  <2>1. /\ snapshot.step = "checking" /\ snapshot' = [snapshot EXCEPT !.step = "reading"]
        /\ UNCHANGED <<now, debt, records, balance, owed, debts, counts, skipped, moves, breaks>>
    BY <1>4 DEF CheckBalance, balanceHistory
  <2>2. /\ SnapshotType(snapshot') /\ snapshot'.step = "reading" /\ snapshot'.todo = snapshot.todo
        /\ snapshot'.cron = snapshot.cron /\ snapshot'.force = snapshot.force
    BY <1>0, <2>1 DEF SnapshotType, SnapshotSteps
  <2>3. Period' = Period
    BY <2>2 DEF Period
  <2>4. snapshot'.force \/ ~balance[Period'].taken
    BY <1>4, <2>2, <2>3
  <2>5. QED
    BY <1>0, <1>1, <1>2, <2>1, <2>2, <2>4, SnapshotMoves
<1>5. CASE ReadState
  <2> DEFINE seen == IF MonthEnd(Period) THEN debt ELSE Unread
  <2>1. /\ snapshot.step = "reading" /\ snapshot' = [snapshot EXCEPT !.step = "counting", !.debt = seen]
        /\ UNCHANGED <<now, debt, records, balance, owed, debts, counts, skipped, moves, breaks>>
    BY <1>5 DEF ReadState, balanceHistory
  <2>2. seen \in 0..2
    BY <1>0 DEF Unread
  <2>3. StateFits(seen, Period)
    <3>1. CASE MonthEnd(Period)
      <4>1. Period \in Nat /\ now.month = Period + 1 /\ now.part # "rest"
        BY <1>1, <2>1, <3>1, PeriodsAre DEF MonthEnd
      <4>2. now.month - 1 = Period
        BY <4>1
      <4>3. debt \in debts[Period]
        BY <4>1, <4>2 DEF BalanceInv, GraceFits
      <4>4. debt # Unread
        BY <1>0 DEF Unread
      <4>5. QED
        BY <3>1, <4>3, <4>4 DEF StateFits
    <3>2. CASE ~MonthEnd(Period)
      BY <3>2 DEF StateFits
    <3>3. QED
      BY <3>1, <3>2
  <2> HIDE DEF seen
  <2>4. /\ SnapshotType(snapshot') /\ snapshot'.step = "counting" /\ snapshot'.todo = snapshot.todo
        /\ snapshot'.cron = snapshot.cron /\ snapshot'.force = snapshot.force /\ snapshot'.debt = seen
    BY <1>0, <2>1, <2>2 DEF SnapshotType, SnapshotSteps
  <2>5. Period' = Period
    BY <2>4 DEF Period
  <2>6. snapshot.force \/ ~balance[Period].taken
    BY <2>1 DEF BalanceInv, SnapshotFits
  <2>7. QED
    BY <1>0, <1>1, <1>2, <2>1, <2>3, <2>4, <2>5, <2>6, SnapshotMoves
<1>6. CASE CountRecords
  <2>1. /\ snapshot.step = "counting" /\ snapshot' = [snapshot EXCEPT !.step = "writing", !.count = records[Period]]
        /\ UNCHANGED <<now, debt, records, balance, owed, debts, counts, skipped, moves, breaks>>
    BY <1>6 DEF CountRecords, balanceHistory
  <2>2. records[Period] \in 0..MaxMoves
    BY <1>0, <1>1, <2>1
  <2>3. /\ SnapshotType(snapshot') /\ snapshot'.step = "writing" /\ snapshot'.todo = snapshot.todo
        /\ snapshot'.cron = snapshot.cron /\ snapshot'.debt = snapshot.debt /\ snapshot'.count = records[Period]
        /\ snapshot'.force = snapshot.force
    BY <1>0, <2>1, <2>2 DEF SnapshotType, SnapshotSteps
  <2>4. Period' = Period
    BY <2>3 DEF Period
  <2>5. StateFits(snapshot.debt, Period) /\ (snapshot.force \/ ~balance[Period].taken)
    BY <2>1 DEF BalanceInv, SnapshotFits
  <2>6. CountFits(records[Period], Period)
    <3>1. Period \in Nat
      BY <1>1, <2>1, PeriodsAre
    <3>2. MonthEnd(Period) => now.month - 1 = Period /\ now.part # "rest"
      BY <3>1 DEF MonthEnd
    <3>3. QED
      BY <3>2 DEF CountFits, BalanceInv, GraceFits
  <2>7. QED
    BY <1>0, <1>1, <1>2, <2>1, <2>3, <2>4, <2>5, <2>6, SnapshotMoves
<1>7. CASE SnapshotBreaks
  <2>1. /\ snapshot' = NoSnapshot /\ owed' \in {owed, FALSE}
        /\ breaks < MaxBreaks /\ breaks' = breaks + 1
        /\ skipped' = IF snapshot.cron \/ (owed /\ ~owed') THEN skipped \cup {"mishap"} ELSE skipped
        /\ UNCHANGED <<now, debt, records, balance, debts, counts, moves>>
    BY <1>7 DEF SnapshotBreaks
  <2>2. breaks' \in 0..MaxBreaks
    BY <1>0, <2>1, PeriodsAre
  <2>3. owed' \in BOOLEAN /\ (owed' => owed)
    <3>1. CASE owed' = owed
      BY <1>0, <3>1
    <3>2. CASE owed' = FALSE
      BY <3>2
    <3>3. QED
      BY <2>1, <3>1, <3>2
  <2>4. /\ skipped' \subseteq {"overlap", "mishap"} /\ skipped \subseteq skipped'
        /\ snapshot.cron \/ (owed /\ ~owed') => skipped' # {}
    BY <1>0, <2>1
  <2>5. now.part = "first" /\ skipped' = {} => owed' \/ balance[now.month - 1].taken
    BY <1>2, <2>4
  <2>6. QED
    BY <2>1, <2>2, <2>3, <2>4, <2>5, NoSnapshotTyping, SnapshotMoves
<1>8. QED
  BY <1>3, <1>4, <1>5, <1>6, <1>7

LEMMA BalanceWrites == ASSUME BalanceInv, WriteBalance PROVE BalanceInv'
<1> DEFINE new == [taken |-> TRUE, debt |-> snapshot.debt, count |-> snapshot.count, backfilled |-> ~MonthEnd(Period)]
<1>0. /\ SnapshotType(snapshot) /\ now.month \in Nat /\ now.month \in Periods
      /\ balance \in [Periods -> [taken : BOOLEAN, debt : 0..2, count : 0..MaxMoves, backfilled : BOOLEAN]]
  BY BalanceTypes
<1>1. /\ snapshot.step = "writing" /\ NextPeriod
      /\ balance' = [balance EXCEPT ![Period] = new]
      /\ UNCHANGED <<now, debt, records, owed, debts, counts, skipped, moves, breaks>>
  BY DEF WriteBalance, balanceHistory
<1>2. /\ snapshot.todo # {} /\ \A p \in snapshot.todo : p < now.month
      /\ Period \in snapshot.todo /\ Period \in Periods
      /\ StateFits(snapshot.debt, Period) /\ CountFits(snapshot.count, Period)
  BY <1>0, <1>1, FirstPeriod DEF BalanceInv, SnapshotFits
<1>3. /\ SnapshotType(snapshot') /\ snapshot'.step \in {"idle", "checking"}
      /\ snapshot'.step # "idle" => /\ snapshot'.todo # {} /\ snapshot'.todo = snapshot.todo \ {Period}
                                    /\ snapshot'.cron = snapshot.cron
      /\ snapshot'.step = "idle" => snapshot.todo = {Period}
  BY <1>1, NextPeriodFits
<1>4. new \in [taken : BOOLEAN, debt : 0..2, count : 0..MaxMoves, backfilled : BOOLEAN]
  BY <1>0 DEF SnapshotType, MonthEnd
<1>5. /\ balance'[Period].taken /\ balance'[Period].debt = snapshot.debt
      /\ balance'[Period].count = snapshot.count /\ (balance'[Period].backfilled <=> ~MonthEnd(Period))
      /\ \A p \in Periods : p # Period => balance'[p] = balance[p]
  BY <1>0, <1>1, <1>2
<1>6. balance' \in [Periods -> [taken : BOOLEAN, debt : 0..2, count : 0..MaxMoves, backfilled : BOOLEAN]]
  BY <1>0, <1>1, <1>2, <1>4
<1>7. BalanceTypeOK'
  BY <1>1, <1>3, <1>6 DEF BalanceInv, BalanceTypeOK, SnapshotType
<1>8. \A p \in Periods : balance[p].taken => balance'[p].taken
  BY <1>5
<1>9. BalanceIsTimely'
  <2>1. ASSUME NEW p \in Periods, balance'[p].taken
        PROVE  /\ balance'[p].backfilled \/ balance'[p].count \in counts[p]
               /\ balance'[p].debt \in debts[p] \cup {Unread}
               /\ balance'[p].backfilled <=> balance'[p].debt = Unread
    <3>1. CASE p = Period
      BY <1>2, <1>5, <3>1 DEF StateFits, CountFits
    <3>2. CASE p # Period
      BY <1>5, <2>1, <3>2 DEF BalanceInv, BalanceIsTimely
    <3>3. QED
      BY <3>1, <3>2
  <2>2. now.part = "grace" /\ skipped = {} => balance'[now.month - 1].taken
    <3>1. now.part = "grace" => now.month - 1 \in Periods
      BY <1>0, PeriodsAre DEF BalanceInv, GraceFits
    <3>2. QED
      BY <1>8, <3>1 DEF BalanceInv, BalanceIsTimely
  <2>3. QED
    BY <1>1, <2>1, <2>2 DEF BalanceIsTimely
<1>10. SnapshotFits'
  BY <1>1, <1>2, <1>3 DEF SnapshotFits
<1>11. GraceFits' /\ MovesCounted'
  BY <1>1 DEF BalanceInv, GraceFits, MovesCounted
<1>12. BalancesPast'
  BY <1>1, <1>2, <1>5 DEF BalanceInv, BalancesPast
<1>13. FirstComing'
  <2>1. now.part = "first" => now.month - 1 \in Periods
    BY <1>0, PeriodsAre DEF BalanceInv, GraceFits
  <2>2. QED
    BY <1>1, <1>3, <1>5, <1>8, <2>1 DEF BalanceInv, FirstComing
<1>14. QED
  BY <1>7, <1>9, <1>10, <1>11, <1>12, <1>13 DEF BalanceInv

LEMMA BalanceDays == ASSUME BalanceInv, TurnMonth \/ DaysPass PROVE BalanceInv'
<1>0. /\ SnapshotType(snapshot) /\ now.month \in Nat /\ now.month \in Periods /\ snapshot.step = "idle"
      /\ now \in [month : Periods, part : Parts] /\ debts \in [Periods -> SUBSET (0..1)] /\ debt \in 0..1
      /\ counts \in [Periods -> SUBSET (0..MaxMoves)] /\ records \in [Periods -> 0..MaxMoves]
  BY BalanceTypes DEF TurnMonth, DaysPass
<1>1. CASE TurnMonth
  <2>1. /\ now.part = "rest" /\ now.month < LastPeriod
        /\ now' = [month |-> now.month + 1, part |-> "first"]
        /\ owed' = TRUE /\ skipped' = {}
        /\ debts' = [debts EXCEPT ![now.month] = {debt}]
        /\ counts' = [counts EXCEPT ![now.month] = {records[now.month]}]
        /\ UNCHANGED <<debt, records, balance, snapshot, moves, breaks>>
    BY <1>1 DEF TurnMonth
  <2>2. /\ now'.month = now.month + 1 /\ now'.part = "first" /\ now'.month \in Periods
        /\ now' \in [month : Periods, part : Parts]
    BY <1>0, <2>1, PeriodsAre DEF Parts
  <2>3. /\ debts' \in [Periods -> SUBSET (0..1)] /\ debts'[now.month] = {debt}
        /\ \A p \in Periods : p # now.month => debts'[p] = debts[p]
        /\ counts' \in [Periods -> SUBSET (0..MaxMoves)] /\ counts'[now.month] = {records[now.month]}
        /\ \A p \in Periods : p # now.month => counts'[p] = counts[p]
    BY <1>0, <2>1
  <2>4. BalanceTypeOK'
    BY <2>1, <2>2, <2>3 DEF BalanceInv, BalanceTypeOK
  <2>5. BalanceIsTimely'
    <3>1. ~balance[now.month].taken
      BY <1>0 DEF BalanceInv, BalancesPast
    <3>2. QED
      BY <2>1, <2>2, <2>3, <3>1 DEF BalanceInv, BalanceIsTimely
  <2>6. GraceFits'
    <3>1. now'.month > 0 /\ now'.month - 1 = now.month
      BY <1>0, <2>2
    <3>2. debt' \in debts'[now'.month - 1]
      BY <2>1, <2>3, <3>1
    <3>3. records'[now'.month - 1] \in counts'[now'.month - 1]
      BY <2>1, <2>3, <3>1
    <3>4. QED
      BY <2>1, <2>2, <3>1, <3>2, <3>3 DEF GraceFits
  <2>7. BalancesPast'
    <3>1. \A p \in Periods : p < now.month => p < now'.month
      BY <1>0, <2>2, PeriodsAre
    <3>2. QED
      BY <2>1, <3>1 DEF BalanceInv, BalancesPast
  <2>8. QED
    BY <1>0, <2>1, <2>4, <2>5, <2>6, <2>7 DEF BalanceInv, SnapshotFits, FirstComing, MovesCounted
<1>2. CASE DaysPass
  <2>1. /\ now.part # "rest" /\ ~owed
        /\ now' = [now EXCEPT !.part = IF now.part = "first" THEN "grace" ELSE "rest"]
        /\ UNCHANGED <<debt, records, balance, snapshot, owed, debts, counts, skipped, moves, breaks>>
    BY <1>2 DEF DaysPass, balanceHistory
  <2>2. /\ now'.month = now.month /\ now' \in [month : Periods, part : Parts]
        /\ now'.part = IF now.part = "first" THEN "grace" ELSE "rest"
    BY <1>0, <2>1 DEF Parts
  <2>3. now.part \in Parts
    BY <1>0
  <2>4. BalanceTypeOK'
    BY <2>1, <2>2 DEF BalanceInv, BalanceTypeOK
  <2>5. BalanceIsTimely'
    <3>1. now.part = "first" /\ skipped = {} => balance[now.month - 1].taken
      BY <1>0, <2>1 DEF BalanceInv, FirstComing
    <3>2. QED
      BY <2>1, <2>2, <3>1 DEF BalanceInv, BalanceIsTimely
  <2>6. GraceFits' /\ FirstComing'
    BY <2>1, <2>2 DEF BalanceInv, GraceFits, FirstComing
  <2>7. QED
    BY <1>0, <2>1, <2>2, <2>4, <2>5, <2>6 DEF BalanceInv, SnapshotFits, BalancesPast, MovesCounted
<1>3. QED
  BY <1>1, <1>2

LEMMA BalanceDebts == ASSUME BalanceInv, DebtChanges PROVE BalanceInv'
<1>0. /\ SnapshotType(snapshot) /\ now.month \in Nat /\ now.month \in Periods
      /\ now \in [month : Periods, part : Parts] /\ debts \in [Periods -> SUBSET (0..1)] /\ debt \in 0..1
      /\ moves \in 0..MaxMoves /\ records \in [Periods -> 0..MaxMoves]
  BY BalanceTypes
<1>1. snapshot.step # "idle" => /\ snapshot.todo # {} /\ \A p \in snapshot.todo : p < now.month
                                /\ Period \in snapshot.todo /\ Period \in Periods
  BY <1>0, FirstPeriod DEF BalanceInv, SnapshotFits
<1>2. moves < MaxMoves /\ moves' = moves + 1 /\ moves' \in 0..MaxMoves
  BY <1>0, PeriodsAre DEF DebtChanges
<1>3. QED
  <2>1. /\ debt' = 1 - debt
        /\ debts' = IF now.part = "rest" THEN debts
                    ELSE [debts EXCEPT ![now.month - 1] = debts[now.month - 1] \cup {1 - debt}]
        /\ UNCHANGED <<now, records, balance, snapshot, owed, counts, skipped, breaks>>
    BY DEF DebtChanges
  <2>2. debt' \in 0..1
    BY <1>0, <2>1
  <2>3. now.part # "rest" => now.month - 1 \in Periods
    BY <1>0, PeriodsAre DEF BalanceInv, GraceFits
  <2>4. /\ debts' \in [Periods -> SUBSET (0..1)] /\ \A p \in Periods : debts[p] \subseteq debts'[p]
        /\ now.part # "rest" => debt' \in debts'[now.month - 1]
    <3>1. CASE now.part = "rest"
      BY <1>0, <2>1, <3>1
    <3>2. CASE now.part # "rest"
      <4> DEFINE m == now.month - 1
      <4>1. m \in Periods /\ debts[m] \cup {debt'} \in SUBSET (0..1)
        BY <1>0, <2>2, <2>3, <3>2
      <4>2. debts' = [debts EXCEPT ![m] = debts[m] \cup {debt'}]
        BY <2>1, <3>2
      <4> HIDE DEF m
      <4>3. /\ debts' \in [Periods -> SUBSET (0..1)] /\ \A p \in Periods : debts[p] \subseteq debts'[p]
            /\ debt' \in debts'[m]
        BY <1>0, <4>1, <4>2
      <4>4. QED
        BY <4>3 DEF m
    <3>3. QED
      BY <3>1, <3>2
  <2>5. BalanceTypeOK'
    BY <1>2, <2>1, <2>2, <2>4 DEF BalanceInv, BalanceTypeOK
  <2>6. BalanceIsTimely'
    BY <2>1, <2>4 DEF BalanceInv, BalanceIsTimely
  <2>7. Period' = Period
    BY <2>1 DEF Period
  <2>8. SnapshotFits'
    BY <1>1, <2>1, <2>4, <2>7 DEF BalanceInv, SnapshotFits, StateFits, CountFits, MonthEnd
  <2>9. GraceFits'
    BY <2>1, <2>4 DEF BalanceInv, GraceFits
  <2>10. MovesCounted'
    <3>1. \A p \in Periods : records[p] \in Nat /\ records[p] <= moves
      BY <1>0 DEF BalanceInv, MovesCounted
    <3>2. moves \in Nat
      BY <1>0
    <3>3. QED
      BY <1>2, <2>1, <3>1, <3>2 DEF MovesCounted
  <2>11. QED
    BY <2>1, <2>5, <2>6, <2>8, <2>9, <2>10 DEF BalanceInv, BalancesPast, FirstComing

\* Whatever the records become, each as many as the moves, what is known stays so.
LEMMA RecordsChange ==
  ASSUME BalanceInv, NEW rows \in [Periods -> Nat], Recount(rows), \A p \in Periods : rows[p] <= records[p] + 1
  PROVE  BalanceInv'
<1>0. /\ SnapshotType(snapshot) /\ now.month \in Nat /\ now.month \in Periods
      /\ moves \in 0..MaxMoves /\ records \in [Periods -> 0..MaxMoves]
      /\ counts \in [Periods -> SUBSET (0..MaxMoves)]
  BY BalanceTypes
<1>1. snapshot.step # "idle" => Period \in Periods
  BY <1>0, FirstPeriod DEF BalanceInv, SnapshotFits
<1>2. /\ moves < MaxMoves /\ moves' = moves + 1 /\ records' = rows
      /\ counts' = IF now.part = "rest" THEN counts
                   ELSE [counts EXCEPT ![now.month - 1] = counts[now.month - 1] \cup {rows[now.month - 1]}]
      /\ UNCHANGED <<now, debt, balance, snapshot, owed, debts, skipped, breaks>>
  BY DEF Recount
<1>3. /\ moves' \in 0..MaxMoves /\ MovesCounted' /\ records' \in [Periods -> 0..MaxMoves]
  <2>1. ASSUME NEW p \in Periods PROVE rows[p] <= moves' /\ rows[p] \in 0..MaxMoves
    <3>1. records[p] \in Nat /\ rows[p] \in Nat /\ moves \in Nat
      BY <1>0
    <3>2. records[p] <= moves /\ rows[p] <= records[p] + 1
      BY DEF BalanceInv, MovesCounted
    <3>3. QED
      BY <1>2, <3>1, <3>2, PeriodsAre
  <2>2. QED
    BY <1>0, <1>2, <2>1, PeriodsAre DEF MovesCounted
<1>4. now.part # "rest" => now.month - 1 \in Periods
  BY <1>0, PeriodsAre DEF BalanceInv, GraceFits
<1>5. /\ counts' \in [Periods -> SUBSET (0..MaxMoves)] /\ \A p \in Periods : counts[p] \subseteq counts'[p]
      /\ now.part # "rest" => records'[now.month - 1] \in counts'[now.month - 1]
  <2>1. CASE now.part = "rest"
    BY <1>0, <1>2, <2>1
  <2>2. CASE now.part # "rest"
    <3> DEFINE m == now.month - 1
    <3>1. m \in Periods /\ counts[m] \cup {rows[m]} \in SUBSET (0..MaxMoves)
      BY <1>0, <1>2, <1>3, <1>4, <2>2
    <3>2. counts' = [counts EXCEPT ![m] = counts[m] \cup {rows[m]}]
      BY <1>2, <2>2
    <3> HIDE DEF m
    <3>3. /\ counts' \in [Periods -> SUBSET (0..MaxMoves)] /\ \A p \in Periods : counts[p] \subseteq counts'[p]
          /\ rows[m] \in counts'[m]
      BY <1>0, <3>1, <3>2
    <3>4. QED
      BY <1>2, <3>3 DEF m
  <2>3. QED
    BY <2>1, <2>2
<1>6. BalanceTypeOK'
  BY <1>2, <1>3, <1>5 DEF BalanceInv, BalanceTypeOK
<1>7. BalanceIsTimely'
  BY <1>2, <1>5 DEF BalanceInv, BalanceIsTimely
<1>8. Period' = Period
  BY <1>2 DEF Period
<1>9. SnapshotFits'
  BY <1>1, <1>2, <1>5, <1>8 DEF BalanceInv, SnapshotFits, StateFits, CountFits, MonthEnd
<1>10. GraceFits' /\ BalancesPast' /\ FirstComing'
  BY <1>2, <1>5 DEF BalanceInv, GraceFits, BalancesPast, FirstComing
<1>11. QED
  BY <1>3, <1>6, <1>7, <1>9, <1>10 DEF BalanceInv

LEMMA BalanceRecords ==
  ASSUME BalanceInv, NEW p \in Periods, RecordAdded(p) \/ RecordGone(p) \/ RecordMoved(p)
  PROVE  BalanceInv'
<1>0. now.month \in Periods /\ records \in [Periods -> Nat]
  BY BalanceTypes
<1>1. CASE RecordAdded(p)
  <2> DEFINE rows == [records EXCEPT ![p] = records[p] + 1]
  <2>1. Recount(rows)
    BY <1>1 DEF RecordAdded
  <2>2. rows \in [Periods -> Nat] /\ \A q \in Periods : rows[q] <= records[q] + 1
    BY <1>0
  <2> HIDE DEF rows
  <2>3. QED
    BY <2>1, <2>2, RecordsChange
<1>2. CASE RecordGone(p)
  <2> DEFINE rows == [records EXCEPT ![p] = records[p] - 1]
  <2>1. Recount(rows) /\ records[p] > 0
    BY <1>2 DEF RecordGone
  <2>2. rows \in [Periods -> Nat] /\ \A q \in Periods : rows[q] <= records[q] + 1
    BY <1>0, <2>1
  <2> HIDE DEF rows
  <2>3. QED
    BY <2>1, <2>2, RecordsChange
<1>3. CASE RecordMoved(p)
  <2> DEFINE rows == [records EXCEPT ![p] = records[p] - 1, ![now.month] = @ + 1]
  <2>1. Recount(rows) /\ records[p] > 0 /\ p # now.month
    BY <1>0, <1>3, PeriodsAre DEF RecordMoved
  <2>2. rows \in [Periods -> Nat] /\ \A q \in Periods : rows[q] <= records[q] + 1
    BY <1>0, <2>1
  <2> HIDE DEF rows
  <2>3. QED
    BY <2>1, <2>2, RecordsChange
<1>4. QED
  BY <1>1, <1>2, <1>3

LEMMA BalanceKeepsFit == BalanceInv /\ [BalanceNext]_balanceVars => BalanceInv'
<1> SUFFICES ASSUME BalanceInv, [BalanceNext]_balanceVars PROVE BalanceInv'
  OBVIOUS
<1>1. CASE UNCHANGED balanceVars
  <2>1. Period' = Period
    BY <1>1 DEF balanceVars, Period
  <2>2. SnapshotFits'
    BY <1>1, <2>1 DEF balanceVars, balanceHistory, BalanceInv, SnapshotFits, StateFits, CountFits, MonthEnd
  <2>3. QED
    BY <1>1, <2>2 DEF balanceVars, balanceHistory, BalanceInv, BalanceTypeOK, BalanceIsTimely, GraceFits,
                      BalancesPast, FirstComing, MovesCounted
<1>2. CASE BalanceNext
  BY <1>2, BalanceStarts, BalanceReads, BalanceWrites, BalanceDays, BalanceDebts, BalanceRecords DEF BalanceNext
<1>3. QED
  BY <1>1, <1>2

\* A month that has rows is written again by a forced snapshot alone.
LEMMA BalanceFreezes ==
  BalanceInv /\ [BalanceNext]_balanceVars =>
    \A p \in Periods : balance[p].taken /\ balance'[p] # balance[p] => snapshot.force
<1> SUFFICES ASSUME BalanceInv, [BalanceNext]_balanceVars, NEW p \in Periods, balance[p].taken,
                    balance'[p] # balance[p]
             PROVE  snapshot.force
  OBVIOUS
<1>1. WriteBalance
  BY DEF BalanceNext, balanceVars, ScheduledSnapshot, BootSnapshot, OwnerSnapshot, CheckBalance, ReadState,
         CountRecords, TurnMonth, DaysPass, DebtChanges, Recount, RecordAdded, RecordGone, RecordMoved, SnapshotBreaks
<1>2. p = Period /\ snapshot.step = "writing"
  BY <1>1, BalanceTypes DEF WriteBalance
<1>3. QED
  BY <1>2 DEF BalanceInv, SnapshotFits

-----------------------------------------------------------------------------
(* The sessions of a chat *)

ChatType ==
  [number : Lines, client : Clients \cup {Nobody}, linked : When, code : Codes \cup {NoCode},
   flow : When, waiting : When, last : {"none", "person", "bot", "office"}, paused : BOOLEAN, warned : BOOLEAN]
RequestType ==
  [step : {"idle", "found", "saving", "answering", "linking"}, line : Lines,
   new : BOOLEAN, foreign : BOOLEAN, linked : BOOLEAN, waited : BOOLEAN, paused : BOOLEAN,
   client : Clients \cup {Nobody}, code : Codes \cup {NoCode}]
PollType == [step : {"idle", "claiming", "choosing"}, fits : BOOLEAN, waited : BOOLEAN, stirred : BOOLEAN]

\* Somebody comes back, and nothing of theirs is stored yet.
Opening == quiet > Timeout /\ quiet < Never

\* What a chat has is of this visit.
VisitFits ==
  /\ chat.linked = "now" => chat.client \in given \cup {Owner}
  /\ chat.flow # "before"

\* The first messages of a visit: each starts the session again, unless the office
\* kept it alive, and then for all of them.
OpeningFits(r) ==
  /\ requests[r].step \in {"idle", "found", "saving"}
  /\ Request(r, "found") => ~requests[r].linked
  /\ ~Request(r, "idle") =>
       IF kept THEN silence <= Timeout
       ELSE /\ Request(r, "found") => requests[r].new
            /\ Request(r, "saving") => chat.flow = "none" /\ (chat.linked = "now" => chat.client = Owner)

VisitsHold ==
  /\ silence = Never => quiet = Never
  /\ ~Opening => kept \/ VisitFits
  /\ Opening => \A r \in Requests : OpeningFits(r)

\* A message that was read will leave the chat a code its number serves.
CodesHold ==
  /\ CodeFits
  /\ \A r \in Requests :
       Request(r, "found") => drifted \/ requests[r].foreign \/ ~ForeignCode(requests[r].line, requests[r].code)

\* What the poll read of a chat is still so while nobody stirred it.
PollHolds ==
  /\ goodbyes # 0 => goodbyes = 1 /\ chat.warned
  /\ poll.step # "idle" /\ ~poll.stirred =>
       /\ goodbyes = 0
       /\ poll.step = "choosing" => chat.warned
       /\ poll.fits => silence \in Timeout..(Timeout + Window) /\ chat.last = "bot" /\ ~chat.paused

SessionInv == SessionTypeOK /\ VisitsHold /\ CodesHold /\ PollHolds

\* Who is being linked is somebody the search found.
LinksHold == \A r \in Requests : requests[r].step = "linking" => requests[r].client \in Clients

LEMMA SessionNumbers ==
  /\ Timeout \in Nat /\ Timeout >= 1 /\ Window \in Nat /\ MaxAside \in Nat
  /\ Long \in Nat /\ Never \in Nat /\ Timeout < Long /\ Long < Never /\ Timeout + Window < Long
  /\ Timeout + Window \in Nat
BY SessionParameters DEF Long, Never

LEMMA SessionTypes ==
  ASSUME SessionTypeOK
  PROVE  /\ chat \in ChatType /\ requests \in [Requests -> RequestType] /\ poll \in PollType
         /\ silence \in 0..Never /\ silence \in Nat /\ quiet \in 0..Never /\ quiet \in Nat
         /\ given \subseteq Clients /\ kept \in BOOLEAN /\ drifted \in BOOLEAN
         /\ goodbyes \in 0..2 /\ aside \in 0..MaxAside /\ Lines # {}
BY SessionNumbers DEF SessionTypeOK, ChatType, RequestType, PollType

LEMMA SessionIsTyped ==
  ASSUME chat \in ChatType, requests \in [Requests -> RequestType], poll \in PollType,
         silence \in 0..Never, quiet \in 0..Never, given \subseteq Clients, kept \in BOOLEAN, drifted \in BOOLEAN,
         goodbyes \in 0..2, aside \in 0..MaxAside
  PROVE  SessionTypeOK
BY DEF SessionTypeOK, ChatType, RequestType, PollType

LEMMA NoneOfSession ==
  ASSUME Lines # {}
  PROVE  /\ NoRequest \in RequestType /\ NoRequest.step = "idle" /\ ~NoRequest.linked
         /\ NoPoll \in PollType /\ NoPoll.step = "idle"
<1>1. (CHOOSE l \in Lines : TRUE) \in Lines
  OBVIOUS
<1>2. QED
  BY <1>1 DEF NoRequest, RequestType, NoPoll, PollType

LEMMA OlderTyping == \A w \in When : Older(w) \in When /\ Older(w) # "now"
BY DEF Older, When

LEMMA SessionInitFits == SessionInit => SessionInv
<1> SUFFICES ASSUME SessionInit PROVE SessionInv
  OBVIOUS
<1>1. PICK l \in Lines :
        chat = [number |-> l, client |-> Nobody, linked |-> "none", code |-> NoCode, flow |-> "none",
                waiting |-> "none", last |-> "none", paused |-> FALSE, warned |-> FALSE]
  BY DEF SessionInit
<1>2. chat \in ChatType /\ chat.linked = "none" /\ chat.flow = "none" /\ chat.code = NoCode
  BY <1>1 DEF ChatType, When
<1>3. /\ requests \in [Requests -> RequestType] /\ poll \in PollType /\ poll.step = "idle"
      /\ \A r \in Requests : requests[r].step = "idle"
  BY <1>1, NoneOfSession DEF SessionInit
<1>4. SessionTypeOK
  <2>1. Never \in 0..Never /\ 0 \in 0..2 /\ 0 \in 0..MaxAside
    BY SessionNumbers
  <2>2. QED
    BY <1>2, <1>3, <2>1, SessionIsTyped DEF SessionInit
<1>5. VisitsHold
  BY <1>2, SessionNumbers DEF SessionInit, VisitsHold, Opening, VisitFits
<1>6. CodesHold
  BY <1>2, <1>3 DEF CodesHold, CodeFits, ForeignCode, Request
<1>7. PollHolds
  BY <1>3 DEF SessionInit, PollHolds
<1>8. QED
  BY <1>4, <1>5, <1>6, <1>7 DEF SessionInv

\* A step that leaves the poll, the silence and the chat's last message alone.
LEMMA PollStays ==
  ASSUME PollHolds, UNCHANGED <<poll, silence, goodbyes>>,
         chat'.warned = chat.warned, chat'.last = chat.last, chat'.paused = chat.paused
  PROVE  PollHolds'
BY DEF PollHolds

LEMMA PollIsStirred ==
  ASSUME SessionTypeOK, PollHolds, Stir, goodbyes' = 0 \/ (goodbyes' = goodbyes /\ chat'.warned = chat.warned)
  PROVE  PollHolds' /\ poll' \in PollType
<1>1. poll \in PollType
  BY SessionTypes
<1>2. poll' \in PollType /\ poll'.step = poll.step /\ poll'.stirred = (poll.step # "idle")
  BY <1>1 DEF Stir, PollType
<1>3. QED
  BY <1>2 DEF PollHolds

LEMMA SessionFinds ==
  ASSUME SessionInv, NEW r \in Requests, NEW l \in Lines, Find(r, l)
  PROVE  SessionInv'
<1>0. SessionTypeOK /\ VisitsHold /\ CodesHold /\ PollHolds
  BY DEF SessionInv
<1>1. PICK ended, new, q :
        /\ ended \in BOOLEAN /\ new \in BOOLEAN
        /\ ended = (quiet > Timeout /\ quiet < Never) /\ new = (silence > Timeout /\ silence < Never)
        /\ q = [NoRequest EXCEPT !.step = "found", !.line = l, !.new = new, !.foreign = LosesCode(l),
                                 !.paused = chat.paused, !.code = chat.code]
  OBVIOUS
<1>2. /\ Request(r, "idle") /\ requests' = [requests EXCEPT ![r] = q]
      /\ chat' = IF ended THEN [chat EXCEPT !.flow = Older(@)] ELSE chat
      /\ given' = IF ended THEN {} ELSE given
      /\ kept' = IF ended THEN ~new ELSE kept
      /\ UNCHANGED <<poll, silence, quiet, drifted, goodbyes, aside>>
  BY <1>1 DEF Find
<1>3. /\ chat \in ChatType /\ requests \in [Requests -> RequestType] /\ Lines # {} /\ quiet \in Nat /\ silence \in Nat
      /\ kept \in BOOLEAN
  BY <1>0, SessionTypes
<1>4. /\ q \in RequestType /\ q.step = "found" /\ ~q.linked /\ q.new = new /\ q.line = l /\ q.foreign = LosesCode(l)
      /\ q.code = chat.code
  <2>1. NoRequest \in RequestType /\ ~NoRequest.linked /\ LosesCode(l) \in BOOLEAN
    BY <1>3, NoneOfSession DEF LosesCode
  <2>2. chat.paused \in BOOLEAN /\ chat.code \in Codes \cup {NoCode}
    BY <1>3 DEF ChatType
  <2>3. QED
    BY <1>1, <2>1, <2>2 DEF RequestType
<1>5. /\ requests' \in [Requests -> RequestType] /\ requests'[r] = q
      /\ \A s \in Requests : s # r => requests'[s] = requests[s]
  BY <1>2, <1>3, <1>4
<1>6. /\ chat' \in ChatType /\ chat'.linked = chat.linked /\ chat'.client = chat.client /\ chat'.code = chat.code
      /\ chat'.number = chat.number /\ chat'.last = chat.last /\ chat'.warned = chat.warned /\ chat'.paused = chat.paused
      /\ chat'.flow = IF ended THEN Older(chat.flow) ELSE chat.flow
  BY <1>2, <1>3, OlderTyping DEF ChatType
<1>7. SessionTypeOK'
  BY <1>0, <1>2, <1>5, <1>6 DEF SessionTypeOK, ChatType, RequestType
<1>8. VisitsHold'
  <2>1. CASE ~ended
    <3>1. ~Opening /\ ~Opening'
      BY <1>1, <1>2, <2>1 DEF Opening
    <3>2. VisitFits => VisitFits'
      BY <1>2, <1>6, <2>1 DEF VisitFits
    <3>3. QED
      BY <1>0, <1>2, <2>1, <3>1, <3>2 DEF VisitsHold
  <2>2. CASE ended
    <3>1. Opening /\ Opening'
      BY <1>1, <1>2, <2>2 DEF Opening
    <3>2. silence < Never
      <4>1. silence # Never /\ silence <= Never
        BY <1>0, <3>1, SessionTypes, SessionNumbers DEF VisitsHold, Opening
      <4>2. QED
        BY <1>3, <4>1, SessionNumbers
    <3>5. (new => silence > Timeout) /\ (~new => ~(silence > Timeout))
      BY <1>1, <3>2
    <3>6. (new => ~(silence <= Timeout)) /\ (~new => silence <= Timeout)
      <4>1. silence \in Nat /\ Timeout \in Nat
        BY <1>3, SessionNumbers
      <4>2. silence > Timeout <=> ~(silence <= Timeout)
        BY <4>1
      <4>3. QED
        BY <3>5, <4>2
    <3>3. ASSUME NEW s \in Requests PROVE OpeningFits(s)'
      <4>1. CASE s = r
        <5>1. ~new => silence <= Timeout
          BY <3>6
        <5>2. kept' = ~new /\ silence' = silence /\ new \in BOOLEAN
          BY <1>1, <1>2, <2>2
        <5>3. requests'[s].step = "found" /\ ~requests'[s].linked /\ requests'[s].new = new
          BY <1>4, <1>5, <4>1
        <5>4. QED
          BY <5>1, <5>2, <5>3 DEF OpeningFits, Request
      <4>2. CASE s # r
        <5>1. requests'[s] = requests[s] /\ OpeningFits(s)
          BY <1>0, <1>5, <3>1, <4>2 DEF VisitsHold
        <5>2. CASE requests[s].step = "idle"
          BY <5>1, <5>2 DEF OpeningFits, Request
        <5>3. CASE requests[s].step # "idle" /\ new
          <6>1. ~kept
            BY <3>6, <5>1, <5>3 DEF OpeningFits, Request
          <6>2. chat.flow = "none" => chat'.flow = "none"
            BY <1>6 DEF Older
          <6>3. QED
            BY <1>2, <1>6, <2>2, <5>1, <5>3, <6>1, <6>2 DEF OpeningFits, Request
        <5>4. CASE requests[s].step # "idle" /\ ~new
          <6>1. silence <= Timeout
            BY <3>6, <5>4
          <6>2. QED
            BY <1>2, <2>2, <5>1, <5>4, <6>1 DEF OpeningFits, Request
        <5>5. QED
          BY <5>2, <5>3, <5>4
      <4>3. QED
        BY <4>1, <4>2
    <3>4. QED
      BY <1>0, <1>2, <3>1, <3>3 DEF VisitsHold
  <2>3. QED
    BY <2>1, <2>2
<1>9. CodesHold'
  <2>1. CodeFits'
    BY <1>0, <1>2, <1>6 DEF CodesHold, CodeFits, ForeignCode
  <2>2. ASSUME NEW s \in Requests, Request(s, "found")'
        PROVE  drifted' \/ requests'[s].foreign \/ ~ForeignCode(requests'[s].line, requests'[s].code)
    <3>1. CASE s = r
      BY <1>0, <1>2, <1>4, <1>5, <3>1 DEF CodesHold, CodeFits, LosesCode
    <3>2. CASE s # r
      BY <1>0, <1>2, <1>5, <2>2, <3>2 DEF CodesHold, Request
    <3>3. QED
      BY <3>1, <3>2
  <2>3. QED
    BY <2>1, <2>2 DEF CodesHold, ForeignCode, Request
<1>10. PollHolds'
  BY <1>0, <1>2, <1>6, PollStays
<1>11. QED
  BY <1>7, <1>8, <1>9, <1>10 DEF SessionInv

\* A step that neither reads a message nor moves the chat to another code or number.
LEMMA CodesStay ==
  ASSUME CodesHold, chat'.number = chat.number, chat'.code = chat.code, drifted' = drifted,
         \A s \in Requests : requests'[s].step = "found" =>
           /\ requests[s].step = "found" /\ requests'[s].foreign = requests[s].foreign
           /\ requests'[s].line = requests[s].line /\ requests'[s].code = requests[s].code
  PROVE  CodesHold'
<1>1. CodeFits'
  BY DEF CodesHold, CodeFits, ForeignCode
<1>2. ASSUME NEW s \in Requests, Request(s, "found")'
      PROVE  drifted' \/ requests'[s].foreign \/ ~ForeignCode(requests'[s].line, requests'[s].code)
  BY <1>2 DEF CodesHold, Request, ForeignCode
<1>3. QED
  BY <1>1, <1>2 DEF CodesHold, Request, ForeignCode

\* While somebody comes back nothing is answered.
LEMMA NoneIsServed ==
  ASSUME VisitsHold, NEW r \in Requests, requests[r].step \in {"answering", "linking"}
  PROVE  ~Opening /\ (kept \/ VisitFits)
BY DEF VisitsHold, OpeningFits

LEMMA SessionEnters ==
  ASSUME SessionInv, NEW r \in Requests, Enter(r)
  PROVE  SessionInv'
<1>0. SessionTypeOK /\ VisitsHold /\ CodesHold /\ PollHolds
  BY DEF SessionInv
<1>1. PICK q, old : q = requests[r] /\ old = SessionOf(r)
  OBVIOUS
<1>2. /\ q.step = "found"
      /\ chat' = [old EXCEPT !.number = q.line, !.code = IF q.foreign THEN NoCode ELSE @]
      /\ drifted' = (drifted \/ chat.code # q.code)
      /\ requests' = [requests EXCEPT ![r].step = "saving"]
      /\ UNCHANGED <<poll, silence, quiet, given, kept, goodbyes, aside>>
  BY <1>1 DEF Enter, Request
<1>3. chat \in ChatType /\ requests \in [Requests -> RequestType] /\ q \in RequestType
  BY <1>0, <1>1, SessionTypes
<1>4. /\ old \in ChatType /\ old.client = chat.client /\ old.code = chat.code
      /\ old.last = chat.last /\ old.paused = chat.paused /\ old.warned = chat.warned
      /\ q.new => old.flow = "none" /\ (~q.linked => old.linked # "now")
      /\ old.flow = "none" \/ old.flow = chat.flow
      /\ old.linked = "now" => chat.linked = "now"
  BY <1>1, <1>3, OlderTyping DEF SessionOf, ChatType, When, Older
<1>5. /\ chat' \in ChatType /\ chat'.client = chat.client /\ chat'.number = q.line
      /\ chat'.code = (IF q.foreign THEN NoCode ELSE chat.code)
      /\ chat'.last = chat.last /\ chat'.paused = chat.paused /\ chat'.warned = chat.warned
      /\ chat'.flow = old.flow /\ chat'.linked = old.linked
  <2>1. q.line \in Lines /\ q.foreign \in BOOLEAN /\ old.code \in Codes \cup {NoCode}
    BY <1>3, <1>4 DEF ChatType, RequestType
  <2>2. QED
    BY <1>2, <1>4, <2>1 DEF ChatType
<1>6. /\ requests' \in [Requests -> RequestType]
      /\ requests'[r].step = "saving" /\ requests'[r].linked = q.linked
      /\ \A s \in Requests : s # r => requests'[s] = requests[s]
  <2> DEFINE later == [q EXCEPT !.step = "saving"]
  <2>1. later \in RequestType /\ later.step = "saving" /\ later.linked = q.linked
    BY <1>3 DEF RequestType
  <2>2. requests' = [requests EXCEPT ![r] = later]
    BY <1>1, <1>2
  <2> HIDE DEF later
  <2>3. QED
    BY <1>3, <2>1, <2>2
<1>7. SessionTypeOK'
  <2>1. drifted' \in BOOLEAN
    BY <1>2
  <2>2. QED
    BY <1>0, <1>2, <1>5, <1>6, <2>1 DEF SessionTypeOK, ChatType, RequestType
<1>8. VisitsHold'
  <2>1. VisitFits => VisitFits'
    BY <1>2, <1>4, <1>5 DEF VisitFits
  <2>2. Opening' = Opening
    BY <1>2 DEF Opening
  <2>3. ASSUME Opening, NEW s \in Requests PROVE OpeningFits(s)'
    <3>1. OpeningFits(s) /\ OpeningFits(r)
      BY <1>0, <2>3 DEF VisitsHold
    <3>2. requests'[s].step \in {"idle", "found", "saving"}
      BY <1>6, <3>1 DEF OpeningFits
    <3>3. Request(s, "found")' => requests'[s] = requests[s]
      BY <1>6 DEF Request
    <3>4. CASE kept
      BY <1>1, <1>2, <1>6, <3>1, <3>2, <3>3, <3>4 DEF OpeningFits, Request
    <3>5. CASE ~kept
      <4>1. q.new /\ ~q.linked
        BY <1>1, <1>2, <3>1, <3>5 DEF OpeningFits, Request
      <4>2. chat'.flow = "none" /\ chat'.linked # "now"
        BY <1>4, <1>5, <4>1
      <4>3. QED
        BY <1>2, <3>1, <3>2, <3>3, <3>5, <4>2 DEF OpeningFits, Request
    <3>6. QED
      BY <3>4, <3>5
  <2>4. QED
    BY <1>0, <1>2, <2>1, <2>2, <2>3 DEF VisitsHold
<1>9. CodesHold'
  <2>1. CodeFits'
    <3>1. CASE q.foreign
      BY <1>5, <3>1 DEF CodeFits, ForeignCode
    <3>2. CASE ~q.foreign /\ chat.code = q.code
      <4>1. drifted \/ ~ForeignCode(q.line, q.code)
        BY <1>0, <1>1, <1>2, <3>2 DEF CodesHold, Request
      <4>2. QED
        BY <1>2, <1>5, <3>2, <4>1 DEF CodeFits, ForeignCode
    <3>3. CASE chat.code # q.code
      BY <1>2, <3>3 DEF CodeFits
    <3>4. QED
      BY <3>1, <3>2, <3>3
  <2>2. ASSUME NEW s \in Requests, Request(s, "found")'
        PROVE  drifted' \/ requests'[s].foreign \/ ~ForeignCode(requests'[s].line, requests'[s].code)
    <3>1. s # r /\ requests'[s] = requests[s]
      BY <1>6, <2>2 DEF Request
    <3>2. QED
      BY <1>0, <1>2, <2>2, <3>1 DEF CodesHold, Request
  <2>3. QED
    BY <2>1, <2>2 DEF CodesHold, ForeignCode, Request
<1>10. PollHolds'
  BY <1>0, <1>2, <1>5, PollStays
<1>11. QED
  BY <1>7, <1>8, <1>9, <1>10 DEF SessionInv

\* What keeping a message does: the visit goes on, and nobody has been silent.
LEMMA MessageIsKept ==
  ASSUME SessionInv, NEW who \in {"person", "bot"}, SaveMessage(who), NEW r \in Requests,
         ~Request(r, "idle"), ~Request(r, "found"),
         NEW q \in RequestType, q.step \in {"idle", "answering"},
         requests' = [requests EXCEPT ![r] = q],
         UNCHANGED <<given, kept, drifted, aside>>
  PROVE  SessionInv'
<1>0. SessionTypeOK /\ VisitsHold /\ CodesHold /\ PollHolds
  BY DEF SessionInv
<1>1. /\ chat' = [chat EXCEPT !.last = who, !.warned = FALSE]
      /\ silence' = 0 /\ quiet' = 0 /\ goodbyes' = 0 /\ Stir
  BY DEF SaveMessage
<1>2. chat \in ChatType /\ requests \in [Requests -> RequestType]
  BY <1>0, SessionTypes
<1>3. /\ chat' \in ChatType /\ chat'.linked = chat.linked /\ chat'.client = chat.client
      /\ chat'.flow = chat.flow /\ chat'.number = chat.number /\ chat'.code = chat.code
  BY <1>1, <1>2 DEF ChatType
<1>4. /\ requests' \in [Requests -> RequestType] /\ requests'[r].step # "found"
      /\ \A s \in Requests : s # r => requests'[s] = requests[s]
  BY <1>2
<1>5. PollHolds' /\ poll' \in PollType
  BY <1>0, <1>1, PollIsStirred
<1>6. SessionTypeOK'
  <2>1. 0 \in 0..Never /\ 0 \in 0..2
    BY SessionNumbers
  <2>2. QED
    BY <1>0, <1>1, <1>3, <1>4, <1>5, <2>1 DEF SessionTypeOK, ChatType, RequestType, PollType
<1>7. VisitsHold'
  <2>1. kept \/ VisitFits
    <3>1. CASE ~Opening
      BY <1>0, <3>1 DEF VisitsHold
    <3>2. CASE Opening
      <4>1. OpeningFits(r) /\ requests[r].step = "saving"
        BY <1>0, <3>2 DEF VisitsHold, OpeningFits, Request
      <4>2. QED
        BY <4>1 DEF OpeningFits, Request, VisitFits
    <3>3. QED
      BY <3>1, <3>2
  <2>2. VisitFits => VisitFits'
    BY <1>3 DEF VisitFits
  <2>3. ~Opening' /\ silence' # Never
    BY <1>1, SessionNumbers DEF Opening
  <2>4. QED
    BY <2>1, <2>2, <2>3 DEF VisitsHold
<1>8. CodesHold'
  BY <1>0, <1>3, <1>4, CodesStay
<1>9. QED
  BY <1>5, <1>6, <1>7, <1>8 DEF SessionInv

LEMMA SessionSaves ==
  ASSUME SessionInv, NEW r \in Requests, SavePerson(r) \/ Answer(r)
  PROVE  SessionInv'
<1>1. NoRequest \in RequestType /\ NoRequest.step = "idle"
  BY SessionTypes, NoneOfSession DEF SessionInv
<1>2. CASE SavePerson(r)
  <2>1. PICK q : /\ q = (IF requests[r].paused THEN NoRequest ELSE [NoRequest EXCEPT !.step = "answering"])
                 /\ requests' = [requests EXCEPT ![r] = q]
    BY <1>2 DEF SavePerson
  <2>2. q \in RequestType /\ q.step \in {"idle", "answering"}
    BY <1>1, <2>1 DEF RequestType
  <2>3. /\ SaveMessage("person") /\ ~Request(r, "idle") /\ ~Request(r, "found")
        /\ UNCHANGED <<given, kept, drifted, aside>>
    BY <1>2 DEF SavePerson, Request
  <2>4. QED
    BY <2>1, <2>2, <2>3, MessageIsKept
<1>3. CASE Answer(r)
  <2>1. /\ SaveMessage("bot") /\ ~Request(r, "idle") /\ ~Request(r, "found")
        /\ requests' = [requests EXCEPT ![r] = NoRequest]
        /\ UNCHANGED <<given, kept, drifted, aside>>
    BY <1>3 DEF Answer, Request
  <2>2. QED
    BY <1>1, <2>1, MessageIsKept
<1>4. QED
  BY <1>2, <1>3

LEMMA SessionFlows ==
  ASSUME SessionInv, NEW r \in Requests, SaveFlowState(r)
  PROVE  SessionInv'
<1>0. SessionTypeOK /\ VisitsHold /\ CodesHold /\ PollHolds
  BY DEF SessionInv
<1>1. PICK f \in {"none", "now"} : chat' = [chat EXCEPT !.flow = f]
  BY DEF SaveFlowState
<1>2. Request(r, "answering") /\ UNCHANGED <<requests, poll, silence, quiet, given, kept, drifted, goodbyes, aside>>
  BY DEF SaveFlowState, sessionHistory
<1>3. chat \in ChatType
  BY <1>0, SessionTypes
<1>4. /\ chat' \in ChatType /\ chat'.flow = f /\ chat'.linked = chat.linked /\ chat'.client = chat.client
      /\ chat'.number = chat.number /\ chat'.code = chat.code
      /\ chat'.last = chat.last /\ chat'.warned = chat.warned /\ chat'.paused = chat.paused
  BY <1>1, <1>3 DEF ChatType, When
<1>5. SessionTypeOK'
  BY <1>0, <1>2, <1>4 DEF SessionTypeOK, ChatType
<1>6. VisitsHold'
  <2>1. ~Opening /\ (kept \/ VisitFits)
    BY <1>0, <1>2, NoneIsServed DEF Request
  <2>2. ~Opening' /\ (kept' \/ VisitFits')
    BY <1>2, <1>4, <2>1 DEF Opening, VisitFits
  <2>3. QED
    BY <1>0, <1>2, <2>2 DEF VisitsHold
<1>7. CodesHold'
  BY <1>0, <1>2, <1>4, CodesStay
<1>8. PollHolds'
  BY <1>0, <1>2, <1>4, PollStays
<1>9. QED
  BY <1>5, <1>6, <1>7, <1>8 DEF SessionInv

LEMMA SessionIdentifies ==
  ASSUME SessionInv, NEW r \in Requests, NEW c \in Clients, Identify(r, c)
  PROVE  SessionInv'
<1>0. SessionTypeOK /\ VisitsHold /\ CodesHold /\ PollHolds
  BY DEF SessionInv
<1>1. /\ Request(r, "answering")
      /\ requests' = [requests EXCEPT ![r].step = "linking", ![r].client = c, ![r].line = chat.number]
      /\ UNCHANGED <<chat, poll, silence, quiet, given, kept, drifted, goodbyes, aside>>
  BY DEF Identify, sessionHistory
<1>2. chat \in ChatType /\ requests \in [Requests -> RequestType]
  BY <1>0, SessionTypes
<1>3. /\ requests' \in [Requests -> RequestType] /\ requests'[r].step = "linking"
      /\ \A s \in Requests : s # r => requests'[s] = requests[s]
  <2> DEFINE linking == [requests[r] EXCEPT !.step = "linking", !.client = c, !.line = chat.number]
  <2>1. chat.number \in Lines /\ requests[r] \in RequestType
    BY <1>2 DEF ChatType
  <2>2. linking \in RequestType /\ linking.step = "linking"
    BY <2>1 DEF RequestType
  <2>3. requests' = [requests EXCEPT ![r] = linking]
    BY <1>1, <1>2
  <2> HIDE DEF linking
  <2>4. QED
    BY <1>2, <2>2, <2>3
<1>4. SessionTypeOK'
  BY <1>0, <1>1, <1>3 DEF SessionTypeOK, RequestType
<1>5. VisitsHold'
  <2>1. ~Opening /\ (kept \/ VisitFits)
    BY <1>0, <1>1, NoneIsServed DEF Request
  <2>2. ~Opening' /\ (kept' \/ VisitFits')
    BY <1>1, <2>1 DEF Opening, VisitFits
  <2>3. QED
    BY <1>0, <1>1, <2>2 DEF VisitsHold
<1>6. CodesHold'
  BY <1>0, <1>1, <1>3, CodesStay
<1>7. PollHolds'
  BY <1>0, <1>1, PollStays
<1>8. QED
  BY <1>4, <1>5, <1>6, <1>7 DEF SessionInv

LEMMA ChatCodesServed ==
  ASSUME NEW l \in Lines, NEW c \in Clients, NEW code \in ChatCodes(l, c)
  PROVE  code \in Codes \cup {NoCode} /\ ~ForeignCode(l, code)
BY SessionParameters DEF ChatCodes, ForeignCode

LEMMA SessionLinks ==
  ASSUME SessionInv, NEW r \in Requests, LinkClient(r), requests[r].client \in Clients
  PROVE  SessionInv'
<1>0. SessionTypeOK /\ VisitsHold /\ CodesHold /\ PollHolds
  BY DEF SessionInv
<1>1. PICK q : q = requests[r]
  OBVIOUS
<1>2. PICK code \in ChatCodes(q.line, q.client) :
        chat' = [chat EXCEPT !.client = q.client, !.linked = "now", !.code = code]
  BY <1>1 DEF LinkClient
<1>3. /\ q.step = "linking" /\ given' = given \cup {q.client}
      /\ drifted' = (drifted \/ chat.number # q.line)
      /\ requests' = [s \in Requests |->
           IF s = r THEN [NoRequest EXCEPT !.step = "answering"]
           ELSE IF Request(s, "found") THEN [requests[s] EXCEPT !.linked = TRUE] ELSE requests[s]]
      /\ UNCHANGED <<poll, silence, quiet, kept, goodbyes, aside>>
  BY <1>1 DEF LinkClient, Request
<1>4. /\ chat \in ChatType /\ requests \in [Requests -> RequestType] /\ q \in RequestType
      /\ NoRequest \in RequestType /\ NoRequest.step = "idle" /\ q.client \in Clients /\ q.line \in Lines
  BY <1>0, <1>1, SessionTypes, NoneOfSession DEF RequestType
<1>5. code \in Codes \cup {NoCode} /\ ~ForeignCode(q.line, code)
  BY <1>4, ChatCodesServed
<1>6. /\ chat' \in ChatType /\ chat'.client = q.client /\ chat'.flow = chat.flow
      /\ chat'.number = chat.number /\ chat'.code = code
      /\ chat'.last = chat.last /\ chat'.warned = chat.warned /\ chat'.paused = chat.paused
  BY <1>2, <1>4, <1>5 DEF ChatType, When
<1>7. ASSUME NEW s \in Requests
      PROVE  /\ requests'[s] \in RequestType
             /\ requests'[s].step = "found" =>
                  /\ requests[s].step = "found" /\ requests'[s].foreign = requests[s].foreign
                  /\ requests'[s].line = requests[s].line /\ requests'[s].code = requests[s].code
  <2>1. requests[s] \in RequestType
    BY <1>4
  <2>2. CASE s = r
    <3>1. requests'[s] = [NoRequest EXCEPT !.step = "answering"]
      BY <1>3, <2>2
    <3>2. QED
      BY <1>4, <3>1 DEF RequestType
  <2>3. CASE s # r /\ Request(s, "found")
    <3>1. requests'[s] = [requests[s] EXCEPT !.linked = TRUE]
      BY <1>3, <2>3
    <3>2. QED
      BY <2>1, <2>3, <3>1 DEF RequestType, Request
  <2>4. CASE s # r /\ ~Request(s, "found")
    <3>1. requests'[s] = requests[s]
      BY <1>3, <2>4
    <3>2. QED
      BY <2>1, <3>1
  <2>5. QED
    BY <2>2, <2>3, <2>4
<1>8. SessionTypeOK'
  <2>1. requests' = [s \in Requests |-> requests'[s]]
    BY <1>3
  <2>2. requests' \in [Requests -> RequestType]
    BY <1>7, <2>1
  <2>3. given' \subseteq Clients /\ drifted' \in BOOLEAN
    BY <1>0, <1>3, <1>4 DEF SessionTypeOK
  <2>4. QED
    BY <1>0, <1>3, <1>6, <2>2, <2>3 DEF SessionTypeOK, ChatType, RequestType
<1>9. VisitsHold'
  <2>1. ~Opening /\ (kept \/ VisitFits)
    BY <1>0, <1>1, <1>3, NoneIsServed
  <2>2. ~Opening' /\ (kept' \/ VisitFits')
    BY <1>3, <1>6, <2>1 DEF Opening, VisitFits
  <2>3. QED
    BY <1>0, <1>3, <2>2 DEF VisitsHold
<1>10. CodesHold'
  <2>1. CodeFits'
    BY <1>3, <1>5, <1>6 DEF CodeFits, ForeignCode
  <2>2. ASSUME NEW s \in Requests, Request(s, "found")'
        PROVE  drifted' \/ requests'[s].foreign \/ ~ForeignCode(requests'[s].line, requests'[s].code)
    BY <1>0, <1>3, <1>7, <2>2 DEF CodesHold, Request
  <2>3. QED
    BY <2>1, <2>2 DEF CodesHold, ForeignCode, Request
<1>11. PollHolds'
  BY <1>0, <1>3, <1>6, PollStays
<1>12. QED
  BY <1>8, <1>9, <1>10, <1>11 DEF SessionInv

LEMMA SessionAsks ==
  ASSUME SessionInv, NEW r \in Requests, AskOffice(r)
  PROVE  SessionInv'
<1>0. SessionTypeOK /\ VisitsHold /\ CodesHold /\ PollHolds
  BY DEF SessionInv
<1>1. /\ Request(r, "answering") /\ chat' = [chat EXCEPT !.waiting = "now"]
      /\ requests' = [s \in Requests |->
           IF Request(s, "found") THEN [requests[s] EXCEPT !.waited = TRUE] ELSE requests[s]]
      /\ UNCHANGED <<poll, silence, quiet, given, kept, drifted, goodbyes, aside>>
  BY DEF AskOffice, sessionHistory
<1>2. chat \in ChatType /\ requests \in [Requests -> RequestType]
  BY <1>0, SessionTypes
<1>3. /\ chat' \in ChatType /\ chat'.flow = chat.flow /\ chat'.linked = chat.linked /\ chat'.client = chat.client
      /\ chat'.number = chat.number /\ chat'.code = chat.code
      /\ chat'.last = chat.last /\ chat'.warned = chat.warned /\ chat'.paused = chat.paused
  BY <1>1, <1>2 DEF ChatType, When
<1>4. ASSUME NEW s \in Requests
      PROVE  /\ requests'[s] \in RequestType /\ requests'[s].step = requests[s].step
             /\ requests'[s].foreign = requests[s].foreign /\ requests'[s].line = requests[s].line
             /\ requests'[s].code = requests[s].code
  <2>1. requests[s] \in RequestType
    BY <1>2
  <2>2. CASE Request(s, "found")
    <3>1. requests'[s] = [requests[s] EXCEPT !.waited = TRUE]
      BY <1>1, <2>2
    <3>2. QED
      BY <2>1, <3>1 DEF RequestType
  <2>3. CASE ~Request(s, "found")
    <3>1. requests'[s] = requests[s]
      BY <1>1, <2>3
    <3>2. QED
      BY <2>1, <3>1
  <2>4. QED
    BY <2>2, <2>3
<1>5. SessionTypeOK'
  <2>1. requests' = [s \in Requests |-> requests'[s]]
    BY <1>1
  <2>2. requests' \in [Requests -> RequestType]
    BY <1>4, <2>1
  <2>3. QED
    BY <1>0, <1>1, <1>3, <2>2 DEF SessionTypeOK, ChatType, RequestType
<1>6. VisitsHold'
  <2>1. ~Opening /\ (kept \/ VisitFits)
    BY <1>0, <1>1, NoneIsServed DEF Request
  <2>2. ~Opening' /\ (kept' \/ VisitFits')
    BY <1>1, <1>3, <2>1 DEF Opening, VisitFits
  <2>3. QED
    BY <1>0, <1>1, <2>2 DEF VisitsHold
<1>7. CodesHold'
  BY <1>0, <1>1, <1>3, <1>4, CodesStay
<1>8. PollHolds'
  BY <1>0, <1>1, <1>3, PollStays
<1>9. QED
  BY <1>5, <1>6, <1>7, <1>8 DEF SessionInv

LEMMA SessionResets ==
  ASSUME SessionInv, NEW r \in Requests, NEW unlink \in BOOLEAN, ResetSession(r, unlink)
  PROVE  SessionInv'
<1>0. SessionTypeOK /\ VisitsHold /\ CodesHold /\ PollHolds
  BY DEF SessionInv
<1>1. /\ chat' = IF unlink
             THEN [chat EXCEPT !.flow = "none", !.warned = FALSE, !.waiting = Older(@),
                               !.client = Nobody, !.linked = "none", !.code = NoCode]
             ELSE [chat EXCEPT !.flow = "none", !.warned = FALSE, !.waiting = Older(@), !.linked = Older(@)]
      /\ silence' = Never /\ quiet' = Never /\ given' = {} /\ kept' = FALSE /\ goodbyes' = 0
      /\ requests' = [requests EXCEPT ![r] = NoRequest]
      /\ Stir /\ drifted' = drifted /\ aside' = aside
  BY DEF ResetSession
<1>2. /\ chat \in ChatType /\ requests \in [Requests -> RequestType]
      /\ NoRequest \in RequestType /\ NoRequest.step = "idle"
  BY <1>0, SessionTypes, NoneOfSession
<1>3. /\ chat' \in ChatType /\ chat'.flow = "none" /\ chat'.linked # "now"
      /\ chat'.number = chat.number /\ chat'.code \in {chat.code, NoCode}
  BY <1>1, <1>2, OlderTyping DEF ChatType, When
<1>4. /\ requests' \in [Requests -> RequestType] /\ requests'[r].step = "idle"
      /\ \A s \in Requests : s # r => requests'[s] = requests[s]
  BY <1>1, <1>2
<1>5. PollHolds' /\ poll' \in PollType
  BY <1>0, <1>1, PollIsStirred
<1>6. SessionTypeOK'
  <2>1. Never \in 0..Never /\ 0 \in 0..2
    BY SessionNumbers
  <2>2. QED
    BY <1>0, <1>1, <1>3, <1>4, <1>5, <2>1 DEF SessionTypeOK, ChatType, RequestType, PollType
<1>7. VisitsHold'
  BY <1>1, <1>3, SessionNumbers DEF VisitsHold, Opening, VisitFits
<1>8. CodesHold'
  <2>1. CodeFits'
    BY <1>0, <1>1, <1>3 DEF CodesHold, CodeFits, ForeignCode
  <2>2. ASSUME NEW s \in Requests, Request(s, "found")'
        PROVE  drifted' \/ requests'[s].foreign \/ ~ForeignCode(requests'[s].line, requests'[s].code)
    <3>1. requests'[s] = requests[s]
      BY <1>4, <2>2 DEF Request
    <3>2. QED
      BY <1>0, <1>1, <2>2, <3>1 DEF CodesHold, Request
  <2>3. QED
    BY <2>1, <2>2 DEF CodesHold, ForeignCode, Request
<1>9. QED
  BY <1>5, <1>6, <1>7, <1>8 DEF SessionInv

\* What the poll and the office do belongs to no message: at most it is activity,
\* or links the client whose phone this is.
LEMMA VisitGoesOn ==
  ASSUME SessionTypeOK, VisitsHold, CodesHold,
         UNCHANGED <<requests, quiet, given, kept>>, silence' \in {silence, 0},
         chat' \in ChatType, chat'.flow = chat.flow,
         chat'.linked = "now" => chat'.client = Owner \/ (chat.linked = "now" /\ chat'.client = chat.client),
         drifted' \/ (chat'.number = chat.number /\ chat'.code = chat.code /\ drifted' = drifted),
         drifted' \in BOOLEAN, poll' \in PollType, goodbyes' \in 0..2, aside' \in 0..MaxAside
  PROVE  SessionTypeOK' /\ VisitsHold' /\ CodesHold'
<1>1. SessionTypeOK'
  <2>1. silence' \in 0..Never
    BY SessionTypes, SessionNumbers
  <2>2. QED
    BY <2>1 DEF SessionTypeOK, ChatType, PollType
<1>2. VisitsHold'
  <2>1. VisitFits => VisitFits'
    BY DEF VisitFits
  <2>2. Opening' = Opening
    BY DEF Opening
  <2>3. silence' = Never => silence = Never
    BY SessionNumbers
  <2>4. silence <= Timeout => silence' <= Timeout
    BY SessionNumbers
  <2>5. ASSUME NEW s \in Requests, OpeningFits(s) PROVE OpeningFits(s)'
    BY <2>4, <2>5 DEF OpeningFits, Request
  <2>6. QED
    BY <2>1, <2>2, <2>3, <2>5 DEF VisitsHold
<1>3. CodesHold'
  BY DEF CodesHold, CodeFits, ForeignCode, Request
<1>4. QED
  BY <1>1, <1>2, <1>3

LEMMA SessionIsPolled ==
  ASSUME SessionInv, PollReads \/ PollClaims \/ PollGoodbye \/ PollIsSilent
  PROVE  SessionInv'
<1>0. SessionTypeOK /\ VisitsHold /\ CodesHold /\ PollHolds
  BY DEF SessionInv
<1>1. /\ chat \in ChatType /\ poll \in PollType /\ drifted \in BOOLEAN
      /\ goodbyes \in 0..2 /\ aside \in 0..MaxAside /\ silence \in Nat
      /\ NoPoll \in PollType /\ NoPoll.step = "idle"
  BY <1>0, SessionTypes, NoneOfSession
<1>2. CASE PollReads
  <2>1. /\ poll.step = "idle" /\ ~chat.warned /\ silence \in Timeout..Long
        /\ poll' = [step |-> "claiming", stirred |-> FALSE, waited |-> chat.waiting = "now",
                    fits |-> ~chat.paused /\ silence <= Timeout + Window /\ chat.last = "bot"]
        /\ UNCHANGED <<chat, requests, silence, quiet, given, kept, drifted, goodbyes, aside>>
    BY <1>2 DEF PollReads, sessionHistory
  <2>2. poll' \in PollType /\ poll'.step = "claiming"
    BY <2>1 DEF PollType
  <2>3. poll'.fits => ~chat.paused /\ silence <= Timeout + Window /\ chat.last = "bot"
    BY <2>1
  <2>4. goodbyes = 0
    BY <1>0, <2>1 DEF PollHolds
  <2>5. silence <= Timeout + Window => silence \in Timeout..(Timeout + Window)
    BY <1>1, <2>1, SessionNumbers
  <2>6. PollHolds'
    BY <2>1, <2>2, <2>3, <2>4, <2>5 DEF PollHolds
  <2>7. SessionTypeOK' /\ VisitsHold' /\ CodesHold'
    BY <1>0, <1>1, <2>1, <2>2, VisitGoesOn
  <2>8. QED
    BY <2>6, <2>7 DEF SessionInv
<1>3. CASE PollClaims
  <2>1. /\ poll.step = "claiming" /\ chat' = [chat EXCEPT !.warned = TRUE]
        /\ poll' = [poll EXCEPT !.step = "choosing"]
        /\ UNCHANGED <<requests, silence, quiet, given, kept, drifted, goodbyes, aside>>
    BY <1>3 DEF PollClaims, sessionHistory
  <2>2. /\ poll' \in PollType /\ poll'.stirred = poll.stirred /\ poll'.fits = poll.fits
    BY <1>1, <2>1 DEF PollType
  <2>3. /\ chat' \in ChatType /\ chat'.warned = TRUE /\ chat'.last = chat.last /\ chat'.paused = chat.paused
        /\ chat'.flow = chat.flow /\ chat'.linked = chat.linked /\ chat'.client = chat.client
        /\ chat'.number = chat.number /\ chat'.code = chat.code
    BY <1>1, <2>1 DEF ChatType
  <2>4. PollHolds'
    BY <1>0, <2>1, <2>2, <2>3 DEF PollHolds
  <2>5. SessionTypeOK' /\ VisitsHold' /\ CodesHold'
    BY <1>0, <1>1, <2>1, <2>2, <2>3, VisitGoesOn
  <2>6. QED
    BY <2>4, <2>5 DEF SessionInv
<1>4. CASE PollGoodbye
  <2>1. /\ poll.step = "choosing" /\ chat' = [chat EXCEPT !.last = "bot"]
        /\ goodbyes' = (IF poll.stirred THEN goodbyes ELSE goodbyes + 1)
        /\ poll' = NoPoll
        /\ UNCHANGED <<requests, silence, quiet, given, kept, drifted, aside>>
    BY <1>4 DEF PollGoodbye
  <2>2. /\ chat' \in ChatType /\ chat'.warned = chat.warned
        /\ chat'.flow = chat.flow /\ chat'.linked = chat.linked /\ chat'.client = chat.client
        /\ chat'.number = chat.number /\ chat'.code = chat.code
    BY <1>1, <2>1 DEF ChatType
  <2>3. goodbyes' = goodbyes \/ (goodbyes' = 1 /\ chat.warned)
    <3>1. ~poll.stirred => goodbyes = 0 /\ chat.warned
      BY <1>0, <2>1 DEF PollHolds
    <3>2. goodbyes = 0 => goodbyes + 1 = 1
      OBVIOUS
    <3>3. QED
      BY <2>1, <3>1, <3>2
  <2>4. PollHolds'
    BY <1>0, <1>1, <2>1, <2>2, <2>3 DEF PollHolds
  <2>5. goodbyes' \in 0..2
    BY <1>1, <2>3
  <2>6. SessionTypeOK' /\ VisitsHold' /\ CodesHold'
    BY <1>0, <1>1, <2>1, <2>2, <2>5, VisitGoesOn
  <2>7. QED
    BY <2>4, <2>6 DEF SessionInv
<1>5. CASE PollIsSilent
  <2>1. poll' = NoPoll /\ UNCHANGED <<chat, requests, silence, quiet, given, kept, drifted, goodbyes, aside>>
    BY <1>5 DEF PollIsSilent, sessionHistory
  <2>2. PollHolds'
    BY <1>0, <1>1, <2>1 DEF PollHolds
  <2>3. SessionTypeOK' /\ VisitsHold' /\ CodesHold'
    BY <1>0, <1>1, <2>1, VisitGoesOn
  <2>4. QED
    BY <2>2, <2>3 DEF SessionInv
<1>6. QED
  BY <1>2, <1>3, <1>4, <1>5

LEMMA SessionIsAnswered ==
  ASSUME SessionInv, NEW notice \in BOOLEAN, OfficeWrites(notice) \/ Echo \/ OfficeActs
  PROVE  SessionInv'
<1>0. SessionTypeOK /\ VisitsHold /\ CodesHold /\ PollHolds
  BY DEF SessionInv
<1>1. /\ Aside /\ Stir /\ UNCHANGED <<requests, quiet, given, kept, drifted>>
      /\ silence' \in {silence, 0} /\ (goodbyes' = 0 \/ (goodbyes' = goodbyes /\ chat'.warned = chat.warned))
      /\ goodbyes' \in {0, goodbyes}
      /\ chat' \in ChatType /\ chat'.flow = chat.flow /\ chat'.number = chat.number /\ chat'.code = chat.code
      /\ chat'.linked = "now" => chat'.client = Owner \/ (chat.linked = "now" /\ chat'.client = chat.client)
  <2>1. chat \in ChatType /\ Owner \in Clients
    BY <1>0, SessionTypes, SessionParameters
  <2>2. CASE OfficeWrites(notice)
    BY <2>1, <2>2 DEF OfficeWrites, ChatType, When
  <2>3. CASE Echo
    BY <2>1, <2>3 DEF Echo, ChatType
  <2>4. CASE OfficeActs
    BY <2>1, <2>4 DEF OfficeActs, ChatType, When, sessionHistory
  <2>5. QED
    BY <2>2, <2>3, <2>4
<1>2. PollHolds' /\ poll' \in PollType
  BY <1>0, <1>1, PollIsStirred
<1>3. aside' \in 0..MaxAside /\ drifted' \in BOOLEAN /\ goodbyes' \in 0..2
  BY <1>0, <1>1, SessionTypes, SessionNumbers DEF Aside
<1>4. QED
  BY <1>0, <1>1, <1>2, <1>3, VisitGoesOn DEF SessionInv

LEMMA SessionIsImported ==
  ASSUME SessionInv, NEW l \in Lines, ImportHistory(l)
  PROVE  SessionInv'
<1>0. SessionTypeOK /\ VisitsHold /\ CodesHold /\ PollHolds
  BY DEF SessionInv
<1>1. /\ Aside /\ chat' = [chat EXCEPT !.number = l] /\ drifted' = TRUE
      /\ UNCHANGED <<requests, poll, silence, quiet, given, kept, goodbyes>>
  BY DEF ImportHistory
<1>2. /\ chat \in ChatType /\ poll \in PollType /\ goodbyes \in 0..2
  BY <1>0, SessionTypes
<1>3. /\ chat' \in ChatType /\ chat'.flow = chat.flow /\ chat'.linked = chat.linked /\ chat'.client = chat.client
      /\ chat'.last = chat.last /\ chat'.warned = chat.warned /\ chat'.paused = chat.paused
  BY <1>1, <1>2 DEF ChatType
<1>4. PollHolds'
  BY <1>0, <1>1, <1>3, PollStays
<1>5. aside' \in 0..MaxAside
  BY <1>0, <1>1, SessionTypes, SessionNumbers DEF Aside
<1>6. QED
  BY <1>0, <1>1, <1>2, <1>3, <1>4, <1>5, VisitGoesOn DEF SessionInv

LEMMA SessionIsSilent ==
  ASSUME SessionInv, SilenceGrows
  PROVE  SessionInv'
<1>0. SessionTypeOK /\ VisitsHold /\ CodesHold /\ PollHolds
  BY DEF SessionInv
<1>1. /\ poll.step = "idle" /\ \A r \in Requests : Request(r, "idle")
      /\ silence' = (IF silence < Long THEN silence + 1 ELSE silence)
      /\ quiet' = (IF quiet < Long THEN quiet + 1 ELSE quiet)
      /\ UNCHANGED <<chat, requests, poll, given, kept, drifted, goodbyes, aside>>
  BY DEF SilenceGrows
<1>2. /\ silence' \in 0..Never /\ quiet' \in 0..Never
      /\ silence' = Never => silence = Never
      /\ quiet = Never => quiet' = Never
      /\ ~(quiet' > Timeout /\ quiet' < Never) => ~(quiet > Timeout /\ quiet < Never)
  <2>1. silence \in Nat /\ silence <= Never /\ quiet \in Nat /\ quiet <= Never
    BY <1>0, SessionTypes, SessionNumbers
  <2>2. Never = Long + 1
    BY DEF Never
  <2>3. QED
    BY <1>1, <2>1, <2>2, SessionNumbers
<1>3. SessionTypeOK'
  BY <1>0, <1>1, <1>2 DEF SessionTypeOK
<1>4. VisitsHold'
  <2>1. ~Opening' => kept' \/ VisitFits'
    BY <1>0, <1>1, <1>2 DEF VisitsHold, Opening, VisitFits
  <2>2. \A r \in Requests : OpeningFits(r)'
    BY <1>1 DEF OpeningFits, Request
  <2>3. silence' = Never => quiet' = Never
    BY <1>0, <1>2 DEF VisitsHold
  <2>4. QED
    BY <2>1, <2>2, <2>3 DEF VisitsHold
<1>5. CodesHold'
  BY <1>0, <1>1, CodesStay
<1>6. PollHolds'
  BY <1>0, <1>1 DEF PollHolds
<1>7. QED
  BY <1>3, <1>4, <1>5, <1>6 DEF SessionInv

LEMMA LinksKeepFit ==
  ASSUME SessionTypeOK, LinksHold, SessionNext
  PROVE  LinksHold'
<1>1. requests \in [Requests -> RequestType] /\ NoRequest.step = "idle"
  BY SessionTypes, NoneOfSession
<1>2. CASE requests' = requests
  BY <1>2 DEF LinksHold
<1>3. ASSUME NEW r \in Requests, NEW q,
             q.step # "linking" \/ q.client \in Clients \/ (q.step = requests[r].step /\ q.client = requests[r].client),
             requests' = [requests EXCEPT ![r] = q]
      PROVE  LinksHold'
  <2>1. requests'[r] = q /\ \A s \in Requests : s # r => requests'[s] = requests[s]
    BY <1>1, <1>3
  <2>2. QED
    BY <1>3, <2>1 DEF LinksHold
<1>4. ASSUME NEW r \in Requests, NEW l \in Lines, Find(r, l) PROVE LinksHold'
  <2>1. PICK new : requests' = [requests EXCEPT ![r] =
            [NoRequest EXCEPT !.step = "found", !.line = l, !.new = new, !.foreign = LosesCode(l),
                              !.paused = chat.paused, !.code = chat.code]]
    BY <1>4 DEF Find
  <2>2. [NoRequest EXCEPT !.step = "found", !.line = l, !.new = new, !.foreign = LosesCode(l),
                          !.paused = chat.paused, !.code = chat.code].step # "linking"
    BY DEF NoRequest
  <2>3. QED
    BY <1>3, <2>1, <2>2
<1>5. ASSUME NEW r \in Requests, Enter(r) PROVE LinksHold'
  <2>1. /\ requests' = [requests EXCEPT ![r] = [requests[r] EXCEPT !.step = "saving"]]
        /\ [requests[r] EXCEPT !.step = "saving"].step # "linking"
    BY <1>1, <1>5 DEF Enter, RequestType
  <2>2. QED
    BY <1>3, <2>1
<1>6. ASSUME NEW r \in Requests, SavePerson(r) PROVE LinksHold'
  <2>1. /\ requests' = [requests EXCEPT ![r] =
             IF requests[r].paused THEN NoRequest ELSE [NoRequest EXCEPT !.step = "answering"]]
        /\ (IF requests[r].paused THEN NoRequest ELSE [NoRequest EXCEPT !.step = "answering"]).step # "linking"
    BY <1>6 DEF SavePerson, NoRequest
  <2>2. QED
    BY <1>3, <2>1
<1>7. ASSUME NEW r \in Requests, requests' = [requests EXCEPT ![r] = NoRequest] PROVE LinksHold'
  BY <1>1, <1>3, <1>7
<1>8. ASSUME NEW r \in Requests, NEW c \in Clients, Identify(r, c) PROVE LinksHold'
  <2>1. /\ requests' = [requests EXCEPT ![r] =
             [requests[r] EXCEPT !.step = "linking", !.client = c, !.line = chat.number]]
        /\ [requests[r] EXCEPT !.step = "linking", !.client = c, !.line = chat.number].client = c
    BY <1>1, <1>8 DEF Identify, RequestType
  <2>2. QED
    BY <1>3, <2>1
<1>9. ASSUME NEW r \in Requests, LinkClient(r) PROVE LinksHold'
  <2>1. requests' = [s \in Requests |->
          IF s = r THEN [NoRequest EXCEPT !.step = "answering"]
          ELSE IF Request(s, "found") THEN [requests[s] EXCEPT !.linked = TRUE] ELSE requests[s]]
    BY <1>9 DEF LinkClient
  <2>2. ASSUME NEW s \in Requests, requests'[s].step = "linking" PROVE requests'[s] = requests[s]
    <3>1. [NoRequest EXCEPT !.step = "answering"].step # "linking"
      BY DEF NoRequest
    <3>2. Request(s, "found") => [requests[s] EXCEPT !.linked = TRUE].step # "linking"
      BY <1>1 DEF Request, RequestType
    <3>3. QED
      BY <2>1, <2>2, <3>1, <3>2
  <2>3. QED
    BY <2>2 DEF LinksHold
<1>10. ASSUME NEW r \in Requests, AskOffice(r) PROVE LinksHold'
  <2>1. requests' = [s \in Requests |->
          IF Request(s, "found") THEN [requests[s] EXCEPT !.waited = TRUE] ELSE requests[s]]
    BY <1>10 DEF AskOffice
  <2>2. ASSUME NEW s \in Requests, requests'[s].step = "linking" PROVE requests'[s] = requests[s]
    <3>1. Request(s, "found") => [requests[s] EXCEPT !.waited = TRUE].step # "linking"
      BY <1>1 DEF Request, RequestType
    <3>2. QED
      BY <2>1, <2>2, <3>1
  <2>3. QED
    BY <2>2 DEF LinksHold
<1>11. ASSUME NEW r \in Requests, SaveFlowState(r) PROVE LinksHold'
  BY <1>2, <1>11 DEF SaveFlowState
<1>12. QED
  BY <1>2, <1>4, <1>5, <1>6, <1>7, <1>8, <1>9, <1>10, <1>11
     DEF SessionNext, Answer, ResetSession, PollReads, PollClaims, PollGoodbye, PollIsSilent,
         OfficeWrites, Echo, OfficeActs, ImportHistory, SilenceGrows

LEMMA SessionKeepsFit == SessionInv /\ LinksHold /\ [SessionNext]_sessionVars => (SessionInv /\ LinksHold)'
<1>1. ASSUME SessionInv, LinksHold, SessionNext PROVE SessionInv'
  <2>1. ASSUME NEW r \in Requests, LinkClient(r) PROVE requests[r].client \in Clients
    BY <1>1, <2>1 DEF LinkClient, LinksHold, Request
  <2>2. QED
    BY <1>1, <2>1, SessionFinds, SessionEnters, SessionSaves, SessionFlows, SessionLinks, SessionAsks,
       SessionIdentifies, SessionResets, SessionIsPolled, SessionIsAnswered, SessionIsImported, SessionIsSilent
       DEF SessionNext
<1>2. ASSUME SessionInv, LinksHold, SessionNext PROVE LinksHold'
  BY <1>2, LinksKeepFit DEF SessionInv
<1>3. ASSUME SessionInv, LinksHold, UNCHANGED sessionVars PROVE (SessionInv /\ LinksHold)'
  BY <1>3 DEF sessionVars, sessionHistory, SessionInv, LinksHold, SessionTypeOK, VisitsHold, Opening, VisitFits,
     OpeningFits, Request, CodesHold, CodeFits, ForeignCode, PollHolds
<1>4. QED
  BY <1>1, <1>2, <1>3

LEMMA SessionStartsLinked == SessionInit => LinksHold
BY DEF SessionInit, LinksHold, NoRequest

\* While the bot answers nobody comes back, so what the chat has is of this visit.
LEMMA VisitsAreApart == SessionInv => VisitsApart /\ CodeFits
<1> SUFFICES ASSUME SessionInv PROVE VisitsApart /\ CodeFits
  OBVIOUS
<1>1. SessionTypeOK /\ VisitsHold /\ CodesHold
  BY DEF SessionInv
<1>2. ASSUME Answering, ~kept PROVE VisitFits
  <2>1. PICK r \in Requests : requests[r].step \in {"answering", "linking"}
    BY <1>2 DEF Answering, Request
  <2>2. QED
    BY <1>1, <1>2, <2>1, NoneIsServed
<1>3. VisitsApart
  BY <1>2 DEF VisitsApart, VisitFits, Identified, LinkActive
<1>4. QED
  BY <1>1, <1>3 DEF CodesHold

\* Only the poll says goodbye, and it counts where nobody stirred what it read.
LEMMA GoodbyeIsFit ==
  ASSUME SessionInv, [SessionNext]_sessionVars, goodbyes' > goodbyes
  PROVE  /\ goodbyes = 0 /\ silence \in Timeout..(Timeout + Window)
         /\ chat.last = "bot" /\ ~chat.paused /\ chat.waiting # "now"
<1>0. goodbyes \in Nat
  BY SessionTypes DEF SessionInv
<1>1. goodbyes' # goodbyes /\ goodbyes' # 0
  BY <1>0
<1>2. PollGoodbye
  BY <1>1 DEF SessionNext, sessionVars, sessionHistory, Find, Enter, SavePerson, Answer, SaveMessage, SaveFlowState,
     LinkClient, AskOffice, Identify, ResetSession, PollReads, PollClaims, PollIsSilent, OfficeWrites, Echo,
     OfficeActs, ImportHistory, SilenceGrows
<1>3. ~poll.stirred /\ poll.step = "choosing" /\ poll.fits /\ ~WaitingForOffice
  BY <1>1, <1>2 DEF PollGoodbye
<1>4. QED
  BY <1>3 DEF SessionInv, PollHolds, WaitingForOffice

-----------------------------------------------------------------------------
(* The lines *)

\* Meta gives an id to one phone.
CloudFits ==
  /\ \A p \in Phones : cloud[p].id <= lastId
  /\ \A p, q \in Phones : cloud[p].id = cloud[q].id /\ cloud[p].id # 0 => p = q

\* So has each row one of its own.
RowsFit ==
  /\ \A n \in Registrations : numbers[n].id # 0 /\ numbers[n].id <= lastId
  /\ \A n, m \in Registrations : numbers[n].id = numbers[m].id => n = m

\* The chats of the phone that is connecting stay where they are, or move with the
\* row that was found, or could not be known as its.
ChatsMove(p, n) ==
  silentChat[p] \in {0, cloud[p].id} \/ p \in split \/ (n # 0 /\ numbers[n].id = silentChat[p])

SignupFits ==
  /\ signup.step # "idle" =>
       /\ cloud[signup.phone].id # 0
       /\ signup.app => signup.shown = signup.phone
  /\ signup.step \in {"subscribing", "saving"} =>
       /\ signup.row \in 0..created
       /\ SameId(cloud[signup.phone].id) \subseteq {signup.row}
       /\ ChatsMove(signup.phone, signup.row)

\* Chats stand under the id their phone has, once a row has it.
ChatsKept ==
  \A n \in Registrations, p \in Phones :
    numbers[n].id = cloud[p].id => silentChat[p] \in {0, cloud[p].id} \/ p \in split

\* What a check read of an account is still so, and what it found gone is, unless
\* the account was connected or changed since.
CheckFits(c) ==
  /\ checks[c].step # "idle" => \A w \in Accounts : w \in checks[c].stale \/ checks[c].ids[w] = IdsOf(w)
  /\ checks[c].step = "marking" =>
       \E w \in Accounts : checks[c].gone = {w} /\ (w \in checks[c].stale \/ SomeGone(c, w))

\* A webhook nothing overtook is of an account with a number away.
WebhooksFit == \A w \in Accounts : removed[w] = "due" => Gone(w)

ConnectionsInv ==
  /\ ConnectionsTypeOK /\ CloudFits /\ RowsFit /\ SignupFits /\ ChatsKept /\ WebhooksFit
  /\ \A c \in Checkers : CheckFits(c)

CloudLine == [account : Accounts, id : 0..LastId, on : BOOLEAN]
SignupType == [step : {"idle", "finding", "subscribing", "saving"}, org : Organizations, phone : Phones,
               shown : Phones \cup {Unknown}, app : BOOLEAN, row : 0..LastRow]
CheckType == [step : {"idle", "asking", "marking"}, todo : SUBSET Accounts,
              ids : [Accounts -> SUBSET (0..LastId)], gone : SUBSET Accounts, stale : SUBSET Accounts]

LEMMA LineTypes ==
  ASSUME ConnectionsTypeOK
  PROVE  /\ cloud \in [Phones -> CloudLine] /\ signup \in SignupType
         /\ checks \in [Checkers -> CheckType] /\ removed \in [Accounts -> {"none", "due", "late"}]
         /\ numbers \in [RowIds -> Number] /\ accounts \in [Accounts -> {"none", "connected", "disconnected"}]
         /\ silentChat \in [Phones -> 0..LastId] /\ split \subseteq Phones
         /\ lastId \in Nat /\ lastId <= LastId /\ LastId \in Nat
         /\ created \in Nat /\ created <= LastRow /\ LastRow \in Nat
         /\ Registrations \subseteq RowIds /\ \A n \in Registrations : numbers[n] \in Number
BY ConnectionParameters DEF ConnectionsTypeOK, CloudLine, SignupType, CheckType, Registrations, RowIds

LEMMA NoneTyping ==
  /\ AnAccount \in Accounts /\ AnOrganization \in Organizations /\ APhone \in Phones
  /\ NoNumber \in Number /\ NoSignup \in SignupType /\ NoSignup.step = "idle"
  /\ NoCheck \in CheckType /\ NoCheck.step = "idle"
<1>1. AnAccount \in Accounts /\ AnOrganization \in Organizations /\ APhone \in Phones
  BY ConnectionParameters DEF AnAccount, AnOrganization, APhone
<1>2. 0 \in 0..LastId /\ 0 \in 0..LastRow
  BY ConnectionParameters
<1>3. NoNumber \in Number
  BY <1>1, <1>2 DEF NoNumber, Number
<1>4. NoSignup \in SignupType /\ NoSignup.step = "idle"
  BY <1>1, <1>2 DEF NoSignup, SignupType
<1>5. [w \in Accounts |-> {}] \in [Accounts -> SUBSET (0..LastId)]
  OBVIOUS
<1>6. NoCheck \in CheckType /\ NoCheck.step = "idle"
  BY <1>5 DEF NoCheck, CheckType
<1>7. QED
  BY <1>1, <1>3, <1>4, <1>6

LEMMA LatestIsOne ==
  ASSUME ConnectionsTypeOK, NEW rows \in SUBSET Registrations, rows # {}
  PROVE  Latest(rows) \in rows /\ Latest(rows) # 0
<1> DEFINE R == OpToRel(<, Nat)
           S == {created - n : n \in rows}
<1>1. IsWellFoundedOn(R, Nat)
  BY NatLessThanWellFounded, Zenon
<1>2. created \in Nat /\ \A n \in rows : n \in Nat /\ n <= created /\ n # 0
  BY LineTypes DEF Registrations
<1>3. S \subseteq Nat /\ S # {}
  BY <1>2
<1> HIDE DEF R
<1>4. PICK a \in S : \A b \in S : ~(<<b, a>> \in R)
  BY <1>1, <1>3, WFMin
<1>5. PICK n \in rows : a = created - n
  BY <1>4
<1>6. ASSUME NEW m \in rows PROVE m <= n
  <2>1. a \in Nat /\ (created - m) \in Nat /\ ~(<<created - m, a>> \in R)
    BY <1>3, <1>4
  <2>2. ~(created - m < a)
    BY <2>1 DEF R, OpToRel
  <2>3. QED
    BY <1>2, <1>5, <2>2
<1>7. \E x \in rows : \A y \in rows : y <= x
  BY <1>6
<1>8. Latest(rows) \in rows
  BY <1>7 DEF Latest
<1>9. QED
  BY <1>2, <1>8

\* Whether an account has a number away is told by its ids and Meta's.
LEMMA GoneIs ==
  ASSUME NEW w
  PROVE  Gone(w) <=> \E id \in IdsOf(w) : ~OnCloud(w, id)
BY DEF Gone, IdsOf

LEMMA OnCloudIs ==
  ASSUME cloud \in [Phones -> CloudLine], NEW w, NEW id
  PROVE  OnCloud(w, id) <=> \E p \in Phones : cloud[p].account = w /\ cloud[p].id = id /\ cloud[p].on = TRUE
<1>1. ASSUME NEW p \in Phones
      PROVE  cloud[p] = [account |-> w, id |-> id, on |-> TRUE] <=>
               cloud[p].account = w /\ cloud[p].id = id /\ cloud[p].on = TRUE
  <2>1. cloud[p] \in CloudLine
    OBVIOUS
  <2>2. QED
    BY <2>1 DEF CloudLine
<1>2. QED
  BY <1>1 DEF OnCloud

LEMMA LinesInitFit == ConnectionsInit => ConnectionsInv
<1> SUFFICES ASSUME ConnectionsInit PROVE ConnectionsInv
  OBVIOUS
<1>0. 0 \in 0..LastId /\ 0 \in 0..LastRow /\ 0 \in 0..MaxEvents /\ Registrations = {}
  BY ConnectionParameters DEF ConnectionsInit, Registrations
<1>1. ConnectionsTypeOK
  <2>1. /\ cloud \in [Phones -> CloudLine] /\ signup \in SignupType /\ checks \in [Checkers -> CheckType]
        /\ numbers \in [RowIds -> Number]
    BY <1>0, NoneTyping DEF ConnectionsInit, CloudLine
  <2>2. QED
    BY <1>0, <2>1 DEF ConnectionsInit, ConnectionsTypeOK, CloudLine, SignupType, CheckType
<1>2. CloudFits
  BY <1>0, ConnectionParameters DEF ConnectionsInit, CloudFits
<1>3. RowsFit /\ ChatsKept
  BY <1>0 DEF RowsFit, ChatsKept
<1>4. SignupFits
  BY NoneTyping DEF ConnectionsInit, SignupFits
<1>5. WebhooksFit
  BY DEF ConnectionsInit, WebhooksFit
<1>6. \A c \in Checkers : CheckFits(c)
  BY NoneTyping DEF ConnectionsInit, CheckFits
<1>7. QED
  BY <1>1, <1>2, <1>3, <1>4, <1>5, <1>6 DEF ConnectionsInv

LEMMA Outdates ==
  ASSUME ConnectionsTypeOK, NEW ws \in SUBSET Accounts, Outdate(ws)
  PROVE  /\ checks' \in [Checkers -> CheckType] /\ removed' \in [Accounts -> {"none", "due", "late"}]
         /\ \A c \in Checkers :
              /\ checks'[c].step = checks[c].step /\ checks'[c].ids = checks[c].ids /\ checks'[c].gone = checks[c].gone
              /\ checks'[c].todo = checks[c].todo
              /\ checks[c].step # "idle" => checks'[c].stale = checks[c].stale \cup ws
         /\ \A w \in Accounts : removed'[w] = "due" => removed[w] = "due" /\ w \notin ws
<1>1. checks \in [Checkers -> CheckType] /\ removed \in [Accounts -> {"none", "due", "late"}]
  BY LineTypes
<1>2. ASSUME NEW c \in Checkers
      PROVE  /\ checks'[c] \in CheckType
             /\ checks'[c].step = checks[c].step /\ checks'[c].ids = checks[c].ids /\ checks'[c].gone = checks[c].gone
             /\ checks'[c].todo = checks[c].todo
             /\ checks[c].step # "idle" => checks'[c].stale = checks[c].stale \cup ws
  <2> DEFINE more == [checks[c] EXCEPT !.stale = @ \cup ws]
  <2>1. checks[c] \in CheckType
    BY <1>1
  <2>2. /\ more \in CheckType /\ more.step = checks[c].step /\ more.ids = checks[c].ids
        /\ more.gone = checks[c].gone /\ more.todo = checks[c].todo /\ more.stale = checks[c].stale \cup ws
    BY <2>1 DEF CheckType
  <2>3. checks'[c] = IF checks[c].step = "idle" THEN checks[c] ELSE more
    BY DEF Outdate
  <2> HIDE DEF more
  <2>4. QED
    BY <2>1, <2>2, <2>3
<1>3. checks' \in [Checkers -> CheckType]
  <2>1. checks' = [c \in Checkers |-> checks'[c]]
    BY DEF Outdate
  <2>2. QED
    BY <1>2, <2>1
<1>4. /\ removed' \in [Accounts -> {"none", "due", "late"}]
      /\ \A w \in Accounts : removed'[w] = "due" => removed[w] = "due" /\ w \notin ws
  BY <1>1 DEF Outdate
<1>5. QED
  BY <1>2, <1>3, <1>4

\* Of the accounts that are not outdated nothing changed but what left Cloud API.
LEMMA OutdateKeeps ==
  ASSUME ConnectionsInv, NEW ws \in SUBSET Accounts, Outdate(ws),
         \A w \in Accounts \ ws : /\ IdsOf(w)' = IdsOf(w)
                                  /\ \A id : OnCloud(w, id)' => OnCloud(w, id)
  PROVE  (\A c \in Checkers : CheckFits(c)') /\ WebhooksFit'
<1>1. ConnectionsTypeOK /\ (\A c \in Checkers : CheckFits(c)) /\ WebhooksFit
  BY DEF ConnectionsInv
<1>2. ASSUME NEW c \in Checkers PROVE CheckFits(c)'
  <2>1. ASSUME checks'[c].step # "idle", NEW w \in Accounts
        PROVE  w \in checks'[c].stale \/ checks'[c].ids[w] = IdsOf(w)'
    BY <1>1, <2>1, Outdates DEF CheckFits
  <2>2. ASSUME checks'[c].step = "marking"
        PROVE  \E w \in Accounts : checks'[c].gone = {w} /\ (w \in checks'[c].stale \/ SomeGone(c, w)')
    <3>1. PICK w \in Accounts : checks[c].gone = {w} /\ (w \in checks[c].stale \/ SomeGone(c, w))
      BY <1>1, <2>2, Outdates DEF CheckFits
    <3>2. checks'[c].gone = {w} /\ checks'[c].stale = checks[c].stale \cup ws /\ checks'[c].ids = checks[c].ids
      BY <1>1, <2>2, <3>1, Outdates
    <3>3. CASE w \in checks[c].stale \/ w \in ws
      BY <3>2, <3>3
    <3>4. CASE SomeGone(c, w) /\ w \notin ws
      BY <3>2, <3>4 DEF SomeGone
    <3>5. QED
      BY <3>1, <3>3, <3>4
  <2>3. QED
    BY <2>1, <2>2 DEF CheckFits
<1>3. WebhooksFit'
  <2> SUFFICES ASSUME NEW w \in Accounts, removed'[w] = "due" PROVE Gone(w)'
    BY DEF WebhooksFit
  <2>1. removed[w] = "due" /\ w \notin ws
    BY <1>1, Outdates
  <2>2. PICK id \in IdsOf(w) : ~OnCloud(w, id)
    BY <1>1, <2>1, GoneIs DEF WebhooksFit
  <2>3. id \in IdsOf(w)' /\ ~OnCloud(w, id)'
    BY <2>1, <2>2
  <2>4. QED
    BY <2>3 DEF IdsOf, Gone
<1>4. QED
  BY <1>2, <1>3

LEMMA OthersKeep ==
  ASSUME ConnectionsInv, UNCHANGED <<checks, removed>>,
         \A w \in Accounts : /\ IdsOf(w)' = IdsOf(w)
                             /\ \A id : OnCloud(w, id)' => OnCloud(w, id)
  PROVE  (\A c \in Checkers : CheckFits(c)') /\ WebhooksFit'
<1>1. (\A c \in Checkers : CheckFits(c)) /\ WebhooksFit
  BY DEF ConnectionsInv
<1>2. ASSUME NEW c \in Checkers PROVE CheckFits(c)'
  <2>1. checks'[c] = checks[c]
    OBVIOUS
  <2>2. \A w \in Accounts : SomeGone(c, w) => SomeGone(c, w)'
    BY <2>1 DEF SomeGone
  <2>3. QED
    BY <1>1, <2>1, <2>2 DEF CheckFits
<1>3. ASSUME NEW w \in Accounts, removed'[w] = "due" PROVE Gone(w)'
  <2>1. PICK id \in IdsOf(w) : ~OnCloud(w, id)
    BY <1>1, <1>3, GoneIs DEF WebhooksFit
  <2>2. id \in IdsOf(w)' /\ ~OnCloud(w, id)'
    BY <2>1
  <2>3. QED
    BY <2>2 DEF IdsOf, Gone
<1>4. QED
  BY <1>2, <1>3 DEF WebhooksFit

LEMMA LinesPopup ==
  ASSUME ConnectionsInv, NEW o \in Organizations, NEW p \in Phones, NEW w \in Accounts, NEW app \in BOOLEAN,
         PopupEnds(o, p, w, app)
  PROVE  ConnectionsInv'
<1>1. ConnectionsTypeOK /\ CloudFits /\ RowsFit /\ ChatsKept
  BY DEF ConnectionsInv
<1>2. UNCHANGED <<accounts, numbers, created, silentChat, split, events>> /\ Outdate({w})
  BY DEF PopupEnds
<1>3. /\ signup' \in SignupType /\ signup'.step = "finding" /\ signup'.phone = p
      /\ signup'.app => signup'.shown = p
  <2>1. PICK shown \in {p, Unknown} :
          /\ app => shown = p
          /\ signup' = [NoSignup EXCEPT !.step = "finding", !.org = o, !.phone = p, !.shown = shown, !.app = app]
    BY DEF PopupEnds
  <2>2. QED
    BY <2>1, NoneTyping DEF SignupType
<1>4. /\ cloud' \in [Phones -> CloudLine] /\ lastId' \in 0..LastId /\ lastId <= lastId'
      /\ \A q \in Phones : q # p => cloud'[q] = cloud[q]
      /\ cloud'[p].account = w /\ cloud'[p].id # 0
      /\ cloud'[p].id = cloud[p].id \/ (cloud'[p].id = lastId' /\ lastId < lastId')
  <2>1. cloud \in [Phones -> CloudLine] /\ lastId \in Nat /\ lastId <= LastId /\ LastId \in Nat
    BY <1>1, LineTypes
  <2>2. CASE cloud[p].account = w /\ cloud[p].id # 0 /\ UNCHANGED lastId /\ cloud' = [cloud EXCEPT ![p].on = TRUE]
    <3> DEFINE back == [cloud[p] EXCEPT !.on = TRUE]
    <3>1. back \in CloudLine /\ back.account = w /\ back.id = cloud[p].id
      BY <2>1, <2>2 DEF CloudLine
    <3>2. cloud' = [cloud EXCEPT ![p] = back]
      BY <2>2
    <3> HIDE DEF back
    <3>3. cloud' \in [Phones -> CloudLine] /\ cloud'[p] = back /\ \A q \in Phones : q # p => cloud'[q] = cloud[q]
      BY <2>1, <3>1, <3>2
    <3>4. lastId' \in 0..LastId /\ lastId <= lastId'
      BY <2>1, <2>2
    <3>5. QED
      BY <2>2, <3>1, <3>3, <3>4
  <2>3. CASE ~cloud[p].on /\ lastId < LastId /\ lastId' = lastId + 1
             /\ cloud' = [cloud EXCEPT ![p] = [account |-> w, id |-> lastId + 1, on |-> TRUE]]
    <3>1. lastId + 1 \in 0..LastId /\ lastId + 1 # 0 /\ lastId < lastId + 1
      BY <2>1, <2>3
    <3>2. QED
      BY <2>1, <2>3, <3>1 DEF CloudLine
  <2>4. QED
    BY <2>2, <2>3 DEF PopupEnds
<1>5. ConnectionsTypeOK'
  BY <1>1, <1>2, <1>3, <1>4, Outdates DEF ConnectionsTypeOK, CloudLine, SignupType, CheckType
<1>6. CloudFits'
  <2>1. \A q \in Phones : cloud[q].id \in Nat /\ cloud[q].id <= lastId
    BY <1>1, LineTypes DEF CloudFits, CloudLine
  <2>2. lastId \in Nat /\ lastId' \in Nat /\ lastId <= lastId'
    BY <1>1, <1>4, LineTypes
  <2>3. \A q \in Phones : cloud'[q].id <= lastId'
    BY <1>4, <2>1, <2>2
  <2>4. ASSUME NEW q \in Phones, NEW r \in Phones, cloud'[q].id = cloud'[r].id, cloud'[q].id # 0 PROVE q = r
    <3>1. CASE cloud'[p].id = cloud[p].id
      <4>1. cloud'[q].id = cloud[q].id /\ cloud'[r].id = cloud[r].id
        BY <1>4, <3>1
      <4>2. QED
        BY <1>1, <2>4, <4>1 DEF CloudFits
    <3>2. CASE cloud'[p].id = lastId' /\ lastId < lastId'
      BY <1>1, <1>4, <2>1, <2>2, <2>4, <3>2 DEF CloudFits
    <3>3. QED
      BY <1>4, <3>1, <3>2
  <2>5. QED
    BY <2>3, <2>4 DEF CloudFits
<1>7. RowsFit' /\ ChatsKept'
  <2>0. Registrations' = Registrations
    BY <1>2 DEF Registrations
  <2>1. Registrations' = Registrations /\ \A n \in Registrations : numbers[n].id \in Nat /\ numbers[n].id <= lastId
    BY <1>1, <2>0, LineTypes DEF RowsFit, Number
  <2>2. lastId \in Nat /\ lastId' \in Nat /\ lastId <= lastId'
    BY <1>1, <1>4, LineTypes
  <2>3. RowsFit'
    BY <1>1, <1>2, <2>1, <2>2 DEF RowsFit
  <2>4. ASSUME NEW n \in Registrations, NEW q \in Phones, numbers[n].id = cloud'[q].id
        PROVE  silentChat[q] \in {0, cloud'[q].id} \/ q \in split
    <3>1. cloud'[q].id = cloud[q].id
      BY <1>4, <2>1, <2>2, <2>4
    <3>2. QED
      BY <1>1, <2>4, <3>1 DEF ChatsKept
  <2>5. QED
    BY <1>2, <2>1, <2>3, <2>4 DEF ChatsKept
<1>8. SignupFits'
  BY <1>3, <1>4 DEF SignupFits
<1>9. WebhooksFit' /\ \A c \in Checkers : CheckFits(c)'
  <2>1. ASSUME NEW v \in Accounts \ {w}, NEW id, OnCloud(v, id)' PROVE OnCloud(v, id)
    <3>1. PICK q \in Phones : cloud'[q] = [account |-> v, id |-> id, on |-> TRUE]
      BY <2>1 DEF OnCloud
    <3>2. q # p
      BY <1>4, <3>1
    <3>3. QED
      BY <1>4, <3>1, <3>2 DEF OnCloud
  <2>2. \A v \in Accounts : IdsOf(v)' = IdsOf(v)
    BY <1>2 DEF IdsOf, Served, Registrations
  <2>3. QED
    BY <1>2, <2>1, <2>2, OutdateKeeps
<1>10. QED
  BY <1>5, <1>6, <1>7, <1>8, <1>9 DEF ConnectionsInv

\* Which row a connection takes: the one with its id, if there is one.
LEMMA RowFound ==
  ASSUME ConnectionsTypeOK, RowsFit, NEW o, NEW w, NEW id, NEW app, NEW shown
  PROVE  /\ ToReconnect(o, w, id, app, shown) \in 0..created
         /\ SameId(id) \subseteq {ToReconnect(o, w, id, app, shown)}
<1> DEFINE n == ToReconnect(o, w, id, app, shown)
           within == {m \in Replaceable(o) : numbers[m].account = w /\ Matches(m, shown, TRUE)}
           known == {m \in Replaceable(o) : Matches(m, shown, FALSE)}
<1>1. 0 \in 0..created /\ Registrations \subseteq 0..created
  BY LineTypes DEF Registrations
<1>2. within \in SUBSET Registrations /\ known \in SUBSET Registrations /\ SameId(id) \in SUBSET Registrations
  BY DEF Replaceable, SameId
<1>3. CASE SameId(id) # {}
  <2>1. n \in SameId(id)
    BY <1>2, <1>3, LatestIsOne DEF ToReconnect
  <2>2. \A m \in SameId(id) : m = n
    BY <2>1 DEF SameId, RowsFit
  <2>3. QED
    BY <1>1, <1>2, <2>1, <2>2
<1>4. CASE SameId(id) = {}
  <2>1. n \in {0, Latest(within), Latest(known)} /\ (n = Latest(within) /\ n # 0 => within # {} \/ n = Latest(known))
    BY <1>4 DEF ToReconnect
  <2>2. \A rows \in SUBSET Registrations : Latest(rows) \in 0..created
    <3> SUFFICES ASSUME NEW rows \in SUBSET Registrations PROVE Latest(rows) \in 0..created
      OBVIOUS
    <3>1. CASE rows = {}
      BY <1>1, <3>1 DEF Latest
    <3>2. CASE rows # {}
      BY <1>1, <3>2, LatestIsOne
    <3>3. QED
      BY <3>1, <3>2
  <2>3. QED
    BY <1>1, <1>2, <1>4, <2>1, <2>2
<1>5. QED
  BY <1>3, <1>4

\* The rows that could be those of a phone of an account.
Mine(o, w, p) ==
  {m \in Replaceable(o) : numbers[m].phone = p \/ (numbers[m].phone = Unknown /\ numbers[m].account = w)}

\* The one row that could be a phone's is the one it takes.
LEMMA OnlyOneTaken ==
  ASSUME ConnectionsTypeOK, NEW o, NEW w, NEW id, NEW p \in Phones, NEW m,
         SameId(id) = {},
         Mine(o, w, p) = {m}
  PROVE  ToReconnect(o, w, id, TRUE, p) = m /\ m # 0
<1> DEFINE within == {x \in Replaceable(o) : numbers[x].account = w /\ Matches(x, p, TRUE)}
           known == {x \in Replaceable(o) : Matches(x, p, FALSE)}
<1>1. p # Unknown
  BY ConnectionParameters
<1>2. m \in Replaceable(o) /\ m \in Registrations
  BY DEF Replaceable, Mine
<1>3. within \subseteq {m} /\ known \subseteq {m}
  BY <1>1 DEF Matches, Mine
<1>4. m \in within \/ m \in known
  BY <1>1, <1>2 DEF Matches, Mine
<1>5. Latest({m}) = m
  BY <1>2, LatestIsOne
<1>6. QED
  <2>1. m # 0
    BY <1>2, LineTypes DEF Registrations
  <2>2. CASE m \in within
    <3>1. within = {m}
      BY <1>3, <2>2
    <3>2. QED
      BY <1>5, <2>1, <3>1 DEF ToReconnect
  <2>3. CASE m \notin within
    <3>1. within = {} /\ known = {m}
      BY <1>3, <1>4, <2>3
    <3>2. QED
      BY <1>5, <2>1, <3>1 DEF ToReconnect
  <2>4. QED
    BY <2>2, <2>3

LEMMA LinesFind == ASSUME ConnectionsInv, FindNumber PROVE ConnectionsInv'
<1>0. PICK p, w, id, n, mine :
        /\ p = signup.phone /\ w = cloud[p].account /\ id = cloud[p].id
        /\ n = ToReconnect(signup.org, w, id, signup.app, signup.shown)
        /\ mine = Mine(signup.org, w, p)
  OBVIOUS
<1>1. ConnectionsTypeOK /\ CloudFits /\ RowsFit /\ ChatsKept /\ SignupFits
  BY DEF ConnectionsInv
<1>2. /\ signup.step = "finding"
      /\ UNCHANGED <<cloud, lastId, accounts, numbers, created, silentChat, checks, removed, events>>
      /\ signup' = NoSignup \/ signup' = [signup EXCEPT !.step = "subscribing", !.row = n]
      /\ \/ silentChat[p] \in {0, id} /\ split' = split
         \/ signup.app = TRUE /\ (\E m \in mine : mine = {m} /\ numbers[m].id = silentChat[p]) /\ split' = split
         \/ split' = split \cup {p}
  <2>1. signup.app \in BOOLEAN
    BY <1>1, LineTypes DEF SignupType
  <2>2. QED
    BY <1>0, <2>1 DEF FindNumber, Mine
<1>3. p \in Phones /\ signup \in SignupType /\ split' \subseteq Phones /\ split \subseteq split'
  BY <1>0, <1>1, <1>2, LineTypes DEF SignupType
<1>4. n \in 0..created /\ SameId(id) \subseteq {n}
  BY <1>0, <1>1, RowFound
<1>5. 0..created \subseteq 0..LastRow
  BY <1>1, LineTypes
<1>6. (\A c \in Checkers : CheckFits(c)') /\ WebhooksFit'
  <2>1. \A v \in Accounts : IdsOf(v)' = IdsOf(v) /\ \A i : OnCloud(v, i)' => OnCloud(v, i)
    BY <1>2 DEF IdsOf, Served, Registrations, OnCloud
  <2>2. QED
    BY <1>2, <2>1, OthersKeep
<1>7. CloudFits' /\ RowsFit' /\ ChatsKept'
  BY <1>1, <1>2, <1>3 DEF CloudFits, RowsFit, ChatsKept, Registrations
<1>8. ChatsMove(p, n)'
  <2>1. CASE silentChat[p] \in {0, id}
    BY <1>0, <1>2, <2>1 DEF ChatsMove
  <2>2. CASE split' = split \cup {p}
    BY <2>2 DEF ChatsMove
  <2>3. ASSUME signup.app = TRUE, NEW m \in mine, mine = {m}, numbers[m].id = silentChat[p] PROVE ChatsMove(p, n)'
    <3>1. CASE SameId(id) # {}
      <4>1. silentChat[p] \in {0, id} \/ p \in split
        BY <1>0, <1>1, <1>3, <3>1 DEF SameId, ChatsKept
      <4>2. QED
        BY <1>0, <1>2, <1>3, <4>1 DEF ChatsMove
    <3>2. CASE SameId(id) = {}
      <4>1. signup.shown = p
        BY <1>0, <1>1, <1>2, <2>3 DEF SignupFits
      <4>a. n = ToReconnect(signup.org, w, id, TRUE, p)
        BY <1>0, <2>3, <4>1
      <4>b. Mine(signup.org, w, p) = {m}
        BY <1>0, <2>3
      <4>2. n = m /\ m # 0
        BY <1>1, <1>3, <3>2, <4>a, <4>b, OnlyOneTaken
      <4>3. QED
        BY <1>2, <2>3, <4>2 DEF ChatsMove
    <3>3. QED
      BY <3>1, <3>2
  <2>4. QED
    BY <1>2, <2>1, <2>2, <2>3
<1>9. /\ signup' \in SignupType
      /\ signup'.step # "idle" =>
           /\ signup'.step = "subscribing" /\ signup'.row = n
           /\ signup'.phone = p /\ signup'.app = signup.app /\ signup'.shown = signup.shown
  <2>1. n \in 0..LastRow
    BY <1>4, <1>5
  <2>2. QED
    BY <1>0, <1>2, <1>3, <2>1, NoneTyping DEF SignupType
<1>10. SignupFits'
  <2>2. ASSUME signup'.step # "idle"
        PROVE  /\ cloud'[signup'.phone].id # 0
               /\ signup'.app => signup'.shown = signup'.phone
               /\ signup'.row \in 0..created'
               /\ SameId(cloud[signup.phone].id)' \subseteq {signup'.row}
               /\ ChatsMove(signup.phone, signup.row)'
    <3>1. cloud[p].id # 0 /\ (signup.app => signup.shown = p)
      BY <1>0, <1>1, <1>2 DEF SignupFits
    <3>2. cloud'[signup'.phone] = cloud[p] /\ signup'.phone = p /\ signup'.row = n
      BY <1>2, <1>9, <2>2
    <3>3. SameId(cloud[signup.phone].id)' \subseteq {signup'.row}
      BY <1>0, <1>2, <1>4, <3>2 DEF SameId, Registrations
    <3>4. ChatsMove(signup.phone, signup.row)'
      BY <1>8, <3>2 DEF ChatsMove
    <3>5. QED
      BY <1>2, <1>4, <1>9, <2>2, <3>1, <3>2, <3>3, <3>4
  <2>3. QED
    BY <1>9, <2>2 DEF SignupFits, SignupType
<1>11. ConnectionsTypeOK'
  BY <1>1, <1>2, <1>3, <1>9 DEF ConnectionsTypeOK, SignupType
<1>12. QED
  BY <1>6, <1>7, <1>10, <1>11 DEF ConnectionsInv

LEMMA LinesSave == ASSUME ConnectionsInv, SaveAccount PROVE ConnectionsInv'
<1>0. PICK w : w = cloud[signup.phone].account
  OBVIOUS
<1>1. ConnectionsTypeOK /\ CloudFits /\ RowsFit /\ ChatsKept /\ SignupFits
  BY DEF ConnectionsInv
<1>2. /\ signup.step = "subscribing" /\ accounts' = [accounts EXCEPT ![w] = "connected"] /\ Outdate({w})
      /\ signup' = [signup EXCEPT !.step = "saving"]
      /\ UNCHANGED <<cloud, lastId, numbers, created, silentChat, split, events>>
  BY <1>0 DEF SaveAccount
<1>3. /\ signup \in SignupType /\ signup' \in SignupType /\ signup'.step = "saving"
      /\ signup'.phone = signup.phone /\ signup'.row = signup.row
      /\ signup'.app = signup.app /\ signup'.shown = signup.shown
  BY <1>1, <1>2, LineTypes DEF SignupType
<1>4. w \in Accounts
  BY <1>0, <1>1, <1>3, LineTypes DEF SignupType, CloudLine
<1>5. (\A c \in Checkers : CheckFits(c)') /\ WebhooksFit'
  <2>1. \A v \in Accounts : IdsOf(v)' = IdsOf(v) /\ \A i : OnCloud(v, i)' => OnCloud(v, i)
    BY <1>2 DEF IdsOf, Served, Registrations, OnCloud
  <2>2. QED
    BY <1>2, <1>4, <2>1, OutdateKeeps
<1>6. CloudFits' /\ RowsFit' /\ ChatsKept'
  BY <1>1, <1>2 DEF CloudFits, RowsFit, ChatsKept, Registrations
<1>7. SignupFits'
  BY <1>1, <1>2, <1>3 DEF SignupFits, SameId, Registrations, ChatsMove
<1>8. ConnectionsTypeOK'
  <2>1. accounts' \in [Accounts -> {"none", "connected", "disconnected"}]
    BY <1>1, <1>2, LineTypes
  <2>2. checks' \in [Checkers -> CheckType] /\ removed' \in [Accounts -> {"none", "due", "late"}]
    BY <1>1, <1>2, <1>4, Outdates
  <2>3. QED
    BY <1>1, <1>2, <1>3, <2>1, <2>2 DEF ConnectionsTypeOK, SignupType, CheckType
<1>9. QED
  BY <1>5, <1>6, <1>7, <1>8 DEF ConnectionsInv

LEMMA LinesReconnect == ASSUME ConnectionsInv, ReconnectNumber PROVE ConnectionsInv'
<1>0. PICK p, n, new :
        /\ p = signup.phone /\ n = signup.row
        /\ new = [id |-> cloud[p].id, org |-> signup.org, account |-> cloud[p].account,
                  phone |-> IF signup.shown = Unknown THEN numbers[n].phone ELSE signup.shown,
                  live |-> TRUE, active |-> TRUE]
  OBVIOUS
<1>1. ConnectionsTypeOK /\ CloudFits /\ RowsFit /\ ChatsKept /\ SignupFits
  BY DEF ConnectionsInv
<1>2. /\ signup.step = "saving" /\ n # 0
      /\ numbers' = [numbers EXCEPT ![n] = new]
      /\ silentChat' = IF numbers[n].id = cloud[p].id THEN silentChat ELSE MoveChats(numbers[n].id, cloud[p].id)
      /\ Outdate({numbers[n].account, cloud[p].account})
      /\ signup' = NoSignup
      /\ UNCHANGED <<cloud, lastId, accounts, created, split, events>>
  BY <1>0 DEF ReconnectNumber
<1>3. /\ p \in Phones /\ cloud[p].id # 0 /\ cloud[p].id \in 0..LastId /\ cloud[p].account \in Accounts
      /\ signup.org \in Organizations /\ signup.shown \in Phones \cup {Unknown}
      /\ n \in Registrations /\ SameId(cloud[p].id) \subseteq {n} /\ ChatsMove(p, n)
  <2>1. signup \in SignupType /\ cloud[p] \in CloudLine
    BY <1>0, <1>1, LineTypes DEF SignupType
  <2>2. cloud[p].id # 0 /\ n \in 0..created /\ SameId(cloud[p].id) \subseteq {n} /\ ChatsMove(p, n)
    BY <1>0, <1>1, <1>2 DEF SignupFits
  <2>3. created \in Nat
    BY <1>1, LineTypes
  <2>4. QED
    BY <1>0, <1>2, <2>1, <2>2, <2>3 DEF SignupType, CloudLine, Registrations
<1>4. /\ numbers \in [RowIds -> Number] /\ n \in RowIds /\ numbers[n] \in Number /\ Registrations \subseteq RowIds
      /\ numbers[n].account \in Accounts
  BY <1>1, <1>3, LineTypes DEF Number
<1>5. new \in Number /\ new.id = cloud[p].id /\ new.account = cloud[p].account
  BY <1>0, <1>3, <1>4 DEF Number
<1>6. /\ numbers' \in [RowIds -> Number] /\ numbers'[n].id = cloud[p].id /\ numbers'[n].account = cloud[p].account
      /\ \A m \in RowIds : m # n => numbers'[m] = numbers[m]
      /\ Registrations' = Registrations
  BY <1>2, <1>4, <1>5 DEF Registrations
<1>7. /\ silentChat' \in [Phones -> 0..LastId]
      /\ \A q \in Phones : silentChat'[q] = silentChat[q]
                           \/ (silentChat[q] = numbers[n].id /\ numbers[n].id # cloud[p].id /\ silentChat'[q] = cloud[p].id)
      /\ \A q \in Phones : silentChat[q] = numbers[n].id /\ numbers[n].id # 0 => silentChat'[q] = cloud[p].id
  <2>1. silentChat \in [Phones -> 0..LastId]
    BY <1>1, LineTypes
  <2>2. QED
    BY <1>2, <1>3, <2>1 DEF MoveChats
<1>8. (\A c \in Checkers : CheckFits(c)') /\ WebhooksFit'
  <2> DEFINE ws == {numbers[n].account, cloud[p].account}
  <2>1. ASSUME NEW v \in Accounts \ ws PROVE IdsOf(v)' = IdsOf(v)
    <3>1. \A m \in Registrations : Served(m)' /\ numbers'[m].account = v <=> Served(m) /\ numbers[m].account = v
      BY <1>4, <1>6 DEF Served
    <3>2. \A m \in Registrations : Served(m) /\ numbers[m].account = v => numbers'[m] = numbers[m]
      BY <1>4, <1>6
    <3>3. {m \in Registrations' : Served(m)' /\ numbers'[m].account = v} = {m \in Registrations : Served(m) /\ numbers[m].account = v}
      BY <1>6, <3>1
    <3>4. QED
      BY <3>2, <3>3 DEF IdsOf
  <2>2. \A v \in Accounts : \A i : OnCloud(v, i)' => OnCloud(v, i)
    BY <1>2 DEF OnCloud
  <2>3. ws \in SUBSET Accounts
    BY <1>3, <1>4
  <2>4. Outdate(ws)
    BY <1>2
  <2> HIDE DEF ws
  <2>5. QED
    BY <2>1, <2>2, <2>3, <2>4, OutdateKeeps
<1>9. CloudFits' /\ SignupFits'
  BY <1>1, <1>2, NoneTyping DEF CloudFits, SignupFits
<1>10. RowsFit'
  <2>1. \A m \in Registrations : m # n => numbers[m].id # cloud[p].id
    BY <1>3 DEF SameId
  <2>2. cloud[p].id <= lastId
    BY <1>1, <1>3 DEF CloudFits
  <2>3. \A m \in Registrations : numbers'[m].id # 0 /\ numbers'[m].id <= lastId
    BY <1>1, <1>3, <1>4, <1>6, <2>2 DEF RowsFit
  <2>4. \A l, m \in Registrations : numbers'[l].id = numbers'[m].id => l = m
    BY <1>1, <1>4, <1>6, <2>1 DEF RowsFit
  <2>5. QED
    BY <1>2, <1>6, <2>3, <2>4 DEF RowsFit
<1>11. ChatsKept'
  <2> SUFFICES ASSUME NEW m \in Registrations, NEW q \in Phones, numbers'[m].id = cloud[q].id
               PROVE  silentChat'[q] \in {0, cloud[q].id} \/ q \in split
    BY <1>2, <1>6 DEF ChatsKept
  <2>1. CASE m = n
    <3>1. q = p
      BY <1>1, <1>3, <1>6, <2>1 DEF CloudFits
    <3>2. silentChat[p] \in {0, cloud[p].id} \/ p \in split \/ numbers[n].id = silentChat[p]
      BY <1>3 DEF ChatsMove
    <3>3. numbers[n].id # 0
      BY <1>1, <1>3 DEF RowsFit
    <3>4. QED
      BY <1>3, <1>7, <3>1, <3>2, <3>3
  <2>2. CASE m # n
    <3>1. numbers[m].id = cloud[q].id /\ numbers[m].id # numbers[n].id
      BY <1>1, <1>3, <1>4, <1>6, <2>2 DEF RowsFit
    <3>2. silentChat[q] \in {0, cloud[q].id} \/ q \in split
      BY <1>1, <3>1 DEF ChatsKept
    <3>3. numbers[n].id # 0
      BY <1>1, <1>3 DEF RowsFit
    <3>4. QED
      BY <1>7, <3>1, <3>2, <3>3
  <2>3. QED
    BY <2>1, <2>2
<1>12. ConnectionsTypeOK'
  <2>1. checks' \in [Checkers -> CheckType] /\ removed' \in [Accounts -> {"none", "due", "late"}]
    <3>1. {numbers[n].account, cloud[p].account} \in SUBSET Accounts
      BY <1>3, <1>4
    <3>2. QED
      BY <1>1, <1>2, <3>1, Outdates
  <2>2. signup' \in SignupType
    BY <1>2, NoneTyping
  <2>3. QED
    BY <1>1, <1>2, <1>6, <1>7, <2>1, <2>2 DEF ConnectionsTypeOK, SignupType, CheckType
<1>13. QED
  BY <1>8, <1>9, <1>10, <1>11, <1>12 DEF ConnectionsInv

LEMMA LinesCreate == ASSUME ConnectionsInv, CreateNumber PROVE ConnectionsInv'
<1>0. PICK p, new :
        /\ p = signup.phone
        /\ new = [id |-> cloud[p].id, org |-> signup.org, account |-> cloud[p].account, phone |-> signup.shown,
                  live |-> TRUE, active |-> TRUE]
  OBVIOUS
<1>1. ConnectionsTypeOK /\ CloudFits /\ RowsFit /\ ChatsKept /\ SignupFits
  BY DEF ConnectionsInv
<1>2. /\ signup.step = "saving" /\ signup.row = 0 /\ created < LastRow
      /\ numbers' = [numbers EXCEPT ![created + 1] = new]
      /\ Outdate({cloud[p].account})
      /\ created' = created + 1 /\ signup' = NoSignup
      /\ UNCHANGED <<cloud, lastId, accounts, silentChat, split, events>>
  BY <1>0 DEF CreateNumber
<1>3. /\ created \in Nat /\ LastRow \in Nat /\ created + 1 \in RowIds /\ created' \in 0..LastRow
      /\ Registrations' = Registrations \cup {created + 1} /\ created + 1 \notin Registrations
      /\ Registrations \subseteq RowIds
  <2>1. created \in Nat /\ LastRow \in Nat
    BY <1>1, LineTypes
  <2>2. QED
    BY <1>2, <2>1 DEF Registrations, RowIds
<1>4. /\ p \in Phones /\ cloud[p].id # 0 /\ cloud[p].id \in 0..LastId /\ cloud[p].account \in Accounts
      /\ signup.org \in Organizations /\ signup.shown \in Phones \cup {Unknown}
      /\ (\A m \in Registrations : numbers[m].id # cloud[p].id) /\ ChatsMove(p, 0)
  <2>1. signup \in SignupType /\ cloud[p] \in CloudLine
    BY <1>0, <1>1, LineTypes DEF SignupType
  <2>2. cloud[p].id # 0 /\ SameId(cloud[p].id) \subseteq {0} /\ ChatsMove(p, 0)
    BY <1>0, <1>1, <1>2 DEF SignupFits
  <2>3. 0 \notin Registrations
    BY DEF Registrations
  <2>4. \A m \in Registrations : numbers[m].id # cloud[p].id
    BY <2>2, <2>3 DEF SameId
  <2>5. QED
    BY <1>0, <2>1, <2>2, <2>4 DEF SignupType, CloudLine
<1>5. new \in Number /\ new.id = cloud[p].id /\ new.account = cloud[p].account
  BY <1>0, <1>4 DEF Number
<1>6. /\ numbers' \in [RowIds -> Number]
      /\ numbers'[created + 1].id = cloud[p].id /\ numbers'[created + 1].account = cloud[p].account
      /\ \A m \in Registrations : numbers'[m] = numbers[m]
  <2>1. numbers \in [RowIds -> Number]
    BY <1>1, LineTypes
  <2>2. QED
    BY <1>2, <1>3, <1>5, <2>1
<1>7. (\A c \in Checkers : CheckFits(c)') /\ WebhooksFit'
  <2>1. ASSUME NEW v \in Accounts \ {cloud[p].account} PROVE IdsOf(v)' = IdsOf(v)
    <3>1. \A m \in Registrations' : Served(m)' /\ numbers'[m].account = v <=> m \in Registrations /\ Served(m) /\ numbers[m].account = v
      BY <1>3, <1>6 DEF Served
    <3>2. {m \in Registrations' : Served(m)' /\ numbers'[m].account = v} = {m \in Registrations : Served(m) /\ numbers[m].account = v}
      BY <1>3, <3>1
    <3>3. QED
      BY <1>6, <3>2 DEF IdsOf
  <2>2. \A v \in Accounts : \A i : OnCloud(v, i)' => OnCloud(v, i)
    BY <1>2 DEF OnCloud
  <2>3. {cloud[p].account} \in SUBSET Accounts
    BY <1>4
  <2>4. QED
    BY <1>2, <2>1, <2>2, <2>3, OutdateKeeps
<1>8. CloudFits' /\ SignupFits'
  BY <1>1, <1>2, NoneTyping DEF CloudFits, SignupFits
<1>9. RowsFit'
  <2>1. cloud[p].id <= lastId
    BY <1>1, <1>4 DEF CloudFits
  <2>2. \A m \in Registrations' : numbers'[m].id # 0 /\ numbers'[m].id <= lastId
    BY <1>1, <1>3, <1>4, <1>6, <2>1 DEF RowsFit
  <2>3. \A l, m \in Registrations' : numbers'[l].id = numbers'[m].id => l = m
    BY <1>1, <1>3, <1>4, <1>6 DEF RowsFit
  <2>4. QED
    BY <1>2, <2>2, <2>3 DEF RowsFit
<1>10. ChatsKept'
  <2> SUFFICES ASSUME NEW m \in Registrations', NEW q \in Phones, numbers'[m].id = cloud[q].id
               PROVE  silentChat[q] \in {0, cloud[q].id} \/ q \in split
    BY <1>2 DEF ChatsKept
  <2>1. CASE m = created + 1
    <3>1. q = p
      BY <1>1, <1>4, <1>6, <2>1 DEF CloudFits
    <3>2. QED
      BY <1>4, <3>1 DEF ChatsMove
  <2>2. CASE m \in Registrations
    BY <1>1, <1>6, <2>2 DEF ChatsKept
  <2>3. QED
    BY <1>3, <2>1, <2>2
<1>11. ConnectionsTypeOK'
  <2>1. checks' \in [Checkers -> CheckType] /\ removed' \in [Accounts -> {"none", "due", "late"}]
    BY <1>1, <1>2, <1>4, Outdates
  <2>2. signup' \in SignupType
    BY <1>2, NoneTyping
  <2>3. QED
    BY <1>1, <1>2, <1>3, <1>6, <2>1, <2>2 DEF ConnectionsTypeOK, SignupType, CheckType
<1>12. QED
  BY <1>7, <1>8, <1>9, <1>10, <1>11 DEF ConnectionsInv

LEMMA LinesSignupFails == ASSUME ConnectionsInv, SignupFails PROVE ConnectionsInv'
<1>1. ConnectionsTypeOK /\ CloudFits /\ RowsFit /\ ChatsKept
  BY DEF ConnectionsInv
<1>2. /\ events < MaxEvents /\ events' = events + 1 /\ signup' = NoSignup
      /\ UNCHANGED <<cloud, lastId, accounts, numbers, created, silentChat, checks, removed, split>>
  BY DEF SignupFails
<1>3. events' \in 0..MaxEvents
  BY <1>1, <1>2, ConnectionParameters DEF ConnectionsTypeOK
<1>4. (\A c \in Checkers : CheckFits(c)') /\ WebhooksFit'
  <2>1. \A v \in Accounts : IdsOf(v)' = IdsOf(v) /\ \A i : OnCloud(v, i)' => OnCloud(v, i)
    BY <1>2 DEF IdsOf, Served, Registrations, OnCloud
  <2>2. QED
    BY <1>2, <2>1, OthersKeep
<1>5. CloudFits' /\ RowsFit' /\ ChatsKept' /\ SignupFits'
  BY <1>1, <1>2, NoneTyping DEF CloudFits, RowsFit, ChatsKept, Registrations, SignupFits
<1>6. ConnectionsTypeOK'
  BY <1>1, <1>2, <1>3, NoneTyping DEF ConnectionsTypeOK, SignupType
<1>7. QED
  BY <1>4, <1>5, <1>6 DEF ConnectionsInv

LEMMA LinesStill ==
  ASSUME ConnectionsInv, UNCHANGED <<cloud, lastId, numbers, created, silentChat, signup, split>>
  PROVE  /\ CloudFits' /\ RowsFit' /\ ChatsKept' /\ SignupFits'
         /\ \A v \in Accounts : IdsOf(v)' = IdsOf(v) /\ \A i : OnCloud(v, i)' => OnCloud(v, i)
<1>1. CloudFits /\ RowsFit /\ ChatsKept /\ SignupFits
  BY DEF ConnectionsInv
<1>2. CloudFits' /\ RowsFit' /\ ChatsKept'
  BY <1>1 DEF CloudFits, RowsFit, ChatsKept, Registrations
<1>3. SignupFits'
  BY <1>1 DEF SignupFits, SameId, Registrations, ChatsMove
<1>4. \A v \in Accounts : IdsOf(v)' = IdsOf(v) /\ \A i : OnCloud(v, i)' => OnCloud(v, i)
  BY DEF IdsOf, Served, Registrations, OnCloud
<1>5. QED
  BY <1>2, <1>3, <1>4

\* What the checks and the webhooks look at, while one of the checks moves on.
LEMMA CheckMoves ==
  ASSUME ConnectionsInv, NEW c \in Checkers, NEW new \in CheckType, checks' = [checks EXCEPT ![c] = new],
         UNCHANGED <<cloud, lastId, numbers, created, silentChat, signup, removed, split, events>>,
         accounts' \in [Accounts -> {"none", "connected", "disconnected"}],
         new.step # "idle" => \A w \in Accounts : w \in new.stale \/ new.ids[w] = IdsOf(w),
         new.step = "marking" =>
           \E w \in Accounts : /\ new.gone = {w}
                               /\ w \in new.stale \/ \E id \in new.ids[w] : ~OnCloud(w, id)
  PROVE  ConnectionsInv'
<1>1. ConnectionsTypeOK /\ WebhooksFit /\ \A d \in Checkers : CheckFits(d)
  BY DEF ConnectionsInv
<1>2. checks \in [Checkers -> CheckType]
  BY <1>1, LineTypes
<1>3. checks' \in [Checkers -> CheckType] /\ checks'[c] = new /\ \A d \in Checkers : d # c => checks'[d] = checks[d]
  BY <1>2
<1>4. \A w : IdsOf(w)' = IdsOf(w) /\ \A id : OnCloud(w, id)' <=> OnCloud(w, id)
  BY DEF IdsOf, Served, Registrations, OnCloud
<1>5. ASSUME NEW d \in Checkers PROVE CheckFits(d)'
  <2>1. CASE d = c
    BY <1>3, <1>4, <2>1 DEF CheckFits, SomeGone
  <2>2. CASE d # c
    <3>1. checks'[d] = checks[d] /\ CheckFits(d)
      BY <1>1, <1>3, <2>2
    <3>2. \A w : SomeGone(d, w)' <=> SomeGone(d, w)
      BY <1>4, <3>1 DEF SomeGone
    <3>3. QED
      BY <1>4, <3>1, <3>2 DEF CheckFits
  <2>3. QED
    BY <2>1, <2>2
<1>6. WebhooksFit'
  <2>1. Registrations' = Registrations /\ removed' = removed /\ numbers' = numbers
    BY DEF Registrations
  <2>2. \A w : Gone(w) => Gone(w)'
    BY <1>4, <2>1 DEF Gone, Served
  <2>3. QED
    BY <1>1, <2>1, <2>2 DEF WebhooksFit
<1>7. ConnectionsTypeOK'
  <2>1. /\ cloud' = cloud /\ lastId' = lastId /\ numbers' = numbers /\ created' = created
        /\ silentChat' = silentChat /\ signup' = signup /\ removed' = removed /\ split' = split /\ events' = events
    OBVIOUS
  <2>2. checks' \in [Checkers -> CheckType] /\ accounts' \in [Accounts -> {"none", "connected", "disconnected"}]
    BY <1>3
  <2>3. QED
    BY <1>1, <2>1, <2>2, Zenon DEF ConnectionsTypeOK, CheckType
<1>8. QED
  BY <1>5, <1>6, <1>7, LinesStill DEF ConnectionsInv

LEMMA LinesCheck == ASSUME ConnectionsInv, NEW c \in Checkers, CheckSome(c) PROVE ConnectionsInv'
<1>1. PICK targets \in {StillConnected} \cup {{w} : w \in Monitored} : CheckWabas(c, targets)
  BY DEF CheckSome
<1> DEFINE ids == [w \in Accounts |-> IdsOf(w)]
           new == [NoCheck EXCEPT !.step = "asking", !.todo = targets, !.ids = ids]
<1>2. targets \in SUBSET Accounts
  BY DEF StillConnected, Monitored
<1>3. \A w : IdsOf(w) \in SUBSET (0..LastId)
  BY LineTypes DEF ConnectionsInv, IdsOf, Number
<1>4. ids \in [Accounts -> SUBSET (0..LastId)] /\ \A w \in Accounts : ids[w] = IdsOf(w)
  BY <1>3
<1> HIDE DEF ids
<1>5. new \in CheckType /\ new.step = "asking" /\ new.ids = ids
  BY <1>2, <1>4, NoneTyping DEF CheckType
<1>6. /\ checks' = [checks EXCEPT ![c] = new]
      /\ UNCHANGED <<cloud, lastId, accounts, numbers, created, silentChat, signup, removed, split, events>>
  BY <1>1 DEF CheckWabas, ids
<1>7. accounts' \in [Accounts -> {"none", "connected", "disconnected"}]
  BY <1>6, LineTypes DEF ConnectionsInv
<1> HIDE DEF new
<1>8. QED
  BY <1>4, <1>5, <1>6, <1>7, CheckMoves

LEMMA LinesProbe ==
  ASSUME ConnectionsInv, NEW c \in Checkers, NEW w \in Accounts, ProbeIsFine(c, w) \/ ProbeFindsDrop(c, w)
  PROVE  ConnectionsInv'
<1>1. checks \in [Checkers -> CheckType] /\ checks[c] \in CheckType /\ CheckFits(c)
      /\ accounts \in [Accounts -> {"none", "connected", "disconnected"}]
  BY LineTypes DEF ConnectionsInv
<1>2. Asking(c, w) /\ checks[c].step # "idle"
  BY DEF ProbeIsFine, ProbeFindsDrop, Asking
<1>3. CASE ProbeIsFine(c, w)
  <2> DEFINE new == [checks[c] EXCEPT !.todo = @ \ {w}, !.step = IF checks[c].todo = {w} THEN "idle" ELSE "asking"]
  <2>1. /\ checks' = [checks EXCEPT ![c] = new]
        /\ UNCHANGED <<cloud, lastId, accounts, numbers, created, silentChat, signup, removed, split, events>>
    BY <1>1, <1>3 DEF ProbeIsFine
  <2>2. /\ new \in CheckType /\ new.step \in {"idle", "asking"}
        /\ new.stale = checks[c].stale /\ new.ids = checks[c].ids
    BY <1>1 DEF CheckType
  <2> HIDE DEF new
  <2>3. QED
    BY <1>1, <1>2, <2>1, <2>2, CheckMoves DEF CheckFits
<1>4. CASE ProbeFindsDrop(c, w)
  <2> DEFINE new == [checks[c] EXCEPT !.step = "marking", !.gone = {w}]
  <2>1. /\ checks' = [checks EXCEPT ![c] = new] /\ SomeGone(c, w)
        /\ UNCHANGED <<cloud, lastId, accounts, numbers, created, silentChat, signup, removed, split, events>>
    BY <1>1, <1>4 DEF ProbeFindsDrop
  <2>2. /\ new \in CheckType /\ new.step = "marking" /\ new.gone = {w}
        /\ new.stale = checks[c].stale /\ new.ids = checks[c].ids
    BY <1>1 DEF CheckType
  <2> HIDE DEF new
  <2>3. QED
    BY <1>1, <1>2, <2>1, <2>2, CheckMoves DEF CheckFits, SomeGone
<1>5. QED
  BY <1>3, <1>4

LEMMA MarkTyping ==
  ASSUME ConnectionsTypeOK, NEW w \in Accounts, MarkAccount(w)
  PROVE  accounts' \in [Accounts -> {"none", "connected", "disconnected"}]
BY LineTypes DEF MarkAccount

LEMMA LinesMark == ASSUME ConnectionsInv, NEW c \in Checkers, MarkDisconnected(c) PROVE ConnectionsInv'
<1>1. checks \in [Checkers -> CheckType] /\ checks[c] \in CheckType /\ CheckFits(c) /\ ConnectionsTypeOK
  BY LineTypes DEF ConnectionsInv
<1>2. PICK w \in checks[c].gone :
        /\ MarkAccount(w)
        /\ checks' = [checks EXCEPT ![c].todo = @ \ {w}, ![c].gone = {},
                        ![c].step = IF checks[c].todo = {w} THEN "idle" ELSE "asking"]
  BY DEF MarkDisconnected
<1> DEFINE new == [checks[c] EXCEPT !.todo = @ \ {w}, !.gone = {},
                                    !.step = IF checks[c].todo = {w} THEN "idle" ELSE "asking"]
<1>3. /\ checks' = [checks EXCEPT ![c] = new] /\ checks[c].step # "idle"
      /\ UNCHANGED <<cloud, lastId, numbers, created, silentChat, signup, removed, split, events>>
  BY <1>1, <1>2 DEF MarkDisconnected
<1>4. /\ new \in CheckType /\ new.step \in {"idle", "asking"}
      /\ new.stale = checks[c].stale /\ new.ids = checks[c].ids
  BY <1>1 DEF CheckType
<1>5. accounts' \in [Accounts -> {"none", "connected", "disconnected"}]
  BY <1>1, <1>2, MarkTyping DEF CheckType
<1> HIDE DEF new
<1>6. QED
  BY <1>1, <1>3, <1>4, <1>5, CheckMoves DEF CheckFits

LEMMA LinesPartner == ASSUME ConnectionsInv, NEW w \in Accounts, PartnerRemoved(w) PROVE ConnectionsInv'
<1>1. ConnectionsTypeOK /\ WebhooksFit /\ \A d \in Checkers : CheckFits(d)
  BY DEF ConnectionsInv
<1>2. /\ removed' = [removed EXCEPT ![w] = "none"]
      /\ UNCHANGED <<cloud, lastId, numbers, created, silentChat, signup, checks, split, events>>
  BY DEF PartnerRemoved
<1>3. accounts' \in [Accounts -> {"none", "connected", "disconnected"}]
  BY <1>1, LineTypes, MarkTyping DEF PartnerRemoved
<1>4. /\ removed' \in [Accounts -> {"none", "due", "late"}]
      /\ \A v \in Accounts : removed'[v] = "due" => removed[v] = "due"
  BY <1>1, <1>2, LineTypes
<1>5. WebhooksFit'
  BY <1>1, <1>2, <1>4 DEF WebhooksFit, Gone, Served, Registrations, OnCloud
<1>6. \A d \in Checkers : CheckFits(d)'
  BY <1>1, <1>2 DEF CheckFits, SomeGone, IdsOf, Served, Registrations, OnCloud
<1>7. ConnectionsTypeOK'
  BY <1>1, <1>2, <1>3, <1>4 DEF ConnectionsTypeOK
<1>8. QED
  BY <1>2, <1>5, <1>6, <1>7, LinesStill DEF ConnectionsInv

LEMMA LinesDrop ==
  ASSUME ConnectionsInv, NEW p \in Phones, NEW told \in BOOLEAN, Drop(p, told) PROVE ConnectionsInv'
<1>1. ConnectionsTypeOK /\ CloudFits /\ RowsFit /\ ChatsKept /\ SignupFits /\ WebhooksFit
      /\ \A d \in Checkers : CheckFits(d)
  BY DEF ConnectionsInv
<1>0. PICK w, off : w = cloud[p].account /\ off = [cloud[p] EXCEPT !.on = FALSE]
  OBVIOUS
<1>2. /\ events < MaxEvents /\ events' = events + 1 /\ cloud' = [cloud EXCEPT ![p] = off]
      /\ UNCHANGED <<lastId, accounts, numbers, created, silentChat, signup, checks, split>>
  BY <1>0 DEF Drop
<1>3. cloud \in [Phones -> CloudLine] /\ cloud[p] \in CloudLine
  BY <1>1, LineTypes
<1>4. off \in CloudLine /\ off.id = cloud[p].id /\ off.account = w /\ off.on = FALSE /\ w \in Accounts
  BY <1>0, <1>3 DEF CloudLine
<1>5. /\ cloud' \in [Phones -> CloudLine] /\ cloud'[p] = off
      /\ \A q \in Phones : (q # p => cloud'[q] = cloud[q]) /\ cloud'[q].id = cloud[q].id
  BY <1>2, <1>3, <1>4
<1>6. /\ removed' \in [Accounts -> {"none", "due", "late"}]
      /\ \A v \in Accounts : removed'[v] = "due" => removed[v] = "due" \/ (v = w /\ cloud[p].id \in IdsOf(w))
  <2>1. /\ removed \in [Accounts -> {"none", "due", "late"}]
        /\ removed' = IF told THEN [removed EXCEPT ![w] = IF cloud[p].id \in IdsOf(w) THEN "due"
                                                           ELSE IF @ = "none" THEN "late" ELSE @]
                      ELSE removed
    BY <1>0, <1>1, LineTypes DEF Drop
  <2>2. QED
    BY <2>1
<1>7. \A v, i : OnCloud(v, i)' => OnCloud(v, i)
  <2> SUFFICES ASSUME NEW v, NEW i, OnCloud(v, i)' PROVE OnCloud(v, i)
    OBVIOUS
  <2>1. PICK q \in Phones : cloud'[q] = [account |-> v, id |-> i, on |-> TRUE]
    BY DEF OnCloud
  <2>2. q # p
    BY <1>4, <1>5, <2>1
  <2>3. QED
    BY <1>5, <2>1, <2>2 DEF OnCloud
<1>8. \A v : IdsOf(v)' = IdsOf(v)
  BY <1>2 DEF IdsOf, Served, Registrations
<1>9. ASSUME NEW d \in Checkers PROVE CheckFits(d)'
  <2>1. \A v : SomeGone(d, v) => SomeGone(d, v)'
    BY <1>2, <1>7 DEF SomeGone
  <2>2. QED
    BY <1>1, <1>2, <1>8, <2>1 DEF CheckFits
<1>10. WebhooksFit'
  <2> SUFFICES ASSUME NEW v \in Accounts, removed'[v] = "due" PROVE Gone(v)'
    BY DEF WebhooksFit
  <2>1. PICK i \in IdsOf(v) : ~OnCloud(v, i)'
    <3>1. CASE removed[v] = "due"
      BY <1>1, <1>7, <3>1, GoneIs DEF WebhooksFit
    <3>2. CASE v = w /\ cloud[p].id \in IdsOf(w)
      <4>1. PICK i : i = cloud[p].id
        OBVIOUS
      <4>2. i # 0
        BY <1>1, <3>2, <4>1 DEF IdsOf, RowsFit
      <4>3. ASSUME OnCloud(w, i)' PROVE FALSE
        <5>1. PICK q \in Phones : cloud'[q] = [account |-> w, id |-> i, on |-> TRUE]
          BY <4>3 DEF OnCloud
        <5>2. q = p
          BY <1>1, <1>5, <4>1, <4>2, <5>1 DEF CloudFits
        <5>3. QED
          BY <1>4, <1>5, <5>1, <5>2
      <4>4. QED
        BY <3>2, <4>1, <4>3
    <3>3. QED
      BY <1>6, <3>1, <3>2
  <2>2. i \in IdsOf(v)'
    BY <1>8
  <2>3. QED
    BY <2>1, <2>2 DEF IdsOf, Gone
<1>11. CloudFits' /\ RowsFit' /\ ChatsKept'
  BY <1>1, <1>2, <1>5 DEF CloudFits, RowsFit, ChatsKept, Registrations
<1>12. SignupFits'
  <2>1. signup.phone \in Phones
    BY <1>1, LineTypes DEF SignupType
  <2>2. cloud'[signup.phone].id = cloud[signup.phone].id
    BY <1>5, <2>1
  <2>3. QED
    BY <1>1, <1>2, <2>2 DEF SignupFits, SameId, Registrations, ChatsMove
<1>13. ConnectionsTypeOK'
  <2>1. events' \in 0..MaxEvents
    BY <1>1, <1>2, ConnectionParameters DEF ConnectionsTypeOK
  <2>2. QED
    BY <1>1, <1>2, <1>5, <1>6, <2>1 DEF ConnectionsTypeOK, CloudLine
<1>14. QED
  BY <1>9, <1>10, <1>11, <1>12, <1>13 DEF ConnectionsInv

LEMMA LinesChange == ASSUME ConnectionsInv, NEW n \in Registrations, ChangeNumber(n) PROVE ConnectionsInv'
<1>1. ConnectionsTypeOK /\ CloudFits /\ RowsFit /\ ChatsKept /\ SignupFits
  BY DEF ConnectionsInv
<1>2. numbers \in [RowIds -> Number] /\ n \in RowIds /\ numbers[n] \in Number /\ Registrations \subseteq RowIds
  BY <1>1, LineTypes
<1>3. PICK new : /\ new \in Number /\ new.id = numbers[n].id /\ new.account = numbers[n].account
                 /\ numbers' = [numbers EXCEPT ![n] = new]
  <2>1. CASE numbers' = [numbers EXCEPT ![n].live = FALSE, ![n].active = FALSE]
    <3> DEFINE gone == [numbers[n] EXCEPT !.live = FALSE, !.active = FALSE]
    <3>1. gone \in Number /\ gone.id = numbers[n].id /\ gone.account = numbers[n].account
      BY <1>2 DEF Number
    <3>2. numbers' = [numbers EXCEPT ![n] = gone]
      BY <1>2, <2>1
    <3> HIDE DEF gone
    <3>3. QED
      BY <3>1, <3>2
  <2>2. CASE numbers' = [numbers EXCEPT ![n].active = ~@]
    <3> DEFINE turned == [numbers[n] EXCEPT !.active = ~@]
    <3>1. turned \in Number /\ turned.id = numbers[n].id /\ turned.account = numbers[n].account
      BY <1>2 DEF Number
    <3>2. numbers' = [numbers EXCEPT ![n] = turned]
      BY <1>2, <2>2
    <3> HIDE DEF turned
    <3>3. QED
      BY <3>1, <3>2
  <2>3. QED
    BY <2>1, <2>2 DEF ChangeNumber
<1>4. /\ numbers' \in [RowIds -> Number] /\ numbers'[n] = new
      /\ \A m \in RowIds : m # n => numbers'[m] = numbers[m]
      /\ \A m \in Registrations : numbers'[m].id = numbers[m].id /\ numbers'[m].account = numbers[m].account
  BY <1>2, <1>3
<1>5. /\ events < MaxEvents /\ events' = events + 1 /\ Outdate({numbers[n].account})
      /\ UNCHANGED <<cloud, lastId, accounts, created, silentChat, signup, split>>
  BY DEF ChangeNumber
<1>6. {numbers[n].account} \in SUBSET Accounts
  BY <1>2 DEF Number
<1>7. Registrations' = Registrations
  BY <1>5 DEF Registrations
<1>8. (\A c \in Checkers : CheckFits(c)') /\ WebhooksFit'
  <2>1. ASSUME NEW v \in Accounts \ {numbers[n].account} PROVE IdsOf(v)' = IdsOf(v)
    <3>1. \A m \in Registrations : Served(m)' /\ numbers'[m].account = v <=> Served(m) /\ numbers[m].account = v
      BY <1>2, <1>4 DEF Served
    <3>2. {m \in Registrations' : Served(m)' /\ numbers'[m].account = v} = {m \in Registrations : Served(m) /\ numbers[m].account = v}
      BY <1>7, <3>1
    <3>3. QED
      BY <1>4, <3>2 DEF IdsOf
  <2>2. \A v \in Accounts : \A i : OnCloud(v, i)' => OnCloud(v, i)
    BY <1>5 DEF OnCloud
  <2>3. QED
    BY <1>5, <1>6, <2>1, <2>2, OutdateKeeps
<1>9. CloudFits' /\ RowsFit' /\ ChatsKept'
  BY <1>1, <1>4, <1>5, <1>7 DEF CloudFits, RowsFit, ChatsKept
<1>10. SignupFits'
  <2>1. SameId(cloud[signup.phone].id)' = SameId(cloud[signup.phone].id)
    BY <1>4, <1>5, <1>7 DEF SameId
  <2>2. ASSUME signup.step \in {"subscribing", "saving"} PROVE ChatsMove(signup.phone, signup.row)'
    <3>1. signup.row \in 0..created /\ ChatsMove(signup.phone, signup.row)
      BY <1>1, <2>2 DEF SignupFits
    <3>2. signup.row # 0 => signup.row \in Registrations
      BY <1>1, <3>1, LineTypes DEF Registrations
    <3>3. QED
      BY <1>4, <1>5, <3>1, <3>2 DEF ChatsMove
  <2>3. QED
    BY <1>1, <1>5, <2>1, <2>2 DEF SignupFits
<1>11. ConnectionsTypeOK'
  <2>1. checks' \in [Checkers -> CheckType] /\ removed' \in [Accounts -> {"none", "due", "late"}]
    BY <1>1, <1>5, <1>6, Outdates
  <2>2. events' \in 0..MaxEvents
    BY <1>1, <1>5, ConnectionParameters DEF ConnectionsTypeOK
  <2>3. QED
    BY <1>1, <1>4, <1>5, <2>1, <2>2 DEF ConnectionsTypeOK, CheckType
<1>12. QED
  BY <1>8, <1>9, <1>10, <1>11 DEF ConnectionsInv

LEMMA LinesWrites == ASSUME ConnectionsInv, NEW n \in Registrations, PersonWrites(n) PROVE ConnectionsInv'
<1>0. PICK p : p = numbers[n].phone
  OBVIOUS
<1>1. ConnectionsTypeOK /\ CloudFits /\ RowsFit /\ ChatsKept /\ SignupFits
  BY DEF ConnectionsInv
<1>2. /\ p # Unknown /\ cloud[p].id = numbers[n].id /\ silentChat[p] = 0
      /\ silentChat' = [silentChat EXCEPT ![p] = numbers[n].id]
      /\ UNCHANGED <<cloud, lastId, accounts, numbers, created, signup, checks, removed, split, events>>
  BY <1>0 DEF PersonWrites
<1>3. numbers[n] \in Number /\ p \in Phones /\ numbers[n].id \in 0..LastId /\ numbers[n].id # 0
  BY <1>0, <1>1, <1>2, LineTypes DEF Number, RowsFit
<1>4. /\ silentChat' \in [Phones -> 0..LastId] /\ silentChat'[p] = cloud[p].id
      /\ \A q \in Phones : q # p => silentChat'[q] = silentChat[q]
  BY <1>1, <1>2, <1>3, LineTypes
<1>5. (\A c \in Checkers : CheckFits(c)') /\ WebhooksFit'
  <2>1. \A v \in Accounts : IdsOf(v)' = IdsOf(v) /\ \A i : OnCloud(v, i)' => OnCloud(v, i)
    BY <1>2 DEF IdsOf, Served, Registrations, OnCloud
  <2>2. QED
    BY <1>2, <2>1, OthersKeep
<1>6. CloudFits' /\ RowsFit'
  BY <1>1, <1>2 DEF CloudFits, RowsFit, Registrations
<1>7. ChatsKept'
  BY <1>1, <1>2, <1>4 DEF ChatsKept, Registrations
<1>8. SignupFits'
  <2>1. \A m : ChatsMove(signup.phone, m) => ChatsMove(signup.phone, m)'
    BY <1>1, <1>2, <1>4, LineTypes DEF ChatsMove, SignupType
  <2>2. SameId(cloud[signup.phone].id)' = SameId(cloud[signup.phone].id)
    BY <1>2 DEF SameId, Registrations
  <2>3. ASSUME signup.step \in {"subscribing", "saving"} PROVE ChatsMove(signup.phone, signup.row)'
    <3>1. PICK m : m = signup.row
      OBVIOUS
    <3>2. ChatsMove(signup.phone, m)'
      BY <1>1, <2>1, <2>3, <3>1 DEF SignupFits
    <3>3. QED
      BY <1>2, <3>1, <3>2 DEF ChatsMove
  <2>4. QED
    BY <1>1, <1>2, <2>2, <2>3 DEF SignupFits
<1>9. ConnectionsTypeOK'
  BY <1>1, <1>2, <1>4 DEF ConnectionsTypeOK
<1>10. QED
  BY <1>5, <1>6, <1>7, <1>8, <1>9 DEF ConnectionsInv

LEMMA LinesKeepFit == ConnectionsInv /\ [ConnectionsNext]_connectionVars => ConnectionsInv'
<1> SUFFICES ASSUME ConnectionsInv, [ConnectionsNext]_connectionVars PROVE ConnectionsInv'
  OBVIOUS
<1>1. CASE UNCHANGED connectionVars
  <2>1. UNCHANGED <<cloud, lastId, accounts, numbers, created, silentChat, signup, checks, removed, split, events>>
    BY <1>1 DEF connectionVars
  <2>2. ConnectionsTypeOK'
    BY <2>1 DEF ConnectionsInv, ConnectionsTypeOK
  <2>3. (\A c \in Checkers : CheckFits(c)') /\ WebhooksFit'
    BY <2>1, LinesStill, OthersKeep
  <2>4. QED
    BY <2>1, <2>2, <2>3, LinesStill DEF ConnectionsInv
<1>2. CASE ConnectionsNext
  BY <1>2, LinesPopup, LinesFind, LinesSave, LinesReconnect, LinesCreate, LinesSignupFails, LinesCheck, LinesProbe,
     LinesMark, LinesPartner, LinesDrop, LinesChange, LinesWrites DEF ConnectionsNext
<1>3. QED
  BY <1>1, <1>2

LEMMA ChatsFollow == ConnectionsInv => ChatsFollowLine
BY LineTypes DEF ConnectionsInv, ChatsKept, ChatsFollowLine, Number

\* Only a check and a webhook mark an account.
LEMMA AlarmsOnlyTrue ==
  ConnectionsInv /\ [ConnectionsNext]_connectionVars =>
    \A w \in Accounts : accounts[w] = "connected" /\ accounts'[w] = "disconnected" =>
      \/ Gone(w)
      \/ \E c \in Checkers : checks[c].gone = {w} /\ w \in checks[c].stale
      \/ removed[w] = "late" /\ removed'[w] = "none"
<1> SUFFICES ASSUME ConnectionsInv, [ConnectionsNext]_connectionVars, NEW w \in Accounts,
                    accounts[w] = "connected", accounts'[w] = "disconnected"
             PROVE  \/ Gone(w)
                    \/ \E c \in Checkers : checks[c].gone = {w} /\ w \in checks[c].stale
                    \/ removed[w] = "late" /\ removed'[w] = "none"
  OBVIOUS
<1>1. /\ accounts \in [Accounts -> {"none", "connected", "disconnected"}] /\ WebhooksFit
      /\ removed \in [Accounts -> {"none", "due", "late"}] /\ \A c \in Checkers : CheckFits(c)
  BY LineTypes DEF ConnectionsInv
<1>2. \/ \E c \in Checkers : MarkDisconnected(c)
      \/ \E v \in Accounts : PartnerRemoved(v)
  <2>1. accounts' # accounts
    OBVIOUS
  <2>2. ~SaveAccount
    BY <1>1 DEF SaveAccount
  <2>3. QED
    BY <2>1, <2>2 DEF ConnectionsNext, connectionVars, PopupEnds, FindNumber, ReconnectNumber, CreateNumber,
          SignupFails, CheckSome, CheckWabas, ProbeIsFine, ProbeFindsDrop, Drop, ChangeNumber, PersonWrites
<1>3. ASSUME NEW c \in Checkers, MarkDisconnected(c)
      PROVE  Gone(w) \/ (checks[c].gone = {w} /\ w \in checks[c].stale)
  <2>1. PICK v \in checks[c].gone : MarkAccount(v) /\ checks[c].step = "marking"
    BY <1>3 DEF MarkDisconnected
  <2>2. w = v
    BY <1>1, <2>1 DEF MarkAccount
  <2>3. checks[c].gone = {w} /\ (w \in checks[c].stale \/ SomeGone(c, w))
    BY <1>1, <2>1, <2>2 DEF CheckFits
  <2>4. w \in checks[c].stale \/ checks[c].ids[w] = IdsOf(w)
    BY <1>1, <2>1 DEF CheckFits
  <2>5. QED
    BY <2>3, <2>4, GoneIs DEF SomeGone
<1>4. ASSUME NEW v \in Accounts, PartnerRemoved(v)
      PROVE  Gone(w) \/ (removed[w] = "late" /\ removed'[w] = "none")
  <2>1. w = v /\ removed[v] # "none" /\ removed' = [removed EXCEPT ![v] = "none"]
    BY <1>1, <1>4 DEF PartnerRemoved, MarkAccount
  <2>2. QED
    BY <1>1, <2>1 DEF WebhooksFit
<1>5. QED
  BY <1>2, <1>3, <1>4

-----------------------------------------------------------------------------
(* The office *)

OfficeInv == /\ SessionInv /\ LinksHold /\ ConnectionsInv
             /\ QuoteInv /\ CloseInv /\ BalanceInv

\* One part is at work, so each takes a step of its own or none.
LEMMA OfficeSteps ==
  ASSUME [OfficeNext]_officeVars
  PROVE  /\ [SessionNext]_sessionVars /\ [ConnectionsNext]_connectionVars
         /\ [QuoteNext]_quoteVars /\ [CloseNext]_closeVars /\ [BalanceNext]_balanceVars
<1>1. CASE UNCHANGED officeVars
  BY <1>1 DEF officeVars
<1>2. CASE OfficeNext
  BY <1>2, Zenon DEF OfficeNext
<1>3. QED
  BY <1>1, <1>2

LEMMA OfficeStarts == OfficeInit => OfficeInv
BY SessionInitFits, SessionStartsLinked, LinesInitFit, QuoteInitFits, CloseInitFits, BalanceInitFits
   DEF OfficeInit, OfficeInv

LEMMA OfficeKeeps == OfficeInv /\ [OfficeNext]_officeVars => OfficeInv'
<1> SUFFICES ASSUME OfficeInv, [OfficeNext]_officeVars PROVE OfficeInv'
  OBVIOUS
<1>1. (SessionInv /\ LinksHold)'
  BY OfficeSteps, SessionKeepsFit DEF OfficeInv
<1>2. ConnectionsInv'
  BY OfficeSteps, LinesKeepFit DEF OfficeInv
<1>3. QuoteInv' /\ CloseInv' /\ BalanceInv'
  BY OfficeSteps, QuoteKeepsFit, CloseKeepsFit, BalanceKeepsFit DEF OfficeInv
<1>4. QED
  BY <1>1, <1>2, <1>3 DEF OfficeInv

\* Whatever comes to the office, the rows of a chat, of the lines and their signups, of
\* the requests and their matters and of the months keep their types, and no counter
\* passes its bound (OfficeTypesOK asks it only of the part at work).
THEOREM OfficeTypesAlwaysOK == OfficeSpec => []OfficeTypesOK
<1>1. OfficeInv => OfficeTypesOK
  BY DEF OfficeInv, OfficeTypesOK, SessionInv, ConnectionsInv, QuoteInv, CloseInv, BalanceInv
<1>2. QED
  BY <1>1, OfficeStarts, OfficeKeeps, PTL DEF OfficeSpec

\* However many messages of a person are attended at once, while the office writes and
\* the chat is polled, and whatever the timeout: the bot answers with the data of the
\* phone's owner or of somebody identified since the person came back, the chat keeps a
\* code its number serves, and a goodbye goes once, to a chat that is silent, the bot's
\* and not waiting for the office (BotService.getOrCreateConversation, linkClient,
\* claimPendingWarnings).
THEOREM SessionsAlwaysFit == OfficeSpec => SessionsFit
<1>1. OfficeInv => VisitsApart /\ CodeFits
  BY VisitsAreApart DEF OfficeInv
<1>2. OfficeInv /\ [OfficeNext]_officeVars =>
        [goodbyes' > goodbyes =>
           /\ goodbyes = 0 /\ silence \in Timeout..(Timeout + Window)
           /\ chat.last = "bot" /\ ~chat.paused /\ chat.waiting # "now"]_sessionVars
  BY OfficeSteps, GoodbyeIsFit DEF OfficeInv
<1>3. QED
  BY <1>1, <1>2, OfficeStarts, OfficeKeeps, PTL DEF OfficeSpec, SessionsFit, GoodbyeFits

\* For any number of phones, accounts and organizations, and however signups, checks and
\* webhooks come together: a number that is back on its line has the chats of that line,
\* and an account is marked as disconnected only when a number of it is away, but for
\* what overtook the check or the webhook (findNumberToReconnect and reconnectNumber,
\* WhatsappConnectionMonitorService.checkWabas and handleAccountUpdate).
THEOREM LinesAlwaysFit == OfficeSpec => LinesFit
<1>1. OfficeInv => ChatsFollowLine
  BY ChatsFollow DEF OfficeInv
<1>2. OfficeInv /\ [OfficeNext]_officeVars =>
        [\A w \in Accounts : accounts[w] = "connected" /\ accounts'[w] = "disconnected" =>
           \/ Gone(w)
           \/ \E c \in Checkers : checks[c].gone = {w} /\ w \in checks[c].stale
           \/ removed[w] = "late" /\ removed'[w] = "none"]_connectionVars
  BY OfficeSteps, AlarmsOnlyTrue DEF OfficeInv
<1>3. QED
  BY <1>1, <1>2, OfficeStarts, OfficeKeeps, PTL DEF OfficeSpec, LinesFit, AlarmsAreTrue

\* However many submissions, edits of the panel and failed queries come together, a
\* request in state NEW has a pending matter or one on its way, unless the office
\* closed it meanwhile, and the coverage a lead chose fits the price it was told
\* (CotizadorService, SolicitudesService, NovedadesService.recordQuoteRequest).
THEOREM RequestsAlwaysFit == OfficeSpec => []RequestsFit
<1>1. OfficeInv => RequestsFit
  BY QuotesFit DEF OfficeInv, RequestsFit
<1>2. QED
  BY <1>1, OfficeStarts, OfficeKeeps, PTL DEF OfficeSpec

\* For any number of numbers, plans and months, whichever closes and snapshots of the
\* cron, the boot and the owner come together and whichever of them fail, a row that
\* is not marked as a backfill tells a plan, or a state of the debt, of the month's
\* end or the days after it, and a month once written is written again only by force
\* (MonthlyCloseService.close, MonthlyBalanceSnapshotService).
THEOREM MonthsAlwaysFit == OfficeSpec => MonthsFit
<1>1. OfficeInv => UnmarkedIsTimely /\ BalanceIsTimely
  BY DEF OfficeInv, CloseInv, BalanceInv
<1>2. OfficeInv /\ [OfficeNext]_officeVars =>
        [\A p \in Months : Closed(p) /\ closes'[p] # closes[p] => closing.force]_closeVars
  BY OfficeSteps, CloseFreezes DEF OfficeInv
<1>3. OfficeInv /\ [OfficeNext]_officeVars =>
        [\A p \in Periods : balance[p].taken /\ balance'[p] # balance[p] => snapshot.force]_balanceVars
  BY OfficeSteps, BalanceFreezes DEF OfficeInv
<1>4. QED
  BY <1>1, <1>2, <1>3, OfficeStarts, OfficeKeeps, PTL
     DEF OfficeSpec, MonthsFit, FrozenUnlessForced, RewrittenIfForced
=============================================================================
