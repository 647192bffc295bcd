--------------------------- MODULE QuoteRequests ---------------------------
(* A quote request and the matter that puts it before the office               *)
(* (cotizador.service.ts, solicitudes.service.ts, novedades.service.ts): an    *)
(* online request of a coverage of a stored quote, sent once or more, or a      *)
(* lead the bot creates, whose documents and choice it updates later. Requests *)
(* read and write in separate statements; the office answers meanwhile.        *)
EXTENDS Naturals, Sequences, SequencesExt

CONSTANTS Submitters,   \* requests in course that submit, attach or change
          Coverages, NoCoverage, Documents,
          MaxDocuments,   \* kept of a lead, the newest
          MaxMatters,
          MaxOffice,      \* what the office does
          MaxFailures     \* statements that fail, processes that die

ASSUME QuoteParameters ==
  /\ NoCoverage \notin Coverages
  /\ MaxDocuments \in Nat \ {0} /\ {MaxMatters, MaxOffice, MaxFailures} \subseteq Nat

VARIABLES
  online,     \* a request of a quote, or a lead of the bot
  quoted,     \* Quote.result: the coverages with a price
  request,    \* QuoteRequest or ContactLead: status and coverage asked for
  matters,    \* Notification rows of the request
  payload,    \* of the lead
  submitter,
  attached,      \* history: the documents answered as kept
  overtaken,  \* history: the office cleared, or a failure cut, what the latest submission shows
  officeDid, failures

quoteVars == <<online, quoted, request, matters, payload, submitter, attached, overtaken, officeDid, failures>>

Choice == Coverages \cup {NoCoverage}
MatterState == {"pending", "in_progress", "resolved"}
RequestState == {"NEW", "CONTACTED", "CLOSED"}
Payload == [coverage : Choice, price : Choice, before : Choice, documents : Seq(Documents)]
EmptyPayload == [coverage |-> NoCoverage, price |-> NoCoverage, before |-> NoCoverage, documents |-> <<>>]
IdleSubmitter == [at |-> "idle", coverage |-> NoCoverage, found |-> 0, read |-> EmptyPayload, files |-> <<>>]

QuoteTypeOK ==
  /\ online \in BOOLEAN /\ quoted \subseteq Coverages
  /\ request \in [status : RequestState \cup {"none"}, coverage : Choice]
  /\ matters \in Seq([status : MatterState, unread : BOOLEAN, cleared : BOOLEAN]) /\ Len(matters) <= MaxMatters
  /\ payload \in Payload /\ Len(payload.documents) <= MaxDocuments
  /\ submitter \in [Submitters -> [at : {"idle", "upsert", "find", "record", "attach", "change"},
                                   coverage : Choice, found : 0..MaxMatters, read : Payload, files : Seq(Documents)]]
  /\ attached \subseteq Documents /\ overtaken \in BOOLEAN
  /\ officeDid \in 0..MaxOffice /\ failures \in 0..MaxFailures

QuoteInit ==
  /\ online \in BOOLEAN /\ quoted = {} /\ matters = <<>> /\ payload = EmptyPayload
  /\ request = [status |-> "none", coverage |-> NoCoverage]
  /\ submitter = [s \in Submitters |-> IdleSubmitter]
  /\ attached = {} /\ overtaken = FALSE /\ officeDid = 0 /\ failures = 0

Live == {i \in DOMAIN matters : ~matters[i].cleared}
Submitting == \E s \in Submitters : submitter[s].at \in {"find", "record"}
Goes(s, at) == submitter' = [submitter EXCEPT ![s].at = at]
Ends(s) == submitter' = [submitter EXCEPT ![s] = IdleSubmitter]

-----------------------------------------------------------------------------
(* Quotes and submissions. *)

\* quoteVehicle keeps what the insurer answered under the number it gave: a
\* number seen before has its result replaced.
StoreQuote(coverages) ==
  /\ online /\ quoted' = coverages
  /\ UNCHANGED <<online, request, matters, payload, submitter, attached, overtaken, officeDid, failures>>

\* requestCoverage: the coverage is one of the quote's, with a price; the dates
\* are checked alike (the rejected request changes nothing).
RequestCoverage(s, c) ==
  /\ online /\ submitter[s].at = "idle" /\ c \in quoted
  /\ submitter' = [submitter EXCEPT ![s] = [IdleSubmitter EXCEPT !.at = "upsert", !.coverage = c]]
  /\ UNCHANGED <<online, quoted, request, matters, payload, attached, overtaken, officeDid, failures>>

\* One row per quote: submitted again, it is written over and new again.
UpsertRequest(s) ==
  /\ submitter[s].at = "upsert"
  /\ request' = [status |-> "NEW", coverage |-> submitter[s].coverage]
  /\ overtaken' = FALSE /\ Goes(s, "find")
  /\ UNCHANGED <<online, quoted, matters, payload, attached, officeDid, failures>>

\* createBotLead, createWebLead: the payload is the form's, its price (if any)
\* the one of its coverage.
CreateLead(s, c, priced) ==
  /\ ~online /\ submitter[s].at = "idle" /\ request.status = "none"
  /\ request' = [request EXCEPT !.status = "NEW"]
  /\ payload' = [EmptyPayload EXCEPT !.coverage = c, !.price = IF priced THEN c ELSE NoCoverage]
  /\ Goes(s, "find")
  /\ UNCHANGED <<online, quoted, matters, attached, overtaken, officeDid, failures>>

\* recordQuote: the first live matter of the request, found and then written by
\* its id; without one it is created. It never fails the request.
FindMatter(s) ==
  /\ submitter[s].at = "find"
  /\ \E i \in IF Live = {} THEN {0} ELSE Live :
       submitter' = [submitter EXCEPT ![s].at = "record", ![s].found = i]
  /\ UNCHANGED <<online, quoted, request, matters, payload, attached, overtaken, officeDid, failures>>

\* Slip: the matter keeps its status.
RecordUnread(s) ==
  LET i == submitter[s].found IN
    /\ submitter[s].at = "record"
    /\ IF i # 0 THEN matters' = [matters EXCEPT ![i].unread = TRUE]
                ELSE /\ Len(matters) < MaxMatters
                     /\ matters' = Append(matters, [status |-> "pending", unread |-> TRUE, cleared |-> FALSE])
    /\ Ends(s)
    /\ UNCHANGED <<online, quoted, request, payload, attached, overtaken, officeDid, failures>>

RecordQuote(s) ==
  LET i == submitter[s].found IN
    /\ submitter[s].at = "record"
    /\ IF i # 0 THEN matters' = [matters EXCEPT ![i].status = "pending", ![i].unread = TRUE]
                ELSE /\ Len(matters) < MaxMatters
                     /\ matters' = Append(matters, [status |-> "pending", unread |-> TRUE, cleared |-> FALSE])
    /\ Ends(s)
    /\ UNCHANGED <<online, quoted, request, payload, attached, overtaken, officeDid, failures>>

-----------------------------------------------------------------------------
(* The lead's documents and its choice: the payload is read, and written whole. *)

ReadLead(s) == /\ ~online /\ request.status # "none" /\ submitter[s].at = "idle"
               /\ UNCHANGED <<online, quoted, request, matters, payload, attached, overtaken, officeDid, failures>>

\* attachBotLeadAdjuntos: the files are stored between the two.
Attach(s, d) ==
  /\ ReadLead(s) /\ d \notin attached /\ \A r \in Submitters : d \notin ToSet(submitter[r].files)
  /\ submitter' = [submitter EXCEPT ![s] =
       [IdleSubmitter EXCEPT !.at = "attach", !.read = payload, !.files = <<d>>]]

\* Slip: every document stays.
WriteAllDocuments(s) ==
  /\ submitter[s].at = "attach"
  /\ payload' = [submitter[s].read EXCEPT !.documents = @ \o submitter[s].files]
  /\ attached' = attached \cup ToSet(submitter[s].files) /\ Ends(s)
  /\ UNCHANGED <<online, quoted, request, matters, overtaken, officeDid, failures>>

WriteDocuments(s) ==
  LET all == submitter[s].read.documents \o submitter[s].files IN
    /\ submitter[s].at = "attach"
    /\ payload' = [submitter[s].read EXCEPT !.documents =
         SubSeq(all, IF Len(all) > MaxDocuments THEN Len(all) - MaxDocuments + 1 ELSE 1, Len(all))]
    /\ attached' = attached \cup ToSet(submitter[s].files) /\ Ends(s)
    /\ UNCHANGED <<online, quoted, request, matters, overtaken, officeDid, failures>>

\* updateBotLeadCoverage. The new price, if it comes with one, is kept in coverage's place.
ChangeChoice(s, c) ==
  /\ ReadLead(s)
  /\ submitter' = [submitter EXCEPT ![s] = [IdleSubmitter EXCEPT !.at = "change", !.read = payload, !.coverage = c]]

\* Slip: the price stays when no new one comes.
KeepPrice(read, c, priced) ==
  [read EXCEPT !.coverage = c, !.price = IF priced THEN c ELSE @,
               !.before = IF read.coverage \notin {NoCoverage, c} THEN read.coverage ELSE @]

\* The former price goes; the former choice stays, beside the new one.
Chosen(read, c, priced) ==
  [read EXCEPT !.coverage = c, !.price = IF priced THEN c ELSE NoCoverage,
               !.before = IF read.coverage \notin {NoCoverage, c} THEN read.coverage ELSE @]

WriteChoice(s, priced) ==
  /\ submitter[s].at = "change"
  /\ payload' = Chosen(submitter[s].read, submitter[s].coverage, priced) /\ Ends(s)
  /\ UNCHANGED <<online, quoted, request, matters, attached, overtaken, officeDid, failures>>

-----------------------------------------------------------------------------
(* The office, from the requests' screen or the matters'. *)

OfficeTouches ==
  /\ officeDid < MaxOffice /\ officeDid' = officeDid + 1
  /\ UNCHANGED <<online, quoted, payload, submitter, attached, failures>>

MatterOf(status) == CASE status = "CLOSED" -> "resolved" [] status = "CONTACTED" -> "in_progress" [] OTHER -> "pending"

\* SolicitudesService.updateStatus: the request and its live matters, in one transaction.
UpdateStatus(status) ==
  /\ OfficeTouches /\ request.status # "none"
  /\ request' = [request EXCEPT !.status = status]
  /\ matters' = [i \in DOMAIN matters |-> IF i \in Live THEN [matters[i] EXCEPT !.status = MatterOf(status)] ELSE matters[i]]
  /\ UNCHANGED overtaken

\* NovedadesService.updateMatter: one matter, and the request with it.
UpdateMatter(i, status) ==
  /\ OfficeTouches /\ i \in Live
  /\ request' = [request EXCEPT !.status = status]
  /\ matters' = [matters EXCEPT ![i].status = MatterOf(status)]
  /\ UNCHANGED overtaken

\* clearAll clears the matters and leaves the requests.
ClearMatters ==
  /\ OfficeTouches /\ Live # {}
  /\ matters' = [i \in DOMAIN matters |-> [matters[i] EXCEPT !.cleared = TRUE]]
  /\ overtaken' = TRUE /\ UNCHANGED request

\* markRead, markAllRead.
ReadMatters(read) ==
  /\ OfficeTouches /\ read # {} /\ read \subseteq {i \in Live : matters[i].unread}
  /\ matters' = [i \in DOMAIN matters |-> [matters[i] EXCEPT !.unread = @ /\ i \notin read]]
  /\ UNCHANGED <<request, overtaken>>

\* A statement fails or the process dies; recordQuote's failure is only logged.
SubmitterFails(s) ==
  /\ failures < MaxFailures /\ failures' = failures + 1 /\ submitter[s].at # "idle"
  /\ overtaken' = (overtaken \/ submitter[s].at \in {"find", "record"}) /\ Ends(s)
  /\ UNCHANGED <<online, quoted, request, matters, payload, attached, officeDid>>

QuoteNext ==
  \/ \E coverages \in SUBSET Coverages : StoreQuote(coverages)
  \/ \E s \in Submitters :
       \/ \E c \in Coverages : RequestCoverage(s, c) \/ ChangeChoice(s, c)
       \/ \E c \in Choice, priced \in BOOLEAN : CreateLead(s, c, priced)
       \/ UpsertRequest(s) \/ FindMatter(s) \/ RecordQuote(s)
       \/ \E d \in Documents : Attach(s, d)
       \/ \E priced \in BOOLEAN : WriteChoice(s, priced)
       \/ WriteDocuments(s) \/ SubmitterFails(s)
  \/ \E status \in RequestState : UpdateStatus(status) \/ \E i \in DOMAIN matters : UpdateMatter(i, status)
  \/ \E read \in SUBSET DOMAIN matters : ReadMatters(read)
  \/ ClearMatters

QuoteSpec == QuoteInit /\ [][QuoteNext]_quoteVars

-----------------------------------------------------------------------------
\* A request the office has not touched since it was sent last is before its
\* eyes: a live matter says it is pending, however the submissions and the two
\* screens interleave, unless the matters were cleared or a statement failed
\* after it was written.
NewIsListed ==
  request.status = "NEW" /\ ~Submitting /\ ~overtaken => \E i \in Live : matters[i].status = "pending"

\* What a lead says fits together whoever wrote it last: the price is the one of
\* the coverage chosen, and the choice before it is another.
LeadFits ==
  /\ payload.price \in {NoCoverage, payload.coverage}
  /\ payload.before # NoCoverage => payload.before # payload.coverage

\* Refuted: "the documents already attached are kept" (updateBotLeadCoverage),
\* while another request writes the payload it read before.
DocumentsKept == [][\A d \in attached : d \in ToSet(payload.documents) /\ Len(payload.documents) < MaxDocuments
                      => d \in ToSet(payload'.documents)]_quoteVars

\* Refuted: "Quote requests use the same state in both entry points" (updateMatter):
\* two first submissions create two matters; a submission reopens a matter alone.
StatesAgree == ~Submitting => \A i \in Live : matters[i].status = MatterOf(request.status)
=============================================================================
