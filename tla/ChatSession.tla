----------------------------- MODULE ChatSession -----------------------------
(* A person's chat with the bot (bot/bot.service.ts): the session a message    *)
(* finds or starts, the client the person identifies as, the number they write *)
(* to and the goodbye of an idle chat. Time is counted in steps of silence; a  *)
(* request is over before the next step.                                       *)
EXTENDS Naturals

CONSTANTS
  Lines, Codes, Clients, Owner, Nobody, NoCode,
  CodesOf,       \* codes a number serves, none when it is not restricted
  CodeOf,        \* the code of a client
  PolicyCodes,   \* the codes of their policies
  Requests, Timeout, Window, MaxAside

ASSUME SessionParameters ==
  /\ Owner \in Clients /\ Nobody \notin Clients /\ NoCode \notin Codes
  /\ CodesOf \in [Lines -> SUBSET Codes]
  /\ CodeOf \in [Clients -> Codes \cup {NoCode}] /\ PolicyCodes \in [Clients -> SUBSET Codes]
  /\ Timeout \in Nat \ {0} /\ Window \in Nat /\ MaxAside \in Nat

Long == Timeout + Window + 1
Never == Long + 1   \* no lastMessageAt

VARIABLES
  chat,      \* Conversation, its last message and the request it left at the office
  requests,  \* messages of the person being attended
  poll,      \* claimPendingWarnings
  silence,   \* steps since lastMessageAt
  quiet,     \* history: steps since the person or the bot wrote
  given,     \* history: clients the person identified as in this visit
  kept,      \* history: the office's message kept an ended session alive
  drifted,   \* history: the chat's code or number changed unseen by a request
  goodbyes,  \* history: goodbyes of this silence that no move of the chat overtook
  aside      \* messages of the office, takeovers, imports and answers

sessionHistory == <<quiet, given, kept, drifted, goodbyes>>
sessionVars == <<chat, requests, poll, silence, sessionHistory, aside>>

\* What a thing of a chat was when its session started again.
When == {"none", "before", "now"}
Older(w) == IF w = "now" THEN "before" ELSE w

NoRequest == [step |-> "idle", line |-> CHOOSE l \in Lines : TRUE, new |-> FALSE, foreign |-> FALSE,
              linked |-> FALSE, waited |-> FALSE, paused |-> FALSE, client |-> Nobody, code |-> NoCode]
NoPoll == [step |-> "idle", fits |-> FALSE, waited |-> FALSE, stirred |-> FALSE]

SessionTypeOK ==
  /\ chat \in [number : Lines, client : Clients \cup {Nobody}, linked : When, code : Codes \cup {NoCode},
               flow : When, waiting : When, last : {"none", "person", "bot", "office"},
               paused : BOOLEAN, warned : BOOLEAN]
  /\ requests \in [Requests -> [step : {"idle", "found", "saving", "answering", "linking"}, line : Lines,
                   new : BOOLEAN, foreign : BOOLEAN, linked : BOOLEAN, waited : BOOLEAN, paused : BOOLEAN,
                   client : Clients \cup {Nobody}, code : Codes \cup {NoCode}]]
  /\ poll \in [step : {"idle", "claiming", "choosing"}, fits : BOOLEAN, waited : BOOLEAN, stirred : BOOLEAN]
  /\ silence \in 0..Never /\ quiet \in 0..Never
  /\ given \subseteq Clients /\ kept \in BOOLEAN /\ drifted \in BOOLEAN
  /\ goodbyes \in 0..2 /\ aside \in 0..MaxAside

SessionInit ==
  /\ \E l \in Lines :
       chat = [number |-> l, client |-> Nobody, linked |-> "none", code |-> NoCode, flow |-> "none",
               waiting |-> "none", last |-> "none", paused |-> FALSE, warned |-> FALSE]
  /\ requests = [r \in Requests |-> NoRequest] /\ poll = NoPoll
  /\ silence = Never /\ quiet = Never
  /\ given = {} /\ kept = FALSE /\ drifted = FALSE /\ goodbyes = 0 /\ aside = 0

-----------------------------------------------------------------------------
(* Who a number serves *)

\* servedClientWhere, servesClient.
ServesClient(l, c) ==
  CodesOf[l] = {} \/ CodeOf[c] \in CodesOf[l] \/ PolicyCodes[c] \cap CodesOf[l] # {}

ForeignCode(l, code) == CodesOf[l] # {} /\ code # NoCode /\ code \notin CodesOf[l]

\* chatCodeFor: the client's code, or that of a policy the number serves.
ChatCodes(l, c) ==
  IF CodesOf[l] = {} \/ CodeOf[c] \in CodesOf[l] THEN {CodeOf[c]}
  ELSE LET theirs == PolicyCodes[c] \cap CodesOf[l] IN IF theirs = {} THEN {NoCode} ELSE theirs

\* Slip: the client stays linked whatever the session.
AlwaysActive == chat.client # Nobody

\* isClientLinkActive: their own phone, or a link made in this session.
LinkActive == chat.client # Nobody /\ (chat.client = Owner \/ chat.linked = "now")

\* requireIdentifiedClient: the client whose policies the tools of the bot answer with.
Identified(c) == chat.client = c /\ LinkActive /\ ServesClient(chat.number, c)

-----------------------------------------------------------------------------
(* A message of the person: getOrCreateConversation, then saveMessage *)

Request(r, step) == requests[r].step = step
Stir == poll' = [poll EXCEPT !.stirred = poll.step # "idle"]

\* Slip: only a chat that is nobody's loses its code.
KeepsCode(l) == chat.number # l /\ ForeignCode(l, chat.code) /\ chat.client = Nobody

LosesCode(l) == chat.number # l /\ ForeignCode(l, chat.code)

\* findFirst: what the session is decided on. The history starts a visit with
\* the person's first message after the timeout.
Find(r, l) ==
  /\ Request(r, "idle")
  /\ LET ended == quiet > Timeout /\ quiet < Never
         new == silence > Timeout /\ silence < Never IN
       /\ requests' = [requests EXCEPT ![r] =
            [NoRequest EXCEPT !.step = "found", !.line = l, !.new = new, !.foreign = LosesCode(l),
                              !.paused = chat.paused, !.code = chat.code]]
       /\ chat' = IF ended THEN [chat EXCEPT !.flow = Older(@)] ELSE chat
       /\ given' = IF ended THEN {} ELSE given
       /\ kept' = IF ended THEN ~new ELSE kept
  /\ UNCHANGED <<poll, silence, quiet, drifted, goodbyes, aside>>

\* Slip: the session's start stays where it was.
SameSession(r) == chat

\* A new session leaves behind what was done before its message was read.
SessionOf(r) ==
  IF requests[r].new
  THEN [chat EXCEPT !.flow = "none",
                    !.linked = IF requests[r].linked THEN @ ELSE Older(@),
                    !.waiting = IF requests[r].waited THEN @ ELSE Older(@)]
  ELSE chat

\* The update of the conversation, with the number written to.
Enter(r) ==
  /\ Request(r, "found")
  /\ LET q == requests[r] IN
       /\ chat' = [SessionOf(r) EXCEPT !.number = q.line, !.code = IF q.foreign THEN NoCode ELSE @]
       /\ drifted' = (drifted \/ chat.code # q.code)
       /\ requests' = [requests EXCEPT ![r].step = "saving"]
  /\ UNCHANGED <<poll, silence, quiet, given, kept, goodbyes, aside>>

\* saveMessage: activity, and the silence may be warned again.
SaveMessage(who) ==
  /\ chat' = [chat EXCEPT !.last = who, !.warned = FALSE]
  /\ silence' = 0 /\ quiet' = 0 /\ goodbyes' = 0
  /\ Stir

\* Paused, the bot only keeps the message.
SavePerson(r) ==
  /\ Request(r, "saving")
  /\ SaveMessage("person")
  /\ requests' = [requests EXCEPT ![r] =
       IF requests[r].paused THEN NoRequest ELSE [NoRequest EXCEPT !.step = "answering"]]
  /\ UNCHANGED <<given, kept, drifted, aside>>

\* The bot's answer ends its request.
Answer(r) ==
  /\ Request(r, "answering")
  /\ SaveMessage("bot")
  /\ requests' = [requests EXCEPT ![r] = NoRequest]
  /\ UNCHANGED <<given, kept, drifted, aside>>

-----------------------------------------------------------------------------
(* What the bot asks for while it answers *)

SaveFlowState(r) ==
  /\ Request(r, "answering")
  /\ \E f \in {"none", "now"} : chat.flow # f /\ chat' = [chat EXCEPT !.flow = f]
  /\ UNCHANGED <<requests, poll, silence, sessionHistory, aside>>

\* identifyClient (a DNI or a plate) and identifyByPhone: among those the number serves.
Identify(r, c) ==
  /\ Request(r, "answering") /\ ServesClient(chat.number, c)
  /\ requests' = [requests EXCEPT ![r].step = "linking", ![r].client = c, ![r].line = chat.number]
  /\ UNCHANGED <<chat, poll, silence, sessionHistory, aside>>

\* linkClient, after the code is looked up.
LinkClient(r) ==
  /\ Request(r, "linking")
  /\ LET q == requests[r] IN
       /\ \E code \in ChatCodes(q.line, q.client) :
            chat' = [chat EXCEPT !.client = q.client, !.linked = "now", !.code = code]
       /\ given' = given \cup {q.client}
       /\ drifted' = (drifted \/ chat.number # q.line)
  /\ requests' = [s \in Requests |->
       IF s = r THEN [NoRequest EXCEPT !.step = "answering"]
       ELSE IF Request(s, "found") THEN [requests[s] EXCEPT !.linked = TRUE] ELSE requests[s]]
  /\ UNCHANGED <<poll, silence, quiet, kept, goodbyes, aside>>

\* requestHandoff and requestPolicyCancellation leave a request at the office (Handover).
AskOffice(r) ==
  /\ Request(r, "answering") /\ chat.waiting # "now"
  /\ chat' = [chat EXCEPT !.waiting = "now"]
  /\ requests' = [s \in Requests |->
       IF Request(s, "found") THEN [requests[s] EXCEPT !.waited = TRUE] ELSE requests[s]]
  /\ UNCHANGED <<poll, silence, sessionHistory, aside>>

\* resetSession: "finalizar" or, unlinking the client, /reset.
ResetSession(r, unlink) ==
  /\ Request(r, "answering")
  /\ chat' = IF unlink
             THEN [chat EXCEPT !.flow = "none", !.warned = FALSE, !.waiting = Older(@),
                               !.client = Nobody, !.linked = "none", !.code = NoCode]
             ELSE [chat EXCEPT !.flow = "none", !.warned = FALSE, !.waiting = Older(@), !.linked = Older(@)]
  /\ silence' = Never /\ quiet' = Never /\ given' = {} /\ kept' = FALSE /\ goodbyes' = 0
  /\ requests' = [requests EXCEPT ![r] = NoRequest]
  /\ Stir
  /\ UNCHANGED <<drifted, aside>>

-----------------------------------------------------------------------------
(* claimPendingWarnings *)

\* The chats idle for the timeout and not warned yet.
PollReads ==
  /\ poll.step = "idle" /\ ~chat.warned /\ silence \in Timeout..Long
  /\ poll' = [step |-> "claiming", stirred |-> FALSE, waited |-> chat.waiting = "now",
              fits |-> ~chat.paused /\ silence <= Timeout + Window /\ chat.last = "bot"]
  /\ UNCHANGED <<chat, requests, silence, sessionHistory, aside>>

\* Slip: only those the goodbye goes to are marked as warned.
ClaimFitting ==
  /\ poll.step = "claiming"
  /\ chat' = [chat EXCEPT !.warned = @ \/ ~poll.fits]
  /\ poll' = [poll EXCEPT !.step = "choosing"]
  /\ UNCHANGED <<requests, silence, sessionHistory, aside>>

PollClaims ==
  /\ poll.step = "claiming"
  /\ chat' = [chat EXCEPT !.warned = TRUE]
  /\ poll' = [poll EXCEPT !.step = "choosing"]
  /\ UNCHANGED <<requests, silence, sessionHistory, aside>>

\* waitingForOffice: a request of the session the poll read, still open.
WaitingForOffice == chat.waiting = "now" \/ (chat.waiting = "before" /\ poll.waited)

\* The goodbye is kept with the messages (keepActivity) and is no activity.
PollGoodbye ==
  /\ poll.step = "choosing" /\ poll.fits /\ ~WaitingForOffice
  /\ chat' = [chat EXCEPT !.last = "bot"]
  /\ goodbyes' = (IF poll.stirred THEN goodbyes ELSE goodbyes + 1)
  /\ poll' = NoPoll
  /\ UNCHANGED <<requests, silence, quiet, given, kept, drifted, aside>>

PollIsSilent ==
  /\ poll.step = "choosing" /\ (~poll.fits \/ WaitingForOffice)
  /\ poll' = NoPoll
  /\ UNCHANGED <<chat, requests, silence, sessionHistory, aside>>

-----------------------------------------------------------------------------
(* The office *)

Aside == aside < MaxAside /\ aside' = aside + 1

\* recordInChat and the inbox's own message: activity that starts no session. A
\* notice links the client it is for to a chat without one.
OfficeWrites(notice) ==
  /\ Aside
  /\ silence' = 0 /\ goodbyes' = 0
  /\ chat' = [chat EXCEPT !.last = "office",
       !.client = IF notice /\ @ = Nobody THEN Owner ELSE @,
       !.linked = IF notice /\ chat.client = Nobody THEN "now" ELSE @]
  /\ Stir
  /\ UNCHANGED <<requests, quiet, given, kept, drifted>>

\* recordAgentEcho: written from the phone, which pauses the bot.
Echo ==
  /\ Aside
  /\ silence' = 0 /\ goodbyes' = 0
  /\ chat' = [chat EXCEPT !.last = "office", !.warned = FALSE, !.paused = TRUE]
  /\ Stir
  /\ UNCHANGED <<requests, quiet, given, kept, drifted>>

\* A takeover or a release of the inbox, and a request resolved (Handover).
OfficeActs ==
  /\ Aside
  /\ \/ chat' = [chat EXCEPT !.paused = ~@]
     \/ chat.waiting # "none" /\ chat' = [chat EXCEPT !.waiting = "none"]
  /\ Stir
  /\ UNCHANGED <<requests, silence, sessionHistory>>

\* persistHistory: the chats of an imported history move to its number.
ImportHistory(l) ==
  /\ Aside /\ chat.number # l
  /\ chat' = [chat EXCEPT !.number = l]
  /\ drifted' = TRUE
  /\ UNCHANGED <<requests, poll, silence, quiet, given, kept, goodbyes>>

\* A step without messages.
SilenceGrows ==
  /\ poll.step = "idle" /\ \A r \in Requests : Request(r, "idle")
  /\ silence' = (IF silence < Long THEN silence + 1 ELSE silence)
  /\ quiet' = (IF quiet < Long THEN quiet + 1 ELSE quiet)
  /\ silence' # silence \/ quiet' # quiet
  /\ UNCHANGED <<chat, requests, poll, given, kept, drifted, goodbyes, aside>>

-----------------------------------------------------------------------------

SessionNext ==
  \/ \E r \in Requests :
       \/ \E l \in Lines : Find(r, l)
       \/ Enter(r) \/ SavePerson(r) \/ Answer(r)
       \/ SaveFlowState(r) \/ LinkClient(r) \/ AskOffice(r)
       \/ \E c \in Clients : Identify(r, c)
       \/ \E unlink \in BOOLEAN : ResetSession(r, unlink)
  \/ PollReads \/ PollClaims \/ PollGoodbye \/ PollIsSilent
  \/ \E notice \in BOOLEAN : OfficeWrites(notice)
  \/ Echo \/ OfficeActs
  \/ \E l \in Lines : ImportHistory(l)
  \/ SilenceGrows

SessionSpec == SessionInit /\ [][SessionNext]_sessionVars

-----------------------------------------------------------------------------
(* Properties *)

Answering == \E r \in Requests : Request(r, "answering")

\* While the bot answers, the data it can get is of the client whose phone this
\* is or of one identified since the person came back, and no step of an earlier
\* visit is resumed, but for a session the office's own message kept alive.
VisitsApart ==
  Answering /\ ~kept =>
    /\ \A c \in Clients : Identified(c) => c = Owner \/ c \in given
    /\ chat.flow # "before"

\* A link counts only for the visit in which it was made (comment of
\* isClientLinkActive). A notice or an answer of the office that arrives days
\* later is activity, and the reply to it still belongs to the old session.
LinkOfThisVisit ==
  Answering => \A c \in Clients : Identified(c) => c = Owner \/ c \in given

\* The goodbye goes once to a silence of the timeout the bot left behind, not to
\* a chat of the office or waiting for it, unless somebody wrote or acted while it was polled.
GoodbyeFits ==
  [][goodbyes' > goodbyes =>
       /\ goodbyes = 0 /\ silence \in Timeout..(Timeout + Window)
       /\ chat.last = "bot" /\ ~chat.paused /\ chat.waiting # "now"]_sessionVars

\* A chat's code is one of the codes its number serves, but for a history
\* import and for a link and a change of number that did not see one another.
CodeFits == ForeignCode(chat.number, chat.code) => drifted

\* "finalizar" keeps the identified client for the next visit (JSDoc of resetSession).
GoodbyeKeepsClient ==
  [][\A r \in Requests : ResetSession(r, FALSE) =>
       \A c \in Clients : Identified(c) => Identified(c)']_sessionVars
=============================================================================
