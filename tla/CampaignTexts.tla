---------------------------- MODULE CampaignTexts ----------------------------
(* The text of a sales campaign and the copies of its template that Meta        *)
(* reviews, one in each WhatsApp account (sales-campaigns/sales-campaigns       *)
(* .service.ts, campaign-templates.service.ts, template-sync/template-sync      *)
(* .service.ts). The row keeps the text, its version and what Meta said of the  *)
(* template in each account. The panel saves a text or opens the campaign, the  *)
(* half-hourly pass asks for reviews and the hourly one sends the text to the   *)
(* accounts that miss it; each reads the row, talks to Meta and writes.         *)
EXTENDS Naturals

CONSTANTS Writers,     \* requests and passes in course at once
          LastAccount, \* accounts, in the order they are asked
          Texts, FirstText,
          LastVersion,
          Day,         \* DAY_MS, in half hours
          Verdicts,    \* reviews Meta ends with: APPROVED, REJECTED
          MaxRare      \* calls that fail, writers cut, templates or accounts lost,
                       \* and times the panel switches or opens the campaign

AccountIds == 1..LastAccount
Versions == 1..LastVersion

ASSUME TextParameters ==
  /\ FirstText \in Texts
  /\ {LastAccount, LastVersion} \subseteq Nat \ {0}
  /\ Verdicts \subseteq {"APPROVED", "REJECTED"}
  /\ {Day, MaxRare} \subseteq Nat

VARIABLES
  campaign,   \* SalesCampaign: version, text and templates by account
  connected,  \* accounts with an active number
  meta,       \* templates Meta has: text and review, by account and version
  writer,
  passDue,    \* the half-hourly pass is still to come
  crossed,    \* history: two saves overlapped, or a text was saved between a
              \* writer's reading and its writing
  cutAfter,   \* history: versions sent to Meta by a save that did not end
  rare

textHistory == <<crossed, cutAfter, rare>>
textVars == <<campaign, connected, meta, writer, passDue, textHistory>>

Reviews == {"PENDING", "APPROVED", "REJECTED"}
\* age: half hours since Meta was asked about an error (checkedAt).
Template == [version : 0..LastVersion, status : Reviews \cup {"ERROR", "NOT_SUBMITTED"}, age : 0..(Day + 1)]
NoTemplate == [version |-> 0, status |-> "NOT_SUBMITTED", age |-> 0]
NoTemplates == [a \in AccountIds |-> NoTemplate]
NotThere == [text |-> FirstText, review |-> "none"]
Ops == {"idle", "save", "switch", "refresh", "open", "topUp", "sync"}

TextsTypeOK ==
  /\ campaign \in [version : 0..LastVersion, text : Texts, templates : [AccountIds -> Template]]
  /\ connected \subseteq AccountIds
  /\ meta \in [AccountIds \X Versions -> [text : Texts, review : Reviews \cup {"none"}]]
  /\ writer \in [Writers -> [op : Ops, step : {"asking", "merging"}, version : 0..LastVersion,
                             text : Texts, todo : SUBSET AccountIds, missing : SUBSET AccountIds,
                             got : [AccountIds -> Template]]]
  /\ passDue \in BOOLEAN /\ crossed \in BOOLEAN /\ cutAfter \subseteq Versions
  /\ rare \in 0..MaxRare

IdleWriter == [op |-> "idle", step |-> "asking", version |-> 0, text |-> FirstText,
               todo |-> {}, missing |-> {}, got |-> NoTemplates]

TextsInit ==
  /\ campaign = [version |-> 0, text |-> FirstText, templates |-> NoTemplates]
  /\ connected = {}
  /\ meta = [av \in AccountIds \X Versions |-> NotThere]
  /\ writer = [w \in Writers |-> IdleWriter]
  /\ passDue = FALSE /\ crossed = FALSE /\ cutAfter = {} /\ rare = 0

Rare == rare < MaxRare /\ rare' = rare + 1

-----------------------------------------------------------------------------
(* What each writer reads first: the text, the templates and the accounts     *)
(* connected then, and so those it will ask Meta about.                       *)

Waiting == {a \in AccountIds : campaign.templates[a].status \in {"PENDING", "ERROR"}}

\* Slip: only the errors of a day ago.
MissingErrors == {a \in AccountIds : campaign.templates[a].age > Day}

\* submitToNewAccounts: never there, or an error Meta was last asked about a day ago.
Missing ==
  {a \in AccountIds : campaign.templates[a].version = 0 \/ campaign.templates[a].age > Day}

Begin(w, op, todo, missing, got) ==
  writer' = [writer EXCEPT ![w] =
    [IdleWriter EXCEPT !.op = op, !.version = campaign.version, !.text = campaign.text,
                       !.todo = todo, !.missing = missing, !.got = got]]

Saving == \E v \in Writers : writer[v].op = "save"

\* Slip: a new text goes under the version the campaign has.
SaveSameVersion(w, t) ==
  /\ writer[w].op = "idle" /\ (t # campaign.text \/ campaign.version = 0)
  /\ writer' = [writer EXCEPT ![w] = [IdleWriter EXCEPT
       !.op = "save", !.version = IF campaign.version = 0 THEN 1 ELSE campaign.version, !.text = t, !.todo = connected]]
  /\ crossed' = (crossed \/ Saving)
  /\ UNCHANGED <<campaign, connected, meta, passDue, cutAfter, rare>>

\* update: a new text, or the first time the campaign is turned on, goes to Meta
\* under the next version.
SaveText(w, t) ==
  /\ writer[w].op = "idle" /\ (t # campaign.text \/ campaign.version = 0)
  /\ campaign.version < LastVersion
  /\ writer' = [writer EXCEPT ![w] = [IdleWriter EXCEPT
       !.op = "save", !.version = campaign.version + 1, !.text = t, !.todo = connected]]
  /\ crossed' = (crossed \/ Saving)
  /\ UNCHANGED <<campaign, connected, meta, passDue, cutAfter, rare>>

\* update: turned on or off, or another discount; the templates stay as read.
Switch(w) ==
  /\ writer[w].op = "idle" /\ campaign.version > 0 /\ Rare
  /\ Begin(w, "switch", {}, {}, campaign.templates)
  /\ UNCHANGED <<campaign, connected, meta, passDue, crossed, cutAfter>>

\* refreshTemplates: the reviews first, then the accounts without the text.
Open(w) ==
  /\ writer[w].op = "idle" /\ campaign.version > 0 /\ Rare
  /\ Begin(w, "open", Waiting \cap connected, Missing, campaign.templates)
  /\ UNCHANGED <<campaign, connected, meta, passDue, crossed, cutAfter>>

\* refreshPending, every half hour.
RefreshPending(w) ==
  /\ passDue /\ writer[w].op = "idle"
  /\ passDue' = FALSE
  /\ IF Waiting # {} THEN Begin(w, "refresh", Waiting \cap connected, {}, campaign.templates) ELSE UNCHANGED writer
  /\ UNCHANGED <<campaign, connected, meta, textHistory>>

\* TemplateSyncService, every hour or once a number is connected, one pass at a time.
SyncNewAccounts(w) ==
  /\ writer[w].op = "idle" /\ campaign.version > 0 /\ Missing \cap connected # {}
  /\ \A v \in Writers : writer[v].op # "sync"
  /\ Begin(w, "sync", Missing \cap connected, {}, NoTemplates)
  /\ UNCHANGED <<campaign, connected, meta, passDue, textHistory>>

-----------------------------------------------------------------------------
(* Meta, account by account. *)

Submits == {"save", "sync", "topUp"}
Asked(w) == CHOOSE a \in writer[w].todo : \A b \in writer[w].todo : a <= b
Asking(w) == writer[w].step = "asking" /\ writer[w].todo # {}
Answer(w, version, status) ==
  writer' = [writer EXCEPT ![w].todo = @ \ {Asked(w)},
                           ![w].got[Asked(w)] = [version |-> version, status |-> status, age |-> 0]]

\* create: a new name is taken in review; or it is refused, or the answer is lost.
CreateTemplate(w) ==
  /\ Asking(w) /\ writer[w].op \in Submits
  /\ LET key == <<Asked(w), writer[w].version>>
         taken == [meta EXCEPT ![key] = [text |-> writer[w].text, review |-> "PENDING"]] IN
       /\ meta[key].review = "none"
       /\ \/ meta' = taken /\ Answer(w, writer[w].version, "PENDING") /\ UNCHANGED rare
          \/ meta' \in {taken, meta} /\ Answer(w, writer[w].version, "ERROR") /\ Rare
  /\ UNCHANGED <<campaign, connected, passDue, crossed, cutAfter>>

\* create: the name already exists, so the review Meta has of it is read, whatever its text.
AlreadyExists(w) ==
  /\ Asking(w) /\ writer[w].op \in Submits
  /\ LET review == meta[<<Asked(w), writer[w].version>>].review IN
       /\ review # "none"
       /\ \/ Answer(w, writer[w].version, review) /\ UNCHANGED rare
          \/ (\E s \in {"PENDING", "ERROR"} : Answer(w, writer[w].version, s)) /\ Rare
  /\ UNCHANGED <<campaign, connected, meta, passDue, crossed, cutAfter>>

\* Slip: that Meta has none is no error.
LookupAsIs(w) ==
  /\ Asking(w) /\ writer[w].op \notin Submits
  /\ LET current == writer[w].got[Asked(w)]
         review == meta[<<Asked(w), current.version>>].review IN
       \/ Answer(w, current.version, review) /\ UNCHANGED rare
       \/ Answer(w, current.version, current.status) /\ Rare
  /\ UNCHANGED <<campaign, connected, meta, passDue, crossed, cutAfter>>

\* lookup: what Meta has under that name, or what was known if it does not answer.
Lookup(w) ==
  /\ Asking(w) /\ writer[w].op \notin Submits
  /\ LET current == writer[w].got[Asked(w)]
         review == meta[<<Asked(w), current.version>>].review IN
       \/ Answer(w, current.version, IF review = "none" THEN "ERROR" ELSE review) /\ UNCHANGED rare
       \/ Answer(w, current.version, current.status) /\ Rare
  /\ UNCHANGED <<campaign, connected, meta, passDue, crossed, cutAfter>>

-----------------------------------------------------------------------------
(* What each writer writes. *)

AllAsked(w) == writer[w].op # "idle" /\ writer[w].step = "asking" /\ writer[w].todo = {}

\* The version the writer read is no longer the campaign's.
Overtaken(w) ==
  campaign.version # IF writer[w].op = "save" THEN writer[w].version - 1 ELSE writer[w].version

Store(w, text, templates) ==
  /\ campaign' = [version |-> text.version, text |-> text.text, templates |-> templates]
  /\ crossed' = (crossed \/ Overtaken(w))
  /\ UNCHANGED <<connected, meta, passDue, cutAfter, rare>>

\* The upsert of update.
StoreText(w) ==
  /\ AllAsked(w) /\ writer[w].op \in {"save", "switch"}
  /\ Store(w, writer[w], writer[w].got)
  /\ writer' = [writer EXCEPT ![w] = IdleWriter]

\* refreshRow writes all the templates; an opened campaign goes on with the row it read.
StoreReviews(w) ==
  /\ AllAsked(w) /\ writer[w].op \in {"refresh", "open"}
  /\ Store(w, campaign, writer[w].got)
  /\ writer' = [writer EXCEPT ![w] =
       IF @.op = "refresh" \/ @.missing \cap connected = {} THEN IdleWriter
       ELSE [IdleWriter EXCEPT !.op = "topUp", !.version = writer[w].version, !.text = writer[w].text,
                               !.todo = writer[w].missing \cap connected]]

\* submitToNewAccounts reads the templates again...
ReadAgain(w) ==
  /\ AllAsked(w) /\ writer[w].op \in {"sync", "topUp"}
  /\ writer' = [writer EXCEPT ![w].step = "merging",
       ![w].got = [a \in AccountIds |-> IF @[a].version = 0 THEN campaign.templates[a] ELSE @[a]]]
  /\ UNCHANGED <<campaign, connected, meta, passDue, textHistory>>

\* ...and adds its own to them.
AddTemplates(w) ==
  /\ writer[w].step = "merging"
  /\ Store(w, campaign, writer[w].got)
  /\ writer' = [writer EXCEPT ![w] = IdleWriter]

\* A query throws, or the process stops.
WriterCut(w) ==
  /\ writer[w].op # "idle" /\ Rare
  /\ cutAfter' = IF writer[w].op = "save" THEN cutAfter \cup {writer[w].version} ELSE cutAfter
  /\ writer' = [writer EXCEPT ![w] = IdleWriter]
  /\ UNCHANGED <<campaign, connected, meta, passDue, crossed>>

-----------------------------------------------------------------------------
(* Meta's reviews and deletions, the accounts, and the half hours. *)

MetaReviews(a, v, review) ==
  /\ meta[<<a, v>>].review \in {"PENDING", "APPROVED"} /\ review \in Verdicts \ {meta[<<a, v>>].review}
  /\ meta' = [meta EXCEPT ![<<a, v>>].review = review]
  /\ UNCHANGED <<campaign, connected, writer, passDue, textHistory>>

MetaLoses(a, v) ==
  /\ meta[<<a, v>>].review # "none" /\ Rare
  /\ meta' = [meta EXCEPT ![<<a, v>>] = NotThere]
  /\ UNCHANGED <<campaign, connected, writer, passDue, crossed, cutAfter>>

Connect(a) ==
  /\ connected' = connected \cup {a}
  /\ UNCHANGED <<campaign, meta, writer, passDue, textHistory>>

Disconnect(a) ==
  /\ a \in connected /\ Rare
  /\ connected' = connected \ {a}
  /\ UNCHANGED <<campaign, meta, writer, passDue, crossed, cutAfter>>

Older(templates) ==
  [a \in AccountIds |-> IF templates[a].status = "ERROR" /\ templates[a].age <= Day
                     THEN [templates[a] EXCEPT !.age = @ + 1] ELSE templates[a]]

\* The pass of the half hour before has been run.
HalfHour ==
  /\ ~passDue /\ passDue' = TRUE
  /\ campaign' = [campaign EXCEPT !.templates = Older(@)]
  /\ writer' = [w \in Writers |-> [writer[w] EXCEPT !.got = Older(@)]]
  /\ UNCHANGED <<connected, meta, textHistory>>

WriterGoesOn(w) ==
  CreateTemplate(w) \/ AlreadyExists(w) \/ Lookup(w)
  \/ StoreText(w) \/ StoreReviews(w) \/ ReadAgain(w) \/ AddTemplates(w)

TextsNext ==
  \/ \E w \in Writers :
       \/ \E t \in Texts : SaveText(w, t)
       \/ Switch(w) \/ Open(w) \/ RefreshPending(w) \/ SyncNewAccounts(w)
       \/ WriterGoesOn(w) \/ WriterCut(w)
  \/ \E a \in AccountIds, v \in Versions :
       (\E r \in Reviews : MetaReviews(a, v, r)) \/ MetaLoses(a, v)
  \/ (\E a \in AccountIds : Connect(a) \/ Disconnect(a)) \/ HalfHour

TextsSpec == TextsInit /\ [][TextsNext]_textVars

\* Requests go on and the passes come.
TextsFairness ==
  /\ \A w \in Writers : WF_textVars(WriterGoesOn(w))
  /\ SF_textVars(\E w \in Writers : RefreshPending(w))
  /\ SF_textVars(\E w \in Writers : SyncNewAccounts(w))
  /\ WF_textVars(HalfHour)

TextsLive == TextsSpec /\ TextsFairness

-----------------------------------------------------------------------------
(* Properties *)

\* "A new text is a new template, which keeps the review of every version
\* apart": where the row says a template is approved, Meta has it, if it still
\* does, with the campaign's text, so what is sent is what the chat records; unless two saves
\* overlapped, a text was saved between another writer's reading and writing, or
\* the save that sent a version to Meta was cut before it stored it.
TextsFit ==
  ~crossed => \A a \in AccountIds :
    LET t == campaign.templates[a] IN
      t.status = "APPROVED" /\ t.version \notin cutAfter =>
        /\ t.version = campaign.version
        /\ meta[<<a, t.version>>].review = "none" \/ meta[<<a, t.version>>].text = campaign.text

\* What the code does not keep: a review read from an older row brings its
\* templates back beside the new text, and the version a cut save used is used
\* again for another text, whose template Meta has with the first one.
ApprovedIsText ==
  \A a \in AccountIds : LET t == campaign.templates[a] IN
    t.status = "APPROVED" /\ meta[<<a, t.version>>].review # "none" => meta[<<a, t.version>>].text = campaign.text

\* "A number connected after the last text gets the current one without anybody
\* touching the campaign."
AccountsServed ==
  \A a \in AccountIds : campaign.version > 0 /\ a \in connected ~>
    campaign.templates[a].version > 0 \/ a \notin connected

\* What the code does not keep: a template that did not reach Meta is asked about
\* every half hour, which makes it too recent to be sent again.
ErrorIsRetried ==
  \A a \in AccountIds : campaign.templates[a].status = "ERROR" ~>
    \/ campaign.templates[a].status # "ERROR"
    \/ \E w \in Writers : writer[w].op \in Submits /\ a \in writer[w].todo
=============================================================================
