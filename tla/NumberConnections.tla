-------------------------- MODULE NumberConnections --------------------------
(* The WhatsApp lines connected to the panel (whatsapp-onboarding, phone-numbers): *)
(* an Embedded Signup from Meta's popup to the saved number, the checks that     *)
(* notice a line that left Cloud API, and the chats that stay with their line.   *)
EXTENDS Naturals, FiniteSets

CONSTANTS Organizations, Accounts, Phones, LastId, LastRow, Checkers, Unknown, MaxEvents

ASSUME ConnectionParameters ==
  /\ Unknown \notin Phones /\ LastId \in Nat /\ LastRow \in Nat /\ MaxEvents \in Nat
  /\ Accounts # {} /\ Organizations # {} /\ Phones # {} /\ Checkers # {}

Ids == 1..LastId
RowIds == 1..LastRow

VARIABLES
  cloud,       \* external: where Meta has each phone
  lastId,     \* the last phone_number_id Meta issued
  accounts,   \* WabaAccount: "none", "connected" or "disconnected"
  numbers,    \* PhoneNumber
  created,    \* rows used
  silentChat, \* the number under which a person of each phone wrote, who does not write again
  signup,     \* the onboard request in course
  checks,     \* checkWabas, of the cron and of the webhook
  removed,    \* account_update webhooks on their way: "none", "due" or, of a line the panel does not serve
              \* or serves otherwise by now, "late"
  split,      \* history: phones connected while their row could not be known as theirs
  events      \* drops and changes of the panel

connectionVars == <<cloud, lastId, accounts, numbers, created, silentChat, signup, checks, removed, split, events>>

AnAccount == CHOOSE w \in Accounts : TRUE
AnOrganization == CHOOSE o \in Organizations : TRUE
APhone == CHOOSE p \in Phones : TRUE

Number == [id : 0..LastId, org : Organizations, account : Accounts, phone : Phones \cup {Unknown},
           live : BOOLEAN, active : BOOLEAN]
NoNumber == [id |-> 0, org |-> AnOrganization, account |-> AnAccount, phone |-> Unknown,
             live |-> FALSE, active |-> FALSE]
NoSignup == [step |-> "idle", org |-> AnOrganization, phone |-> APhone, shown |-> Unknown,
             app |-> FALSE, row |-> 0]
NoCheck == [step |-> "idle", todo |-> {}, ids |-> [w \in Accounts |-> {}], gone |-> {}, stale |-> {}]

ConnectionsTypeOK ==
  /\ cloud \in [Phones -> [account : Accounts, id : 0..LastId, on : BOOLEAN]]
  /\ lastId \in 0..LastId /\ created \in 0..LastRow /\ events \in 0..MaxEvents
  /\ accounts \in [Accounts -> {"none", "connected", "disconnected"}]
  /\ numbers \in [RowIds -> Number]
  /\ silentChat \in [Phones -> 0..LastId] /\ split \subseteq Phones
  /\ signup \in [step : {"idle", "finding", "subscribing", "saving"}, org : Organizations, phone : Phones,
                 shown : Phones \cup {Unknown}, app : BOOLEAN, row : 0..LastRow]
  /\ checks \in [Checkers -> [step : {"idle", "asking", "marking"}, todo : SUBSET Accounts,
                 ids : [Accounts -> SUBSET (0..LastId)], gone : SUBSET Accounts, stale : SUBSET Accounts]]
  /\ removed \in [Accounts -> {"none", "due", "late"}]

ConnectionsInit ==
  /\ cloud = [p \in Phones |-> [account |-> AnAccount, id |-> 0, on |-> FALSE]]
  /\ lastId = 0 /\ created = 0 /\ events = 0
  /\ accounts = [w \in Accounts |-> "none"] /\ removed = [w \in Accounts |-> "none"]
  /\ numbers = [n \in RowIds |-> NoNumber]
  /\ silentChat = [p \in Phones |-> 0] /\ split = {}
  /\ signup = NoSignup /\ checks = [c \in Checkers |-> NoCheck]

Registrations == 1..created
Served(n) == numbers[n].live /\ numbers[n].active
OnCloud(w, id) == \E p \in Phones : cloud[p] = [account |-> w, id |-> id, on |-> TRUE]

-----------------------------------------------------------------------------
(* onboard *)

\* What a check that began before now has read of these accounts is old, and so
\* is a webhook on its way.
Outdate(ws) ==
  /\ checks' = [c \in Checkers |->
       IF checks[c].step = "idle" THEN checks[c] ELSE [checks[c] EXCEPT !.stale = @ \cup ws]]
  /\ removed' = [w \in Accounts |-> IF w \in ws /\ removed[w] = "due" THEN "late" ELSE removed[w]]

\* Meta's popup connects the phone, with its id or a new one, and the code is
\* exchanged; with the app kept on the phone Graph confirms it (waitForCoexistenceConfirmation).
PopupEnds(o, p, w, app) ==
  /\ signup.step = "idle"
  /\ \/ cloud[p].account = w /\ cloud[p].id # 0 /\ UNCHANGED lastId
        /\ cloud' = [cloud EXCEPT ![p].on = TRUE]
     \/ ~cloud[p].on /\ lastId < LastId /\ lastId' = lastId + 1
        /\ cloud' = [cloud EXCEPT ![p] = [account |-> w, id |-> lastId + 1, on |-> TRUE]]
  /\ \E shown \in {p, Unknown} :
       /\ app => shown = p
       /\ signup' = [NoSignup EXCEPT !.step = "finding", !.org = o, !.phone = p, !.shown = shown, !.app = app]
  /\ Outdate({w})
  /\ UNCHANGED <<accounts, numbers, created, silentChat, split, events>>

\* displayNumberMatches: an unknown side only within the account.
Matches(n, shown, allowUnknown) ==
  IF shown = Unknown \/ numbers[n].phone = Unknown THEN allowUnknown ELSE numbers[n].phone = shown

Latest(rows) == IF rows = {} THEN 0 ELSE CHOOSE n \in rows : \A m \in rows : m <= n

Replaceable(o) == {n \in Registrations : numbers[n].org = o
                     /\ (~numbers[n].live \/ accounts[numbers[n].account] = "disconnected")}

SameId(id) == {n \in Registrations : numbers[n].id = id}

\* Of the rows that are no longer live, one of the account, then one of the display number.
ToReconnect(o, w, id, app, shown) ==
  IF SameId(id) # {} THEN Latest(SameId(id))
  ELSE IF ~app THEN 0
  ELSE LET within == {n \in Replaceable(o) : numbers[n].account = w /\ Matches(n, shown, TRUE)} IN
       IF within # {} THEN Latest(within) ELSE Latest({n \in Replaceable(o) : Matches(n, shown, FALSE)})

\* findNumberToReconnect; a number of another organization is a conflict. The
\* history keeps the phones of which not one row alone could be told to be theirs.
FindNumber ==
  /\ signup.step = "finding"
  /\ LET p == signup.phone
         w == cloud[p].account
         n == ToReconnect(signup.org, w, cloud[p].id, signup.app, signup.shown)
         conflict == n # 0 /\ numbers[n].live /\ numbers[n].org # signup.org
         mine == {m \in Replaceable(signup.org) :
                    \/ numbers[m].phone = p
                    \/ numbers[m].phone = Unknown /\ numbers[m].account = w}
         found == signup.app /\ \E m \in mine : mine = {m} /\ numbers[m].id = silentChat[p]
     IN /\ signup' = IF conflict THEN NoSignup ELSE [signup EXCEPT !.step = "subscribing", !.row = n]
        /\ split' = IF silentChat[p] \in {0, cloud[p].id} \/ found THEN split ELSE split \cup {p}
  /\ UNCHANGED <<cloud, lastId, accounts, numbers, created, silentChat, checks, removed, events>>

\* subscribed_apps, then the account with its new token.
SaveAccount ==
  /\ signup.step = "subscribing"
  /\ LET w == cloud[signup.phone].account IN
       /\ accounts' = [accounts EXCEPT ![w] = "connected"]
       /\ Outdate({w})
  /\ signup' = [signup EXCEPT !.step = "saving"]
  /\ UNCHANGED <<cloud, lastId, numbers, created, silentChat, split, events>>

\* Slip: the chats stay with the id they were under.
LeaveChats(old, new) == silentChat

MoveChats(old, new) == [p \in Phones |-> IF silentChat[p] = old /\ old # 0 THEN new ELSE silentChat[p]]

\* reconnectNumber: the row on the new connection, and its chats with it.
ReconnectNumber ==
  /\ signup.step = "saving" /\ signup.row # 0
  /\ LET p == signup.phone
         row == numbers[signup.row] IN
       /\ numbers' = [numbers EXCEPT ![signup.row] =
            [id |-> cloud[p].id, org |-> signup.org, account |-> cloud[p].account,
             phone |-> IF signup.shown = Unknown THEN row.phone ELSE signup.shown,
             live |-> TRUE, active |-> TRUE]]
       /\ silentChat' = IF row.id = cloud[p].id THEN silentChat ELSE MoveChats(row.id, cloud[p].id)
       /\ Outdate({row.account, cloud[p].account})
  /\ signup' = NoSignup
  /\ UNCHANGED <<cloud, lastId, accounts, created, split, events>>

CreateNumber ==
  /\ signup.step = "saving" /\ signup.row = 0 /\ created < LastRow
  /\ LET p == signup.phone IN
       /\ numbers' = [numbers EXCEPT ![created + 1] =
            [id |-> cloud[p].id, org |-> signup.org, account |-> cloud[p].account, phone |-> signup.shown,
             live |-> TRUE, active |-> TRUE]]
       /\ Outdate({cloud[p].account})
  /\ created' = created + 1
  /\ signup' = NoSignup
  /\ UNCHANGED <<cloud, lastId, accounts, silentChat, split, events>>

\* Meta refuses the subscription, or the process ends on the way.
SignupFails ==
  /\ events < MaxEvents /\ events' = events + 1
  /\ signup.step # "idle"
  /\ signup' = NoSignup
  /\ UNCHANGED <<cloud, lastId, accounts, numbers, created, silentChat, checks, removed, split>>

-----------------------------------------------------------------------------
(* The connection monitor *)

\* Slip: numbers whose display number was never sent are left out.
KnownOnly == {w \in Accounts : accounts[w] # "none"
                /\ \E n \in Registrations : Served(n) /\ numbers[n].account = w /\ numbers[n].phone # Unknown}

\* findMonitored: accounts with a number in service.
Monitored == {w \in Accounts : accounts[w] # "none" /\ \E n \in Registrations : Served(n) /\ numbers[n].account = w}
IdsOf(w) == {numbers[n].id : n \in {m \in Registrations : Served(m) /\ numbers[m].account = w}}

\* checkAllConnected, one at a time, and an event of account_update that is not
\* trusted, of this account or, when it is of none, of all.
CheckWabas(c, targets) ==
  /\ checks[c].step = "idle" /\ targets # {}
  /\ checks' = [checks EXCEPT ![c] =
       [NoCheck EXCEPT !.step = "asking", !.todo = targets, !.ids = [w \in Accounts |-> IdsOf(w)]]]
  /\ UNCHANGED <<cloud, lastId, accounts, numbers, created, silentChat, signup, removed, split, events>>

StillConnected == {w \in Monitored : accounts[w] = "connected"}
CheckSome(c) == \E targets \in {StillConnected} \cup {{w} : w \in Monitored} : CheckWabas(c, targets)

Asking(c, w) == checks[c].step = "asking" /\ w \in checks[c].todo

\* Every number answers as connected, or Graph does not answer.
ProbeIsFine(c, w) ==
  /\ Asking(c, w)
  /\ checks' = [checks EXCEPT ![c].todo = @ \ {w},
                              ![c].step = IF checks[c].todo = {w} THEN "idle" ELSE "asking"]
  /\ UNCHANGED <<cloud, lastId, accounts, numbers, created, silentChat, signup, removed, split, events>>

\* Slip: an answer that does not come counts as a drop.
AnyIsGone(c, w) == checks[c].ids[w] # {}

\* probe: the number left Cloud API, or our token no longer reaches it.
SomeGone(c, w) == \E id \in checks[c].ids[w] : ~OnCloud(w, id)

ProbeFindsDrop(c, w) ==
  /\ Asking(c, w) /\ SomeGone(c, w)
  /\ checks' = [checks EXCEPT ![c].step = "marking", ![c].gone = {w}]
  /\ UNCHANGED <<cloud, lastId, accounts, numbers, created, silentChat, signup, removed, split, events>>

\* markDisconnected: once, and only an account that is still connected.
MarkAccount(w) ==
  accounts' = [accounts EXCEPT ![w] = IF @ = "connected" THEN "disconnected" ELSE @]

MarkDisconnected(c) ==
  /\ checks[c].step = "marking"
  /\ \E w \in checks[c].gone :
       /\ MarkAccount(w)
       /\ checks' = [checks EXCEPT ![c].todo = @ \ {w}, ![c].gone = {},
                       ![c].step = IF checks[c].todo = {w} THEN "idle" ELSE "asking"]
  /\ UNCHANGED <<cloud, lastId, numbers, created, silentChat, signup, removed, split, events>>

\* PARTNER_REMOVED of a known account is trusted as it is.
PartnerRemoved(w) ==
  /\ removed[w] # "none"
  /\ IF w \in Monitored THEN MarkAccount(w) ELSE UNCHANGED accounts
  /\ removed' = [removed EXCEPT ![w] = "none"]
  /\ UNCHANGED <<cloud, lastId, numbers, created, silentChat, signup, checks, split, events>>

-----------------------------------------------------------------------------
(* Meta and the panel *)

\* The phone leaves Cloud API; the webhook is sent, late or never. It names the
\* account, whether the panel serves that phone or not.
Drop(p, told) ==
  /\ events < MaxEvents /\ events' = events + 1
  /\ cloud[p].on
  /\ cloud' = [cloud EXCEPT ![p].on = FALSE]
  /\ LET w == cloud[p].account
         ours == cloud[p].id \in IdsOf(w) IN
       removed' = IF told THEN [removed EXCEPT ![w] = IF ours THEN "due" ELSE IF @ = "none" THEN "late" ELSE @]
                  ELSE removed
  /\ UNCHANGED <<lastId, accounts, numbers, created, silentChat, signup, checks, split>>

\* remove, and update's isActive.
ChangeNumber(n) ==
  /\ events < MaxEvents /\ events' = events + 1
  /\ numbers[n].live
  /\ \/ numbers' = [numbers EXCEPT ![n].live = FALSE, ![n].active = FALSE]
     \/ numbers' = [numbers EXCEPT ![n].active = ~@]
  /\ Outdate({numbers[n].account})
  /\ UNCHANGED <<cloud, lastId, accounts, created, silentChat, signup, split>>

\* A person writes to the line once; the bot resolves numbers in service.
PersonWrites(n) ==
  /\ Served(n) /\ numbers[n].phone # Unknown
  /\ LET p == numbers[n].phone IN
       /\ cloud[p].on /\ cloud[p].id = numbers[n].id /\ silentChat[p] = 0
       /\ silentChat' = [silentChat EXCEPT ![p] = numbers[n].id]
  /\ UNCHANGED <<cloud, lastId, accounts, numbers, created, signup, checks, removed, split, events>>

-----------------------------------------------------------------------------

ConnectionsNext ==
  \/ \E o \in Organizations, p \in Phones, w \in Accounts, app \in BOOLEAN : PopupEnds(o, p, w, app)
  \/ FindNumber \/ SaveAccount \/ ReconnectNumber \/ CreateNumber \/ SignupFails
  \/ \E c \in Checkers :
       \/ CheckSome(c) \/ MarkDisconnected(c)
       \/ \E w \in Accounts : ProbeIsFine(c, w) \/ ProbeFindsDrop(c, w)
  \/ \E w \in Accounts : PartnerRemoved(w)
  \/ \E p \in Phones, told \in BOOLEAN : Drop(p, told)
  \/ \E n \in Registrations : ChangeNumber(n) \/ PersonWrites(n)

ConnectionsSpec == ConnectionsInit /\ [][ConnectionsNext]_connectionVars

-----------------------------------------------------------------------------
(* Properties *)

Gone(w) == \E n \in Registrations : Served(n) /\ numbers[n].account = w /\ ~OnCloud(w, numbers[n].id)

\* An account is marked as disconnected only while one of its numbers is away,
\* but for a check or a webhook that a connection or a change of the panel overtook
\* and for a webhook about a line of the account that the panel does not serve.
AlarmsAreTrue ==
  [][\A w \in Accounts : accounts[w] = "connected" /\ accounts'[w] = "disconnected" =>
       \/ Gone(w)
       \/ \E c \in Checkers : checks[c].gone = {w} /\ w \in checks[c].stale
       \/ removed[w] = "late" /\ removed'[w] = "none"]_connectionVars

\* A number back on its line has the chats of the people who wrote to it, unless
\* its earlier row still looked connected or was not the only one that could be its.
ChatsFollowLine ==
  \A n \in Registrations : Served(n) /\ numbers[n].phone # Unknown =>
    LET p == numbers[n].phone IN
      cloud[p].on /\ cloud[p].id = numbers[n].id => silentChat[p] \in {0, numbers[n].id} \/ p \in split

\* A number that left Cloud API is noticed, webhook or not.
DropIsNoticed ==
  \A w \in Accounts : (accounts[w] = "connected" /\ Gone(w)) ~> (accounts[w] # "connected" \/ ~Gone(w))

\* Marking is one-way: only an onboarding clears it, and then it stays cleared
\* while the line is on (comment of the monitor).
ReconnectedStays ==
  [][\A w \in Accounts : accounts[w] = "connected" /\ accounts'[w] = "disconnected" => Gone(w)]_connectionVars
=============================================================================
