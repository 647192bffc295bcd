---------------------------- MODULE OfficeAccess ----------------------------
(* Who is who in an office's panel and what each may see and change (owner,   *)
(* users, scope, phone-numbers): accounts and the codes granted to them, the  *)
(* numbers billed to a code, and the chats that come by them. A request is    *)
(* several statements, and requests run at once.                              *)
EXTENDS Naturals, FiniteSets

CONSTANTS
  Offices, Home,  \* Home: the office there is at the start, the platform owner's too
  Emails, Boss, Clerk,
  CodeNames, Master, Branch,
  MetaIds, Line,  \* phone_number_ids; Line: the one in use at the start
  Calls,          \* requests that may run at once
  Days, Fields,
  Nothing,        \* null, a field that is not sent, what came through no number
  MaxCalls        \* bound: requests

ASSUME AccessParameters ==
  /\ Home \in Offices /\ {Boss, Clerk} \subseteq Emails /\ Boss # Clerk
  /\ {Master, Branch} \subseteq CodeNames /\ Master # Branch
  /\ Line \in MetaIds /\ MaxCalls \in Nat
  /\ Nothing \notin Emails \cup MetaIds \cup {"SUPERADMIN", "ADMIN"}

Roles == {"SUPERADMIN", "ADMIN"}
CodeIds == Offices \X CodeNames

VARIABLES
  office,   \* Producer: "none", "on" or "off"
  account,  \* User, by email
  grants,   \* UserProducerCode
  code,     \* ProducerCode
  number,   \* PhoneNumber, by Meta id
  told,     \* the last BotStatusChange of each number
  call,     \* requests in course
  calls     \* requests so far

accessVars == <<office, account, grants, code, number, told, call, calls>>
rows == <<office, account, grants, code, number, told>>

NoAccount == [state |-> "none", office |-> Home, role |-> "ADMIN"]
NoCodeRow == [state |-> "none", master |-> FALSE, on |-> TRUE]
NoNumberRow == [state |-> "none", office |-> Home, billed |-> Nothing, serves |-> {}, on |-> FALSE,
                bot |-> TRUE, profile |-> [f \in Fields |-> 0], closed |-> {}]
NoCall == [step |-> "idle", by |-> Nothing, email |-> Nothing, role |-> Nothing, codes |-> {}, office |-> Home,
           code |-> Nothing, line |-> Nothing, billed |-> {}, on |-> {}, bot |-> FALSE, profile |-> [f \in Fields |-> 0],
           left |-> {}, own |-> {}, default |-> Nothing, filter |-> Nothing, alone |-> 0]

\* A set of codes that may not be sent.
Sent(cs) == IF cs = Nothing THEN {} ELSE cs

CodeSets == {Nothing} \cup {{c} : c \in CodeIds} \cup {{}}

AccessTypeOK ==
  /\ office \in [Offices -> {"none", "on", "off"}]
  /\ account \in [Emails -> [state : {"none", "live", "removed"}, office : Offices, role : Roles]]
  /\ grants \in [Emails -> SUBSET CodeIds]
  /\ code \in [CodeIds -> [state : {"none", "live", "retired"}, master : BOOLEAN, on : BOOLEAN]]
  /\ \A n \in MetaIds :
       /\ number[n].state \in {"none", "live", "removed"} /\ number[n].office \in Offices
       /\ number[n].billed \in CodeIds \cup {Nothing} /\ number[n].serves \subseteq CodeIds
       /\ number[n].bot \in BOOLEAN /\ number[n].on \in BOOLEAN /\ number[n].closed \subseteq Days
       /\ number[n].profile \in [Fields -> 0..1]
  /\ told \in [MetaIds -> BOOLEAN \cup {Nothing}]
  /\ \A q \in Calls :
       /\ call[q].step \in {"idle", "founding", "coding", "reviving", "creating", "granting", "writing", "reading",
                            "replacing", "opening", "changing", "serving", "flipping", "merging", "seeing", "shown"}
       /\ call[q].codes \in (SUBSET CodeIds) \cup {Nothing} /\ call[q].role \in Roles \cup {Nothing}
  /\ calls \in 0..MaxCalls

\* An office with a number, whose clerk has its branch's code: in use, or retired
\* some time ago.
AccessInit ==
  /\ office = [o \in Offices |-> IF o = Home THEN "on" ELSE "none"]
  /\ account = [e \in Emails |-> IF e = Boss THEN [state |-> "live", office |-> Home, role |-> "SUPERADMIN"]
                                 ELSE IF e = Clerk THEN [NoAccount EXCEPT !.state = "live"] ELSE NoAccount]
  /\ grants = [e \in Emails |-> IF e = Clerk THEN {<<Home, Branch>>} ELSE {}]
  /\ \E s \in {"live", "retired"} :
       code = [c \in CodeIds |->
         IF c = <<Home, Master>> THEN [state |-> "live", master |-> TRUE, on |-> TRUE]
         ELSE IF c = <<Home, Branch>> THEN [NoCodeRow EXCEPT !.state = s] ELSE NoCodeRow]
  /\ \E b \in {<<Home, Master>>, <<Home, Branch>>} :
       number = [n \in MetaIds |-> IF n = Line THEN [NoNumberRow EXCEPT !.state = "live", !.on = TRUE, !.billed = b]
                                   ELSE NoNumberRow]
  /\ told = [n \in MetaIds |-> Nothing]
  /\ call = [q \in Calls |-> NoCall] /\ calls = 0

-----------------------------------------------------------------------------
(* Guards: the token names an account, which is read anew with every request  *)
(* (JwtStrategy.validate, RolesGuard); Nothing stands for the platform owner. *)

OfficeOf(by) == IF by = Nothing THEN Home ELSE account[by].office
SuperAdmin(by) == by # Nothing => account[by].role = "SUPERADMIN"
Signed(by) == by # Nothing => account[by].state = "live"

Begin(by) == calls < MaxCalls /\ calls' = calls + 1 /\ Signed(by)
Open(q) == call[q].step = "idle"
Enter(q, c) == call' = [call EXCEPT ![q] = c]
Step(q, step) == call' = [call EXCEPT ![q].step = step]
Done(q) == call' = [call EXCEPT ![q] = NoCall]
Patched(new, old) == IF new = {} THEN old ELSE CHOOSE v \in new : TRUE

LiveCodes(o) == {c \in CodeIds : c[1] = o /\ code[c].state = "live"}

\* assertCodesBelongToProducer
CodesFit(cs, o) == cs \subseteq LiveCodes(o)

\* Slip: no grants, no limits.
AllWhenNone(by) ==
  IF SuperAdmin(by) \/ grants[by] = {} THEN LiveCodes(OfficeOf(by)) ELSE grants[by] \cap LiveCodes(account[by].office)

\* resolveAccessibleProducerCodeIds
Accessible(by) == IF SuperAdmin(by) THEN LiveCodes(OfficeOf(by)) ELSE grants[by] \cap LiveCodes(account[by].office)

\* numberScope, inScope: the grants as they are.
InScope(by, n) ==
  /\ number[n].state = "live" /\ number[n].office = OfficeOf(by)
  /\ ~SuperAdmin(by) => number[n].billed \in grants[by]

-----------------------------------------------------------------------------
(* The platform owner's offices and codes *)

\* createOrganization: a free email, then office, codes and SuperAdmin at once.
FoundOffice(q, o, e, cs) ==
  /\ Open(q) /\ Begin(Nothing)
  /\ office[o] = "none" /\ account[e].state = "none"
  /\ Enter(q, [NoCall EXCEPT !.step = "founding", !.office = o, !.email = e, !.codes = cs])
  /\ UNCHANGED rows

CreateOrganization(q) ==
  /\ call[q].step = "founding"
  /\ LET o == call[q].office
         e == call[q].email
     IN IF office[o] = "none" /\ account[e].state = "none"
        THEN /\ office' = [office EXCEPT ![o] = "on"]
             /\ code' = [c \in CodeIds |-> IF c \in call[q].codes
                           THEN [state |-> "live", master |-> c[2] = Master, on |-> TRUE] ELSE code[c]]
             /\ account' = [account EXCEPT ![e] = [state |-> "live", office |-> o, role |-> "SUPERADMIN"]]
        ELSE UNCHANGED <<office, code, account>>
  /\ Done(q)
  /\ UNCHANGED <<grants, number, told, calls>>

SetOrganizationActive(o) ==
  /\ Begin(Nothing) /\ office[o] # "none"
  /\ office' = [office EXCEPT ![o] = IF @ = "on" THEN "off" ELSE "on"]
  /\ UNCHANGED <<account, grants, code, number, told, call>>

\* addCode of the owner, createProducerCode of a SuperAdmin: a retired code comes back.
FindCode(q, by, c) ==
  /\ Open(q) /\ Begin(by)
  /\ by # Nothing => SuperAdmin(by) /\ c[1] = account[by].office
  /\ office[c[1]] # "none" /\ code[c].state # "live"
  /\ Enter(q, [NoCall EXCEPT !.step = IF code[c].state = "none" THEN "coding" ELSE "reviving", !.by = by, !.code = c])
  /\ UNCHANGED rows

AddCode(q) ==
  /\ call[q].step \in {"coding", "reviving"}
  /\ LET c == call[q].code
         owners == call[q].by = Nothing
     IN \E m \in BOOLEAN :
          code' = IF call[q].step = "coding" /\ code[c].state # "none" THEN code
                  ELSE [code EXCEPT ![c] = [state |-> "live", on |-> TRUE,
                          master |-> IF owners THEN m ELSE code[c].master]]
  /\ Done(q)
  /\ UNCHANGED <<office, account, grants, number, told, calls>>

UpdateCode(c) ==
  /\ Begin(Nothing) /\ code[c].state = "live"
  /\ code' = [code EXCEPT ![c].on = ~@]
  /\ UNCHANGED <<office, account, grants, number, told, call>>

-----------------------------------------------------------------------------
(* Accounts *)

\* create of users; addUser and addSuperAdmin of the owner grant nothing.
FindFree(q, by, e, o, r, cs) ==
  /\ Open(q) /\ Begin(by)
  /\ account[e].state = "none"
  /\ \/ by = Nothing /\ office[o] # "none" /\ cs = {}
     \/ SuperAdmin(by) /\ o = OfficeOf(by) /\ (r = "ADMIN" => CodesFit(cs, o))
  /\ Enter(q, [NoCall EXCEPT !.step = "creating", !.email = e, !.office = o, !.role = r, !.codes = cs])
  /\ UNCHANGED rows

CreateAccount(q) ==
  /\ call[q].step = "creating"
  /\ LET e == call[q].email
         taken == account[e].state # "none"
     IN /\ account' = IF taken THEN account
                      ELSE [account EXCEPT ![e] = [state |-> "live", office |-> call[q].office, role |-> call[q].role]]
        /\ IF taken \/ call[q].role = "SUPERADMIN" \/ call[q].codes = {} THEN Done(q) ELSE Step(q, "granting")
  /\ UNCHANGED <<office, grants, code, number, told, calls>>

GrantCodes(q) ==
  /\ call[q].step = "granting"
  /\ grants' = [grants EXCEPT ![call[q].email] = @ \cup call[q].codes]
  /\ Done(q)
  /\ UNCHANGED <<office, account, code, number, told, calls>>

\* update: the row, then the grants by the role it has, read when none is sent.
FindAccount(q, by, e, r, cs) ==
  /\ Open(q) /\ Begin(by)
  /\ account[e].state = "live" /\ SuperAdmin(by) /\ OfficeOf(by) = account[e].office
  /\ cs # Nothing => CodesFit(cs, account[e].office)
  /\ Enter(q, [NoCall EXCEPT !.step = "writing", !.email = e, !.role = r, !.codes = cs])
  /\ UNCHANGED rows

UpdateAccount(q) ==
  /\ call[q].step = "writing"
  /\ LET r == call[q].role IN
       /\ account' = IF r = Nothing THEN account ELSE [account EXCEPT ![call[q].email].role = r]
       /\ Step(q, IF r = Nothing THEN "reading" ELSE "replacing")
  /\ UNCHANGED <<office, grants, code, number, told, calls>>

ReadRole(q) ==
  /\ call[q].step = "reading"
  /\ call' = [call EXCEPT ![q].step = "replacing", ![q].role = account[call[q].email].role]
  /\ UNCHANGED <<rows, calls>>

ReplaceGrants(q) ==
  /\ call[q].step = "replacing"
  /\ LET cs == call[q].codes IN
       grants' = IF call[q].role = "SUPERADMIN" THEN [grants EXCEPT ![call[q].email] = {}]
                 ELSE IF cs = Nothing THEN grants ELSE [grants EXCEPT ![call[q].email] = cs]
  /\ Done(q)
  /\ UNCHANGED <<office, account, code, number, told, calls>>

\* updateUser and removeUser of the owner; remove of a SuperAdmin, never of oneself.
SetRole(e, r) ==
  /\ Begin(Nothing) /\ account[e].state = "live"
  /\ account' = [account EXCEPT ![e].role = r]
  /\ UNCHANGED <<office, grants, code, number, told, call>>

RemoveAccount(by, e) ==
  /\ Begin(by) /\ account[e].state = "live"
  /\ by # Nothing => SuperAdmin(by) /\ account[e].office = account[by].office /\ by # e
  /\ account' = [account EXCEPT ![e].state = "removed"]
  /\ UNCHANGED <<office, grants, code, number, told, call>>

-----------------------------------------------------------------------------
(* Numbers *)

\* create: the row, then the codes it serves.
FindMetaId(q, by, n, b, cs) ==
  /\ Open(q) /\ Begin(by) /\ SuperAdmin(by)
  /\ number[n].state = "none" /\ CodesFit(cs \cup ({b} \ {Nothing}), OfficeOf(by))
  /\ Enter(q, [NoCall EXCEPT !.step = "opening", !.office = OfficeOf(by), !.line = n, !.code = b, !.codes = cs])
  /\ UNCHANGED rows

CreateNumber(q) ==
  /\ call[q].step = "opening"
  /\ LET n == call[q].line IN
       IF number[n].state # "none" THEN Done(q) /\ UNCHANGED number
       ELSE /\ number' = [number EXCEPT ![n] = [NoNumberRow EXCEPT !.state = "live", !.on = TRUE,
                            !.office = call[q].office, !.billed = call[q].code]]
            /\ Step(q, "serving")
  /\ UNCHANGED <<office, account, grants, code, told, calls>>

\* update: the code it is billed to and isActive have a new value, or none.
FindNumberRow(q, by, n, billed, on, cs) ==
  /\ Open(q) /\ Begin(by) /\ SuperAdmin(by)
  /\ number[n].state = "live" /\ number[n].office = OfficeOf(by)
  /\ CodesFit(Sent(cs) \cup (billed \ {Nothing}), OfficeOf(by))
  /\ Enter(q, [NoCall EXCEPT !.step = "changing", !.line = n, !.billed = billed, !.on = on, !.codes = cs])
  /\ UNCHANGED rows

UpdateNumber(q) ==
  /\ call[q].step = "changing"
  /\ number' = [number EXCEPT ![call[q].line].billed = Patched(call[q].billed, @), ![call[q].line].on = Patched(call[q].on, @)]
  /\ IF call[q].codes = Nothing THEN Done(q) ELSE Step(q, "serving")
  /\ UNCHANGED <<office, account, grants, code, told, calls>>

ReplaceServedCodes(q) ==
  /\ call[q].step = "serving"
  /\ number' = [number EXCEPT ![call[q].line].serves = call[q].codes]
  /\ Done(q)
  /\ UNCHANGED <<office, account, grants, code, told, calls>>

RemoveNumber(by, n) ==
  /\ Begin(by) /\ SuperAdmin(by)
  /\ number[n].state = "live" /\ number[n].office = OfficeOf(by)
  /\ number' = [number EXCEPT ![n].state = "removed", ![n].on = FALSE]
  /\ UNCHANGED <<office, account, grants, code, told, call>>

\* setBotEnabled: the current state again does nothing; the flip and its audit at once.
ReadSwitch(q, by, n) ==
  /\ Open(q) /\ Begin(by) /\ InScope(by, n)
  /\ Enter(q, [NoCall EXCEPT !.step = "flipping", !.line = n, !.bot = ~number[n].bot])
  /\ UNCHANGED rows

SetBotEnabled(q) ==
  /\ call[q].step = "flipping"
  /\ LET n == call[q].line IN
       /\ number' = [number EXCEPT ![n].bot = call[q].bot]
       /\ told' = [told EXCEPT ![n] = call[q].bot]
  /\ Done(q)
  /\ UNCHANGED <<office, account, grants, code, calls>>

\* updateAssistant merges the fields sent into the profile it read.
ReadAssistant(q, by, n, f) ==
  /\ Open(q) /\ Begin(by) /\ InScope(by, n) /\ number[n].profile[f] = 0
  /\ Enter(q, [NoCall EXCEPT !.step = "merging", !.line = n, !.profile = [number[n].profile EXCEPT ![f] = 1]])
  /\ UNCHANGED rows

UpdateAssistant(q) ==
  /\ call[q].step = "merging"
  /\ number' = [number EXCEPT ![call[q].line].profile = call[q].profile]
  /\ Done(q)
  /\ UNCHANGED <<office, account, grants, code, told, calls>>

\* addClosure, removeClosure
SetClosure(by, n, d) ==
  /\ Begin(by) /\ InScope(by, n)
  /\ number' = [number EXCEPT ![n].closed = IF d \in @ THEN @ \ {d} ELSE @ \cup {d}]
  /\ UNCHANGED <<office, account, grants, code, told, call>>

-----------------------------------------------------------------------------
(* The chats a user sees: resolveChatScope makes its queries at once *)

OwnLines(e) == {n \in MetaIds : number[n].state = "live" /\ number[n].office = account[e].office
                  /\ number[n].billed \in Accessible(e)}

\* Numbers are few and told apart by their id; of several, the first.
DefaultLines(o) == {n \in MetaIds : number[n].state = "live" /\ number[n].on /\ number[n].office = o
                      /\ number[n].billed # Nothing /\ code[number[n].billed].master}

ResolveScope(q, e, filter) ==
  /\ Open(q) /\ Begin(e)
  /\ Enter(q, [NoCall EXCEPT !.step = "seeing", !.email = e, !.role = account[e].role, !.line = filter,
                 !.left = {"own", "default", "filter"},
                 !.alone = IF \A p \in Calls : Open(p) THEN calls' ELSE 0])
  /\ UNCHANGED rows

Read(q, part) == call[q].step = "seeing" /\ part \in call[q].left
LeftBut(q, part) == call[q].left \ {part}
NextStep(q, part) == IF LeftBut(q, part) = {} THEN "shown" ELSE "seeing"

ReadOwn(q) ==
  /\ Read(q, "own")
  /\ call' = [call EXCEPT ![q].left = LeftBut(q, "own"), ![q].step = NextStep(q, "own"),
       ![q].own = IF call[q].role = "SUPERADMIN" THEN {} ELSE OwnLines(call[q].email)]
  /\ UNCHANGED <<rows, calls>>

ReadDefault(q) ==
  /\ Read(q, "default")
  /\ LET ds == DefaultLines(account[call[q].email].office) IN
       \E d \in IF ds = {} THEN {Nothing} ELSE ds :
         call' = [call EXCEPT ![q].left = LeftBut(q, "default"), ![q].step = NextStep(q, "default"), ![q].default = d]
  /\ UNCHANGED <<rows, calls>>

ReadFilter(q) ==
  /\ Read(q, "filter")
  /\ LET n == call[q].line
         known == n # Nothing /\ number[n].state = "live" /\ number[n].office = account[call[q].email].office
     IN call' = [call EXCEPT ![q].left = LeftBut(q, "filter"), ![q].step = NextStep(q, "filter"),
                             ![q].filter = IF known THEN n ELSE Nothing]
  /\ UNCHANGED <<rows, calls>>

\* numberWhere: a number that is not the office's or not the admin's own shows nothing.
VisibleLines(q) ==
  LET c == call[q] IN
  IF c.line # Nothing THEN {n \in {c.filter} \ {Nothing} : c.role = "SUPERADMIN" \/ n \in c.own}
  ELSE IF c.role = "SUPERADMIN" THEN MetaIds ELSE c.own

\* What came through no number goes with the default one.
Shown(q) ==
  LET c == call[q]
      all == c.role = "SUPERADMIN" /\ c.line = Nothing
  IN VisibleLines(q) \cup {x \in {Nothing} : all \/ c.default \in VisibleLines(q)}

AnswerScope(q) ==
  /\ call[q].step = "shown" /\ Done(q)
  /\ UNCHANGED <<rows, calls>>

-----------------------------------------------------------------------------

CallBegins(q) ==
  /\ Open(q) /\ calls < MaxCalls
  /\ \/ \E o \in Offices, e \in Emails : \E cs \in SUBSET ({o} \X CodeNames) : FoundOffice(q, o, e, cs)
     \/ \E by \in Emails \cup {Nothing} :
          \/ \E c \in CodeIds : FindCode(q, by, c)
          \/ \E e \in Emails, r \in Roles :
               \/ \E o \in Offices, cs \in CodeSets \ {Nothing} : FindFree(q, by, e, o, r, cs)
               \/ \E cs \in CodeSets : FindAccount(q, by, e, r, cs) \/ FindAccount(q, by, e, Nothing, cs)
          \/ \E n \in MetaIds :
               \/ \E b \in CodeIds \cup {Nothing} :
                    \/ \E cs \in CodeSets \ {Nothing} : FindMetaId(q, by, n, b, cs)
                    \/ \E cs \in CodeSets : FindNumberRow(q, by, n, {b}, {}, cs)
               \/ \E cs \in CodeSets, on \in SUBSET BOOLEAN : on # BOOLEAN /\ FindNumberRow(q, by, n, {}, on, cs)
               \/ ReadSwitch(q, by, n) \/ \E f \in Fields : ReadAssistant(q, by, n, f)
     \/ \E e \in Emails, f \in MetaIds \cup {Nothing} : ResolveScope(q, e, f)

CallGoesOn(q) ==
  \/ CreateOrganization(q) \/ AddCode(q) \/ CreateAccount(q) \/ GrantCodes(q)
  \/ UpdateAccount(q) \/ ReadRole(q) \/ ReplaceGrants(q)
  \/ CreateNumber(q) \/ UpdateNumber(q) \/ ReplaceServedCodes(q) \/ SetBotEnabled(q) \/ UpdateAssistant(q)
  \/ ReadOwn(q) \/ ReadDefault(q) \/ ReadFilter(q) \/ AnswerScope(q)

AtOnce ==
  \/ \E o \in Offices : SetOrganizationActive(o)
  \/ \E c \in CodeIds : UpdateCode(c)
  \/ \E e \in Emails, r \in Roles : SetRole(e, r)
  \/ \E by \in Emails \cup {Nothing} :
       \/ \E e \in Emails : RemoveAccount(by, e)
       \/ \E n \in MetaIds : RemoveNumber(by, n) \/ \E d \in Days : SetClosure(by, n, d)

AccessNext == AtOnce \/ \E q \in Calls : CallBegins(q) \/ CallGoesOn(q)

AccessSpec == AccessInit /\ [][AccessNext]_accessVars

-----------------------------------------------------------------------------
(* Properties *)

\* Grants and numbers never point at another office's codes.
CodesStayHome ==
  /\ \A e \in Emails : \A c \in grants[e] : c[1] = account[e].office
  /\ \A n \in MetaIds : \A c \in number[n].serves \cup ({number[n].billed} \ {Nothing}) : c[1] = number[n].office

\* Where a chat belongs: what came through no number, to the office's default one.
HomeOf(x, o) == IF x = Nothing THEN DefaultLines(o) ELSE {x}

\* Undisturbed, a user sees the chats of the numbers that are theirs and asked
\* for, and those of no number with the default one (ChatScope, numberWhere).
ScopeFits ==
  \A q \in Calls : call[q].step = "shown" /\ call[q].alone = calls =>
    LET e == call[q].email
        o == account[e].office
        all == SuperAdmin(e) /\ call[q].line = Nothing
        Theirs(n) == number[n].state = "live" /\ number[n].office = o /\ (SuperAdmin(e) \/ number[n].billed \in Accessible(e))
        Asked(n) == call[q].line \in {n, Nothing}
    IN /\ \A x \in Shown(q) : all \/ \E n \in HomeOf(x, o) : Theirs(n) /\ Asked(n)
       /\ \A n \in MetaIds : Theirs(n) /\ Asked(n) => n \in Shown(q)

\* The audit's last word on a number is its switch.
SwitchIsTold == \A n \in MetaIds : told[n] # Nothing => told[n] = number[n].bot

\* What an admin sees grows only by a request that names the code for them, or
\* with the return of a retired code.
SightIsGranted ==
  \A e \in Emails : account[e].state = "live" /\ account[e].role = "ADMIN" /\ account'[e].role = "ADMIN" =>
       \A c \in Accessible(e)' \ Accessible(e) :
         \/ \E q \in Calls : call[q].step \in {"granting", "replacing"} /\ call[q].email = e /\ c \in Sent(call[q].codes)
         \/ code[c].state # "live"

\* A SuperAdmin has no grants of their own (comment of users.service).
PromotedIsCleared ==
  \A e \in Emails : account[e].role = "SUPERADMIN" /\ (\A q \in Calls : call[q].email # e) => grants[e] = {}

\* "A real flip is audited".
FlipsAreReal ==
  [][\A q \in Calls : call[q].step = "flipping" /\ Open(q)' =>
       number'[call[q].line].bot # number[call[q].line].bot]_accessVars

\* A field of the assistant that was saved stays saved.
FieldsStay ==
  [][\A n \in MetaIds, f \in Fields : number[n].profile[f] = 1 => number'[n].profile[f] = 1]_accessVars

\* The scopes, the switch and the codes of an office fit at every moment.
AccessFits == CodesStayHome /\ ScopeFits /\ SwitchIsTold

\* An office has somebody to run it.
SomebodyRuns ==
  \A o \in Offices : office[o] # "none" =>
    \E e \in Emails : account[e].state = "live" /\ account[e].office = o /\ account[e].role = "SUPERADMIN"
=============================================================================
