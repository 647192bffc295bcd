--------------------------- MODULE AssistantChanges ---------------------------
(* What the cards of the panel's assistant show, what confirming them writes   *)
(* and what going back on them restores: the tools that propose a change       *)
(* (config.tools.ts, numbers.tools.ts, work.tools.ts), and the services their  *)
(* executors call one after another, while people edit in the panel. The claim *)
(* of a card is AssistantActions; here each behaviour is of one kind of card.  *)
EXTENDS Naturals, Sequences

CONSTANTS
  MaxCards,        \* bound: the change, going back on it, and so on
  MaxPanelEdits,   \* bound: edits in the panel
  MaxRefused       \* bound: services that refuse (the access or the row is gone)

ASSUME ChangesParameters == MaxCards \in Nat \ {0} /\ MaxPanelEdits \in Nat /\ MaxRefused \in Nat

VARIABLES
  subject,     \* the kind of card
  store,       \* what the office has stored: owner and field -> value
  proposals,       \* AssistantAction, each but the first going back on the one before
  runs,        \* the executor of each card
  panelEdits, refused,
  was,         \* history: the store when each card was claimed
  quiet        \* history: nobody edited, and each card waited for the one before

changeVars == <<subject, store, proposals, runs, panelEdits, refused, was, quiet>>

\* The proposals of tasks and of improvements only add a row.
Subjects == {"account", "data", "hours", "bot", "closure", "matter", "request", "claim"}

\* What a card of each kind can change, of the organization, of a number or of a row.
FieldsOf(s) ==
  CASE s = "account" -> {"alias", "cbu"} [] s = "data" -> {"botName", "tow"} [] s = "hours" -> {"mon", "tue"}
    [] s = "bot" -> {"bot"} [] s = "closure" -> {"first", "second"} [] s = "matter" -> {"status", "category"}
    [] s = "request" -> {"state", "notes"} [] s = "claim" -> {"status", "claimNumber"}
OwnersOf(s) == CASE s \in {"account", "hours"} -> {"org", "num"} [] s = "data" -> {"org"} [] s = "bot" -> {"num"}
                 [] OTHER -> {"row"}

\* A profile is one JSON with fields no card of the kind touches, and a quote
\* request has its matter (the twin), with the same state.
PlacesOf(s) ==
  OwnersOf(s) \X FieldsOf(s)
  \cup (CASE s = "account" -> {<<"num", "tow">>} [] s = "data" -> {<<"org", "alias">>}
          [] s \in {"matter", "request"} -> {<<"twin", "status">>} [] OTHER -> {})

Texts == {"", "x", "n"}
ValuesOf(f) ==
  CASE f \in {"mon", "tue"} -> {"open", "shut"} [] f = "bot" -> {"on", "off"} [] f \in {"first", "second"} -> {"", "n"}
    [] f = "status" -> {"pending", "in_progress", "resolved"} [] f = "state" -> {"NEW", "CONTACTED", "CLOSED"} [] f = "category" -> {"other", "pagos"}
    [] OTHER -> Texts

\* What people type: a new text, or none to clear it.
Typed(f) == IF ValuesOf(f) = Texts THEN {"", "n"} ELSE ValuesOf(f)

LeadStatusOf == [pending |-> "NEW", in_progress |-> "CONTACTED", resolved |-> "CLOSED"]
MatterStatusOf == [NEW |-> "pending", CONTACTED |-> "in_progress", CLOSED |-> "resolved"]
\* A matter's twin is a quote request, if it is about one; a request's is its matter.
StateField(s) == IF s = "matter" THEN "status" ELSE "state"
TwinStatus(s, state) == IF s = "matter" THEN LeadStatusOf[state] ELSE MatterStatusOf[state]
NoTwin == "none"

WeekDays == {"mon", "tue"}
Account == {"alias", "cbu"}
Inherit == "inherit"

NoProposal == [status |-> "none", owner |-> "row", changes |-> <<>>, undo |-> <<>>, undoable |-> FALSE, rows |-> <<>>,
           toOrg |-> FALSE]
AtRest == [step |-> "idle", left |-> <<>>, seen |-> <<>>, fresh |-> TRUE]

ChangesTypeOK ==
  /\ subject \in Subjects /\ DOMAIN store = PlacesOf(subject)
  /\ \A k \in 1..MaxCards :
       /\ proposals[k].status \in {"none", "pending", "confirmed", "failed"}
       /\ DOMAIN proposals[k].changes \subseteq FieldsOf(subject) /\ DOMAIN proposals[k].undo \subseteq FieldsOf(subject)
       /\ runs[k].step \in {"idle", "calling", "writing", "done"}
  /\ panelEdits \in 0..MaxPanelEdits /\ refused \in 0..MaxRefused /\ quiet \in BOOLEAN

\* The states the store may be found in: an organization with an alias, a number
\* with all its days or none, a twin in the state of its row.
MayHold(s, st) ==
  /\ s = "account" => st[<<"org", "alias">>] # ""
  /\ s = "hours" => (st[<<"num", "mon">>] = Inherit <=> st[<<"num", "tue">>] = Inherit)
                    /\ Inherit \notin {st[<<"org", d>>] : d \in WeekDays}
  /\ s \in {"matter", "request"} =>
       st[<<"twin", "status">>] \in {TwinStatus(s, st[<<"row", StateField(s)>>])} \cup (IF s = "matter" THEN {NoTwin} ELSE {})
FoundIn(p) == CASE p[1] = "twin" -> DOMAIN MatterStatusOf \cup DOMAIN LeadStatusOf \cup {NoTwin}
                [] p[2] \in WeekDays -> ValuesOf(p[2]) \cup {Inherit}
                [] p[2] = "tow" -> {"x"} [] ValuesOf(p[2]) = Texts -> {"", "x"}
                [] p[2] \in {"first", "second"} -> {""}
                [] OTHER -> ValuesOf(p[2])

ChangesInit ==
  /\ subject \in Subjects
  /\ store \in {st \in [PlacesOf(subject) -> UNION {FoundIn(p) : p \in PlacesOf(subject)}] :
                  (\A p \in PlacesOf(subject) : st[p] \in FoundIn(p)) /\ MayHold(subject, st)}
  /\ proposals = [k \in 1..MaxCards |-> NoProposal] /\ runs = [k \in 1..MaxCards |-> AtRest]
  /\ panelEdits = 0 /\ refused = 0 /\ was = [k \in 1..MaxCards |-> store] /\ quiet = TRUE

-----------------------------------------------------------------------------
(* What people see *)

\* hasOwnAccount: the four fields of the account go together.
OwnAccount(st) == \E f \in Account : st[<<"num", f>>] # ""
OwnHours(st) == st[<<"num", "mon">>] # Inherit

\* overlayBotProfile and the number's schedule: a number's own, or the organization's.
ShownBy(owner, st) ==
  [f \in FieldsOf(subject) |->
     IF owner = "num" /\ ((subject = "account" /\ ~OwnAccount(st)) \/ (subject = "hours" /\ ~OwnHours(st)))
       THEN st[<<"org", f>>] ELSE st[<<owner, f>>]]

-----------------------------------------------------------------------------
(* A card is made *)

Partial(f, g) == [x \in DOMAIN f \cup DOMAIN g |-> IF x \in DOMAIN f THEN f[x] ELSE g[x]]
Empty(S) == [f \in S |-> ""]

\* Only the values that differ are on the card.
RowsOf(before, after) == [f \in {g \in DOMAIN after : before[g] # after[g]} |-> [from |-> before[f], to |-> after[f]]]

NewCard(owner, changes, undo, rows, toOrg) ==
  [status |-> "pending", owner |-> owner, changes |-> changes, undo |-> undo, undoable |-> undo # <<>>,
   rows |-> rows, toOrg |-> toOrg]

Show(card) ==
  /\ proposals[1].status = "none" /\ DOMAIN card.rows # {}
  /\ proposals' = [proposals EXCEPT ![1] = card]
  /\ UNCHANGED <<subject, store, runs, panelEdits, refused, was, quiet>>

\* What each field asked to change had: what going back restores.
HadBefore(owner, changes) == [f \in DOMAIN changes |-> ShownBy(owner, store)[f]]

Asked(s) == UNION {[S -> UNION {Typed(f) : f \in FieldsOf(s)}] : S \in (SUBSET FieldsOf(s)) \ {{}}}
WellTyped(changes) == \A f \in DOMAIN changes : changes[f] \in Typed(f)

\* proponer_cambio_datos_de_pago. A number that takes on its own account shows all
\* its fields, and goes back to the organization's.
ProposeAccount(owner, changes) ==
  LET starts == owner = "num" /\ ~OwnAccount(store)
      after == IF starts THEN Partial(changes, Empty(Account)) ELSE changes
  IN /\ subject = "account"
     /\ (starts => \E f \in DOMAIN changes : changes[f] # "")
     /\ Show(NewCard(owner, changes, IF starts THEN Empty(Account) ELSE HadBefore(owner, changes),
                     RowsOf(ShownBy(owner, store), after),
                     owner = "num" /\ \A f \in DOMAIN changes : changes[f] = ""))

\* proponer_cambio_datos_productora, _siniestro, _solicitud and proponer_estado_asunto.
ProposeFields(owner, changes) ==
  /\ subject \in {"data", "claim", "request", "matter"}
  /\ Show(NewCard(owner, changes, HadBefore(owner, changes), RowsOf(ShownBy(owner, store), changes), FALSE))

\* What going back on a new week restores: none, if the number had none of its own.
WeekBack(owner) == IF owner = "num" /\ ~OwnHours(store) THEN [d \in WeekDays |-> Inherit] ELSE ShownBy(owner, store)

\* proponer_cambio_horarios: the days asked over the week as it was read, the whole
\* of which is written.
ProposeHours(owner, days) ==
  LET week == Partial(days, ShownBy(owner, store))
  IN /\ subject = "hours"
     /\ Show(NewCard(owner, week, WeekBack(owner), RowsOf(ShownBy(owner, store), week), FALSE))

ProposeOrganizationHours ==
  /\ subject = "hours" /\ OwnHours(store)
  /\ Show(NewCard("num", [d \in WeekDays |-> Inherit], ShownBy("num", store),
                  RowsOf(ShownBy("num", store), ShownBy("org", store)), TRUE))

\* proponer_bot_numero.
ProposeBot ==
  LET flipped == [bot |-> IF store[<<"num", "bot">>] = "on" THEN "off" ELSE "on"]
  IN subject = "bot" /\ Show(NewCard("num", flipped, HadBefore("num", flipped), RowsOf(ShownBy("num", store), flipped), FALSE))

\* proponer_feriado_o_pausa: a row for each number, which cannot be undone.
ProposeClosure(numbers) ==
  LET made == [f \in numbers |-> "n"]
  IN subject = "closure" /\ Show(NewCard("row", made, <<>>, RowsOf(ShownBy("row", store), made), FALSE))

\* proposeUndo: what the card before replaced, with its rows the other way round.
ProposeUndo(k) ==
  /\ k > 1 /\ proposals[k].status = "none" /\ proposals[k - 1].status = "confirmed" /\ proposals[k - 1].undoable
  /\ proposals' = [proposals EXCEPT ![k] =
       NewCard(proposals[k - 1].owner, proposals[k - 1].undo, proposals[k - 1].changes,
               [f \in DOMAIN proposals[k - 1].rows |-> [from |-> proposals[k - 1].rows[f].to, to |-> proposals[k - 1].rows[f].from]],
               proposals[k - 1].toOrg)]
  /\ quiet' = (quiet /\ runs[k - 1].step = "done")
  /\ UNCHANGED <<subject, store, runs, panelEdits, refused, was>>

-----------------------------------------------------------------------------
(* The executor: the services it calls, in order *)

CallsOf(k) ==
  LET named == DOMAIN proposals[k].changes
      OnlyIf(S) == IF S = {} THEN <<>> ELSE <<S>>
  IN CASE subject = "data" -> OnlyIf(named \cap {"botName"}) \o OnlyIf(named \cap {"tow"})
       [] subject = "closure" -> OnlyIf(named \cap {"first"}) \o OnlyIf(named \cap {"second"})
       [] OTHER -> <<named>>

RunningCards == {k \in 1..MaxCards : runs[k].step \in {"calling", "writing"}}

\* confirm claims the card.
ConfirmCard(k) ==
  /\ proposals[k].status = "pending"
  /\ proposals' = [proposals EXCEPT ![k].status = "confirmed"]
  /\ runs' = [runs EXCEPT ![k] = [AtRest EXCEPT !.step = "calling", !.left = CallsOf(k)]]
  /\ was' = [was EXCEPT ![k] = store]
  /\ quiet' = (quiet /\ RunningCards = {})
  /\ UNCHANGED <<subject, store, panelEdits, refused>>

\* The service finds the row, in the person's codes; a profile is read whole.
Call(k) ==
  /\ runs[k].step = "calling"
  /\ runs' = [runs EXCEPT ![k].step = "writing", ![k].seen = store, ![k].fresh = TRUE]
  /\ UNCHANGED <<subject, store, proposals, panelEdits, refused, was, quiet>>

\* It does not: the card failed, whatever was done before.
Refuse(k) ==
  /\ runs[k].step = "calling" /\ refused < MaxRefused /\ refused' = refused + 1
  /\ proposals' = [proposals EXCEPT ![k].status = "failed"]
  /\ runs' = [runs EXCEPT ![k] = [AtRest EXCEPT !.step = "done"]]
  /\ UNCHANGED <<subject, store, panelEdits, was, quiet>>

\* Slip: the profile is replaced by what was sent.
Replaced(k) ==
  [p \in PlacesOf(subject) |->
     IF p[1] # proposals[k].owner THEN store[p]
     ELSE IF p[2] \in Head(runs[k].left) THEN proposals[k].changes[p[2]]
     ELSE IF subject = "account" THEN "" ELSE store[p]]

\* mergeBotProfile: what was sent over the profile that was read, written whole;
\* any other service writes the columns sent.
OwnRow(k) ==
  [p \in PlacesOf(subject) |->
     IF p[1] # proposals[k].owner THEN store[p]
     ELSE IF p[2] \in Head(runs[k].left) THEN proposals[k].changes[p[2]]
     ELSE IF subject = "account" \/ (subject = "data" /\ "tow" \in Head(runs[k].left) /\ p[2] = "alias")
            THEN runs[k].seen[p] ELSE store[p]]

\* updateMatter and updateStatus set the state of the row's twin too.
Written(k) ==
  LET row == OwnRow(k)
      twin == <<"twin", "status">>
  IN IF /\ subject \in {"matter", "request"} /\ StateField(subject) \in DOMAIN proposals[k].changes
        /\ store[twin] # NoTwin
       THEN [row EXCEPT ![twin] = TwinStatus(subject, proposals[k].changes[StateField(subject)])] ELSE row

Write(k) ==
  /\ runs[k].step = "writing" /\ store' = Written(k)
  /\ runs' = [j \in 1..MaxCards |->
       IF j = k THEN [AtRest EXCEPT !.step = IF Len(runs[k].left) = 1 THEN "done" ELSE "calling", !.left = Tail(runs[k].left)]
       ELSE [runs[j] EXCEPT !.fresh = FALSE]]
  /\ UNCHANGED <<subject, proposals, panelEdits, refused, was, quiet>>

\* Somebody saves a form of the panel (before the card, it is another store to start from).
PanelEdit(p, v) ==
  /\ panelEdits < MaxPanelEdits /\ proposals[1].status # "none"
  /\ p[1] # "twin" /\ subject # "closure" /\ v # store[p] /\ store[p] # Inherit
  /\ store' = [store EXCEPT ![p] = v]
  /\ panelEdits' = panelEdits + 1 /\ quiet' = FALSE
  /\ runs' = [k \in 1..MaxCards |-> [runs[k] EXCEPT !.fresh = FALSE]]
  /\ UNCHANGED <<subject, proposals, refused, was>>

ChangesNext ==
  \/ \E owner \in OwnersOf(subject), changes \in Asked(subject) :
       WellTyped(changes) /\ (ProposeAccount(owner, changes) \/ ProposeFields(owner, changes) \/ ProposeHours(owner, changes))
  \/ ProposeOrganizationHours \/ ProposeBot \/ \E numbers \in (SUBSET {"first", "second"}) \ {{}} : ProposeClosure(numbers)
  \/ \E k \in 1..MaxCards : ProposeUndo(k) \/ ConfirmCard(k) \/ Call(k) \/ Refuse(k) \/ Write(k)
  \/ \E p \in PlacesOf(subject) : \E v \in ValuesOf(p[2]) \ {"n"} : PanelEdit(p, v)

ChangesSpec == ChangesInit /\ [][ChangesNext]_changeVars

-----------------------------------------------------------------------------
(* Properties *)

Applied(k) == proposals[k].status = "confirmed" /\ runs[k].step = "done"
LastCard(k) == k = MaxCards \/ runs[k + 1].step = "idle"

\* "Vuelve a dejar exactamente lo que había antes de ese cambio" (proposeUndo): with
\* nobody editing meanwhile, going back leaves the store as it was before the
\* change, and going back on that as it was after it.
GoingBackRestores ==
  \A k \in 2..MaxCards : Applied(k) /\ Applied(k - 1) /\ LastCard(k) /\ quiet => store = was[k - 1]

\* What the card said is what the office then sees: each row its new value, and
\* every other field as it was. A card that gives a number its organization's
\* values again says so in a note.
CardTells ==
  \A k \in 1..MaxCards : Applied(k) /\ LastCard(k) /\ quiet /\ (proposals[k].toOrg => subject = "hours") =>
    \A f \in FieldsOf(subject) :
      ShownBy(proposals[k].owner, store)[f] =
        IF f \in DOMAIN proposals[k].rows THEN proposals[k].rows[f].to ELSE ShownBy(proposals[k].owner, was[k])[f]

\* A card with one service to call that failed changed nothing.
FailedIsUntouched ==
  \A k \in 1..MaxCards :
    proposals[k].status = "failed" /\ LastCard(k) /\ quiet /\ subject \notin {"data", "closure"} => store = was[k]

\* A change leaves everything it does not name as somebody left it in the panel,
\* unless they saved it while the service had it read.
OthersStay ==
  \A k \in 1..MaxCards : runs[k].step = "writing" /\ runs'[k].step # "writing" /\ runs[k].fresh =>
       \A p \in PlacesOf(subject) :
         (p[1] \notin {proposals[k].owner, "twin"} \/ (p[1] # "twin" /\ p[2] \notin DOMAIN proposals[k].changes)) =>
           store'[p] = store[p]

\* A card tells what it does, and can be gone back on.
CardsFit == GoingBackRestores /\ CardTells /\ FailedIsUntouched

\* "El número vuelve a usar la cuenta de la organización", whenever a card says so.
NoteIsTrue ==
  \A k \in 1..MaxCards : Applied(k) /\ LastCard(k) /\ quiet /\ subject = "account" /\ k = 1 /\ proposals[k].toOrg => ~OwnAccount(store)

\* A failed card changed nothing, whatever it calls.
NothingHalfDone == \A k \in 1..MaxCards : proposals[k].status = "failed" /\ quiet /\ LastCard(k) => store = was[k]

\* A day nobody asked to change stays as it was saved.
OtherDaysStay ==
  [][\A k \in 1..MaxCards : runs[k].step = "writing" /\ runs'[k].step = "done" /\ subject = "hours" /\ k = 1 =>
       \A d \in WeekDays \ DOMAIN proposals[k].rows : store'[<<proposals[k].owner, d>>] = store[<<proposals[k].owner, d>>]]_changeVars
=============================================================================
