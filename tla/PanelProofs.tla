---------------------------- MODULE PanelProofs ----------------------------
(***************************************************************************)
(* The six parts of the panel: the changes of the assistant and what their *)
(* cards tell; accounts, codes and numbers; holidays, hours and what the   *)
(* bot says of them; the catalog of plans; the coverages; the assistant's  *)
(* chat.  Each part has its invariant and the lemma that a step keeps it;  *)
(* the last section puts the parts together, because the panel's steps are *)
(* theirs, one part at a time.                                             *)
(***************************************************************************)
EXTENDS MCPanel, SequenceTheorems, FiniteSetTheorems, WellFoundedInduction, TLAPS

-----------------------------------------------------------------------------
(* The changes of the assistant ("changes")                                  *)

IsCard(r) ==
  r = [status |-> r.status, owner |-> r.owner, changes |-> r.changes, undo |-> r.undo, undoable |-> r.undoable,
       rows |-> r.rows, toOrg |-> r.toOrg]

IsRun(r) == DOMAIN r = {"step", "left", "seen", "fresh"}

\* What a card changes, or going back on it: some fields of its kind.
Named(changes) == DOMAIN changes # {} /\ DOMAIN changes \subseteq FieldsOf(subject)

CardFits(k) ==
  /\ IsCard(proposals[k]) /\ proposals[k].status \in {"none", "pending", "confirmed", "failed"}
  /\ proposals[k].status # "none" => Named(proposals[k].changes) /\ (proposals[k].undoable => Named(proposals[k].undo))

\* A card runs once it is claimed; while nobody writes, what its service read is
\* what is stored.
RunFits(k) ==
  /\ IsRun(runs[k]) /\ runs[k].step \in {"idle", "calling", "writing", "done"}
  /\ runs[k].step # "idle" => proposals[k].status \in {"confirmed", "failed"}
  /\ runs[k].step \in {"calling", "writing"} => runs[k].left # <<>> /\ runs[k].left \in Seq(SUBSET (DOMAIN proposals[k].changes))
  /\ runs[k].step = "writing" /\ runs[k].fresh => runs[k].seen = store

ChangesInv ==
  /\ subject \in Subjects
  /\ proposals = [k \in 1..MaxCards |-> proposals[k]] /\ runs = [k \in 1..MaxCards |-> runs[k]]
  /\ \A k \in 1..MaxCards : CardFits(k) /\ RunFits(k)

-----------------------------------------------------------------------------
LEMMA RestIsARun == IsRun(AtRest) /\ AtRest.step = "idle" /\ IsCard(NoProposal) /\ NoProposal.status = "none"
BY DEF IsRun, AtRest, IsCard, NoProposal

LEMMA ChangesInvInit == ChangesInit => ChangesInv
<1> SUFFICES ASSUME ChangesInit PROVE ChangesInv
  OBVIOUS
<1>1. proposals = [k \in 1..MaxCards |-> NoProposal] /\ runs = [k \in 1..MaxCards |-> AtRest] /\ subject \in Subjects
  BY DEF ChangesInit
<1>2. \A k \in 1..MaxCards : proposals[k] = NoProposal /\ runs[k] = AtRest
  BY <1>1
<1>3. \A k \in 1..MaxCards : CardFits(k) /\ RunFits(k)
  BY <1>2, RestIsARun DEF CardFits, RunFits
<1>4. proposals = [k \in 1..MaxCards |-> proposals[k]] /\ runs = [k \in 1..MaxCards |-> runs[k]]
  BY <1>1
<1> QED
  BY <1>1, <1>3, <1>4 DEF ChangesInv

\* What is left of the calls after the first.
LEMMA LeftAre ==
  ASSUME NEW S, NEW s \in Seq(S), s # <<>>
  PROVE  /\ Head(s) \in S /\ Tail(s) \in Seq(S)
         /\ (Len(s) # 1 => Tail(s) # <<>>)
<1>1. Tail(s) \in Seq(S) /\ Len(Tail(s)) = Len(s) - 1 /\ Head(s) \in S
  BY HeadTailProperties
<1>2. Len(s) \in Nat \ {0} /\ Len(<<>>) = 0
  BY EmptySeq
<1> QED
  BY <1>1, <1>2

\* The calls of a card: one or two, of what it changes.
LEMMA CallsAre ==
  ASSUME ChangesInv, NEW k \in 1..MaxCards, Named(proposals[k].changes)
  PROVE  CallsOf(k) # <<>> /\ CallsOf(k) \in Seq(SUBSET (DOMAIN proposals[k].changes))
<1> DEFINE named == DOMAIN proposals[k].changes
           OnlyIf(S) == IF S = {} THEN <<>> ELSE <<S>>
<1>0. subject \in Subjects /\ named # {} /\ named \subseteq FieldsOf(subject)
  BY DEF ChangesInv, Named
<1> HIDE DEF named
<1>1. ASSUME NEW S \in SUBSET named, NEW T \in SUBSET named, S # {} \/ T # {}
      PROVE  OnlyIf(S) \o OnlyIf(T) # <<>> /\ OnlyIf(S) \o OnlyIf(T) \in Seq(SUBSET named)
  <2>0. \A K : \A X \in K : <<>> \in Seq(K) /\ <<X>> \in Seq(K)
    OBVIOUS
  <2>1. OnlyIf(S) \in Seq(SUBSET named) /\ OnlyIf(T) \in Seq(SUBSET named)
    BY <2>0
  <2>2. OnlyIf(S) # <<>> \/ OnlyIf(T) # <<>>
    BY <1>1
  <2> HIDE DEF OnlyIf
  <2>3. OnlyIf(S) \o OnlyIf(T) \in Seq(SUBSET named)
    BY <2>1, ConcatProperties
  <2>4. OnlyIf(S) \o OnlyIf(T) = <<>> => OnlyIf(S) = <<>> /\ OnlyIf(T) = <<>>
    BY <2>1, ConcatEqualIffEmpty
  <2> QED
    BY <2>2, <2>3, <2>4
<1>2. CASE subject = "data"
  <2>1. FieldsOf(subject) = {"botName", "tow"}
    BY <1>2 DEF FieldsOf
  <2>2. CallsOf(k) = OnlyIf(named \cap {"botName"}) \o OnlyIf(named \cap {"tow"})
    BY <1>2 DEF CallsOf, named
  <2>3. named \cap {"botName"} # {} \/ named \cap {"tow"} # {}
    BY <1>0, <2>1
  <2> HIDE DEF OnlyIf
  <2> QED
    BY <1>1, <2>2, <2>3 DEF named
<1>3. CASE subject = "closure"
  <2>1. FieldsOf(subject) = {"first", "second"}
    BY <1>3 DEF FieldsOf
  <2>2. CallsOf(k) = OnlyIf(named \cap {"first"}) \o OnlyIf(named \cap {"second"})
    BY <1>3 DEF CallsOf, named
  <2>3. named \cap {"first"} # {} \/ named \cap {"second"} # {}
    BY <1>0, <2>1
  <2> HIDE DEF OnlyIf
  <2> QED
    BY <1>1, <2>2, <2>3 DEF named
<1>4. CASE subject \notin {"data", "closure"}
  <2>1. CallsOf(k) = <<named>>
    BY <1>4 DEF CallsOf, named
  <2>2. <<named>> # <<>> /\ <<named>> \in Seq(SUBSET named)
    OBVIOUS
  <2> QED
    BY <2>1, <2>2 DEF named
<1> QED
  BY <1>2, <1>3, <1>4

-----------------------------------------------------------------------------
\* A card that appears.
LEMMA CardAppears ==
  ASSUME ChangesInv, NEW k \in 1..MaxCards, NEW card, proposals[k].status = "none",
         proposals' = [proposals EXCEPT ![k] = card], UNCHANGED <<subject, store, runs>>,
         IsCard(card), card.status = "pending", Named(card.changes), card.undoable => Named(card.undo)
  PROVE  ChangesInv'
<1>1. \A j \in 1..MaxCards : proposals'[j] = IF j = k THEN card ELSE proposals[j]
  BY DEF ChangesInv
<1>2. proposals' = [j \in 1..MaxCards |-> proposals'[j]] /\ runs' = [j \in 1..MaxCards |-> runs'[j]]
  BY DEF ChangesInv
<1>3. ASSUME NEW j \in 1..MaxCards
      PROVE  CardFits(j)' /\ RunFits(j)'
  <2>1. CardFits(j) /\ RunFits(j)
    BY DEF ChangesInv
  <2>2. CASE j = k
    <3>1. runs[k].step = "idle"
      BY <2>1, <2>2 DEF RunFits
    <3> QED
      BY <1>1, <2>1, <2>2, <3>1 DEF CardFits, RunFits, Named
  <2>3. CASE j # k
    BY <1>1, <2>1, <2>3 DEF CardFits, RunFits, Named
  <2> QED
    BY <2>2, <2>3
<1> QED
  BY <1>2, <1>3 DEF ChangesInv

LEMMA NewCardIs ==
  ASSUME NEW owner, NEW changes, NEW undo, NEW table, NEW toOrg
  PROVE  LET card == NewCard(owner, changes, undo, table, toOrg) IN
         /\ IsCard(card) /\ card.status = "pending" /\ card.owner = owner /\ card.changes = changes /\ card.undo = undo
         /\ card.rows = table /\ card.toOrg = toOrg /\ (card.undoable <=> undo # <<>>)
<1> DEFINE able == undo # <<>>
           card == [status |-> "pending", owner |-> owner, changes |-> changes, undo |-> undo, undoable |-> able,
                    rows |-> table, toOrg |-> toOrg]
<1>1. NewCard(owner, changes, undo, table, toOrg) = card
  BY DEF NewCard
<1> HIDE DEF able
<1>2. /\ IsCard(card) /\ card.status = "pending" /\ card.owner = owner /\ card.changes = changes /\ card.undo = undo
      /\ card.rows = table /\ card.toOrg = toOrg /\ card.undoable = able
  BY DEF IsCard
<1> HIDE DEF card
<1> QED
  BY <1>1, <1>2 DEF able

\* The first card is shown.
LEMMA ShowStep ==
  ASSUME ChangesInv, NEW owner, NEW changes, NEW undo, NEW table, NEW toOrg,
         Show(NewCard(owner, changes, undo, table, toOrg)), Named(changes), undo # <<>> => Named(undo)
  PROVE  ChangesInv'
<1>1. 1 \in 1..MaxCards
  BY ChangesParameters
<1> DEFINE card == NewCard(owner, changes, undo, table, toOrg)
<1>2. proposals[1].status = "none" /\ proposals' = [proposals EXCEPT ![1] = card] /\ UNCHANGED <<subject, store, runs>>
  BY DEF Show
<1>3. IsCard(card) /\ card.status = "pending" /\ Named(card.changes) /\ (card.undoable => Named(card.undo))
  BY NewCardIs
<1> HIDE DEF card
<1> QED
  BY <1>1, <1>2, <1>3, CardAppears

LEMMA AskedIs == ASSUME NEW changes \in Asked(subject) PROVE Named(changes)
BY DEF Asked, Named

LEMMA ProposeStep ==
  ASSUME ChangesInv, NEW owner, NEW changes \in Asked(subject),
         ProposeAccount(owner, changes) \/ ProposeFields(owner, changes) \/ ProposeHours(owner, changes)
  PROVE  ChangesInv'
<1>1. Named(changes)
  BY AskedIs
<1>2. Named(HadBefore(owner, changes))
  BY <1>1 DEF Named, HadBefore
<1>3. CASE ProposeAccount(owner, changes)
  <2> DEFINE starts == owner = "num" /\ ~OwnAccount(store)
             undo == IF starts THEN Empty(Account) ELSE HadBefore(owner, changes)
  <2>1. Named(Empty(Account))
    BY <1>3 DEF ProposeAccount, Named, FieldsOf, Empty, Account
  <2>2. Named(undo)
    BY <1>2, <2>1
  <2>3. PICK table, toOrg : Show(NewCard(owner, changes, undo, table, toOrg))
    BY <1>3 DEF ProposeAccount
  <2> HIDE DEF undo
  <2> QED
    BY <1>1, <2>2, <2>3, ShowStep
<1>4. CASE ProposeFields(owner, changes)
  <2>1. PICK table, toOrg : Show(NewCard(owner, changes, HadBefore(owner, changes), table, toOrg))
    BY <1>4 DEF ProposeFields
  <2> QED
    BY <1>1, <1>2, <2>1, ShowStep
<1>5. CASE ProposeHours(owner, changes)
  <2> DEFINE week == Partial(changes, ShownBy(owner, store))
  <2>1. PICK table, toOrg : Show(NewCard(owner, week, WeekBack(owner), table, toOrg))
    BY <1>5 DEF ProposeHours
  <2>2. subject = "hours" /\ FieldsOf(subject) = {"mon", "tue"}
    BY <1>5 DEF ProposeHours, FieldsOf
  <2>3. Named(week)
    <3>1. DOMAIN week = DOMAIN changes \cup DOMAIN ShownBy(owner, store)
      BY DEF Partial
    <3>2. DOMAIN ShownBy(owner, store) = FieldsOf(subject)
      BY DEF ShownBy
    <3> QED
      BY <1>1, <3>1, <3>2 DEF Named
  <2>4. Named(WeekBack(owner))
    <3>1. DOMAIN WeekBack(owner) = {"mon", "tue"}
      BY <2>2 DEF WeekBack, WeekDays, ShownBy
    <3> QED
      BY <2>2, <3>1 DEF Named
  <2> HIDE DEF week
  <2> QED
    BY <2>1, <2>3, <2>4, ShowStep
<1> QED
  BY <1>3, <1>4, <1>5

LEMMA ProposeOtherStep ==
  ASSUME ChangesInv, ProposeOrganizationHours \/ ProposeBot \/ \E numbers \in (SUBSET {"first", "second"}) \ {{}} : ProposeClosure(numbers)
  PROVE  ChangesInv'
<1>1. CASE ProposeOrganizationHours
  <2> DEFINE week == [d \in WeekDays |-> Inherit]
             back == ShownBy("num", store)
  <2>1. PICK table, toOrg : Show(NewCard("num", week, back, table, toOrg))
    BY <1>1 DEF ProposeOrganizationHours
  <2>2. FieldsOf(subject) = {"mon", "tue"}
    BY <1>1 DEF ProposeOrganizationHours, FieldsOf
  <2>3. Named(week) /\ Named(back)
    BY <2>2 DEF Named, WeekDays, ShownBy
  <2> HIDE DEF week, back
  <2> QED
    BY <2>1, <2>3, ShowStep
<1>2. CASE ProposeBot
  <2> DEFINE flipped == [bot |-> IF store[<<"num", "bot">>] = "on" THEN "off" ELSE "on"]
             back == HadBefore("num", flipped)
  <2>1. PICK table, toOrg : Show(NewCard("num", flipped, back, table, toOrg))
    BY <1>2 DEF ProposeBot
  <2>2. FieldsOf(subject) = {"bot"}
    BY <1>2 DEF ProposeBot, FieldsOf
  <2>3. DOMAIN flipped = {"bot"}
    OBVIOUS
  <2>4. DOMAIN back = DOMAIN flipped
    BY DEF HadBefore
  <2> HIDE DEF flipped, back
  <2>5. Named(flipped) /\ Named(back)
    BY <2>2, <2>3, <2>4 DEF Named
  <2> QED
    BY <2>1, <2>5, ShowStep
<1>3. ASSUME NEW numbers \in (SUBSET {"first", "second"}) \ {{}}, ProposeClosure(numbers)
      PROVE  ChangesInv'
  <2> DEFINE made == [f \in numbers |-> "n"]
  <2>1. PICK table, toOrg : Show(NewCard("row", made, <<>>, table, toOrg))
    BY <1>3 DEF ProposeClosure
  <2>2. Named(made)
    BY <1>3 DEF ProposeClosure, Named, FieldsOf
  <2> HIDE DEF made
  <2> QED
    BY <2>1, <2>2, ShowStep
<1> QED
  BY <1>1, <1>2, <1>3

LEMMA UndoStep ==
  ASSUME ChangesInv, NEW k \in 1..MaxCards, ProposeUndo(k)
  PROVE  ChangesInv'
<1>1. k - 1 \in 1..MaxCards
  BY ChangesParameters DEF ProposeUndo
<1>2. PICK table :
        proposals' = [proposals EXCEPT ![k] =
          NewCard(proposals[k - 1].owner, proposals[k - 1].undo, proposals[k - 1].changes, table, proposals[k - 1].toOrg)]
  BY DEF ProposeUndo
<1> DEFINE card == NewCard(proposals[k - 1].owner, proposals[k - 1].undo, proposals[k - 1].changes, table, proposals[k - 1].toOrg)
<1>3. /\ IsCard(card) /\ card.status = "pending" /\ card.changes = proposals[k - 1].undo
      /\ card.undo = proposals[k - 1].changes
  BY NewCardIs
<1>4. Named(proposals[k - 1].changes) /\ Named(proposals[k - 1].undo)
  BY <1>1 DEF ChangesInv, CardFits, ProposeUndo
<1>5. proposals' = [proposals EXCEPT ![k] = card] /\ proposals[k].status = "none" /\ UNCHANGED <<subject, store, runs>>
  BY <1>2 DEF ProposeUndo
<1> HIDE DEF card
<1> QED
  BY <1>3, <1>4, <1>5, CardAppears

-----------------------------------------------------------------------------
\* A run that moves on, its card as it was or one step further.
LEMMA RunMoves ==
  ASSUME ChangesInv, NEW k \in 1..MaxCards, NEW run, NEW status \in {"confirmed", "failed"},
         proposals[k].status # "none", UNCHANGED <<subject, store>>,
         proposals' = [proposals EXCEPT ![k].status = status], runs' = [runs EXCEPT ![k] = run],
         IsRun(run), run.step \in {"idle", "calling", "writing", "done"},
         run.step \in {"calling", "writing"} => run.left # <<>> /\ run.left \in Seq(SUBSET (DOMAIN proposals[k].changes)),
         run.step = "writing" => run.seen = store
  PROVE  ChangesInv'
<1> DEFINE row == proposals[k]
           card == [row EXCEPT !.status = status]
<1>0. CardFits(k) /\ RunFits(k)
  BY DEF ChangesInv
<1>1. IsCard(card) /\ card.status = status /\ card.changes = row.changes /\ card.undo = row.undo /\ card.undoable = row.undoable
  <2>1. IsCard(row)
    BY <1>0 DEF CardFits
  <2> HIDE DEF row
  <2> QED
    BY <2>1 DEF IsCard
<1>2. \A j \in 1..MaxCards : proposals'[j] = (IF j = k THEN card ELSE proposals[j]) /\ runs'[j] = (IF j = k THEN run ELSE runs[j])
  BY DEF ChangesInv
<1>3. proposals' = [j \in 1..MaxCards |-> proposals'[j]] /\ runs' = [j \in 1..MaxCards |-> runs'[j]]
  BY DEF ChangesInv
<1> HIDE DEF card
<1>4. ASSUME NEW j \in 1..MaxCards
      PROVE  CardFits(j)' /\ RunFits(j)'
  <2>1. CardFits(j) /\ RunFits(j)
    BY DEF ChangesInv
  <2>2. CASE j = k
    <3>1. proposals'[j] = card /\ runs'[j] = run
      BY <1>2, <2>2
    <3>2. CardFits(j)'
      BY <1>0, <1>1, <3>1 DEF CardFits, Named
    <3>3. RunFits(j)'
      BY <1>1, <3>1 DEF RunFits
    <3> QED
      BY <3>2, <3>3
  <2>3. CASE j # k
    BY <1>2, <2>1, <2>3 DEF CardFits, RunFits, Named
  <2> QED
    BY <2>2, <2>3
<1> QED
  BY <1>3, <1>4 DEF ChangesInv

LEMMA ConfirmStep ==
  ASSUME ChangesInv, NEW k \in 1..MaxCards, ConfirmCard(k)
  PROVE  ChangesInv'
<1> DEFINE run == [AtRest EXCEPT !.step = "calling", !.left = CallsOf(k)]
<1>1. CallsOf(k) # <<>> /\ CallsOf(k) \in Seq(SUBSET (DOMAIN proposals[k].changes))
  BY CallsAre DEF ChangesInv, CardFits, ConfirmCard
<1>2. IsRun(run) /\ run.step = "calling" /\ run.left = CallsOf(k)
  BY RestIsARun DEF IsRun
<1>3. /\ proposals[k].status # "none" /\ proposals' = [proposals EXCEPT ![k].status = "confirmed"]
      /\ runs' = [runs EXCEPT ![k] = run] /\ UNCHANGED <<subject, store>>
  BY DEF ConfirmCard
<1> HIDE DEF run
<1> QED
  BY <1>1, <1>2, <1>3, RunMoves

LEMMA CallStep ==
  ASSUME ChangesInv, NEW k \in 1..MaxCards, Call(k)
  PROVE  ChangesInv'
<1>0. CardFits(k) /\ RunFits(k) /\ runs[k].step = "calling"
  BY DEF ChangesInv, Call
<1> DEFINE here == runs[k]
           run == [here EXCEPT !.step = "writing", !.seen = store, !.fresh = TRUE]
           row == proposals[k]
<1>1. row.status \in {"confirmed", "failed"} /\ here.left # <<>> /\ here.left \in Seq(SUBSET (DOMAIN row.changes))
  BY <1>0 DEF RunFits
<1>2. runs' = [runs EXCEPT ![k] = run]
  <2>1. runs' = [runs EXCEPT ![k].step = "writing", ![k].seen = store, ![k].fresh = TRUE]
    BY DEF Call
  <2> QED
    BY <2>1 DEF ChangesInv
<1>3. proposals' = [proposals EXCEPT ![k].status = row.status] /\ UNCHANGED <<subject, store>>
  <2>1. proposals' = proposals /\ UNCHANGED <<subject, store>>
    BY DEF Call
  <2>2. IsCard(row)
    BY <1>0 DEF CardFits
  <2>3. [row EXCEPT !.status = row.status] = row
    BY <2>2 DEF IsCard
  <2>4. [proposals EXCEPT ![k] = row] = proposals
    BY DEF ChangesInv
  <2> QED
    BY <2>1, <2>3, <2>4
<1>4. IsRun(run) /\ run.step = "writing" /\ run.left = here.left /\ run.seen = store
  <2>1. IsRun(here)
    BY <1>0 DEF RunFits
  <2> QED
    BY <2>1 DEF IsRun
<1> HIDE DEF run
<1> QED
  BY <1>1, <1>2, <1>3, <1>4, RunMoves

LEMMA RefuseStep ==
  ASSUME ChangesInv, NEW k \in 1..MaxCards, Refuse(k)
  PROVE  ChangesInv'
<1> DEFINE run == [AtRest EXCEPT !.step = "done"]
<1>1. CardFits(k) /\ RunFits(k) /\ runs[k].step = "calling"
  BY DEF ChangesInv, Refuse
<1>2. IsRun(run) /\ run.step = "done"
  BY RestIsARun DEF IsRun
<1>3. /\ proposals[k].status # "none" /\ proposals' = [proposals EXCEPT ![k].status = "failed"]
      /\ runs' = [runs EXCEPT ![k] = run] /\ UNCHANGED <<subject, store>>
  BY <1>1 DEF Refuse, RunFits
<1> HIDE DEF run
<1> QED
  BY <1>2, <1>3, RunMoves

\* Every other run has read a store that is no more.
LEMMA Staled ==
  ASSUME NEW run, IsRun(run)
  PROVE  LET old == [run EXCEPT !.fresh = FALSE] IN
         IsRun(old) /\ old.step = run.step /\ old.left = run.left /\ ~old.fresh
BY DEF IsRun

LEMMA StaleFits ==
  ASSUME ChangesInv, NEW j \in 1..MaxCards, UNCHANGED <<subject, proposals>>,
         runs'[j] = [runs[j] EXCEPT !.fresh = FALSE]
  PROVE  CardFits(j)' /\ RunFits(j)'
<1> DEFINE run == runs[j]
           old == [run EXCEPT !.fresh = FALSE]
<1>1. CardFits(j) /\ RunFits(j)
  BY DEF ChangesInv
<1>2. IsRun(old) /\ old.step = run.step /\ old.left = run.left /\ ~old.fresh
  BY <1>1, Staled DEF RunFits
<1>3. runs'[j] = old
  OBVIOUS
<1> HIDE DEF old
<1> QED
  BY <1>1, <1>2, <1>3 DEF CardFits, RunFits, Named

LEMMA WriteStep ==
  ASSUME ChangesInv, NEW k \in 1..MaxCards, Write(k)
  PROVE  ChangesInv'
<1> DEFINE run == [AtRest EXCEPT !.step = IF Len(runs[k].left) = 1 THEN "done" ELSE "calling", !.left = Tail(runs[k].left)]
<1>1. IsRun(run) /\ run.step = (IF Len(runs[k].left) = 1 THEN "done" ELSE "calling") /\ run.left = Tail(runs[k].left)
  BY RestIsARun DEF IsRun
<1>2. /\ runs' = [j \in 1..MaxCards |-> IF j = k THEN run ELSE [runs[j] EXCEPT !.fresh = FALSE]]
      /\ UNCHANGED <<subject, proposals>> /\ runs[k].step = "writing"
  BY DEF Write
<1> HIDE DEF run
<1>3. ASSUME NEW j \in 1..MaxCards
      PROVE  CardFits(j)' /\ RunFits(j)'
  <2>1. CASE j = k
    <3>1. CardFits(k) /\ RunFits(k)
      BY DEF ChangesInv
    <3> DEFINE named == DOMAIN proposals[k].changes
               left == runs[k].left
    <3>2. left # <<>> /\ left \in Seq(SUBSET named) /\ proposals[k].status \in {"confirmed", "failed"}
      BY <1>2, <3>1 DEF RunFits
    <3>3. Len(left) # 1 => Tail(left) # <<>> /\ Tail(left) \in Seq(SUBSET named)
      BY <3>2, LeftAre
    <3>4. runs'[j] = run
      BY <1>2, <2>1
    <3>5. CardFits(j)'
      BY <1>2, <2>1, <3>1 DEF CardFits, Named
    <3>6. RunFits(j)'
      BY <1>1, <1>2, <2>1, <3>2, <3>3, <3>4 DEF RunFits
    <3> QED
      BY <3>5, <3>6
  <2>2. CASE j # k
    BY <1>2, <2>2, StaleFits
  <2> QED
    BY <2>1, <2>2
<1>4. proposals' = [j \in 1..MaxCards |-> proposals'[j]] /\ runs' = [j \in 1..MaxCards |-> runs'[j]]
  BY <1>2 DEF ChangesInv
<1> QED
  BY <1>2, <1>3, <1>4 DEF ChangesInv

LEMMA EditStep ==
  ASSUME ChangesInv, NEW p, NEW v, PanelEdit(p, v)
  PROVE  ChangesInv'
<1>1. runs' = [k \in 1..MaxCards |-> [runs[k] EXCEPT !.fresh = FALSE]] /\ UNCHANGED <<subject, proposals>>
  BY DEF PanelEdit
<1>2. \A j \in 1..MaxCards : CardFits(j)' /\ RunFits(j)'
  BY <1>1, StaleFits
<1>3. proposals' = [j \in 1..MaxCards |-> proposals'[j]] /\ runs' = [j \in 1..MaxCards |-> runs'[j]]
  BY <1>1 DEF ChangesInv
<1> QED
  BY <1>1, <1>2, <1>3 DEF ChangesInv

LEMMA ChangesInvStep == ChangesInv /\ [ChangesNext]_changeVars => ChangesInv'
<1> SUFFICES ASSUME ChangesInv, [ChangesNext]_changeVars PROVE ChangesInv'
  OBVIOUS
<1>1. ASSUME NEW owner \in OwnersOf(subject), NEW changes \in Asked(subject),
             ProposeAccount(owner, changes) \/ ProposeFields(owner, changes) \/ ProposeHours(owner, changes)
      PROVE  ChangesInv'
  BY <1>1, ProposeStep
<1>2. CASE ProposeOrganizationHours \/ ProposeBot \/ \E numbers \in (SUBSET {"first", "second"}) \ {{}} : ProposeClosure(numbers)
  BY <1>2, ProposeOtherStep
<1>3. ASSUME NEW k \in 1..MaxCards, ProposeUndo(k) \/ ConfirmCard(k) \/ Call(k) \/ Refuse(k) \/ Write(k)
      PROVE  ChangesInv'
  BY <1>3, UndoStep, ConfirmStep, CallStep, RefuseStep, WriteStep
<1>4. ASSUME NEW p, NEW v, PanelEdit(p, v)
      PROVE  ChangesInv'
  BY <1>4, EditStep
<1>5. CASE UNCHANGED changeVars
  BY <1>5 DEF changeVars, ChangesInv, CardFits, RunFits, Named
<1> QED
  BY <1>1, <1>2, <1>3, <1>4, <1>5 DEF ChangesNext

-----------------------------------------------------------------------------
\* A run that is writing stops only by what it writes.
LEMMA OnlyWriteEnds ==
  ASSUME ChangesInv, [ChangesNext]_changeVars, NEW k \in 1..MaxCards, runs[k].step = "writing", runs'[k].step # "writing"
  PROVE  Write(k)
<1>0. /\ \A j \in 1..MaxCards : IsRun(runs[j]) /\ (proposals[j].status = "pending" => runs[j].step = "idle")
      /\ runs = [j \in 1..MaxCards |-> runs[j]]
  BY DEF ChangesInv, RunFits
<1>1. CASE UNCHANGED runs
  BY <1>1
<1>2. ASSUME NEW j \in 1..MaxCards, ConfirmCard(j)
      PROVE  FALSE
  <2>1. j # k
    BY <1>0, <1>2 DEF ConfirmCard
  <2> QED
    BY <1>0, <1>2, <2>1 DEF ConfirmCard
<1>3. ASSUME NEW j \in 1..MaxCards, Call(j) \/ Refuse(j)
      PROVE  FALSE
  <2>1. j # k
    BY <1>3 DEF Call, Refuse
  <2>2. runs'[k] = runs[k]
    BY <1>0, <1>3, <2>1 DEF Call, Refuse
  <2> QED
    BY <2>2
<1>4. ASSUME NEW j \in 1..MaxCards, Write(j), j # k
      PROVE  FALSE
  <2>1. runs'[k] = [runs[k] EXCEPT !.fresh = FALSE]
    BY <1>4 DEF Write
  <2> QED
    BY <1>0, <2>1, Staled
<1>5. ASSUME NEW p, NEW v, PanelEdit(p, v)
      PROVE  FALSE
  <2>1. runs'[k] = [runs[k] EXCEPT !.fresh = FALSE]
    BY <1>5 DEF PanelEdit
  <2> QED
    BY <1>0, <2>1, Staled
<1>6. CASE ChangesNext
  <2>1. ASSUME NEW owner \in OwnersOf(subject), NEW changes \in Asked(subject),
               ProposeAccount(owner, changes) \/ ProposeFields(owner, changes) \/ ProposeHours(owner, changes)
        PROVE  UNCHANGED runs
    BY <2>1 DEF ProposeAccount, ProposeFields, ProposeHours, Show
  <2>2. CASE ProposeOrganizationHours \/ ProposeBot \/ \E numbers \in (SUBSET {"first", "second"}) \ {{}} : ProposeClosure(numbers)
    BY <2>2 DEF ProposeOrganizationHours, ProposeBot, ProposeClosure, Show
  <2>3. ASSUME NEW j \in 1..MaxCards, ProposeUndo(j)
        PROVE  UNCHANGED runs
    BY <2>3 DEF ProposeUndo
  <2> QED
    BY <1>1, <1>2, <1>3, <1>4, <1>5, <1>6, <2>1, <2>2, <2>3 DEF ChangesNext
<1>7. CASE UNCHANGED changeVars
  BY <1>1, <1>7 DEF changeVars
<1> QED
  BY <1>6, <1>7

LEMMA OthersStep == ChangesInv /\ [ChangesNext]_changeVars => OthersStay
<1> SUFFICES ASSUME ChangesInv, [ChangesNext]_changeVars,
                    NEW k \in 1..MaxCards, runs[k].step = "writing", runs'[k].step # "writing", runs[k].fresh,
                    NEW p \in PlacesOf(subject),
                    p[1] \notin {proposals[k].owner, "twin"} \/ (p[1] # "twin" /\ p[2] \notin DOMAIN proposals[k].changes)
             PROVE  store'[p] = store[p]
  BY DEF OthersStay
<1>1. Write(k)
  BY OnlyWriteEnds
<1>2. runs[k].seen = store /\ Head(runs[k].left) \subseteq DOMAIN proposals[k].changes
  <2>1. RunFits(k)
    BY DEF ChangesInv
  <2> DEFINE named == DOMAIN proposals[k].changes
             left == runs[k].left
  <2>2. left # <<>> /\ left \in Seq(SUBSET named) /\ runs[k].seen = store
    BY <2>1 DEF RunFits
  <2>3. Head(left) \in SUBSET named
    BY <2>2, LeftAre
  <2> QED
    BY <2>2, <2>3
<1>3. OwnRow(k)[p] = store[p]
  BY <1>2 DEF OwnRow
<1>4. p # <<"twin", "status">>
  OBVIOUS
<1>5. Written(k)[p] = OwnRow(k)[p]
  <2>1. DOMAIN OwnRow(k) = PlacesOf(subject)
    BY DEF OwnRow
  <2> QED
    BY <1>4, <2>1 DEF Written
<1>6. store' = Written(k)
  BY <1>1 DEF Write
<1> QED
  BY <1>3, <1>5, <1>6

-----------------------------------------------------------------------------
(* What a card promises ("changes")                                          *)

\* What people see, and a change written, of a kind of card.
ShownIn(s, owner, st) ==
  [f \in FieldsOf(s) |->
     IF owner = "num" /\ ((s = "account" /\ ~OwnAccount(st)) \/ (s = "hours" /\ ~OwnHours(st)))
       THEN st[<<"org", f>>] ELSE st[<<owner, f>>]]

Twin == <<"twin", "status">>

Put(s, owner, changes, S, st) ==
  [p \in PlacesOf(s) |->
     IF p[1] = owner /\ p[2] \in S THEN changes[p[2]]
     ELSE IF p = Twin /\ s \in {"matter", "request"} /\ StateField(s) \in S /\ st[p] # NoTwin
            THEN TwinStatus(s, changes[StateField(s)]) ELSE st[p]]

With(s, card, st) == Put(s, card.owner, card.changes, DOMAIN card.changes, st)

CallsIn(s, changes) ==
  LET named == DOMAIN changes
      OnlyIf(S) == IF S = {} THEN <<>> ELSE <<S>>
  IN CASE s = "data" -> OnlyIf(named \cap {"botName"}) \o OnlyIf(named \cap {"tow"})
       [] s = "closure" -> OnlyIf(named \cap {"first"}) \o OnlyIf(named \cap {"second"})
       [] OTHER -> <<named>>

\* Going back on a card restores the store it is confirmed on.
Back(s, card, st) == Put(s, card.owner, card.undo, DOMAIN card.undo, With(s, card, st)) = st

\* Its rows are what is then seen, and what was.
Tells(s, card, st) ==
  \A f \in FieldsOf(s) :
    /\ ShownIn(s, card.owner, With(s, card, st))[f] =
         IF f \in DOMAIN card.rows THEN card.rows[f].to ELSE ShownIn(s, card.owner, st)[f]
    /\ f \in DOMAIN card.rows => card.rows[f].from = ShownIn(s, card.owner, st)[f]

\* What a card promises, confirmed on a store.
Stands(s, card, st) ==
  /\ card.undoable => Back(s, card, st)
  /\ (card.toOrg => s = "hours") => Tells(s, card, st)

\* A card that goes back on another.
Undoes(back, card) ==
  /\ card.undoable /\ back.undoable /\ back.owner = card.owner /\ back.toOrg = card.toOrg
  /\ back.changes = card.undo /\ back.undo = card.changes
  /\ back.rows = [f \in DOMAIN card.rows |-> [from |-> card.rows[f].to, to |-> card.rows[f].from]]

\* Which of its calls are done.
HalfDone(s, card, left, before, st) ==
  \/ left = CallsIn(s, card.changes) /\ st = before
  \/ \E S, T \in SUBSET FieldsOf(s) :
       CallsIn(s, card.changes) = <<S, T>> /\ left = <<T>> /\ st = Put(s, card.owner, card.changes, S, before)

Shaped(s, st) == st = [p \in PlacesOf(s) |-> st[p]]

\* The stores a first card is proposed on.
CanStart(s, st) == (\A p \in PlacesOf(s) : st[p] \in FoundIn(p)) /\ MayHold(s, st)

UndoFits(k) == DOMAIN proposals[k].changes \subseteq FieldsOf(subject) /\ DOMAIN proposals[k].undo \subseteq FieldsOf(subject)

Claimed(k) == proposals[k].status \in {"confirmed", "failed"}

\* While nobody edits the cards come one after another, each going back on the
\* one before.
InTurn(k) ==
  /\ proposals[k].status # "none" =>
       /\ proposals[k].owner \in {"org", "num", "row"}
       /\ \A j \in 1..(k - 1) : Applied(j)
       /\ k > 1 => Undoes(proposals[k], proposals[k - 1])
  /\ Claimed(k) => runs[k].step # "idle" /\ (k > 1 => was[k] = With(subject, proposals[k - 1], was[k - 1]))
  /\ proposals[k].status = "failed" => runs[k].step = "done"

\* What each has promised, and how far it is.
Promised(k) ==
  /\ proposals[k].status = "pending" => Stands(subject, proposals[k], store)
  /\ proposals[k].status = "confirmed" => Stands(subject, proposals[k], was[k])
  /\ runs[k].step \in {"calling", "writing"} => HalfDone(subject, proposals[k], runs[k].left, was[k], store)
  /\ runs[k].step = "writing" => runs[k].fresh
  /\ Applied(k) /\ LastCard(k) => store = With(subject, proposals[k], was[k])
  /\ proposals[k].status = "failed" /\ LastCard(k) /\ subject \notin {"data", "closure"} => store = was[k]

Undisturbed ==
  /\ Shaped(subject, store) /\ \A k \in 1..MaxCards : Shaped(subject, was[k])
  /\ proposals[1].status = "none" => CanStart(subject, store)
  /\ \A k \in 1..MaxCards : InTurn(k) /\ Promised(k)

CardsInv ==
  /\ DOMAIN store = PlacesOf(subject) /\ panelEdits \in 0..MaxPanelEdits /\ refused \in 0..MaxRefused /\ quiet \in BOOLEAN
  /\ was = [k \in 1..MaxCards |-> was[k]]
  /\ \A k \in 1..MaxCards : UndoFits(k)
  /\ proposals[1].status = "none" => quiet
  /\ quiet => Undisturbed

-----------------------------------------------------------------------------
LEMMA PlacesArePairs == ASSUME NEW s \in Subjects PROVE \A p \in PlacesOf(s) : p = <<p[1], p[2]>>
<1>1. \A p \in OwnersOf(s) \X FieldsOf(s) : p = <<p[1], p[2]>>
  OBVIOUS
<1> QED
  BY <1>1 DEF PlacesOf

LEMMA PutAt ==
  ASSUME NEW s, NEW owner, NEW changes, NEW S, NEW st, NEW p \in PlacesOf(s)
  PROVE  Put(s, owner, changes, S, st)[p] =
           IF p[1] = owner /\ p[2] \in S THEN changes[p[2]]
           ELSE IF p = Twin /\ s \in {"matter", "request"} /\ StateField(s) \in S /\ st[p] # NoTwin
                  THEN TwinStatus(s, changes[StateField(s)]) ELSE st[p]
BY DEF Put

LEMMA PutIsShaped == ASSUME NEW s, NEW owner, NEW changes, NEW S, NEW st PROVE Shaped(s, Put(s, owner, changes, S, st))
BY DEF Put, Shaped

\* Two stores are one when they hold the same.
LEMMA SameStore ==
  ASSUME NEW s, NEW st, NEW su, Shaped(s, st), Shaped(s, su), \A p \in PlacesOf(s) : st[p] = su[p]
  PROVE  st = su
BY DEF Shaped

\* Writing back what the fields of an owner had, and the state its twin had with
\* them.
LEMMA PutBack ==
  ASSUME NEW s \in Subjects, NEW owner \in {"org", "num", "row"}, NEW changes, NEW undo, NEW st, Shaped(s, st),
         DOMAIN changes \subseteq DOMAIN undo,
         \A f \in DOMAIN undo : <<owner, f>> \in PlacesOf(s) => undo[f] = st[<<owner, f>>],
         s \in {"matter", "request"} /\ StateField(s) \in DOMAIN undo =>
           /\ StateField(s) \in DOMAIN changes
           /\ st[Twin] # NoTwin => TwinStatus(s, changes[StateField(s)]) # NoTwin /\ TwinStatus(s, undo[StateField(s)]) = st[Twin]
  PROVE  Put(s, owner, undo, DOMAIN undo, Put(s, owner, changes, DOMAIN changes, st)) = st
<1> DEFINE su == Put(s, owner, changes, DOMAIN changes, st)
           sv == Put(s, owner, undo, DOMAIN undo, su)
<1>1. \A p \in PlacesOf(s) : su[p] =
           IF p[1] = owner /\ p[2] \in DOMAIN changes THEN changes[p[2]]
           ELSE IF p = Twin /\ s \in {"matter", "request"} /\ StateField(s) \in DOMAIN changes /\ st[p] # NoTwin
                  THEN TwinStatus(s, changes[StateField(s)]) ELSE st[p]
  BY PutAt
<1>2. \A p \in PlacesOf(s) : sv[p] =
           IF p[1] = owner /\ p[2] \in DOMAIN undo THEN undo[p[2]]
           ELSE IF p = Twin /\ s \in {"matter", "request"} /\ StateField(s) \in DOMAIN undo /\ su[p] # NoTwin
                  THEN TwinStatus(s, undo[StateField(s)]) ELSE su[p]
  BY PutAt
<1>3. Shaped(s, sv)
  BY PutIsShaped
<1> HIDE DEF su, sv
<1>4. ASSUME NEW p \in PlacesOf(s)
      PROVE  sv[p] = st[p]
  <2>1. p = <<p[1], p[2]>>
    BY PlacesArePairs
  <2>2. CASE p[1] = owner /\ p[2] \in DOMAIN undo
    <3>1. <<owner, p[2]>> \in PlacesOf(s) /\ st[<<owner, p[2]>>] = st[p]
      BY <2>1, <2>2
    <3> QED
      BY <1>2, <2>2, <3>1
  <2>3. CASE ~(p[1] = owner /\ p[2] \in DOMAIN undo) /\ p = Twin /\ s \in {"matter", "request"} /\ StateField(s) \in DOMAIN undo
    <3>1. p[1] # owner
      BY <2>3 DEF Twin
    <3>2. su[p] = IF st[p] # NoTwin THEN TwinStatus(s, changes[StateField(s)]) ELSE st[p]
      BY <1>1, <2>3, <3>1
    <3>3. sv[p] = IF su[p] # NoTwin THEN TwinStatus(s, undo[StateField(s)]) ELSE su[p]
      BY <1>2, <2>3, <3>1
    <3> QED
      BY <2>3, <3>2, <3>3
  <2>4. CASE ~(p[1] = owner /\ p[2] \in DOMAIN undo) /\ ~(p = Twin /\ s \in {"matter", "request"} /\ StateField(s) \in DOMAIN undo)
    BY <1>1, <1>2, <2>4
  <2> QED
    BY <2>2, <2>3, <2>4
<1> QED
  BY <1>3, <1>4, SameStore DEF sv, su

-----------------------------------------------------------------------------
LEMMA ShownBySays == \A owner, st : ShownBy(owner, st) = ShownIn(subject, owner, st)
BY DEF ShownBy, ShownIn

\* A row, or none, for what is seen of a field before and after.
RowTells(listed, before, seen, f) ==
  IF f \in DOMAIN listed THEN listed[f].to = seen[f] /\ listed[f].from = before[f] ELSE seen[f] = before[f]

LEMMA TellsSays ==
  ASSUME NEW s, NEW card, NEW st, \A f \in FieldsOf(s) : RowTells(card.rows, ShownIn(s, card.owner, st), ShownIn(s, card.owner, With(s, card, st)), f)
  PROVE  Tells(s, card, st)
<1>1. \A listed, before, seen, f : RowTells(listed, before, seen, f) =>
        /\ seen[f] = IF f \in DOMAIN listed THEN listed[f].to ELSE before[f]
        /\ f \in DOMAIN listed => listed[f].from = before[f]
  BY DEF RowTells
<1> QED
  BY <1>1 DEF Tells

LEMMA RowsTell ==
  ASSUME NEW before, NEW after, NEW seen, NEW f, seen[f] = IF f \in DOMAIN after THEN after[f] ELSE before[f]
  PROVE  RowTells(RowsOf(before, after), before, seen, f)
<1> DEFINE S == {g \in DOMAIN after : before[g] # after[g]}
           listed == [g \in S |-> [from |-> before[g], to |-> after[g]]]
<1>1. RowsOf(before, after) = listed
  BY DEF RowsOf
<1>2. CASE f \in S
  <2>1. listed[f] = [from |-> before[f], to |-> after[f]] /\ f \in DOMAIN listed /\ seen[f] = after[f]
    BY <1>2
  <2>2. listed[f].from = before[f] /\ listed[f].to = after[f]
    BY <2>1
  <2> QED
    BY <1>1, <2>1, <2>2 DEF RowTells
<1>3. CASE f \notin S
  <2>1. seen[f] = before[f] /\ f \notin DOMAIN listed
    BY <1>3
  <2> QED
    BY <1>1, <2>1 DEF RowTells
<1> QED
  BY <1>2, <1>3

\* A card that is made stands when going back on it restores the store and its
\* rows are what is then seen.
LEMMA CardStands ==
  ASSUME NEW s, NEW owner, NEW changes, NEW undo, NEW after, NEW toOrg, NEW st, NEW then,
         then = Put(s, owner, changes, DOMAIN changes, st),
         undo # <<>> => Put(s, owner, undo, DOMAIN undo, then) = st,
         (toOrg => s = "hours") =>
           \A f \in FieldsOf(s) : ShownIn(s, owner, then)[f] = IF f \in DOMAIN after THEN after[f] ELSE ShownIn(s, owner, st)[f]
  PROVE  Stands(s, NewCard(owner, changes, undo, RowsOf(ShownIn(s, owner, st), after), toOrg), st)
<1> DEFINE card == NewCard(owner, changes, undo, RowsOf(ShownIn(s, owner, st), after), toOrg)
<1>1. /\ card.owner = owner /\ card.changes = changes /\ card.undo = undo /\ card.toOrg = toOrg /\ (card.undoable <=> undo # <<>>)
      /\ card.rows = RowsOf(ShownIn(s, owner, st), after)
  BY NewCardIs
<1> HIDE DEF card
<1>2. With(s, card, st) = then
  BY <1>1 DEF With
<1>3. card.undoable => Back(s, card, st)
  BY <1>1, <1>2 DEF Back
<1>4. ASSUME toOrg => s = "hours"
      PROVE  Tells(s, card, st)
  <2>1. \A f \in FieldsOf(s) : RowTells(RowsOf(ShownIn(s, owner, st), after), ShownIn(s, owner, st), ShownIn(s, owner, then), f)
    BY <1>4, RowsTell
  <2> QED
    BY <1>1, <1>2, <2>1, TellsSays
<1>5. Stands(s, card, st)
  BY <1>1, <1>3, <1>4 DEF Stands
<1> QED
  BY <1>5 DEF card

LEMMA KindsAre ==
  /\ FieldsOf("account") = {"alias", "cbu"} /\ FieldsOf("data") = {"botName", "tow"} /\ FieldsOf("hours") = {"mon", "tue"}
  /\ FieldsOf("bot") = {"bot"} /\ FieldsOf("closure") = {"first", "second"} /\ FieldsOf("matter") = {"status", "category"}
  /\ FieldsOf("request") = {"state", "notes"} /\ FieldsOf("claim") = {"status", "claimNumber"}
  /\ OwnersOf("account") = {"org", "num"} /\ OwnersOf("hours") = {"org", "num"} /\ OwnersOf("data") = {"org"} /\ OwnersOf("bot") = {"num"}
  /\ \A s \in {"closure", "matter", "request", "claim"} : OwnersOf(s) = {"row"}
  /\ \A s \in Subjects : OwnersOf(s) \X FieldsOf(s) \subseteq PlacesOf(s)
BY DEF FieldsOf, OwnersOf, PlacesOf

LEMMA PlainShown ==
  ASSUME NEW s \in Subjects, NEW owner, NEW st, owner # "num" \/ s \notin {"account", "hours"}
  PROVE  \A f \in FieldsOf(s) : ShownIn(s, owner, st)[f] = st[<<owner, f>>]
BY DEF ShownIn

\* What a card of a row changes is what is then seen of it.
LEMMA PlainStands ==
  ASSUME NEW s \in Subjects, NEW owner \in OwnersOf(s), owner # "num" \/ s \notin {"account", "hours"},
         NEW st, Shaped(s, st), NEW changes, DOMAIN changes \subseteq FieldsOf(s), NEW undo,
         undo # <<>> => DOMAIN undo = DOMAIN changes /\ \A f \in DOMAIN changes : undo[f] = st[<<owner, f>>],
         s \in {"matter", "request"} /\ StateField(s) \in DOMAIN changes /\ st[Twin] # NoTwin =>
           TwinStatus(s, changes[StateField(s)]) # NoTwin /\ TwinStatus(s, st[<<owner, StateField(s)>>]) = st[Twin],
         NEW toOrg
  PROVE  Stands(s, NewCard(owner, changes, undo, RowsOf(ShownIn(s, owner, st), changes), toOrg), st)
<1>1. PICK then : then = Put(s, owner, changes, DOMAIN changes, st)
  OBVIOUS
<1>2. owner \in {"org", "num", "row"} /\ \A f \in FieldsOf(s) : <<owner, f>> \in PlacesOf(s)
  <2>1. OwnersOf(s) \X FieldsOf(s) \subseteq PlacesOf(s)
    BY KindsAre
  <2>2. owner \in {"org", "num", "row"}
    BY DEF OwnersOf
  <2> QED
    BY <2>1, <2>2
<1>3. undo # <<>> => Put(s, owner, undo, DOMAIN undo, then) = st
  BY <1>1, <1>2, PutBack
<1>4. \A f \in FieldsOf(s) : then[<<owner, f>>] = IF f \in DOMAIN changes THEN changes[f] ELSE st[<<owner, f>>]
  <2> SUFFICES ASSUME NEW f \in FieldsOf(s) PROVE then[<<owner, f>>] = IF f \in DOMAIN changes THEN changes[f] ELSE st[<<owner, f>>]
    OBVIOUS
  <2>1. PICK p \in PlacesOf(s) : p = <<owner, f>>
    BY <1>2
  <2>2. p[1] = owner /\ p[2] = f /\ p # Twin
    BY <1>2, <2>1 DEF Twin
  <2> QED
    BY <1>1, <2>1, <2>2, PutAt
<1>5. \A f \in FieldsOf(s) : ShownIn(s, owner, then)[f] = IF f \in DOMAIN changes THEN changes[f] ELSE ShownIn(s, owner, st)[f]
  <2>1. \A f \in FieldsOf(s) : ShownIn(s, owner, then)[f] = then[<<owner, f>>]
    BY PlainShown
  <2>2. \A f \in FieldsOf(s) : ShownIn(s, owner, st)[f] = st[<<owner, f>>]
    BY PlainShown
  <2> QED
    BY <1>4, <2>1, <2>2
<1> QED
  BY <1>1, <1>3, <1>5, CardStands

-----------------------------------------------------------------------------
(* Each kind of card *)

\* Where a week or an account is.
LEMMA NumPlaces ==
  /\ \A o \in {"org", "num"}, f \in {"alias", "cbu"} : <<o, f>> \in PlacesOf("account")
  /\ \A o \in {"org", "num"}, f \in {"mon", "tue"} : <<o, f>> \in PlacesOf("hours")
BY DEF PlacesOf, OwnersOf, FieldsOf

\* What a change of a number, or of its organization, leaves at a place of one of
\* them.
LEMMA NumPutAt ==
  ASSUME NEW s \in {"account", "hours"}, NEW owner, NEW changes, NEW S, NEW st, NEW then, then = Put(s, owner, changes, S, st),
         NEW o \in {"org", "num"}, NEW f \in FieldsOf(s)
  PROVE  /\ o = owner /\ f \in S => then[<<o, f>>] = changes[f]
         /\ ~(o = owner /\ f \in S) => then[<<o, f>>] = st[<<o, f>>]
<1>1. PICK p \in PlacesOf(s) : p = <<o, f>>
  BY NumPlaces, KindsAre
<1>2. p[1] = o /\ p[2] = f
  BY <1>1
<1> QED
  BY <1>1, <1>2, PutAt

\* A number's own, or its organization's.
Own(s, st) == IF s = "account" THEN OwnAccount(st) ELSE OwnHours(st)

LEMMA NumShown ==
  ASSUME NEW s \in {"account", "hours"}, NEW st, NEW f \in FieldsOf(s)
  PROVE  /\ ShownIn(s, "org", st)[f] = st[<<"org", f>>]
         /\ Own(s, st) => ShownIn(s, "num", st)[f] = st[<<"num", f>>]
         /\ ~Own(s, st) => ShownIn(s, "num", st)[f] = st[<<"org", f>>]
<1>1. ShownIn(s, "org", st)[f] = st[<<"org", f>>]
  BY DEF ShownIn
<1>2. CASE s = "account"
  BY <1>1, <1>2 DEF ShownIn, Own
<1>3. CASE s = "hours"
  BY <1>1, <1>3 DEF ShownIn, Own
<1> QED
  BY <1>2, <1>3

LEMMA OwnShown ==
  ASSUME NEW s \in {"account", "hours"}, NEW st, NEW owner \in {"org", "num"}, owner = "num" => Own(s, st)
  PROVE  \A f \in FieldsOf(s) : ShownIn(s, owner, st)[f] = st[<<owner, f>>]
<1>1. CASE owner = "org"
  BY <1>1 DEF ShownIn
<1>2. CASE owner = "num"
  <2>1. \A f \in FieldsOf(s) : ShownIn(s, "num", st)[f] = st[<<"num", f>>]
    BY <1>2, NumShown
  <2> QED
    BY <1>2, <2>1
<1> QED
  BY <1>1, <1>2

\* What a number or its organization changes of what it shows as its own.
LEMMA OwnStands ==
  ASSUME NEW s \in {"account", "hours"}, NEW owner \in {"org", "num"}, NEW changes, DOMAIN changes \subseteq FieldsOf(s), NEW st,
         NEW then, then = Put(s, owner, changes, DOMAIN changes, st), owner = "num" => Own(s, st) /\ Own(s, then)
  PROVE  \A f \in FieldsOf(s) : ShownIn(s, owner, then)[f] = IF f \in DOMAIN changes THEN changes[f] ELSE ShownIn(s, owner, st)[f]
<1> SUFFICES ASSUME NEW f \in FieldsOf(s)
             PROVE  ShownIn(s, owner, then)[f] = IF f \in DOMAIN changes THEN changes[f] ELSE ShownIn(s, owner, st)[f]
  OBVIOUS
<1>1. ShownIn(s, owner, then)[f] = then[<<owner, f>>]
  BY OwnShown
<1>2. ShownIn(s, owner, st)[f] = st[<<owner, f>>]
  BY OwnShown
<1>3. /\ f \in DOMAIN changes => then[<<owner, f>>] = changes[f]
      /\ f \notin DOMAIN changes => then[<<owner, f>>] = st[<<owner, f>>]
  BY NumPutAt
<1> QED
  BY <1>1, <1>2, <1>3

\* Going back on it.
LEMMA OwnBack ==
  ASSUME NEW s \in {"account", "hours"}, NEW owner \in {"org", "num"}, NEW changes, NEW st, Shaped(s, st),
         NEW then, then = Put(s, owner, changes, DOMAIN changes, st),
         NEW undo, DOMAIN changes \subseteq DOMAIN undo, DOMAIN undo \subseteq FieldsOf(s), \A f \in DOMAIN undo : undo[f] = st[<<owner, f>>]
  PROVE  Put(s, owner, undo, DOMAIN undo, then) = st
<1>1. s \in Subjects /\ owner \in {"org", "num", "row"} /\ s \notin {"matter", "request"}
  BY DEF Subjects
<1> QED
  BY <1>1, PutBack

LEMMA AccountPlaces == FieldsOf("account") = Account /\ Account = {"alias", "cbu"} /\ "account" \in {"account", "hours"}
BY KindsAre DEF Account

LEMMA AccountPut ==
  ASSUME NEW owner \in {"org", "num"}, NEW changes, DOMAIN changes \subseteq Account, NEW st,
         NEW then, then = Put("account", owner, changes, DOMAIN changes, st)
  PROVE  /\ \A f \in DOMAIN changes : then[<<owner, f>>] = changes[f]
         /\ \A f \in Account \ DOMAIN changes : then[<<owner, f>>] = st[<<owner, f>>]
<1> SUFFICES ASSUME NEW f \in Account
             PROVE  /\ f \in DOMAIN changes => then[<<owner, f>>] = changes[f]
                    /\ f \notin DOMAIN changes => then[<<owner, f>>] = st[<<owner, f>>]
  OBVIOUS
<1> QED
  BY AccountPlaces, NumPutAt

LEMMA Accounts ==
  ASSUME NEW st
  PROVE  /\ Own("account", st) <=> OwnAccount(st)
         /\ OwnAccount(st) <=> \E f \in Account : st[<<"num", f>>] # ""
BY DEF Own, OwnAccount

LEMMA AccountBack ==
  ASSUME NEW owner \in {"org", "num"}, NEW changes, DOMAIN changes \subseteq Account, NEW st, Shaped("account", st),
         NEW undo, DOMAIN changes \subseteq DOMAIN undo, DOMAIN undo \subseteq Account, \A f \in DOMAIN undo : undo[f] = st[<<owner, f>>]
  PROVE  Put("account", owner, undo, DOMAIN undo, Put("account", owner, changes, DOMAIN changes, st)) = st
BY AccountPlaces, OwnBack

\* A number that takes on an account.
LEMMA AccountStarts ==
  ASSUME NEW changes, DOMAIN changes \subseteq Account, NEW st, Shaped("account", st), ~OwnAccount(st),
         \E f \in DOMAIN changes : changes[f] # "", NEW toOrg
  PROVE  Stands("account", NewCard("num", changes, Empty(Account), RowsOf(ShownIn("account", "num", st), Partial(changes, Empty(Account))), toOrg), st)
<1>1. PICK then : then = Put("account", "num", changes, DOMAIN changes, st)
  OBVIOUS
<1>2. PICK undo : undo = Empty(Account)
  OBVIOUS
<1>3. PICK after : after = Partial(changes, undo)
  OBVIOUS
<1>4. DOMAIN undo = Account /\ \A f \in Account : undo[f] = "" /\ st[<<"num", f>>] = ""
  BY <1>2, Accounts DEF Empty
<1>5. Put("account", "num", undo, DOMAIN undo, then) = st
  <2>1. DOMAIN undo \subseteq Account /\ DOMAIN changes \subseteq DOMAIN undo /\ \A f \in DOMAIN undo : undo[f] = st[<<"num", f>>]
    BY <1>4
  <2>2. "num" \in {"org", "num"}
    OBVIOUS
  <2> QED
    BY ONLY <1>1, <2>1, <2>2, DOMAIN changes \subseteq Account, Shaped("account", st), AccountBack
<1>6. /\ \A f \in DOMAIN changes : then[<<"num", f>>] = changes[f]
      /\ \A f \in Account \ DOMAIN changes : then[<<"num", f>>] = st[<<"num", f>>]
  BY ONLY <1>1, DOMAIN changes \subseteq Account, AccountPut
<1>7. DOMAIN after = Account /\ \A f \in Account : then[<<"num", f>>] = after[f]
  <2>1. after = [x \in DOMAIN changes \cup DOMAIN undo |-> IF x \in DOMAIN changes THEN changes[x] ELSE undo[x]]
    BY <1>3 DEF Partial
  <2> QED
    BY <1>4, <1>6, <2>1
<1>8. Own("account", then)
  BY <1>6, Accounts
<1>9. \A f \in FieldsOf("account") : ShownIn("account", "num", then)[f] = then[<<"num", f>>]
  BY <1>8, AccountPlaces, NumShown
<1>10. \A f \in FieldsOf("account") : ShownIn("account", "num", then)[f] = IF f \in DOMAIN after THEN after[f] ELSE ShownIn("account", "num", st)[f]
  BY <1>7, <1>9, AccountPlaces
<1> QED
  BY <1>1, <1>2, <1>3, <1>5, <1>10, CardStands

\* Any other change of an account.
LEMMA AccountStands ==
  ASSUME NEW owner \in {"org", "num"}, NEW changes, DOMAIN changes \subseteq Account, NEW st, Shaped("account", st),
         owner = "num" => OwnAccount(st),
         NEW undo, undo = [f \in DOMAIN changes |-> ShownIn("account", owner, st)[f]],
         NEW toOrg, toOrg \/ owner = "org" \/ \E f \in DOMAIN changes : changes[f] # ""
  PROVE  Stands("account", NewCard(owner, changes, undo, RowsOf(ShownIn("account", owner, st), changes), toOrg), st)
<1>1. PICK then : then = Put("account", owner, changes, DOMAIN changes, st)
  OBVIOUS
<1>2. DOMAIN undo = DOMAIN changes /\ \A f \in DOMAIN undo : undo[f] = st[<<owner, f>>]
  <2>1. \A f \in FieldsOf("account") : ShownIn("account", owner, st)[f] = st[<<owner, f>>]
    BY AccountPlaces, Accounts, OwnShown
  <2> QED
    BY <2>1, AccountPlaces
<1>3. Put("account", owner, undo, DOMAIN undo, then) = st
  BY ONLY <1>1, <1>2, owner \in {"org", "num"}, DOMAIN changes \subseteq Account, Shaped("account", st), AccountBack
<1>4. ASSUME ~toOrg
      PROVE  \A f \in FieldsOf("account") : ShownIn("account", owner, then)[f] = IF f \in DOMAIN changes THEN changes[f] ELSE ShownIn("account", owner, st)[f]
  <2>1. \A f \in DOMAIN changes : then[<<owner, f>>] = changes[f]
    BY ONLY <1>1, owner \in {"org", "num"}, DOMAIN changes \subseteq Account, AccountPut
  <2>2. owner = "num" => Own("account", st) /\ Own("account", then)
    BY <1>4, <2>1, Accounts
  <2> QED
    BY ONLY <1>1, <2>2, owner \in {"org", "num"}, DOMAIN changes \subseteq Account, AccountPlaces, OwnStands
<1>5. (toOrg => "account" = "hours") =>
        \A f \in FieldsOf("account") : ShownIn("account", owner, then)[f] = IF f \in DOMAIN changes THEN changes[f] ELSE ShownIn("account", owner, st)[f]
  <2>1. "account" # "hours"
    OBVIOUS
  <2> QED
    BY <1>4, <2>1
<1> QED
  BY <1>1, <1>3, <1>5, CardStands

\* A week written whole, and what going back on it writes.
LEMMA WeekStands ==
  ASSUME NEW owner \in {"org", "num"}, NEW week, DOMAIN week = WeekDays, NEW st, Shaped("hours", st), MayHold("hours", st),
         NEW undo, DOMAIN undo = WeekDays, \A d \in WeekDays : undo[d] = st[<<owner, d>>],
         NEW after, DOMAIN after = WeekDays,
         owner = "num" /\ week["mon"] = Inherit => after = ShownIn("hours", "org", st),
         ~(owner = "num" /\ week["mon"] = Inherit) => after = week,
         NEW toOrg
  PROVE  Stands("hours", NewCard(owner, week, undo, RowsOf(ShownIn("hours", owner, st), after), toOrg), st)
<1>1. PICK then : then = Put("hours", owner, week, DOMAIN week, st)
  OBVIOUS
<1>2. FieldsOf("hours") = WeekDays /\ "mon" \in WeekDays /\ "hours" \in {"account", "hours"}
  BY KindsAre DEF WeekDays
<1>3. \A d \in WeekDays : then[<<owner, d>>] = week[d] /\ (owner # "org" => then[<<"org", d>>] = st[<<"org", d>>])
  <2> SUFFICES ASSUME NEW d \in WeekDays PROVE then[<<owner, d>>] = week[d] /\ (owner # "org" => then[<<"org", d>>] = st[<<"org", d>>])
    OBVIOUS
  <2>1. d \in FieldsOf("hours") /\ "org" \in {"org", "num"}
    BY <1>2
  <2>2. then[<<owner, d>>] = week[d]
    BY <1>1, <1>2, <2>1, NumPutAt
  <2>3. owner # "org" => then[<<"org", d>>] = st[<<"org", d>>]
    BY <1>1, <1>2, <2>1, NumPutAt
  <2> QED
    BY <2>2, <2>3
<1>4. Own("hours", then) <=> then[<<"num", "mon">>] # Inherit
  BY DEF Own, OwnHours
<1>5. Put("hours", owner, undo, DOMAIN undo, then) = st
  BY <1>1, <1>2, OwnBack
<1>6. ASSUME NEW d \in WeekDays
      PROVE  ShownIn("hours", owner, then)[d] = after[d]
  <2>1. CASE owner = "num" /\ week["mon"] = Inherit
    <3>1. ~Own("hours", then)
      BY <1>2, <1>3, <1>4, <2>1
    <3>2. ShownIn("hours", "num", then)[d] = then[<<"org", d>>] /\ ShownIn("hours", "org", st)[d] = st[<<"org", d>>]
      BY <1>2, <3>1, NumShown
    <3> QED
      BY <1>3, <2>1, <3>2
  <2>2. CASE ~(owner = "num" /\ week["mon"] = Inherit)
    <3>1. owner = "num" => Own("hours", then)
      BY <1>2, <1>3, <1>4, <2>2
    <3>2. ShownIn("hours", owner, then)[d] = then[<<owner, d>>]
      BY <1>2, <3>1, NumShown, ZenonT(20)
    <3> QED
      BY <1>3, <2>2, <3>2
  <2> QED
    BY <2>1, <2>2
<1>7. \A d \in FieldsOf("hours") : ShownIn("hours", owner, then)[d] = IF d \in DOMAIN after THEN after[d] ELSE ShownIn("hours", owner, st)[d]
  BY <1>2, <1>6
<1> QED
  BY <1>1, <1>5, <1>7, CardStands

-----------------------------------------------------------------------------
(* The first card *)

LEMMA AskedIn ==
  ASSUME NEW changes \in Asked(subject), WellTyped(changes)
  PROVE  DOMAIN changes # {} /\ DOMAIN changes \subseteq FieldsOf(subject) /\ \A f \in DOMAIN changes : changes[f] \in Typed(f)
BY DEF Asked, WellTyped

\* The states a matter or a request may be in have one for its twin.
LEMMA TwinStates ==
  /\ \A v \in {"pending", "in_progress", "resolved"} : TwinStatus("matter", v) # NoTwin
  /\ \A v \in {"NEW", "CONTACTED", "CLOSED"} : TwinStatus("request", v) # NoTwin
  /\ Typed("status") = {"pending", "in_progress", "resolved"} /\ Typed("state") = {"NEW", "CONTACTED", "CLOSED"}
<1>1. \A v \in {"pending", "in_progress", "resolved"} : TwinStatus("matter", v) # NoTwin
  <2>1. LeadStatusOf.pending # NoTwin /\ LeadStatusOf.in_progress # NoTwin /\ LeadStatusOf.resolved # NoTwin
    BY DEF LeadStatusOf, NoTwin
  <2>2. \A v : TwinStatus("matter", v) = LeadStatusOf[v]
    BY DEF TwinStatus
  <2> QED
    BY <2>1, <2>2
<1>2. \A v \in {"NEW", "CONTACTED", "CLOSED"} : TwinStatus("request", v) # NoTwin
  <2>1. MatterStatusOf.NEW # NoTwin /\ MatterStatusOf.CONTACTED # NoTwin /\ MatterStatusOf.CLOSED # NoTwin
    BY DEF MatterStatusOf, NoTwin
  <2>2. \A v : TwinStatus("request", v) = MatterStatusOf[v]
    BY DEF TwinStatus
  <2> QED
    BY <2>1, <2>2
<1>3. ValuesOf("status") = {"pending", "in_progress", "resolved"} /\ ValuesOf("state") = {"NEW", "CONTACTED", "CLOSED"}
  BY DEF ValuesOf
<1>4. ValuesOf("status") # Texts /\ ValuesOf("state") # Texts
  BY <1>3 DEF Texts
<1> QED
  BY <1>1, <1>2, <1>3, <1>4 DEF Typed

FirstCard(card) ==
  /\ proposals[1].status = "none" /\ proposals' = [proposals EXCEPT ![1] = card]
  /\ UNCHANGED <<subject, store, runs, panelEdits, refused, was, quiet>>

LEMMA ShowIs == \A card : Show(card) => FirstCard(card)
BY DEF Show, FirstCard

LEMMA ProposedStands ==
  ASSUME subject \in Subjects, Shaped(subject, store), CanStart(subject, store),
         NEW owner \in OwnersOf(subject), NEW changes \in Asked(subject), WellTyped(changes),
         ProposeAccount(owner, changes) \/ ProposeFields(owner, changes) \/ ProposeHours(owner, changes)
  PROVE  \E c, undo, table, toOrg : /\ FirstCard(NewCard(owner, c, undo, table, toOrg))
                                    /\ Stands(subject, NewCard(owner, c, undo, table, toOrg), store)
<1>0. DOMAIN changes # {} /\ DOMAIN changes \subseteq FieldsOf(subject) /\ \A f \in DOMAIN changes : changes[f] \in Typed(f)
  BY AskedIn
<1>1. MayHold(subject, store) /\ \A o : ShownBy(o, store) = ShownIn(subject, o, store)
  BY ShownBySays DEF CanStart
<1>2. CASE ProposeAccount(owner, changes)
  <2>0. subject = "account" /\ owner \in {"org", "num"} /\ FieldsOf(subject) = {"alias", "cbu"}
    BY <1>2, KindsAre DEF ProposeAccount
  <2>1. PICK toOrg : toOrg = (owner = "num" /\ \A f \in DOMAIN changes : changes[f] = "")
    OBVIOUS
  <2>2. DOMAIN changes \subseteq Account /\ DOMAIN changes # {}
    BY <1>0, <2>0 DEF Account
  <2>3. CASE owner = "num" /\ ~OwnAccount(store)
    <3>1. \E f \in DOMAIN changes : changes[f] # ""
      BY <1>2, <2>3 DEF ProposeAccount
    <3>2. Show(NewCard(owner, changes, Empty(Account), RowsOf(ShownBy(owner, store), Partial(changes, Empty(Account))), toOrg))
      BY <1>2, <2>1, <2>3 DEF ProposeAccount
    <3>3. Stands(subject, NewCard(owner, changes, Empty(Account), RowsOf(ShownBy(owner, store), Partial(changes, Empty(Account))), toOrg), store)
      BY <1>1, <2>0, <2>2, <2>3, <3>1, AccountStarts
    <3> QED
      BY <3>2, <3>3, ShowIs
  <2>4. CASE ~(owner = "num" /\ ~OwnAccount(store))
    <3>1. PICK undo : undo = HadBefore(owner, changes)
      OBVIOUS
    <3>2. Show(NewCard(owner, changes, undo, RowsOf(ShownBy(owner, store), changes), toOrg))
      BY <1>2, <2>1, <2>4, <3>1 DEF ProposeAccount
    <3>3. undo = [f \in DOMAIN changes |-> ShownIn("account", owner, store)[f]]
      BY <1>1, <2>0, <3>1 DEF HadBefore
    <3>4. toOrg \/ owner = "org" \/ \E f \in DOMAIN changes : changes[f] # ""
      BY <2>0, <2>1
    <3>5. Stands(subject, NewCard(owner, changes, undo, RowsOf(ShownBy(owner, store), changes), toOrg), store)
      BY <1>1, <2>0, <2>2, <2>4, <3>3, <3>4, AccountStands
    <3> QED
      BY <3>2, <3>5, ShowIs
  <2> QED
    BY <2>3, <2>4
<1>3. CASE ProposeFields(owner, changes)
  <2>0. subject \in {"data", "claim", "request", "matter"}
        /\ Show(NewCard(owner, changes, HadBefore(owner, changes), RowsOf(ShownBy(owner, store), changes), FALSE))
    BY <1>3 DEF ProposeFields
  <2>1. PICK undo : undo = HadBefore(owner, changes)
    OBVIOUS
  <2>2. DOMAIN undo = DOMAIN changes /\ \A f \in DOMAIN changes : undo[f] = store[<<owner, f>>]
    BY <1>0, <1>1, <2>0, <2>1, PlainShown DEF HadBefore
  <2>3. ASSUME subject \in {"matter", "request"}, StateField(subject) \in DOMAIN changes, store[Twin] # NoTwin
        PROVE  /\ TwinStatus(subject, changes[StateField(subject)]) # NoTwin
               /\ TwinStatus(subject, store[<<owner, StateField(subject)>>]) = store[Twin]
    <3>1. owner = "row"
      BY <2>3, KindsAre
    <3>2. changes[StateField(subject)] \in Typed(StateField(subject))
      BY <1>0, <2>3
    <3>3. TwinStatus(subject, changes[StateField(subject)]) # NoTwin
      BY <2>3, <3>2, TwinStates DEF StateField
    <3>4. TwinStatus(subject, store[<<"row", StateField(subject)>>]) = store[Twin]
      BY <1>1, <2>3 DEF MayHold, Twin
    <3> QED
      BY <3>1, <3>3, <3>4
  <2>4. Stands(subject, NewCard(owner, changes, undo, RowsOf(ShownIn(subject, owner, store), changes), FALSE), store)
    BY <1>0, <2>0, <2>2, <2>3, PlainStands
  <2> QED
    BY <1>1, <2>0, <2>1, <2>4, ShowIs
<1>4. CASE ProposeHours(owner, changes)
  <2>0. /\ subject = "hours" /\ owner \in {"org", "num"} /\ FieldsOf(subject) = WeekDays /\ WeekDays = {"mon", "tue"}
        /\ Typed("mon") = {"open", "shut"} /\ Typed("tue") = {"open", "shut"} /\ Inherit \notin {"open", "shut"}
    BY <1>4, KindsAre DEF ProposeHours, WeekDays, Typed, ValuesOf, Texts, Inherit
  <2>1. PICK week : week = Partial(changes, ShownBy(owner, store))
    OBVIOUS
  <2>2. PICK undo : undo = WeekBack(owner)
    OBVIOUS
  <2>3. Show(NewCard(owner, week, undo, RowsOf(ShownBy(owner, store), week), FALSE))
    BY <1>4, <2>1, <2>2 DEF ProposeHours
  <2>4. DOMAIN ShownBy(owner, store) = WeekDays
    BY <2>0 DEF ShownBy
  <2>5. DOMAIN week = WeekDays /\ \A d \in WeekDays : week[d] = IF d \in DOMAIN changes THEN changes[d] ELSE ShownBy(owner, store)[d]
    BY <1>0, <2>0, <2>1, <2>4 DEF Partial
  <2>6. /\ store[<<"num", "mon">>] = Inherit <=> store[<<"num", "tue">>] = Inherit
        /\ store[<<"org", "mon">>] # Inherit
    BY <1>1, <2>0 DEF MayHold
  <2>7. \A d \in WeekDays : ShownBy(owner, store)[d] = IF owner = "num" /\ store[<<"num", "mon">>] = Inherit THEN store[<<"org", d>>]
                                                       ELSE store[<<owner, d>>]
    BY <2>0 DEF ShownBy, OwnHours
  <2>8. week["mon"] # Inherit
    BY <1>0, <2>0, <2>5, <2>6, <2>7
  <2>9. DOMAIN undo = WeekDays /\ \A d \in WeekDays : undo[d] = store[<<owner, d>>]
    <3>1. CASE owner = "num" /\ ~OwnHours(store)
      <4>1. undo = [d \in WeekDays |-> Inherit] /\ \A d \in WeekDays : store[<<"num", d>>] = Inherit
        BY <2>0, <2>2, <2>6, <3>1 DEF WeekBack, OwnHours
      <4> QED
        BY <3>1, <4>1
    <3>2. CASE ~(owner = "num" /\ ~OwnHours(store))
      <4>1. undo = ShownBy(owner, store)
        BY <2>2, <3>2 DEF WeekBack
      <4> QED
        BY <2>4, <2>7, <3>2, <4>1 DEF OwnHours
    <3> QED
      BY <3>1, <3>2
  <2>10. Stands(subject, NewCard(owner, week, undo, RowsOf(ShownIn(subject, owner, store), week), FALSE), store)
    BY <1>1, <2>0, <2>5, <2>8, <2>9, WeekStands
  <2> QED
    BY <1>1, <2>3, <2>10, ShowIs
<1> QED
  BY <1>2, <1>3, <1>4

LEMMA ProposedOtherStands ==
  ASSUME subject \in Subjects, Shaped(subject, store), CanStart(subject, store),
         ProposeOrganizationHours \/ ProposeBot \/ \E numbers \in (SUBSET {"first", "second"}) \ {{}} : ProposeClosure(numbers)
  PROVE  \E owner, c, undo, table, toOrg :
           /\ owner \in OwnersOf(subject)
           /\ FirstCard(NewCard(owner, c, undo, table, toOrg)) /\ Stands(subject, NewCard(owner, c, undo, table, toOrg), store)
<1>1. MayHold(subject, store) /\ \A o : ShownBy(o, store) = ShownIn(subject, o, store)
  BY ShownBySays DEF CanStart
<1>2. CASE ProposeOrganizationHours
  <2>0. subject = "hours" /\ FieldsOf(subject) = WeekDays /\ WeekDays = {"mon", "tue"} /\ "num" \in OwnersOf(subject)
    BY <1>2, KindsAre DEF ProposeOrganizationHours, WeekDays
  <2>1. PICK week, undo, after : week = [d \in WeekDays |-> Inherit] /\ undo = ShownBy("num", store) /\ after = ShownBy("org", store)
    OBVIOUS
  <2>2. OwnHours(store) /\ Show(NewCard("num", week, undo, RowsOf(ShownBy("num", store), after), TRUE))
    BY <1>2, <2>1 DEF ProposeOrganizationHours
  <2>3. DOMAIN undo = WeekDays /\ DOMAIN after = WeekDays /\ DOMAIN week = WeekDays /\ week["mon"] = Inherit
    BY <2>0, <2>1 DEF ShownBy
  <2>4. \A d \in WeekDays : undo[d] = store[<<"num", d>>]
    BY <2>0, <2>1, <2>2 DEF ShownBy
  <2>5. Stands(subject, NewCard("num", week, undo, RowsOf(ShownIn(subject, "num", store), after), TRUE), store)
    BY <1>1, <2>0, <2>1, <2>3, <2>4, WeekStands
  <2> QED
    BY <1>1, <2>0, <2>2, <2>5, ShowIs
<1>3. CASE ProposeBot
  <2>0. subject = "bot" /\ FieldsOf(subject) = {"bot"} /\ "num" \in OwnersOf(subject)
    BY <1>3, KindsAre DEF ProposeBot
  <2>1. PICK flipped, undo : /\ flipped = [bot |-> IF store[<<"num", "bot">>] = "on" THEN "off" ELSE "on"]
                             /\ undo = HadBefore("num", flipped)
    OBVIOUS
  <2>2. Show(NewCard("num", flipped, undo, RowsOf(ShownBy("num", store), flipped), FALSE))
    BY <1>3, <2>1 DEF ProposeBot
  <2>3. DOMAIN flipped = {"bot"}
    BY <2>1
  <2>4. DOMAIN undo = DOMAIN flipped /\ \A f \in DOMAIN flipped : undo[f] = store[<<"num", f>>]
    BY <1>1, <2>0, <2>1, <2>3, PlainShown DEF HadBefore
  <2>5. Stands(subject, NewCard("num", flipped, undo, RowsOf(ShownIn(subject, "num", store), flipped), FALSE), store)
    BY <2>0, <2>3, <2>4, PlainStands
  <2> QED
    BY <1>1, <2>0, <2>2, <2>5, ShowIs
<1>4. ASSUME NEW numbers \in (SUBSET {"first", "second"}) \ {{}}, ProposeClosure(numbers)
      PROVE  \E owner, c, undo, table, toOrg :
               /\ owner \in OwnersOf(subject)
               /\ FirstCard(NewCard(owner, c, undo, table, toOrg)) /\ Stands(subject, NewCard(owner, c, undo, table, toOrg), store)
  <2>0. subject = "closure" /\ FieldsOf(subject) = {"first", "second"} /\ "row" \in OwnersOf(subject)
    BY <1>4, KindsAre DEF ProposeClosure
  <2>1. PICK made : made = [f \in numbers |-> "n"]
    OBVIOUS
  <2>2. Show(NewCard("row", made, <<>>, RowsOf(ShownBy("row", store), made), FALSE)) /\ DOMAIN made \subseteq FieldsOf(subject)
    BY <1>4, <2>0, <2>1 DEF ProposeClosure
  <2>3. Stands(subject, NewCard("row", made, <<>>, RowsOf(ShownIn(subject, "row", store), made), FALSE), store)
    BY <2>0, <2>2, PlainStands
  <2> QED
    BY <1>1, <2>0, <2>2, <2>3, ShowIs
<1> QED
  BY <1>2, <1>3, <1>4

-----------------------------------------------------------------------------
(* What a card promises, kept *)

\* A card one step further is the same card.
SameCard(card, other) ==
  /\ card.owner = other.owner /\ card.changes = other.changes /\ card.undo = other.undo
  /\ (card.undoable <=> other.undoable) /\ card.rows = other.rows /\ card.toOrg = other.toOrg

LEMMA SameStands ==
  ASSUME NEW s, NEW card, NEW other, SameCard(card, other), NEW st
  PROVE  /\ With(s, card, st) = With(s, other, st)
         /\ Stands(s, other, st) => Stands(s, card, st)
<1>1. With(s, card, st) = With(s, other, st)
  BY DEF With, SameCard
<1>2. Back(s, other, st) => Back(s, card, st)
  BY <1>1 DEF Back, SameCard
<1>3. ASSUME Tells(s, other, st)
      PROVE  Tells(s, card, st)
  <2> DEFINE now == ShownIn(s, other.owner, With(s, other, st))
             before == ShownIn(s, other.owner, st)
  <2>1. \A f \in FieldsOf(s) : /\ now[f] = IF f \in DOMAIN other.rows THEN other.rows[f].to ELSE before[f]
                               /\ f \in DOMAIN other.rows => other.rows[f].from = before[f]
    BY <1>3 DEF Tells
  <2>2. card.owner = other.owner /\ card.rows = other.rows
    BY DEF SameCard
  <2>3. now = ShownIn(s, card.owner, With(s, card, st)) /\ before = ShownIn(s, card.owner, st)
    BY <1>1, <2>2
  <2> HIDE DEF now, before
  <2>4. \A f \in FieldsOf(s) : RowTells(card.rows, before, now, f)
    BY <2>1, <2>2 DEF RowTells
  <2> QED
    BY <2>3, <2>4, TellsSays
<1>4. card.toOrg = other.toOrg /\ (card.undoable <=> other.undoable)
  BY DEF SameCard
<1>5. ASSUME Stands(s, other, st)
      PROVE  Stands(s, card, st)
  <2>1. other.undoable => Back(s, other, st)
    BY <1>5 DEF Stands
  <2>2. (other.toOrg => s = "hours") => Tells(s, other, st)
    BY <1>5 DEF Stands
  <2>3. card.undoable => Back(s, card, st)
    BY <1>2, <1>4, <2>1
  <2>4. (card.toOrg => s = "hours") => Tells(s, card, st)
    BY <1>3, <1>4, <2>2
  <2> QED
    BY <2>3, <2>4 DEF Stands
<1> QED
  BY <1>1, <1>5

LEMMA SameHalfDone ==
  ASSUME NEW s, NEW card, NEW other, SameCard(card, other), NEW left, NEW before, NEW st, HalfDone(s, other, left, before, st)
  PROVE  HalfDone(s, card, left, before, st)
BY DEF HalfDone, SameCard

\* Going back on a card that stood stands, and leaves what there was.
LEMMA BackStands ==
  ASSUME NEW s, NEW card, NEW back, Undoes(back, card), NEW st, Stands(s, card, st)
  PROVE  With(s, back, With(s, card, st)) = st /\ Stands(s, back, With(s, card, st))
<1>1. PICK then : then = With(s, card, st)
  OBVIOUS
<1>2. card.undoable /\ back.owner = card.owner /\ back.toOrg = card.toOrg /\ back.changes = card.undo /\ back.undo = card.changes
  BY DEF Undoes
<1>3. With(s, back, then) = st
  <2>1. Back(s, card, st)
    BY <1>2 DEF Stands
  <2> QED
    BY <1>1, <1>2, <2>1 DEF Back, With
<1>4. Back(s, back, then)
  BY <1>1, <1>2, <1>3 DEF Back, With
<1>5. ASSUME Tells(s, card, st)
      PROVE  Tells(s, back, then)
  <2> DEFINE now == ShownIn(s, card.owner, then)
             before == ShownIn(s, card.owner, st)
             listed == card.rows
             around == back.rows
  <2>1. \A f \in FieldsOf(s) : /\ now[f] = IF f \in DOMAIN listed THEN listed[f].to ELSE before[f]
                               /\ f \in DOMAIN listed => listed[f].from = before[f]
    BY <1>1, <1>5 DEF Tells
  <2>2. around = [f \in DOMAIN listed |-> [from |-> listed[f].to, to |-> listed[f].from]]
    BY DEF Undoes
  <2>3. ShownIn(s, back.owner, then) = now /\ ShownIn(s, back.owner, With(s, back, then)) = before
    BY <1>2, <1>3
  <2> HIDE DEF now, before, listed, around
  <2>4. ASSUME NEW f \in FieldsOf(s)
        PROVE  RowTells(around, now, before, f)
    <3>1. CASE f \in DOMAIN listed
      <4>1. f \in DOMAIN around /\ around[f] = [from |-> listed[f].to, to |-> listed[f].from]
        BY <2>2, <3>1
      <4>2. around[f].from = listed[f].to /\ around[f].to = listed[f].from
        BY <4>1
      <4> QED
        BY <2>1, <3>1, <4>1, <4>2 DEF RowTells
    <3>2. CASE f \notin DOMAIN listed
      <4>1. f \notin DOMAIN around
        BY <2>2, <3>2
      <4> QED
        BY <2>1, <3>2, <4>1 DEF RowTells
    <3> QED
      BY <3>1, <3>2
  <2> QED
    BY <2>3, <2>4, TellsSays DEF around
<1> QED
  BY <1>1, <1>2, <1>3, <1>4, <1>5 DEF Stands

LEMMA NewCardReverses ==
  ASSUME NEW card, card.undoable, card.changes # <<>>,
         NEW back, back = NewCard(card.owner, card.undo, card.changes,
                                  [f \in DOMAIN card.rows |-> [from |-> card.rows[f].to, to |-> card.rows[f].from]], card.toOrg)
  PROVE  Undoes(back, card)
BY NewCardIs DEF Undoes

LEMMA TwoCalls == ASSUME NEW S, NEW T PROVE <<S>> \o <<T>> = <<S, T>>
<1>1. PICK K : S \in K /\ T \in K
  <2>1. S \in {S, T} /\ T \in {S, T}
    OBVIOUS
  <2> QED
    BY <2>1, ZenonT(20)
<1>2. PICK both : both = Append(<<S>>, T)
  OBVIOUS
<1>3. PICK two : two = <<S, T>>
  OBVIOUS
<1>4. both \in Seq(K) /\ Len(both) = 2 /\ both[1] = S /\ both[2] = T
  BY <1>1, <1>2
<1>5. two \in Seq(K) /\ Len(two) = 2 /\ two[1] = S /\ two[2] = T
  BY <1>1, <1>3
<1>6. \A i \in 1..Len(both) : both[i] = two[i]
  BY ONLY <1>4, <1>5
<1>7. both = two
  BY ONLY <1>4, <1>5, <1>6, SeqEqual
<1>8. both = <<S>> \o <<T>>
  <2>1. PICK one : one = <<S>>
    OBVIOUS
  <2>2. one \in Seq(K)
    BY <1>1, <2>1
  <2> QED
    BY <1>1, <1>2, <2>1, <2>2, AppendIsConcat
<1> QED
  BY <1>3, <1>7, <1>8

\* The calls of a card: one, of all it changes, or two of kinds that have no twin.
LEMMA CallsInAre ==
  ASSUME NEW s \in Subjects, NEW changes, DOMAIN changes # {}, DOMAIN changes \subseteq FieldsOf(s)
  PROVE  \/ CallsIn(s, changes) = <<DOMAIN changes>>
         \/ /\ s \in {"data", "closure"}
            /\ \E S, T \in SUBSET FieldsOf(s) : S \cup T = DOMAIN changes /\ CallsIn(s, changes) = <<S, T>>
<1> DEFINE named == DOMAIN changes
           OnlyIf(S) == IF S = {} THEN <<>> ELSE <<S>>
<1>1. ASSUME NEW S \in SUBSET FieldsOf(s), NEW T \in SUBSET FieldsOf(s), S \cup T = named, named # {}
      PROVE  OnlyIf(S) \o OnlyIf(T) = <<named>> \/ OnlyIf(S) \o OnlyIf(T) = <<S, T>>
  <2>1. CASE S = {}
    <3>1. T = named /\ OnlyIf(S) = <<>> /\ OnlyIf(T) = <<T>>
      BY <1>1, <2>1
    <3> HIDE DEF OnlyIf
    <3> QED
      BY <3>1
  <2>2. CASE S # {} /\ T = {}
    <3>1. S = named /\ OnlyIf(S) = <<S>> /\ OnlyIf(T) = <<>>
      BY <1>1, <2>2
    <3> HIDE DEF OnlyIf
    <3> QED
      BY <3>1
  <2>3. CASE S # {} /\ T # {}
    <3>1. OnlyIf(S) = <<S>> /\ OnlyIf(T) = <<T>>
      BY <2>3
    <3> HIDE DEF OnlyIf
    <3>2. <<S>> \o <<T>> = <<S, T>>
      BY TwoCalls
    <3>3. OnlyIf(S) \o OnlyIf(T) = <<S>> \o <<T>>
      BY <3>1
    <3> QED
      BY <3>2, <3>3
  <2> QED
    BY <2>1, <2>2, <2>3
<1>2. CASE s = "data"
  <2>1. FieldsOf(s) = {"botName", "tow"}
    BY <1>2, KindsAre
  <2>2. CallsIn(s, changes) = OnlyIf(named \cap {"botName"}) \o OnlyIf(named \cap {"tow"})
    BY <1>2 DEF CallsIn
  <2>3. PICK S, T : S = named \cap {"botName"} /\ T = named \cap {"tow"}
    OBVIOUS
  <2>4. S \in SUBSET FieldsOf(s) /\ T \in SUBSET FieldsOf(s) /\ S \cup T = named /\ named # {}
    BY <2>1, <2>3
  <2>5. CallsIn(s, changes) = OnlyIf(S) \o OnlyIf(T)
    BY <2>2, <2>3
  <2> HIDE DEF OnlyIf
  <2>6. CallsIn(s, changes) = <<named>> \/ CallsIn(s, changes) = <<S, T>>
    BY <1>1, <2>4, <2>5
  <2> QED
    BY <1>2, <2>4, <2>6
<1>3. CASE s = "closure"
  <2>1. FieldsOf(s) = {"first", "second"}
    BY <1>3, KindsAre
  <2>2. CallsIn(s, changes) = OnlyIf(named \cap {"first"}) \o OnlyIf(named \cap {"second"})
    BY <1>3 DEF CallsIn
  <2>3. PICK S, T : S = named \cap {"first"} /\ T = named \cap {"second"}
    OBVIOUS
  <2>4. S \in SUBSET FieldsOf(s) /\ T \in SUBSET FieldsOf(s) /\ S \cup T = named /\ named # {}
    BY <2>1, <2>3
  <2>5. CallsIn(s, changes) = OnlyIf(S) \o OnlyIf(T)
    BY <2>2, <2>3
  <2> HIDE DEF OnlyIf
  <2>6. CallsIn(s, changes) = <<named>> \/ CallsIn(s, changes) = <<S, T>>
    BY <1>1, <2>4, <2>5
  <2> QED
    BY <1>3, <2>4, <2>6
<1>4. CASE s \notin {"data", "closure"}
  BY <1>4 DEF CallsIn
<1> QED
  BY <1>2, <1>3, <1>4

\* Two writes, of a kind that has no twin, are one.
LEMMA PutTwice ==
  ASSUME NEW s \in {"data", "closure"}, NEW owner, NEW changes, NEW S, NEW T, NEW st
  PROVE  Put(s, owner, changes, T, Put(s, owner, changes, S, st)) = Put(s, owner, changes, S \cup T, st)
<1>1. PICK su : su = Put(s, owner, changes, S, st)
  OBVIOUS
<1>2. PICK sv : sv = Put(s, owner, changes, T, su)
  OBVIOUS
<1>3. PICK sw : sw = Put(s, owner, changes, S \cup T, st)
  OBVIOUS
<1>4. s \notin {"matter", "request"}
  OBVIOUS
<1>5. ASSUME NEW p \in PlacesOf(s)
      PROVE  sv[p] = sw[p]
  <2>1. su[p] = IF p[1] = owner /\ p[2] \in S THEN changes[p[2]] ELSE st[p]
    BY <1>1, <1>4, PutAt
  <2>2. sv[p] = IF p[1] = owner /\ p[2] \in T THEN changes[p[2]] ELSE su[p]
    BY <1>2, <1>4, PutAt
  <2>3. sw[p] = IF p[1] = owner /\ p[2] \in S \cup T THEN changes[p[2]] ELSE st[p]
    BY <1>3, <1>4, PutAt
  <2> QED
    BY <2>1, <2>2, <2>3
<1>6. Shaped(s, sv) /\ Shaped(s, sw)
  BY <1>2, <1>3, PutIsShaped
<1> QED
  BY <1>1, <1>2, <1>3, <1>5, <1>6, SameStore

-----------------------------------------------------------------------------
(* The cards in turn *)

LEMMA NoneHolds ==
  ASSUME ChangesInv', NEW k \in 1..MaxCards, proposals'[k].status = "none"
  PROVE  InTurn(k)' /\ Promised(k)'
<1>1. runs'[k].step = "idle"
  BY DEF ChangesInv, RunFits
<1> QED
  BY <1>1 DEF InTurn, Promised, Claimed, Applied

\* The cards around the one that moves.
LEMMA OthersHold ==
  ASSUME ChangesInv', Undisturbed, NEW k \in 1..MaxCards, NEW j \in 1..MaxCards, j # k, proposals[k].status # "none", ~Applied(k),
         subject' = subject, runs'[k].step # "idle",
         \A i \in 1..MaxCards : i # k => proposals'[i] = proposals[i] /\ runs'[i].step = runs[i].step /\ was'[i] = was[i]
  PROVE  InTurn(j)' /\ Promised(j)'
<1>0. \A i \in 1..MaxCards : InTurn(i) /\ Promised(i)
  BY DEF Undisturbed
<1>1. MaxCards \in Nat
  BY ChangesParameters
<1>2. CASE k < j
  <2>1. k \in 1..(j - 1)
    BY <1>1, <1>2
  <2>2. proposals[j].status = "none"
    BY <1>0, <2>1 DEF InTurn
  <2> QED
    BY <2>2, NoneHolds
<1>3. CASE j < k
  <2>1. \A i \in 1..(k - 1) : Applied(i) /\ i \in 1..MaxCards /\ i # k
    BY <1>0, <1>1 DEF InTurn
  <2>2. j \in 1..(k - 1) /\ \A i \in 1..(j - 1) : i \in 1..(k - 1)
    BY <1>1, <1>3
  <2>3. proposals'[j] = proposals[j] /\ was'[j] = was[j] /\ proposals[j].status = "confirmed" /\ runs'[j].step = "done"
    BY <2>1, <2>2 DEF Applied
  <2>4. \A i \in 1..(j - 1) : Applied(i)'
    BY <2>1, <2>2 DEF Applied
  <2>5. j > 1 => j - 1 \in 1..MaxCards /\ j - 1 # k
    BY <1>1, <1>3
  <2>6. InTurn(j)'
    <3>1. InTurn(j)
      BY <1>0
    <3>2. j > 1 => proposals'[j - 1] = proposals[j - 1] /\ was'[j - 1] = was[j - 1]
      BY <2>5
    <3> QED
      BY <2>3, <2>4, <3>1, <3>2 DEF InTurn, Claimed
  <2>7. ~LastCard(j)'
    <3>1. j # MaxCards /\ j + 1 \in 1..k
      BY <1>1, <1>3
    <3>2. runs'[j + 1].step # "idle"
      <4>1. CASE j + 1 = k
        BY <4>1
      <4>2. CASE j + 1 # k
        <5>1. j + 1 \in 1..(k - 1)
          BY <1>1, <3>1, <4>2
        <5> QED
          BY <2>1, <5>1 DEF Applied
      <4> QED
        BY <4>1, <4>2
    <3> QED
      BY <3>1, <3>2 DEF LastCard
  <2>8. Promised(j)'
    <3>1. Stands(subject, proposals[j], was[j])
      BY <1>0, <2>3 DEF Promised
    <3> QED
      BY <2>3, <2>7, <3>1 DEF Promised
  <2> QED
    BY <2>6, <2>8
<1> QED
  BY <1>1, <1>2, <1>3

\* The one that moves, as the card it was.
LEMMA MovedInTurn ==
  ASSUME Undisturbed, NEW k \in 1..MaxCards, proposals[k].status # "none", subject' = subject,
         SameCard(proposals'[k], proposals[k]), proposals'[k].status # "none", runs'[k].step # "idle",
         proposals'[k].status = "failed" => runs'[k].step = "done",
         k > 1 => was'[k] = With(subject, proposals[k - 1], was[k - 1]),
         \A i \in 1..MaxCards : i # k => proposals'[i] = proposals[i] /\ runs'[i].step = runs[i].step /\ was'[i] = was[i]
  PROVE  InTurn(k)'
<1>0. InTurn(k) /\ MaxCards \in Nat
  BY ChangesParameters DEF Undisturbed
<1>1. \A i \in 1..(k - 1) : i \in 1..MaxCards /\ i # k
  BY <1>0
<1>2. \A i \in 1..(k - 1) : Applied(i)'
  BY <1>0, <1>1 DEF InTurn, Applied
<1>3. k > 1 => k - 1 \in 1..MaxCards /\ k - 1 # k
  BY <1>0
<1>4. k > 1 => proposals'[k - 1] = proposals[k - 1] /\ was'[k - 1] = was[k - 1]
  BY <1>3
<1>5. k > 1 => Undoes(proposals'[k], proposals'[k - 1])
  <2>1. k > 1 => Undoes(proposals[k], proposals[k - 1])
    BY <1>0 DEF InTurn
  <2> QED
    BY <1>4, <2>1 DEF Undoes, SameCard
<1>6. proposals'[k].owner \in {"org", "num", "row"}
  BY <1>0 DEF InTurn, SameCard
<1> QED
  BY <1>2, <1>4, <1>5, <1>6 DEF InTurn, Claimed

\* The store when a card's turn comes.
LEMMA TurnComes ==
  ASSUME ChangesInv, Undisturbed, NEW k \in 1..MaxCards, k > 1, runs[k].step = "idle", Applied(k - 1)
  PROVE  store = With(subject, proposals[k - 1], was[k - 1]) /\ Stands(subject, proposals[k - 1], was[k - 1])
<1>1. k - 1 \in 1..MaxCards /\ (k - 1) + 1 = k
  BY ChangesParameters
<1>2. Promised(k - 1) /\ LastCard(k - 1)
  BY <1>1 DEF Undisturbed, LastCard
<1> QED
  BY <1>2 DEF Promised, Applied

-----------------------------------------------------------------------------
(* A card is proposed *)

\* Nobody has proposed any: no card runs.
LEMMA FirstHolds ==
  ASSUME ChangesInv, ChangesInv', CardsInv, NEW owner \in {"org", "num", "row"}, NEW c, NEW undo, NEW table, NEW toOrg,
         FirstCard(NewCard(owner, c, undo, table, toOrg)), Stands(subject, NewCard(owner, c, undo, table, toOrg), store)
  PROVE  CardsInv'
<1> DEFINE card == NewCard(owner, c, undo, table, toOrg)
<1>0. 1 \in 1..MaxCards
  BY ChangesParameters
<1>1. /\ proposals[1].status = "none" /\ proposals' = [proposals EXCEPT ![1] = card]
      /\ UNCHANGED <<subject, store, runs, panelEdits, refused, was, quiet>>
  BY DEF FirstCard
<1>2. quiet /\ Undisturbed
  BY <1>1 DEF CardsInv
<1>3. card.status = "pending" /\ card.owner = owner /\ card.undo = undo /\ (card.undoable <=> undo # <<>>)
  BY NewCardIs
<1>4. Stands(subject, card, store)
  OBVIOUS
<1> HIDE DEF card
<1>5. proposals'[1] = card /\ \A j \in 1..MaxCards : j # 1 => proposals'[j] = proposals[j]
  BY <1>0, <1>1 DEF ChangesInv
<1>6. ASSUME NEW j \in 1..MaxCards, j # 1
      PROVE  proposals'[j].status = "none"
  <2>1. 1 \in 1..(j - 1)
    BY <1>6, ChangesParameters
  <2>2. ~Applied(1)
    BY <1>1 DEF Applied
  <2> QED
    BY <1>2, <1>5, <1>6, <2>1, <2>2 DEF Undisturbed, InTurn
<1>7. \A j \in 1..MaxCards : j # 1 => InTurn(j)' /\ Promised(j)' /\ UndoFits(j)'
  <2>1. \A j \in 1..MaxCards : j # 1 => InTurn(j)' /\ Promised(j)'
    BY <1>6, NoneHolds
  <2>2. \A j \in 1..MaxCards : j # 1 => UndoFits(j)'
    BY <1>1, <1>5 DEF CardsInv, UndoFits
  <2> QED
    BY <2>1, <2>2
<1>8. runs'[1].step = "idle"
  BY <1>0, <1>3, <1>5 DEF ChangesInv, RunFits
<1>9. InTurn(1)' /\ Promised(1)'
  <2>1. \A j \in 1..(1 - 1) : FALSE
    OBVIOUS
  <2>2. InTurn(1)'
    BY <1>3, <1>5, <2>1 DEF InTurn, Claimed
  <2>3. Promised(1)'
    BY <1>1, <1>3, <1>4, <1>5, <1>8 DEF Promised, Applied
  <2> QED
    BY <2>2, <2>3
<1>10. UndoFits(1)'
  <2>1. CardFits(1)'
    BY <1>0 DEF ChangesInv
  <2>2. DOMAIN proposals'[1].changes \subseteq FieldsOf(subject)' /\ (card.undoable => DOMAIN proposals'[1].undo \subseteq FieldsOf(subject)')
    BY <1>3, <1>5, <2>1 DEF CardFits, Named
  <2>3. ~card.undoable => DOMAIN proposals'[1].undo = {}
    BY <1>3, <1>5
  <2> QED
    BY <2>2, <2>3 DEF UndoFits
<1>11. Undisturbed'
  <2>1. Shaped(subject, store)' /\ \A k \in 1..MaxCards : Shaped(subject, was[k])'
    BY <1>1, <1>2 DEF Undisturbed
  <2>2. proposals'[1].status # "none"
    BY <1>3, <1>5
  <2>3. \A k \in 1..MaxCards : InTurn(k)' /\ Promised(k)'
    BY <1>7, <1>9
  <2> QED
    BY <2>1, <2>2, <2>3 DEF Undisturbed
<1>12. \A k \in 1..MaxCards : UndoFits(k)'
  BY <1>7, <1>10
<1> QED
  BY <1>1, <1>2, <1>11, <1>12 DEF CardsInv

LEMMA ProposeKeeps ==
  ASSUME ChangesInv, ChangesInv', CardsInv, NEW owner \in OwnersOf(subject), NEW changes \in Asked(subject), WellTyped(changes),
         ProposeAccount(owner, changes) \/ ProposeFields(owner, changes) \/ ProposeHours(owner, changes)
  PROVE  CardsInv'
<1>1. \E card : Show(card)
  BY DEF ProposeAccount, ProposeFields, ProposeHours
<1>2. proposals[1].status = "none"
  BY <1>1 DEF Show
<1>3. subject \in Subjects /\ Shaped(subject, store) /\ CanStart(subject, store)
  BY <1>2 DEF ChangesInv, CardsInv, Undisturbed
<1>4. PICK c, undo, table, toOrg : /\ FirstCard(NewCard(owner, c, undo, table, toOrg))
                                   /\ Stands(subject, NewCard(owner, c, undo, table, toOrg), store)
  BY <1>3, ProposedStands
<1>5. owner \in {"org", "num", "row"}
  BY DEF OwnersOf
<1> QED
  BY <1>4, <1>5, FirstHolds

LEMMA ProposeOtherKeeps ==
  ASSUME ChangesInv, ChangesInv', CardsInv,
         ProposeOrganizationHours \/ ProposeBot \/ \E numbers \in (SUBSET {"first", "second"}) \ {{}} : ProposeClosure(numbers)
  PROVE  CardsInv'
<1>1. \E card : Show(card)
  BY DEF ProposeOrganizationHours, ProposeBot, ProposeClosure
<1>2. proposals[1].status = "none"
  BY <1>1 DEF Show
<1>3. subject \in Subjects /\ Shaped(subject, store) /\ CanStart(subject, store)
  BY <1>2 DEF ChangesInv, CardsInv, Undisturbed
<1>4. PICK owner, c, undo, table, toOrg :
        /\ owner \in OwnersOf(subject)
        /\ FirstCard(NewCard(owner, c, undo, table, toOrg)) /\ Stands(subject, NewCard(owner, c, undo, table, toOrg), store)
  BY <1>3, ProposedOtherStands
<1>5. owner \in {"org", "num", "row"}
  BY <1>4 DEF OwnersOf
<1> QED
  BY <1>4, <1>5, FirstHolds

LEMMA UndoKeeps ==
  ASSUME ChangesInv, ChangesInv', CardsInv, NEW k \in 1..MaxCards, ProposeUndo(k)
  PROVE  CardsInv'
<1> DEFINE last == proposals[k - 1]
           table == [f \in DOMAIN last.rows |-> [from |-> last.rows[f].to, to |-> last.rows[f].from]]
           card == NewCard(last.owner, last.undo, last.changes, table, last.toOrg)
<1>0. k > 1 /\ k - 1 \in 1..MaxCards /\ MaxCards \in Nat /\ 1 \in 1..MaxCards
  BY ChangesParameters DEF ProposeUndo
<1>1. /\ proposals[k].status = "none" /\ last.status = "confirmed" /\ last.undoable
      /\ proposals' = [proposals EXCEPT ![k] = card]
      /\ quiet' = (quiet /\ runs[k - 1].step = "done")
      /\ UNCHANGED <<subject, store, runs, panelEdits, refused, was>>
  BY DEF ProposeUndo
<1>2. /\ card.status = "pending" /\ card.owner = last.owner /\ card.changes = last.undo /\ card.undo = last.changes
  BY NewCardIs
<1>3. last.changes # <<>>
  <2>1. DOMAIN last.changes # {}
    BY <1>0, <1>1, ZenonT(20) DEF ChangesInv, CardFits, Named
  <2>2. \A changes : changes = <<>> => DOMAIN changes = {}
    OBVIOUS
  <2> QED
    BY <2>1, <2>2
<1>4. Undoes(card, last)
  BY <1>1, <1>3, NewCardReverses
<1> HIDE DEF card, table
<1>5. proposals'[k] = card /\ \A j \in 1..MaxCards : j # k => proposals'[j] = proposals[j]
  BY <1>1 DEF ChangesInv
<1>6. \A j \in 1..MaxCards : UndoFits(j)'
  BY <1>0, <1>1, <1>2, <1>5 DEF CardsInv, UndoFits
<1>7. proposals'[1].status # "none"
  <2>1. CASE k - 1 = 1
    BY <1>0, <1>1, <1>5, <2>1
  <2>2. CASE k - 1 # 1
    <3>1. 1 \in 1..((k - 1) - 1) /\ 1 # k
      BY <1>0, <2>2
    <3>2. proposals[1].status = "none" => ~Applied(1) /\ InTurn(k - 1)
      BY <1>0 DEF CardsInv, Undisturbed, Applied
    <3>3. proposals[1].status # "none"
      BY <1>1, <3>1, <3>2 DEF InTurn
    <3> QED
      BY <1>0, <1>5, <3>1, <3>3
  <2> QED
    BY <2>1, <2>2
<1>8. ASSUME quiet'
      PROVE  Undisturbed'
  <2>0. quiet /\ runs[k - 1].step = "done" /\ Undisturbed
    BY <1>1, <1>8 DEF CardsInv
  <2>1. Applied(k - 1) /\ runs[k].step = "idle"
    BY <1>1, <2>0 DEF Applied, ChangesInv, RunFits
  <2>2. store = With(subject, last, was[k - 1]) /\ Stands(subject, last, was[k - 1])
    BY <1>0, <2>0, <2>1, TurnComes
  <2>3. Stands(subject, card, store)
    BY <1>4, <2>2, BackStands
  <2>4. \A j \in 1..(k - 1) : Applied(j) /\ j \in 1..MaxCards /\ j # k
    <3>1. \A j \in 1..((k - 1) - 1) : Applied(j)
      BY <1>0, <1>1, <2>0 DEF Undisturbed, InTurn
    <3>2. \A j \in 1..(k - 1) : j = k - 1 \/ j \in 1..((k - 1) - 1)
      BY <1>0
    <3> QED
      BY <1>0, <2>1, <3>1, <3>2
  <2>5. \A j \in 1..(k - 1) : Applied(j)'
    BY <1>1, <1>5, <2>4 DEF Applied
  <2>6. InTurn(k)'
    <3>1. proposals'[k - 1] = last
      BY <1>0, <1>5
    <3>2. Undoes(proposals'[k], proposals'[k - 1])
      BY <1>4, <1>5, <3>1
    <3>3. proposals'[k].owner \in {"org", "num", "row"} /\ proposals'[k].status = "pending"
      BY <1>0, <1>1, <1>2, <1>5, <2>0 DEF Undisturbed, InTurn
    <3> QED
      BY <2>5, <3>2, <3>3 DEF InTurn, Claimed
  <2>7. Promised(k)'
    BY <1>1, <1>2, <1>5, <2>1, <2>3 DEF Promised, Applied
  <2>8. ASSUME NEW j \in 1..MaxCards, j # k
        PROVE  InTurn(j)' /\ Promised(j)'
    <3>1. CASE k < j
      <4>1. k \in 1..(j - 1) /\ ~Applied(k)
        BY <1>0, <1>1, <3>1 DEF Applied
      <4>2. proposals'[j].status = "none"
        BY <1>5, <2>0, <2>8, <4>1 DEF Undisturbed, InTurn
      <4> QED
        BY <4>2, NoneHolds
    <3>2. CASE j < k
      <4>0. InTurn(j) /\ Promised(j) /\ proposals'[j] = proposals[j]
        BY <1>5, <2>0, <2>8 DEF Undisturbed
      <4>1. \A i \in 1..(j - 1) : i \in 1..(k - 1)
        BY <1>0, <3>2
      <4>2. \A i \in 1..(j - 1) : Applied(i)'
        BY <2>5, <4>1
      <4>3. j > 1 => proposals'[j - 1] = proposals[j - 1]
        BY <1>0, <1>5, <3>2
      <4>4. InTurn(j)'
        BY <1>1, <4>0, <4>2, <4>3 DEF InTurn, Claimed
      <4>5. Promised(j)'
        BY <1>1, <4>0 DEF Promised, Applied, LastCard
      <4> QED
        BY <4>4, <4>5
    <3> QED
      BY <1>0, <2>8, <3>1, <3>2
  <2>9. \A j \in 1..MaxCards : InTurn(j)' /\ Promised(j)'
    BY <2>6, <2>7, <2>8
  <2>10. Shaped(subject, store)' /\ \A j \in 1..MaxCards : Shaped(subject, was[j])'
    BY <1>1, <2>0 DEF Undisturbed
  <2> QED
    BY <1>7, <2>9, <2>10 DEF Undisturbed
<1>9. quiet' \in BOOLEAN
  BY <1>1 DEF CardsInv
<1> QED
  BY <1>1, <1>6, <1>7, <1>8, <1>9 DEF CardsInv

-----------------------------------------------------------------------------
(* A card runs *)


LEMMA ConfirmKeeps ==
  ASSUME ChangesInv, ChangesInv', CardsInv, NEW k \in 1..MaxCards, ConfirmCard(k)
  PROVE  CardsInv'
<1> DEFINE row == proposals[k]
           card == [row EXCEPT !.status = "confirmed"]
           run == [AtRest EXCEPT !.step = "calling", !.left = CallsOf(k)]
<1>0. MaxCards \in Nat /\ 1 \in 1..MaxCards
  BY ChangesParameters
<1>1. /\ row.status = "pending" /\ proposals' = [proposals EXCEPT ![k] = card] /\ runs' = [runs EXCEPT ![k] = run]
      /\ was' = [was EXCEPT ![k] = store] /\ quiet' = (quiet /\ RunningCards = {}) /\ UNCHANGED <<subject, store, panelEdits, refused>>
  BY DEF ConfirmCard
<1>2. run.step = "calling" /\ run.left = CallsOf(k)
  BY DEF AtRest
<1>3. SameCard(card, row) /\ card.status = "confirmed"
  <2>1. IsCard(row)
    BY DEF ChangesInv, CardFits
  <2> HIDE DEF row
  <2> QED
    BY <2>1 DEF IsCard, SameCard
<1> HIDE DEF card, run
<1>4. /\ proposals'[k] = card /\ runs'[k] = run /\ was'[k] = store
      /\ \A i \in 1..MaxCards : i # k => proposals'[i] = proposals[i] /\ runs'[i] = runs[i] /\ was'[i] = was[i]
  BY <1>1 DEF ChangesInv, CardsInv
<1>5. \A j \in 1..MaxCards : UndoFits(j)'
  BY <1>1, <1>3, <1>4 DEF CardsInv, UndoFits, SameCard
<1>6. runs[k].step = "idle" /\ ~Applied(k)
  BY <1>1 DEF ChangesInv, RunFits, Applied
<1>7. proposals'[1].status = "none" => quiet'
  <2>1. CASE k = 1
    BY <1>3, <1>4, <2>1
  <2>2. CASE k # 1
    <3>1. proposals[1].status = "none" => InTurn(k)
      BY DEF CardsInv, Undisturbed
    <3>2. 1 \in 1..(k - 1)
      BY <1>0, <2>2
    <3>3. proposals[1].status # "none"
      BY <1>1, <3>1, <3>2 DEF InTurn, Applied
    <3> QED
      BY <1>0, <1>4, <2>2, <3>3
  <2> QED
    BY <2>1, <2>2
<1>8. ASSUME quiet'
      PROVE  Undisturbed'
  <2>0. Undisturbed /\ InTurn(k) /\ Promised(k)
    BY <1>1, <1>8 DEF CardsInv, Undisturbed
  <2>1. k > 1 => store = With(subject, proposals[k - 1], was[k - 1])
    <3>1. k > 1 => k - 1 \in 1..(k - 1)
      BY <1>0
    <3>2. k > 1 => Applied(k - 1)
      BY <1>1, <2>0, <3>1 DEF InTurn
    <3> QED
      BY <1>6, <2>0, <3>2, TurnComes
  <2>2. InTurn(k)'
    BY <1>1, <1>2, <1>3, <1>4, <2>0, <2>1, MovedInTurn
  <2>3. Promised(k)'
    <3>1. Stands(subject, card, store)
      BY <1>1, <1>3, <2>0, SameStands DEF Promised
    <3>2. CallsOf(k) = CallsIn(subject, row.changes)
      BY DEF CallsOf, CallsIn
    <3>3. HalfDone(subject, card, run.left, store, store)
      BY <1>2, <1>3, <3>2 DEF HalfDone, SameCard
    <3> QED
      BY <1>1, <1>2, <1>3, <1>4, <3>1, <3>3 DEF Promised, Applied
  <2>4. \A j \in 1..MaxCards : j # k => InTurn(j)' /\ Promised(j)'
    BY <1>1, <1>2, <1>4, <1>6, <2>0, OthersHold
  <2>5. Shaped(subject, store)' /\ \A j \in 1..MaxCards : Shaped(subject, was[j])'
    BY <1>1, <1>4, <2>0 DEF Undisturbed
  <2>6. proposals'[1].status = "none" => CanStart(subject, store)'
    BY <1>0, <1>1, <1>3, <1>4, <2>0 DEF Undisturbed
  <2>7. \A j \in 1..MaxCards : InTurn(j)' /\ Promised(j)'
    BY <2>2, <2>3, <2>4
  <2> QED
    BY <2>5, <2>6, <2>7 DEF Undisturbed
<1>9. /\ DOMAIN store' = PlacesOf(subject)' /\ panelEdits' \in 0..MaxPanelEdits /\ refused' \in 0..MaxRefused /\ quiet' \in BOOLEAN
      /\ was' = [j \in 1..MaxCards |-> was'[j]]
  BY <1>1 DEF CardsInv
<1> QED
  BY <1>5, <1>7, <1>8, <1>9 DEF CardsInv

LEMMA CallKeeps ==
  ASSUME ChangesInv, ChangesInv', CardsInv, NEW k \in 1..MaxCards, Call(k)
  PROVE  CardsInv'
<1> DEFINE here == runs[k]
           run == [here EXCEPT !.step = "writing", !.seen = store, !.fresh = TRUE]
<1>0. MaxCards \in Nat /\ 1 \in 1..MaxCards
  BY ChangesParameters
<1>1. here.step = "calling" /\ runs' = [runs EXCEPT ![k] = run] /\ UNCHANGED <<subject, store, proposals, panelEdits, refused, was, quiet>>
  <2>1. here.step = "calling" /\ UNCHANGED <<subject, store, proposals, panelEdits, refused, was, quiet>>
        /\ runs' = [runs EXCEPT ![k].step = "writing", ![k].seen = store, ![k].fresh = TRUE]
    BY DEF Call
  <2> QED
    BY <2>1 DEF ChangesInv
<1>2. run.step = "writing" /\ run.left = here.left /\ run.fresh
  <2>1. IsRun(here)
    BY DEF ChangesInv, RunFits
  <2> QED
    BY <2>1 DEF IsRun
<1> HIDE DEF run
<1>3. runs'[k] = run /\ \A i \in 1..MaxCards : i # k => runs'[i] = runs[i]
  BY <1>1 DEF ChangesInv
<1>4. ASSUME quiet'
      PROVE  Undisturbed'
  <2>0. Undisturbed /\ InTurn(k) /\ Promised(k)
    BY <1>1, <1>4 DEF CardsInv, Undisturbed
  <2>1. proposals[k].status = "confirmed" /\ ~Applied(k)
    BY <1>1, <2>0 DEF ChangesInv, RunFits, InTurn, Applied
  <2>2. SameCard(proposals'[k], proposals[k])
    BY <1>1 DEF SameCard
  <2>3. InTurn(k)'
    <3>1. k > 1 => was'[k] = With(subject, proposals[k - 1], was[k - 1])
      BY <1>1, <2>0, <2>1 DEF InTurn, Claimed
    <3> QED
      BY <1>1, <1>2, <1>3, <2>0, <2>1, <2>2, <3>1, MovedInTurn
  <2>4. Promised(k)'
    BY <1>1, <1>2, <1>3, <2>0, <2>1 DEF Promised, Applied
  <2>5. \A j \in 1..MaxCards : j # k => InTurn(j)' /\ Promised(j)'
    BY <1>1, <1>2, <1>3, <2>0, <2>1, OthersHold
  <2>6. /\ Shaped(subject, store)' /\ \A j \in 1..MaxCards : Shaped(subject, was[j])'
        /\ proposals'[1].status = "none" => CanStart(subject, store)'
    BY <1>1, <2>0 DEF Undisturbed
  <2>7. \A j \in 1..MaxCards : InTurn(j)' /\ Promised(j)'
    BY <2>3, <2>4, <2>5
  <2> QED
    BY <2>6, <2>7 DEF Undisturbed
<1>5. \A j \in 1..MaxCards : UndoFits(j)'
  BY <1>1 DEF CardsInv, UndoFits
<1> QED
  BY <1>1, <1>4, <1>5 DEF CardsInv

LEMMA RefuseKeeps ==
  ASSUME ChangesInv, ChangesInv', CardsInv, NEW k \in 1..MaxCards, Refuse(k)
  PROVE  CardsInv'
<1> DEFINE row == proposals[k]
           card == [row EXCEPT !.status = "failed"]
           run == [AtRest EXCEPT !.step = "done"]
<1>0. MaxCards \in Nat /\ MaxRefused \in Nat /\ 1 \in 1..MaxCards
  BY ChangesParameters
<1>1. /\ runs[k].step = "calling" /\ refused < MaxRefused /\ refused' = refused + 1
      /\ proposals' = [proposals EXCEPT ![k] = card] /\ runs' = [runs EXCEPT ![k] = run]
      /\ UNCHANGED <<subject, store, panelEdits, was, quiet>>
  BY DEF Refuse
<1>2. run.step = "done"
  BY DEF AtRest
<1>3. SameCard(card, row) /\ card.status = "failed"
  <2>1. IsCard(row)
    BY DEF ChangesInv, CardFits
  <2> HIDE DEF row
  <2> QED
    BY <2>1 DEF IsCard, SameCard
<1> HIDE DEF card, run
<1>4. /\ proposals'[k] = card /\ runs'[k] = run
      /\ \A i \in 1..MaxCards : i # k => proposals'[i] = proposals[i] /\ runs'[i] = runs[i]
  BY <1>1 DEF ChangesInv
<1>5. \A j \in 1..MaxCards : UndoFits(j)'
  BY <1>1, <1>3, <1>4 DEF CardsInv, UndoFits, SameCard
<1>6. row.status \in {"confirmed", "failed"} /\ ~Applied(k)
  BY <1>1 DEF ChangesInv, RunFits, Applied
<1>7. proposals'[1].status = "none" => proposals[1].status = "none"
  BY <1>0, <1>3, <1>4
<1>8. ASSUME quiet'
      PROVE  Undisturbed'
  <2>0. Undisturbed /\ InTurn(k) /\ Promised(k)
    BY <1>1, <1>8 DEF CardsInv, Undisturbed
  <2>1. InTurn(k)'
    <3>1. k > 1 => was'[k] = With(subject, proposals[k - 1], was[k - 1])
      BY <1>1, <1>6, <2>0 DEF InTurn, Claimed
    <3> QED
      BY <1>1, <1>2, <1>3, <1>4, <1>6, <2>0, <3>1, MovedInTurn
  <2>2. subject \notin {"data", "closure"} => store = was[k]
    <3>1. HalfDone(subject, row, runs[k].left, was[k], store)
      BY <1>1, <2>0 DEF Promised
    <3>2. subject \notin {"data", "closure"} => CallsIn(subject, row.changes) = <<DOMAIN row.changes>>
      BY DEF CallsIn
    <3>3. \A S, T : <<S, T>> # <<DOMAIN row.changes>>
      OBVIOUS
    <3> QED
      BY <3>1, <3>2, <3>3 DEF HalfDone
  <2>3. Promised(k)'
    BY <1>1, <1>2, <1>3, <1>4, <2>2 DEF Promised, Applied
  <2>4. \A j \in 1..MaxCards : j # k => InTurn(j)' /\ Promised(j)'
    BY <1>1, <1>2, <1>4, <1>6, <2>0, OthersHold
  <2>5. /\ Shaped(subject, store)' /\ \A j \in 1..MaxCards : Shaped(subject, was[j])'
        /\ proposals'[1].status = "none" => CanStart(subject, store)'
    BY <1>1, <1>7, <2>0 DEF Undisturbed
  <2>6. \A j \in 1..MaxCards : InTurn(j)' /\ Promised(j)'
    BY <2>1, <2>3, <2>4
  <2> QED
    BY <2>5, <2>6 DEF Undisturbed
<1>9. /\ DOMAIN store' = PlacesOf(subject)' /\ panelEdits' \in 0..MaxPanelEdits /\ refused' \in 0..MaxRefused /\ quiet' \in BOOLEAN
      /\ was' = [j \in 1..MaxCards |-> was'[j]]
  BY <1>0, <1>1 DEF CardsInv
<1>10. proposals'[1].status = "none" => quiet'
  BY <1>1, <1>7 DEF CardsInv
<1> QED
  BY <1>5, <1>8, <1>9, <1>10 DEF CardsInv

\* What a service writes, over a row that is still as it read it: the fields sent,
\* and the twin of their state.
LEMMA WrittenIs ==
  ASSUME NEW k, subject \in Subjects, Shaped(subject, store), runs[k].seen = store, proposals[k].owner \in {"org", "num", "row"},
         subject \in {"matter", "request"} => Head(runs[k].left) = DOMAIN proposals[k].changes
  PROVE  Written(k) = Put(subject, proposals[k].owner, proposals[k].changes, Head(runs[k].left), store)
<1> DEFINE changes == proposals[k].changes
           owner == proposals[k].owner
           S == Head(runs[k].left)
           twin == TwinStatus(subject, changes[StateField(subject)])
           moved == subject \in {"matter", "request"} /\ StateField(subject) \in DOMAIN changes /\ store[Twin] # NoTwin
           row == OwnRow(k)
           whole == [row EXCEPT ![Twin] = twin]
           put == Put(subject, owner, changes, S, store)
<1>1. row = [p \in PlacesOf(subject) |-> row[p]]
      /\ \A p \in PlacesOf(subject) : row[p] = IF p[1] = owner /\ p[2] \in S THEN changes[p[2]] ELSE store[p]
  BY DEF OwnRow
<1>2. Written(k) = IF moved THEN whole ELSE row
  BY DEF Written, Twin
<1>3. \A p \in PlacesOf(subject) : put[p] =
        IF p[1] = owner /\ p[2] \in S THEN changes[p[2]]
        ELSE IF p = Twin /\ subject \in {"matter", "request"} /\ StateField(subject) \in S /\ store[p] # NoTwin THEN twin ELSE store[p]
  BY PutAt
<1>4. Shaped(subject, put)
  BY PutIsShaped
<1>5. Twin[1] # owner
  BY DEF Twin
<1>6. moved => S = DOMAIN changes /\ subject \in {"matter", "request"}
  OBVIOUS
<1> HIDE DEF row, put, twin, changes, owner, S
<1>7. CASE moved
  <2>1. whole = [p \in PlacesOf(subject) |-> IF p = Twin THEN twin ELSE row[p]]
    BY <1>1
  <2>2. \A p \in PlacesOf(subject) : whole[p] = IF p = Twin THEN twin ELSE row[p]
    BY <2>1
  <2>3. Shaped(subject, whole)
    BY <2>1 DEF Shaped
  <2> HIDE DEF whole
  <2>4. ASSUME NEW p \in PlacesOf(subject)
        PROVE  whole[p] = put[p]
    <3>1. CASE p = Twin
      BY <1>3, <1>5, <1>6, <1>7, <2>2, <3>1
    <3>2. CASE p # Twin
      BY <1>1, <1>3, <2>2, <3>2
    <3> QED
      BY <3>1, <3>2
  <2>5. whole = put
    BY <1>4, <2>3, <2>4, SameStore
  <2> QED
    BY <1>2, <1>7, <2>5 DEF put, owner, changes, S
<1>8. CASE ~moved
  <2>1. Shaped(subject, row)
    BY <1>1 DEF Shaped
  <2>2. ASSUME NEW p \in PlacesOf(subject)
        PROVE  row[p] = put[p]
    <3>1. subject \in {"matter", "request"} => S = DOMAIN changes
      BY DEF S, changes
    <3> QED
      BY <1>1, <1>3, <1>8, <3>1
  <2>3. row = put
    BY <1>4, <2>1, <2>2, SameStore
  <2> QED
    BY <1>2, <1>8, <2>3 DEF put, owner, changes, S, row
<1> QED
  BY <1>7, <1>8

\* How far a write takes a card.
LEMMA WriteGoes ==
  ASSUME NEW s \in Subjects, NEW card, DOMAIN card.changes # {}, DOMAIN card.changes \subseteq FieldsOf(s),
         NEW left, NEW before, NEW st, HalfDone(s, card, left, before, st),
         NEW then, then = Put(s, card.owner, card.changes, Head(left), st)
  PROVE  /\ s \in {"matter", "request"} => Head(left) = DOMAIN card.changes
         /\ Len(left) = 1 => then = With(s, card, before)
         /\ Len(left) # 1 => HalfDone(s, card, Tail(left), before, then)
<1> DEFINE named == DOMAIN card.changes
<1>0. \A X : Head(<<X>>) = X /\ Len(<<X>>) = 1
  OBVIOUS
<1>1. \A X, Y : Head(<<X, Y>>) = X /\ Len(<<X, Y>>) = 2 /\ Tail(<<X, Y>>) = <<Y>> /\ \A Z : <<X, Y>> # <<Z>>
  OBVIOUS
<1>2. CASE CallsIn(s, card.changes) = <<named>>
  <2>1. left = <<named>> /\ st = before
    BY <1>1, <1>2 DEF HalfDone
  <2> QED
    BY <1>0, <2>1 DEF With
<1>3. ASSUME s \in {"data", "closure"}, NEW S \in SUBSET FieldsOf(s), NEW T \in SUBSET FieldsOf(s), S \cup T = named, CallsIn(s, card.changes) = <<S, T>>
      PROVE  /\ Len(left) = 1 => then = With(s, card, before)
             /\ Len(left) # 1 => HalfDone(s, card, Tail(left), before, then)
  <2>1. CASE left = <<S, T>> /\ st = before
    <3>1. Len(left) = 2 /\ Tail(left) = <<T>> /\ Head(left) = S
      BY <1>1, <2>1
    <3>2. HalfDone(s, card, Tail(left), before, then)
      BY <1>3, <2>1, <3>1 DEF HalfDone
    <3> QED
      BY <3>1, <3>2
  <2>2. CASE left = <<T>> /\ st = Put(s, card.owner, card.changes, S, before)
    <3>1. Len(left) = 1 /\ Head(left) = T
      BY <1>0, <2>2
    <3>2. then = Put(s, card.owner, card.changes, S \cup T, before)
      BY <1>3, <2>2, <3>1, PutTwice
    <3> QED
      BY <1>3, <3>1, <3>2 DEF With
  <2>3. \A U, V : <<U, V>> = <<S, T>> => U = S /\ V = T
    OBVIOUS
  <2>4. (left = <<S, T>> /\ st = before) \/ (left = <<T>> /\ st = Put(s, card.owner, card.changes, S, before))
    BY <1>3, <2>3 DEF HalfDone
  <2> QED
    BY <2>1, <2>2, <2>4
<1>4. \/ CallsIn(s, card.changes) = <<named>>
      \/ s \in {"data", "closure"} /\ \E S, T \in SUBSET FieldsOf(s) : S \cup T = named /\ CallsIn(s, card.changes) = <<S, T>>
  BY CallsInAre
<1>5. s \in {"matter", "request"} => CallsIn(s, card.changes) = <<named>>
  BY <1>4
<1>6. s \in {"matter", "request"} => Head(left) = named
  <2>1. CallsIn(s, card.changes) = <<named>> => left = <<named>>
    BY <1>1 DEF HalfDone
  <2> QED
    BY <1>0, <1>5, <2>1
<1> QED
  BY <1>2, <1>3, <1>4, <1>6

LEMMA WriteKeeps ==
  ASSUME ChangesInv, ChangesInv', CardsInv, NEW k \in 1..MaxCards, Write(k)
  PROVE  CardsInv'
<1> DEFINE card == proposals[k]
           left == runs[k].left
           next == IF Len(left) = 1 THEN "done" ELSE "calling"
           run == [AtRest EXCEPT !.step = next, !.left = Tail(left)]
<1>0. MaxCards \in Nat /\ 1 \in 1..MaxCards
  BY ChangesParameters
<1>1. /\ runs[k].step = "writing" /\ store' = Written(k)
      /\ runs' = [j \in 1..MaxCards |-> IF j = k THEN run ELSE [runs[j] EXCEPT !.fresh = FALSE]]
      /\ UNCHANGED <<subject, proposals, panelEdits, refused, was, quiet>>
  BY DEF Write
<1>2. run.step = next /\ run.left = Tail(left) /\ run.fresh
  BY DEF AtRest
<1>3. runs'[k] = run /\ \A i \in 1..MaxCards : i # k => runs'[i].step = runs[i].step
  <2> HIDE DEF run
  <2>1. runs'[k] = run /\ \A i \in 1..MaxCards : i # k => runs'[i] = [runs[i] EXCEPT !.fresh = FALSE]
    BY <1>1
  <2>2. \A i \in 1..MaxCards : [runs[i] EXCEPT !.fresh = FALSE].step = runs[i].step
    <3>1. \A i \in 1..MaxCards : IsRun(runs[i])
      BY DEF ChangesInv, RunFits
    <3> QED
      BY <3>1, Staled
  <2> QED
    BY <2>1, <2>2
<1> HIDE DEF run
<1>4. proposals[k].status \in {"confirmed", "failed"} /\ subject \in Subjects /\ (runs[k].fresh => runs[k].seen = store)
      /\ DOMAIN card.changes # {} /\ DOMAIN card.changes \subseteq FieldsOf(subject)
  BY <1>1 DEF ChangesInv, RunFits, CardFits, Named
<1>5. ASSUME quiet'
      PROVE  Undisturbed' /\ DOMAIN store' = PlacesOf(subject)'
  <2>0. Undisturbed /\ InTurn(k) /\ Promised(k)
    BY <1>1, <1>5 DEF CardsInv, Undisturbed
  <2>1. card.status = "confirmed" /\ ~Applied(k) /\ card.owner \in {"org", "num", "row"} /\ runs[k].seen = store
    BY <1>1, <1>4, <2>0 DEF InTurn, Applied, Promised
  <2>2. HalfDone(subject, card, left, was[k], store)
    BY <1>1, <2>0 DEF Promised
  <2>3. subject \in {"matter", "request"} => Head(left) = DOMAIN card.changes
    BY <1>4, <2>2, WriteGoes
  <2>4. store' = Put(subject, card.owner, card.changes, Head(left), store)
    BY <1>1, <1>4, <2>0, <2>1, <2>3, WrittenIs DEF Undisturbed
  <2>5. /\ Len(left) = 1 => store' = With(subject, card, was[k])
        /\ Len(left) # 1 => HalfDone(subject, card, Tail(left), was[k], store')
    BY <1>4, <2>2, <2>4, WriteGoes
  <2>6. InTurn(k)'
    <3>1. k > 1 => was'[k] = With(subject, proposals[k - 1], was[k - 1])
      BY <1>1, <2>0, <2>1 DEF InTurn, Claimed
    <3>2. SameCard(proposals'[k], proposals[k])
      BY <1>1 DEF SameCard
    <3> QED
      BY <1>1, <1>2, <1>3, <2>0, <2>1, <3>1, <3>2, MovedInTurn
  <2>7. Promised(k)'
    <3>1. Stands(subject, card, was[k])
      BY <2>0, <2>1 DEF Promised
    <3>2. proposals'[k] = card /\ was'[k] = was[k] /\ subject' = subject
      BY <1>1
    <3>3. CASE Len(left) = 1
      <4>1. runs'[k].step = "done" /\ store' = With(subject, card, was[k])
        BY <1>2, <1>3, <2>5, <3>3
      <4> QED
        BY <2>1, <3>1, <3>2, <4>1 DEF Promised
    <3>4. CASE Len(left) # 1
      <4>1. runs'[k].step = "calling" /\ HalfDone(subject, card, runs'[k].left, was[k], store')
        BY <1>2, <1>3, <2>5, <3>4
      <4> QED
        BY <2>1, <3>1, <3>2, <4>1 DEF Promised, Applied
    <3> QED
      BY <3>3, <3>4
  <2>8. \A j \in 1..MaxCards : j # k => InTurn(j)' /\ Promised(j)'
    BY <1>1, <1>2, <1>3, <2>0, <2>1, OthersHold
  <2>9. Shaped(subject, store')
    BY <2>4, PutIsShaped
  <2>10. \A j \in 1..MaxCards : InTurn(j)' /\ Promised(j)'
    BY <2>6, <2>7, <2>8
  <2>11. proposals'[1].status # "none"
    <3>1. CASE k = 1
      BY <1>1, <2>1, <3>1
    <3>2. CASE k # 1
      <4>1. 1 \in 1..(k - 1)
        BY <1>0, <3>2
      <4> QED
        BY <1>1, <2>0, <2>1, <4>1 DEF InTurn, Applied
    <3> QED
      BY <3>1, <3>2
  <2>12. Undisturbed'
    BY <1>1, <2>0, <2>9, <2>10, <2>11 DEF Undisturbed
  <2>13. DOMAIN store' = PlacesOf(subject)'
    BY <1>1, <2>9 DEF Shaped
  <2> QED
    BY <2>12, <2>13
<1>6. DOMAIN store' = PlacesOf(subject)'
  <2>1. DOMAIN OwnRow(k) = PlacesOf(subject)
    BY DEF OwnRow
  <2>2. DOMAIN Written(k) = DOMAIN OwnRow(k)
    BY DEF Written
  <2> QED
    BY <1>1, <2>1, <2>2
<1>7. \A j \in 1..MaxCards : UndoFits(j)'
  BY <1>1 DEF CardsInv, UndoFits
<1> QED
  BY <1>1, <1>5, <1>6, <1>7 DEF CardsInv

LEMMA EditKeeps ==
  ASSUME ChangesInv, CardsInv, NEW p, NEW v, PanelEdit(p, v)
  PROVE  CardsInv'
<1>1. MaxPanelEdits \in Nat /\ panelEdits < MaxPanelEdits /\ panelEdits' = panelEdits + 1 /\ quiet' = FALSE
      /\ proposals[1].status # "none" /\ store' = [store EXCEPT ![p] = v] /\ UNCHANGED <<subject, proposals, refused, was>>
  BY ChangesParameters DEF PanelEdit
<1>2. panelEdits' \in 0..MaxPanelEdits
  BY <1>1 DEF CardsInv
<1>3. \A k \in 1..MaxCards : UndoFits(k)'
  BY <1>1 DEF CardsInv, UndoFits
<1> QED
  BY <1>1, <1>2, <1>3 DEF CardsInv

LEMMA CardsInvInit == ChangesInit => CardsInv
<1> SUFFICES ASSUME ChangesInit PROVE CardsInv
  OBVIOUS
<1>1. /\ subject \in Subjects /\ proposals = [k \in 1..MaxCards |-> NoProposal] /\ runs = [k \in 1..MaxCards |-> AtRest]
      /\ panelEdits = 0 /\ refused = 0 /\ was = [k \in 1..MaxCards |-> store] /\ quiet = TRUE
  BY DEF ChangesInit
<1>2. store = [p \in PlacesOf(subject) |-> store[p]] /\ CanStart(subject, store)
  <2>1. store \in [PlacesOf(subject) -> UNION {FoundIn(p) : p \in PlacesOf(subject)}]
    BY DEF ChangesInit
  <2>2. (\A p \in PlacesOf(subject) : store[p] \in FoundIn(p)) /\ MayHold(subject, store)
    BY DEF ChangesInit
  <2> QED
    BY <2>1, <2>2 DEF CanStart
<1>3. MaxPanelEdits \in Nat /\ MaxRefused \in Nat
  BY ChangesParameters
<1>4. \A k \in 1..MaxCards : proposals[k] = NoProposal /\ runs[k] = AtRest /\ was[k] = store
  BY <1>1
<1>5. NoProposal.status = "none" /\ NoProposal.changes = <<>> /\ NoProposal.undo = <<>> /\ AtRest.step = "idle"
  BY DEF NoProposal, AtRest
<1>6. \A k \in 1..MaxCards : UndoFits(k) /\ InTurn(k) /\ Promised(k)
  <2>1. \A changes : changes = <<>> => DOMAIN changes = {}
    OBVIOUS
  <2>2. \A k \in 1..MaxCards : UndoFits(k)
    BY <1>4, <1>5, <2>1 DEF UndoFits
  <2>3. \A k \in 1..MaxCards : InTurn(k) /\ Promised(k)
    BY <1>4, <1>5 DEF InTurn, Promised, Claimed, Applied
  <2> QED
    BY <2>2, <2>3
<1>7. Undisturbed
  BY <1>2, <1>4, <1>6 DEF Undisturbed, Shaped
<1>8. DOMAIN store = PlacesOf(subject) /\ panelEdits \in 0..MaxPanelEdits /\ refused \in 0..MaxRefused /\ was = [k \in 1..MaxCards |-> was[k]]
  BY <1>1, <1>2, <1>3
<1> QED
  BY <1>1, <1>6, <1>7, <1>8 DEF CardsInv

LEMMA CardsInvStep ==
  ASSUME ChangesInv, CardsInv, [ChangesNext]_changeVars
  PROVE  CardsInv'
<1>0. ChangesInv'
  BY ChangesInvStep
<1>1. ASSUME NEW owner \in OwnersOf(subject), NEW changes \in Asked(subject), WellTyped(changes),
             ProposeAccount(owner, changes) \/ ProposeFields(owner, changes) \/ ProposeHours(owner, changes)
      PROVE  CardsInv'
  BY <1>0, <1>1, ProposeKeeps
<1>2. CASE ProposeOrganizationHours \/ ProposeBot \/ \E numbers \in (SUBSET {"first", "second"}) \ {{}} : ProposeClosure(numbers)
  BY <1>0, <1>2, ProposeOtherKeeps
<1>3. ASSUME NEW k \in 1..MaxCards, ProposeUndo(k) \/ ConfirmCard(k) \/ Call(k) \/ Refuse(k) \/ Write(k)
      PROVE  CardsInv'
  BY <1>0, <1>3, UndoKeeps, ConfirmKeeps, CallKeeps, RefuseKeeps, WriteKeeps
<1>4. ASSUME NEW p, NEW v, PanelEdit(p, v)
      PROVE  CardsInv'
  BY <1>4, EditKeeps
<1>5. CASE UNCHANGED changeVars
  BY <1>5 DEF changeVars, CardsInv, UndoFits, Undisturbed, InTurn, Promised, Claimed, Applied, LastCard
<1> QED
  BY <1>1, <1>2, <1>3, <1>4, <1>5 DEF ChangesNext

\* A card tells what it does, and can be gone back on.
LEMMA CardsInvSays == ChangesInv /\ CardsInv => ChangesTypeOK /\ CardsFit
<1> SUFFICES ASSUME ChangesInv, CardsInv PROVE ChangesTypeOK /\ CardsFit
  OBVIOUS
<1>0. MaxCards \in Nat
  BY ChangesParameters
<1>1. ChangesTypeOK
  BY DEF ChangesTypeOK, ChangesInv, CardFits, RunFits, CardsInv, UndoFits
<1>2. ASSUME quiet, NEW k \in 1..MaxCards, LastCard(k), Applied(k)
      PROVE  store = With(subject, proposals[k], was[k]) /\ Stands(subject, proposals[k], was[k])
  BY <1>2 DEF CardsInv, Undisturbed, Promised, Applied
<1>3. ASSUME quiet, NEW k \in 2..MaxCards, Applied(k), Applied(k - 1), LastCard(k)
      PROVE  store = was[k - 1]
  <2>1. k \in 1..MaxCards /\ k - 1 \in 1..MaxCards /\ k > 1
    BY <1>0
  <2>2. store = With(subject, proposals[k], was[k])
    BY <1>2, <1>3, <2>1
  <2>3. Undoes(proposals[k], proposals[k - 1]) /\ was[k] = With(subject, proposals[k - 1], was[k - 1])
    BY <1>3, <2>1 DEF CardsInv, Undisturbed, InTurn, Claimed, Applied
  <2>4. Stands(subject, proposals[k - 1], was[k - 1])
    BY <1>3, <2>1 DEF CardsInv, Undisturbed, Promised, Applied
  <2> QED
    BY <2>2, <2>3, <2>4, BackStands
<1>4. GoingBackRestores
  BY <1>3 DEF GoingBackRestores
<1>5. CardTells
  <2> SUFFICES ASSUME NEW k \in 1..MaxCards, Applied(k), LastCard(k), quiet, proposals[k].toOrg => subject = "hours"
               PROVE  \A f \in FieldsOf(subject) :
                        ShownBy(proposals[k].owner, store)[f] =
                          IF f \in DOMAIN proposals[k].rows THEN proposals[k].rows[f].to ELSE ShownBy(proposals[k].owner, was[k])[f]
    BY DEF CardTells
  <2>1. store = With(subject, proposals[k], was[k]) /\ Stands(subject, proposals[k], was[k])
    BY <1>2
  <2>2. Tells(subject, proposals[k], was[k])
    BY <2>1 DEF Stands
  <2>3. \A owner, st : ShownBy(owner, st) = ShownIn(subject, owner, st)
    BY ShownBySays
  <2> QED
    BY <2>1, <2>2, <2>3 DEF Tells
<1>6. FailedIsUntouched
  BY DEF FailedIsUntouched, CardsInv, Undisturbed, Promised
<1> QED
  BY <1>1, <1>4, <1>5, <1>6 DEF CardsFit

-----------------------------------------------------------------------------
(* Accounts, codes and numbers ("access")                                    *)

AccountRow == [state : {"none", "live", "removed"}, office : Offices, role : Roles]

NumberRow == [state : {"none", "live", "removed"}, office : Offices, billed : CodeIds \cup {Nothing},
              serves : SUBSET CodeIds, on : BOOLEAN, bot : BOOLEAN, profile : [Fields -> 0..1],
              closed : SUBSET Days]

CallSteps == {"idle", "founding", "coding", "reviving", "creating", "granting", "writing", "reading",
              "replacing", "opening", "changing", "serving", "flipping", "merging", "seeing", "shown"}

CallRow == [step : CallSteps, by : Emails \cup {Nothing}, email : Emails \cup {Nothing},
            role : Roles \cup {Nothing}, codes : (SUBSET CodeIds) \cup {Nothing}, office : Offices,
            code : CodeIds \cup {Nothing}, line : MetaIds \cup {Nothing}, bot : BOOLEAN,
            billed : SUBSET (CodeIds \cup {Nothing}), on : SUBSET BOOLEAN,
            profile : [Fields -> 0..1], left : SUBSET {"own", "default", "filter"},
            own : SUBSET MetaIds, default : MetaIds \cup {Nothing}, filter : MetaIds \cup {Nothing},
            alone : Nat]

AccountTypes ==
  /\ office \in [Offices -> {"none", "on", "off"}]
  /\ account \in [Emails -> AccountRow]
  /\ grants \in [Emails -> SUBSET CodeIds]
  /\ code \in [CodeIds -> [state : {"none", "live", "retired"}, master : BOOLEAN, on : BOOLEAN]]

NumberTypes ==
  /\ number \in [MetaIds -> NumberRow]
  /\ told \in [MetaIds -> BOOLEAN \cup {Nothing}]

CallTypes ==
  /\ call \in [Calls -> CallRow]
  /\ calls \in 0..MaxCalls

AccessTypes == AccountTypes /\ NumberTypes /\ CallTypes

AtHome(cs, o) == \A c \in cs : c \in CodeIds /\ c[1] = o

\* Who has no account yet has no grants; grants are of the account's office.
AccountsAgree ==
  /\ \A e \in Emails : account[e].state = "none" => grants[e] = {}
  /\ \A e \in Emails : AtHome(grants[e], account[e].office)

\* A number nobody connected has no audit; its codes are of its office, and the
\* audit's last word is its switch.
NumbersAgree ==
  /\ \A n \in MetaIds : number[n].state = "none" => told[n] = Nothing
  /\ \A n \in MetaIds : AtHome(number[n].serves \cup ({number[n].billed} \ {Nothing}), number[n].office)
  /\ SwitchIsTold

\* An account or a number, once made, stays of its office.
KeepsOffice ==
  /\ \A e \in Emails : account[e].state # "none" => account'[e].state # "none" /\ account'[e].office = account[e].office
  /\ \A n \in MetaIds : number[n].state # "none" => number'[n].state # "none" /\ number'[n].office = number[n].office

\* What a request carries at each of its steps: the codes it checked are of the
\* office of the account or of the number it found.
AccountCallFits(c) ==
  /\ c.step = "founding" => c.email \in Emails /\ c.codes \in SUBSET CodeIds
  /\ c.step \in {"coding", "reviving"} => c.code \in CodeIds
  /\ c.step = "creating" =>
       /\ c.email \in Emails /\ c.role \in Roles /\ c.codes \in SUBSET CodeIds /\ c.codes # Nothing
       /\ c.role = "ADMIN" => AtHome(c.codes, c.office)
  /\ c.step = "granting" =>
       /\ c.email \in Emails /\ c.codes \in SUBSET CodeIds /\ c.codes # Nothing
       /\ account[c.email].state # "none" /\ AtHome(c.codes, account[c.email].office)
  /\ c.step \in {"writing", "reading", "replacing"} =>
       /\ c.email \in Emails /\ account[c.email].state # "none"
       /\ c.codes = Nothing \/ (c.codes \in SUBSET CodeIds /\ AtHome(c.codes, account[c.email].office))

NumberCallFits(c) ==
  /\ c.step = "opening" =>
       c.line \in MetaIds /\ c.codes \in SUBSET CodeIds /\ AtHome(c.codes \cup ({c.code} \ {Nothing}), c.office)
  /\ c.step = "changing" =>
       /\ c.line \in MetaIds /\ number[c.line].state # "none" /\ AtHome(c.billed \ {Nothing}, number[c.line].office)
       /\ c.codes = Nothing \/ (c.codes \in SUBSET CodeIds /\ AtHome(c.codes, number[c.line].office))
  /\ c.step = "serving" =>
       /\ c.line \in MetaIds /\ number[c.line].state # "none"
       /\ c.codes \in SUBSET CodeIds /\ AtHome(c.codes, number[c.line].office)
  /\ c.step \in {"flipping", "merging"} => c.line \in MetaIds /\ number[c.line].state # "none"

\* What was read of the scope of a user whom nothing disturbs is still so.
ScopeHolds(q) ==
  LET c == call[q]
      e == c.email
      ds == DefaultLines(account[e].office)
      known == c.line # Nothing /\ number[c.line].state = "live" /\ number[c.line].office = account[e].office
  IN c.step \in {"seeing", "shown"} =>
       /\ e \in Emails
       /\ c.alone = calls =>
            /\ \A p \in Calls \ {q} : Open(p)
            /\ c.role = account[e].role
            /\ "own" \notin c.left => c.own = IF c.role = "SUPERADMIN" THEN {} ELSE OwnLines(e)
            /\ "default" \notin c.left => c.default \in ds \/ (ds = {} /\ c.default = Nothing)
            /\ "filter" \notin c.left => c.filter = IF known THEN c.line ELSE Nothing
            /\ c.step = "shown" => c.left = {}

Counted == \A q \in Calls : call[q].alone <= calls /\ (~Open(q) => calls > 0)

AccessInv ==
  /\ AccessTypes /\ AccountsAgree /\ NumbersAgree
  /\ \A q \in Calls : AccountCallFits(call[q]) /\ NumberCallFits(call[q])
  /\ \A q \in Calls : ScopeHolds(q)
  /\ Counted

LEMMA AccessTypesSay == AccessTypes => AccessTypeOK
<1> SUFFICES ASSUME AccessTypes PROVE AccessTypeOK
  OBVIOUS
<1>1. ASSUME NEW q \in Calls
      PROVE  call[q].step \in CallSteps /\ call[q].codes \in (SUBSET CodeIds) \cup {Nothing} /\ call[q].role \in Roles \cup {Nothing}
  <2>1. call[q] \in CallRow
    BY DEF AccessTypes, AccountTypes, NumberTypes, CallTypes
  <2> QED
    BY <2>1 DEF CallRow
<1>2. ASSUME NEW n \in MetaIds
      PROVE  /\ number[n].state \in {"none", "live", "removed"} /\ number[n].office \in Offices
             /\ number[n].billed \in CodeIds \cup {Nothing} /\ number[n].serves \subseteq CodeIds
             /\ number[n].bot \in BOOLEAN /\ number[n].on \in BOOLEAN /\ number[n].closed \subseteq Days
             /\ number[n].profile \in [Fields -> 0..1]
  <2>1. number[n] \in NumberRow
    BY DEF AccessTypes, AccountTypes, NumberTypes, CallTypes
  <2> QED
    BY <2>1 DEF NumberRow
<1> QED
  BY <1>1, <1>2 DEF AccessTypes, AccountTypes, NumberTypes, CallTypes, AccessTypeOK, CallSteps, AccountRow

\* What a handler keeps of its request is a call: the fields it fills, one by one.
LEMMA CallIsFilled ==
  ASSUME NEW c \in CallRow
  PROVE  /\ \A s \in CallSteps : [c EXCEPT !.step = s] \in CallRow
         /\ \A by \in Emails \cup {Nothing} : [c EXCEPT !.by = by] \in CallRow
         /\ \A e \in Emails \cup {Nothing} : [c EXCEPT !.email = e] \in CallRow
         /\ \A r \in Roles \cup {Nothing} : [c EXCEPT !.role = r] \in CallRow
         /\ \A cs \in (SUBSET CodeIds) \cup {Nothing} : [c EXCEPT !.codes = cs] \in CallRow
         /\ \A o \in Offices : [c EXCEPT !.office = o] \in CallRow
         /\ \A b \in CodeIds \cup {Nothing} : [c EXCEPT !.code = b] \in CallRow
         /\ \A n \in MetaIds \cup {Nothing} : [c EXCEPT !.line = n] \in CallRow
         /\ \A bs \in SUBSET (CodeIds \cup {Nothing}) : [c EXCEPT !.billed = bs] \in CallRow
         /\ \A on \in SUBSET BOOLEAN : [c EXCEPT !.on = on] \in CallRow
         /\ \A on \in BOOLEAN : [c EXCEPT !.bot = on] \in CallRow
         /\ \A p \in [Fields -> 0..1] : [c EXCEPT !.profile = p] \in CallRow
         /\ \A l \in SUBSET {"own", "default", "filter"} : [c EXCEPT !.left = l] \in CallRow
         /\ \A a \in Nat : [c EXCEPT !.alone = a] \in CallRow
BY DEF CallRow

\* A call that begins, and one that ends, is a row of calls.
LEMMA NoCallIsACall == NoCall \in CallRow /\ NoCall.step = "idle" /\ NoCall.alone = 0
<1>1. Home \in Offices /\ 0 \in Nat /\ [f \in Fields |-> 0] \in [Fields -> 0..1]
  BY AccessParameters
<1> QED
  BY <1>1 DEF NoCall, CallRow, CallSteps

LEMMA AccessTypesInit == AccessInit => AccessTypes
<1> SUFFICES ASSUME AccessInit PROVE AccessTypes
  OBVIOUS
<1> USE AccessParameters DEF AccessInit
<1>1. office \in [Offices -> {"none", "on", "off"}]
  OBVIOUS
<1>2. account \in [Emails -> AccountRow]
  BY DEF AccountRow, NoAccount, Roles
<1>3. grants \in [Emails -> SUBSET CodeIds]
  BY DEF CodeIds
<1>4. code \in [CodeIds -> [state : {"none", "live", "retired"}, master : BOOLEAN, on : BOOLEAN]]
  <2>1. PICK s \in {"live", "retired"} :
          code = [c \in CodeIds |->
            IF c = <<Home, Master>> THEN [state |-> "live", master |-> TRUE, on |-> TRUE]
            ELSE IF c = <<Home, Branch>> THEN [NoCodeRow EXCEPT !.state = s] ELSE NoCodeRow]
    OBVIOUS
  <2> QED
    BY <2>1 DEF NoCodeRow
<1>5. number \in [MetaIds -> NumberRow]
  <2>1. PICK b \in {<<Home, Master>>, <<Home, Branch>>} :
          number = [n \in MetaIds |-> IF n = Line THEN [NoNumberRow EXCEPT !.state = "live", !.on = TRUE, !.billed = b]
                                      ELSE NoNumberRow]
    OBVIOUS
  <2>2. b \in CodeIds
    BY DEF CodeIds
  <2> QED
    <3>1. NoNumberRow \in NumberRow
      BY DEF NoNumberRow, NumberRow
    <3>2. [NoNumberRow EXCEPT !.state = "live", !.on = TRUE, !.billed = b] \in NumberRow
      BY <2>2, <3>1 DEF NumberRow
    <3> QED
      BY <2>1, <3>1, <3>2
<1>6. told \in [MetaIds -> BOOLEAN \cup {Nothing}]
  OBVIOUS
<1>7. call \in [Calls -> CallRow] /\ calls \in 0..MaxCalls
  BY NoCallIsACall
<1> QED
  BY <1>1, <1>2, <1>3, <1>4, <1>5, <1>6, <1>7 DEF AccessTypes, AccountTypes, NumberTypes, CallTypes

-----------------------------------------------------------------------------
\* What a step does to the requests in course: one of them begins, goes on or
\* ends, or none.
LEMMA EnterIsTyped ==
  ASSUME AccessTypes, NEW q \in Calls, NEW c \in CallRow, Enter(q, c)
  PROVE  call' \in [Calls -> CallRow]
BY DEF AccessTypes, AccountTypes, NumberTypes, CallTypes, Enter

LEMMA DoneIsTyped ==
  ASSUME AccessTypes, NEW q \in Calls, Done(q)
  PROVE  call' \in [Calls -> CallRow]
BY NoCallIsACall DEF AccessTypes, AccountTypes, NumberTypes, CallTypes, Done

LEMMA StepIsTyped ==
  ASSUME AccessTypes, NEW q \in Calls, NEW s \in CallSteps, Step(q, s)
  PROVE  call' \in [Calls -> CallRow]
<1>1. call[q] \in CallRow
  BY DEF AccessTypes, AccountTypes, NumberTypes, CallTypes
<1>2. [call[q] EXCEPT !.step = s] \in CallRow
  BY <1>1 DEF CallRow
<1> QED
  BY <1>2 DEF AccessTypes, AccountTypes, NumberTypes, CallTypes, Step

LEMMA BeginIsTyped ==
  ASSUME AccessTypes, NEW by, Begin(by)
  PROVE  calls' \in 0..MaxCalls /\ calls' = calls + 1
BY AccessParameters DEF AccessTypes, AccountTypes, NumberTypes, CallTypes, Begin

LEMMA OfficeOfIsTyped ==
  ASSUME AccessTypes, NEW by \in Emails \cup {Nothing}
  PROVE  OfficeOf(by) \in Offices
BY AccessParameters DEF AccessTypes, AccountTypes, NumberTypes, CallTypes, OfficeOf, AccountRow

\* What a request carries when it begins.
Begun(q, c) ==
  /\ c \in CallRow /\ Enter(q, c)
  /\ AccountCallFits(c) /\ NumberCallFits(c)
  /\ c.step \notin {"idle", "shown"}
  /\ c.step # "seeing" => c.alone = 0
  /\ c.step = "seeing" =>
       /\ c.email \in Emails /\ c.role = account[c.email].role /\ c.left = {"own", "default", "filter"}
       /\ c.alone = calls' \/ c.alone = 0
       /\ c.alone # 0 => \A p \in Calls : Open(p)

LEMMA CodesFitAreHome ==
  ASSUME NEW cs, NEW o, CodesFit(cs, o)
  PROVE  AtHome(cs, o)
BY DEF CodesFit, LiveCodes, AtHome

LEMMA BeginsWell ==
  ASSUME AccessTypes, NEW q \in Calls, CallBegins(q)
  PROVE  /\ UNCHANGED rows /\ calls' \in 0..MaxCalls /\ calls' = calls + 1
         /\ \E begun \in CallRow : Begun(q, begun)
<1> USE NoCallIsACall
<1>1. ASSUME NEW o \in Offices, NEW e \in Emails, NEW cs \in SUBSET ({o} \X CodeNames), FoundOffice(q, o, e, cs)
      PROVE  UNCHANGED rows /\ (\E begun \in CallRow : Begun(q, begun)) /\ \E x : Begin(x)
  <2> DEFINE row == [NoCall EXCEPT !.step = "founding", !.office = o, !.email = e, !.codes = cs]
  <2>1. cs \in SUBSET CodeIds
    BY DEF CodeIds
  <2>3. row \in CallRow
    BY <2>1, CallIsFilled DEF CallSteps
  <2>4. row.step = "founding" /\ row.email = e /\ row.codes = cs /\ row.alone = 0
    BY DEF CallRow
  <2>5. UNCHANGED rows /\ Enter(q, row) /\ \E x : Begin(x)
    BY <1>1 DEF FoundOffice
  <2> HIDE DEF row
  <2> QED
    BY <2>3, <2>4, <2>5, <2>1 DEF Begun, AccountCallFits, NumberCallFits
<1>2. ASSUME NEW by \in Emails \cup {Nothing}, NEW c \in CodeIds, FindCode(q, by, c)
      PROVE  UNCHANGED rows /\ (\E begun \in CallRow : Begun(q, begun)) /\ \E x : Begin(x)
  <2> DEFINE s == IF code[c].state = "none" THEN "coding" ELSE "reviving"
  <2>1. s \in {"coding", "reviving"}
    OBVIOUS
  <2> HIDE DEF s
  <2> DEFINE row == [NoCall EXCEPT !.step = s, !.by = by, !.code = c]
  <2>3. row \in CallRow
    BY <2>1, CallIsFilled DEF CallSteps
  <2>4. row.step = s /\ row.code = c /\ row.alone = 0
    BY DEF CallRow
  <2>5. UNCHANGED rows /\ Enter(q, row) /\ \E x : Begin(x)
    BY <1>2 DEF FindCode, s
  <2> HIDE DEF row
  <2> QED
    BY <2>3, <2>4, <2>5, <2>1 DEF Begun, AccountCallFits, NumberCallFits
<1>3. ASSUME NEW by \in Emails \cup {Nothing}, NEW e \in Emails, NEW r \in Roles, NEW o \in Offices,
             NEW cs \in CodeSets \ {Nothing}, FindFree(q, by, e, o, r, cs)
      PROVE  UNCHANGED rows /\ (\E begun \in CallRow : Begun(q, begun)) /\ \E x : Begin(x)
  <2> DEFINE row == [NoCall EXCEPT !.step = "creating", !.email = e, !.office = o, !.role = r, !.codes = cs]
  <2>1. cs \in (SUBSET CodeIds) \cup {Nothing}
    BY DEF CodeSets
  <2>3. row \in CallRow
    BY <2>1, CallIsFilled DEF CallSteps
  <2>4. row.step = "creating" /\ row.email = e /\ row.office = o /\ row.role = r /\ row.codes = cs /\ row.alone = 0
    BY DEF CallRow
  <2>5. UNCHANGED rows /\ Enter(q, row) /\ \E x : Begin(x)
    BY <1>3 DEF FindFree
  <2> HIDE DEF row
  <2>6. r = "ADMIN" => AtHome(cs, o)
    BY <1>3, CodesFitAreHome DEF FindFree, AtHome
  <2> QED
    BY <2>3, <2>4, <2>5, <2>1, <2>6 DEF Begun, AccountCallFits, NumberCallFits
<1>4. ASSUME NEW by \in Emails \cup {Nothing}, NEW e \in Emails, NEW r \in Roles \cup {Nothing}, NEW cs \in CodeSets,
             FindAccount(q, by, e, r, cs)
      PROVE  UNCHANGED rows /\ (\E begun \in CallRow : Begun(q, begun)) /\ \E x : Begin(x)
  <2> DEFINE row == [NoCall EXCEPT !.step = "writing", !.email = e, !.role = r, !.codes = cs]
  <2>1. cs \in (SUBSET CodeIds) \cup {Nothing}
    BY DEF CodeSets
  <2>3. row \in CallRow
    BY <2>1, CallIsFilled DEF CallSteps
  <2>4. row.step = "writing" /\ row.email = e /\ row.codes = cs /\ row.alone = 0
    BY DEF CallRow
  <2>5. UNCHANGED rows /\ Enter(q, row) /\ \E x : Begin(x)
    BY <1>4 DEF FindAccount
  <2> HIDE DEF row
  <2>6. account[e].state # "none" /\ (cs # Nothing => AtHome(cs, account[e].office))
    BY <1>4, CodesFitAreHome DEF FindAccount
  <2> QED
    BY <2>3, <2>4, <2>5, <2>1, <2>6 DEF Begun, AccountCallFits, NumberCallFits
<1>5. ASSUME NEW by \in Emails \cup {Nothing}, NEW n \in MetaIds, NEW b \in CodeIds \cup {Nothing},
             NEW cs \in CodeSets \ {Nothing}, FindMetaId(q, by, n, b, cs)
      PROVE  UNCHANGED rows /\ (\E begun \in CallRow : Begun(q, begun)) /\ \E x : Begin(x)
  <2> DEFINE o == OfficeOf(by)
  <2>2. o \in Offices
    BY OfficeOfIsTyped
  <2> HIDE DEF o
  <2> DEFINE row == [NoCall EXCEPT !.step = "opening", !.office = o, !.line = n, !.code = b, !.codes = cs]
  <2>1. cs \in (SUBSET CodeIds) \cup {Nothing}
    BY DEF CodeSets
  <2>3. row \in CallRow
    BY <2>1, <2>2, CallIsFilled DEF CallSteps
  <2>4. row.step = "opening" /\ row.line = n /\ row.office = o /\ row.code = b /\ row.codes = cs /\ row.alone = 0
    BY DEF CallRow
  <2>5. UNCHANGED rows /\ Enter(q, row) /\ \E x : Begin(x)
    BY <1>5 DEF FindMetaId, o
  <2> HIDE DEF row
  <2>6. AtHome(cs \cup ({b} \ {Nothing}), o)
    BY <1>5, CodesFitAreHome DEF FindMetaId, o
  <2> QED
    BY <2>3, <2>4, <2>5, <2>1, <2>6 DEF Begun, AccountCallFits, NumberCallFits
<1>6. ASSUME NEW by \in Emails \cup {Nothing}, NEW n \in MetaIds, NEW bs \in SUBSET (CodeIds \cup {Nothing}),
             NEW on \in SUBSET BOOLEAN, NEW cs \in CodeSets, FindNumberRow(q, by, n, bs, on, cs)
      PROVE  UNCHANGED rows /\ (\E begun \in CallRow : Begun(q, begun)) /\ \E x : Begin(x)
  <2> DEFINE row == [NoCall EXCEPT !.step = "changing", !.line = n, !.billed = bs, !.on = on, !.codes = cs]
  <2>1. cs \in (SUBSET CodeIds) \cup {Nothing}
    BY DEF CodeSets
  <2>3. row \in CallRow
    BY <2>1, CallIsFilled DEF CallSteps
  <2>4. row.step = "changing" /\ row.line = n /\ row.billed = bs /\ row.codes = cs /\ row.alone = 0
    BY DEF CallRow
  <2>5. UNCHANGED rows /\ Enter(q, row) /\ \E x : Begin(x)
    BY <1>6 DEF FindNumberRow
  <2> HIDE DEF row
  <2>6. /\ number[n].state # "none" /\ AtHome(bs \ {Nothing}, number[n].office)
        /\ cs # Nothing => AtHome(cs, number[n].office)
    <3>1. number[n].state = "live" /\ number[n].office = OfficeOf(by)
      BY <1>6 DEF FindNumberRow
    <3>2. CodesFit(Sent(cs) \cup (bs \ {Nothing}), OfficeOf(by))
      BY <1>6 DEF FindNumberRow
    <3>3. AtHome(Sent(cs) \cup (bs \ {Nothing}), number[n].office)
      BY <3>1, <3>2, CodesFitAreHome
    <3>4. cs # Nothing => Sent(cs) = cs
      BY DEF Sent
    <3> QED
      BY <3>1, <3>3, <3>4 DEF AtHome
  <2> QED
    BY <2>3, <2>4, <2>5, <2>1, <2>6 DEF Begun, AccountCallFits, NumberCallFits
<1>7. ASSUME NEW by \in Emails \cup {Nothing}, NEW n \in MetaIds, ReadSwitch(q, by, n)
      PROVE  UNCHANGED rows /\ (\E begun \in CallRow : Begun(q, begun)) /\ \E x : Begin(x)
  <2> DEFINE on == ~number[n].bot
  <2>1. on \in BOOLEAN
    OBVIOUS
  <2> HIDE DEF on
  <2> DEFINE row == [NoCall EXCEPT !.step = "flipping", !.line = n, !.bot = on]
  <2>3. row \in CallRow
    BY <2>1, CallIsFilled DEF CallSteps
  <2>4. row.step = "flipping" /\ row.line = n /\ row.alone = 0
    BY DEF CallRow
  <2>5. UNCHANGED rows /\ Enter(q, row) /\ \E x : Begin(x)
    BY <1>7 DEF ReadSwitch, on
  <2> HIDE DEF row
  <2>6. number[n].state # "none"
    BY <1>7 DEF ReadSwitch, InScope
  <2> QED
    BY <2>3, <2>4, <2>5, <2>6 DEF Begun, AccountCallFits, NumberCallFits
<1>8. ASSUME NEW by \in Emails \cup {Nothing}, NEW n \in MetaIds, NEW f \in Fields, ReadAssistant(q, by, n, f)
      PROVE  UNCHANGED rows /\ (\E begun \in CallRow : Begun(q, begun)) /\ \E x : Begin(x)
  <2> DEFINE profile == [number[n].profile EXCEPT ![f] = 1]
             row == [NoCall EXCEPT !.step = "merging", !.line = n, !.profile = profile]
  <2>0. number[n].profile \in [Fields -> 0..1]
    BY DEF AccessTypes, NumberTypes, NumberRow
  <2>1. profile \in [Fields -> 0..1]
    BY <2>0
  <2> HIDE DEF profile
  <2>3. row \in CallRow
    BY <2>1, CallIsFilled DEF CallSteps
  <2>4. row.step = "merging" /\ row.line = n /\ row.alone = 0
    BY DEF CallRow
  <2>5. UNCHANGED rows /\ Enter(q, row) /\ \E x : Begin(x)
    BY <1>8 DEF ReadAssistant, profile
  <2> HIDE DEF row
  <2>6. number[n].state # "none"
    BY <1>8 DEF ReadAssistant, InScope
  <2> QED
    BY <2>3, <2>4, <2>5, <2>6 DEF Begun, AccountCallFits, NumberCallFits
<1>9. ASSUME NEW e \in Emails, NEW f \in MetaIds \cup {Nothing}, ResolveScope(q, e, f)
      PROVE  UNCHANGED rows /\ (\E begun \in CallRow : Begun(q, begun)) /\ \E x : Begin(x)
  <2> DEFINE a == IF \A p \in Calls : Open(p) THEN calls' ELSE 0
  <2>1. calls' \in Nat /\ account[e].role \in Roles
    BY <1>9, BeginIsTyped DEF ResolveScope, AccessTypes, AccountTypes, AccountRow
  <2>2. a \in Nat
    BY <2>1
  <2> HIDE DEF a
  <2> DEFINE row == [NoCall EXCEPT !.step = "seeing", !.email = e, !.role = account[e].role, !.line = f,
                                !.left = {"own", "default", "filter"}, !.alone = a]
  <2>3. row \in CallRow
    BY <2>1, <2>2, CallIsFilled DEF CallSteps
  <2>4. row.step = "seeing" /\ row.email = e /\ row.role = account[e].role /\ row.left = {"own", "default", "filter"} /\ row.alone = a
    BY DEF CallRow
  <2>5. UNCHANGED rows /\ Enter(q, row) /\ \E x : Begin(x)
    BY <1>9 DEF ResolveScope, a
  <2> HIDE DEF row
  <2>6. (a = calls' \/ a = 0) /\ (a # 0 => \A p \in Calls : Open(p))
    BY DEF a
  <2> QED
    BY <2>3, <2>4, <2>5, <2>6 DEF Begun, AccountCallFits, NumberCallFits
<1>10. UNCHANGED rows /\ (\E begun \in CallRow : Begun(q, begun)) /\ \E x : Begin(x)
  <2>1. \/ \E o \in Offices, e \in Emails : \E cs \in SUBSET ({o} \X CodeNames) : FoundOffice(q, o, e, cs)
        \/ \E by \in Emails \cup {Nothing} :
             \/ \E c \in CodeIds : FindCode(q, by, c)
             \/ \E e \in Emails, r \in Roles :
                  \/ \E o \in Offices, cs \in CodeSets \ {Nothing} : FindFree(q, by, e, o, r, cs)
                  \/ \E cs \in CodeSets : FindAccount(q, by, e, r, cs) \/ FindAccount(q, by, e, Nothing, cs)
             \/ \E n \in MetaIds :
                  \/ \E b \in CodeIds \cup {Nothing} :
                       \/ \E cs \in CodeSets \ {Nothing} : FindMetaId(q, by, n, b, cs)
                       \/ \E cs \in CodeSets : FindNumberRow(q, by, n, {b}, {}, cs)
                  \/ \E cs \in CodeSets, on \in SUBSET BOOLEAN : on # BOOLEAN /\ FindNumberRow(q, by, n, {}, on, cs)
                  \/ ReadSwitch(q, by, n) \/ \E f \in Fields : ReadAssistant(q, by, n, f)
        \/ \E e \in Emails, f \in MetaIds \cup {Nothing} : ResolveScope(q, e, f)
    BY DEF CallBegins
  <2>2. ASSUME NEW by \in Emails \cup {Nothing}, NEW n \in MetaIds, NEW cs \in CodeSets,
               \/ \E b \in CodeIds \cup {Nothing} : FindNumberRow(q, by, n, {b}, {}, cs)
               \/ \E on \in SUBSET BOOLEAN : FindNumberRow(q, by, n, {}, on, cs)
        PROVE  UNCHANGED rows /\ (\E begun \in CallRow : Begun(q, begun)) /\ \E x : Begin(x)
    BY <2>2, <1>6
  <2> QED
    BY <2>1, <2>2, <1>1, <1>2, <1>3, <1>4, <1>5, <1>7, <1>8, <1>9
<1> QED
  BY <1>10, BeginIsTyped


-----------------------------------------------------------------------------
\* The rows after each action that writes them.
AccountsGood == AccountTypes /\ AccountsAgree
NumbersGood == NumberTypes /\ NumbersAgree
AccountsKeep ==
  \A e \in Emails : account[e].state # "none" => account'[e].state # "none" /\ account'[e].office = account[e].office
NumbersKeep ==
  \A n \in MetaIds : number[n].state # "none" => number'[n].state # "none" /\ number'[n].office = number[n].office

LEMMA AccountsStay ==
  ASSUME AccountsGood, UNCHANGED <<office, account, grants, code>>
  PROVE  AccountsGood' /\ AccountsKeep
BY DEF AccountsGood, AccountTypes, AccountsAgree, AccountsKeep, AtHome

LEMMA NumbersStay ==
  ASSUME NumbersGood, UNCHANGED <<number, told>>
  PROVE  NumbersGood' /\ NumbersKeep
BY DEF NumbersGood, NumberTypes, NumbersAgree, NumbersKeep, AtHome, SwitchIsTold

\* One account is written, or the grants of one.
LEMMA AccountWritten ==
  ASSUME AccountsGood, NEW e \in Emails, NEW row \in AccountRow,
         account' = [account EXCEPT ![e] = row],
         account[e].state # "none" => row.state # "none" /\ row.office = account[e].office,
         office' \in [Offices -> {"none", "on", "off"}],
         code' \in [CodeIds -> [state : {"none", "live", "retired"}, master : BOOLEAN, on : BOOLEAN]],
         UNCHANGED grants
  PROVE  AccountsGood' /\ AccountsKeep
<1> USE DEF AccountsGood, AccountTypes, AccountsAgree
<1>1. account' \in [Emails -> AccountRow]
  OBVIOUS
<1>2. ASSUME NEW f \in Emails
      PROVE  /\ account'[f].state = "none" => grants'[f] = {}
             /\ AtHome(grants'[f], account'[f].office)
             /\ account[f].state # "none" => account'[f].state # "none" /\ account'[f].office = account[f].office
  BY DEF AtHome
<1> QED
  BY <1>1, <1>2 DEF AccountsKeep, AtHome

LEMMA GrantsWritten ==
  ASSUME AccountsGood, NEW e \in Emails, NEW cs \in SUBSET CodeIds,
         account[e].state # "none", AtHome(cs, account[e].office),
         grants' = [grants EXCEPT ![e] = cs], UNCHANGED <<office, account, code>>
  PROVE  AccountsGood' /\ AccountsKeep
<1> USE DEF AccountsGood, AccountTypes, AccountsAgree
<1>1. grants' \in [Emails -> SUBSET CodeIds]
  OBVIOUS
<1>2. ASSUME NEW f \in Emails
      PROVE  /\ account'[f].state = "none" => grants'[f] = {}
             /\ AtHome(grants'[f], account'[f].office)
  BY DEF AtHome
<1> QED
  BY <1>1, <1>2 DEF AccountsKeep, AtHome

LEMMA CodesWritten ==
  ASSUME AccountsGood, UNCHANGED <<account, grants>>,
         office' \in [Offices -> {"none", "on", "off"}],
         code' \in [CodeIds -> [state : {"none", "live", "retired"}, master : BOOLEAN, on : BOOLEAN]]
  PROVE  AccountsGood' /\ AccountsKeep
BY DEF AccountsGood, AccountTypes, AccountsAgree, AccountsKeep, AtHome

\* One number is written, and maybe its audit with its switch.
LEMMA NumberWritten ==
  ASSUME NumbersGood, NEW n \in MetaIds, NEW row \in NumberRow,
         number' = [number EXCEPT ![n] = row],
         number[n].state # "none" => row.state # "none" /\ row.office = number[n].office,
         AtHome(row.serves \cup ({row.billed} \ {Nothing}), row.office),
         \/ UNCHANGED told /\ (number[n].state = "none" \/ row.bot = number[n].bot)
         \/ told' = [told EXCEPT ![n] = row.bot] /\ number[n].state # "none"
  PROVE  NumbersGood' /\ NumbersKeep
<1> USE DEF NumbersGood, NumberTypes, NumbersAgree
<1>1. number' \in [MetaIds -> NumberRow]
  OBVIOUS
<1>2. row.bot \in BOOLEAN
  BY DEF NumberRow
<1>3. told' \in [MetaIds -> BOOLEAN \cup {Nothing}]
  BY <1>2
<1>4. ASSUME NEW m \in MetaIds
      PROVE  /\ number'[m].state = "none" => told'[m] = Nothing
             /\ AtHome(number'[m].serves \cup ({number'[m].billed} \ {Nothing}), number'[m].office)
             /\ told'[m] # Nothing => told'[m] = number'[m].bot
             /\ number[m].state # "none" => number'[m].state # "none" /\ number'[m].office = number[m].office
  <2>1. CASE m = n
    BY <2>1 DEF SwitchIsTold
  <2>2. CASE m # n
    BY <2>2 DEF SwitchIsTold
  <2> QED
    BY <2>1, <2>2
<1> QED
  BY <1>1, <1>3, <1>4 DEF NumbersKeep, SwitchIsTold

Good == AccountsGood /\ NumbersGood
Kept == AccountsKeep /\ NumbersKeep

LEMMA GoingOnIsGood ==
  ASSUME AccessInv, NEW q \in Calls, CallGoesOn(q)
  PROVE  Good' /\ Kept
<1> DEFINE c == call[q]
<1>a. AccountsGood /\ NumbersGood /\ AccountCallFits(call[q]) /\ NumberCallFits(call[q])
  BY DEF AccessInv, AccountsGood, NumbersGood, AccessTypes
<1>b. c \in CallRow
  BY DEF AccessInv, AccessTypes, CallTypes
<1>c. c.office \in Offices /\ c.bot \in BOOLEAN /\ c.profile \in [Fields -> 0..1] /\ c.code \in CodeIds \cup {Nothing}
  BY <1>b DEF CallRow
<1> HIDE DEF c
<1> USE DEF Good, Kept
<1>1. CASE CreateOrganization(q)
  <2>1. UNCHANGED <<grants, number, told>>
    BY <1>1 DEF CreateOrganization
  <2>2. NumbersGood' /\ NumbersKeep
    BY <1>a, <2>1, NumbersStay
  <2>3. c.step = "founding" /\ c.email \in Emails
    BY <1>1, <1>a DEF CreateOrganization, AccountCallFits, c
  <2>4. CASE office[c.office] = "none" /\ account[c.email].state = "none"
    <3>1. [state |-> "live", office |-> c.office, role |-> "SUPERADMIN"] \in AccountRow
      BY <1>c DEF AccountRow, Roles
    <3>2. office' \in [Offices -> {"none", "on", "off"}]
      BY <1>1, <1>a, <2>4 DEF CreateOrganization, AccountsGood, AccountTypes, c
    <3>3. code' \in [CodeIds -> [state : {"none", "live", "retired"}, master : BOOLEAN, on : BOOLEAN]]
      <4>1. code' = [x \in CodeIds |-> IF x \in c.codes
                       THEN [state |-> "live", master |-> x[2] = Master, on |-> TRUE] ELSE code[x]]
        BY <1>1, <2>4 DEF CreateOrganization, c
      <4>2. ASSUME NEW x \in CodeIds
            PROVE  /\ code[x] \in [state : {"none", "live", "retired"}, master : BOOLEAN, on : BOOLEAN]
                   /\ [state |-> "live", master |-> x[2] = Master, on |-> TRUE]
                        \in [state : {"none", "live", "retired"}, master : BOOLEAN, on : BOOLEAN]
        BY <1>a DEF AccountsGood, AccountTypes
      <4> QED
        BY <4>1, <4>2
    <3>4. account' = [account EXCEPT ![c.email] = [state |-> "live", office |-> c.office, role |-> "SUPERADMIN"]]
      BY <1>1, <2>4 DEF CreateOrganization, c
    <3> QED
      BY <1>a, <2>1, <2>2, <2>3, <2>4, <3>1, <3>2, <3>3, <3>4, AccountWritten
  <2>5. CASE ~(office[c.office] = "none" /\ account[c.email].state = "none")
    BY <1>1, <1>a, <2>1, <2>2, <2>5, AccountsStay DEF CreateOrganization, c
  <2> QED
    BY <2>4, <2>5
<1>2. CASE AddCode(q)
  <2>1. UNCHANGED <<office, account, grants, number, told>>
    BY <1>2 DEF AddCode
  <2>2. office' \in [Offices -> {"none", "on", "off"}]
    BY <2>1, <1>a DEF AccountsGood, AccountTypes
  <2>3. code' \in [CodeIds -> [state : {"none", "live", "retired"}, master : BOOLEAN, on : BOOLEAN]]
    <3>1. c.code \in CodeIds
      BY <1>2, <1>a DEF AddCode, AccountCallFits, c
    <3>2. code[c.code].master \in BOOLEAN
      BY <1>a, <3>1 DEF AccountsGood, AccountTypes
    <3>3. PICK m \in BOOLEAN :
            code' = IF c.step = "coding" /\ code[c.code].state # "none" THEN code
                    ELSE [code EXCEPT ![c.code] = [state |-> "live", on |-> TRUE,
                            master |-> IF c.by = Nothing THEN m ELSE code[c.code].master]]
      BY <1>2 DEF AddCode, c
    <3> DEFINE owners == IF c.by = Nothing THEN m ELSE code[c.code].master
    <3>4. owners \in BOOLEAN
      BY <3>2, <3>3
    <3>5. code' = code \/ code' = [code EXCEPT ![c.code] = [state |-> "live", on |-> TRUE, master |-> owners]]
      BY <3>3
    <3> HIDE DEF owners
    <3> DEFINE row == [state |-> "live", on |-> TRUE, master |-> owners]
    <3>6. row \in [state : {"none", "live", "retired"}, master : BOOLEAN, on : BOOLEAN]
      BY <3>4
    <3> HIDE DEF row
    <3>7. code' = code \/ code' = [code EXCEPT ![c.code] = row]
      BY <3>5 DEF row
    <3> QED
      BY <1>a, <3>1, <3>6, <3>7 DEF AccountsGood, AccountTypes
  <2> QED
    BY <1>a, <2>1, <2>2, <2>3, CodesWritten, NumbersStay
<1>3. CASE CreateAccount(q)
  <2>1. UNCHANGED <<office, grants, code, number, told>>
    BY <1>3 DEF CreateAccount
  <2>2. NumbersGood' /\ NumbersKeep
    BY <1>a, <2>1, NumbersStay
  <2>3. c.email \in Emails /\ c.role \in Roles
    BY <1>3, <1>a DEF CreateAccount, AccountCallFits, c
  <2>4. CASE account[c.email].state # "none"
    BY <1>3, <1>a, <2>1, <2>2, <2>4, AccountsStay DEF CreateAccount, c
  <2>5. CASE account[c.email].state = "none"
    <3>1. [state |-> "live", office |-> c.office, role |-> c.role] \in AccountRow
      BY <1>c, <2>3 DEF AccountRow
    <3>2. account' = [account EXCEPT ![c.email] = [state |-> "live", office |-> c.office, role |-> c.role]]
      BY <1>3, <2>5 DEF CreateAccount, c
    <3>3. office' \in [Offices -> {"none", "on", "off"}]
          /\ code' \in [CodeIds -> [state : {"none", "live", "retired"}, master : BOOLEAN, on : BOOLEAN]]
      BY <2>1, <1>a DEF AccountsGood, AccountTypes
    <3> QED
      BY <1>a, <2>1, <2>2, <2>3, <2>5, <3>1, <3>2, <3>3, AccountWritten
  <2> QED
    BY <2>4, <2>5
<1>4. CASE GrantCodes(q)
  <2>1. UNCHANGED <<office, account, code, number, told>>
    BY <1>4 DEF GrantCodes
  <2>2. /\ c.email \in Emails /\ c.codes \in SUBSET CodeIds
        /\ account[c.email].state # "none" /\ AtHome(c.codes, account[c.email].office)
    BY <1>4, <1>a DEF GrantCodes, AccountCallFits, c
  <2>3. /\ grants[c.email] \cup c.codes \in SUBSET CodeIds
        /\ AtHome(grants[c.email] \cup c.codes, account[c.email].office)
    BY <1>a, <2>2 DEF AccountsGood, AccountTypes, AccountsAgree, AtHome
  <2>4. grants' = [grants EXCEPT ![c.email] = grants[c.email] \cup c.codes]
    BY <1>4 DEF GrantCodes, c
  <2> QED
    BY <1>a, <2>1, <2>2, <2>3, <2>4, GrantsWritten, NumbersStay
<1>5. CASE UpdateAccount(q)
  <2>1. UNCHANGED <<office, grants, code, number, told>>
    BY <1>5 DEF UpdateAccount
  <2>2. c.email \in Emails
    BY <1>5, <1>a DEF UpdateAccount, AccountCallFits, c
  <2>3. CASE c.role = Nothing
    BY <1>5, <1>a, <2>1, <2>3, AccountsStay, NumbersStay DEF UpdateAccount, c
  <2>4. CASE c.role # Nothing
    <3>1. c.role \in Roles
      BY <1>b, <2>4 DEF CallRow
    <3>2. account[c.email] \in AccountRow
      BY <1>a, <2>2 DEF AccountsGood, AccountTypes
    <3>3. [account[c.email] EXCEPT !.role = c.role] \in AccountRow
      BY <3>1, <3>2 DEF AccountRow
    <3>4. /\ [account[c.email] EXCEPT !.role = c.role].state = account[c.email].state
          /\ [account[c.email] EXCEPT !.role = c.role].office = account[c.email].office
      BY <3>2 DEF AccountRow
    <3>5. account' = [account EXCEPT ![c.email] = [account[c.email] EXCEPT !.role = c.role]]
      BY <1>5, <2>4 DEF UpdateAccount, c
    <3>6. office' \in [Offices -> {"none", "on", "off"}]
          /\ code' \in [CodeIds -> [state : {"none", "live", "retired"}, master : BOOLEAN, on : BOOLEAN]]
      BY <2>1, <1>a DEF AccountsGood, AccountTypes
    <3> QED
      BY <1>a, <2>1, <2>2, <3>3, <3>4, <3>5, <3>6, AccountWritten, NumbersStay
  <2> QED
    BY <2>3, <2>4
<1>6. CASE ReplaceGrants(q)
  <2>1. UNCHANGED <<office, account, code, number, told>>
    BY <1>6 DEF ReplaceGrants
  <2>2. /\ c.email \in Emails /\ account[c.email].state # "none"
        /\ c.codes = Nothing \/ (c.codes \in SUBSET CodeIds /\ AtHome(c.codes, account[c.email].office))
    BY <1>6, <1>a DEF ReplaceGrants, AccountCallFits, c
  <2>3. CASE c.role = "SUPERADMIN"
    <3>1. AtHome({}, account[c.email].office) /\ {} \in SUBSET CodeIds
      BY DEF AtHome
    <3>2. grants' = [grants EXCEPT ![c.email] = {}]
      BY <1>6, <2>3 DEF ReplaceGrants, c
    <3> QED
      BY <1>a, <2>1, <2>2, <3>1, <3>2, GrantsWritten, NumbersStay
  <2>4. CASE c.role # "SUPERADMIN" /\ c.codes = Nothing
    BY <1>6, <1>a, <2>1, <2>4, AccountsStay, NumbersStay DEF ReplaceGrants, c
  <2>5. CASE c.role # "SUPERADMIN" /\ c.codes # Nothing
    <3>1. grants' = [grants EXCEPT ![c.email] = c.codes]
      BY <1>6, <2>5 DEF ReplaceGrants, c
    <3> QED
      BY <1>a, <2>1, <2>2, <2>5, <3>1, GrantsWritten, NumbersStay
  <2> QED
    BY <2>3, <2>4, <2>5
<1>7. CASE CreateNumber(q)
  <2>1. UNCHANGED <<office, account, grants, code, told>>
    BY <1>7 DEF CreateNumber
  <2>2. AccountsGood' /\ AccountsKeep
    BY <1>a, <2>1, AccountsStay
  <2>3. c.line \in MetaIds /\ AtHome(c.codes \cup ({c.code} \ {Nothing}), c.office)
    BY <1>7, <1>a DEF CreateNumber, NumberCallFits, c
  <2>4. CASE number[c.line].state # "none"
    BY <1>7, <1>a, <2>1, <2>2, <2>4, NumbersStay DEF CreateNumber, c
  <2>5. CASE number[c.line].state = "none"
    <3> DEFINE row == [NoNumberRow EXCEPT !.state = "live", !.on = TRUE, !.office = c.office, !.billed = c.code]
    <3>a. NoNumberRow \in NumberRow /\ NoNumberRow.serves = {}
      BY AccessParameters DEF NoNumberRow, NumberRow
    <3>1. row.office = c.office /\ row.billed = c.code /\ row.serves = {}
      BY <3>a DEF NumberRow
    <3>2. number' = [number EXCEPT ![c.line] = row]
      BY <1>7, <2>5 DEF CreateNumber, c
    <3>3. row \in NumberRow
      BY <1>c, <3>a DEF NumberRow
    <3> HIDE DEF row
    <3>4. AtHome(row.serves \cup ({row.billed} \ {Nothing}), row.office)
      BY <2>3, <3>1 DEF AtHome
    <3> QED
      BY <1>a, <2>1, <2>2, <2>3, <2>5, <3>2, <3>3, <3>4, NumberWritten
  <2> QED
    BY <2>4, <2>5
<1>8. CASE UpdateNumber(q)
  <2>1. UNCHANGED <<office, account, grants, code, told>>
    BY <1>8 DEF UpdateNumber
  <2>2. c.line \in MetaIds /\ number[c.line].state # "none" /\ AtHome(c.billed \ {Nothing}, number[c.line].office)
    BY <1>8, <1>a DEF UpdateNumber, NumberCallFits, c
  <2>b. PICK billed : billed = Patched(c.billed, number[c.line].billed)
    OBVIOUS
  <2>o. PICK on : on = Patched(c.on, number[c.line].on)
    OBVIOUS
  <2>p. /\ number[c.line].billed \in CodeIds \cup {Nothing} /\ number[c.line].on \in BOOLEAN
        /\ AtHome({number[c.line].billed} \ {Nothing}, number[c.line].office)
    BY <1>a, <2>2 DEF NumbersGood, NumberTypes, NumberRow, NumbersAgree, AtHome
  <2>q. c.billed \in SUBSET (CodeIds \cup {Nothing}) /\ c.on \in SUBSET BOOLEAN
    BY <1>b DEF CallRow
  <2>r. /\ billed \in CodeIds \cup {Nothing} /\ on \in BOOLEAN
        /\ AtHome({billed} \ {Nothing}, number[c.line].office)
    BY <2>2, <2>b, <2>o, <2>p, <2>q DEF Patched, AtHome
  <2> DEFINE row == [number[c.line] EXCEPT !.billed = billed, !.on = on]
  <2>3. number[c.line] \in NumberRow /\ AtHome(number[c.line].serves, number[c.line].office)
    BY <1>a, <2>2 DEF NumbersGood, NumberTypes, NumbersAgree, AtHome
  <2>4. /\ row \in NumberRow /\ row.state = number[c.line].state /\ row.office = number[c.line].office
        /\ row.bot = number[c.line].bot /\ row.serves = number[c.line].serves /\ row.billed = billed
    BY <2>3, <2>r DEF NumberRow
  <2>5. number' = [number EXCEPT ![c.line] = row]
    <3>1. number' = [number EXCEPT ![c.line].billed = Patched(c.billed, @), ![c.line].on = Patched(c.on, @)]
      BY <1>8 DEF UpdateNumber, c
    <3> QED
      BY <3>1, <2>2, <2>3, <2>b, <2>o, <1>a DEF NumbersGood, NumberTypes, NumberRow
  <2> HIDE DEF row
  <2>6. AtHome(row.serves \cup ({row.billed} \ {Nothing}), row.office)
    BY <2>3, <2>4, <2>r DEF AtHome
  <2> QED
    BY <1>a, <2>1, <2>2, <2>4, <2>5, <2>6, NumberWritten, AccountsStay
<1>9. CASE ReplaceServedCodes(q)
  <2>1. UNCHANGED <<office, account, grants, code, told>>
    BY <1>9 DEF ReplaceServedCodes
  <2>2. /\ c.line \in MetaIds /\ number[c.line].state # "none"
        /\ c.codes \in SUBSET CodeIds /\ AtHome(c.codes, number[c.line].office)
    BY <1>9, <1>a DEF ReplaceServedCodes, NumberCallFits, c
  <2> DEFINE row == [number[c.line] EXCEPT !.serves = c.codes]
  <2>3. number[c.line] \in NumberRow /\ AtHome({number[c.line].billed} \ {Nothing}, number[c.line].office)
    BY <1>a, <2>2 DEF NumbersGood, NumberTypes, NumbersAgree, AtHome
  <2>4. /\ row \in NumberRow /\ row.state = number[c.line].state /\ row.office = number[c.line].office
        /\ row.bot = number[c.line].bot /\ row.serves = c.codes /\ row.billed = number[c.line].billed
    BY <2>2, <2>3 DEF NumberRow
  <2>5. number' = [number EXCEPT ![c.line] = row]
    BY <1>9 DEF ReplaceServedCodes, c
  <2> HIDE DEF row
  <2>6. AtHome(row.serves \cup ({row.billed} \ {Nothing}), row.office)
    BY <2>2, <2>3, <2>4 DEF AtHome
  <2> QED
    BY <1>a, <2>1, <2>2, <2>4, <2>5, <2>6, NumberWritten, AccountsStay
<1>10. CASE SetBotEnabled(q)
  <2>1. UNCHANGED <<office, account, grants, code>>
    BY <1>10 DEF SetBotEnabled
  <2>2. c.line \in MetaIds /\ number[c.line].state # "none"
    BY <1>10, <1>a DEF SetBotEnabled, NumberCallFits, c
  <2> DEFINE row == [number[c.line] EXCEPT !.bot = c.bot]
  <2>3. number[c.line] \in NumberRow /\ AtHome(number[c.line].serves \cup ({number[c.line].billed} \ {Nothing}), number[c.line].office)
    BY <1>a, <2>2 DEF NumbersGood, NumberTypes, NumbersAgree
  <2>4. /\ row \in NumberRow /\ row.state = number[c.line].state /\ row.office = number[c.line].office
        /\ row.bot = c.bot /\ row.serves = number[c.line].serves /\ row.billed = number[c.line].billed
    BY <2>3, <1>c DEF NumberRow
  <2>5. number' = [number EXCEPT ![c.line] = row] /\ told' = [told EXCEPT ![c.line] = c.bot]
    BY <1>10 DEF SetBotEnabled, c
  <2> HIDE DEF row
  <2>6. AtHome(row.serves \cup ({row.billed} \ {Nothing}), row.office)
    BY <2>3, <2>4
  <2> QED
    BY <1>a, <2>1, <2>2, <2>4, <2>5, <2>6, NumberWritten, AccountsStay
<1>11. CASE UpdateAssistant(q)
  <2>1. UNCHANGED <<office, account, grants, code, told>>
    BY <1>11 DEF UpdateAssistant
  <2>2. c.line \in MetaIds /\ number[c.line].state # "none"
    BY <1>11, <1>a DEF UpdateAssistant, NumberCallFits, c
  <2> DEFINE row == [number[c.line] EXCEPT !.profile = c.profile]
  <2>3. number[c.line] \in NumberRow /\ AtHome(number[c.line].serves \cup ({number[c.line].billed} \ {Nothing}), number[c.line].office)
    BY <1>a, <2>2 DEF NumbersGood, NumberTypes, NumbersAgree
  <2>4. /\ row \in NumberRow /\ row.state = number[c.line].state /\ row.office = number[c.line].office
        /\ row.bot = number[c.line].bot /\ row.serves = number[c.line].serves /\ row.billed = number[c.line].billed
    BY <2>3, <1>c DEF NumberRow
  <2>5. number' = [number EXCEPT ![c.line] = row]
    BY <1>11 DEF UpdateAssistant, c
  <2> HIDE DEF row
  <2>6. AtHome(row.serves \cup ({row.billed} \ {Nothing}), row.office)
    BY <2>3, <2>4
  <2> QED
    BY <1>a, <2>1, <2>2, <2>4, <2>5, <2>6, NumberWritten, AccountsStay
<1>12. CASE ReadRole(q) \/ ReadOwn(q) \/ ReadDefault(q) \/ ReadFilter(q) \/ AnswerScope(q)
  <2>1. UNCHANGED rows
    BY <1>12 DEF ReadRole, ReadOwn, ReadDefault, ReadFilter, AnswerScope
  <2> QED
    BY <1>a, <2>1, AccountsStay, NumbersStay DEF rows
<1> QED
  BY <1>1, <1>2, <1>3, <1>4, <1>5, <1>6, <1>7, <1>8, <1>9, <1>10, <1>11, <1>12 DEF CallGoesOn

LEMMA AtOnceIsGood ==
  ASSUME AccessInv, AtOnce
  PROVE  Good' /\ Kept /\ UNCHANGED call /\ calls' \in 0..MaxCalls /\ calls' = calls + 1
<1>a. AccountsGood /\ NumbersGood /\ AccessTypes
  BY DEF AccessInv, AccountsGood, NumbersGood, AccessTypes
<1> USE DEF Good, Kept
<1>1. ASSUME NEW o \in Offices, SetOrganizationActive(o)
      PROVE  Good' /\ Kept /\ UNCHANGED call /\ \E by : Begin(by)
  <2>1. UNCHANGED <<account, grants, code, number, told, call>>
    BY <1>1 DEF SetOrganizationActive
  <2>2. office' \in [Offices -> {"none", "on", "off"}]
    BY <1>1, <1>a DEF SetOrganizationActive, AccountsGood, AccountTypes
  <2>3. code' \in [CodeIds -> [state : {"none", "live", "retired"}, master : BOOLEAN, on : BOOLEAN]]
    BY <2>1, <1>a DEF AccountsGood, AccountTypes
  <2>4. AccountsGood' /\ AccountsKeep
    BY <1>a, <2>1, <2>2, <2>3, CodesWritten
  <2>5. NumbersGood' /\ NumbersKeep
    BY <1>a, <2>1, NumbersStay
  <2> QED
    BY <1>1, <2>1, <2>4, <2>5 DEF SetOrganizationActive
<1>2. ASSUME NEW c \in CodeIds, UpdateCode(c)
      PROVE  Good' /\ Kept /\ UNCHANGED call /\ \E by : Begin(by)
  <2>1. UNCHANGED <<office, account, grants, number, told, call>>
    BY <1>2 DEF UpdateCode
  <2>2. office' \in [Offices -> {"none", "on", "off"}]
    BY <2>1, <1>a DEF AccountsGood, AccountTypes
  <2>3. code' \in [CodeIds -> [state : {"none", "live", "retired"}, master : BOOLEAN, on : BOOLEAN]]
    BY <1>2, <1>a DEF UpdateCode, AccountsGood, AccountTypes
  <2>4. AccountsGood' /\ AccountsKeep
    BY <1>a, <2>1, <2>2, <2>3, CodesWritten
  <2>5. NumbersGood' /\ NumbersKeep
    BY <1>a, <2>1, NumbersStay
  <2> QED
    BY <1>2, <2>1, <2>4, <2>5 DEF UpdateCode
<1>3. ASSUME NEW e \in Emails, NEW r \in Roles, SetRole(e, r)
      PROVE  Good' /\ Kept /\ UNCHANGED call /\ \E by : Begin(by)
  <2>1. UNCHANGED <<office, grants, code, number, told, call>>
    BY <1>3 DEF SetRole
  <2> DEFINE row == [account[e] EXCEPT !.role = r]
  <2>2. account[e] \in AccountRow
    BY <1>a DEF AccountsGood, AccountTypes
  <2>3. row \in AccountRow /\ row.state = account[e].state /\ row.office = account[e].office
    BY <2>2 DEF AccountRow
  <2>4. account' = [account EXCEPT ![e] = row]
    BY <1>3 DEF SetRole
  <2> HIDE DEF row
  <2>5. /\ office' \in [Offices -> {"none", "on", "off"}]
        /\ code' \in [CodeIds -> [state : {"none", "live", "retired"}, master : BOOLEAN, on : BOOLEAN]]
    BY <2>1, <1>a DEF AccountsGood, AccountTypes
  <2>6. AccountsGood' /\ AccountsKeep
    BY <1>a, <2>1, <2>3, <2>4, <2>5, AccountWritten
  <2>7. NumbersGood' /\ NumbersKeep
    BY <1>a, <2>1, NumbersStay
  <2> QED
    BY <1>3, <2>1, <2>6, <2>7 DEF SetRole
<1>4. ASSUME NEW by \in Emails \cup {Nothing}, NEW e \in Emails, RemoveAccount(by, e)
      PROVE  Good' /\ Kept /\ UNCHANGED call /\ \E x : Begin(x)
  <2>1. UNCHANGED <<office, grants, code, number, told, call>>
    BY <1>4 DEF RemoveAccount
  <2> DEFINE row == [account[e] EXCEPT !.state = "removed"]
  <2>2. account[e] \in AccountRow
    BY <1>a DEF AccountsGood, AccountTypes
  <2>3. row \in AccountRow /\ row.state # "none" /\ row.office = account[e].office
    BY <2>2 DEF AccountRow
  <2>4. account' = [account EXCEPT ![e] = row]
    BY <1>4 DEF RemoveAccount
  <2> HIDE DEF row
  <2>5. /\ office' \in [Offices -> {"none", "on", "off"}]
        /\ code' \in [CodeIds -> [state : {"none", "live", "retired"}, master : BOOLEAN, on : BOOLEAN]]
    BY <2>1, <1>a DEF AccountsGood, AccountTypes
  <2>6. AccountsGood' /\ AccountsKeep
    BY <1>a, <2>1, <2>3, <2>4, <2>5, AccountWritten
  <2>7. NumbersGood' /\ NumbersKeep
    BY <1>a, <2>1, NumbersStay
  <2> QED
    BY <1>4, <2>1, <2>6, <2>7 DEF RemoveAccount
<1>5. ASSUME NEW by \in Emails \cup {Nothing}, NEW n \in MetaIds,
             RemoveNumber(by, n) \/ \E d \in Days : SetClosure(by, n, d)
      PROVE  Good' /\ Kept /\ UNCHANGED call /\ \E x : Begin(x)
  <2>1. UNCHANGED <<office, account, grants, code, told, call>>
    BY <1>5 DEF RemoveNumber, SetClosure
  <2>2. number[n] \in NumberRow /\ AtHome(number[n].serves \cup ({number[n].billed} \ {Nothing}), number[n].office)
    BY <1>a DEF NumbersGood, NumberTypes, NumbersAgree
  <2>3. PICK row \in NumberRow :
          /\ number' = [number EXCEPT ![n] = row] /\ row.state # "none" /\ row.office = number[n].office
          /\ row.bot = number[n].bot /\ row.serves = number[n].serves /\ row.billed = number[n].billed
    <3>1. CASE RemoveNumber(by, n)
      <4> DEFINE row == [number[n] EXCEPT !.state = "removed", !.on = FALSE]
      <4>1. row \in NumberRow /\ row.state # "none" /\ row.office = number[n].office
            /\ row.bot = number[n].bot /\ row.serves = number[n].serves /\ row.billed = number[n].billed
        BY <2>2 DEF NumberRow
      <4>2. number' = [number EXCEPT ![n] = row]
        BY <3>1 DEF RemoveNumber
      <4> QED
        BY <4>1, <4>2
    <3>2. ASSUME NEW d \in Days, SetClosure(by, n, d)
          PROVE  \E row \in NumberRow :
                   /\ number' = [number EXCEPT ![n] = row] /\ row.state # "none" /\ row.office = number[n].office
                   /\ row.bot = number[n].bot /\ row.serves = number[n].serves /\ row.billed = number[n].billed
      <4> DEFINE days == IF d \in number[n].closed THEN number[n].closed \ {d} ELSE number[n].closed \cup {d}
                 row == [number[n] EXCEPT !.closed = days]
      <4>0. days \in SUBSET Days
        BY <2>2 DEF NumberRow
      <4>3. number' = [number EXCEPT ![n] = row] /\ number[n].state # "none"
        BY <3>2 DEF SetClosure, InScope
      <4> HIDE DEF days
      <4>1. row \in NumberRow /\ row.state = number[n].state /\ row.office = number[n].office
            /\ row.bot = number[n].bot /\ row.serves = number[n].serves /\ row.billed = number[n].billed
        BY <2>2, <4>0 DEF NumberRow
      <4> QED
        BY <4>1, <4>3
    <3> QED
      BY <1>5, <3>1, <3>2
  <2>4. AtHome(row.serves \cup ({row.billed} \ {Nothing}), row.office)
    BY <2>2, <2>3
  <2>5. NumbersGood' /\ NumbersKeep
    BY <1>a, <2>1, <2>3, <2>4, NumberWritten
  <2>6. AccountsGood' /\ AccountsKeep
    BY <1>a, <2>1, AccountsStay
  <2> QED
    BY <1>5, <2>1, <2>5, <2>6 DEF RemoveNumber, SetClosure
<1>6. Good' /\ Kept /\ UNCHANGED call /\ \E x : Begin(x)
  BY <1>1, <1>2, <1>3, <1>4, <1>5 DEF AtOnce
<1> QED
  BY <1>a, <1>6, BeginIsTyped

-----------------------------------------------------------------------------
\* What a request carries when it goes on.
Continued(q, c) ==
  /\ call' = [call EXCEPT ![q] = c]
  /\ AccountCallFits(c)' /\ NumberCallFits(c)'
  /\ c.step \in {"seeing", "shown"} => call[q].step = "seeing"
  /\ c.alone <= call[q].alone

LEMMA NoCallFits == AccountCallFits(NoCall)' /\ NumberCallFits(NoCall)'
BY NoCallIsACall DEF AccountCallFits, NumberCallFits

LEMMA DoneContinues ==
  ASSUME CallTypes, NEW q \in Calls, Done(q)
  PROVE  \E c \in CallRow : Continued(q, c)
<1>1. call[q].alone \in Nat
  BY DEF CallTypes, CallRow
<1>2. Continued(q, NoCall)
  <2>1. AccountCallFits(NoCall)' /\ NumberCallFits(NoCall)'
    BY NoCallFits
  <2>2. 0 <= call[q].alone
    BY <1>1
  <2> QED
    BY <2>1, <2>2, NoCallIsACall DEF Continued, Done
<1> QED
  BY <1>2, NoCallIsACall

\* A request that goes on with what it carries.
LEMMA StepCarries ==
  ASSUME CallTypes, NEW q \in Calls, NEW s \in CallSteps, Step(q, s)
  PROVE  \E d \in CallRow :
           /\ call' = [call EXCEPT ![q] = d] /\ d.step = s /\ d.email = call[q].email /\ d.role = call[q].role
           /\ d.codes = call[q].codes /\ d.line = call[q].line /\ d.alone = call[q].alone
<1>1. call[q] \in CallRow
  BY DEF CallTypes
<1> DEFINE d == [call[q] EXCEPT !.step = s]
<1>2. d \in CallRow
  BY <1>1 DEF CallRow
<1>3. call' = [call EXCEPT ![q] = d]
  BY DEF Step
<1>4. /\ d.step = s /\ d.email = call[q].email /\ d.role = call[q].role
      /\ d.codes = call[q].codes /\ d.line = call[q].line /\ d.alone = call[q].alone
  BY <1>1 DEF CallRow
<1> QED
  BY <1>2, <1>3, <1>4

\* One of the three queries of a scope is answered.
ScopeRead(q, d) ==
  LET c == call[q]
      ds == DefaultLines(account[c.email].office)
      known == c.line # Nothing /\ number[c.line].state = "live" /\ number[c.line].office = account[c.email].office
  IN /\ call' = [call EXCEPT ![q] = d] /\ c.step = "seeing" /\ d.step \in {"seeing", "shown"}
     /\ d.email = c.email /\ d.role = c.role /\ d.line = c.line /\ d.alone = c.alone
     /\ d.step = "shown" => d.left = {}
     /\ \/ "own" \in d.left
        \/ "own" \notin c.left /\ d.own = c.own
        \/ d.own = IF c.role = "SUPERADMIN" THEN {} ELSE OwnLines(c.email)
     /\ \/ "default" \in d.left
        \/ "default" \notin c.left /\ d.default = c.default
        \/ d.default \in ds
        \/ ds = {} /\ d.default = Nothing
     /\ \/ "filter" \in d.left
        \/ "filter" \notin c.left /\ d.filter = c.filter
        \/ d.filter = IF known THEN c.line ELSE Nothing

LEMMA ReadsWell ==
  ASSUME CallTypes, NEW q \in Calls, ReadOwn(q) \/ ReadDefault(q) \/ ReadFilter(q)
  PROVE  \E d \in CallRow : ScopeRead(q, d)
<1>a. call[q] \in CallRow
  BY DEF CallTypes
<1>b. \A piece : call[q].step = "seeing" /\ NextStep(q, piece) \in {"seeing", "shown"}
                /\ (NextStep(q, piece) = "shown" => LeftBut(q, piece) = {})
                /\ LeftBut(q, piece) \in SUBSET {"own", "default", "filter"}
  BY <1>a DEF ReadOwn, ReadDefault, ReadFilter, Read, NextStep, LeftBut, CallRow
<1>c. \A piece : LeftBut(q, piece) = call[q].left \ {piece}
  BY DEF LeftBut
<1>1. CASE ReadOwn(q)
  <2> DEFINE own == IF call[q].role = "SUPERADMIN" THEN {} ELSE OwnLines(call[q].email)
             left == LeftBut(q, "own")
             step == NextStep(q, "own")
             d == [call[q] EXCEPT !.left = left, !.step = step, !.own = own]
  <2>1. own \in SUBSET MetaIds
    BY DEF OwnLines
  <2>2. call' = [call EXCEPT ![q] = d]
    BY <1>1 DEF ReadOwn
  <2> HIDE DEF own, left, step
  <2>3. step \in CallSteps /\ left \in SUBSET {"own", "default", "filter"}
    BY <1>b DEF CallSteps, step, left
  <2>4. d \in CallRow
    BY <1>a, <2>1, <2>3, ZenonT(60) DEF CallRow
  <2>5. /\ d.step = step /\ d.left = left /\ d.own = own /\ d.email = call[q].email /\ d.role = call[q].role
        /\ d.line = call[q].line /\ d.alone = call[q].alone /\ d.default = call[q].default /\ d.filter = call[q].filter
    BY <1>a DEF CallRow
  <2> HIDE DEF d
  <2>6. ScopeRead(q, d)
    BY <1>b, <1>c, <2>2, <2>5 DEF ScopeRead, step, left, own
  <2> QED
    BY <2>4, <2>6
<1>2. CASE ReadDefault(q)
  <2>0. PICK line \in IF DefaultLines(account[call[q].email].office) = {} THEN {Nothing} ELSE DefaultLines(account[call[q].email].office) :
          call' = [call EXCEPT ![q].left = LeftBut(q, "default"), ![q].step = NextStep(q, "default"), ![q].default = line]
    BY <1>2 DEF ReadDefault
  <2> DEFINE left == LeftBut(q, "default")
             step == NextStep(q, "default")
             d == [call[q] EXCEPT !.left = left, !.step = step, !.default = line]
  <2> DEFINE ds == DefaultLines(account[call[q].email].office)
  <2>7. line \in ds \/ (ds = {} /\ line = Nothing)
    BY <2>0
  <2>1. line \in MetaIds \cup {Nothing}
    BY <2>7 DEF DefaultLines
  <2>2. call' = [call EXCEPT ![q] = d]
    BY <2>0
  <2> HIDE DEF left, step
  <2>3. step \in CallSteps /\ left \in SUBSET {"own", "default", "filter"}
    BY <1>b DEF CallSteps, step, left
  <2>4. d \in CallRow
    BY <1>a, <2>1, <2>3, ZenonT(60) DEF CallRow
  <2>5. /\ d.step = step /\ d.left = left /\ d.default = line /\ d.email = call[q].email /\ d.role = call[q].role
        /\ d.line = call[q].line /\ d.alone = call[q].alone /\ d.own = call[q].own /\ d.filter = call[q].filter
    BY <1>a DEF CallRow
  <2> HIDE DEF d
  <2>6. ScopeRead(q, d)
    BY <1>b, <1>c, <2>7, <2>2, <2>5 DEF ScopeRead, step, left
  <2> QED
    BY <2>4, <2>6
<1>3. CASE ReadFilter(q)
  <2> DEFINE n == call[q].line
             known == n # Nothing /\ number[n].state = "live" /\ number[n].office = account[call[q].email].office
             line == IF known THEN n ELSE Nothing
             left == LeftBut(q, "filter")
             step == NextStep(q, "filter")
             d == [call[q] EXCEPT !.left = left, !.step = step, !.filter = line]
  <2>1. line \in MetaIds \cup {Nothing}
    BY <1>a DEF CallRow
  <2>2. call' = [call EXCEPT ![q] = d]
    <3>1. call' = [call EXCEPT ![q].left = left, ![q].step = step, ![q].filter = line]
      BY <1>3 DEF ReadFilter
    <3> HIDE DEF left, step, line
    <3> QED
      BY <3>1
  <2> HIDE DEF left, step, line
  <2>3. step \in CallSteps /\ left \in SUBSET {"own", "default", "filter"}
    BY <1>b DEF CallSteps, step, left
  <2>4. d \in CallRow
    BY <1>a, <2>1, <2>3, ZenonT(60) DEF CallRow
  <2>5. /\ d.step = step /\ d.left = left /\ d.filter = line /\ d.email = call[q].email /\ d.role = call[q].role
        /\ d.line = call[q].line /\ d.alone = call[q].alone /\ d.own = call[q].own /\ d.default = call[q].default
    BY <1>a DEF CallRow
  <2> HIDE DEF d
  <2>6. ScopeRead(q, d)
    BY <1>b, <1>c, <2>2, <2>5 DEF ScopeRead, step, left, line
  <2> QED
    BY <2>4, <2>6
<1> QED
  BY <1>1, <1>2, <1>3

LEMMA GoesOnWell ==
  ASSUME AccessInv, NEW q \in Calls, CallGoesOn(q)
  PROVE  \E c \in CallRow : Continued(q, c)
<1>a. AccountCallFits(call[q]) /\ NumberCallFits(call[q]) /\ CallTypes
  BY DEF AccessInv, AccessTypes
<1>b. call[q] \in CallRow /\ call[q].alone \in Nat /\ call[q].alone <= call[q].alone
  BY <1>a DEF CallTypes, CallRow
<1>c. AccountsKeep /\ NumbersKeep
  BY GoingOnIsGood DEF Kept
<1>d. AccountTypes /\ NumberTypes
  BY DEF AccessInv, AccessTypes
<1>1. CASE Done(q)
  BY <1>1, <1>a, DoneContinues
<1>2. CASE CreateAccount(q) /\ ~Done(q)
  <2>1. Step(q, "granting") /\ call[q].step = "creating" /\ account[call[q].email].state = "none" /\ call[q].role # "SUPERADMIN"
    BY <1>2 DEF CreateAccount
  <2>2. PICK d \in CallRow :
           /\ call' = [call EXCEPT ![q] = d] /\ d.step = "granting" /\ d.email = call[q].email /\ d.role = call[q].role
           /\ d.codes = call[q].codes /\ d.line = call[q].line /\ d.alone = call[q].alone
    BY <2>1, <1>a, StepCarries DEF CallSteps
  <2>3. /\ d.email \in Emails /\ d.codes \in SUBSET CodeIds /\ d.codes # Nothing /\ AtHome(d.codes, call[q].office)
    BY <2>1, <2>2, <1>a DEF AccountCallFits, Roles
  <2>4. account'[d.email].state = "live" /\ account'[d.email].office = call[q].office
    BY <1>2, <2>1, <2>2, <2>3, <1>d DEF CreateAccount, AccountTypes
  <2> QED
    BY <2>2, <2>3, <2>4, <1>b DEF Continued, AccountCallFits, NumberCallFits
<1>3. CASE (UpdateAccount(q) \/ ReadRole(q)) /\ ~Done(q)
  <2>1. call[q].step \in {"writing", "reading"}
    BY <1>3 DEF UpdateAccount, ReadRole
  <2>2. PICK d \in CallRow :
           /\ call' = [call EXCEPT ![q] = d] /\ d.step \in {"reading", "replacing"} /\ d.email = call[q].email
           /\ d.codes = call[q].codes /\ d.alone = call[q].alone
    <3>1. CASE UpdateAccount(q)
      <4>1. Step(q, "reading") \/ Step(q, "replacing")
        BY <3>1 DEF UpdateAccount
      <4> QED
        BY <4>1, <1>a, StepCarries DEF CallSteps
    <3>2. CASE ReadRole(q)
      <4>1. call[q].email \in Emails
        BY <3>2, <1>a DEF ReadRole, AccountCallFits
      <4>2. account[call[q].email].role \in Roles
        BY <4>1, <1>d DEF AccountTypes, AccountRow
      <4> DEFINE r == account[call[q].email].role
                 d == [call[q] EXCEPT !.step = "replacing", !.role = r]
      <4>3. call' = [call EXCEPT ![q] = d]
        BY <3>2 DEF ReadRole
      <4> HIDE DEF r
      <4>4. d \in CallRow
        BY <1>b, <4>2, ZenonT(60) DEF CallRow, CallSteps, r
      <4>5. d.step = "replacing" /\ d.email = call[q].email /\ d.codes = call[q].codes /\ d.alone = call[q].alone
        BY <1>b DEF CallRow
      <4> QED
        BY <4>3, <4>4, <4>5
    <3> QED
      BY <1>3, <3>1, <3>2
  <2>3. /\ d.email \in Emails /\ account[d.email].state # "none"
        /\ d.codes = Nothing \/ (d.codes \in SUBSET CodeIds /\ AtHome(d.codes, account[d.email].office))
    BY <2>1, <2>2, <1>a DEF AccountCallFits
  <2>4. account'[d.email].state # "none" /\ account'[d.email].office = account[d.email].office
    BY <2>3, <1>c DEF AccountsKeep
  <2> QED
    BY <2>2, <2>3, <2>4, <1>b DEF Continued, AccountCallFits, NumberCallFits
<1>4. CASE (CreateNumber(q) \/ UpdateNumber(q)) /\ ~Done(q)
  <2>1. Step(q, "serving") /\ call[q].step \in {"opening", "changing"}
    BY <1>4 DEF CreateNumber, UpdateNumber
  <2>2. PICK d \in CallRow :
           /\ call' = [call EXCEPT ![q] = d] /\ d.step = "serving" /\ d.email = call[q].email /\ d.role = call[q].role
           /\ d.codes = call[q].codes /\ d.line = call[q].line /\ d.alone = call[q].alone
    BY <2>1, <1>a, StepCarries DEF CallSteps
  <2>3. /\ d.line \in MetaIds /\ d.codes \in SUBSET CodeIds
        /\ number'[d.line].state # "none" /\ AtHome(d.codes, number'[d.line].office)
    <3>1. CASE CreateNumber(q)
      <4>1. d.line \in MetaIds /\ d.codes \in SUBSET CodeIds /\ AtHome(d.codes, call[q].office)
        BY <3>1, <2>2, <1>a DEF CreateNumber, NumberCallFits, AtHome
      <4>2. number'[d.line].state = "live" /\ number'[d.line].office = call[q].office
        <5>1. number' = [number EXCEPT ![d.line] = [NoNumberRow EXCEPT !.state = "live", !.on = TRUE,
                            !.office = call[q].office, !.billed = call[q].code]]
          BY <3>1, <2>2, <1>4 DEF CreateNumber
        <5> QED
          BY <5>1, <4>1, <1>d DEF NumberTypes, NoNumberRow
      <4> QED
        BY <4>1, <4>2
    <3>2. CASE UpdateNumber(q)
      <4>1. call[q].codes # Nothing
        BY <3>2, <1>4 DEF UpdateNumber
      <4>2. /\ d.line \in MetaIds /\ d.codes \in SUBSET CodeIds
            /\ number[d.line].state # "none" /\ AtHome(d.codes, number[d.line].office)
        BY <3>2, <4>1, <2>2, <1>a DEF UpdateNumber, NumberCallFits
      <4> QED
        BY <4>2, <1>c DEF NumbersKeep
    <3> QED
      BY <1>4, <3>1, <3>2
  <2> QED
    BY <2>2, <2>3, <1>b DEF Continued, AccountCallFits, NumberCallFits
<1>5. CASE ReadOwn(q) \/ ReadDefault(q) \/ ReadFilter(q)
  <2>1. PICK d \in CallRow :
           /\ call' = [call EXCEPT ![q] = d] /\ d.step \in {"seeing", "shown"} /\ d.alone = call[q].alone
    BY <1>5, <1>a, ReadsWell DEF ScopeRead
  <2>2. call[q].step = "seeing"
    BY <1>5 DEF ReadOwn, ReadDefault, ReadFilter, Read
  <2> QED
    BY <2>1, <2>2, <1>b DEF Continued, AccountCallFits, NumberCallFits
<1> QED
  BY <1>1, <1>2, <1>3, <1>4, <1>5 DEF CallGoesOn, CreateOrganization, AddCode, GrantCodes, ReplaceGrants, ReplaceServedCodes,
       SetBotEnabled, UpdateAssistant, AnswerScope

-----------------------------------------------------------------------------
\* What the requests carry stays fit while accounts and numbers keep their office.
LEMMA FitsStay ==
  ASSUME AccountsKeep, NumbersKeep, NEW c, AccountCallFits(c), NumberCallFits(c)
  PROVE  AccountCallFits(c)' /\ NumberCallFits(c)'
BY DEF AccountsKeep, NumbersKeep, AccountCallFits, NumberCallFits

LEMMA AccessInvInit == AccessInit => AccessInv
<1> SUFFICES ASSUME AccessInit PROVE AccessInv
  OBVIOUS
<1>1. AccessTypes
  BY AccessTypesInit
<1>2. AccountsAgree
  BY AccessParameters DEF AccessInit, AccountsAgree, AtHome, CodeIds, NoAccount
<1>3. NumbersAgree
  <2>1. PICK b \in {<<Home, Master>>, <<Home, Branch>>} :
          number = [n \in MetaIds |-> IF n = Line THEN [NoNumberRow EXCEPT !.state = "live", !.on = TRUE, !.billed = b]
                                      ELSE NoNumberRow]
    BY DEF AccessInit
  <2>2. ASSUME NEW n \in MetaIds
        PROVE  number[n].serves = {} /\ number[n].billed \in {b, Nothing} /\ number[n].office = Home /\ told[n] = Nothing
    BY <2>1 DEF NoNumberRow, AccessInit
  <2>3. b \in CodeIds /\ b[1] = Home
    BY AccessParameters DEF CodeIds
  <2> QED
    BY <2>2, <2>3 DEF NumbersAgree, AtHome, SwitchIsTold
<1>4. ASSUME NEW q \in Calls
      PROVE  AccountCallFits(call[q]) /\ NumberCallFits(call[q]) /\ ScopeHolds(q) /\ call[q].alone <= calls /\ Open(q)
  <2>1. call[q] = NoCall /\ calls = 0
    BY DEF AccessInit
  <2> QED
    BY <2>1, NoCallIsACall DEF AccountCallFits, NumberCallFits, ScopeHolds, Open
<1> QED
  BY <1>1, <1>2, <1>3, <1>4 DEF AccessInv, Counted

LEMMA AccessInvStep == AccessInv /\ [AccessNext]_accessVars => AccessInv'
<1> SUFFICES ASSUME AccessInv, [AccessNext]_accessVars PROVE AccessInv'
  OBVIOUS
<1>a. /\ AccountsGood /\ NumbersGood /\ CallTypes /\ AccessTypes /\ calls \in Nat /\ MaxCalls \in Nat
      /\ \A q \in Calls : AccountCallFits(call[q]) /\ NumberCallFits(call[q]) /\ ScopeHolds(q)
      /\ Counted
  BY AccessParameters DEF AccessInv, AccountsGood, NumbersGood, AccessTypes, CallTypes
<1>b. \A q \in Calls : call[q] \in CallRow /\ call[q].alone \in Nat /\ call[q].alone <= calls /\ (~Open(q) => calls > 0)
  BY <1>a DEF CallTypes, CallRow, Counted
\* It is enough that the rows are good and that the requests, one by one, fit.
<1>c. ASSUME AccountsGood', NumbersGood', CallTypes',
             \A q \in Calls : (AccountCallFits(call[q]) /\ NumberCallFits(call[q]) /\ ScopeHolds(q))', Counted'
      PROVE  AccessInv'
  BY <1>c DEF AccessInv, AccountsGood, NumbersGood, AccessTypes
<1>1. CASE AtOnce
  <2>1. Good' /\ Kept /\ UNCHANGED call /\ calls' \in 0..MaxCalls /\ calls' = calls + 1
    BY <1>1, AtOnceIsGood
  <2>2. ASSUME NEW q \in Calls
        PROVE  (AccountCallFits(call[q]) /\ NumberCallFits(call[q]) /\ ScopeHolds(q))'
    <3>1. AccountCallFits(call[q])' /\ NumberCallFits(call[q])'
      <4>1. PICK c \in CallRow : c = call[q]
        BY <1>b
      <4>2. AccountCallFits(c)' /\ NumberCallFits(c)'
        BY <4>1, <1>a, <2>1, FitsStay DEF Kept
      <4>3. call'[q] = c
        BY <4>1, <2>1
      <4> QED
        BY <4>2, <4>3
    <3>2. call'[q].alone # calls' /\ call'[q].email = call[q].email /\ call'[q].step = call[q].step
      BY <1>a, <1>b, <2>1
    <3>3. ScopeHolds(q)'
      BY <3>2, <1>a DEF ScopeHolds
    <3> QED
      BY <3>1, <3>3
  <2>3. Counted'
    BY <1>a, <1>b, <2>1 DEF Counted, Open
  <2>4. CallTypes'
    BY <1>a, <2>1 DEF CallTypes
  <2> QED
    BY <1>c, <2>1, <2>2, <2>3, <2>4 DEF Good
<1>2. ASSUME NEW p \in Calls, CallBegins(p)
      PROVE  AccessInv'
  <2>1. PICK c \in CallRow : Begun(p, c)
    BY <1>a, <1>2, BeginsWell
  <2>2. UNCHANGED rows /\ calls' \in 0..MaxCalls /\ calls' = calls + 1
    BY <1>a, <1>2, BeginsWell
  <2>3. call' = [call EXCEPT ![p] = c]
    BY <2>1 DEF Begun, Enter
  <2>4. AccountsGood' /\ NumbersGood' /\ AccountsKeep /\ NumbersKeep
    BY <1>a, <2>2, AccountsStay, NumbersStay DEF rows
  <2>5. CallTypes'
    BY <1>a, <2>2, <2>3 DEF CallTypes
  <2>c. c.alone \in Nat /\ c.alone <= calls' /\ c.step # "idle"
    BY <1>a, <2>1, <2>2 DEF Begun, CallRow
  <2>6. ASSUME NEW q \in Calls
        PROVE  (AccountCallFits(call[q]) /\ NumberCallFits(call[q]) /\ ScopeHolds(q))'
    <3>1. CASE q = p
      <4>1. call'[q] = c
        BY <3>1, <2>3, <1>a DEF CallTypes
      <4>2. AccountCallFits(c)' /\ NumberCallFits(c)'
        BY <2>1, <2>4, FitsStay DEF Begun
      <4>3. ScopeHolds(q)'
        <5>1. SUFFICES ASSUME c.step \in {"seeing", "shown"}
                       PROVE  ScopeHolds(q)'
          BY <4>1 DEF ScopeHolds
        <5>2. /\ c.step = "seeing" /\ c.email \in Emails /\ c.role = account'[c.email].role
              /\ c.left = {"own", "default", "filter"} /\ (c.alone # 0 => \A r \in Calls : Open(r))
          BY <5>1, <2>1, <2>2 DEF Begun, rows
        <5>3. c.alone = calls' => \A r \in Calls \ {q} : Open(r)'
          <6>1. calls' # 0
            BY <1>a, <2>2
          <6>2. \A r \in Calls \ {q} : call'[r] = call[r]
            BY <2>3, <3>1, <1>a DEF CallTypes
          <6> QED
            BY <6>1, <6>2, <5>2 DEF Open
        <5> QED
          BY <5>2, <5>3, <4>1 DEF ScopeHolds
      <4> QED
        BY <4>1, <4>2, <4>3
    <3>2. CASE q # p
      <4>1. PICK d \in CallRow : d = call[q]
        BY <1>b
      <4>2. call'[q] = d
        BY <4>1, <2>3, <3>2, <1>a DEF CallTypes
      <4>3. AccountCallFits(d)' /\ NumberCallFits(d)'
        BY <4>1, <1>a, <2>4, FitsStay
      <4>4. d.alone # calls'
        BY <4>1, <1>a, <1>b, <2>2
      <4>5. ScopeHolds(q)'
        BY <4>1, <4>2, <4>4, <1>a DEF ScopeHolds
      <4> QED
        BY <4>2, <4>3, <4>5
    <3> QED
      BY <3>1, <3>2
  <2>7. Counted'
    <3> SUFFICES ASSUME NEW q \in Calls PROVE call'[q].alone <= calls' /\ (~Open(q)' => calls' > 0)
      BY DEF Counted
    <3>1. call'[q] = IF q = p THEN c ELSE call[q]
      BY <2>3, <1>a DEF CallTypes
    <3> QED
      BY <3>1, <1>a, <1>b, <2>2, <2>c
  <2> QED
    BY <1>c, <2>4, <2>5, <2>6, <2>7
<1>3. ASSUME NEW p \in Calls, CallGoesOn(p)
      PROVE  AccessInv'
  <2>1. PICK c \in CallRow : Continued(p, c)
    BY <1>3, GoesOnWell
  <2>2. Good' /\ Kept
    BY <1>3, GoingOnIsGood
  <2>3. call' = [call EXCEPT ![p] = c]
    BY <2>1 DEF Continued
  <2>4. UNCHANGED calls /\ ~Open(p)
    BY <1>3, ZenonT(20) DEF CallGoesOn, CreateOrganization, AddCode, CreateAccount, GrantCodes, UpdateAccount, ReadRole, ReplaceGrants,
         CreateNumber, UpdateNumber, ReplaceServedCodes, SetBotEnabled, UpdateAssistant, ReadOwn, ReadDefault, ReadFilter,
         AnswerScope, Read, Open
  <2>5. CallTypes'
    BY <1>a, <2>3, <2>4 DEF CallTypes
  <2>6. ASSUME NEW q \in Calls, q # p
        PROVE  (AccountCallFits(call[q]) /\ NumberCallFits(call[q]) /\ ScopeHolds(q))'
    <3>1. PICK d \in CallRow : d = call[q]
      BY <1>b
    <3>2. call'[q] = d
      BY <3>1, <2>3, <2>6, <1>a DEF CallTypes
    <3>3. AccountCallFits(d)' /\ NumberCallFits(d)'
      BY <3>1, <1>a, <2>2, FitsStay DEF Kept
    <3>4. ScopeHolds(q)'
      <4>1. ScopeHolds(q)
        BY <1>a
      <4>2. d.step \in {"seeing", "shown"} => d.email \in Emails /\ d.alone # calls'
        BY <4>1, <3>1, <2>4, <2>6 DEF ScopeHolds
      <4> QED
        BY <4>2, <3>2 DEF ScopeHolds
    <3> QED
      BY <3>2, <3>3, <3>4
  <2>7. ScopeHolds(p)'
    <3>1. call'[p] = c
      BY <2>3, <1>a DEF CallTypes
    <3>2. CASE c.step \notin {"seeing", "shown"}
      BY <3>1, <3>2 DEF ScopeHolds
    <3>3. CASE c.step \in {"seeing", "shown"}
      <4>1. ReadOwn(p) \/ ReadDefault(p) \/ ReadFilter(p)
        <5>1. call[p].step = "seeing"
          BY <2>1, <3>3 DEF Continued
        <5> QED
          BY <5>1, <1>3 DEF CallGoesOn, CreateOrganization, AddCode, CreateAccount, GrantCodes, UpdateAccount, ReadRole,
               ReplaceGrants, CreateNumber, UpdateNumber, ReplaceServedCodes, SetBotEnabled, UpdateAssistant, AnswerScope
      <4>2. UNCHANGED rows
        BY <4>1 DEF ReadOwn, ReadDefault, ReadFilter
      <4>3. ScopeRead(p, c)
        <5>1. PICK d \in CallRow : ScopeRead(p, d)
          BY <4>1, <1>a, ReadsWell
        <5>2. d = c
          BY <5>1, <3>1, <1>a DEF ScopeRead, CallTypes
        <5> QED
          BY <5>1, <5>2
      <4>4. ScopeHolds(p)
        BY <1>a
      <4>5. DefaultLines(account[c.email].office)' = DefaultLines(account[c.email].office) /\ OwnLines(c.email)' = OwnLines(c.email)
        BY <4>2 DEF DefaultLines, OwnLines, rows, Accessible, SuperAdmin, LiveCodes, OfficeOf
      <4>6. \A r \in Calls \ {p} : Open(r) => Open(r)'
        BY <2>3, <1>a DEF CallTypes, Open
      <4> QED
        BY <4>2, <4>3, <4>4, <4>5, <4>6, <3>1, <2>4 DEF ScopeHolds, ScopeRead, rows
    <3> QED
      BY <3>2, <3>3
  <2>8. AccountCallFits(call[p])' /\ NumberCallFits(call[p])'
    <3>1. call'[p] = c
      BY <2>3, <1>a DEF CallTypes
    <3>2. AccountCallFits(c)' /\ NumberCallFits(c)'
      BY <2>1 DEF Continued
    <3> QED
      BY <3>1, <3>2
  <2>9. Counted'
    <3> SUFFICES ASSUME NEW q \in Calls PROVE call'[q].alone <= calls' /\ (~Open(q)' => calls' > 0)
      BY DEF Counted
    <3>1. call'[q] = IF q = p THEN c ELSE call[q]
      BY <2>3, <1>a DEF CallTypes
    <3>2. c.alone \in Nat /\ c.alone <= call[p].alone
      BY <2>1 DEF Continued, CallRow
    <3>3. calls > 0
      BY <1>b, <2>4
    <3> QED
      BY <3>1, <3>2, <3>3, <1>a, <1>b, <2>4
  <2> QED
    BY <1>c, <2>2, <2>5, <2>6, <2>7, <2>8, <2>9 DEF Good
<1>4. CASE UNCHANGED accessVars
  <2>1. UNCHANGED <<office, account, grants, code, number, told, call, calls>>
    BY <1>4 DEF accessVars
  <2>2. AccountsGood' /\ NumbersGood' /\ AccountsKeep /\ NumbersKeep
    BY <1>a, <2>1, AccountsStay, NumbersStay
  <2>3. ASSUME NEW q \in Calls
        PROVE  (AccountCallFits(call[q]) /\ NumberCallFits(call[q]) /\ ScopeHolds(q))'
    <3>1. PICK d \in CallRow : d = call[q]
      BY <1>b
    <3>2. AccountCallFits(d)' /\ NumberCallFits(d)' /\ call'[q] = d
      BY <3>1, <1>a, <2>1, <2>2, FitsStay
    <3>3. ScopeHolds(q)
      BY <1>a
    <3>4. DefaultLines(account[d.email].office)' = DefaultLines(account[d.email].office) /\ OwnLines(d.email)' = OwnLines(d.email)
      BY <2>1 DEF DefaultLines, OwnLines, Accessible, SuperAdmin, LiveCodes, OfficeOf
    <3>5. ScopeHolds(q)'
      BY <2>1, <3>1, <3>2, <3>3, <3>4 DEF ScopeHolds, Open
    <3> QED
      BY <3>2, <3>5
  <2>4. CallTypes' /\ Counted'
    BY <1>a, <2>1 DEF CallTypes, Counted, Open
  <2> QED
    BY <1>c, <2>2, <2>3, <2>4
<1> QED
  BY <1>1, <1>2, <1>3, <1>4 DEF AccessNext

-----------------------------------------------------------------------------
LEMMA AccessInvSays == AccessInv => AccessTypeOK /\ AccessFits
<1> SUFFICES ASSUME AccessInv PROVE AccessTypeOK /\ AccessFits
  OBVIOUS
<1>1. AccessTypeOK
  BY AccessTypesSay DEF AccessInv
<1>2. CodesStayHome
  BY DEF AccessInv, AccountsAgree, NumbersAgree, AtHome, CodesStayHome
<1>3. SwitchIsTold
  BY DEF AccessInv, NumbersAgree
<1>4. ScopeFits
  <2> SUFFICES ASSUME NEW q \in Calls, call[q].step = "shown", call[q].alone = calls
               PROVE  LET e == call[q].email
                          o == account[e].office
                          all == SuperAdmin(e) /\ call[q].line = Nothing
                          Theirs(n) == number[n].state = "live" /\ number[n].office = o /\ (SuperAdmin(e) \/ number[n].billed \in Accessible(e))
                          AskedFor(n) == call[q].line \in {n, Nothing}
                      IN /\ \A x \in Shown(q) : all \/ \E n \in HomeOf(x, o) : Theirs(n) /\ AskedFor(n)
                         /\ \A n \in MetaIds : Theirs(n) /\ AskedFor(n) => n \in Shown(q)
    BY DEF ScopeFits
  <2> DEFINE c == call[q]
             e == c.email
             o == account[e].office
             all == SuperAdmin(e) /\ c.line = Nothing
             Theirs(n) == number[n].state = "live" /\ number[n].office = o /\ (SuperAdmin(e) \/ number[n].billed \in Accessible(e))
             AskedFor(n) == c.line \in {n, Nothing}
             known == c.line # Nothing /\ number[c.line].state = "live" /\ number[c.line].office = o
  <2>1. c \in CallRow /\ c.line \in MetaIds \cup {Nothing} /\ c.left = {} /\ e \in Emails /\ ScopeHolds(q)
    BY DEF AccessInv, AccessTypes, CallTypes, CallRow, ScopeHolds
  <2>2. /\ c.role = account[e].role
        /\ c.own = IF c.role = "SUPERADMIN" THEN {} ELSE OwnLines(e)
        /\ c.default \in DefaultLines(o) \/ (DefaultLines(o) = {} /\ c.default = Nothing)
        /\ c.filter = IF known THEN c.line ELSE Nothing
    BY <2>1 DEF ScopeHolds
  <2>3. Nothing \notin MetaIds /\ e # Nothing
    BY <2>1, AccessParameters
  <2>4. SuperAdmin(e) <=> c.role = "SUPERADMIN"
    BY <2>2, <2>3 DEF SuperAdmin
  <2>5. ASSUME NEW n \in MetaIds
        PROVE  n \in VisibleLines(q) <=> (all \/ (Theirs(n) /\ AskedFor(n)))
    <3>1. CASE c.line = Nothing
      BY <2>2, <2>3, <2>4, <3>1 DEF VisibleLines, OwnLines
    <3>2. CASE c.line # Nothing
      BY <2>1, <2>2, <2>3, <2>4, <3>2 DEF VisibleLines, OwnLines
    <3> QED
      BY <3>1, <3>2
  <2>6. VisibleLines(q) \subseteq MetaIds
    BY <2>1, <2>2, <2>3 DEF VisibleLines, OwnLines
  <2>7. ASSUME NEW x \in Shown(q)
        PROVE  all \/ \E n \in HomeOf(x, o) : Theirs(n) /\ AskedFor(n)
    <3>1. CASE x \in VisibleLines(q)
      BY <2>3, <2>5, <2>6, <3>1 DEF HomeOf
    <3>2. CASE x \notin VisibleLines(q) /\ ~all
      <4>1. x = Nothing /\ c.default \in VisibleLines(q)
        BY <2>4, <3>2 DEF Shown
      <4>2. c.default \in DefaultLines(o)
        BY <2>2, <2>3, <2>6, <4>1
      <4> QED
        BY <2>5, <2>6, <3>2, <4>1, <4>2 DEF HomeOf
    <3> QED
      BY <3>1, <3>2
  <2>8. ASSUME NEW n \in MetaIds, Theirs(n), AskedFor(n)
        PROVE  n \in Shown(q)
    BY <2>5, <2>8 DEF Shown
  <2> QED
    BY <2>7, <2>8
<1> QED
  BY <1>1, <1>2, <1>3, <1>4 DEF AccessFits

LEMMA SightStep == AccessInv /\ [AccessNext]_accessVars => SightIsGranted
<1> SUFFICES ASSUME AccessInv, [AccessNext]_accessVars,
                    NEW e \in Emails, account[e].state = "live", account[e].role = "ADMIN", account'[e].role = "ADMIN",
                    NEW c \in Accessible(e)' \ Accessible(e), code[c].state = "live"
             PROVE  \E q \in Calls : call[q].step \in {"granting", "replacing"} /\ call[q].email = e /\ c \in Sent(call[q].codes)
  BY DEF SightIsGranted
<1>0. AccountsKeep
  <2>1. ASSUME NEW q \in Calls, CallBegins(q)
        PROVE  UNCHANGED account
    BY <2>1, BeginsWell DEF AccessInv, rows
  <2> QED
    BY <2>1, AtOnceIsGood, GoingOnIsGood DEF AccessNext, accessVars, Kept, AccountsKeep
<1>1. e # Nothing
  BY AccessParameters
<1>2. c \in CodeIds /\ c \in grants'[e] /\ c[1] = account'[e].office
  BY <1>1 DEF Accessible, SuperAdmin, LiveCodes
<1>3. account'[e].office = account[e].office
  BY <1>0 DEF AccountsKeep
<1>4. c \notin grants[e]
  BY <1>1, <1>2, <1>3 DEF Accessible, SuperAdmin, LiveCodes
<1>5. grants' # grants
  BY <1>2, <1>4
<1>6. ~AtOnce /\ grants' # grants
  BY <1>5, ZenonT(20) DEF AtOnce, SetOrganizationActive, UpdateCode, SetRole, RemoveAccount, RemoveNumber, SetClosure
<1>7. \A q \in Calls : ~CallBegins(q)
  BY <1>5, BeginsWell DEF AccessInv, rows
<1>8. PICK q \in Calls : GrantCodes(q) \/ ReplaceGrants(q)
  BY <1>5, <1>6, <1>7, ZenonT(20) DEF AccessNext, accessVars, CallGoesOn, CreateOrganization, AddCode, CreateAccount, UpdateAccount, ReadRole,
     CreateNumber, UpdateNumber, ReplaceServedCodes, SetBotEnabled, UpdateAssistant, ReadOwn, ReadDefault, ReadFilter, AnswerScope, rows
<1>9. AccountCallFits(call[q]) /\ grants \in [Emails -> SUBSET CodeIds]
  BY DEF AccessInv, AccessTypes, AccountTypes
<1>10. CASE GrantCodes(q)
  <2>1. call[q].step = "granting" /\ call[q].codes # Nothing /\ call[q].email \in Emails
    BY <1>9, <1>10 DEF GrantCodes, AccountCallFits
  <2>2. call[q].email = e /\ c \in call[q].codes
    BY <1>2, <1>4, <1>9, <1>10, <2>1 DEF GrantCodes
  <2> QED
    BY <2>1, <2>2 DEF Sent
<1>11. CASE ReplaceGrants(q)
  <2>1. call[q].step = "replacing" /\ call[q].email \in Emails
    BY <1>9, <1>11 DEF ReplaceGrants, AccountCallFits
  <2>2. call[q].email = e /\ c \in call[q].codes /\ call[q].codes # Nothing
    BY <1>2, <1>4, <1>9, <1>11, <2>1 DEF ReplaceGrants
  <2> QED
    BY <2>1, <2>2 DEF Sent
<1> QED
  BY <1>8, <1>10, <1>11

-----------------------------------------------------------------------------
(* The holidays of the hours ("hours")                                       *)

ClosureRow == [branch : Branches, from : Nat, to : Nat, reason : Holidays \cup {"office"}, by : Int, live : BOOLEAN]

SyncRow == [step : {"idle", "removing", "reading", "creating", "over"}, today : Nat, years : SUBSET {0, 1},
            found : SUBSET (Nat \X Holidays), numbers : SUBSET Branches, loaded : SUBSET (Branches \X Nat)]

HolidayTypes ==
  /\ day \in Nat /\ connected \subseteq Branches /\ closures \subseteq ClosureRow /\ calendar \subseteq Nat \X Holidays
  /\ sync \in [Syncs -> SyncRow] /\ twinSyncs \in BOOLEAN /\ hourEdits \in Nat

\* What a sync found is of its day or later, and until another one writes, it has
\* read every holiday its numbers ever had.
SyncFits(s) ==
  /\ \A h \in sync[s].found : h[1] >= sync[s].today
  /\ ~twinSyncs /\ sync[s].step = "creating" => Loaded(s) \subseteq sync[s].loaded

OneSync == ~twinSyncs => \A s, t \in Syncs : Syncing(s) /\ Syncing(t) => s = t

HolidayInv == HolidayTypes /\ OneSync /\ (\A s \in Syncs : SyncFits(s))

-----------------------------------------------------------------------------
LEMMA NoSyncIsARow == NoSync \in SyncRow /\ NoSync.step = "idle" /\ NoSync.found = {}
BY DEF NoSync, SyncRow

LEMMA HolidayInvInit == HoursInit => HolidayInv
<1> SUFFICES ASSUME HoursInit PROVE HolidayInv
  OBVIOUS
<1>1. \A s \in Syncs : sync[s] = NoSync
  BY DEF HoursInit
<1>2. calendar \subseteq Nat \X Holidays
  BY HoursParameters DEF HoursInit
<1>5. sync = [s \in Syncs |-> NoSync] /\ day = 0 /\ closures = {} /\ twinSyncs = FALSE /\ hourEdits \in Nat
  BY HoursParameters DEF HoursInit
<1>6. connected \subseteq Branches
  BY DEF HoursInit
<1>3. HolidayTypes
  BY <1>2, <1>5, <1>6, NoSyncIsARow DEF HolidayTypes
<1>4. OneSync /\ \A s \in Syncs : SyncFits(s)
  BY <1>1, NoSyncIsARow DEF OneSync, SyncFits, Syncing
<1> QED
  BY <1>3, <1>4 DEF HolidayInv

\* A step that only takes closures out of service, or adds the office's own.
LEMMA ClosuresKept ==
  ASSUME HolidayInv, UNCHANGED <<sync, twinSyncs>>, HolidayTypes',
         \A c \in closures' : c.reason # "office" =>
           \E d \in closures : d.branch = c.branch /\ d.from = c.from /\ d.reason # "office"
  PROVE  HolidayInv'
<1>1. OneSync'
  BY DEF HolidayInv, OneSync, Syncing
<1>2. ASSUME NEW s \in Syncs
      PROVE  SyncFits(s)'
  <2>1. SyncFits(s)
    BY DEF HolidayInv
  <2>2. Loaded(s)' \subseteq Loaded(s)
    <3>1. ASSUME NEW c \in closures', c.reason # "office", c.from >= sync[s].today, c.branch \in sync[s].numbers
          PROVE  <<c.branch, c.from>> \in Loaded(s)
      <4>1. PICK d \in closures : d.branch = c.branch /\ d.from = c.from /\ d.reason # "office"
        BY <3>1
      <4> QED
        BY <3>1, <4>1 DEF Loaded, Coming
    <3> QED
      BY <3>1 DEF Loaded, Coming
  <2> QED
    BY <2>1, <2>2 DEF SyncFits
<1> QED
  BY <1>1, <1>2 DEF HolidayInv

\* A step of the sync s that leaves it with another row.
LEMMA SyncMoves ==
  ASSUME HolidayInv, NEW s \in Syncs, NEW row \in SyncRow, sync' = [sync EXCEPT ![s] = row],
         UNCHANGED <<day, connected, calendar, hourEdits>>, closures' \subseteq ClosureRow, twinSyncs' \in BOOLEAN,
         twinSyncs => twinSyncs',
         ~twinSyncs' => \A t \in Syncs \ {s} : row.step \in {"removing", "reading", "creating"} \/ closures' # closures => ~Syncing(t),
         \A h \in row.found : h[1] >= row.today,
         ~twinSyncs' /\ row.step = "creating" => Loaded(s)' \subseteq row.loaded
  PROVE  HolidayInv'
<1>0. HolidayTypes /\ OneSync
  BY DEF HolidayInv
<1>1. HolidayTypes'
  BY <1>0 DEF HolidayTypes
<1>2. sync'[s] = row /\ \A t \in Syncs \ {s} : sync'[t] = sync[t]
  BY <1>0 DEF HolidayTypes
<1>3. OneSync'
  <2> SUFFICES ASSUME ~twinSyncs', NEW t \in Syncs, NEW u \in Syncs, Syncing(t)', Syncing(u)' PROVE t = u
    BY DEF OneSync
  <2>1. ~twinSyncs
    BY <1>0 DEF HolidayTypes
  <2>2. CASE t # s /\ u # s
    BY <1>0, <1>2, <2>1, <2>2 DEF OneSync, Syncing
  <2>3. ASSUME NEW x \in Syncs \ {s}, Syncing(s)', Syncing(x)'
        PROVE  FALSE
    BY <1>2, <2>3 DEF Syncing
  <2> QED
    BY <2>2, <2>3
<1>4. ASSUME NEW t \in Syncs
      PROVE  SyncFits(t)'
  <2>1. CASE t = s
    BY <1>2, <2>1 DEF SyncFits
  <2>2. CASE t # s
    <3>1. SyncFits(t) /\ sync'[t] = sync[t]
      BY <1>2, <2>2 DEF HolidayInv
    <3>2. ASSUME ~twinSyncs', sync[t].step = "creating"
          PROVE  Loaded(t)' \subseteq sync[t].loaded
      <4>1. closures' = closures
        BY <2>2, <3>2 DEF Syncing
      <4>2. Loaded(t)' = Loaded(t)
        BY <3>1, <4>1 DEF Loaded, Coming
      <4>3. ~twinSyncs
        BY <1>0, <3>2 DEF HolidayTypes
      <4> QED
        BY <3>1, <3>2, <4>2, <4>3 DEF SyncFits
    <3> QED
      BY <3>1, <3>2 DEF SyncFits
  <2> QED
    BY <2>1, <2>2
<1> QED
  BY <1>1, <1>3, <1>4 DEF HolidayInv

-----------------------------------------------------------------------------
LEMMA FetchStep ==
  ASSUME HolidayInv, NEW s \in Syncs, FetchYears(s)
  PROVE  HolidayInv'
<1>0. HolidayTypes
  BY DEF HolidayInv
<1>1. UNCHANGED <<day, slot, hours, connected, closures, calendar, moves, hourEdits>>
  BY DEF FetchYears
<1>2. twinSyncs' = (twinSyncs \/ \E t \in Syncs \ {s} : Syncing(t))
  BY DEF FetchYears
<1>3. PICK years \in SUBSET {0, 1} :
        sync' = [sync EXCEPT ![s] =
          IF years = {} THEN [NoSync EXCEPT !.step = "over"]
          ELSE [NoSync EXCEPT !.step = "removing", !.today = day, !.years = years, !.numbers = connected,
                  !.found = {h \in calendar : YearOf(h[1]) \in years /\ h[1] >= day}]]
  BY ZenonT(20) DEF FetchYears
<1> DEFINE found == {h \in calendar : YearOf(h[1]) \in years /\ h[1] >= day}
           over == [NoSync EXCEPT !.step = "over"]
           begun == [NoSync EXCEPT !.step = "removing", !.today = day, !.years = years, !.numbers = connected, !.found = found]
<1>4. /\ found \in SUBSET (Nat \X Holidays) /\ day \in Nat /\ connected \in SUBSET Branches
      /\ \A h \in found : h[1] >= day
  BY <1>0 DEF HolidayTypes
<1>5. CASE years = {}
  <2>1. sync' = [sync EXCEPT ![s] = over]
    BY <1>3, <1>5
  <2>2. over \in SyncRow /\ over.step = "over" /\ over.found = {}
    BY NoSyncIsARow DEF SyncRow
  <2> HIDE DEF over
  <2>3. closures' \subseteq ClosureRow /\ twinSyncs' \in BOOLEAN
    BY <1>0, <1>1, <1>2 DEF HolidayTypes
  <2> QED
    BY <1>1, <1>2, <2>1, <2>2, <2>3, SyncMoves
<1>6. CASE years # {}
  <2>1. sync' = [sync EXCEPT ![s] = begun]
    BY <1>3, <1>6
  <2> HIDE DEF found
  <2>2. begun \in SyncRow
    BY <1>4, NoSyncIsARow, Zenon DEF SyncRow
  <2>3. begun.step = "removing" /\ begun.found = found /\ begun.today = day
    BY NoSyncIsARow DEF SyncRow
  <2> HIDE DEF begun
  <2>4. closures' \subseteq ClosureRow /\ twinSyncs' \in BOOLEAN
    BY <1>0, <1>1, <1>2 DEF HolidayTypes
  <2> QED
    BY <1>1, <1>2, <1>4, <2>1, <2>2, <2>3, <2>4, SyncMoves
<1> QED
  BY <1>5, <1>6

\* A closure that is taken out of service keeps its number, its day and its reason.
LEMMA OutOfService ==
  ASSUME NEW c \in ClosureRow
  PROVE  LET out == [c EXCEPT !.live = FALSE] IN
         /\ out \in ClosureRow /\ out.branch = c.branch /\ out.from = c.from /\ out.reason = c.reason /\ ~out.live
BY DEF ClosureRow

LEMMA RemoveMovedStep ==
  ASSUME HolidayInv, NEW s \in Syncs, RemoveMoved(s)
  PROVE  HolidayInv' /\ \A c \in closures' \ closures : ~c.live
<1>0. HolidayTypes /\ OneSync /\ SyncFits(s)
  BY DEF HolidayInv
<1>1. UNCHANGED <<day, slot, hours, connected, calendar, twinSyncs, moves, hourEdits>> /\ sync[s].step = "removing"
  BY DEF RemoveMoved
<1>2. PICK stale : /\ stale \subseteq closures
                   /\ closures' = (closures \ stale) \cup {[c EXCEPT !.live = FALSE] : c \in stale}
  BY DEF RemoveMoved, Coming
<1>3. closures' \subseteq ClosureRow /\ \A c \in closures' \ closures : ~c.live
  BY <1>0, <1>2, OutOfService DEF HolidayTypes
<1>4. sync[s] \in SyncRow
  BY <1>0 DEF HolidayTypes
<1> DEFINE row == [sync[s] EXCEPT !.step = "reading"]
<1>5. sync' = [sync EXCEPT ![s] = row]
  BY DEF RemoveMoved
<1>6. row \in SyncRow /\ row.step = "reading" /\ row.found = sync[s].found /\ row.today = sync[s].today
  BY <1>4 DEF SyncRow
<1> HIDE DEF row
<1>7. \A h \in row.found : h[1] >= row.today
  BY <1>0, <1>6 DEF SyncFits
<1>8. ~twinSyncs' => \A t \in Syncs \ {s} : ~Syncing(t)
  BY <1>0, <1>1 DEF OneSync, Syncing
<1>9. twinSyncs' \in BOOLEAN
  BY <1>0, <1>1 DEF HolidayTypes
<1> QED
  BY <1>1, <1>3, <1>5, <1>6, <1>7, <1>8, <1>9, SyncMoves

LEMMA ReadLoadedStep ==
  ASSUME HolidayInv, NEW s \in Syncs, ReadLoaded(s)
  PROVE  HolidayInv'
<1>0. HolidayTypes /\ OneSync /\ SyncFits(s)
  BY DEF HolidayInv
<1>1. UNCHANGED <<day, slot, hours, connected, closures, calendar, twinSyncs, moves, hourEdits>> /\ sync[s].step = "reading"
  BY DEF ReadLoaded
<1>2. sync[s] \in SyncRow
  BY <1>0 DEF HolidayTypes
<1> DEFINE loaded == Loaded(s)
           row == [sync[s] EXCEPT !.loaded = loaded, !.step = "creating"]
<1>3. sync' = [sync EXCEPT ![s] = row]
  BY <1>0, <1>2 DEF ReadLoaded, HolidayTypes, SyncRow
<1>4. loaded \in SUBSET (Branches \X Nat)
  BY <1>0 DEF Loaded, Coming, HolidayTypes, ClosureRow
<1>5. Loaded(s)' = loaded
  <2>1. sync'[s] = row
    BY <1>0, <1>3 DEF HolidayTypes
  <2>2. row.today = sync[s].today /\ row.numbers = sync[s].numbers
    BY <1>2 DEF SyncRow
  <2> HIDE DEF row
  <2> QED
    BY <1>1, <2>1, <2>2 DEF Loaded, Coming
<1> HIDE DEF loaded
<1>6. row \in SyncRow
  BY <1>2, <1>4, Zenon DEF SyncRow
<1>7. row.step = "creating" /\ row.found = sync[s].found /\ row.today = sync[s].today /\ row.loaded = loaded
  BY <1>2 DEF SyncRow
<1> HIDE DEF row
<1>8. \A h \in row.found : h[1] >= row.today
  BY <1>0, <1>7 DEF SyncFits
<1>9. ~twinSyncs' => \A t \in Syncs \ {s} : ~Syncing(t)
  BY <1>0, <1>1 DEF OneSync, Syncing
<1>10. twinSyncs' \in BOOLEAN /\ closures' \subseteq ClosureRow
  BY <1>0, <1>1 DEF HolidayTypes
<1> QED
  BY <1>1, <1>3, <1>5, <1>6, <1>7, <1>8, <1>9, <1>10, SyncMoves

\* The closures a sync creates are of its numbers, on days it found with none.
LEMMA NewClosuresAre ==
  ASSUME HolidayInv, NEW s \in Syncs, NEW c \in NewClosures(s)
  PROVE  /\ c \in ClosureRow /\ c.branch \in sync[s].numbers /\ c.reason \in Holidays
         /\ <<c.branch, c.from>> \notin sync[s].loaded /\ c.from >= sync[s].today
<1>1. sync[s] \in SyncRow /\ SyncFits(s)
  BY DEF HolidayInv, HolidayTypes
<1>2. sync[s].numbers \subseteq Branches /\ sync[s].found \subseteq Nat \X Holidays
  BY <1>1 DEF SyncRow
<1>3. PICK n \in sync[s].numbers, h \in sync[s].found :
        /\ <<n, h[1]>> \notin sync[s].loaded
        /\ c = [branch |-> n, from |-> h[1], to |-> h[1], reason |-> h[2], by |-> s, live |-> TRUE]
  BY DEF NewClosures
<1>4. h[1] \in Nat /\ h[2] \in Holidays /\ s \in Int /\ n \in Branches /\ h[1] >= sync[s].today
  BY <1>1, <1>2, <1>3 DEF Syncs, SyncFits
<1> QED
  BY <1>3, <1>4 DEF ClosureRow

LEMMA CreateStep ==
  ASSUME HolidayInv, NEW s \in Syncs, CreateClosures(s)
  PROVE  HolidayInv'
<1>0. HolidayTypes /\ OneSync
  BY DEF HolidayInv
<1>1. UNCHANGED <<day, slot, hours, connected, calendar, twinSyncs, moves, hourEdits>> /\ sync[s].step = "creating"
  BY DEF CreateClosures
<1>2. closures' \subseteq ClosureRow
  BY <1>0, NewClosuresAre DEF CreateClosures, HolidayTypes
<1> DEFINE row == [NoSync EXCEPT !.step = "over"]
<1>3. sync' = [sync EXCEPT ![s] = row]
  BY DEF CreateClosures
<1>4. row \in SyncRow /\ row.step = "over" /\ row.found = {}
  BY NoSyncIsARow DEF SyncRow
<1> HIDE DEF row
<1>5. ~twinSyncs' => \A t \in Syncs \ {s} : ~Syncing(t)
  BY <1>0, <1>1 DEF OneSync, Syncing
<1>6. twinSyncs' \in BOOLEAN
  BY <1>0, <1>1 DEF HolidayTypes
<1> QED
  BY <1>1, <1>2, <1>3, <1>4, <1>5, <1>6, SyncMoves

LEMMA OfficeStep ==
  ASSUME HolidayInv, UNCHANGED <<sync, twinSyncs, calendar>>,
         \/ Tick
         \/ \E raw \in Raws : \E k \in Branches \cup {"office"} : UpdateSchedule(k, raw)
         \/ \E b \in Branches : ClearHours(b) \/ Connect(b)
  PROVE  HolidayInv' /\ closures' = closures
<1>0. HolidayTypes
  BY DEF HolidayInv
<1>1. closures' = closures
  BY DEF Tick, UpdateSchedule, ClearHours, Connect
<1>2. day' \in Nat
  <2>1. day' = day \/ day' = day + 1
    BY DEF Tick, UpdateSchedule, ClearHours, Connect
  <2> QED
    BY <1>0, <2>1 DEF HolidayTypes
<1>3. hourEdits' \in Nat
  <2>1. hourEdits' = hourEdits \/ hourEdits' = hourEdits + 1
    BY DEF Tick, UpdateSchedule, ClearHours, Connect
  <2> QED
    BY <1>0, <2>1 DEF HolidayTypes
<1>4. connected' \subseteq Branches
  BY <1>0 DEF HolidayTypes, Tick, UpdateSchedule, ClearHours, Connect
<1>5. HolidayTypes'
  BY <1>0, <1>1, <1>2, <1>3, <1>4 DEF HolidayTypes
<1> QED
  BY <1>1, <1>5, ClosuresKept

LEMMA AddClosureStep ==
  ASSUME HolidayInv, NEW b \in Branches, NEW d \in Ahead, NEW e \in Ahead, AddClosure(b, d, e)
  PROVE  HolidayInv' /\ \A c \in closures' \ closures : ~(c.by > 0)
<1>0. HolidayTypes
  BY DEF HolidayInv
<1>1. UNCHANGED <<day, connected, calendar, sync, twinSyncs>> /\ hourEdits' = hourEdits + 1
  BY DEF AddClosure
<1>2. hourEdits' \in Nat /\ -hourEdits' \in Int /\ ~(-hourEdits' > 0)
  BY <1>0, <1>1 DEF HolidayTypes
<1> DEFINE by == -hourEdits'
           new == [branch |-> b, from |-> d, to |-> e, reason |-> "office", by |-> by, live |-> TRUE]
<1>3. closures' = closures \cup {new}
  BY DEF AddClosure
<1>4. d \in Nat /\ e \in Nat
  BY HoursParameters DEF Ahead
<1>5. by \in Int /\ ~(by > 0)
  BY <1>2
<1> HIDE DEF by
<1>6. new \in ClosureRow /\ new.reason = "office" /\ ~(new.by > 0)
  BY <1>4, <1>5 DEF ClosureRow
<1> HIDE DEF new
<1>7. HolidayTypes'
  BY <1>0, <1>1, <1>2, <1>3, <1>6 DEF HolidayTypes
<1>8. \A c \in closures' : c.reason # "office" =>
        \E x \in closures : x.branch = c.branch /\ x.from = c.from /\ x.reason # "office"
  BY <1>3, <1>6
<1>9. HolidayInv'
  BY <1>1, <1>7, <1>8, ClosuresKept
<1> QED
  BY <1>3, <1>6, <1>9

LEMMA RemoveClosureStep ==
  ASSUME HolidayInv, NEW c \in closures, RemoveClosure(c)
  PROVE  HolidayInv' /\ \A d \in closures' \ closures : ~d.live
<1>0. HolidayTypes
  BY DEF HolidayInv
<1>1. UNCHANGED <<day, connected, calendar, sync, twinSyncs>> /\ hourEdits' = hourEdits + 1
  BY DEF RemoveClosure
<1> DEFINE out == [c EXCEPT !.live = FALSE]
<1>2. closures' = (closures \ {c}) \cup {out}
  BY DEF RemoveClosure
<1>3. out \in ClosureRow /\ out.branch = c.branch /\ out.from = c.from /\ out.reason = c.reason /\ ~out.live
  BY <1>0, OutOfService DEF HolidayTypes
<1> HIDE DEF out
<1>4. HolidayTypes'
  BY <1>0, <1>1, <1>2, <1>3 DEF HolidayTypes
<1>5. \A d \in closures' : d.reason # "office" =>
        \E x \in closures : x.branch = d.branch /\ x.from = d.from /\ x.reason # "office"
  BY <1>2, <1>3
<1>6. HolidayInv'
  BY <1>1, <1>4, <1>5, ClosuresKept
<1> QED
  BY <1>2, <1>3, <1>6

LEMMA CalendarStep ==
  ASSUME HolidayInv, NEW h \in calendar, NEW d \in Ahead, CalendarMoves(h, d)
  PROVE  HolidayInv' /\ closures' = closures
<1>0. HolidayTypes
  BY DEF HolidayInv
<1>1. UNCHANGED <<day, connected, closures, sync, twinSyncs, hourEdits>>
  BY DEF CalendarMoves
<1>2. d \in Nat /\ h[2] \in Holidays
  BY <1>0, HoursParameters DEF Ahead, HolidayTypes
<1>3. calendar' \subseteq Nat \X Holidays
  BY <1>0, <1>2 DEF CalendarMoves, HolidayTypes
<1>4. HolidayTypes'
  BY <1>0, <1>1, <1>3 DEF HolidayTypes
<1>5. \A c \in closures' : c.reason # "office" =>
        \E x \in closures : x.branch = c.branch /\ x.from = c.from /\ x.reason # "office"
  BY <1>1
<1> QED
  BY <1>1, <1>4, <1>5, ClosuresKept

\* A sync creates no closure on a day that had one for a holiday.
LEMMA CreatesOnce ==
  ASSUME HolidayInv, NEW s \in Syncs, CreateClosures(s), ~twinSyncs', NEW c \in closures' \ closures
  PROVE  HolidayRow(c.branch, c.from) = {}
<1>0. HolidayTypes /\ SyncFits(s)
  BY DEF HolidayInv
<1>1. ~twinSyncs /\ sync[s].step = "creating"
  BY DEF CreateClosures
<1>2. c \in NewClosures(s)
  BY DEF CreateClosures
<1>3. Loaded(s) \subseteq sync[s].loaded
  BY <1>0, <1>1 DEF SyncFits
<1>4. /\ c.branch \in sync[s].numbers /\ <<c.branch, c.from>> \notin sync[s].loaded /\ c.from >= sync[s].today
  BY <1>2, NewClosuresAre
<1>5. ASSUME NEW d \in closures, d.branch = c.branch, d.from = c.from, d.reason # "office"
      PROVE  FALSE
  BY <1>3, <1>4, <1>5 DEF Loaded, Coming
<1> QED
  BY <1>5 DEF HolidayRow

LEMMA HolidayStep == HolidayInv /\ [HoursNext]_hoursVars => HolidayInv' /\ LoadedOnce
<1> SUFFICES ASSUME HolidayInv, [HoursNext]_hoursVars PROVE HolidayInv' /\ LoadedOnce
  OBVIOUS
<1>0. closures' = closures \/ (\A c \in closures' \ closures : ~(c.by > 0) \/ ~c.live) => LoadedOnce
  BY DEF LoadedOnce
<1>1. CASE UNCHANGED hoursVars
  <2>1. UNCHANGED <<day, connected, closures, calendar, sync, twinSyncs, hourEdits>>
    BY <1>1 DEF hoursVars
  <2>2. HolidayTypes'
    BY <2>1 DEF HolidayInv, HolidayTypes
  <2>3. \A c \in closures' : c.reason # "office" =>
          \E x \in closures : x.branch = c.branch /\ x.from = c.from /\ x.reason # "office"
    BY <2>1
  <2> QED
    BY <1>0, <2>1, <2>2, <2>3, ClosuresKept
<1>2. CASE \/ Tick
           \/ \E raw \in Raws : \E k \in Branches \cup {"office"} : UpdateSchedule(k, raw)
           \/ \E b \in Branches : ClearHours(b) \/ Connect(b)
  <2>1. UNCHANGED <<sync, twinSyncs, calendar>>
    BY <1>2 DEF Tick, UpdateSchedule, ClearHours, Connect
  <2> QED
    BY <1>0, <1>2, <2>1, OfficeStep
<1>3. ASSUME NEW b \in Branches, NEW d \in Ahead, NEW e \in Ahead, AddClosure(b, d, e)
      PROVE  HolidayInv' /\ LoadedOnce
  BY <1>0, <1>3, AddClosureStep
<1>4. ASSUME NEW c \in closures, RemoveClosure(c)
      PROVE  HolidayInv' /\ LoadedOnce
  BY <1>0, <1>4, RemoveClosureStep
<1>5. ASSUME NEW s \in Syncs, FetchYears(s) \/ ReadLoaded(s)
      PROVE  HolidayInv' /\ LoadedOnce
  <2>1. closures' = closures
    BY <1>5 DEF FetchYears, ReadLoaded
  <2> QED
    BY <1>0, <1>5, <2>1, FetchStep, ReadLoadedStep
<1>6. ASSUME NEW s \in Syncs, RemoveMoved(s)
      PROVE  HolidayInv' /\ LoadedOnce
  BY <1>0, <1>6, RemoveMovedStep
<1>7. ASSUME NEW s \in Syncs, CreateClosures(s)
      PROVE  HolidayInv' /\ LoadedOnce
  <2>1. ~twinSyncs' => \A c \in closures' \ closures : HolidayRow(c.branch, c.from) = {}
    BY <1>7, CreatesOnce
  <2> QED
    BY <1>7, <2>1, CreateStep DEF LoadedOnce
<1>8. ASSUME NEW h \in calendar, NEW d \in Ahead, CalendarMoves(h, d)
      PROVE  HolidayInv' /\ LoadedOnce
  BY <1>0, <1>8, CalendarStep
<1> QED
  BY <1>1, <1>2, <1>3, <1>4, <1>5, <1>6, <1>7, <1>8 DEF HoursNext

-----------------------------------------------------------------------------
(* The hours that are told ("hours")                                         *)

LEMMA LeastOf ==
  ASSUME NEW S \in SUBSET Nat, S # {}
  PROVE  \E x \in S : \A y \in S : x <= y
<1> DEFINE R == OpToRel(<, Nat)
<1>1. IsWellFoundedOn(R, Nat)
  BY NatLessThanWellFounded, Zenon
<1> HIDE DEF R
<1>2. PICK a \in S : \A b \in S : ~(<<b, a>> \in R)
  BY <1>1, WFMin
<1>3. ASSUME NEW b \in S
      PROVE  a <= b
  <2>1. a \in Nat /\ b \in Nat /\ ~(<<b, a>> \in R)
    BY <1>2
  <2>2. ~(b < a)
    BY <2>1 DEF R, OpToRel
  <2> QED
    BY <2>1, <2>2
<1> QED
  BY <1>2, <1>3

\* A day's ranges are slots of the day, by their openings.
DayFits(rs) ==
  /\ DOMAIN rs \subseteq Nat
  /\ \A i \in DOMAIN rs : rs[i] \in Ranges
  /\ \A i, j \in DOMAIN rs : i < j => rs[i][1] <= rs[j][1]

WeekFits(week) == \A w \in 0..6 : DayFits(week[w])

Calendars == /\ calendar \subseteq Ahead \X Holidays
             /\ \A s \in Syncs : sync[s].found \subseteq Ahead \X Holidays

ClosuresAhead == \A c \in closures : c.from \in Ahead /\ c.to \in Ahead /\ c.by \in (-MaxHoursEdits)..MaxSyncs

Schedules ==
  /\ hours = [k \in Branches \cup {"office"} |-> hours[k]]
  /\ \A k \in Branches \cup {"office"} : hours[k] = None \/ WeekFits(hours[k])

ClockFits == day \in 0..LastDay /\ slot \in DaySlots /\ moves \in 0..MaxMoves /\ hourEdits \in 0..MaxHoursEdits

HoursWell == ClockFits /\ Schedules /\ Calendars /\ ClosuresAhead

LEMMA HoursBounds ==
  /\ LastDay \in Nat /\ MaxSyncs \in Nat /\ MaxMoves \in Nat /\ MaxHoursEdits \in Nat
  /\ Ahead \subseteq Nat /\ 1 \in Ahead /\ NewYear \in Ahead /\ Ranges = DaySlots \X (1..4) /\ Nine = 2
BY HoursParameters DEF Ahead, Ranges, DaySlots, Nine

LEMMA DefaultFits == WeekFits(DefaultSchedule) /\ WeekFits([w \in 0..6 |-> <<>>])
<1>1. DayFits(<<>>)
  BY DEF DayFits
<1>2. DayFits(<<(<<1, 2>>)>>)
  BY HoursBounds DEF DayFits, DaySlots
<1> QED
  BY <1>1, <1>2 DEF WeekFits, DefaultSchedule

LEMMA HoursWellInit == HoursInit => HoursWell
<1> SUFFICES ASSUME HoursInit PROVE HoursWell
  OBVIOUS
<1>1. ClockFits
  BY HoursBounds DEF HoursInit, ClockFits, DaySlots
<1>2. Schedules
  <2>1. PICK own \in [connected -> {None, [w \in 0..6 |-> <<>>]}] :
          hours = [k \in Branches \cup {"office"} |-> IF k \in connected THEN own[k] ELSE None]
    BY DEF HoursInit
  <2>2. \A k \in Branches \cup {"office"} : hours[k] = None \/ hours[k] = [w \in 0..6 |-> <<>>]
    BY <2>1
  <2> QED
    BY <2>1, <2>2, DefaultFits DEF Schedules
<1>3. Calendars
  <2>1. \A s \in Syncs : sync[s].found = {}
    BY NoSyncIsARow DEF HoursInit
  <2> QED
    BY <2>1, HoursBounds DEF HoursInit, Calendars
<1>4. ClosuresAhead
  BY DEF HoursInit, ClosuresAhead
<1> QED
  BY <1>1, <1>2, <1>3, <1>4 DEF HoursWell

LEMMA ScheduleStep ==
  ASSUME HoursWell, NEW k \in Branches \cup {"office"}, NEW raw \in Raws, UpdateSchedule(k, raw)
  PROVE  Schedules'
<1>1. PICK sorted \in Sortings(raw) : hours' = [hours EXCEPT ![k] = [w \in 0..6 |-> IF w < 5 THEN sorted ELSE <<>>]]
  BY DEF UpdateSchedule
<1>2. PICK p \in Bijection(DOMAIN raw, DOMAIN raw) : sorted = [i \in DOMAIN raw |-> raw[p[i]]]
  BY DEF Sortings
<1>3. \A i, j \in DOMAIN sorted : i < j => sorted[i][1] <= sorted[j][1]
  BY DEF Sortings
<1>4. p \in [DOMAIN raw -> DOMAIN raw]
  BY DEF Bijection, Injection
<1>5. raw \in Seq(Ranges)
  BY HoursParameters DEF Ranges, DaySlots
<1>6. DOMAIN raw \subseteq Nat /\ \A i \in DOMAIN raw : raw[i] \in Ranges
  BY <1>5
<1>7. DayFits(sorted) /\ DayFits(<<>>)
  BY <1>2, <1>3, <1>4, <1>6 DEF DayFits
<1>8. PICK week : week = [w \in 0..6 |-> IF w < 5 THEN sorted ELSE <<>>]
  OBVIOUS
<1>9. WeekFits(week)
  BY <1>7, <1>8 DEF WeekFits
<1>10. hours' = [hours EXCEPT ![k] = week]
  BY <1>1, <1>8
<1>11. hours = [l \in Branches \cup {"office"} |-> hours[l]] /\ \A l \in Branches \cup {"office"} : hours[l] = None \/ WeekFits(hours[l])
  BY DEF HoursWell, Schedules
<1>12. \A l \in Branches \cup {"office"} : hours'[l] = None \/ WeekFits(hours'[l])
  BY <1>9, <1>10, <1>11
<1>13. hours' = [l \in Branches \cup {"office"} |-> hours'[l]]
  BY <1>10, <1>11
<1> QED
  BY <1>12, <1>13 DEF Schedules

LEMMA ClearStep ==
  ASSUME HoursWell, NEW b \in Branches, ClearHours(b)
  PROVE  Schedules'
BY DEF ClearHours, HoursWell, Schedules

\* What leaves service is where it was.
LEMMA OutStays ==
  ASSUME HolidayInv, ClosuresAhead, NEW S \in SUBSET closures, closures' = (closures \ S) \cup {[c EXCEPT !.live = FALSE] : c \in S}
  PROVE  ClosuresAhead'
<1>1. \A c \in S : c \in ClosureRow
  BY DEF HolidayInv, HolidayTypes
<1>2. \A c \in ClosureRow : /\ [c EXCEPT !.live = FALSE].from = c.from /\ [c EXCEPT !.live = FALSE].to = c.to
                            /\ [c EXCEPT !.live = FALSE].by = c.by
  BY DEF ClosureRow
<1>3. \A c \in S : c.from \in Ahead /\ c.to \in Ahead /\ c.by \in (-MaxHoursEdits)..MaxSyncs
  BY DEF ClosuresAhead
<1> SUFFICES ASSUME NEW e \in closures' PROVE e.from \in Ahead /\ e.to \in Ahead /\ e.by \in (-MaxHoursEdits)..MaxSyncs
  BY DEF ClosuresAhead
<1>4. CASE e \in closures
  BY <1>4 DEF ClosuresAhead
<1>5. CASE e \notin closures
  <2>1. PICK c \in S : e = [c EXCEPT !.live = FALSE]
    BY <1>5
  <2> QED
    BY <2>1, <1>1, <1>2, <1>3, Zenon
<1> QED
  BY <1>4, <1>5

LEMMA ClosureStep ==
  ASSUME HolidayInv, HoursWell,
         \/ \E b \in Branches, d \in Ahead, e \in Ahead : AddClosure(b, d, e)
         \/ \E c \in closures : RemoveClosure(c)
         \/ \E s \in Syncs : RemoveMoved(s) \/ CreateClosures(s)
  PROVE  ClosuresAhead'
<1>0. ClosuresAhead /\ ClockFits /\ Calendars
  BY DEF HoursWell
<1>1. ASSUME NEW b \in Branches, NEW d \in Ahead, NEW e \in Ahead, AddClosure(b, d, e)
      PROVE  ClosuresAhead'
  <2>1. -hourEdits' \in (-MaxHoursEdits)..MaxSyncs
    BY <1>0, <1>1, HoursBounds DEF AddClosure, ClockFits
  <2> QED
    BY <1>0, <1>1, <2>1 DEF AddClosure, ClosuresAhead
<1>2. ASSUME NEW c \in closures, RemoveClosure(c)
      PROVE  ClosuresAhead'
  <2>1. closures' = (closures \ {c}) \cup {[d EXCEPT !.live = FALSE] : d \in {c}}
    BY <1>2 DEF RemoveClosure
  <2> QED
    BY <1>0, <2>1, OutStays
<1>3. ASSUME NEW s \in Syncs, RemoveMoved(s)
      PROVE  ClosuresAhead'
  <2> DEFINE stale == {c \in Coming(s) : c.live /\ YearOf(c.from) \in sync[s].years /\ \A h \in sync[s].found : h[1] # c.from}
  <2>1. stale \in SUBSET closures
    BY DEF Coming
  <2>2. closures' = (closures \ stale) \cup {[c EXCEPT !.live = FALSE] : c \in stale}
    BY <1>3 DEF RemoveMoved
  <2> HIDE DEF stale
  <2> QED
    BY <1>0, <2>1, <2>2, OutStays
<1>4. ASSUME NEW s \in Syncs, CreateClosures(s)
      PROVE  ClosuresAhead'
  <2>1. s \in (-MaxHoursEdits)..MaxSyncs /\ sync[s].found \subseteq Ahead \X Holidays
    BY <1>0, HoursBounds DEF Syncs, Calendars
  <2>2. \A c \in NewClosures(s) : c.from \in Ahead /\ c.to \in Ahead /\ c.by = s
    <3> SUFFICES ASSUME NEW c \in NewClosures(s) PROVE c.from \in Ahead /\ c.to \in Ahead /\ c.by = s
      OBVIOUS
    <3>1. PICK n \in sync[s].numbers \X sync[s].found :
            c = [branch |-> n[1], from |-> n[2][1], to |-> n[2][1], reason |-> n[2][2], by |-> s, live |-> TRUE]
      BY DEF NewClosures
    <3>2. n[2] \in Ahead \X Holidays
      BY <2>1, <3>1
    <3> QED
      BY <3>1, <3>2
  <2> QED
    BY <1>0, <1>4, <2>1, <2>2 DEF CreateClosures, ClosuresAhead
<1> QED
  BY <1>1, <1>2, <1>3, <1>4

LEMMA FetchKeepsCalendars ==
  ASSUME HolidayInv, HoursWell, NEW s \in Syncs, FetchYears(s)
  PROVE  Calendars'
<1>0. Calendars /\ sync \in [Syncs -> SyncRow]
  BY DEF HoursWell, HolidayInv, HolidayTypes
<1>1. calendar' = calendar
  BY DEF FetchYears
<1>2. \E row : sync' = [sync EXCEPT ![s] = row] /\ row.found \subseteq calendar
  <2>1. PICK years : sync' = [sync EXCEPT ![s] =
          IF years = {} THEN [NoSync EXCEPT !.step = "over"]
          ELSE [NoSync EXCEPT !.step = "removing", !.today = day, !.years = years, !.numbers = connected,
                  !.found = {h \in calendar : YearOf(h[1]) \in years /\ h[1] >= day}]]
    BY ZenonT(20) DEF FetchYears
  <2>2. [NoSync EXCEPT !.step = "over"].found = {}
    BY DEF NoSync
  <2> DEFINE found == {h \in calendar : YearOf(h[1]) \in years /\ h[1] >= day}
  <2>3. found \subseteq calendar
    OBVIOUS
  <2> HIDE DEF found
  <2>4. [NoSync EXCEPT !.step = "removing", !.today = day, !.years = years, !.numbers = connected, !.found = found].found = found
    BY DEF NoSync
  <2> QED
    BY <2>1, <2>2, <2>3, <2>4 DEF found
<1>3. \A t \in Syncs : sync'[t].found = sync[t].found \/ sync'[t].found \subseteq calendar
  BY <1>0, <1>2
<1> QED
  BY <1>0, <1>1, <1>3 DEF Calendars

LEMMA SyncKeepsCalendars ==
  ASSUME HolidayInv, HoursWell, NEW s \in Syncs, RemoveMoved(s) \/ ReadLoaded(s) \/ CreateClosures(s)
  PROVE  Calendars'
<1>0. Calendars /\ sync \in [Syncs -> SyncRow]
  BY DEF HoursWell, HolidayInv, HolidayTypes
<1>1. calendar' = calendar
  BY DEF RemoveMoved, ReadLoaded, CreateClosures
<1>2. \A t \in Syncs : sync'[t].found = sync[t].found \/ sync'[t].found = {}
  <2>1. [NoSync EXCEPT !.step = "over"].found = {}
    BY DEF NoSync
  <2>2. CASE RemoveMoved(s)
    BY <1>0, <2>2 DEF RemoveMoved, SyncRow
  <2>3. CASE ReadLoaded(s)
    BY <1>0, <2>3 DEF ReadLoaded, SyncRow
  <2>4. CASE CreateClosures(s)
    BY <1>0, <2>1, <2>4 DEF CreateClosures
  <2> QED
    BY <2>2, <2>3, <2>4
<1> QED
  BY <1>0, <1>1, <1>2 DEF Calendars

LEMMA MoveKeepsCalendars ==
  ASSUME HoursWell, NEW g \in calendar, NEW d \in Ahead, CalendarMoves(g, d)
  PROVE  Calendars'
BY DEF CalendarMoves, Calendars, HoursWell

LEMMA HoursWellStep == HolidayInv /\ HoursWell /\ [HoursNext]_hoursVars => HoursWell'
<1> SUFFICES ASSUME HolidayInv, HoursWell, [HoursNext]_hoursVars PROVE HoursWell'
  OBVIOUS
<1>0. ClockFits /\ Schedules /\ Calendars /\ ClosuresAhead
  BY DEF HoursWell
<1>1. ClockFits'
  <2>1. CASE Tick
    BY <1>0, <2>1, HoursBounds DEF Tick, ClockFits, DaySlots
  <2>2. ASSUME NEW k \in Branches \cup {"office"}, NEW raw \in Raws, UpdateSchedule(k, raw)
        PROVE  ClockFits'
    BY <1>0, <2>2, HoursBounds DEF UpdateSchedule, ClockFits
  <2>3. ASSUME NEW b \in Branches, ClearHours(b) \/ Connect(b) \/ \E d, e \in Ahead : AddClosure(b, d, e)
        PROVE  ClockFits'
    BY <1>0, <2>3, HoursBounds DEF ClearHours, Connect, AddClosure, ClockFits
  <2>4. ASSUME NEW c \in closures, RemoveClosure(c)
        PROVE  ClockFits'
    BY <1>0, <2>4, HoursBounds DEF RemoveClosure, ClockFits
  <2>5. ASSUME NEW s \in Syncs, FetchYears(s) \/ RemoveMoved(s) \/ ReadLoaded(s) \/ CreateClosures(s)
        PROVE  ClockFits'
    BY <1>0, <2>5 DEF FetchYears, RemoveMoved, ReadLoaded, CreateClosures, ClockFits
  <2>6. ASSUME NEW h \in calendar, NEW d \in Ahead, CalendarMoves(h, d)
        PROVE  ClockFits'
    BY <1>0, <2>6, HoursBounds DEF CalendarMoves, ClockFits
  <2>7. CASE UNCHANGED hoursVars
    BY <1>0, <2>7 DEF hoursVars, ClockFits
  <2> QED
    BY <2>1, <2>2, <2>3, <2>4, <2>5, <2>6, <2>7 DEF HoursNext
<1>2. Schedules'
  <2>1. CASE UNCHANGED hours
    BY <1>0, <2>1 DEF Schedules
  <2>2. CASE UNCHANGED hoursVars
    BY <2>1, <2>2 DEF hoursVars
  <2>3. CASE HoursNext
    <3>1. \/ UNCHANGED hours
          \/ \E k \in Branches \cup {"office"}, raw \in Raws : UpdateSchedule(k, raw)
          \/ \E b \in Branches : ClearHours(b)
      BY <2>3, ZenonT(20) DEF HoursNext, Tick, Connect, AddClosure, RemoveClosure, FetchYears, RemoveMoved, ReadLoaded, CreateClosures, CalendarMoves
    <3> QED
      BY <2>1, <3>1, ScheduleStep, ClearStep
  <2> QED
    BY <2>2, <2>3
<1>3. Calendars'
  <2>1. CASE UNCHANGED <<calendar, sync>>
    BY <1>0, <2>1 DEF Calendars
  <2>2. CASE UNCHANGED hoursVars
    BY <2>1, <2>2 DEF hoursVars
  <2>3. CASE HoursNext
    <3>1. \/ UNCHANGED <<calendar, sync>>
          \/ \E s \in Syncs : FetchYears(s) \/ RemoveMoved(s) \/ ReadLoaded(s) \/ CreateClosures(s)
          \/ \E h \in calendar, d \in Ahead : CalendarMoves(h, d)
      BY <2>3 DEF HoursNext, Tick, Connect, AddClosure, RemoveClosure, UpdateSchedule, ClearHours
    <3> QED
      BY <2>1, <3>1, FetchKeepsCalendars, SyncKeepsCalendars, MoveKeepsCalendars
  <2> QED
    BY <2>2, <2>3
<1>4. ClosuresAhead'
  <2>1. CASE UNCHANGED closures
    BY <1>0, <2>1 DEF ClosuresAhead
  <2>2. CASE UNCHANGED hoursVars
    BY <2>1, <2>2 DEF hoursVars
  <2>3. CASE HoursNext
    <3>1. \/ UNCHANGED closures
          \/ \E b \in Branches, d \in Ahead, e \in Ahead : AddClosure(b, d, e)
          \/ \E c \in closures : RemoveClosure(c)
          \/ \E s \in Syncs : RemoveMoved(s) \/ CreateClosures(s)
      BY <2>3, ZenonT(20) DEF HoursNext, Tick, Connect, UpdateSchedule, ClearHours, FetchYears, ReadLoaded, CalendarMoves
    <3> QED
      BY <2>1, <3>1, ClosureStep
  <2> QED
    BY <2>2, <2>3
<1> QED
  BY <1>1, <1>2, <1>3, <1>4 DEF HoursWell

LEMMA HoursTypesSay == HolidayInv /\ HoursWell => HoursTypeOK
<1> SUFFICES ASSUME HolidayInv, HoursWell PROVE HoursTypeOK
  OBVIOUS
<1>1. \A k \in Branches \cup {"office"} : hours[k] = None \/ \A w \in 0..6 : \A i \in DOMAIN hours[k][w] : hours[k][w][i] \in Ranges
  BY DEF HoursWell, Schedules, WeekFits, DayFits
<1>2. \A c \in closures : /\ c.branch \in Branches /\ c.from \in Ahead /\ c.to \in Ahead
                         /\ c.reason \in Holidays \cup {"office"} /\ c.by \in (-MaxHoursEdits)..MaxSyncs /\ c.live \in BOOLEAN
  <2>1. closures \subseteq ClosureRow
    BY DEF HolidayInv, HolidayTypes
  <2> QED
    BY <2>1 DEF HoursWell, ClosuresAhead, ClosureRow
<1>3. \A s \in Syncs : sync[s].step \in {"idle", "removing", "reading", "creating", "over"}
  BY DEF HolidayInv, HolidayTypes, SyncRow
<1> QED
  BY <1>1, <1>2, <1>3 DEF HoursTypeOK, HolidayInv, HolidayTypes, HoursWell, ClockFits, Calendars

\* The first of some numbers.
LEMMA MinIsLeast ==
  ASSUME NEW S \in SUBSET Nat, S # {}
  PROVE  Min(S) \in S /\ \A x \in S : Min(S) <= x
<1>1. PICK x \in S : \A y \in S : x <= y
  BY LeastOf
<1> QED
  BY <1>1 DEF Min

LEMMA ScheduleFits ==
  ASSUME HoursWell, NEW b \in Branches, NEW d \in Nat
  PROVE  DayFits(ScheduleOf(b)[Weekday(d)])
<1>0. d % 7 \in 0..6
  OBVIOUS
<1>1. Weekday(d) \in 0..6
  BY <1>0 DEF Weekday
<1>2. WeekFits(ScheduleOf(b))
  <2>1. \A k \in {b, "office"} : hours[k] = None \/ WeekFits(hours[k])
    BY DEF HoursWell, Schedules
  <2> QED
    BY <2>1, DefaultFits DEF ScheduleOf, ParseSchedule
<1>3. \A w \in 0..6 : DayFits(ScheduleOf(b)[w])
  BY <1>2 DEF WeekFits
<1> QED
  BY <1>1, <1>3, Zenon

\* The day in UTC hides no closure of a later day, nor of today but on the nights
\* when all that cover it end.
LEMMA UtcDayIsDay ==
  ASSUME HoursWell, NEW b \in Branches, NEW o \in Nat, ~Forgotten(b) \/ o > 0
  PROVE  ClosedOn(b, day + o) <=> Closed(b, day + o)
<1>1. day \in Nat /\ slot \in Nat /\ \A c \in closures : c.from \in Nat /\ c.to \in Nat
  <2>1. day \in 0..LastDay /\ slot \in DaySlots /\ \A c \in closures : c.from \in Ahead /\ c.to \in Ahead
    BY DEF HoursWell, ClockFits, ClosuresAhead
  <2>2. \A d \in Ahead : d \in Nat
    BY HoursBounds
  <2>3. day \in Nat /\ slot \in Nat
    BY <2>1, HoursBounds DEF DaySlots
  <2>4. \A c \in closures : c.from \in Nat /\ c.to \in Nat
    BY <2>1, <2>2
  <2> QED
    BY <2>3, <2>4
<1>2. UtcDay \in Nat /\ UtcDay <= day + 1 /\ (slot < Nine => UtcDay = day)
  BY <1>1, HoursBounds DEF UtcDay
<1>3. ActiveClosures(b) \subseteq closures /\ \A c \in ActiveClosures(b) : c.branch = b /\ c.live
  BY DEF ActiveClosures
<1>4. ClosedOn(b, day + o) => Closed(b, day + o)
  BY <1>3 DEF ClosedOn, Closed
<1>5. ASSUME Closed(b, day + o)
      PROVE  \E c \in closures : c.branch = b /\ c.live /\ c.from <= day + o /\ day + o <= c.to /\ c.to >= UtcDay
  <2>1. PICK c \in closures : c.branch = b /\ c.live /\ c.from <= day + o /\ day + o <= c.to
    BY <1>5 DEF Closed
  <2>2. CASE slot < Nine \/ o > 0
    BY <1>1, <1>2, <2>1, <2>2
  <2>3. CASE ~(slot < Nine) /\ o = 0
    <3>1. day + o = day /\ slot >= Nine /\ Closed(b, day)
      BY <1>1, <1>5, <2>3, HoursBounds
    <3>2. PICK e \in closures : e.branch = b /\ e.live /\ e.from <= day /\ day <= e.to /\ e.to # day
      BY <2>3, <3>1 DEF Forgotten
    <3>3. e.to >= UtcDay
      BY <1>1, <1>2, <3>2
    <3> QED
      BY <3>1, <3>2, <3>3
  <2> QED
    BY <2>2, <2>3
<1>6. Closed(b, day + o) => ClosedOn(b, day + o)
  BY <1>5 DEF ClosedOn, ActiveClosures
<1> QED
  BY <1>4, <1>6

LEMMA StatusFitsWell == HoursWell /\ connected \subseteq Branches => StatusFits
<1> SUFFICES ASSUME HoursWell, connected \subseteq Branches, NEW b \in connected, ~Forgotten(b)
             PROVE  IsOpenNow(b) <=> InHours(b, day, slot) /\ ~Closed(b, day)
  BY DEF StatusFits
<1>1. day \in Nat /\ day + 0 = day
  BY HoursBounds DEF HoursWell, ClockFits
<1>2. ClosedOn(b, day) <=> Closed(b, day)
  BY <1>1, UtcDayIsDay
<1> QED
  BY <1>2 DEF IsOpenNow, InHours

\* The moments within a week when a number opens.
Begins(b) ==
  {x \in (0..7) \X DaySlots :
     /\ ~Closed(b, day + x[1]) /\ (x[1] = 0 => x[2] > slot)
     /\ LET ranges == ScheduleOf(b)[Weekday(day + x[1])] IN \E i \in DOMAIN ranges : ranges[i][1] = x[2]}

\* The days of them, as the bot finds them.
Offsets(b) == {o \in 0..7 : ~ClosedOn(b, day + o) /\ Openings(b, o) # {}}

DayRanges(b, o) == ScheduleOf(b)[Weekday(day + o)]

LEMMA OpeningsBegin ==
  ASSUME HoursWell, NEW b \in Branches, NEW o \in 0..7, ~Forgotten(b)
  PROVE  /\ \A i \in DOMAIN DayRanges(b, o) : DayRanges(b, o)[i][1] \in DaySlots
         /\ Openings(b, o) = {i \in DOMAIN DayRanges(b, o) : o > 0 \/ DayRanges(b, o)[i][1] > slot}
         /\ Openings(b, o) \in SUBSET Nat
         /\ ClosedOn(b, day + o) <=> Closed(b, day + o)
<1>1. day + o \in Nat /\ slot \in DaySlots
  BY HoursBounds DEF HoursWell, ClockFits
<1>2. DayFits(DayRanges(b, o))
  BY <1>1, ScheduleFits DEF DayRanges
<1>3. \A i \in DOMAIN DayRanges(b, o) : DayRanges(b, o)[i][1] \in DaySlots
  BY <1>2, HoursBounds DEF DayFits
<1>4. Openings(b, o) = {i \in DOMAIN DayRanges(b, o) : o > 0 \/ DayRanges(b, o)[i][1] > slot}
  BY DEF Openings, DayRanges
<1>5. Openings(b, o) \in SUBSET Nat
  BY <1>2, <1>4 DEF DayFits
<1>6. ClosedOn(b, day + o) <=> Closed(b, day + o)
  BY UtcDayIsDay
<1> QED
  BY <1>3, <1>4, <1>5, <1>6

LEMMA BeginsSay ==
  ASSUME NEW b
  PROVE  \A o \in 0..7, m \in DaySlots :
           <<o, m>> \in Begins(b) <=> /\ ~Closed(b, day + o) /\ (o = 0 => m > slot)
                                      /\ \E i \in DOMAIN DayRanges(b, o) : DayRanges(b, o)[i][1] = m
BY DEF Begins, DayRanges

\* A day is found exactly when something begins in it.
LEMMA FoundDaysBegin ==
  ASSUME HoursWell, NEW b \in Branches, NEW o \in 0..7, ~Forgotten(b)
  PROVE  o \in Offsets(b) <=> \E m \in DaySlots : <<o, m>> \in Begins(b)
<1>1. ASSUME o \in Offsets(b)
      PROVE  \E m \in DaySlots : <<o, m>> \in Begins(b)
  <2>1. ~Closed(b, day + o)
    BY <1>1, OpeningsBegin DEF Offsets
  <2>2. PICK i \in DOMAIN DayRanges(b, o) : o > 0 \/ DayRanges(b, o)[i][1] > slot
    BY <1>1, OpeningsBegin DEF Offsets
  <2>3. DayRanges(b, o)[i][1] \in DaySlots
    BY OpeningsBegin
  <2> QED
    BY <2>1, <2>2, <2>3, BeginsSay
<1>2. ASSUME NEW m \in DaySlots, <<o, m>> \in Begins(b)
      PROVE  o \in Offsets(b)
  <2>1. ~Closed(b, day + o) /\ (o = 0 => m > slot)
    BY <1>2, BeginsSay
  <2>2. PICK i \in DOMAIN DayRanges(b, o) : DayRanges(b, o)[i][1] = m
    BY <1>2, BeginsSay
  <2>3. i \in Openings(b, o)
    BY <2>1, <2>2, OpeningsBegin
  <2>4. ~ClosedOn(b, day + o)
    BY <2>1, <2>3, OpeningsBegin
  <2> QED
    BY <2>3, <2>4 DEF Offsets
<1> QED
  BY <1>1, <1>2

LEMMA PromiseFitsWell == HoursWell /\ connected \subseteq Branches => PromiseFits
<1> SUFFICES ASSUME HoursWell, connected \subseteq Branches, NEW b \in connected, ~Forgotten(b)
             PROVE  IF Begins(b) = {} THEN NextOpening(b) = None
                    ELSE /\ NextOpening(b) \in Begins(b)
                         /\ \A x \in Begins(b) : NextOpening(b)[1] < x[1] \/ (NextOpening(b)[1] = x[1] /\ NextOpening(b)[2] <= x[2])
  BY DEF PromiseFits, Begins
<1>1. NextOpening(b) = IF Offsets(b) = {} THEN None
                       ELSE <<Min(Offsets(b)), DayRanges(b, Min(Offsets(b)))[Min(Openings(b, Min(Offsets(b))))][1]>>
  BY DEF NextOpening, Offsets, DayRanges
<1>2. \A x \in Begins(b) : x = <<x[1], x[2]>> /\ x[1] \in 0..7 /\ x[2] \in DaySlots
  BY DEF Begins
<1>3. \A o \in Offsets(b) : o \in 0..7
  BY DEF Offsets
<1>4. CASE Begins(b) = {}
  BY <1>1, <1>3, <1>4, FoundDaysBegin
<1>5. CASE Begins(b) # {}
  <2>1. Offsets(b) # {}
    <3>1. PICK x \in Begins(b) : TRUE
      BY <1>5
    <3> QED
      BY <3>1, <1>2, FoundDaysBegin
  <2>2. PICK first : first = Min(Offsets(b))
    OBVIOUS
  <2>3. first \in Offsets(b) /\ first \in 0..7 /\ \A o \in Offsets(b) : first <= o
    BY <2>1, <2>2, <1>3, MinIsLeast
  <2>4. PICK i : i = Min(Openings(b, first))
    OBVIOUS
  <2>5. i \in Openings(b, first) /\ \A j \in Openings(b, first) : i <= j
    BY <2>3, <2>4, OpeningsBegin, MinIsLeast DEF Offsets
  <2>6. NextOpening(b) = <<first, DayRanges(b, first)[i][1]>>
    BY <1>1, <2>1, <2>2, <2>4
  <2>7. ~Closed(b, day + first) /\ DayRanges(b, first)[i][1] \in DaySlots /\ i \in DOMAIN DayRanges(b, first)
        /\ (first = 0 => DayRanges(b, first)[i][1] > slot)
    BY <2>3, <2>5, OpeningsBegin DEF Offsets
  <2>8. NextOpening(b) \in Begins(b)
    BY <2>3, <2>6, <2>7, BeginsSay
  <2>9. ASSUME NEW x \in Begins(b)
        PROVE  first < x[1] \/ (first = x[1] /\ DayRanges(b, first)[i][1] <= x[2])
    <3>1. first <= x[1]
      BY <1>2, <2>3, FoundDaysBegin
    <3>2. CASE first = x[1]
      <4>1. <<first, x[2]>> \in Begins(b) /\ x[2] \in DaySlots
        BY <1>2, <3>2
      <4>2. first = 0 => x[2] > slot
        BY <2>3, <4>1, BeginsSay
      <4>3. PICK j \in DOMAIN DayRanges(b, first) : DayRanges(b, first)[j][1] = x[2]
        BY <2>3, <4>1, BeginsSay
      <4>4. j \in Openings(b, first)
        BY <2>3, <4>2, <4>3, OpeningsBegin
      <4>5. day + first \in Nat
        BY <2>3, HoursBounds DEF HoursWell, ClockFits
      <4>6. DayFits(DayRanges(b, first))
        BY <4>5, ScheduleFits DEF DayRanges
      <4>7. i = j \/ i < j
        BY <2>3, <2>5, <4>4, OpeningsBegin
      <4> QED
        BY <2>7, <3>2, <4>1, <4>3, <4>6, <4>7 DEF DayFits, DaySlots
    <3> QED
      BY <1>2, <2>3, <3>1, <3>2
  <2> QED
    BY <1>5, <2>6, <2>8, <2>9
<1> QED
  BY <1>4, <1>5

LEMMA HoursFitWell == HolidayInv /\ HoursWell => HoursFit
BY StatusFitsWell, PromiseFitsWell DEF HolidayInv, HolidayTypes, HoursFit

-----------------------------------------------------------------------------
(* The catalog of plans ("plans")                                            *)

CatalogLine == [plan : Plans \cup {NoPlan}, kind : {"none", "on", "off"}, first : BOOLEAN]

ChangeRow == [active : SUBSET BOOLEAN, trial : SUBSET BOOLEAN, free : SUBSET BOOLEAN, messages : SUBSET Sizes,
              on : SUBSET Features, off : SUBSET Features]

CatalogOps == {"none", "create", "update", "remove", "roles", "assign", "number"}

DeskRow == [step : {"free", "found", "alone", "checked"}, op : CatalogOps, plan : Plans \cup {NoPlan}, line : Lines,
            row : PlanRow, change : ChangeRow, off : SUBSET OfficeRoles]

CatalogTypes ==
  /\ plans \in [Plans -> PlanRow]
  /\ lines \in [Lines -> CatalogLine]
  /\ onTrial \in BOOLEAN /\ roles \in [OfficeRoles -> SUBSET Features]
  /\ desks \in [Desks -> DeskRow]
  /\ orders \in 0..MaxOrders /\ crossed \in BOOLEAN

\* What the checks of a request refuse: another trial, the last paid plan.
AnotherTrial(d) == NeedsOnlyTrial(d) /\ Trials \ {desks[d].plan} # {}
Refused(d) ==
  \/ NeedsOnlyTrial(d) /\ Trials \ {desks[d].plan} # {}
  \/ LeavesPaid(d) /\ ActivePaid \ {desks[d].plan} = {}

\* What a request found, as long as it is the only one: the plan is as it was
\* found, and what was checked of it still holds.
OrderFits(d) ==
  LET o == desks[d] IN
  /\ o.op \in {"update", "remove"} => o.plan \in Catalog /\ o.row = plans[o.plan]
  /\ o.op = "update" => (Or(o.change.trial, o.row.trial) => Or(o.change.free, o.row.free))
  /\ o.op = "create" => (o.row.trial => o.row.free) /\ o.plan = NoPlan
  /\ o.op = "assign" => o.plan \in Assignable
  /\ o.op = "number" => o.plan \in Catalog \cup {NoPlan}
  /\ o.step = "alone" => ~AnotherTrial(d)
  /\ o.step = "checked" => ~Refused(d)

DesksFit ==
  \A d \in Desks :
    /\ desks[d].step = "free" <=> desks[d].op = "none"
    /\ desks[d].step \in {"alone", "checked"} => desks[d].op \in {"create", "update", "remove"}
    /\ desks[d].op \in {"update", "remove"} => desks[d].plan \in Plans

CatalogAlone ==
  /\ \A d, e \in Desks : desks[d].step # "free" /\ desks[e].step # "free" => d = e
  /\ \A d \in Desks : OrderFits(d)
  /\ ActivePaid # {}
  /\ \A p, q \in Trials : p = q
  /\ \A p \in Catalog : plans[p].trial => plans[p].free
  /\ \A l \in Lines : lines[l].plan # NoPlan => lines[l].plan \in Catalog

RowsAreMade == \A p \in Plans : plans[p].live => plans[p].made

CatalogInv == CatalogTypes /\ DesksFit /\ RowsAreMade /\ (~crossed => CatalogAlone)

-----------------------------------------------------------------------------

LEMMA CatalogInvSays == CatalogInv => CatalogTypeOK /\ CatalogStands /\ NoGonePlan
<1> SUFFICES ASSUME CatalogInv PROVE CatalogTypeOK /\ CatalogStands /\ NoGonePlan
  OBVIOUS
<1>1. ASSUME NEW l \in Lines
      PROVE  lines[l].plan \in Plans \cup {NoPlan} /\ lines[l].kind \in {"none", "on", "off"} /\ lines[l].first \in BOOLEAN
  BY DEF CatalogInv, CatalogTypes, CatalogLine
<1>2. ASSUME NEW d \in Desks
      PROVE  desks[d].step \in {"free", "found", "alone", "checked"} /\ desks[d].row \in PlanRow /\ desks[d].plan \in Plans \cup {NoPlan}
  <2>1. desks[d] \in DeskRow
    BY DEF CatalogInv, CatalogTypes
  <2> QED
    BY <2>1 DEF DeskRow
<1>3. CatalogTypeOK
  BY <1>1, <1>2 DEF CatalogInv, CatalogTypes, CatalogTypeOK
<1>4. ~crossed => Cardinality(Trials) <= 1
  <2> SUFFICES ASSUME ~crossed PROVE Cardinality(Trials) <= 1
    OBVIOUS
  <2>1. \A p, q \in Trials : p = q
    BY DEF CatalogInv, CatalogAlone
  <2>2. Trials = {} \/ \E p : Trials = {p}
    BY <2>1
  <2> QED
    BY <2>2, FS_EmptySet, FS_Singleton
<1>5. CatalogStands /\ NoGonePlan
  BY <1>4 DEF CatalogInv, CatalogAlone, CatalogStands, NoGonePlan
<1> QED
  BY <1>3, <1>5

LEMMA NoRowIsARow == NoRowYet \in PlanRow /\ ~NoRowYet.live /\ ~NoRowYet.trial
<1>1. (CHOOSE s \in Sizes : TRUE) \in Sizes
  BY CatalogParameters
<1>2. [f \in Features |-> "unset"] \in [Features -> Setting]
  BY DEF Setting
<1> QED
  BY <1>1, <1>2 DEF NoRowYet, PlanRow

LEMMA FreeIsADesk == Free \in DeskRow /\ Free.step = "free" /\ Free.op = "none"
<1>1. (CHOOSE l \in Lines : TRUE) \in Lines
  BY CatalogParameters
<1>2. Same \in ChangeRow
  BY DEF Same, ChangeRow
<1> QED
  BY <1>1, <1>2, NoRowIsARow DEF Free, DeskRow, CatalogOps

LEMMA OrIsTyped ==
  ASSUME NEW S, NEW new \in SUBSET S, NEW old \in S
  PROVE  Or(new, old) \in S
BY DEF Or

LEMMA ChangesAreTyped == PlanChanges \subseteq ChangeRow /\ FunctionChanges \subseteq ChangeRow
<1>1. Same \in ChangeRow
  BY DEF Same, ChangeRow
<1>2. ASSUME NEW v \in BOOLEAN
      PROVE  /\ [Same EXCEPT !.active = {v}] \in ChangeRow /\ [Same EXCEPT !.trial = {v}] \in ChangeRow
             /\ [Same EXCEPT !.free = {v}] \in ChangeRow /\ [Same EXCEPT !.trial = {v}, !.free = {v}] \in ChangeRow
  <2>1. {v} \in SUBSET BOOLEAN
    OBVIOUS
  <2> HIDE DEF Same
  <2>2. [Same EXCEPT !.active = {v}] \in ChangeRow
    BY <1>1, <2>1, Zenon DEF ChangeRow
  <2>3. [Same EXCEPT !.trial = {v}] \in ChangeRow
    BY <1>1, <2>1, Zenon DEF ChangeRow
  <2>4. [Same EXCEPT !.free = {v}] \in ChangeRow
    BY <1>1, <2>1, Zenon DEF ChangeRow
  <2>5. [Same EXCEPT !.trial = {v}, !.free = {v}] \in ChangeRow
    BY <1>1, <2>1, Zenon DEF ChangeRow
  <2> QED
    BY <2>2, <2>3, <2>4, <2>5
<1>3. ASSUME NEW s \in Sizes
      PROVE  [Same EXCEPT !.messages = {s}] \in ChangeRow
  BY <1>1, Zenon DEF ChangeRow
<1>4. ASSUME NEW f \in Features
      PROVE  [Same EXCEPT !.on = {f}] \in ChangeRow /\ [Same EXCEPT !.off = {f}] \in ChangeRow
  BY <1>1, Zenon DEF ChangeRow
<1>5. FunctionChanges \subseteq ChangeRow
  BY <1>1, <1>4 DEF FunctionChanges
<1> QED
  BY <1>2, <1>3, <1>5 DEF PlanChanges

LEMMA WithChangesIsTyped ==
  ASSUME NEW stored \in [Features -> Setting], NEW change
  PROVE  WithChanges(stored, change) \in [Features -> Setting]
BY DEF WithChanges, Setting

LEMMA InitialPlanIs == InitialPlan \in Trials \cup {NoPlan}
<1>1. ASSUME Trials # {}
      PROVE  (CHOOSE p \in Trials : \A q \in Trials : p <= q) \in Trials
  <2>1. Trials \in SUBSET Nat
    BY CatalogParameters DEF Trials, Catalog
  <2>2. \E p \in Trials : \A q \in Trials : p <= q
    BY <1>1, <2>1, LeastOf
  <2> QED
    BY <2>2
<1> QED
  BY <1>1 DEF InitialPlan

LEMMA FirstPlanIsAPlan ==
  ASSUME NEW stored \in [Features -> Setting]
  PROVE  [NoRowYet EXCEPT !.made = TRUE, !.live = TRUE, !.active = TRUE, !.features = stored] \in PlanRow
BY NoRowIsARow, Zenon DEF PlanRow

LEMMA CatalogInvInit == CatalogInit => CatalogInv
<1> SUFFICES ASSUME CatalogInit PROVE CatalogInv
  OBVIOUS
<1>9. lines = [l \in Lines |-> [plan |-> NoPlan, kind |-> "none", first |-> TRUE]]
  BY DEF CatalogInit
<1>1. PICK stored \in [Features -> Setting] :
        plans = [NoPlans EXCEPT ![1] = [@ EXCEPT !.made = TRUE, !.live = TRUE, !.active = TRUE, !.features = stored]]
  BY DEF CatalogInit
<1>2. 1 \in Plans /\ NoPlan \notin Plans
  BY CatalogParameters
<1> DEFINE first == [NoRowYet EXCEPT !.made = TRUE, !.live = TRUE, !.active = TRUE, !.features = stored]
<1>3. first \in PlanRow /\ first.live /\ first.active /\ ~first.trial
  <2>1. first \in PlanRow
    BY FirstPlanIsAPlan
  <2>2. first.live /\ first.active /\ first.trial = NoRowYet.trial
    BY NoRowIsARow DEF PlanRow
  <2> QED
    BY <2>1, <2>2, NoRowIsARow
<1>4. plans = [p \in Plans |-> IF p = 1 THEN first ELSE NoRowYet]
  BY <1>1, <1>2 DEF NoPlans
<1> HIDE DEF first
<1>5. CatalogTypes
  <2>1. plans \in [Plans -> PlanRow]
    BY <1>3, <1>4, NoRowIsARow
  <2>2. lines \in [Lines -> CatalogLine]
    <3>1. [plan |-> NoPlan, kind |-> "none", first |-> TRUE] \in CatalogLine
      BY DEF CatalogLine
    <3> QED
      BY <3>1 DEF CatalogInit
  <2>3. desks \in [Desks -> DeskRow]
    BY FreeIsADesk DEF CatalogInit
  <2>4. onTrial \in BOOLEAN /\ crossed \in BOOLEAN
    BY DEF CatalogInit
  <2>5. roles \in [OfficeRoles -> SUBSET Features]
    BY DEF CatalogInit
  <2>6. orders \in 0..MaxOrders
    BY CatalogParameters DEF CatalogInit
  <2> QED
    BY <2>1, <2>2, <2>3, <2>4, <2>5, <2>6 DEF CatalogTypes
<1>6. \A d \in Desks : desks[d].step = "free" /\ desks[d].op = "none"
  BY FreeIsADesk DEF CatalogInit
<1>7. Catalog = {1} /\ Trials = {} /\ ActivePaid = {1}
  BY <1>2, <1>3, <1>4, NoRowIsARow DEF Catalog, Trials, ActivePaid, Paid
<1>8. CatalogAlone
  <2>1. \A l \in Lines : lines[l].plan = NoPlan
    BY <1>9
  <2>2. \A d, e \in Desks : desks[d].step # "free" /\ desks[e].step # "free" => d = e
    BY <1>6
  <2>3. \A d \in Desks : OrderFits(d)
    BY <1>6 DEF OrderFits
  <2>4. ActivePaid # {} /\ \A p, q \in Trials : p = q
    BY <1>7
  <2>5. plans[1] = first
    BY <1>2, <1>4
  <2>6. \A p \in Catalog : plans[p].trial => plans[p].free
    BY <1>3, <1>7, <2>5
  <2> QED
    BY <2>1, <2>2, <2>3, <2>4, <2>6 DEF CatalogAlone
<1>10. RowsAreMade
  <2>1. first.made
    BY NoRowIsARow DEF PlanRow, first
  <2> QED
    BY <1>4, <2>1, NoRowIsARow DEF RowsAreMade
<1> QED
  BY <1>5, <1>6, <1>8, <1>10 DEF CatalogInv, DesksFit

-----------------------------------------------------------------------------
\* A request that begins.
LEMMA AsksWell ==
  ASSUME CatalogInv, NEW d \in Desks, NEW request \in DeskRow, Start(d, request),
         request.step = "found", request.op # "none", request.op \in {"update", "remove"} => request.plan \in Plans,
         ~crossed => /\ request.op \in {"update", "remove"} => request.plan \in Catalog /\ request.row = plans[request.plan]
                     /\ request.op = "update" => (Or(request.change.trial, request.row.trial) => Or(request.change.free, request.row.free))
                     /\ request.op = "create" => (request.row.trial => request.row.free) /\ request.plan = NoPlan
                     /\ request.op = "assign" => request.plan \in Assignable
                     /\ request.op = "number" => request.plan \in Catalog \cup {NoPlan}
  PROVE  CatalogInv'
<1>0. CatalogTypes /\ DesksFit
  BY DEF CatalogInv
<1>1. UNCHANGED <<plans, lines, onTrial, roles>> /\ desks' = [desks EXCEPT ![d] = request]
  BY DEF Start
<1>2. CatalogTypes'
  BY <1>0, <1>1, CatalogParameters DEF CatalogTypes, Start
<1>3. desks'[d] = request /\ \A e \in Desks \ {d} : desks'[e] = desks[e]
  BY <1>0, <1>1 DEF CatalogTypes
<1>4. DesksFit'
  BY <1>0, <1>3 DEF DesksFit
<1>5. ASSUME ~crossed'
      PROVE  CatalogAlone'
  <2>1. ~crossed /\ \A e \in Desks \ {d} : desks[e].step = "free"
    BY <1>5 DEF Start
  <2>2. CatalogAlone
    BY <2>1 DEF CatalogInv
  <2>3. Catalog' = Catalog /\ Trials' = Trials /\ ActivePaid' = ActivePaid /\ Assignable' = Assignable
    BY <1>1 DEF Catalog, Trials, ActivePaid, Paid, Assignable
  <2>4. ASSUME NEW e \in Desks
        PROVE  OrderFits(e)'
    <3>1. CASE e = d
      <4>1. desks'[e] = request /\ plans' = plans
        BY <1>1, <1>3, <3>1
      <4> QED
        BY <4>1, <2>1, <2>3 DEF OrderFits
    <3>2. CASE e # d
      BY <1>0, <1>3, <2>1, <3>2 DEF OrderFits, DesksFit
    <3> QED
      BY <3>1, <3>2
  <2> QED
    BY <1>1, <1>3, <2>1, <2>2, <2>3, <2>4 DEF CatalogAlone
<1> QED
  BY <1>1, <1>2, <1>4, <1>5 DEF CatalogInv, RowsAreMade

\* A request that ends, with the catalog it leaves.
LEMMA EndsWell ==
  ASSUME CatalogInv, NEW d \in Desks, desks[d].step # "free", desks' = [desks EXCEPT ![d] = Free],
         UNCHANGED <<onTrial, orders, crossed>>,
         plans' \in [Plans -> PlanRow], \A p \in Plans : plans'[p].live => plans'[p].made, lines' \in [Lines -> CatalogLine], roles' \in [OfficeRoles -> SUBSET Features],
         ~crossed => /\ ActivePaid' # {} /\ (\A p, q \in Trials' : p = q)
                     /\ \A p \in Catalog' : plans'[p].trial => plans'[p].free
                     /\ \A l \in Lines : lines'[l].plan # NoPlan => lines'[l].plan \in Catalog'
  PROVE  CatalogInv'
<1>0. CatalogTypes /\ DesksFit
  BY DEF CatalogInv
<1>1. CatalogTypes'
  BY <1>0, FreeIsADesk DEF CatalogTypes
<1>2. \A e \in Desks : desks'[e] = IF e = d THEN Free ELSE desks[e]
  BY <1>0 DEF CatalogTypes
<1>3. DesksFit'
  BY <1>0, <1>2, FreeIsADesk DEF DesksFit
<1>4. ASSUME ~crossed'
      PROVE  CatalogAlone'
  <2>1. CatalogAlone
    BY <1>4 DEF CatalogInv
  <2>2. \A e \in Desks : desks'[e].step = "free" /\ desks'[e].op = "none"
    BY <1>0, <1>2, <2>1, FreeIsADesk DEF CatalogAlone, DesksFit
  <2>3. \A e \in Desks : OrderFits(e)'
    BY <2>2 DEF OrderFits
  <2> QED
    BY <1>4, <2>2, <2>3 DEF CatalogAlone
<1> QED
  BY <1>1, <1>3, <1>4 DEF CatalogInv, RowsAreMade

\* The rows of the requests.
CreateOrder(row) == [Free EXCEPT !.step = "found", !.op = "create", !.row = row]
UpdateOrder(p, row, c) == [Free EXCEPT !.step = "found", !.op = "update", !.plan = p, !.row = row, !.change = c]
RemoveOrder(p, row) == [Free EXCEPT !.step = "found", !.op = "remove", !.plan = p, !.row = row]
RolesOrder(c, off) == [Free EXCEPT !.step = "found", !.op = "roles", !.change = c, !.off = off]
NumberOrder(op, l, p) == [Free EXCEPT !.step = "found", !.op = op, !.line = l, !.plan = p]

LEMMA CreateRow ==
  ASSUME NEW row \in PlanRow
  PROVE  LET request == CreateOrder(row) IN
         /\ request \in DeskRow /\ request.step = "found" /\ request.op = "create" /\ request.row = row
         /\ request.plan = NoPlan
<1> DEFINE request == [Free EXCEPT !.step = "found", !.op = "create", !.row = row]
<1>1. request \in DeskRow
  BY FreeIsADesk, Zenon DEF DeskRow, CatalogOps
<1>2. request.step = "found" /\ request.op = "create" /\ request.row = row /\ request.plan = Free.plan
  BY FreeIsADesk DEF DeskRow
<1>3. Free.plan = NoPlan
  BY DEF Free
<1> QED
  BY <1>1, <1>2, <1>3 DEF CreateOrder

LEMMA UpdateRow ==
  ASSUME NEW p \in Plans, NEW row \in PlanRow, NEW c \in ChangeRow
  PROVE  LET request == UpdateOrder(p, row, c) IN
         /\ request \in DeskRow /\ request.step = "found" /\ request.op = "update" /\ request.plan = p
         /\ request.row = row /\ request.change = c
<1> DEFINE request == [Free EXCEPT !.step = "found", !.op = "update", !.plan = p, !.row = row, !.change = c]
<1>1. request \in DeskRow
  BY FreeIsADesk, Zenon DEF DeskRow, CatalogOps
<1>2. request.step = "found" /\ request.op = "update" /\ request.plan = p /\ request.row = row /\ request.change = c
  BY FreeIsADesk DEF DeskRow
<1> QED
  BY <1>1, <1>2 DEF UpdateOrder

LEMMA RemoveRow ==
  ASSUME NEW p \in Plans, NEW row \in PlanRow
  PROVE  LET request == RemoveOrder(p, row) IN
         request \in DeskRow /\ request.step = "found" /\ request.op = "remove" /\ request.plan = p /\ request.row = row
<1> DEFINE request == [Free EXCEPT !.step = "found", !.op = "remove", !.plan = p, !.row = row]
<1>1. request \in DeskRow
  BY FreeIsADesk, Zenon DEF DeskRow, CatalogOps
<1>2. request.step = "found" /\ request.op = "remove" /\ request.plan = p /\ request.row = row
  BY FreeIsADesk DEF DeskRow
<1> QED
  BY <1>1, <1>2 DEF RemoveOrder

LEMMA RolesRow ==
  ASSUME NEW c \in ChangeRow, NEW off \in SUBSET OfficeRoles
  PROVE  LET request == RolesOrder(c, off) IN
         request \in DeskRow /\ request.step = "found" /\ request.op = "roles"
<1> DEFINE request == [Free EXCEPT !.step = "found", !.op = "roles", !.change = c, !.off = off]
<1>1. request \in DeskRow
  BY FreeIsADesk, Zenon DEF DeskRow, CatalogOps
<1>2. request.step = "found" /\ request.op = "roles"
  BY FreeIsADesk DEF DeskRow
<1> QED
  BY <1>1, <1>2 DEF RolesOrder

LEMMA NumberOrderRow ==
  ASSUME NEW l \in Lines, NEW p \in Plans \cup {NoPlan}, NEW op \in {"assign", "number"}
  PROVE  LET request == NumberOrder(op, l, p) IN
         request \in DeskRow /\ request.step = "found" /\ request.op = op /\ request.plan = p
<1> DEFINE request == [Free EXCEPT !.step = "found", !.op = op, !.line = l, !.plan = p]
<1>1. op \in CatalogOps
  BY DEF CatalogOps
<1>2. request \in DeskRow
  BY <1>1, FreeIsADesk, Zenon DEF DeskRow
<1>3. request.step = "found" /\ request.op = op /\ request.plan = p
  BY FreeIsADesk DEF DeskRow
<1> QED
  BY <1>2, <1>3 DEF NumberOrder

-----------------------------------------------------------------------------
LEMMA AskCreateStep ==
  ASSUME CatalogInv, NEW d \in Desks, NEW trial \in BOOLEAN, NEW free \in BOOLEAN, NEW s \in Sizes,
         NEW c \in FunctionChanges, AskCreate(d, trial, free, s, c)
  PROVE  CatalogInv'
<1> DEFINE stored == WithChanges(NoRowYet.features, c)
           row == [NoRowYet EXCEPT !.trial = trial, !.free = free, !.messages = s, !.features = stored]
           request == CreateOrder(row)
<1>1. NoRowYet.features \in [Features -> Setting]
  BY NoRowIsARow DEF PlanRow
<1>2. stored \in [Features -> Setting]
  BY <1>1, WithChangesIsTyped
<1>3. [NoRowYet EXCEPT !.trial = trial, !.free = free, !.messages = s, !.features = WithChanges(@, c)] = row
  OBVIOUS
<1>4. Start(d, request) /\ (trial => free)
  BY <1>3 DEF AskCreate, CreateOrder
<1> HIDE DEF stored
<1>5. row \in PlanRow
  BY <1>2, NoRowIsARow, Zenon DEF PlanRow
<1>6. row.trial = trial /\ row.free = free
  BY NoRowIsARow DEF PlanRow
<1> HIDE DEF row
<1>7. /\ request \in DeskRow /\ request.step = "found" /\ request.op = "create" /\ request.row = row
      /\ request.plan = NoPlan
  BY <1>5, CreateRow
<1> HIDE DEF request
<1> QED
  BY <1>4, <1>6, <1>7, AsksWell

LEMMA AskUpdateStep ==
  ASSUME CatalogInv, NEW d \in Desks, NEW p \in Plans, NEW c \in PlanChanges, AskUpdate(d, p, c)
  PROVE  CatalogInv'
<1> DEFINE row == plans[p]
           request == UpdateOrder(p, row, c)
<1>1. row = plans[p]
  OBVIOUS
<1>0. Start(d, request) /\ p \in Catalog /\ (Or(c.trial, plans[p].trial) => Or(c.free, plans[p].free))
  BY DEF AskUpdate, UpdateOrder
<1>2. row \in PlanRow /\ c \in ChangeRow
  BY ChangesAreTyped DEF CatalogInv, CatalogTypes
<1> HIDE DEF row
<1>21. p \in Plans
  OBVIOUS
<1>3. /\ request \in DeskRow /\ request.step = "found" /\ request.op = "update" /\ request.plan = p
      /\ request.row = row /\ request.change = c
  BY <1>2, <1>21, UpdateRow
<1> HIDE DEF request
<1>4. /\ request.op \in {"update", "remove"} => request.plan \in Catalog /\ request.row = plans[request.plan]
      /\ request.op = "update" => (Or(request.change.trial, request.row.trial) => Or(request.change.free, request.row.free))
      /\ request.op = "create" => (request.row.trial => request.row.free) /\ request.plan = NoPlan
      /\ request.op = "assign" => request.plan \in Assignable
      /\ request.op = "number" => request.plan \in Catalog \cup {NoPlan}
  BY <1>0, <1>1, <1>3
<1>5. request \in DeskRow /\ request.step = "found" /\ request.op # "none" /\ request.plan \in Plans
  BY <1>3
<1> QED
  BY <1>0, <1>4, <1>5, AsksWell

LEMMA AskRemoveStep ==
  ASSUME CatalogInv, NEW d \in Desks, NEW p \in Plans, AskRemove(d, p)
  PROVE  CatalogInv'
<1> DEFINE row == plans[p]
           request == RemoveOrder(p, row)
<1>1. row = plans[p]
  OBVIOUS
<1>0. Start(d, request) /\ p \in Catalog
  BY DEF AskRemove, RemoveOrder
<1>2. row \in PlanRow
  BY DEF CatalogInv, CatalogTypes
<1> HIDE DEF row
<1>21. p \in Plans
  OBVIOUS
<1>3. request \in DeskRow /\ request.step = "found" /\ request.op = "remove" /\ request.plan = p /\ request.row = row
  BY <1>2, <1>21, RemoveRow
<1> HIDE DEF request
<1>4. /\ request.op \in {"update", "remove"} => request.plan \in Catalog /\ request.row = plans[request.plan]
      /\ request.op = "update" => (Or(request.change.trial, request.row.trial) => Or(request.change.free, request.row.free))
      /\ request.op = "create" => (request.row.trial => request.row.free) /\ request.plan = NoPlan
      /\ request.op = "assign" => request.plan \in Assignable
      /\ request.op = "number" => request.plan \in Catalog \cup {NoPlan}
  BY <1>0, <1>1, <1>3
<1>5. request \in DeskRow /\ request.step = "found" /\ request.op # "none" /\ request.plan \in Plans
  BY <1>3
<1> QED
  BY <1>0, <1>4, <1>5, AsksWell

LEMMA AskRolesStep ==
  ASSUME CatalogInv, NEW d \in Desks, NEW r \in OfficeRoles, NEW f \in Features, NEW on \in BOOLEAN, AskRoles(d, r, f, on)
  PROVE  CatalogInv'
<1> DEFINE c == [Same EXCEPT !.on = {f}]
           off == {q \in OfficeRoles : IF q = r THEN ~on ELSE f \in roles[q]}
           request == RolesOrder(c, off)
<1>1. Start(d, request)
  BY DEF AskRoles, RolesOrder
<1>2. c \in ChangeRow
  BY ChangesAreTyped DEF FunctionChanges
<1>3. off \in SUBSET OfficeRoles
  OBVIOUS
<1> HIDE DEF c, off
<1>4. request \in DeskRow /\ request.step = "found" /\ request.op = "roles"
  BY <1>2, <1>3, RolesRow
<1> HIDE DEF request
<1> QED
  BY <1>1, <1>4, AsksWell

LEMMA AskPlanStep ==
  ASSUME CatalogInv, NEW d \in Desks, NEW l \in Lines, NEW p \in Plans, AskPlan(d, l, p)
  PROVE  CatalogInv'
<1> DEFINE request == NumberOrder("assign", l, p)
<1>1. Start(d, request) /\ p \in Assignable
  BY DEF AskPlan, NumberOrder
<1>21. l \in Lines /\ p \in Plans \cup {NoPlan} /\ "assign" \in {"assign", "number"}
  OBVIOUS
<1>2. request \in DeskRow /\ request.step = "found" /\ request.op = "assign" /\ request.plan = p
  BY <1>21, NumberOrderRow
<1> HIDE DEF request
<1> QED
  BY <1>1, <1>2, AsksWell

LEMMA AskNumberStep ==
  ASSUME CatalogInv, NEW d \in Desks, NEW l \in Lines, AskNumber(d, l)
  PROVE  CatalogInv'
<1> DEFINE p == InitialPlan
           request == NumberOrder("number", l, p)
<1>1. Start(d, request)
  BY DEF AskNumber, NumberOrder
<1>2. p \in Catalog \cup {NoPlan} /\ p \in Plans \cup {NoPlan}
  BY InitialPlanIs DEF Trials, Catalog
<1> HIDE DEF p
<1>21. l \in Lines /\ "number" \in {"assign", "number"}
  OBVIOUS
<1>3. request \in DeskRow /\ request.step = "found" /\ request.op = "number" /\ request.plan = p
  BY <1>2, <1>21, NumberOrderRow
<1> HIDE DEF request
<1> QED
  BY <1>1, <1>2, <1>3, AsksWell

-----------------------------------------------------------------------------
\* A check that refuses a request ends it.
LEMMA RefusedStep ==
  ASSUME CatalogInv, NEW d \in Desks, desks[d].step # "free", desks' = [desks EXCEPT ![d] = Free],
         UNCHANGED <<plans, lines, onTrial, roles, orders, crossed>>
  PROVE  CatalogInv'
<1>0. CatalogTypes /\ DesksFit /\ RowsAreMade
  BY DEF CatalogInv
<1>1. Catalog' = Catalog /\ Trials' = Trials /\ ActivePaid' = ActivePaid /\ Assignable' = Assignable
  BY DEF Catalog, Trials, ActivePaid, Paid, Assignable
<1>2. /\ plans' \in [Plans -> PlanRow] /\ lines' \in [Lines -> CatalogLine] /\ roles' \in [OfficeRoles -> SUBSET Features]
      /\ \A p \in Plans : plans'[p].live => plans'[p].made
  BY <1>0 DEF CatalogTypes, RowsAreMade
<1>3. ~crossed => /\ ActivePaid' # {} /\ (\A p, q \in Trials' : p = q)
                  /\ \A p \in Catalog' : plans'[p].trial => plans'[p].free
                  /\ \A l \in Lines : lines'[l].plan # NoPlan => lines'[l].plan \in Catalog'
  BY <1>1 DEF CatalogInv, CatalogAlone
<1> QED
  BY <1>2, <1>3, EndsWell

\* One that lets it pass leaves it as it was found.
LEMMA PassedStep ==
  ASSUME CatalogInv, NEW d \in Desks, desks[d].step # "free", desks[d].op \in {"create", "update", "remove"},
         NEW s \in {"alone", "checked"}, desks' = [desks EXCEPT ![d].step = s],
         UNCHANGED <<plans, lines, onTrial, roles, orders, crossed>>,
         ~crossed => (s = "alone" => ~AnotherTrial(d)) /\ (s = "checked" => ~Refused(d))
  PROVE  CatalogInv'
<1>0. CatalogTypes /\ DesksFit /\ RowsAreMade
  BY DEF CatalogInv
<1> DEFINE o == [desks[d] EXCEPT !.step = s]
<1>1. desks' = [desks EXCEPT ![d] = o]
  BY <1>0 DEF CatalogTypes
<1>2. desks[d] \in DeskRow
  BY <1>0 DEF CatalogTypes
<1>3. o \in DeskRow
  BY <1>2, Zenon DEF DeskRow
<1>4. /\ o.step = s /\ o.op = desks[d].op /\ o.plan = desks[d].plan /\ o.line = desks[d].line
      /\ o.row = desks[d].row /\ o.change = desks[d].change
  BY <1>2 DEF DeskRow
<1> HIDE DEF o
<1>5. CatalogTypes'
  BY <1>0, <1>1, <1>3 DEF CatalogTypes
<1>6. desks'[d] = o /\ \A e \in Desks \ {d} : desks'[e] = desks[e]
  BY <1>0, <1>1 DEF CatalogTypes
<1>7. DesksFit'
  BY <1>0, <1>4, <1>6 DEF DesksFit
<1>8. Catalog' = Catalog /\ Trials' = Trials /\ ActivePaid' = ActivePaid /\ Assignable' = Assignable
  BY DEF Catalog, Trials, ActivePaid, Paid, Assignable
<1>9. ASSUME ~crossed'
      PROVE  CatalogAlone'
  <2>1. CatalogAlone
    BY <1>9 DEF CatalogInv
  <2>2. \A e, g \in Desks : desks'[e].step # "free" /\ desks'[g].step # "free" => e = g
    BY <1>4, <1>6, <2>1 DEF CatalogAlone
  <2>3. (s = "alone" => ~AnotherTrial(d)') /\ (s = "checked" => ~Refused(d)')
    <3>1. /\ desks'[d].op = desks[d].op /\ desks'[d].plan = desks[d].plan /\ desks'[d].row = desks[d].row
          /\ desks'[d].change = desks[d].change
      BY <1>4, <1>6
    <3>2. NextActive(d)' = NextActive(d) /\ NextTrial(d)' = NextTrial(d)
      BY <3>1 DEF NextActive, NextTrial
    <3>3. NeedsOnlyTrial(d)' = NeedsOnlyTrial(d) /\ LeavesPaid(d)' = LeavesPaid(d)
      BY <3>1, <3>2 DEF NeedsOnlyTrial, LeavesPaid
    <3>4. AnotherTrial(d)' = AnotherTrial(d) /\ Refused(d)' = Refused(d)
      BY <1>8, <3>1, <3>3 DEF AnotherTrial, Refused
    <3> QED
      BY <1>9, <3>4
  <2>4. ASSUME NEW e \in Desks
        PROVE  OrderFits(e)'
    <3>1. CASE e = d
      <4>1. OrderFits(d)
        BY <2>1 DEF CatalogAlone
      <4>2. plans' = plans /\ desks'[d] = o
        BY <1>6
      <4> QED
        BY <1>8, <1>4, <2>3, <3>1, <4>1, <4>2 DEF OrderFits
    <3>2. CASE e # d
      <4>1. desks[e].step = "free" /\ desks'[e] = desks[e]
        BY <1>6, <2>1, <3>2 DEF CatalogAlone
      <4>2. desks'[e].op = "none" /\ desks'[e].step = "free"
        BY <1>0, <4>1 DEF DesksFit
      <4> QED
        BY <4>2 DEF OrderFits
    <3> QED
      BY <3>1, <3>2
  <2> QED
    BY <1>8, <2>1, <2>2, <2>4 DEF CatalogAlone
<1> QED
  BY <1>0, <1>5, <1>7, <1>9 DEF CatalogInv, RowsAreMade

\* The two checks, one after the other.
LEMMA CheckStep ==
  ASSUME CatalogInv, NEW d \in Desks, AssertNoOtherTrial(d) \/ AssertKeepsAPaidPlan(d)
  PROVE  CatalogInv'
<1>0. DesksFit
  BY DEF CatalogInv
<1>1. UNCHANGED <<plans, lines, onTrial, roles, orders, crossed>>
  BY DEF AssertNoOtherTrial, AssertKeepsAPaidPlan, GoOn
<1>2. desks[d].step # "free" /\ desks[d].op \in {"create", "update", "remove"}
  BY <1>0 DEF AssertNoOtherTrial, AssertKeepsAPaidPlan, DesksFit
<1>3. CASE AssertNoOtherTrial(d)
  <2>1. CASE AnotherTrial(d)
    <3>1. desks' = [desks EXCEPT ![d] = Free]
      BY <1>3, <2>1 DEF AssertNoOtherTrial, GoOn, AnotherTrial
    <3> QED
      BY <1>1, <1>2, <3>1, RefusedStep
  <2>2. CASE ~AnotherTrial(d)
    <3>1. desks' = [desks EXCEPT ![d].step = "alone"]
      BY <1>3, <2>2 DEF AssertNoOtherTrial, GoOn, AnotherTrial
    <3> QED
      BY <1>1, <1>2, <2>2, <3>1, PassedStep
  <2> QED
    BY <2>1, <2>2
<1>4. CASE AssertKeepsAPaidPlan(d)
  <2> DEFINE last == LeavesPaid(d) /\ ActivePaid \ {desks[d].plan} = {}
  <2>1. CASE last
    <3>1. desks' = [desks EXCEPT ![d] = Free]
      BY <1>4, <2>1 DEF AssertKeepsAPaidPlan, GoOn
    <3> QED
      BY <1>1, <1>2, <3>1, RefusedStep
  <2>2. CASE ~last
    <3>1. desks' = [desks EXCEPT ![d].step = "checked"]
      BY <1>4, <2>2 DEF AssertKeepsAPaidPlan, GoOn
    <3>2. ~crossed => ~Refused(d)
      BY <1>4, <2>2 DEF AssertKeepsAPaidPlan, CatalogInv, CatalogAlone, OrderFits, AnotherTrial, Refused
    <3> QED
      BY <1>1, <1>2, <3>1, <3>2, PassedStep
  <2> QED
    BY <2>1, <2>2
<1> QED
  BY <1>3, <1>4

LEMMA CreatePlanStep ==
  ASSUME CatalogInv, NEW d \in Desks, CreatePlan(d)
  PROVE  CatalogInv'
<1>0. CatalogTypes /\ DesksFit /\ RowsAreMade
  BY DEF CatalogInv
<1>1. desks[d].step = "checked" /\ desks[d].op = "create" /\ desks' = [desks EXCEPT ![d] = Free]
  BY DEF CreatePlan
<1>2. UNCHANGED <<lines, onTrial, roles, orders, crossed>>
  BY DEF CreatePlan
<1> DEFINE row == desks[d].row
           new == [row EXCEPT !.made = TRUE, !.live = TRUE, !.active = TRUE]
<1>3. PICK p \in Plans : ~plans[p].made /\ plans' = [plans EXCEPT ![p] = new]
  BY DEF CreatePlan
<1>4. row \in PlanRow
  <2>1. desks[d] \in DeskRow
    BY <1>0 DEF CatalogTypes
  <2> QED
    BY <2>1 DEF DeskRow
<1>5. row = desks[d].row
  OBVIOUS
<1> HIDE DEF row
<1>6. new \in PlanRow
  BY <1>4, Zenon DEF PlanRow
<1>7. new.made /\ new.live /\ new.active /\ new.trial = row.trial /\ new.free = row.free
  BY <1>4 DEF PlanRow
<1> HIDE DEF new
<1>8. \A q \in Plans : plans'[q] = IF q = p THEN new ELSE plans[q]
  BY <1>0, <1>3 DEF CatalogTypes
<1>9. plans' \in [Plans -> PlanRow] /\ \A q \in Plans : plans'[q].live => plans'[q].made
  BY <1>0, <1>3, <1>6, <1>7, <1>8 DEF CatalogTypes, RowsAreMade
<1>10. lines' \in [Lines -> CatalogLine] /\ roles' \in [OfficeRoles -> SUBSET Features]
  BY <1>0, <1>2 DEF CatalogTypes
<1>11. ASSUME ~crossed
       PROVE  /\ ActivePaid' # {} /\ (\A q, r \in Trials' : q = r)
              /\ \A q \in Catalog' : plans'[q].trial => plans'[q].free
              /\ \A l \in Lines : lines'[l].plan # NoPlan => lines'[l].plan \in Catalog'
  <2>1. CatalogAlone /\ OrderFits(d)
    BY <1>11 DEF CatalogInv, CatalogAlone
  <2>2. p \notin Catalog
    BY <1>0, <1>3 DEF RowsAreMade, Catalog
  <2>3. Catalog' = Catalog \cup {p}
    BY <1>7, <1>8, <2>2 DEF Catalog
  <2>4. \A q \in ActivePaid : q \in ActivePaid'
    BY <1>8, <2>2, <2>3 DEF ActivePaid, Paid, Catalog
  <2>5. Trials' = Trials \/ (row.trial /\ Trials' = Trials \cup {p})
    <3>1. Trials \subseteq Trials' /\ Trials' \subseteq Trials \cup {p}
      BY <1>8, <2>2, <2>3 DEF Trials, Catalog
    <3>2. p \in Trials' => row.trial
      BY <1>7, <1>8 DEF Trials
    <3>3. p \notin Trials
      BY <2>2 DEF Trials
    <3> QED
      BY <3>1, <3>2, <3>3
  <2>6. row.trial => Trials = {}
    <3>1. row.trial => NeedsOnlyTrial(d)
      BY <1>1, <1>5 DEF NeedsOnlyTrial
    <3>2. ~Refused(d) /\ desks[d].plan = NoPlan
      BY <1>1, <2>1 DEF OrderFits
    <3>3. NoPlan \notin Trials
      BY CatalogParameters DEF Trials, Catalog
    <3> QED
      BY <3>1, <3>2, <3>3 DEF Refused
  <2>7. \A q, r \in Trials' : q = r
    BY <2>1, <2>5, <2>6 DEF CatalogAlone
  <2>8. row.trial => row.free
    BY <1>1, <1>5, <2>1 DEF OrderFits
  <2>9. ASSUME NEW q \in Catalog', plans'[q].trial
        PROVE  plans'[q].free
    <3>1. CASE q = p
      BY <1>7, <1>8, <2>8, <2>9, <3>1
    <3>2. CASE q # p
      <4>1. q \in Catalog /\ plans'[q] = plans[q]
        BY <1>8, <2>3, <3>2 DEF Catalog
      <4> QED
        BY <2>1, <2>9, <4>1 DEF CatalogAlone
    <3> QED
      BY <3>1, <3>2
  <2> QED
    BY <1>2, <2>1, <2>3, <2>4, <2>7, <2>9 DEF CatalogAlone
<1> QED
  BY <1>1, <1>2, <1>9, <1>10, <1>11, EndsWell

LEMMA UpdatePlanStep ==
  ASSUME CatalogInv, NEW d \in Desks, UpdatePlan(d)
  PROVE  CatalogInv'
<1>0. CatalogTypes /\ DesksFit /\ RowsAreMade
  BY DEF CatalogInv
<1>1. desks[d].step = "checked" /\ desks[d].op = "update" /\ desks' = [desks EXCEPT ![d] = Free]
  BY ZenonT(20) DEF UpdatePlan
<1>2. UNCHANGED <<lines, onTrial, roles, orders, crossed>>
  BY ZenonT(20) DEF UpdatePlan
<1> DEFINE p == desks[d].plan
           row == desks[d].row
           change == desks[d].change
           a == Or(change.active, plans[p].active)
           t == Or(change.trial, plans[p].trial)
           f == Or(change.free, plans[p].free)
           m == Or(change.messages, plans[p].messages)
           x == IF change.on \cup change.off = {} THEN plans[p].features ELSE WithChanges(row.features, change)
           new == [plans[p] EXCEPT !.active = a, !.trial = t, !.free = f, !.messages = m, !.features = x]
<1>3. desks[d] \in DeskRow
  BY <1>0 DEF CatalogTypes
<1>4. p \in Plans
  BY <1>0, <1>1 DEF DesksFit
<1>5. plans[p] \in PlanRow /\ row \in PlanRow /\ change \in ChangeRow
  BY <1>0, <1>3, <1>4 DEF CatalogTypes, DeskRow
<1>6. a \in BOOLEAN /\ t \in BOOLEAN /\ f \in BOOLEAN /\ m \in Sizes /\ x \in [Features -> Setting]
  <2>1. /\ plans[p].active \in BOOLEAN /\ plans[p].trial \in BOOLEAN /\ plans[p].free \in BOOLEAN
        /\ plans[p].messages \in Sizes /\ plans[p].features \in [Features -> Setting] /\ row.features \in [Features -> Setting]
    BY <1>5 DEF PlanRow
  <2>2. /\ change.active \in SUBSET BOOLEAN /\ change.trial \in SUBSET BOOLEAN /\ change.free \in SUBSET BOOLEAN
        /\ change.messages \in SUBSET Sizes
    BY <1>5 DEF ChangeRow
  <2> QED
    BY <2>1, <2>2, OrIsTyped, WithChangesIsTyped
<1>7. plans' = [plans EXCEPT ![p] = new]
  BY <1>0, <1>4, <1>5 DEF UpdatePlan, CatalogTypes, PlanRow
<1>8. row = desks[d].row /\ change = desks[d].change /\ p = desks[d].plan
  OBVIOUS
<1> HIDE DEF p, row, change
<1>9. plans[p] \in PlanRow
  BY <1>5
<1>10. a = Or(change.active, plans[p].active) /\ t = Or(change.trial, plans[p].trial) /\ f = Or(change.free, plans[p].free)
  OBVIOUS
<1> HIDE DEF a, t, f, m, x
<1>11. new \in PlanRow
  BY <1>6, <1>9, Zenon DEF PlanRow
<1>12. new.made = plans[p].made /\ new.live = plans[p].live /\ new.active = a /\ new.trial = t /\ new.free = f
  BY <1>9 DEF PlanRow
<1> HIDE DEF new
<1>13. \A q \in Plans : plans'[q] = IF q = p THEN new ELSE plans[q]
  BY <1>0, <1>4, <1>7 DEF CatalogTypes
<1>14. plans' \in [Plans -> PlanRow] /\ \A q \in Plans : plans'[q].live => plans'[q].made
  BY <1>0, <1>4, <1>7, <1>11, <1>12, <1>13 DEF CatalogTypes, RowsAreMade
<1>15. lines' \in [Lines -> CatalogLine] /\ roles' \in [OfficeRoles -> SUBSET Features]
  BY <1>0, <1>2 DEF CatalogTypes
<1>16. ASSUME ~crossed
       PROVE  /\ ActivePaid' # {} /\ (\A q, r \in Trials' : q = r)
              /\ \A q \in Catalog' : plans'[q].trial => plans'[q].free
              /\ \A l \in Lines : lines'[l].plan # NoPlan => lines'[l].plan \in Catalog'
  <2>1. CatalogAlone /\ OrderFits(d)
    BY <1>16 DEF CatalogInv, CatalogAlone
  <2>2. p \in Catalog /\ row = plans[p] /\ ~Refused(d) /\ (Or(change.trial, row.trial) => Or(change.free, row.free))
    BY <1>1, <1>8, <2>1 DEF OrderFits
  <2>3. NextActive(d) = a /\ NextTrial(d) = t
    BY <1>8, <1>10, <2>2 DEF NextActive, NextTrial
  <2>4. Catalog' = Catalog
    BY <1>12, <1>13, <2>2 DEF Catalog
  <2>5. (t /\ a) => Trials \ {p} = {}
    BY <1>1, <1>8, <2>2, <2>3 DEF Refused, NeedsOnlyTrial
  <2>6. (row.active /\ ~row.trial /\ (~a \/ t)) => ActivePaid \ {p} # {}
    BY <1>1, <1>8, <2>2, <2>3 DEF Refused, LeavesPaid
  <2>7. \A q \in Plans \ {p} : (q \in ActivePaid' <=> q \in ActivePaid) /\ (q \in Trials' <=> q \in Trials)
    BY <1>13, <2>4 DEF ActivePaid, Paid, Trials, Catalog
  <2>8. (p \in ActivePaid' <=> a /\ ~t) /\ (p \in Trials' <=> a /\ t)
    BY <1>4, <1>12, <1>13, <2>2, <2>4 DEF ActivePaid, Paid, Trials
  <2>9. p \in ActivePaid <=> row.active /\ ~row.trial
    BY <2>2 DEF ActivePaid, Paid
  <2>10. ActivePaid' # {}
    <3>1. PICK q \in ActivePaid : TRUE
      BY <2>1 DEF CatalogAlone
    <3>2. CASE a /\ ~t
      BY <2>8, <3>2
    <3>3. CASE ~(a /\ ~t)
      <4>1. ActivePaid \ {p} # {}
        BY <1>6, <2>6, <2>9, <3>1, <3>3
      <4>2. PICK r \in ActivePaid : r # p
        BY <4>1
      <4>3. r \in Plans
        BY <4>2 DEF ActivePaid, Paid, Catalog
      <4> QED
        BY <2>7, <4>2, <4>3
    <3> QED
      BY <3>2, <3>3
  <2>11. \A q, r \in Trials' : q = r
    <3>1. Trials' \subseteq Plans /\ Trials \subseteq Plans
      BY <2>4 DEF Trials, Catalog
    <3>2. \A q, r \in Trials : q = r
      BY <2>1 DEF CatalogAlone
    <3> QED
      BY <2>5, <2>7, <2>8, <3>1, <3>2
  <2>12. ASSUME NEW q \in Catalog', plans'[q].trial
         PROVE  plans'[q].free
    <3>1. q \in Catalog /\ q \in Plans
      BY <2>4 DEF Catalog
    <3>2. CASE q = p
      BY <1>4, <1>10, <1>12, <1>13, <2>2, <2>12, <3>2
    <3>3. CASE q # p
      BY <1>13, <2>1, <2>12, <3>1, <3>3 DEF CatalogAlone
    <3> QED
      BY <3>2, <3>3
  <2> QED
    BY <1>2, <2>1, <2>4, <2>10, <2>11, <2>12 DEF CatalogAlone
<1> QED
  BY <1>1, <1>2, <1>14, <1>15, <1>16, EndsWell

LEMMA RemovePlanStep ==
  ASSUME CatalogInv, NEW d \in Desks, RemovePlan(d)
  PROVE  CatalogInv'
<1>0. CatalogTypes /\ DesksFit /\ RowsAreMade
  BY DEF CatalogInv
<1>1. desks[d].step = "checked" /\ desks[d].op = "remove" /\ desks' = [desks EXCEPT ![d] = Free]
  BY DEF RemovePlan
<1>2. UNCHANGED <<onTrial, roles, orders, crossed>>
  BY DEF RemovePlan
<1> DEFINE p == desks[d].plan
           new == [plans[p] EXCEPT !.live = FALSE, !.active = FALSE]
<1>4. p \in Plans
  BY <1>0, <1>1 DEF DesksFit
<1>5. plans[p] \in PlanRow
  BY <1>0, <1>4 DEF CatalogTypes
<1>7. plans' = [plans EXCEPT ![p] = new]
  BY <1>0, <1>4, <1>5 DEF RemovePlan, CatalogTypes, PlanRow
<1>8. lines' = [l \in Lines |-> IF lines[l].plan = p THEN [lines[l] EXCEPT !.plan = NoPlan] ELSE lines[l]]
  BY DEF RemovePlan
<1>9. p = desks[d].plan
  OBVIOUS
<1> HIDE DEF p
<1>11. new \in PlanRow
  BY <1>5, Zenon DEF PlanRow
<1>12. ~new.live
  BY <1>5 DEF PlanRow
<1> HIDE DEF new
<1>13. \A q \in Plans : plans'[q] = IF q = p THEN new ELSE plans[q]
  BY <1>0, <1>4, <1>7 DEF CatalogTypes
<1>14. plans' \in [Plans -> PlanRow] /\ \A q \in Plans : plans'[q].live => plans'[q].made
  BY <1>0, <1>4, <1>7, <1>11, <1>12, <1>13 DEF CatalogTypes, RowsAreMade
<1>15. ASSUME NEW l \in Lines
       PROVE  /\ lines'[l] \in CatalogLine
              /\ lines'[l].plan = IF lines[l].plan = p THEN NoPlan ELSE lines[l].plan
  <2>1. lines[l] \in CatalogLine
    BY <1>0 DEF CatalogTypes
  <2>2. [lines[l] EXCEPT !.plan = NoPlan] \in CatalogLine /\ [lines[l] EXCEPT !.plan = NoPlan].plan = NoPlan
    BY <2>1 DEF CatalogLine
  <2> QED
    BY <1>8, <2>1, <2>2
<1>16. lines' \in [Lines -> CatalogLine] /\ roles' \in [OfficeRoles -> SUBSET Features]
  BY <1>0, <1>2, <1>8, <1>15 DEF CatalogTypes
<1>17. ASSUME ~crossed
       PROVE  /\ ActivePaid' # {} /\ (\A q, r \in Trials' : q = r)
              /\ \A q \in Catalog' : plans'[q].trial => plans'[q].free
              /\ \A l \in Lines : lines'[l].plan # NoPlan => lines'[l].plan \in Catalog'
  <2>1. CatalogAlone /\ OrderFits(d)
    BY <1>17 DEF CatalogInv, CatalogAlone
  <2>2. p \in Catalog /\ desks[d].row = plans[p] /\ ~Refused(d)
    BY <1>1, <1>9, <2>1 DEF OrderFits
  <2>3. Catalog' = Catalog \ {p}
    BY <1>4, <1>12, <1>13 DEF Catalog
  <2>4. ActivePaid' = ActivePaid \ {p} /\ Trials' = Trials \ {p}
    BY <1>13, <2>3 DEF ActivePaid, Paid, Trials, Catalog
  <2>5. p \in ActivePaid => ActivePaid \ {p} # {}
    BY <1>1, <1>9, <2>2 DEF Refused, LeavesPaid, ActivePaid, Paid
  <2>6. ActivePaid' # {} /\ \A q, r \in Trials' : q = r
    BY <2>1, <2>4, <2>5 DEF CatalogAlone
  <2>7. \A q \in Catalog' : plans'[q].trial => plans'[q].free
    BY <1>13, <2>1, <2>3 DEF CatalogAlone, Catalog
  <2>8. \A l \in Lines : lines'[l].plan # NoPlan => lines'[l].plan \in Catalog'
    BY <1>15, <2>1, <2>3 DEF CatalogAlone
  <2> QED
    BY <2>6, <2>7, <2>8
<1> QED
  BY <1>1, <1>2, <1>14, <1>16, <1>17, EndsWell

LEMMA SetRolesStep ==
  ASSUME CatalogInv, NEW d \in Desks, SetRoles(d)
  PROVE  CatalogInv'
<1>0. CatalogTypes /\ DesksFit /\ RowsAreMade
  BY DEF CatalogInv
<1>1. desks[d].step = "found" /\ desks' = [desks EXCEPT ![d] = Free]
  BY DEF SetRoles
<1>2. UNCHANGED <<plans, lines, onTrial, orders, crossed>>
  BY DEF SetRoles
<1>3. desks[d].change.on \in SUBSET Features
  <2>1. desks[d] \in DeskRow
    BY <1>0 DEF CatalogTypes
  <2> QED
    BY <2>1 DEF DeskRow, ChangeRow
<1>4. roles' \in [OfficeRoles -> SUBSET Features]
  BY <1>0, <1>3 DEF SetRoles, CatalogTypes
<1>5. /\ plans' \in [Plans -> PlanRow] /\ lines' \in [Lines -> CatalogLine]
      /\ \A p \in Plans : plans'[p].live => plans'[p].made
  BY <1>0, <1>2 DEF CatalogTypes, RowsAreMade
<1>6. Catalog' = Catalog /\ Trials' = Trials /\ ActivePaid' = ActivePaid
  BY <1>2 DEF Catalog, Trials, ActivePaid, Paid
<1>7. ~crossed => /\ ActivePaid' # {} /\ (\A p, q \in Trials' : p = q)
                  /\ \A p \in Catalog' : plans'[p].trial => plans'[p].free
                  /\ \A l \in Lines : lines'[l].plan # NoPlan => lines'[l].plan \in Catalog'
  BY <1>2, <1>6 DEF CatalogInv, CatalogAlone
<1> QED
  BY <1>1, <1>2, <1>4, <1>5, <1>7, EndsWell

\* What putting a number on a plan leaves.
LEMMA PutOnPlanIs ==
  ASSUME CatalogTypes, NEW d \in Desks, PutOnPlan(d)
  PROVE  /\ desks[d].line \in Lines /\ lines' \in [Lines -> CatalogLine]
         /\ \A l \in Lines : lines'[l].plan = (IF l = desks[d].line THEN desks[d].plan ELSE lines[l].plan)
         /\ lines'[desks[d].line].kind = (IF desks[d].op = "number" THEN "on" ELSE lines[desks[d].line].kind)
<1> DEFINE l == desks[d].line
           p == desks[d].plan
           k == IF desks[d].op = "number" THEN "on" ELSE lines[l].kind
           new == [lines[l] EXCEPT !.plan = p, !.kind = k]
<1>1. desks[d] \in DeskRow
  BY DEF CatalogTypes
<1>2. l \in Lines /\ p \in Plans \cup {NoPlan}
  BY <1>1 DEF DeskRow
<1>3. lines[l] \in CatalogLine
  BY <1>2 DEF CatalogTypes
<1>4. k \in {"none", "on", "off"}
  BY <1>3 DEF CatalogLine
<1>5. lines' = [lines EXCEPT ![l] = new]
  BY <1>2, <1>3 DEF PutOnPlan, CatalogTypes, CatalogLine
<1> HIDE DEF k
<1>6. new \in CatalogLine /\ new.plan = p /\ new.kind = k
  BY <1>2, <1>3, <1>4 DEF CatalogLine
<1> HIDE DEF new
<1>7. lines' \in [Lines -> CatalogLine] /\ \A e \in Lines : lines'[e] = IF e = l THEN new ELSE lines[e]
  BY <1>2, <1>5, <1>6 DEF CatalogTypes
<1> QED
  BY <1>2, <1>6, <1>7 DEF k

LEMMA PutOnPlanStep ==
  ASSUME CatalogInv, NEW d \in Desks, PutOnPlan(d)
  PROVE  CatalogInv'
<1>0. CatalogTypes /\ DesksFit /\ RowsAreMade
  BY DEF CatalogInv
<1>1. desks[d].step = "found" /\ desks[d].op \in {"assign", "number"} /\ desks' = [desks EXCEPT ![d] = Free]
  BY DEF PutOnPlan
<1>2. UNCHANGED <<plans, onTrial, roles, orders, crossed>>
  BY DEF PutOnPlan
<1>3. /\ lines' \in [Lines -> CatalogLine]
      /\ \A l \in Lines : lines'[l].plan = (IF l = desks[d].line THEN desks[d].plan ELSE lines[l].plan)
  BY <1>0, PutOnPlanIs
<1>4. /\ plans' \in [Plans -> PlanRow] /\ roles' \in [OfficeRoles -> SUBSET Features]
      /\ \A p \in Plans : plans'[p].live => plans'[p].made
  BY <1>0, <1>2 DEF CatalogTypes, RowsAreMade
<1>5. Catalog' = Catalog /\ Trials' = Trials /\ ActivePaid' = ActivePaid
  BY <1>2 DEF Catalog, Trials, ActivePaid, Paid
<1>6. ASSUME ~crossed
      PROVE  /\ ActivePaid' # {} /\ (\A p, q \in Trials' : p = q)
             /\ \A p \in Catalog' : plans'[p].trial => plans'[p].free
             /\ \A l \in Lines : lines'[l].plan # NoPlan => lines'[l].plan \in Catalog'
  <2>1. CatalogAlone
    BY <1>6 DEF CatalogInv
  <2>2. desks[d].plan \in Catalog \cup {NoPlan}
    BY <1>1, <2>1 DEF CatalogAlone, OrderFits, Assignable
  <2> QED
    BY <1>2, <1>3, <1>5, <2>1, <2>2 DEF CatalogAlone
<1> QED
  BY <1>1, <1>2, <1>3, <1>4, <1>6, EndsWell

\* Steps of a number that touch no plan.
LEMMA LineStep ==
  ASSUME CatalogInv, NEW l \in Lines, SwitchLine(l) \/ FirstMonthEnds(l)
  PROVE  CatalogInv'
<1>0. CatalogTypes /\ DesksFit /\ RowsAreMade
  BY DEF CatalogInv
<1>1. UNCHANGED <<plans, onTrial, roles, desks, orders, crossed>>
  BY DEF SwitchLine, FirstMonthEnds
<1>2. lines[l] \in CatalogLine
  BY <1>0 DEF CatalogTypes
<1>3. PICK k \in {"none", "on", "off"}, b \in BOOLEAN : lines' = [lines EXCEPT ![l] = [lines[l] EXCEPT !.kind = k, !.first = b]]
  <2>1. lines[l].kind \in {"none", "on", "off"} /\ lines[l].first \in BOOLEAN
    BY <1>2 DEF CatalogLine
  <2>2. CASE SwitchLine(l)
    <3> DEFINE k == IF lines[l].kind = "on" THEN "off" ELSE "on"
    <3>1. lines' = [lines EXCEPT ![l] = [lines[l] EXCEPT !.kind = k, !.first = lines[l].first]]
      BY <1>0, <1>2, <2>2 DEF SwitchLine, CatalogTypes, CatalogLine
    <3>2. k \in {"none", "on", "off"}
      OBVIOUS
    <3> HIDE DEF k
    <3> QED
      BY <2>1, <3>1, <3>2
  <2>3. CASE FirstMonthEnds(l)
    <3>1. lines' = [lines EXCEPT ![l] = [lines[l] EXCEPT !.kind = lines[l].kind, !.first = FALSE]]
      BY <1>0, <1>2, <2>3 DEF FirstMonthEnds, CatalogTypes, CatalogLine
    <3> QED
      BY <2>1, <3>1
  <2> QED
    BY <2>2, <2>3
<1> DEFINE new == [lines[l] EXCEPT !.kind = k, !.first = b]
<1>4. new \in CatalogLine /\ new.plan = lines[l].plan
  BY <1>2 DEF CatalogLine
<1>5. lines' = [lines EXCEPT ![l] = new]
  BY <1>3
<1> HIDE DEF new
<1>6. lines' \in [Lines -> CatalogLine] /\ \A e \in Lines : lines'[e].plan = lines[e].plan
  BY <1>0, <1>4, <1>5 DEF CatalogTypes
<1>7. CatalogTypes'
  BY <1>0, <1>1, <1>6 DEF CatalogTypes
<1>8. DesksFit' /\ RowsAreMade'
  BY <1>0, <1>1 DEF DesksFit, RowsAreMade
<1>9. ASSUME ~crossed'
      PROVE  CatalogAlone'
  <2>1. CatalogAlone
    BY <1>1, <1>9 DEF CatalogInv
  <2>2. Catalog' = Catalog /\ Trials' = Trials /\ ActivePaid' = ActivePaid /\ Assignable' = Assignable
    BY <1>1 DEF Catalog, Trials, ActivePaid, Paid, Assignable
  <2>3. ASSUME NEW d \in Desks
        PROVE  OrderFits(d)'
    <3>1. Refused(d)' = Refused(d) /\ AnotherTrial(d)' = AnotherTrial(d)
      BY <1>1, <2>2 DEF Refused, AnotherTrial, NeedsOnlyTrial, LeavesPaid, NextActive, NextTrial
    <3> QED
      BY <1>1, <2>1, <2>2, <3>1 DEF OrderFits, CatalogAlone
  <2> QED
    BY <1>1, <1>6, <2>1, <2>2, <2>3 DEF CatalogAlone
<1> QED
  BY <1>7, <1>8, <1>9 DEF CatalogInv

LEMMA CatalogInvStep == CatalogInv /\ [CatalogNext]_catalogVars => CatalogInv'
<1> SUFFICES ASSUME CatalogInv, [CatalogNext]_catalogVars PROVE CatalogInv'
  OBVIOUS
<1>1. CASE UNCHANGED catalogVars
  <2>1. UNCHANGED <<plans, lines, onTrial, roles, desks, orders, crossed>>
    BY <1>1 DEF catalogVars
  <2>2. CatalogTypes' /\ DesksFit' /\ RowsAreMade'
    BY <2>1 DEF CatalogInv, CatalogTypes, DesksFit, RowsAreMade
  <2>3. CatalogAlone' = CatalogAlone
    <3>1. Catalog' = Catalog /\ Trials' = Trials /\ ActivePaid' = ActivePaid /\ Assignable' = Assignable
      BY <2>1 DEF Catalog, Trials, ActivePaid, Paid, Assignable
    <3>2. ASSUME NEW d \in Desks
          PROVE  OrderFits(d)' = OrderFits(d)
      <4>1. Refused(d)' = Refused(d) /\ AnotherTrial(d)' = AnotherTrial(d)
        BY <2>1, <3>1 DEF Refused, AnotherTrial, NeedsOnlyTrial, LeavesPaid, NextActive, NextTrial
      <4> QED
        BY <2>1, <3>1, <4>1 DEF OrderFits
    <3> QED
      BY <2>1, <3>1, <3>2 DEF CatalogAlone
  <2> QED
    BY <2>1, <2>2, <2>3 DEF CatalogInv
<1>2. ASSUME NEW d \in Desks, NEW trial \in BOOLEAN, NEW free \in BOOLEAN, NEW s \in Sizes, NEW c \in FunctionChanges,
             AskCreate(d, trial, free, s, c)
      PROVE  CatalogInv'
  BY <1>2, AskCreateStep
<1>3. ASSUME NEW d \in Desks, NEW p \in Plans, AskRemove(d, p)
      PROVE  CatalogInv'
  BY <1>3, AskRemoveStep
<1>4. ASSUME NEW d \in Desks, NEW p \in Plans, NEW c \in PlanChanges, AskUpdate(d, p, c)
      PROVE  CatalogInv'
  BY <1>4, AskUpdateStep
<1>5. ASSUME NEW d \in Desks, NEW p \in Plans, NEW l \in Lines, AskPlan(d, l, p)
      PROVE  CatalogInv'
  BY <1>5, AskPlanStep
<1>6. ASSUME NEW d \in Desks, NEW r \in OfficeRoles, NEW f \in Features, NEW on \in BOOLEAN, AskRoles(d, r, f, on)
      PROVE  CatalogInv'
  BY <1>6, AskRolesStep
<1>7. ASSUME NEW d \in Desks, NEW l \in Lines, AskNumber(d, l)
      PROVE  CatalogInv'
  BY <1>7, AskNumberStep
<1>8. ASSUME NEW d \in Desks, AssertNoOtherTrial(d) \/ AssertKeepsAPaidPlan(d) \/ CreatePlan(d) \/ UpdatePlan(d) \/ RemovePlan(d) \/ SetRoles(d) \/ PutOnPlan(d)
      PROVE  CatalogInv'
  BY <1>8, CheckStep, CreatePlanStep, UpdatePlanStep, RemovePlanStep, SetRolesStep, PutOnPlanStep
<1>9. ASSUME NEW l \in Lines, SwitchLine(l) \/ FirstMonthEnds(l)
      PROVE  CatalogInv'
  BY <1>9, LineStep
<1> QED
  BY <1>1, <1>2, <1>3, <1>4, <1>5, <1>6, <1>7, <1>8, <1>9 DEF CatalogNext

\* Only the write of a plan ends a request for one.
LEMMA AssignEnds ==
  ASSUME CatalogInv, [CatalogNext]_catalogVars, NEW d \in Desks, desks[d].op = "assign", desks'[d].op = "none"
  PROVE  PutOnPlan(d)
<1>0. CatalogTypes /\ DesksFit
  BY DEF CatalogInv
<1>1. desks[d].step # "free"
  BY <1>0 DEF DesksFit
<1>2. ASSUME NEW e \in Desks, NEW request, Start(e, request)
      PROVE  FALSE
  <2>1. e # d /\ desks' = [desks EXCEPT ![e] = request]
    BY <1>1, <1>2 DEF Start
  <2> QED
    BY <1>0, <2>1 DEF CatalogTypes
<1>3. ASSUME NEW e \in Desks, \/ AssertNoOtherTrial(e) \/ AssertKeepsAPaidPlan(e) \/ CreatePlan(e) \/ UpdatePlan(e)
                               \/ RemovePlan(e) \/ SetRoles(e) \/ PutOnPlan(e)
      PROVE  PutOnPlan(d)
  <2>1. \E request : desks' = [desks EXCEPT ![e] = request]
    BY <1>3, ZenonT(20) DEF AssertNoOtherTrial, AssertKeepsAPaidPlan, GoOn, CreatePlan, UpdatePlan, RemovePlan, SetRoles, PutOnPlan
  <2>2. e = d
    BY <1>0, <2>1 DEF CatalogTypes
  <2>3. ~AssertNoOtherTrial(d) /\ ~CreatePlan(d) /\ ~UpdatePlan(d) /\ ~RemovePlan(d) /\ ~SetRoles(d)
    BY DEF AssertNoOtherTrial, CreatePlan, UpdatePlan, RemovePlan, SetRoles
  <2>4. ~AssertKeepsAPaidPlan(d)
    BY <1>0 DEF AssertKeepsAPaidPlan, DesksFit
  <2> QED
    BY <1>3, <2>2, <2>3, <2>4, Zenon
<1>4. ASSUME NEW e \in Desks, NEW trial \in BOOLEAN, NEW free \in BOOLEAN, NEW s \in Sizes, NEW c \in FunctionChanges
      PROVE  ~AskCreate(e, trial, free, s, c)
  BY <1>2 DEF AskCreate
<1>5. ASSUME NEW e \in Desks, NEW p \in Plans
      PROVE  ~AskRemove(e, p)
  BY <1>2 DEF AskRemove
<1>6. ASSUME NEW e \in Desks, NEW p \in Plans, NEW c \in PlanChanges
      PROVE  ~AskUpdate(e, p, c)
  BY <1>2 DEF AskUpdate
<1>7. ASSUME NEW e \in Desks, NEW p \in Plans, NEW l \in Lines
      PROVE  ~AskPlan(e, l, p)
  BY <1>2 DEF AskPlan
<1>8. ASSUME NEW e \in Desks, NEW r \in OfficeRoles, NEW f \in Features, NEW on \in BOOLEAN
      PROVE  ~AskRoles(e, r, f, on)
  BY <1>2 DEF AskRoles
<1>9. ASSUME NEW e \in Desks, NEW l \in Lines
      PROVE  ~AskNumber(e, l)
  BY <1>2 DEF AskNumber
<1>10. ~UNCHANGED desks
  OBVIOUS
<1>11. \A l \in Lines : ~SwitchLine(l) /\ ~FirstMonthEnds(l)
  BY <1>10 DEF SwitchLine, FirstMonthEnds
<1>12. ~UNCHANGED catalogVars
  BY <1>10 DEF catalogVars
<1> QED
  BY <1>3, <1>4, <1>5, <1>6, <1>7, <1>8, <1>9, <1>11, <1>12 DEF CatalogNext

LEMMA UnlockStep == CatalogInv /\ [CatalogNext]_catalogVars => UpgradeUnlocks
<1> SUFFICES ASSUME CatalogInv, [CatalogNext]_catalogVars, NEW d \in Desks,
                    desks[d].op = "assign", desks'[d].op = "none", ~crossed', lines[desks[d].line].kind = "on",
                    NEW f \in FeaturesOfPlan(desks[d].plan)
             PROVE  /\ desks[d].line \in KeepWith(f)'
                    /\ \A r \in OfficeRoles : f \in (FeaturesFor(r) \cup BlockedByRole(r))'
  BY DEF UpgradeUnlocks
<1>0. CatalogTypes
  BY DEF CatalogInv
<1>20. PICK l : l = desks[d].line
  OBVIOUS
<1>21. PICK p : p = desks[d].plan
  OBVIOUS
<1>1. PutOnPlan(d)
  BY AssignEnds
<1>2. UNCHANGED <<plans, onTrial, roles, orders, crossed>>
  BY <1>1 DEF PutOnPlan
<1>3. l \in Lines /\ lines'[l].plan = p /\ lines'[l].kind = "on"
  BY <1>0, <1>1, <1>20, <1>21, PutOnPlanIs
<1>4. p \in Catalog /\ ~plans[p].trial
  BY <1>2, <1>21 DEF CatalogInv, CatalogAlone, OrderFits, Assignable
<1>5. l \in ActiveLines'
  BY <1>3 DEF ActiveLines
<1>6. AssignedPlan(lines[l].plan, lines[l].first)' = p
  BY <1>2, <1>3, <1>4 DEF AssignedPlan, Catalog
<1>7. PlanOf(l)' = p
  BY <1>6 DEF PlanOf
<1>8. f \in FeaturesOfPlan(PlanOf(l))'
  <2>1. FeaturesOfPlan(p)' = FeaturesOfPlan(p)
    BY <1>2 DEF FeaturesOfPlan
  <2> QED
    BY <1>7, <1>21, <2>1 DEF FeaturesOfPlan
<1>9. l \in KeepWith(f)'
  BY <1>5, <1>8 DEF KeepWith
<1>10. f \in OfficeFeatures'
  BY <1>5, <1>8 DEF OfficeFeatures
<1>11. \A r \in OfficeRoles : f \in (FeaturesFor(r) \cup BlockedByRole(r))'
  BY <1>10 DEF FeaturesFor, BlockedByRole
<1> QED
  BY <1>9, <1>11, <1>20

-----------------------------------------------------------------------------
(* The coverages ("coverages")                                               *)

SentRow == [benefits : SUBSET {"own", "empty"}, exclusions : SUBSET {"own"}, active : SUBSET BOOLEAN,
            star : SUBSET BOOLEAN, years : SUBSET (SUBSET VehicleYears)]

QuoteRow == [step : {"free", "asked", "read"}, left : SUBSET CoverCodes, known : SUBSET CoverCodes]

EditorRow == [step : {"free", "found"}, code : CoverCodes, first : BOOLEAN, sent : SentRow]

CoverTypes ==
  /\ settings \in [CoverCodes -> SettingRow] /\ ownView \in [CoverCodes -> Choice]
  /\ quotes \in [Quotes -> QuoteRow] /\ editors \in [Editors -> EditorRow]
  /\ saves \in 0..MaxSaves /\ quoted \in 0..MaxQuotes /\ met \subseteq CoverCodes

\* A guess is never what somebody saved, and a row nobody made has nothing but
\* what a new one would have.
RowFits(c) ==
  /\ settings[c].configured => settings[c].status = "live" /\ settings[c].benefits # "old"
  /\ settings[c].status = "none" => settings[c] = NeverSeen(c)

\* Who saves found the row; nobody else does, unless they met.
EditorFits(e) ==
  LET c == editors[e].code IN
  editors[e].step = "found" =>
    /\ settings[c].status = "live" /\ (~editors[e].first => settings[c].configured)
    /\ c \notin met => /\ editors[e].first = ~settings[c].configured
                       /\ \A o \in Editors : editors[o].step = "found" /\ editors[o].code = c => o = e

CoverInv == CoverTypes /\ (\A c \in CoverCodes : RowFits(c)) /\ (\A e \in Editors : EditorFits(e))

-----------------------------------------------------------------------------
LEMMA CoverInvSays == CoverInv => CoverageTypeOK /\ NothingIsGuessed
<1> SUFFICES ASSUME CoverInv PROVE CoverageTypeOK /\ NothingIsGuessed
  OBVIOUS
<1>1. CoverTypes
  BY DEF CoverInv
<1>2. CoverageTypeOK
  <2>1. ASSUME NEW q \in Quotes
        PROVE  quotes[q].step \in {"free", "asked", "read"} /\ quotes[q].left \subseteq CoverCodes /\ quotes[q].known \subseteq CoverCodes
    <3>1. quotes[q] \in QuoteRow
      BY <1>1 DEF CoverTypes
    <3> QED
      BY <3>1 DEF QuoteRow
  <2>2. ASSUME NEW e \in Editors
        PROVE  editors[e].step \in {"free", "found"} /\ editors[e].code \in CoverCodes /\ editors[e].first \in BOOLEAN
    <3>1. editors[e] \in EditorRow
      BY <1>1 DEF CoverTypes
    <3> QED
      BY <3>1 DEF EditorRow
  <2> QED
    BY <1>1, <2>1, <2>2 DEF CoverTypes, CoverageTypeOK
<1>3. ASSUME NEW y \in VehicleYears, NEW c \in OfferedIn(y, ownView)
      PROVE  ReadsAs(c).benefits \in {"manual", "own"}
  <2>1. c \in CoverCodes
    BY <1>3 DEF OfferedIn
  <2>2. settings[c] \in SettingRow /\ RowFits(c)
    BY <1>1, <2>1 DEF CoverInv, CoverTypes
  <2>3. settings[c].benefits \in Benefits
    BY <2>2 DEF SettingRow
  <2>4. CASE settings[c].status = "live"
    <3>1. WordingOf(c).benefits # "empty" /\ ReadsAs(c) = WordingOf(c)
      BY <1>3, <2>4 DEF OfferedIn, ReadsAs
    <3> QED
      BY <2>2, <2>3, <3>1 DEF WordingOf, DefaultBenefits, RowFits, Benefits
  <2>5. CASE settings[c].status # "live"
    <3>1. DefaultBenefits(c) # "empty"
      BY <1>3, <2>5 DEF OfferedIn
    <3> QED
      BY <2>5, <3>1 DEF ReadsAs, DefaultBenefits
  <2> QED
    BY <2>4, <2>5
<1> QED
  BY <1>2, <1>3 DEF NothingIsGuessed

LEMMA FoundIsARow ==
  ASSUME NEW c \in CoverCodes
  PROVE  /\ Found(c) \in SettingRow /\ NeverSeen(c) \in SettingRow
         /\ FoundLongAgo(c) \in SettingRow /\ SavedLongAgo(c) \in SettingRow
         /\ ~Found(c).configured /\ Found(c).status = "live"
         /\ ~NeverSeen(c).configured /\ NeverSeen(c).status = "none"
         /\ ~FoundLongAgo(c).configured /\ FoundLongAgo(c).status = "live"
         /\ SavedLongAgo(c).configured /\ SavedLongAgo(c).status = "live" /\ SavedLongAgo(c).benefits = "own"
<1>1. DefaultBenefits(c) \in Benefits
  BY DEF DefaultBenefits, Benefits
<1> DEFINE shown == c \in Everyday
<1>2. shown \in BOOLEAN
  OBVIOUS
<1>3. Found(c) = [status |-> "live", configured |-> FALSE, benefits |-> DefaultBenefits(c), exclusions |-> "manual",
                  active |-> shown, star |-> FALSE, years |-> VehicleYears]
  BY DEF Found
<1> HIDE DEF shown
<1>4. Found(c) \in SettingRow /\ ~Found(c).configured /\ Found(c).status = "live"
  BY <1>1, <1>2, <1>3 DEF SettingRow, Exclusions
<1>5. NeverSeen(c) \in SettingRow /\ ~NeverSeen(c).configured /\ NeverSeen(c).status = "none"
  BY <1>4 DEF NeverSeen, SettingRow
<1>6. FoundLongAgo(c) \in SettingRow /\ ~FoundLongAgo(c).configured /\ FoundLongAgo(c).status = "live"
  <2>1. FoundLongAgo(c) \in SettingRow
    BY <1>4, Zenon DEF FoundLongAgo, SettingRow, Benefits, Exclusions
  <2> QED
    BY <1>4, <2>1 DEF FoundLongAgo, SettingRow
<1>7. /\ SavedLongAgo(c) \in SettingRow /\ SavedLongAgo(c).configured /\ SavedLongAgo(c).status = "live"
      /\ SavedLongAgo(c).benefits = "own"
  <2>1. SavedLongAgo(c) \in SettingRow
    BY <1>4, Zenon DEF SavedLongAgo, SettingRow, Benefits, Exclusions
  <2> QED
    BY <1>4, <2>1 DEF SavedLongAgo, SettingRow
<1> QED
  BY <1>4, <1>5, <1>6, <1>7

LEMMA RestIsTyped == NoQuote \in QuoteRow /\ Untouched \in SentRow /\ NoEditor \in EditorRow /\ NoEditor.step = "free"
<1>1. NoQuote \in QuoteRow
  BY DEF NoQuote, QuoteRow
<1>2. Untouched \in SentRow
  BY DEF Untouched, SentRow
<1>3. (CHOOSE c \in CoverCodes : TRUE) \in CoverCodes
  BY CoverageParameters
<1> QED
  BY <1>1, <1>2, <1>3 DEF NoEditor, EditorRow

LEMMA CoverInvInit == CoverageInit => CoverInv
<1> SUFFICES ASSUME CoverageInit PROVE CoverInv
  OBVIOUS
<1>1. PICK past \in [CoverCodes -> {"unseen", "found", "saved"}] :
        settings = [c \in CoverCodes |-> CASE past[c] = "unseen" -> NeverSeen(c)
                                           [] past[c] = "found" -> FoundLongAgo(c)
                                           [] past[c] = "saved" -> SavedLongAgo(c)]
  BY DEF CoverageInit
<1>2. ASSUME NEW c \in CoverCodes
      PROVE  settings[c] \in {NeverSeen(c), FoundLongAgo(c), SavedLongAgo(c)}
  <2>1. past[c] \in {"unseen", "found", "saved"}
    OBVIOUS
  <2> QED
    BY <1>1, <2>1
<1>3. \A c \in CoverCodes : settings[c] \in SettingRow /\ RowFits(c)
  BY <1>2, FoundIsARow DEF RowFits
<1>4. settings \in [CoverCodes -> SettingRow]
  BY <1>1, <1>3
<1>5. editors = [e \in Editors |-> NoEditor]
  BY DEF CoverageInit
<1>6. CoverTypes
  <2>1. ownView \in [CoverCodes -> Choice]
    BY DEF CoverageInit, Choice
  <2>2. quotes \in [Quotes -> QuoteRow] /\ editors \in [Editors -> EditorRow]
    BY <1>5, RestIsTyped DEF CoverageInit
  <2>3. saves \in 0..MaxSaves /\ quoted \in 0..MaxQuotes /\ met \subseteq CoverCodes
    BY CoverageParameters DEF CoverageInit
  <2> QED
    BY <1>4, <2>1, <2>2, <2>3 DEF CoverTypes
<1>7. \A e \in Editors : EditorFits(e)
  BY <1>5, RestIsTyped DEF EditorFits
<1> QED
  BY <1>3, <1>6, <1>7 DEF CoverInv

-----------------------------------------------------------------------------
\* Steps of a quote that write no row.
LEMMA QuoteStep ==
  ASSUME CoverInv, NEW q \in Quotes, AskQuote(q) \/ ReadKnown(q) \/ RegisterFails(q)
  PROVE  CoverInv' /\ UNCHANGED settings
<1>0. CoverTypes
  BY DEF CoverInv
<1>1. UNCHANGED <<settings, ownView, editors, saves, met>>
  BY DEF AskQuote, ReadKnown, RegisterFails
<1>2. quoted' \in 0..MaxQuotes
  <2>1. quoted \in Nat /\ quoted <= MaxQuotes /\ MaxQuotes \in Nat
    BY <1>0, CoverageParameters DEF CoverTypes
  <2>2. quoted' = quoted \/ (quoted < MaxQuotes /\ quoted' = quoted + 1)
    BY DEF AskQuote, ReadKnown, RegisterFails
  <2> QED
    BY <2>1, <2>2
<1>3. \E row \in QuoteRow : quotes' = [quotes EXCEPT ![q] = row]
  <2>1. CASE AskQuote(q)
    <3>1. [NoQuote EXCEPT !.step = "asked"] \in QuoteRow
      BY DEF NoQuote, QuoteRow
    <3> QED
      BY <2>1, <3>1 DEF AskQuote
  <2>2. CASE ReadKnown(q)
    <3>1. PICK S \in SUBSET CoverCodes :
            quotes' = [quotes EXCEPT ![q].step = "read", ![q].left = S, ![q].known = {c \in S : settings[c].status # "none"}]
      BY <2>2 DEF ReadKnown
    <3> DEFINE known == {c \in S : settings[c].status # "none"}
               row == [quotes[q] EXCEPT !.step = "read", !.left = S, !.known = known]
    <3>2. known \in SUBSET CoverCodes
      OBVIOUS
    <3>3. quotes[q] \in QuoteRow
      BY <1>0 DEF CoverTypes
    <3>4. quotes' = [quotes EXCEPT ![q].step = "read", ![q].left = S, ![q].known = known]
      BY <3>1
    <3> HIDE DEF known
    <3>5. quotes' = [quotes EXCEPT ![q] = row]
      BY <1>0, <3>3, <3>4 DEF CoverTypes, QuoteRow
    <3>6. row \in QuoteRow
      BY <3>2, <3>3, Zenon DEF QuoteRow
    <3> QED
      BY <3>5, <3>6
  <2>3. CASE RegisterFails(q)
    BY <2>3, RestIsTyped DEF RegisterFails
  <2> QED
    BY <2>1, <2>2, <2>3
<1>4. CoverTypes'
  BY <1>0, <1>1, <1>2, <1>3 DEF CoverTypes
<1> QED
  BY <1>1, <1>4 DEF CoverInv, RowFits, EditorFits

\* What registering a code writes: a row made today, or nothing.
LEMMA RegisterIs ==
  ASSUME CoverInv, NEW q \in Quotes, RegisterCode(q)
  PROVE  \/ settings' = settings
         \/ \E c \in CoverCodes : settings[c] = NeverSeen(c) /\ settings' = [settings EXCEPT ![c] = Found(c)]
<1>1. PICK c \in quotes[q].left : settings' = IF c \in quotes[q].known THEN settings ELSE [settings EXCEPT ![c] = Made(c)]
  BY DEF RegisterCode
<1>2. c \in CoverCodes
  <2>1. quotes[q] \in QuoteRow
    BY DEF CoverInv, CoverTypes
  <2> QED
    BY <2>1 DEF QuoteRow
<1>3. settings \in [CoverCodes -> SettingRow] /\ RowFits(c)
  BY <1>2 DEF CoverInv, CoverTypes
<1>4. CASE settings[c].status = "none"
  BY <1>1, <1>2, <1>3, <1>4 DEF RowFits, Made
<1>5. CASE settings[c].status # "none"
  BY <1>1, <1>2, <1>3, <1>5 DEF Made
<1> QED
  BY <1>4, <1>5

LEMMA RegisterStep ==
  ASSUME CoverInv, NEW q \in Quotes, RegisterCode(q)
  PROVE  CoverInv'
<1>0. CoverTypes
  BY DEF CoverInv
<1>1. UNCHANGED <<ownView, editors, saves, quoted, met>>
  BY DEF RegisterCode
<1>2. quotes' \in [Quotes -> QuoteRow]
  <2> DEFINE left == quotes[q].left
  <2>1. PICK c \in left :
          quotes' = [quotes EXCEPT ![q] = IF @.left = {c} THEN NoQuote ELSE [quotes[q] EXCEPT !.left = @ \ {c}]]
    BY DEF RegisterCode
  <2>2. quotes[q] \in QuoteRow
    BY <1>0 DEF CoverTypes
  <2>3. CASE left = {c}
    <3>1. quotes' = [quotes EXCEPT ![q] = NoQuote]
      BY <2>1, <2>3
    <3> QED
      BY <1>0, <3>1, RestIsTyped DEF CoverTypes
  <2>4. CASE left # {c}
    <3> DEFINE rest == left \ {c}
               row == [quotes[q] EXCEPT !.left = rest]
    <3>1. rest \in SUBSET CoverCodes
      BY <2>2 DEF QuoteRow
    <3>2. quotes' = [quotes EXCEPT ![q] = row]
      BY <1>0, <2>1, <2>2, <2>4 DEF CoverTypes, QuoteRow
    <3> HIDE DEF rest
    <3>3. row \in QuoteRow
      BY <2>2, <3>1, Zenon DEF QuoteRow
    <3> HIDE DEF row
    <3> QED
      BY <1>0, <3>2, <3>3 DEF CoverTypes
  <2> QED
    BY <2>3, <2>4
<1>3. CASE settings' = settings
  <2>1. CoverTypes'
    BY <1>0, <1>1, <1>2, <1>3 DEF CoverTypes
  <2> QED
    BY <1>1, <1>3, <2>1 DEF CoverInv, RowFits, EditorFits
<1>4. ASSUME NEW c \in CoverCodes, settings[c] = NeverSeen(c), settings' = [settings EXCEPT ![c] = Found(c)]
      PROVE  CoverInv'
  <2>1. settings'[c] = Found(c) /\ \A d \in CoverCodes \ {c} : settings'[d] = settings[d]
    BY <1>0, <1>4 DEF CoverTypes
  <2>2. CoverTypes'
    BY <1>0, <1>1, <1>2, <1>4, FoundIsARow DEF CoverTypes
  <2>3. \A d \in CoverCodes : RowFits(d)'
    BY <2>1, FoundIsARow DEF CoverInv, RowFits
  <2>4. ASSUME NEW e \in Editors
        PROVE  EditorFits(e)'
    <3>1. editors[e] \in EditorRow /\ EditorFits(e)
      BY <1>0 DEF CoverInv, CoverTypes
    <3>2. CASE editors[e].step = "found"
      <4>1. editors[e].code \in CoverCodes /\ settings[editors[e].code].status = "live"
        BY <3>1, <3>2 DEF EditorRow, EditorFits
      <4>2. editors[e].code # c
        BY <1>4, <4>1, FoundIsARow
      <4>3. settings'[editors[e].code] = settings[editors[e].code]
        BY <2>1, <4>1, <4>2
      <4> QED
        BY <1>1, <3>1, <3>2, <4>3 DEF EditorFits
    <3>3. CASE editors[e].step # "found"
      BY <1>1, <3>3 DEF EditorFits
    <3> QED
      BY <3>2, <3>3
  <2> QED
    BY <2>2, <2>3, <2>4 DEF CoverInv
<1> QED
  BY <1>3, <1>4, RegisterIs

LEMMA QuietStep ==
  ASSUME CoverInv, NEW c \in CoverCodes, settings[c] = NeverSeen(c), settings' = [settings EXCEPT ![c] = Found(c)],
         NEW d \in CoverCodes
  PROVE  /\ \A y \in VehicleYears, v \in [CoverCodes -> Choice] : (d \in OfferedIn(y, v))' <=> d \in OfferedIn(y, v)
         /\ ReadsAs(d)' = ReadsAs(d) /\ Recommended(d)' = Recommended(d)
<1>1. settings'[c] = Found(c) /\ \A e \in CoverCodes \ {c} : settings'[e] = settings[e]
  BY DEF CoverInv, CoverTypes
<1>2. CASE d # c
  BY <1>1, <1>2 DEF OfferedIn, ReadsAs, Recommended, WordingOf, IsOffered
<1>3. CASE d = c
  <2>1. /\ settings'[c].status = "live" /\ ~settings'[c].configured /\ ~settings'[c].star /\ settings'[c].years = VehicleYears
        /\ settings[c].status = "none"
    BY <1>1, FoundIsARow DEF Found
  <2>2. /\ WordingOf(c)' = [benefits |-> DefaultBenefits(c), exclusions |-> "manual"]
        /\ IsOffered(c)' <=> c \in Everyday
    BY <2>1 DEF WordingOf, IsOffered
  <2>3. ReadsAs(c)' = ReadsAs(c)
    BY <2>1, <2>2 DEF ReadsAs
  <2>4. Recommended(c)' = Recommended(c)
    BY <2>1 DEF Recommended
  <2>5. ASSUME NEW y \in VehicleYears, NEW v \in [CoverCodes -> Choice]
        PROVE  (c \in OfferedIn(y, v))' <=> c \in OfferedIn(y, v)
    BY <2>1, <2>2 DEF OfferedIn
  <2> QED
    BY <1>3, <2>3, <2>4, <2>5
<1> QED
  BY <1>2, <1>3

-----------------------------------------------------------------------------
\* What a person sends of a coverage.
LEMMA SavesAreTyped == Saves \subseteq SentRow
<1>1. Untouched \in SentRow
  BY RestIsTyped
<1> HIDE DEF Untouched
<1>2. ASSUME NEW b \in {"own", "empty"}
      PROVE  [Untouched EXCEPT !.benefits = {b}] \in SentRow
  BY <1>1, Zenon DEF SentRow
<1>3. [Untouched EXCEPT !.exclusions = {"own"}] \in SentRow
  BY <1>1, Zenon DEF SentRow
<1>4. ASSUME NEW v \in BOOLEAN
      PROVE  [Untouched EXCEPT !.active = {v}] \in SentRow /\ [Untouched EXCEPT !.star = {v}] \in SentRow
  <2>1. {v} \in SUBSET BOOLEAN
    OBVIOUS
  <2>2. [Untouched EXCEPT !.active = {v}] \in SentRow
    BY <1>1, <2>1, Zenon DEF SentRow
  <2>3. [Untouched EXCEPT !.star = {v}] \in SentRow
    BY <1>1, <2>1, Zenon DEF SentRow
  <2> QED
    BY <2>2, <2>3
<1>5. ASSUME NEW S \in SUBSET VehicleYears
      PROVE  [Untouched EXCEPT !.years = {S}] \in SentRow
  <2>1. {S} \in SUBSET (SUBSET VehicleYears)
    OBVIOUS
  <2> QED
    BY <1>1, <2>1, Zenon DEF SentRow
<1>6. 1..LastYear \in SUBSET VehicleYears /\ {LastYear} \in SUBSET VehicleYears
  BY CoverageParameters DEF VehicleYears
<1>7. ASSUME NEW s \in Saves
      PROVE  s \in SentRow
  <2>1. \/ \E b \in {"own", "empty"} : s = [Untouched EXCEPT !.benefits = {b}]
        \/ s = [Untouched EXCEPT !.exclusions = {"own"}]
        \/ \E v \in BOOLEAN : s = [Untouched EXCEPT !.active = {v}]
        \/ \E v \in BOOLEAN : s = [Untouched EXCEPT !.star = {v}]
        \/ s = [Untouched EXCEPT !.years = {1..LastYear}] \/ s = [Untouched EXCEPT !.years = {{LastYear}}]
    BY Zenon DEF Saves
  <2> QED
    BY <1>2, <1>3, <1>4, <1>5, <1>6, <2>1
<1> QED
  BY <1>7

LEMMA SentOrIsTyped ==
  ASSUME NEW S, NEW new \in SUBSET S, NEW old \in S
  PROVE  SentOr(new, old) \in S
BY DEF SentOr

\* The row a save leaves, and what the screen shows of it then.
SavedRow(row, sent) ==
  [row EXCEPT !.configured = TRUE, !.benefits = SentOr(sent.benefits, @), !.exclusions = SentOr(sent.exclusions, @),
              !.active = SentOr(sent.active, @), !.star = SentOr(sent.star, @), !.years = SentOr(sent.years, @)]

LEMMA SavedRowIs ==
  ASSUME NEW row \in SettingRow, NEW sent \in SentRow
  PROVE  LET saved == SavedRow(row, sent) IN
         /\ saved \in SettingRow /\ saved.configured /\ saved.status = row.status
         /\ saved.benefits = SentOr(sent.benefits, row.benefits) /\ saved.exclusions = SentOr(sent.exclusions, row.exclusions)
         /\ saved.active = SentOr(sent.active, row.active) /\ saved.star = SentOr(sent.star, row.star)
         /\ saved.years = SentOr(sent.years, row.years)
<1> DEFINE bb == SentOr(sent.benefits, row.benefits)
           xx == SentOr(sent.exclusions, row.exclusions)
           aa == SentOr(sent.active, row.active)
           ss == SentOr(sent.star, row.star)
           yy == SentOr(sent.years, row.years)
           saved == [row EXCEPT !.configured = TRUE, !.benefits = bb, !.exclusions = xx, !.active = aa, !.star = ss, !.years = yy]
<1>1. /\ row.benefits \in Benefits /\ row.exclusions \in Exclusions /\ row.active \in BOOLEAN /\ row.star \in BOOLEAN
      /\ row.years \in SUBSET VehicleYears
  BY DEF SettingRow
<1>2. /\ sent.benefits \in SUBSET Benefits /\ sent.exclusions \in SUBSET Exclusions /\ sent.active \in SUBSET BOOLEAN
      /\ sent.star \in SUBSET BOOLEAN /\ sent.years \in SUBSET (SUBSET VehicleYears)
  BY DEF SentRow, Benefits, Exclusions
<1>3. bb \in Benefits /\ xx \in Exclusions /\ aa \in BOOLEAN /\ ss \in BOOLEAN /\ yy \in SUBSET VehicleYears
  <2>1. bb \in Benefits /\ xx \in Exclusions
    BY <1>1, <1>2 DEF SentOr
  <2>2. aa \in BOOLEAN
    BY <1>1, <1>2, SentOrIsTyped, Zenon
  <2>3. ss \in BOOLEAN
    BY <1>1, <1>2, SentOrIsTyped, Zenon
  <2>4. yy \in SUBSET VehicleYears
    BY <1>1, <1>2 DEF SentOr
  <2> QED
    BY <2>1, <2>2, <2>3, <2>4
<1>4. SavedRow(row, sent) = saved
  BY DEF SavedRow, SettingRow
<1> HIDE DEF bb, xx, aa, ss, yy
<1>5. saved \in SettingRow
  BY <1>3, Zenon DEF SettingRow
<1>6. /\ saved.configured /\ saved.status = row.status /\ saved.benefits = bb /\ saved.exclusions = xx
      /\ saved.active = aa /\ saved.star = ss /\ saved.years = yy
  BY DEF SettingRow
<1> HIDE DEF saved
<1> QED
  BY <1>4, <1>5, <1>6 DEF bb, xx, aa, ss, yy

LEMMA AsShownIs ==
  ASSUME NEW c \in CoverCodes, NEW row \in SettingRow
  PROVE  LET shown == AsShown(c, row) IN
         /\ shown \in SettingRow /\ shown.status = row.status /\ shown.benefits = DefaultBenefits(c) /\ shown.exclusions = "manual"
         /\ (shown.active <=> c \in Everyday) /\ shown.star = row.star /\ shown.years = row.years
<1> DEFINE old == DefaultBenefits(c)
           daily == c \in Everyday
           shown == [row EXCEPT !.benefits = old, !.exclusions = "manual", !.active = daily]
<1>1. old \in Benefits /\ daily \in BOOLEAN
  BY DEF DefaultBenefits, Benefits
<1>2. AsShown(c, row) = shown
  BY DEF AsShown
<1> HIDE DEF old, daily
<1>3. shown \in SettingRow
  BY <1>1, Zenon DEF SettingRow, Exclusions
<1>4. /\ shown.status = row.status /\ shown.benefits = old /\ shown.exclusions = "manual" /\ shown.active = daily
      /\ shown.star = row.star /\ shown.years = row.years
  BY DEF SettingRow
<1> HIDE DEF shown
<1> QED
  BY <1>2, <1>3, <1>4 DEF old, daily

-----------------------------------------------------------------------------
LEMMA AskSaveStep ==
  ASSUME CoverInv, NEW e \in Editors, NEW c \in CoverCodes, NEW sent \in Saves, AskSave(e, c, sent)
  PROVE  CoverInv'
<1>0. CoverTypes
  BY DEF CoverInv
<1>1. UNCHANGED <<settings, ownView, quotes, quoted>>
  BY DEF AskSave
<1>2. saves' \in 0..MaxSaves
  <2>1. saves \in 0..MaxSaves /\ MaxSaves \in Nat /\ saves < MaxSaves /\ saves' = saves + 1
    BY <1>0, CoverageParameters DEF AskSave, CoverTypes
  <2> QED
    BY <2>1
<1> DEFINE first == ~settings[c].configured
           row == [step |-> "found", code |-> c, first |-> first, sent |-> sent]
<1>3. first \in BOOLEAN
  OBVIOUS
<1>4. first = ~settings[c].configured
  OBVIOUS
<1>5. editors' = [editors EXCEPT ![e] = row]
  BY DEF AskSave
<1>6. settings[c].status = "live" /\ editors[e].step = "free"
  BY DEF AskSave
<1> HIDE DEF first
<1>7. row \in EditorRow
  BY <1>3, SavesAreTyped DEF EditorRow
<1>8. row.step = "found" /\ row.code = c /\ row.first = first
  OBVIOUS
<1> HIDE DEF row
<1>9. editors'[e] = row /\ \A o \in Editors \ {e} : editors'[o] = editors[o]
  BY <1>0, <1>5 DEF CoverTypes
<1>10. /\ met' \subseteq CoverCodes /\ met \subseteq met'
       /\ (\E o \in Editors : editors[o].step = "found" /\ editors[o].code = c) => c \in met'
  BY <1>0 DEF CoverTypes, AskSave
<1>11. CoverTypes'
  BY <1>0, <1>1, <1>2, <1>5, <1>7, <1>10 DEF CoverTypes
<1>12. \A d \in CoverCodes : RowFits(d)'
  BY <1>1 DEF CoverInv, RowFits
<1>13. ASSUME NEW o \in Editors
       PROVE  EditorFits(o)'
  <2>1. CASE o = e
    <3>1. editors'[o].code = c /\ editors'[o].first = first /\ settings'[c] = settings[c] /\ settings'[c].status = "live"
      BY <1>1, <1>6, <1>8, <1>9, <2>1
    <3>2. ASSUME c \notin met', NEW x \in Editors, editors'[x].step = "found", editors'[x].code = c
          PROVE  x = o
      BY <1>9, <1>10, <2>1, <3>2
    <3> QED
      BY <1>4, <3>1, <3>2 DEF EditorFits
  <2>2. CASE o # e
    <3>1. editors'[o] = editors[o] /\ EditorFits(o)
      BY <1>9, <2>2 DEF CoverInv
    <3>2. CASE editors[o].step = "found"
      <4>1. PICK d : d = editors[o].code
        OBVIOUS
      <4>2. settings[d].status = "live" /\ (~editors[o].first => settings[d].configured) /\ settings' = settings
        BY <1>1, <3>1, <3>2, <4>1 DEF EditorFits
      <4>3. ASSUME d \notin met'
            PROVE  /\ editors[o].first = ~settings[d].configured
                   /\ \A x \in Editors : editors'[x].step = "found" /\ editors'[x].code = d => x = o
        <5>1. d \notin met /\ d # c
          BY <1>10, <3>2, <4>1, <4>3
        <5>2. /\ editors[o].first = ~settings[d].configured
              /\ \A x \in Editors : editors[x].step = "found" /\ editors[x].code = d => x = o
          BY <3>1, <3>2, <4>1, <5>1 DEF EditorFits
        <5> QED
          BY <1>8, <1>9, <5>1, <5>2
      <4> QED
        BY <3>1, <4>1, <4>2, <4>3 DEF EditorFits
    <3>3. CASE editors[o].step # "found"
      BY <3>1, <3>3 DEF EditorFits
    <3> QED
      BY <3>2, <3>3
  <2> QED
    BY <2>1, <2>2
<1> QED
  BY <1>11, <1>12, <1>13 DEF CoverInv

\* What a save writes.
LEMMA SaveIs ==
  ASSUME CoverInv, NEW e \in Editors, SaveCoverage(e), NEW c, c = editors[e].code
  PROVE  /\ editors[e].step = "found" /\ c \in CoverCodes /\ editors[e].sent \in SentRow
         /\ settings[c] \in SettingRow
         /\ LET row == IF editors[e].first THEN AsShown(c, settings[c]) ELSE settings[c] IN
            row \in SettingRow /\ settings' = [settings EXCEPT ![c] = SavedRow(row, editors[e].sent)]
         /\ editors' = [editors EXCEPT ![e] = NoEditor]
         /\ UNCHANGED <<ownView, quotes, saves, quoted, met>>
<1>1. editors[e] \in EditorRow
  BY DEF CoverInv, CoverTypes
<1>2. c \in CoverCodes /\ editors[e].sent \in SentRow
  BY <1>1 DEF EditorRow
<1>3. settings[c] \in SettingRow
  BY <1>2 DEF CoverInv, CoverTypes
<1> DEFINE row == IF editors[e].first THEN AsShown(c, settings[c]) ELSE settings[c]
<1>4. row \in SettingRow
  BY <1>2, <1>3, AsShownIs
<1>5. settings' = [settings EXCEPT ![c] = SavedRow(row, editors[e].sent)]
  BY DEF SaveCoverage, SavedRow
<1>6. editors[e].step = "found" /\ editors' = [editors EXCEPT ![e] = NoEditor] /\ UNCHANGED <<ownView, quotes, saves, quoted, met>>
  BY DEF SaveCoverage
<1> HIDE DEF row
<1>7. row \in SettingRow /\ settings' = [settings EXCEPT ![c] = SavedRow(row, editors[e].sent)]
  BY <1>4, <1>5
<1> QED
  BY <1>2, <1>3, <1>6, <1>7 DEF row

LEMMA SaveStep ==
  ASSUME CoverInv, NEW e \in Editors, SaveCoverage(e)
  PROVE  CoverInv'
<1>0. CoverTypes
  BY DEF CoverInv
<1>1. PICK c : c = editors[e].code
  OBVIOUS
<1> DEFINE row == IF editors[e].first THEN AsShown(c, settings[c]) ELSE settings[c]
           sent == editors[e].sent
           saved == SavedRow(row, sent)
<1>2. /\ editors[e].step = "found" /\ c \in CoverCodes /\ sent \in SentRow /\ settings[c] \in SettingRow /\ row \in SettingRow
      /\ settings' = [settings EXCEPT ![c] = saved] /\ editors' = [editors EXCEPT ![e] = NoEditor]
      /\ UNCHANGED <<ownView, quotes, saves, quoted, met>>
  BY <1>1, SaveIs
<1>3. RowFits(c) /\ EditorFits(e)
  BY <1>2 DEF CoverInv
<1>4. settings[c].status = "live" /\ (~editors[e].first => settings[c].configured) /\ (c \notin met => \A o \in Editors : editors[o].step = "found" /\ editors[o].code = c => o = e)
  BY <1>1, <1>2, <1>3 DEF EditorFits
<1>5. row.status = "live"
  BY <1>2, <1>4, AsShownIs
<1>6. row.benefits # "old" \/ (~editors[e].first /\ row = settings[c])
  BY <1>2, AsShownIs DEF DefaultBenefits
<1> HIDE DEF row, sent
<1>7. saved \in SettingRow /\ saved.configured /\ saved.status = "live" /\ saved.benefits = SentOr(sent.benefits, row.benefits)
  BY <1>2, <1>5, SavedRowIs
<1> HIDE DEF saved
<1>8. settings'[c] = saved /\ \A d \in CoverCodes \ {c} : settings'[d] = settings[d]
  BY <1>0, <1>2 DEF CoverTypes
<1>9. editors'[e] = NoEditor /\ \A o \in Editors \ {e} : editors'[o] = editors[o]
  BY <1>0, <1>2 DEF CoverTypes
<1>10. CoverTypes'
  BY <1>0, <1>2, <1>7, RestIsTyped DEF CoverTypes
<1>11. ASSUME NEW d \in CoverCodes
       PROVE  RowFits(d)'
  <2>1. CASE d # c
    BY <1>8, <2>1 DEF CoverInv, RowFits
  <2>2. CASE d = c
    <3>1. row.benefits # "old"
      BY <1>3, <1>4, <1>6 DEF RowFits
    <3>2. sent.benefits \in SUBSET {"own", "empty"}
      BY <1>2 DEF SentRow
    <3>3. saved.benefits # "old"
      BY <1>7, <3>1, <3>2 DEF SentOr
    <3> QED
      BY <1>7, <1>8, <2>2, <3>3 DEF RowFits
  <2> QED
    BY <2>1, <2>2
<1>12. ASSUME NEW o \in Editors
       PROVE  EditorFits(o)'
  <2>1. CASE o = e
    BY <1>9, <2>1, RestIsTyped DEF EditorFits
  <2>2. CASE o # e
    <3>1. editors'[o] = editors[o] /\ EditorFits(o) /\ met' = met
      BY <1>2, <1>9, <2>2 DEF CoverInv
    <3>2. CASE editors[o].step = "found"
      <4>1. PICK d : d = editors[o].code
        OBVIOUS
      <4>2. d \in CoverCodes /\ settings[d].status = "live" /\ (~editors[o].first => settings[d].configured)
        <5>1. editors[o] \in EditorRow
          BY <1>0 DEF CoverTypes
        <5> QED
          BY <3>1, <3>2, <4>1, <5>1 DEF EditorFits, EditorRow
      <4>3. settings'[d].status = "live" /\ (~editors[o].first => settings'[d].configured)
        BY <1>7, <1>8, <4>2
      <4>4. ASSUME d \notin met
            PROVE  /\ editors[o].first = ~settings'[d].configured
                   /\ \A x \in Editors : editors'[x].step = "found" /\ editors'[x].code = d => x = o
        <5>1. /\ editors[o].first = ~settings[d].configured
              /\ \A x \in Editors : editors[x].step = "found" /\ editors[x].code = d => x = o
          BY <3>1, <3>2, <4>1, <4>4 DEF EditorFits
        <5>2. d # c
          BY <1>1, <1>2, <2>2, <5>1
        <5>3. settings'[d] = settings[d]
          BY <1>8, <4>2, <5>2
        <5> QED
          BY <1>9, <5>1, <5>3, RestIsTyped
      <4> QED
        BY <3>1, <4>1, <4>3, <4>4 DEF EditorFits
    <3>3. CASE editors[o].step # "found"
      BY <3>1, <3>3 DEF EditorFits
    <3> QED
      BY <3>2, <3>3
  <2> QED
    BY <2>1, <2>2
<1> QED
  BY <1>10, <1>11, <1>12 DEF CoverInv

LEMMA OwnViewStep == CoverInv /\ SaveOwnView => CoverInv'
<1> SUFFICES ASSUME CoverInv, SaveOwnView PROVE CoverInv'
  OBVIOUS
<1>0. CoverTypes
  BY DEF CoverInv
<1>1. UNCHANGED <<settings, quotes, editors, quoted, met>>
  BY DEF SaveOwnView
<1>2. saves' \in 0..MaxSaves
  <2>1. saves \in 0..MaxSaves /\ MaxSaves \in Nat /\ saves < MaxSaves /\ saves' = saves + 1
    BY <1>0, CoverageParameters DEF SaveOwnView, CoverTypes
  <2> QED
    BY <2>1
<1>3. ownView' \in [CoverCodes -> Choice]
  BY DEF SaveOwnView
<1>4. CoverTypes'
  BY <1>0, <1>1, <1>2, <1>3 DEF CoverTypes
<1> QED
  BY <1>1, <1>4 DEF CoverInv, RowFits, EditorFits

LEMMA CoverInvStep == CoverInv /\ [CoverageNext]_coverVars => CoverInv'
<1> SUFFICES ASSUME CoverInv, [CoverageNext]_coverVars PROVE CoverInv'
  OBVIOUS
<1>1. CASE UNCHANGED coverVars
  BY <1>1 DEF coverVars, CoverInv, CoverTypes, RowFits, EditorFits
<1>2. ASSUME NEW q \in Quotes, AskQuote(q) \/ ReadKnown(q) \/ RegisterCode(q) \/ RegisterFails(q)
      PROVE  CoverInv'
  BY <1>2, QuoteStep, RegisterStep
<1>3. ASSUME NEW e \in Editors, NEW c \in CoverCodes, NEW s \in Saves, AskSave(e, c, s)
      PROVE  CoverInv'
  BY <1>3, AskSaveStep
<1>4. ASSUME NEW e \in Editors, SaveCoverage(e)
      PROVE  CoverInv'
  BY <1>4, SaveStep
<1>5. CASE SaveOwnView
  BY <1>5, OwnViewStep
<1> QED
  BY <1>1, <1>2, <1>3, <1>4, <1>5 DEF CoverageNext

-----------------------------------------------------------------------------
LEMMA DiscoveryStep == CoverInv /\ [CoverageNext]_coverVars => DiscoveryIsQuiet
<1> SUFFICES ASSUME CoverInv, [CoverageNext]_coverVars, settings' # settings, NEW q \in Quotes, quotes'[q] # quotes[q]
             PROVE  /\ \A y \in VehicleYears, v \in [CoverCodes -> Choice] : OfferedIn(y, v)' = OfferedIn(y, v)
                    /\ \A c \in CoverCodes : ReadsAs(c)' = ReadsAs(c) /\ Recommended(c)' = Recommended(c)
  BY DEF DiscoveryIsQuiet
<1>1. \E p \in Quotes : RegisterCode(p)
  <2>1. ~UNCHANGED coverVars
    BY DEF coverVars
  <2>2. ~SaveOwnView /\ \A e \in Editors : ~SaveCoverage(e) /\ \A c \in CoverCodes, s \in Saves : ~AskSave(e, c, s)
    BY DEF SaveOwnView, SaveCoverage, AskSave
  <2>3. \A p \in Quotes : ~AskQuote(p) /\ ~ReadKnown(p) /\ ~RegisterFails(p)
    BY QuoteStep
  <2> QED
    BY <2>1, <2>2, <2>3 DEF CoverageNext
<1>2. PICK c \in CoverCodes : settings[c] = NeverSeen(c) /\ settings' = [settings EXCEPT ![c] = Found(c)]
  BY <1>1, RegisterIs
<1>3. ASSUME NEW y \in VehicleYears, NEW v \in [CoverCodes -> Choice]
      PROVE  OfferedIn(y, v)' = OfferedIn(y, v)
  <2>1. \A d \in CoverCodes : (d \in OfferedIn(y, v))' <=> d \in OfferedIn(y, v)
    BY <1>2, QuietStep
  <2>2. OfferedIn(y, v) \subseteq CoverCodes /\ OfferedIn(y, v)' \subseteq CoverCodes
    BY DEF OfferedIn
  <2> QED
    BY <2>1, <2>2
<1>4. \A d \in CoverCodes : ReadsAs(d)' = ReadsAs(d) /\ Recommended(d)' = Recommended(d)
  BY <1>2, QuietStep
<1> QED
  BY <1>3, <1>4

LEMMA ShownStep == CoverInv /\ [CoverageNext]_coverVars => ShownIsKept
<1> SUFFICES ASSUME CoverInv, [CoverageNext]_coverVars, NEW e \in Editors, NEW c \in CoverCodes \ met,
                    editors[e].step = "found", editors[e].code = c, editors'[e] = NoEditor,
                    NEW sent \in {editors[e].sent}
             PROVE  LET before == ShownRow(c)
                    IN ShownRow(c)' = [field \in DOMAIN before |-> SentOr(sent[field], before[field])]
  BY DEF ShownIsKept
<1>0. CoverTypes /\ EditorFits(e)
  BY DEF CoverInv
<1>1. SaveCoverage(e)
  <2>1. editors'[e] # editors[e]
    BY RestIsTyped
  <2>2. ~UNCHANGED editors
    BY <2>1
  <2>3. \A q \in Quotes : ~AskQuote(q) /\ ~ReadKnown(q) /\ ~RegisterCode(q) /\ ~RegisterFails(q)
    BY <2>2 DEF AskQuote, ReadKnown, RegisterCode, RegisterFails
  <2>4. ~SaveOwnView /\ ~UNCHANGED coverVars
    BY <2>2 DEF SaveOwnView, coverVars
  <2>5. ASSUME NEW o \in Editors, NEW d \in CoverCodes, NEW s \in Saves
        PROVE  ~AskSave(o, d, s)
    BY <1>0, <2>1 DEF AskSave, CoverTypes
  <2>6. ASSUME NEW o \in Editors, SaveCoverage(o)
        PROVE  o = e
    BY <1>0, <2>1, <2>6 DEF SaveCoverage, CoverTypes
  <2> QED
    BY <2>3, <2>4, <2>5, <2>6 DEF CoverageNext
<1> DEFINE row == IF editors[e].first THEN AsShown(c, settings[c]) ELSE settings[c]
           saved == SavedRow(row, sent)
<1>2. /\ sent \in SentRow /\ settings[c] \in SettingRow /\ row \in SettingRow
      /\ settings' = [settings EXCEPT ![c] = saved]
  BY <1>1, SaveIs
<1>3. editors[e].first = ~settings[c].configured
  BY <1>0 DEF EditorFits
<1>4. /\ row.benefits = WordingOf(c).benefits
      /\ (IF row.exclusions = "null" THEN "manual" ELSE row.exclusions) = WordingOf(c).exclusions
      /\ row.active = IsOffered(c) /\ row.star = settings[c].star /\ row.years = settings[c].years
  <2>1. CASE settings[c].configured
    <3>1. row = settings[c]
      BY <1>3, <2>1
    <3> QED
      BY <2>1, <3>1 DEF WordingOf, IsOffered
  <2>2. CASE ~settings[c].configured
    <3>1. row = AsShown(c, settings[c])
      BY <1>3, <2>2
    <3>2. row.active \in BOOLEAN
      BY <1>2 DEF SettingRow
    <3> HIDE DEF row
    <3> QED
      BY <1>2, <2>2, <3>1, <3>2, AsShownIs DEF WordingOf, IsOffered
  <2> QED
    BY <2>1, <2>2
<1> HIDE DEF row
<1>5. /\ saved.configured /\ saved.status = row.status
      /\ saved.benefits = SentOr(sent.benefits, row.benefits) /\ saved.exclusions = SentOr(sent.exclusions, row.exclusions)
      /\ saved.active = SentOr(sent.active, row.active) /\ saved.star = SentOr(sent.star, row.star)
      /\ saved.years = SentOr(sent.years, row.years)
  BY <1>2, SavedRowIs
<1> HIDE DEF saved
<1>6. settings'[c] = saved
  BY <1>0, <1>2 DEF CoverTypes
<1> DEFINE before == ShownRow(c)
<1>7. before = [benefits |-> WordingOf(c).benefits, exclusions |-> WordingOf(c).exclusions, active |-> IsOffered(c),
                star |-> settings[c].star, years |-> settings[c].years]
  BY DEF ShownRow
<1>8. ShownRow(c)' = [benefits |-> saved.benefits, exclusions |-> IF saved.exclusions # "null" THEN saved.exclusions ELSE "manual",
                      active |-> saved.active, star |-> saved.star, years |-> saved.years]
  BY <1>5, <1>6 DEF ShownRow, WordingOf, IsOffered
<1>9. (IF saved.exclusions # "null" THEN saved.exclusions ELSE "manual") = SentOr(sent.exclusions, WordingOf(c).exclusions)
  <2>1. sent.exclusions \in SUBSET {"own"}
    BY <1>2 DEF SentRow
  <2> QED
    BY <1>4, <1>5, <2>1 DEF SentOr
<1>10. ShownRow(c)' = [benefits |-> SentOr(sent.benefits, before.benefits), exclusions |-> SentOr(sent.exclusions, before.exclusions),
                       active |-> SentOr(sent.active, before.active), star |-> SentOr(sent.star, before.star),
                       years |-> SentOr(sent.years, before.years)]
  BY <1>4, <1>5, <1>7, <1>8, <1>9
<1>11. DOMAIN before = {"benefits", "exclusions", "active", "star", "years"}
  BY <1>7
<1> HIDE DEF before
<1>12. [field \in DOMAIN before |-> SentOr(sent[field], before[field])]
         = [benefits |-> SentOr(sent.benefits, before.benefits), exclusions |-> SentOr(sent.exclusions, before.exclusions),
            active |-> SentOr(sent.active, before.active), star |-> SentOr(sent.star, before.star),
            years |-> SentOr(sent.years, before.years)]
  BY <1>11
<1> QED
  BY <1>10, <1>12 DEF before

-----------------------------------------------------------------------------
(* What the assistant is asked and answers ("chat")                          *)

TurnRow ==
  [step : {"idle", "finding", "reading", "adding", "preparing", "asking", "running", "saving"}, text : Questions, saved : BOOLEAN,
   round : 0..MaxRounds, calls : 0..2, wrote : BOOLEAN, closed : BOOLEAN, cards : SUBSET Cards]

ChatTypes ==
  /\ hour \in 0..LastHour /\ chat \in {"none", "live", "removed"}
  /\ messages \in Seq(Message)
  /\ cards \in [Cards -> {"none", "pending", "confirmed", "cancelled"}]
  /\ turns \in [Turns -> TurnRow]
  /\ taken \in 0..MaxTurns /\ stops \in 0..MaxStops

\* A turn runs tools before its last round, and has no cards before it asks the
\* model or when nothing of it is saved.
TurnFits(row) ==
  /\ row.step = "running" => row.round < MaxRounds /\ row.calls >= 1
  /\ row.step \in {"idle", "finding", "reading", "adding", "preparing"} \/ ~row.saved => row.cards = {}

\* What this process remembers of the hour is what it admitted in it.
LimitFits ==
  /\ asked \in SUBSET ((0..LastHour) \X (1..MaxTurns)) /\ IsFiniteSet(asked)
  /\ \A a \in asked : a[1] <= hour /\ a[2] <= taken
  /\ admitted \in [0..LastHour -> Nat]
  /\ admitted[hour] = Cardinality(Recent)
  /\ \A h \in 0..LastHour : admitted[h] <= PerHour /\ (h > hour => admitted[h] = 0)

\* One turn at a time, and the one that adds a question does not repeat the last.
OneTurn ==
  /\ \A t, u \in Turns : ~Idle(t) /\ ~Idle(u) => t = u
  /\ \A t \in Turns : At(t, "adding") => ~IsRetry(t)
  /\ \A i \in 1..(Len(messages) - 1) :
       messages[i].role = "user" /\ messages[i + 1].role = "user" => messages[i].text # messages[i + 1].text

TurnsFit == \A t \in Turns : TurnFits(turns[t])

ChatInv == ChatTypes /\ TurnsFit /\ ProposedIsAnswered /\ LimitFits /\ (overlapped \in BOOLEAN /\ (~overlapped => OneTurn))

LEMMA ChatBounds ==
  MaxRounds \in Nat /\ PerHour \in Nat /\ LastHour \in Nat /\ MaxTurns \in Nat /\ MaxStops \in Nat /\ AQuestion \in Questions
BY ChatParameters DEF AQuestion

LEMMA NoTurnIsARow ==
  ASSUME NEW q \in Questions
  PROVE  /\ NoTurnYet(q) \in TurnRow /\ TurnFits(NoTurnYet(q)) /\ NoTurnYet(q).step = "idle" /\ NoTurnYet(q).cards = {}
BY ChatBounds DEF NoTurnYet, TurnRow, TurnFits

LEMMA ChatInvInit == ChatInit => ChatInv
<1> SUFFICES ASSUME ChatInit PROVE ChatInv
  OBVIOUS
<1>1. \A t \in Turns : turns[t] = NoTurnYet(AQuestion)
  BY DEF ChatInit
<1>2. ChatTypes
  BY <1>1, NoTurnIsARow, ChatBounds DEF ChatInit, ChatTypes
<1>3. TurnsFit
  BY <1>1, NoTurnIsARow, ChatBounds DEF TurnsFit
<1>4. ProposedIsAnswered
  BY DEF ChatInit, ProposedIsAnswered
<1>5. LimitFits
  <2>1. asked = {} /\ Recent = {} /\ IsFiniteSet(asked) /\ Cardinality(Recent) = 0
    BY FS_EmptySet DEF ChatInit, Recent
  <2> QED
    BY <2>1, ChatBounds DEF ChatInit, LimitFits
<1>6. OneTurn
  BY <1>1, NoTurnIsARow, ChatBounds DEF ChatInit, OneTurn, Idle, At
<1> QED
  BY <1>2, <1>3, <1>4, <1>5, <1>6 DEF ChatInv, ChatInit

-----------------------------------------------------------------------------

LEMMA TurnMoves ==
  ASSUME ChatTypes, TurnsFit, NEW t \in Turns, NEW row \in TurnRow, TurnFits(row), turns' = [turns EXCEPT ![t] = row]
  PROVE  turns' \in [Turns -> TurnRow] /\ TurnsFit'
BY DEF ChatTypes, TurnsFit

\* Where a turn goes and nothing else of it changes.
LEMMA GoesTo ==
  ASSUME ChatTypes, NEW t \in Turns, NEW step, GoTo(t, step)
  PROVE  /\ turns' = [turns EXCEPT ![t] = [turns[t] EXCEPT !.step = step]]
         /\ turns'[t].step = step /\ turns'[t].text = turns[t].text /\ turns'[t].cards = turns[t].cards
         /\ turns'[t].saved = turns[t].saved
         /\ \A u \in Turns : u # t => turns'[u] = turns[u]
         /\ step \in {"finding", "reading", "adding", "preparing", "asking"} => [turns[t] EXCEPT !.step = step] \in TurnRow
<1>1. turns \in [Turns -> TurnRow] /\ turns[t] \in TurnRow
  BY DEF ChatTypes
<1>2. turns' = [turns EXCEPT ![t] = [turns[t] EXCEPT !.step = step]]
  BY DEF GoTo
<1> QED
  BY <1>1, <1>2 DEF TurnRow

\* A round leaves a turn with its words, its calls and where it goes; a tool with
\* its cards, the calls that are left and its rounds.
Answered(t, text, n, step) == turns' = [turns EXCEPT ![t] = [turns[t] EXCEPT !.wrote = text, !.calls = n, !.step = step]]
Ran(t, all, n, step, round) ==
  turns' = [turns EXCEPT ![t] = [turns[t] EXCEPT !.cards = all, !.calls = n, !.step = step, !.round = round]]

LEMMA AnswerIs ==
  ASSUME ChatTypes, NEW t \in Turns, ModelAnswers(t)
  PROVE  \/ End(t) /\ (turns[t].cards = {} \/ ~turns[t].saved)
         \/ \E text \in BOOLEAN, n \in 0..2, step \in {"saving", "running"} :
              Answered(t, text, n, step) /\ (step = "running" => n >= 1 /\ ~LastRound(t))
<1>1. PICK wrote \in BOOLEAN, asks \in 0..2 :
        LET text == turns[t].wrote \/ wrote
            over == asks = 0 \/ LastRound(t)
            empty == ~text /\ turns[t].cards = {}
        IN IF over /\ (empty \/ ~turns[t].saved) THEN End(t)
           ELSE turns' = [turns EXCEPT ![t].wrote = text, ![t].calls = IF over THEN 0 ELSE asks,
                                       ![t].step = IF over THEN "saving" ELSE "running"]
  BY ZenonT(20) DEF ModelAnswers
<1>2. PICK over \in BOOLEAN : over <=> (asks = 0 \/ LastRound(t))
  OBVIOUS
<1>3. PICK text \in BOOLEAN : text <=> (turns[t].wrote \/ wrote)
  OBVIOUS
<1>4. PICK n \in 0..2, step \in {"saving", "running"} :
        n = (IF over THEN 0 ELSE asks) /\ step = (IF over THEN "saving" ELSE "running")
  OBVIOUS
<1>5. CASE over /\ ((~text /\ turns[t].cards = {}) \/ ~turns[t].saved)
  BY <1>1, <1>2, <1>3, <1>5
<1>6. CASE ~(over /\ ((~text /\ turns[t].cards = {}) \/ ~turns[t].saved))
  <2>1. turns' = [turns EXCEPT ![t].wrote = text, ![t].calls = n, ![t].step = step]
    BY <1>1, <1>2, <1>3, <1>4, <1>6
  <2>2. Answered(t, text, n, step)
    BY <2>1 DEF Answered, ChatTypes
  <2>3. step = "running" => n >= 1 /\ ~LastRound(t)
    BY <1>2, <1>4
  <2> QED
    BY <2>2, <2>3
<1> QED
  BY <1>5, <1>6

LEMMA ToolIs ==
  ASSUME ChatTypes, NEW t \in Turns, RunTool(t)
  PROVE  \E new \in SUBSET Cards, last \in BOOLEAN :
           /\ (last <=> turns[t].calls = 1) /\ (~turns[t].saved => new = {})
           /\ cards' = [c \in Cards |-> IF c \in new THEN "pending" ELSE cards[c]]
           /\ Ran(t, turns[t].cards \cup new, turns[t].calls - 1, IF last THEN "asking" ELSE "running",
                  IF last THEN turns[t].round + 1 ELSE turns[t].round)
<1>1. PICK new \in {{}} \cup {{c} : c \in {d \in Cards : turns[t].saved /\ cards[d] = "none"}} :
        LET last == turns[t].calls = 1 IN
        /\ cards' = [c \in Cards |-> IF c \in new THEN "pending" ELSE cards[c]]
        /\ turns' = [turns EXCEPT ![t].cards = CardsOfTurn(t, new), ![t].calls = @ - 1,
                                  ![t].step = IF last THEN "asking" ELSE "running",
                                  ![t].round = IF last THEN @ + 1 ELSE @]
  BY DEF RunTool
<1>2. PICK last \in BOOLEAN : last <=> turns[t].calls = 1
  OBVIOUS
<1>3. new \in SUBSET Cards /\ (~turns[t].saved => new = {})
  BY <1>1
<1>4. Ran(t, turns[t].cards \cup new, turns[t].calls - 1, IF last THEN "asking" ELSE "running",
          IF last THEN turns[t].round + 1 ELSE turns[t].round)
  BY <1>1, <1>2 DEF Ran, CardsOfTurn, ChatTypes
<1> QED
  BY <1>1, <1>2, <1>3, <1>4

LEMMA AnsweredRow ==
  ASSUME ChatTypes, NEW t \in Turns, NEW text \in BOOLEAN, NEW n \in 0..2, NEW step \in {"saving", "running"}, Answered(t, text, n, step)
  PROVE  \E row \in TurnRow :
           /\ turns' = [turns EXCEPT ![t] = row] /\ row.step = step /\ row.calls = n
           /\ row.round = turns[t].round /\ row.saved = turns[t].saved /\ row.cards = turns[t].cards
<1>1. PICK row : row = [turns[t] EXCEPT !.wrote = text, !.calls = n, !.step = step]
  OBVIOUS
<1>2. turns[t] \in TurnRow
  BY DEF ChatTypes
<1>3. row \in TurnRow
  BY <1>1, <1>2 DEF TurnRow
<1>4. row.step = step /\ row.calls = n /\ row.round = turns[t].round /\ row.saved = turns[t].saved /\ row.cards = turns[t].cards
  BY <1>1, <1>2 DEF TurnRow
<1> QED
  BY <1>1, <1>3, <1>4 DEF Answered

LEMMA RanRow ==
  ASSUME ChatTypes, NEW t \in Turns, NEW all \in SUBSET Cards, NEW n \in 0..2, NEW step \in {"asking", "running"}, NEW round \in 0..MaxRounds,
         Ran(t, all, n, step, round)
  PROVE  \E row \in TurnRow :
           /\ turns' = [turns EXCEPT ![t] = row] /\ row.step = step /\ row.calls = n
           /\ row.round = round /\ row.saved = turns[t].saved /\ row.cards = all
<1>1. PICK row : row = [turns[t] EXCEPT !.cards = all, !.calls = n, !.step = step, !.round = round]
  OBVIOUS
<1>2. turns[t] \in TurnRow
  BY DEF ChatTypes
<1>3. row \in TurnRow
  BY <1>1, <1>2 DEF TurnRow
<1>4. row.step = step /\ row.calls = n /\ row.round = round /\ row.saved = turns[t].saved /\ row.cards = all
  BY <1>1, <1>2 DEF TurnRow
<1> QED
  BY <1>1, <1>3, <1>4 DEF Ran

\* A tool runs in a round that is not the last, and leaves the turn asking or with
\* calls.
LEMMA ToolRow ==
  ASSUME ChatTypes, TurnsFit, NEW t \in Turns, RunTool(t)
  PROVE  \E new \in SUBSET Cards, row \in TurnRow :
           /\ cards' = [c \in Cards |-> IF c \in new THEN "pending" ELSE cards[c]]
           /\ turns' = [turns EXCEPT ![t] = row] /\ row.step \in {"asking", "running"} /\ TurnFits(row)
           /\ row.cards = turns[t].cards \cup new
<1>0. turns[t] \in TurnRow /\ TurnFits(turns[t]) /\ turns[t].step = "running"
  BY DEF ChatTypes, TurnsFit, RunTool, At
<1>1. PICK new \in SUBSET Cards, last \in BOOLEAN :
        /\ (last <=> turns[t].calls = 1) /\ (~turns[t].saved => new = {})
        /\ cards' = [c \in Cards |-> IF c \in new THEN "pending" ELSE cards[c]]
        /\ Ran(t, turns[t].cards \cup new, turns[t].calls - 1, IF last THEN "asking" ELSE "running",
               IF last THEN turns[t].round + 1 ELSE turns[t].round)
  BY ToolIs
<1>2. turns[t].calls \in 1..2 /\ turns[t].round \in 0..MaxRounds /\ turns[t].round < MaxRounds /\ turns[t].cards \in SUBSET Cards
  BY <1>0 DEF TurnRow, TurnFits
<1>3. PICK n \in 0..2, step \in {"asking", "running"}, round \in 0..MaxRounds :
        /\ n = turns[t].calls - 1 /\ step = (IF last THEN "asking" ELSE "running")
        /\ round = (IF last THEN turns[t].round + 1 ELSE turns[t].round)
  BY <1>2, ChatBounds
<1>4. PICK row \in TurnRow :
        /\ turns' = [turns EXCEPT ![t] = row] /\ row.step = step /\ row.calls = n
        /\ row.round = round /\ row.saved = turns[t].saved /\ row.cards = turns[t].cards \cup new
  <2>1. turns[t].cards \cup new \in SUBSET Cards
    BY <1>2
  <2>2. Ran(t, turns[t].cards \cup new, n, step, round)
    BY <1>1, <1>3
  <2> QED
    BY <2>1, <2>2, RanRow
<1>5. row.step = "running" => row.round < MaxRounds /\ row.calls >= 1
  BY <1>1, <1>2, <1>3, <1>4
<1>6. ~row.saved => row.cards = {}
  BY <1>0, <1>1, <1>4 DEF TurnFits
<1>7. TurnFits(row)
  BY <1>4, <1>5, <1>6 DEF TurnFits
<1> QED
  BY <1>1, <1>4, <1>7

LEMMA TurnsStep ==
  ASSUME ChatTypes, TurnsFit, [ChatNext]_chatVars
  PROVE  turns' \in [Turns -> TurnRow] /\ TurnsFit'
<1>1. ASSUME NEW t \in Turns, End(t)
      PROVE  turns' \in [Turns -> TurnRow] /\ TurnsFit'
  BY <1>1, ChatBounds, NoTurnIsARow, TurnMoves DEF End
<1>2. ASSUME NEW t \in Turns, NEW step \in {"reading", "adding", "preparing", "asking"}, GoTo(t, step),
             turns[t].step \in {"finding", "reading", "adding", "preparing"}
      PROVE  turns' \in [Turns -> TurnRow] /\ TurnsFit'
  <2>1. PICK row : row = [turns[t] EXCEPT !.step = step]
    OBVIOUS
  <2>2. row \in TurnRow /\ turns' = [turns EXCEPT ![t] = row]
    BY <1>2, <2>1, GoesTo
  <2>3. TurnFits(row)
    <3>1. turns[t].cards = {}
      BY <1>2 DEF TurnsFit, TurnFits
    <3>2. row.cards = {} /\ row.step = step
      BY <1>2, <2>2, <3>1, GoesTo DEF ChatTypes
    <3> QED
      BY <3>2 DEF TurnFits
  <2> QED
    BY <2>2, <2>3, TurnMoves
<1>3. CASE UNCHANGED turns
  BY <1>3 DEF ChatTypes, TurnsFit
<1>4. ASSUME NEW t \in Turns, NEW q \in Questions, NEW saved \in BOOLEAN, Admit(t, q, saved)
      PROVE  turns' \in [Turns -> TurnRow] /\ TurnsFit'
  <2>1. PICK row : row = [NoTurnYet(q) EXCEPT !.step = IF saved THEN "finding" ELSE "asking", !.saved = saved]
    OBVIOUS
  <2>2. row = [step |-> IF saved THEN "finding" ELSE "asking", text |-> q, saved |-> saved, round |-> 0, calls |-> 0, wrote |-> FALSE,
               closed |-> FALSE, cards |-> {}]
    BY <2>1, Zenon DEF NoTurnYet
  <2>4. row \in TurnRow
    BY <2>2, ChatBounds DEF TurnRow
  <2>5. TurnFits(row)
    BY <2>2 DEF TurnFits
  <2>3. turns' = [turns EXCEPT ![t] = row]
    BY <1>4, <2>1 DEF Admit
  <2> QED
    BY <2>3, <2>4, <2>5, TurnMoves
<1>5. ASSUME NEW t \in Turns, ModelAnswers(t)
      PROVE  turns' \in [Turns -> TurnRow] /\ TurnsFit'
  <2>1. ASSUME NEW text \in BOOLEAN, NEW n \in 0..2, NEW step \in {"saving", "running"}, Answered(t, text, n, step),
               step = "running" => n >= 1 /\ ~LastRound(t)
        PROVE  turns' \in [Turns -> TurnRow] /\ TurnsFit'
    <3>1. PICK row \in TurnRow :
            /\ turns' = [turns EXCEPT ![t] = row] /\ row.step = step /\ row.calls = n
            /\ row.round = turns[t].round /\ row.saved = turns[t].saved /\ row.cards = turns[t].cards
      BY <2>1, AnsweredRow
    <3>2. turns[t].round \in 0..MaxRounds /\ (~turns[t].saved => turns[t].cards = {})
      BY DEF ChatTypes, TurnRow, TurnsFit, TurnFits
    <3>3. row.step = "running" => row.round < MaxRounds /\ row.calls >= 1
      BY <2>1, <3>1, <3>2, ChatBounds DEF LastRound
    <3>4. TurnFits(row)
      BY <3>1, <3>2, <3>3 DEF TurnFits
    <3> QED
      BY <3>1, <3>4, TurnMoves
  <2> QED
    BY <1>1, <1>5, <2>1, AnswerIs
<1>6. ASSUME NEW t \in Turns, RunTool(t)
      PROVE  turns' \in [Turns -> TurnRow] /\ TurnsFit'
  BY <1>6, ToolRow, TurnMoves
<1>7. ASSUME NEW t \in Turns, CloseTab(t)
      PROVE  turns' \in [Turns -> TurnRow] /\ TurnsFit'
  <2>1. PICK row : row = [turns[t] EXCEPT !.closed = TRUE]
    OBVIOUS
  <2>2. turns[t] \in TurnRow /\ TurnFits(turns[t])
    BY DEF ChatTypes, TurnsFit
  <2>3. row \in TurnRow /\ turns' = [turns EXCEPT ![t] = row]
    BY <1>7, <2>1, <2>2 DEF CloseTab, TurnRow, ChatTypes
  <2>4. row.step = turns[t].step /\ row.calls = turns[t].calls /\ row.round = turns[t].round /\ row.saved = turns[t].saved
        /\ row.cards = turns[t].cards
    BY <2>1, <2>2 DEF TurnRow
  <2>5. TurnFits(row)
    BY <2>2, <2>4 DEF TurnFits
  <2> QED
    BY <2>3, <2>5, TurnMoves
<1>8. CASE ProcessRestarts
  BY <1>8, NoTurnIsARow, ChatBounds DEF ProcessRestarts, TurnsFit
<1>9. ASSUME NEW t \in Turns, FindConversation(t) \/ ReadLast(t) \/ AddQuestion(t) \/ ReadHistory(t)
      PROVE  turns' \in [Turns -> TurnRow] /\ TurnsFit'
  <2>1. turns[t].step \in {"finding", "reading", "adding", "preparing"}
    BY <1>9 DEF FindConversation, ReadLast, AddQuestion, ReadHistory, At
  <2>2. End(t) \/ \E step \in {"reading", "adding", "preparing", "asking"} : GoTo(t, step)
    BY <1>9 DEF FindConversation, ReadLast, AddQuestion, ReadHistory
  <2> QED
    BY <2>1, <2>2, <1>1, <1>2
<1>10. ASSUME NEW t \in Turns, ModelFails(t) \/ SaveAnswer(t)
       PROVE  turns' \in [Turns -> TurnRow] /\ TurnsFit'
  <2>1. End(t)
    BY <1>10 DEF ModelFails, SaveAnswer
  <2> QED
    BY <2>1, <1>1
<1>11. \/ UNCHANGED turns
       \/ \E t \in Turns :
            \/ \E q \in Questions, saved \in BOOLEAN : Admit(t, q, saved)
            \/ FindConversation(t) \/ ReadLast(t) \/ AddQuestion(t) \/ ReadHistory(t)
            \/ ModelAnswers(t) \/ ModelFails(t) \/ RunTool(t) \/ SaveAnswer(t) \/ CloseTab(t)
       \/ ProcessRestarts
  BY DEF ChatNext, chatVars, Decide, RemoveConversation, HourPasses
<1> QED
  BY <1>3, <1>4, <1>5, <1>6, <1>7, <1>8, <1>9, <1>10, <1>11

\* What was said stays said.
Said == messages' = messages \/ \E m \in Message : messages' = Append(messages, m)

LEMMA SaidStep ==
  ASSUME ChatTypes, [ChatNext]_chatVars
  PROVE  Said
<1>1. ASSUME NEW t \in Turns, AddQuestion(t)
      PROVE  Said
  <2>1. turns[t].text \in Questions
    BY DEF ChatTypes, TurnRow
  <2>2. [role |-> "user", text |-> turns[t].text, cards |-> {}] \in Message
    BY <2>1 DEF Message
  <2> QED
    BY <1>1, <2>2, Zenon DEF AddQuestion, Said
<1>2. ASSUME NEW t \in Turns, SaveAnswer(t)
      PROVE  Said
  <2>1. turns[t].text \in Questions /\ turns[t].cards \in SUBSET Cards
    BY DEF ChatTypes, TurnRow
  <2>2. [role |-> "assistant", text |-> turns[t].text, cards |-> turns[t].cards] \in Message
    BY <2>1 DEF Message
  <2> QED
    BY <1>2, <2>2, Zenon DEF SaveAnswer, Said
<1>3. messages' = messages \/ \E t \in Turns : AddQuestion(t) \/ SaveAnswer(t)
  BY ZenonT(20) DEF ChatNext, chatVars, Admit, FindConversation, ReadLast, ReadHistory, ModelAnswers, ModelFails, RunTool, CloseTab, Decide,
         RemoveConversation, HourPasses, ProcessRestarts
<1> QED
  BY <1>1, <1>2, <1>3 DEF Said

LEMMA SaidStays ==
  ASSUME ChatTypes, Said
  PROVE  messages' \in Seq(Message) /\ \A c \in Cards : Told(c) => Told(c)'
<1>1. CASE messages' = messages
  BY <1>1 DEF ChatTypes, Told
<1>2. ASSUME NEW m \in Message, messages' = Append(messages, m)
      PROVE  messages' \in Seq(Message) /\ \A c \in Cards : Told(c) => Told(c)'
  <2>1. messages \in Seq(Message)
    BY DEF ChatTypes
  <2>2. messages' \in Seq(Message) /\ \A i \in DOMAIN messages : i \in DOMAIN messages' /\ messages'[i] = messages[i]
    BY <1>2, <2>1
  <2> QED
    BY <2>2 DEF Told
<1> QED
  BY <1>1, <1>2 DEF Said

LEMMA ChatTypesStep ==
  ASSUME ChatTypes, TurnsFit, [ChatNext]_chatVars
  PROVE  ChatTypes'
<1>1. turns' \in [Turns -> TurnRow]
  BY TurnsStep
<1>2. messages' \in Seq(Message)
  BY SaidStep, SaidStays
<1>3. hour' \in 0..LastHour /\ taken' \in 0..MaxTurns /\ stops' \in 0..MaxStops
  <2>1. /\ hour' = hour \/ (hour < LastHour /\ hour' = hour + 1)
        /\ taken' = taken \/ (taken < MaxTurns /\ taken' = taken + 1)
        /\ stops' = stops \/ (stops < MaxStops /\ stops' = stops + 1)
    BY ZenonT(20) DEF ChatNext, chatVars, Admit, FindConversation, ReadLast, AddQuestion, ReadHistory, ModelAnswers, ModelFails, RunTool, SaveAnswer,
           CloseTab, Decide, RemoveConversation, HourPasses, ProcessRestarts
  <2>2. hour \in 0..LastHour /\ taken \in 0..MaxTurns /\ stops \in 0..MaxStops
    BY DEF ChatTypes
  <2> QED
    BY <2>1, <2>2, ChatBounds
<1>4. chat' \in {"none", "live", "removed"}
  <2>1. chat' = chat \/ chat' \in {"live", "removed"}
    BY ZenonT(20) DEF ChatNext, chatVars, Admit, FindConversation, ReadLast, AddQuestion, ReadHistory, ModelAnswers, ModelFails, RunTool, SaveAnswer,
           CloseTab, Decide, RemoveConversation, HourPasses, ProcessRestarts
  <2> QED
    BY <2>1 DEF ChatTypes
<1>5. cards' \in [Cards -> {"none", "pending", "confirmed", "cancelled"}]
  <2>1. cards \in [Cards -> {"none", "pending", "confirmed", "cancelled"}]
    BY DEF ChatTypes
  <2>2. \/ cards' = cards
        \/ \E new : cards' = [c \in Cards |-> IF c \in new THEN "pending" ELSE cards[c]]
        \/ \E c \in Cards, s \in {"confirmed", "cancelled"} : cards' = [cards EXCEPT ![c] = s]
    BY ZenonT(20) DEF ChatNext, chatVars, Admit, FindConversation, ReadLast, AddQuestion, ReadHistory, ModelAnswers, ModelFails, RunTool, SaveAnswer,
           CloseTab, Decide, RemoveConversation, HourPasses, ProcessRestarts
  <2> QED
    BY <2>1, <2>2
<1> QED
  BY <1>1, <1>2, <1>3, <1>4, <1>5 DEF ChatTypes

-----------------------------------------------------------------------------

\* The cards of the turns are told, kept or lost.
CardsKept == \A t \in Turns : \A c \in turns[t].cards : InCourse(c)' \/ Told(c)' \/ c \in lost'

LEMMA AnsweredStays ==
  ASSUME ChatTypes, Said, ProposedIsAnswered, CardsKept, lost \subseteq lost',
         \A c \in Cards : cards'[c] # "none" => cards[c] # "none" \/ InCourse(c)'
  PROVE  ProposedIsAnswered'
BY SaidStays DEF ProposedIsAnswered, CardsKept, InCourse

LEMMA EndKeeps ==
  ASSUME ChatTypes, NEW t \in Turns, End(t), \A c \in turns[t].cards : Told(c)' \/ c \in lost'
  PROVE  CardsKept
<1>1. \A u \in Turns \ {t} : turns'[u] = turns[u]
  BY DEF End, ChatTypes
<1>2. \A u \in Turns \ {t} : \A c \in turns[u].cards : InCourse(c)'
  BY <1>1 DEF InCourse
<1> QED
  BY <1>2 DEF CardsKept

LEMMA SameCardsKeep ==
  ASSUME \A t \in Turns : turns[t].cards \subseteq turns'[t].cards
  PROVE  CardsKept
BY DEF CardsKept, InCourse

LEMMA AnsweredStep ==
  ASSUME ChatTypes, TurnsFit, ProposedIsAnswered, [ChatNext]_chatVars
  PROVE  ProposedIsAnswered'
<1>0. Said
  BY SaidStep
<1>1. CardsKept
  <2>1. CASE turns' = turns
    BY <2>1, SameCardsKeep
  <2>2. ASSUME NEW t \in Turns, NEW q \in Questions, NEW saved \in BOOLEAN, Admit(t, q, saved)
        PROVE  CardsKept
    <3>1. turns[t].cards = {}
      BY <2>2 DEF TurnsFit, TurnFits, Admit, Idle
    <3>2. \A u \in Turns \ {t} : turns'[u] = turns[u]
      BY <2>2 DEF Admit, ChatTypes
    <3> QED
      BY <3>1, <3>2, SameCardsKeep
  <2>3. ASSUME NEW t \in Turns, FindConversation(t) \/ ReadLast(t) \/ AddQuestion(t) \/ ReadHistory(t)
        PROVE  CardsKept
    <3>1. turns[t].cards = {}
      BY <2>3 DEF TurnsFit, TurnFits, FindConversation, ReadLast, AddQuestion, ReadHistory, At
    <3>2. End(t) \/ \E step : GoTo(t, step)
      BY <2>3 DEF FindConversation, ReadLast, AddQuestion, ReadHistory
    <3>3. \A u \in Turns \ {t} : turns'[u] = turns[u]
      BY <3>2, GoesTo DEF End, ChatTypes
    <3> QED
      BY <3>1, <3>3, SameCardsKeep
  <2>4. ASSUME NEW t \in Turns, ModelAnswers(t)
        PROVE  CardsKept
    <3>1. CASE End(t) /\ turns[t].cards = {}
      BY <3>1, EndKeeps
    <3>2. ASSUME NEW text \in BOOLEAN, NEW n \in 0..2, NEW step \in {"saving", "running"}, Answered(t, text, n, step)
          PROVE  CardsKept
      <4>1. PICK row \in TurnRow : turns' = [turns EXCEPT ![t] = row] /\ row.cards = turns[t].cards
        BY <3>2, AnsweredRow
      <4>2. \A u \in Turns : turns'[u].cards = turns[u].cards
        BY <4>1 DEF ChatTypes
      <4> QED
        BY <4>2, SameCardsKeep
    <3>3. ~turns[t].saved => turns[t].cards = {}
      BY DEF TurnsFit, TurnFits
    <3> QED
      BY <2>4, <3>1, <3>2, <3>3, AnswerIs
  <2>5. ASSUME NEW t \in Turns, ModelFails(t)
        PROVE  CardsKept
    BY <2>5, EndKeeps DEF ModelFails
  <2>6. ASSUME NEW t \in Turns, RunTool(t)
        PROVE  CardsKept
    <3>1. PICK new \in SUBSET Cards, row \in TurnRow : turns' = [turns EXCEPT ![t] = row] /\ row.cards = turns[t].cards \cup new
      BY <2>6, ToolRow
    <3>2. turns'[t].cards = turns[t].cards \cup new /\ \A u \in Turns \ {t} : turns'[u] = turns[u]
      BY <3>1 DEF ChatTypes
    <3> QED
      BY <3>2, SameCardsKeep
  <2>7. ASSUME NEW t \in Turns, SaveAnswer(t)
        PROVE  CardsKept
    <3>1. PICK m : m = [role |-> "assistant", text |-> turns[t].text, cards |-> turns[t].cards]
      OBVIOUS
    <3>2. messages' = Append(messages, m) /\ m.cards = turns[t].cards /\ End(t)
      BY <2>7, <3>1 DEF SaveAnswer
    <3>3. messages \in Seq(Message)
      BY DEF ChatTypes
    <3>4. Len(messages) + 1 \in DOMAIN messages' /\ messages'[Len(messages) + 1] = m
      BY <3>2, <3>3
    <3>5. \A c \in turns[t].cards : Told(c)'
      BY <3>2, <3>4 DEF Told
    <3> QED
      BY <3>2, <3>5, EndKeeps
  <2>8. ASSUME NEW t \in Turns, CloseTab(t)
        PROVE  CardsKept
    <3>1. turns' = [turns EXCEPT ![t].closed = TRUE]
      BY <2>8 DEF CloseTab
    <3>2. \A u \in Turns : turns'[u].cards = turns[u].cards
      BY <3>1 DEF ChatTypes, TurnRow
    <3> QED
      BY <3>2, SameCardsKeep
  <2>9. CASE ProcessRestarts
    BY <2>9 DEF ProcessRestarts, CardsKept
  <2>10. \/ turns' = turns
         \/ \E t \in Turns :
              \/ \E q \in Questions, saved \in BOOLEAN : Admit(t, q, saved)
              \/ FindConversation(t) \/ ReadLast(t) \/ AddQuestion(t) \/ ReadHistory(t)
              \/ ModelAnswers(t) \/ ModelFails(t) \/ RunTool(t) \/ SaveAnswer(t) \/ CloseTab(t)
         \/ ProcessRestarts
    BY DEF ChatNext, chatVars, Decide, RemoveConversation, HourPasses
  <2> QED
    BY <2>1, <2>2, <2>3, <2>4, <2>5, <2>6, <2>7, <2>8, <2>9, <2>10
<1>2. lost \subseteq lost'
  BY ZenonT(20) DEF ChatNext, chatVars, Admit, FindConversation, ReadLast, AddQuestion, ReadHistory, ModelAnswers, ModelFails, RunTool, SaveAnswer,
         CloseTab, Decide, RemoveConversation, HourPasses, ProcessRestarts
<1>3. \A c \in Cards : cards'[c] # "none" => cards[c] # "none" \/ InCourse(c)'
  <2>1. CASE cards' = cards
    BY <2>1
  <2>2. ASSUME NEW c \in Cards, Decide(c)
        PROVE  \A d \in Cards : cards'[d] # "none" => cards[d] # "none"
    BY <2>2 DEF Decide, ChatTypes
  <2>3. ASSUME NEW t \in Turns, RunTool(t)
        PROVE  \A c \in Cards : cards'[c] # "none" => cards[c] # "none" \/ InCourse(c)'
    <3>1. PICK new \in SUBSET Cards, row \in TurnRow :
            /\ cards' = [c \in Cards |-> IF c \in new THEN "pending" ELSE cards[c]]
            /\ turns' = [turns EXCEPT ![t] = row] /\ row.cards = turns[t].cards \cup new
      BY <2>3, ToolRow
    <3>2. turns'[t].cards = turns[t].cards \cup new
      BY <3>1 DEF ChatTypes
    <3> QED
      BY <3>1, <3>2 DEF InCourse
  <2>4. cards' = cards \/ (\E c \in Cards : Decide(c)) \/ (\E t \in Turns : RunTool(t))
    BY ZenonT(20) DEF ChatNext, chatVars, Admit, FindConversation, ReadLast, AddQuestion, ReadHistory, ModelAnswers, ModelFails, SaveAnswer,
           CloseTab, RemoveConversation, HourPasses, ProcessRestarts
  <2> QED
    BY <2>1, <2>2, <2>3, <2>4
<1> QED
  BY <1>0, <1>1, <1>2, <1>3, AnsweredStays

-----------------------------------------------------------------------------

LEMMA LimitStep ==
  ASSUME ChatTypes, LimitFits, [ChatNext]_chatVars
  PROVE  LimitFits'
<1>0. /\ hour \in 0..LastHour /\ taken \in 0..MaxTurns
      /\ asked \in SUBSET ((0..LastHour) \X (1..MaxTurns)) /\ IsFiniteSet(asked)
      /\ \A a \in asked : a[1] \in 0..LastHour /\ a[2] \in 1..MaxTurns /\ a[1] <= hour /\ a[2] <= taken
      /\ admitted \in [0..LastHour -> Nat]
  BY DEF ChatTypes, LimitFits
<1>1. CASE UNCHANGED <<hour, asked, admitted, taken>>
  BY <1>1 DEF LimitFits, Recent
<1>2. ASSUME NEW t \in Turns, NEW q \in Questions, NEW saved \in BOOLEAN, Admit(t, q, saved)
      PROVE  LimitFits'
  <2>1. /\ Recent \subseteq asked /\ IsFiniteSet(Recent) /\ Cardinality(Recent) \in Nat
        /\ \A a \in Recent : a[1] > hour - 1
    <3>1. Recent \subseteq asked /\ \A a \in Recent : a[1] > hour - 1
      BY DEF Recent
    <3> QED
      BY <3>1, <1>0, FS_Subset, FS_CardinalityType
  <2>2. PICK new : new = <<hour, taken + 1>>
    OBVIOUS
  <2>3. /\ new \notin Recent /\ new \in (0..LastHour) \X (1..MaxTurns) /\ new[1] = hour /\ new[2] = taken + 1
        /\ asked' = Recent \cup {new} /\ hour' = hour /\ taken' = taken + 1 /\ taken < MaxTurns
        /\ Cardinality(Recent) < PerHour
        /\ admitted' = [admitted EXCEPT ![hour] = admitted[hour] + 1]
    <3>1. /\ asked' = Recent \cup {new} /\ hour' = hour /\ taken' = taken + 1 /\ taken < MaxTurns
          /\ Cardinality(Recent) < PerHour
          /\ admitted' = [admitted EXCEPT ![hour] = admitted[hour] + 1]
      BY <1>2, <2>2, <1>0 DEF Admit
    <3>2. new \in (0..LastHour) \X (1..MaxTurns) /\ new[1] = hour /\ new[2] = taken + 1
      BY <1>0, <2>2, <3>1, ChatBounds
    <3>3. new \notin Recent
      BY <1>0, <2>1, <3>2
    <3> QED
      BY <3>1, <3>2, <3>3
  <2>4. Recent' = Recent \cup {new}
    <3>1. \A a \in Recent \cup {new} : a[1] > hour - 1
      BY <1>0, <2>1, <2>3
    <3> QED
      BY <2>3, <3>1 DEF Recent
  <2>5. IsFiniteSet(Recent \cup {new}) /\ Cardinality(Recent \cup {new}) = Cardinality(Recent) + 1
    BY <2>1, <2>3, FS_AddElement
  <2>6. asked' \in SUBSET ((0..LastHour) \X (1..MaxTurns)) /\ IsFiniteSet(asked')
    BY <1>0, <2>1, <2>3, <2>5
  <2>7. \A a \in asked' : a[1] <= hour' /\ a[2] <= taken'
    BY <1>0, <2>1, <2>3
  <2>8. admitted'[hour] = Cardinality(Recent) + 1 /\ \A h \in 0..LastHour : h # hour => admitted'[h] = admitted[h]
    BY <1>0, <2>3 DEF LimitFits
  <2>9. admitted' \in [0..LastHour -> Nat] /\ admitted'[hour'] = Cardinality(Recent')
    BY <1>0, <2>1, <2>3, <2>4, <2>5, <2>8
  <2>10. \A h \in 0..LastHour : admitted'[h] <= PerHour /\ (h > hour' => admitted'[h] = 0)
    BY <1>0, <2>1, <2>3, <2>8, ChatBounds DEF LimitFits
  <2> QED
    BY <2>6, <2>7, <2>9, <2>10 DEF LimitFits
<1>3. CASE HourPasses
  <2>1. hour' = hour + 1 /\ hour' \in 0..LastHour /\ asked' = asked /\ admitted' = admitted /\ taken' = taken
    BY <1>0, <1>3, ChatBounds DEF HourPasses
  <2>2. Recent' = {}
    BY <1>0, <2>1 DEF Recent
  <2>3. admitted'[hour'] = Cardinality(Recent')
    BY <1>0, <2>1, <2>2, FS_EmptySet DEF LimitFits
  <2>4. \A a \in asked' : a[1] <= hour' /\ a[2] <= taken'
    BY <1>0, <2>1
  <2>5. \A h \in 0..LastHour : admitted'[h] <= PerHour /\ (h > hour' => admitted'[h] = 0)
    BY <1>0, <2>1 DEF LimitFits
  <2> QED
    BY <1>0, <2>1, <2>3, <2>4, <2>5 DEF LimitFits
<1>4. CASE ProcessRestarts
  <2>1. asked' = {} /\ Recent' = {} /\ hour' = hour /\ taken' = taken /\ admitted' = [h \in 0..LastHour |-> 0]
    BY <1>4 DEF ProcessRestarts, Recent
  <2>2. IsFiniteSet({}) /\ Cardinality({}) = 0
    BY FS_EmptySet
  <2> QED
    BY <1>0, <2>1, <2>2, ChatBounds DEF LimitFits
<1>5. \/ UNCHANGED <<hour, asked, admitted, taken>>
      \/ \E t \in Turns, q \in Questions, saved \in BOOLEAN : Admit(t, q, saved)
      \/ HourPasses \/ ProcessRestarts
  BY ZenonT(20) DEF ChatNext, chatVars, FindConversation, ReadLast, AddQuestion, ReadHistory, ModelAnswers, ModelFails, RunTool, SaveAnswer,
         CloseTab, Decide, RemoveConversation
<1> QED
  BY <1>1, <1>2, <1>3, <1>4, <1>5

-----------------------------------------------------------------------------

\* A turn moves and the others are left alone.
Moves(t) == /\ \A u \in Turns \ {t} : turns'[u] = turns[u]
            /\ Idle(t) => Idle(t)'

LEMMA MovesAlone ==
  ASSUME OneTurn, NEW t \in Turns, Moves(t) \/ \A u \in Turns \ {t} : Idle(u) /\ turns'[u] = turns[u]
  PROVE  \A u, v \in Turns : ~Idle(u)' /\ ~Idle(v)' => u = v
<1>1. CASE Moves(t)
  <2>1. \A u \in Turns : ~Idle(u)' => ~Idle(u)
    BY <1>1 DEF Moves, Idle
  <2> QED
    BY <2>1 DEF OneTurn
<1>2. CASE \A u \in Turns \ {t} : Idle(u) /\ turns'[u] = turns[u]
  BY <1>2 DEF Idle
<1> QED
  BY <1>1, <1>2

LEMMA OneTurnStep ==
  ASSUME ChatTypes, TurnsFit, OneTurn, [ChatNext]_chatVars, ~overlapped'
  PROVE  OneTurn'
<1>0. turns \in [Turns -> TurnRow] /\ messages \in Seq(Message)
  BY DEF ChatTypes
<1>1. ASSUME NEW t \in Turns, Moves(t), messages' = messages, At(t, "adding")' => ~IsRetry(t)'
      PROVE  OneTurn'
  <2>1. \A u \in Turns : At(u, "adding")' => ~IsRetry(u)'
    BY <1>1 DEF OneTurn, Moves, At, IsRetry, LastMessage
  <2>2. \A u, v \in Turns : ~Idle(u)' /\ ~Idle(v)' => u = v
    BY <1>1, MovesAlone
  <2> QED
    BY <1>1, <2>1, <2>2 DEF OneTurn
<1>2. ASSUME NEW t \in Turns, NEW m \in Message, messages' = Append(messages, m), ~Idle(t), Moves(t), ~At(t, "adding")',
             messages # <<>> /\ LastMessage.role = "user" /\ m.role = "user" => LastMessage.text # m.text
      PROVE  OneTurn'
  <2>1. \A u, v \in Turns : ~Idle(u)' /\ ~Idle(v)' => u = v
    BY <1>2, MovesAlone
  <2>2. \A u \in Turns \ {t} : Idle(u) /\ Idle(u)'
    BY <1>2 DEF OneTurn, Moves, Idle
  <2>3. \A u \in Turns : ~At(u, "adding")'
    BY <1>2, <2>2 DEF Idle, At
  <2>4. /\ Len(messages') = Len(messages) + 1 /\ messages'[Len(messages) + 1] = m
        /\ \A i \in 1..Len(messages) : messages'[i] = messages[i]
    BY <1>0, <1>2
  <2>5. \A i \in 1..(Len(messages') - 1) :
          messages'[i].role = "user" /\ messages'[i + 1].role = "user" => messages'[i].text # messages'[i + 1].text
    <3> SUFFICES ASSUME NEW i \in 1..Len(messages), messages'[i].role = "user", messages'[i + 1].role = "user"
                 PROVE  messages'[i].text # messages'[i + 1].text
      BY <1>0, <2>4
    <3>1. CASE i = Len(messages)
      <4>1. messages # <<>> /\ messages'[i] = LastMessage /\ messages'[i + 1] = m
        BY <1>0, <2>4, <3>1 DEF LastMessage
      <4> QED
        BY <1>2, <4>1
    <3>2. CASE i # Len(messages)
      <4>1. i \in 1..(Len(messages) - 1) /\ messages'[i] = messages[i] /\ messages'[i + 1] = messages[i + 1]
        BY <1>0, <2>4, <3>2
      <4> QED
        BY <4>1 DEF OneTurn
    <3> QED
      BY <3>1, <3>2
  <2> QED
    BY <2>1, <2>3, <2>5 DEF OneTurn
<1>3. CASE turns' = turns /\ messages' = messages
  BY <1>3 DEF OneTurn, Idle, At, IsRetry, LastMessage
<1>4. ASSUME NEW t \in Turns, End(t)
      PROVE  Moves(t) /\ Idle(t)' /\ ~At(t, "adding")'
  <2>1. \A u \in Turns \ {t} : turns'[u] = turns[u]
    BY <1>0, <1>4 DEF End
  <2>2. turns'[t].step = "idle"
    BY <1>0, <1>4, ChatBounds, NoTurnIsARow DEF End
  <2> QED
    BY <2>1, <2>2 DEF Moves, Idle, At
<1>5. ASSUME NEW t \in Turns, ~Idle(t), \A u \in Turns \ {t} : turns'[u] = turns[u], turns'[t].step # "adding"
      PROVE  Moves(t) /\ ~At(t, "adding")'
  BY <1>5 DEF Moves, At
<1>6. ASSUME NEW t \in Turns, NEW q \in Questions, NEW saved \in BOOLEAN, Admit(t, q, saved)
      PROVE  OneTurn'
  <2>1. messages' = messages /\ (\A u \in Turns : Idle(u)) /\ \A u \in Turns \ {t} : turns'[u] = turns[u]
    BY <1>0, <1>6 DEF Admit
  <2>2. turns'[t].step # "adding"
    <3>1. turns'[t] = [NoTurnYet(q) EXCEPT !.step = IF saved THEN "finding" ELSE "asking", !.saved = saved]
      BY <1>0, <1>6 DEF Admit
    <3> QED
      BY <3>1 DEF NoTurnYet
  <2>3. \A u, v \in Turns : ~Idle(u)' /\ ~Idle(v)' => u = v
    BY <2>1, MovesAlone
  <2>4. \A u \in Turns : ~At(u, "adding")'
    BY <2>1, <2>2 DEF At, Idle
  <2> QED
    BY <2>1, <2>3, <2>4 DEF OneTurn
<1>7. ASSUME NEW t \in Turns, ReadLast(t)
      PROVE  OneTurn'
  <2>1. PICK step \in {"preparing", "adding"} : GoTo(t, step) /\ (IsRetry(t) => step = "preparing") /\ messages' = messages
    BY <1>7 DEF ReadLast
  <2>2. turns'[t].step = step /\ turns'[t].text = turns[t].text /\ \A u \in Turns : u # t => turns'[u] = turns[u]
    BY <2>1, GoesTo
  <2>3. At(t, "adding")' => ~IsRetry(t)'
    BY <2>1, <2>2 DEF At, IsRetry, LastMessage
  <2>4. Moves(t)
    BY <2>2, <1>7 DEF Moves, ReadLast, At, Idle
  <2> QED
    BY <1>1, <2>1, <2>3, <2>4
<1>8. ASSUME NEW t \in Turns, FindConversation(t) \/ ReadHistory(t)
      PROVE  OneTurn'
  <2>1. ~Idle(t) /\ messages' = messages /\ (End(t) \/ \E step \in {"reading", "asking"} : GoTo(t, step))
    BY <1>8 DEF FindConversation, ReadHistory, At, Idle
  <2>2. CASE \E step \in {"reading", "asking"} : GoTo(t, step)
    <3>1. turns'[t].step \in {"reading", "asking"} /\ \A u \in Turns : u # t => turns'[u] = turns[u]
      BY <2>2, GoesTo
    <3> QED
      BY <1>1, <1>5, <2>1, <3>1
  <2> QED
    BY <1>1, <1>4, <2>1, <2>2
<1>9. ASSUME NEW t \in Turns, AddQuestion(t)
      PROVE  OneTurn'
  <2>1. PICK m : m = [role |-> "user", text |-> turns[t].text, cards |-> {}]
    OBVIOUS
  <2>2. turns[t].text \in Questions
    BY <1>0 DEF TurnRow
  <2>3. m \in Message /\ m.role = "user" /\ m.text = turns[t].text
    BY <2>1, <2>2 DEF Message
  <2>4. messages' = Append(messages, m) /\ At(t, "adding") /\ ~Idle(t) /\ GoTo(t, "preparing")
    BY <1>9, <2>1 DEF AddQuestion, At, Idle
  <2>5. turns'[t].step = "preparing" /\ \A u \in Turns : u # t => turns'[u] = turns[u]
    BY <2>4, GoesTo
  <2>6. messages # <<>> /\ LastMessage.role = "user" => LastMessage.text # m.text
    BY <2>3, <2>4 DEF OneTurn, IsRetry
  <2>7. Moves(t) /\ ~At(t, "adding")'
    BY <2>4, <2>5, <1>5
  <2> QED
    BY <1>2, <2>3, <2>4, <2>6, <2>7
<1>10. ASSUME NEW t \in Turns, ModelAnswers(t) \/ ModelFails(t) \/ RunTool(t) \/ CloseTab(t)
       PROVE  OneTurn'
  <2>1. ~Idle(t) /\ messages' = messages
    BY <1>10, ZenonT(20) DEF ModelAnswers, ModelFails, RunTool, CloseTab, At, Idle
  <2>2. CASE End(t)
    BY <1>1, <1>4, <2>1, <2>2
  <2>3. CASE ~End(t)
    <3>1. CASE ModelAnswers(t)
      <4>1. PICK text \in BOOLEAN, n \in 0..2, step \in {"saving", "running"} : Answered(t, text, n, step)
        BY <2>3, <3>1, AnswerIs
      <4>2. PICK row \in TurnRow : turns' = [turns EXCEPT ![t] = row] /\ row.step = step
        BY <4>1, AnsweredRow
      <4>3. turns'[t].step = step /\ \A u \in Turns \ {t} : turns'[u] = turns[u]
        BY <1>0, <4>2
      <4> QED
        BY <1>1, <1>5, <2>1, <4>3
    <3>2. CASE RunTool(t)
      <4>1. PICK row \in TurnRow : turns' = [turns EXCEPT ![t] = row] /\ row.step \in {"asking", "running"}
        BY <3>2, ToolRow
      <4>2. turns'[t].step # "adding" /\ \A u \in Turns \ {t} : turns'[u] = turns[u]
        BY <1>0, <4>1
      <4> QED
        BY <1>1, <1>5, <2>1, <4>2
    <3>3. CASE CloseTab(t)
      <4>1. turns' = [turns EXCEPT ![t].closed = TRUE] /\ turns[t].step # "adding"
        BY <3>3 DEF CloseTab
      <4>2. turns'[t].step # "adding" /\ \A u \in Turns \ {t} : turns'[u] = turns[u]
        BY <1>0, <4>1 DEF TurnRow
      <4> QED
        BY <1>1, <1>5, <2>1, <4>2
    <3> QED
      BY <1>10, <2>3, <3>1, <3>2, <3>3 DEF ModelFails
  <2> QED
    BY <2>2, <2>3
<1>11. ASSUME NEW t \in Turns, SaveAnswer(t)
       PROVE  OneTurn'
  <2>1. PICK m : m = [role |-> "assistant", text |-> turns[t].text, cards |-> turns[t].cards]
    OBVIOUS
  <2>2. turns[t].text \in Questions /\ turns[t].cards \in SUBSET Cards
    BY <1>0 DEF TurnRow
  <2>3. m \in Message /\ m.role = "assistant"
    BY <2>1, <2>2 DEF Message
  <2>4. messages' = Append(messages, m) /\ ~Idle(t) /\ End(t)
    BY <1>11, <2>1 DEF SaveAnswer, At, Idle
  <2> QED
    BY <1>2, <1>4, <2>3, <2>4
<1>12. CASE ProcessRestarts
  <2>1. messages' = messages /\ \A t \in Turns : turns'[t] = NoTurnYet(AQuestion)
    BY <1>12 DEF ProcessRestarts
  <2>2. \A t \in Turns : turns'[t].step = "idle"
    BY <2>1, ChatBounds, NoTurnIsARow
  <2> QED
    BY <2>1, <2>2 DEF OneTurn, Idle, At
<1>13. \/ turns' = turns /\ messages' = messages
       \/ \E t \in Turns :
            \/ \E q \in Questions, saved \in BOOLEAN : Admit(t, q, saved)
            \/ FindConversation(t) \/ ReadLast(t) \/ AddQuestion(t) \/ ReadHistory(t)
            \/ ModelAnswers(t) \/ ModelFails(t) \/ RunTool(t) \/ SaveAnswer(t) \/ CloseTab(t)
       \/ ProcessRestarts
  BY DEF ChatNext, chatVars, Decide, RemoveConversation, HourPasses
<1> QED
  BY <1>3, <1>6, <1>7, <1>8, <1>9, <1>10, <1>11, <1>12, <1>13

LEMMA ChatInvStep == ChatInv /\ [ChatNext]_chatVars => ChatInv'
<1> SUFFICES ASSUME ChatInv, [ChatNext]_chatVars PROVE ChatInv'
  OBVIOUS
<1>1. overlapped' \in BOOLEAN /\ (overlapped => overlapped')
  BY ZenonT(20) DEF ChatInv, ChatNext, chatVars, Admit, FindConversation, ReadLast, AddQuestion, ReadHistory, ModelAnswers, ModelFails, RunTool, SaveAnswer,
         CloseTab, Decide, RemoveConversation, HourPasses, ProcessRestarts
<1>2. ChatTypes' /\ TurnsFit' /\ ProposedIsAnswered' /\ LimitFits'
  BY TurnsStep, ChatTypesStep, AnsweredStep, LimitStep DEF ChatInv
<1>3. ~overlapped' => OneTurn'
  BY <1>1, OneTurnStep DEF ChatInv
<1> QED
  BY <1>1, <1>2, <1>3 DEF ChatInv

LEMMA ChatInvSays == ChatInv => ChatTypeOK /\ AnswersFit
<1> SUFFICES ASSUME ChatInv PROVE ChatTypeOK /\ AnswersFit
  OBVIOUS
<1>1. ChatTypeOK
  <2>1. \A i \in DOMAIN messages : messages[i] \in Message
    BY DEF ChatInv, ChatTypes
  <2>2. \A t \in Turns : turns[t] \in TurnRow
    BY DEF ChatInv, ChatTypes
  <2> QED
    BY <2>1, <2>2 DEF ChatInv, ChatTypes, LimitFits, ChatTypeOK, TurnRow
<1>2. NoQuestionTwice
  BY DEF ChatInv, OneTurn, NoQuestionTwice
<1>3. LimitIsKept
  BY DEF ChatInv, LimitFits, LimitIsKept
<1> QED
  BY <1>1, <1>2, <1>3 DEF ChatInv, AnswersFit

-----------------------------------------------------------------------------
(* The panel *)

PanelInv ==
  /\ ChangesInv /\ CardsInv /\ ChatInv /\ AccessInv /\ HolidayInv /\ HoursWell /\ CatalogInv /\ CoverInv

LEMMA PanelInvInit == PanelInit => PanelInv
<1> SUFFICES ASSUME PanelInit PROVE PanelInv
  OBVIOUS
<1>1. ChangesInit /\ ChatInit /\ AccessInit /\ HoursInit /\ CatalogInit /\ CoverageInit
  BY DEF PanelInit
<1>2. ChangesInv /\ CardsInv /\ ChatInv /\ AccessInv
  BY <1>1, ChangesInvInit, CardsInvInit, ChatInvInit, AccessInvInit
<1>3. HolidayInv /\ HoursWell /\ CatalogInv /\ CoverInv
  BY <1>1, HolidayInvInit, HoursWellInit, CatalogInvInit, CoverInvInit
<1> QED
  BY <1>2, <1>3 DEF PanelInv

(* The panel's steps are one part's steps at a time: to each part every step *)
(* is one of its own or leaves it alone.                                     *)
LEMMA StepOfParts ==
  [PanelNext]_panelVars =>
    /\ [ChangesNext]_changeVars /\ [ChatNext]_chatVars /\ [AccessNext]_accessVars /\ [HoursNext]_hoursVars
    /\ [CatalogNext]_catalogVars /\ [CoverageNext]_coverVars
BY DEF PanelNext, panelVars

LEMMA PanelInvStep == PanelInv /\ [PanelNext]_panelVars => PanelInv'
<1> HAVE PanelInv /\ [PanelNext]_panelVars
<1>1. ChangesInv' /\ CardsInv'
  BY StepOfParts, ChangesInvStep, CardsInvStep DEF PanelInv
<1>2. ChatInv'
  BY StepOfParts, ChatInvStep DEF PanelInv
<1>3. AccessInv'
  BY StepOfParts, AccessInvStep DEF PanelInv
<1>4. HolidayInv' /\ HoursWell'
  BY StepOfParts, HolidayStep, HoursWellStep DEF PanelInv
<1>5. CatalogInv'
  BY StepOfParts, CatalogInvStep DEF PanelInv
<1>6. CoverInv'
  BY StepOfParts, CoverInvStep DEF PanelInv
<1> QED
  BY <1>1, <1>2, <1>3, <1>4, <1>5, <1>6 DEF PanelInv

LEMMA PanelInvHolds == PanelSpec => []PanelInv
<1>1. PanelInit => PanelInv
  BY PanelInvInit
<1>2. PanelInv /\ [PanelNext]_panelVars => PanelInv'
  BY PanelInvStep
<1> QED
  BY <1>1, <1>2, PTL DEF PanelSpec

(* CardsFit: while nobody else edits, a card that was confirmed leaves what  *)
(* its rows say, going back on it restores what there was before it, field   *)
(* by field and of the twin row too, and one with a single service to call   *)
(* that failed changed nothing.  The invariant follows the chain of cards:   *)
(* each goes back on the one before, and stands on the store it left.        *)
THEOREM CardsAlwaysFit == PanelSpec => [](ChangesTypeOK /\ CardsFit)
<1>1. PanelInv => ChangesTypeOK /\ CardsFit
  BY CardsInvSays DEF PanelInv
<1> QED
  BY <1>1, PanelInvHolds, PTL

(* AnswersFit: one tab at a time, a question asked again after a failure is  *)
(* not repeated in the chat; a change that was proposed is in the answer of  *)
(* its turn unless the turn failed after the card was made; and a person has *)
(* the questions of an hour and no more.                                     *)
THEOREM AnswersAlwaysFit == PanelSpec => [](ChatTypeOK /\ AnswersFit)
<1>1. PanelInv => ChatTypeOK /\ AnswersFit
  BY ChatInvSays DEF PanelInv
<1> QED
  BY <1>1, PanelInvHolds, PTL

(* HoursFit: a customer is told that the office is open exactly when it is,  *)
(* and what the bot promises is the first moment within a week when it opens, *)
(* for ranges typed in any order and at any hour, those of the night too; but *)
(* for the hours after nine of a day all of whose closures end that day,     *)
(* which the code forgets by then.                                           *)
THEOREM HoursAlwaysFit == PanelSpec => [](HoursTypeOK /\ HoursFit)
<1>1. PanelInv => HoursTypeOK /\ HoursFit
  BY HoursTypesSay, HoursFitWell DEF PanelInv
<1> QED
  BY <1>1, PanelInvHolds, PTL

(* AccessTypeOK, AccessFits: no grant and no number ever points at the code  *)
(* of another office, somebody whom no write disturbs sees the chats of      *)
(* their own numbers and no others, and the audit's last word on a number is *)
(* where its switch stands.  A grant and a code are written by one request   *)
(* between another's reads, so the invariant says what each open request     *)
(* may still write.                                                          *)
THEOREM AccessAlwaysFits == PanelSpec => [](AccessTypeOK /\ AccessFits)
<1>1. PanelInv => AccessTypeOK /\ AccessFits
  BY AccessInvSays DEF PanelInv
<1> QED
  BY <1>1, PanelInvHolds, PTL

(* CatalogTypeOK, CatalogStands, NoGonePlan: while requests on the plans     *)
(* come one at a time an active paid plan stays, at most one plan is the     *)
(* free trial, and no number is left on a plan that was removed.             *)
THEOREM CatalogAlwaysStands == PanelSpec => [](CatalogTypeOK /\ CatalogStands /\ NoGonePlan)
<1>1. PanelInv => CatalogTypeOK /\ CatalogStands /\ NoGonePlan
  BY CatalogInvSays DEF PanelInv
<1> QED
  BY <1>1, PanelInvHolds, PTL

(* CoverageTypeOK, NothingIsGuessed: no client is offered a coverage whose   *)
(* wording was guessed from the company's title or is not there, whatever    *)
(* quotes find and editors save meanwhile.                                   *)
THEOREM NothingIsEverGuessed == PanelSpec => [](CoverageTypeOK /\ NothingIsGuessed)
<1>1. PanelInv => CoverageTypeOK /\ NothingIsGuessed
  BY CoverInvSays DEF PanelInv
<1> QED
  BY <1>1, PanelInvHolds, PTL

(* PanelHolds: in every part of the panel, all of the above.                 *)
THEOREM PanelAlwaysHolds == PanelSpec => []PanelHolds
<1>1. PanelInv => PanelHolds
  <2> HAVE PanelInv
  <2>1. ChangesTypeOK /\ CardsFit /\ ChatTypeOK /\ AnswersFit
    BY CardsInvSays, ChatInvSays DEF PanelInv
  <2>2. AccessTypeOK /\ AccessFits /\ HoursTypeOK /\ HoursFit
    BY AccessInvSays, HoursTypesSay, HoursFitWell DEF PanelInv
  <2>3. CatalogTypeOK /\ CatalogStands /\ NoGonePlan /\ CoverageTypeOK /\ NothingIsGuessed
    BY CatalogInvSays, CoverInvSays DEF PanelInv
  <2> QED
    BY <2>1, <2>2, <2>3 DEF PanelHolds, PanelTypesOK
<1> QED
  BY <1>1, PanelInvHolds, PTL

(* SettingsFit: a confirmed card leaves what it does not name, the codes a   *)
(* quote discovers leave what is offered, a save leaves what it did not      *)
(* send, and syncs that come one at a time load a holiday once.              *)
THEOREM SettingsAlwaysFit == PanelSpec => SettingsFit
<1>1. PanelInv /\ [PanelNext]_panelVars
      => /\ part = "changes" => OthersStay
         /\ part = "coverages" => DiscoveryIsQuiet /\ ShownIsKept
         /\ part = "hours" => LoadedOnce
  <2> HAVE PanelInv /\ [PanelNext]_panelVars
  <2>1. OthersStay
    BY StepOfParts, OthersStep DEF PanelInv
  <2>2. DiscoveryIsQuiet /\ ShownIsKept
    BY StepOfParts, DiscoveryStep, ShownStep DEF PanelInv
  <2>3. LoadedOnce
    BY StepOfParts, HolidayStep DEF PanelInv
  <2> QED
    BY <2>1, <2>2, <2>3
<1> QED
  BY <1>1, PanelInvHolds, PTL DEF PanelSpec, SettingsFit

(* AccountsFit: what an admin sees grows only by a request that names the    *)
(* code or by a retired code coming back, and a number in service that is    *)
(* moved to a plan may send with everything the plan includes.               *)
THEOREM AccountsAlwaysFit == PanelSpec => AccountsFit
<1>1. PanelInv /\ [PanelNext]_panelVars
      => /\ part = "access" => SightIsGranted
         /\ part = "plans" => UpgradeUnlocks
  <2> HAVE PanelInv /\ [PanelNext]_panelVars
  <2>1. SightIsGranted
    BY StepOfParts, SightStep DEF PanelInv
  <2>2. UpgradeUnlocks
    BY StepOfParts, UnlockStep DEF PanelInv
  <2> QED
    BY <2>1, <2>2
<1> QED
  BY <1>1, PanelInvHolds, PTL DEF PanelSpec, AccountsFit
=============================================================================
