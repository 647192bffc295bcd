----------------------------- MODULE PlanProofs ------------------------------
(***************************************************************************)
(* What holds of the plan and its pause for every catalog, any number of   *)
(* messages, reports in course and people answering, however many months   *)
(* pass and wherever requests stop.                                        *)
(***************************************************************************)
EXTENDS PlanPause, FiniteSetTheorems, WellFoundedInduction, TLAPS

-----------------------------------------------------------------------------
(* The inductive invariant *)

\* A request is about a message that was delivered.
ReportsStarted ==
  \A r \in Reports :
    report[r].step # "idle" => /\ report[r].msg \in Messages
                               /\ delivered[report[r].msg] \in Months

\* Every pause of this month but the one in force was lifted; of a past month
\* at most one was left to end by itself; no month ahead has any.
PausesAnswered ==
  \A p \in Months :
    pauses[p] <= lifts[p] + (IF phone.pausedAt = p \/ p < month THEN 1 ELSE 0)

NotPausedAhead == phone.pausedAt # NULL => phone.pausedAt <= month

IInv == TypeOK /\ ReportsStarted /\ PausesAnswered /\ NotPausedAhead

-----------------------------------------------------------------------------

LEMMA CatalogFacts ==
  /\ Smallest \in Paid /\ Largest \in Paid
  /\ Paid \subseteq Nat /\ Paid \subseteq Plans /\ NULL \notin Months
  /\ \A p \in Plans : p \in Nat /\ p > 0
  /\ \A q \in Paid : q <= Largest
<1>1. Smallest \in Paid
  <2>1. \E p \in Paid : \A q \in Paid : p <= q
    BY Catalog
  <2>2. QED
    BY <2>1 DEF Smallest
<1>2. Largest \in Paid
  <2>1. \E p \in Paid : \A q \in Paid : q <= p
    BY Catalog
  <2>2. QED
    BY <2>1 DEF Largest
<1>3. Paid \subseteq Nat \ {0}
  BY Catalog
<1>4. \A p \in Plans : p \in Nat /\ p > 0
  <2>1. Trial # NULL => Trial \in Nat \ {0}
    BY Catalog
  <2>2. \A p \in Plans : p \in Paid \/ (p = Trial /\ Trial # NULL)
    BY DEF Plans
  <2>3. \A p \in Plans : p \in Nat \ {0}
    BY <1>3, <2>1, <2>2
  <2>4. QED
    BY <2>3
<1>5. Paid \subseteq Plans
  BY DEF Plans
<1>6. NULL \notin Months
  BY Catalog, Bounds DEF Months
<1>7. \A q \in Paid : q <= Largest
  BY Catalog DEF Largest
<1>8. QED
  BY <1>1, <1>2, <1>3, <1>4, <1>5, <1>6, <1>7

LEMMA AssignedTyping ==
  ASSUME NEW plan \in Plans \cup {NULL}, NEW p \in Months
  PROVE AssignedPlan(plan, p) \in Plans
BY CatalogFacts DEF AssignedPlan

LEMMA InitIInv == Init => IInv
<1> SUFFICES ASSUME Init PROVE IInv
  OBVIOUS
<1>1. New \in Phone
  BY Catalog DEF New, Phone
<1>2. ReportsOK
  BY <1>1 DEF Init, ReportsOK, NoReport, ReportState
<1>3. DesksOK
  BY DEF Init, DesksOK, NoDesk, DeskState
<1>4. TypeOK
  BY <1>1, <1>2, <1>3, Bounds DEF Init, TypeOK, Months
<1>5. ReportsStarted
  BY DEF Init, ReportsStarted, NoReport
<1>6. PausesAnswered /\ NotPausedAhead
  BY Bounds, CatalogFacts DEF Init, PausesAnswered, NotPausedAhead, New, Months
<1>7. QED
  BY <1>4, <1>5, <1>6 DEF IInv

\* Counting fills total; billing fills assigned and over.
LEMMA CountTyping ==
  ASSUME NEW r \in Reports, ReportsOK, NEW total \in Nat,
         report' = [report EXCEPT ![r].step = "billing", ![r].total = total]
  PROVE ReportsOK'
BY DEF ReportsOK, ReportState

LEMMA BillTyping ==
  ASSUME NEW r \in Reports, ReportsOK, NEW plan \in Plans, NEW over \in BOOLEAN,
         report' = [report EXCEPT ![r].step = "billed", ![r].assigned = plan, ![r].over = over]
  PROVE ReportsOK'
<1> DEFINE s == [report[r] EXCEPT !.step = "billed", !.assigned = plan, !.over = over]
<1>1. s \in ReportState
  BY DEF ReportsOK, ReportState
<1>2. report' = [report EXCEPT ![r] = s]
  BY DEF ReportsOK, ReportState
<1>3. QED
  BY <1>1, <1>2 DEF ReportsOK

\* A request at an end forgets its variables.
LEMMA NoReportTyping == NoReport \in ReportState
BY Catalog DEF NoReport, New, Phone, ReportState

LEMMA EndTyping ==
  ASSUME NEW r \in Reports, ReportsOK, report' = [report EXCEPT ![r] = NoReport]
  PROVE ReportsOK'
BY NoReportTyping DEF ReportsOK

\* Going on changes the step of a request.
LEMMA GoTyping ==
  ASSUME NEW r \in Reports, ReportsOK, NEW step \in {"limit", "announcing"},
         report' = [report EXCEPT ![r].step = step]
  PROVE ReportsOK'
BY DEF ReportsOK, ReportState

LEMMA NoDeskTyping == NoDesk \in DeskState
BY DEF NoDesk, DeskState

LEMMA DeskEndTyping ==
  ASSUME NEW d \in Desks, DesksOK, desk' = [desk EXCEPT ![d] = NoDesk]
  PROVE DesksOK'
BY NoDeskTyping DEF DesksOK

LEMMA DeskGoTyping ==
  ASSUME NEW d \in Desks, DesksOK, desk' = [desk EXCEPT ![d].step = "resolving"]
  PROVE DesksOK'
BY DEF DesksOK, DeskState

\* Steps that leave the number and the two histories as they were.
LEMMA RequestKeepsPause ==
  ASSUME IInv, UNCHANGED <<month, phone, history>>
  PROVE PausesAnswered' /\ NotPausedAhead'
BY DEF IInv, PausesAnswered, NotPausedAhead, history

\* A request that ends, or goes on with its message, stays one that started.
LEMMA RequestGoesOn ==
  ASSUME IInv, NEW r \in Reports, UNCHANGED delivered,
         \A q \in Reports : q # r => report'[q] = report[q],
         report'[r].step = "idle"
           \/ (report[r].step # "idle" /\ report'[r].msg = report[r].msg)
  PROVE ReportsStarted'
BY DEF IInv, ReportsStarted

LEMMA ReportKeepsIInv ==
  ASSUME IInv, NEW r \in Reports, Handle(r) \/ ReportDies(r) PROVE IInv'
<1> USE DEF IInv
<1>1. CASE Record(r)
  <2> DEFINE m == report[r].msg
             p == delivered[m]
  <2> USE <1>1 DEF Record
  <2>1. m \in Messages /\ p \in Months
    BY DEF ReportsStarted
  <2>2. Weight(m) \in Nat
    BY DEF Weight
  <2>3. used' \in [Months -> Nat] /\ used'[p] \in Nat
    BY <2>1, <2>2 DEF TypeOK
  <2>4. ReportsOK'
    BY <2>3, CountTyping DEF TypeOK
  <2>5. TypeOK'
    BY <2>1, <2>3, <2>4 DEF TypeOK, DesksOK, history
  <2>6. ReportsStarted'
    BY DEF ReportsStarted, TypeOK, ReportsOK
  <2>7. QED
    BY <2>5, <2>6, RequestKeepsPause
<1>2. CASE \/ Collided(r) \/ Repeated(r) \/ Leave(r) \/ Announce(r) \/ ReportDies(r)
  <2>1. /\ report' = [report EXCEPT ![r] = NoReport]
        /\ UNCHANGED <<month, usage, phone, desk, history>>
        /\ notices' \in {notices, notices + 1}
        /\ faults' = faults \/ (faults < MaxFaults /\ faults' = faults + 1)
    BY <1>2 DEF Collided, Repeated, Leave, Announce, ReportDies
  <2>2. ReportsOK'
    BY <2>1, EndTyping DEF TypeOK
  <2>3. TypeOK'
    BY <2>1, <2>2, Bounds DEF TypeOK, DesksOK, usage, history
  <2>4. ReportsStarted'
    BY <2>1 DEF ReportsStarted, TypeOK, ReportsOK, NoReport, usage
  <2>5. QED
    BY <2>1, <2>3, <2>4, RequestKeepsPause
<1>3. CASE Bill(r)
  <2> USE <1>3 DEF Bill
  <2>1. AssignedPlan(report[r].seen.plan, delivered[report[r].msg]) \in Plans
    BY AssignedTyping DEF ReportsStarted, TypeOK, ReportsOK, ReportState, Phone
  <2> DEFINE over == report[r].total >= Included(report[r].seen, delivered[report[r].msg])
  <2>a. over \in BOOLEAN
    OBVIOUS
  <2>2. ReportsOK'
    <3> HIDE DEF over
    <3>1. report' = [report EXCEPT ![r].step = "billed",
            ![r].assigned = AssignedPlan(report[r].seen.plan, delivered[report[r].msg]),
            ![r].over = over]
      BY DEF over
    <3>2. QED
      BY <2>1, <2>a, <3>1, BillTyping DEF TypeOK
  <2>3. TypeOK'
    BY <2>2 DEF TypeOK, DesksOK, usage, history
  <2>4. ReportsStarted'
    BY DEF ReportsStarted, TypeOK, ReportsOK, usage
  <2>5. QED
    BY <2>3, <2>4, RequestKeepsPause
<1>4. CASE ResetPlan(r)
  <2> USE <1>4 DEF ResetPlan
  <2>1. ReportsOK'
    BY GoTyping DEF TypeOK
  <2>2. phone' \in Phone /\ phone'.pausedAt = phone.pausedAt
    BY DEF TypeOK, Phone
  <2>3. TypeOK'
    BY <2>1, <2>2 DEF TypeOK, DesksOK, usage, history
  <2>4. ReportsStarted'
    BY DEF ReportsStarted, TypeOK, ReportsOK, usage
  <2>5. QED
    BY <2>2, <2>3, <2>4 DEF PausesAnswered, NotPausedAhead, history
<1>5. CASE Pause(r)
  <2> USE <1>5 DEF Pause
  <2>1. ReportsOK'
    BY GoTyping DEF TypeOK
  <2>2. phone' \in Phone /\ phone'.pausedAt = month
    BY DEF TypeOK, Phone
  <2>3. pauses' \in [Months -> Nat]
    BY DEF TypeOK
  <2>4. TypeOK'
    BY <2>1, <2>2, <2>3 DEF TypeOK, DesksOK, usage
  <2>5. report[r].step # "idle"
    BY DEF AtLimit
  <2>6. ReportsStarted'
    BY <2>5 DEF ReportsStarted, TypeOK, ReportsOK, usage
  <2>7. PausesAnswered'
    <3> SUFFICES ASSUME NEW p \in Months
                 PROVE pauses'[p] <= lifts[p] + (IF month = p \/ p < month THEN 1 ELSE 0)
      BY <2>2 DEF PausesAnswered
    <3>1. pauses[p] \in Nat /\ lifts[p] \in Nat /\ p \in Nat /\ month \in Nat
      BY DEF TypeOK, Months
    <3>2. CASE p = month
      <4>1. phone.pausedAt # month
        BY <3>1, CatalogFacts DEF TypeOK
      <4>2. pauses[p] <= lifts[p]
        BY <3>1, <3>2, <4>1 DEF PausesAnswered
      <4>3. QED
        BY <3>1, <3>2, <4>2 DEF TypeOK
    <3>3. CASE p # month
      <4>1. pauses'[p] = pauses[p]
        BY <3>3 DEF TypeOK
      <4>2. phone.pausedAt = p => p < month
        BY <3>1, CatalogFacts
      <4>3. QED
        BY <3>1, <3>3, <4>1, <4>2 DEF PausesAnswered
    <3>4. QED
      BY <3>2, <3>3
  <2>8. NotPausedAhead'
    BY <2>2 DEF NotPausedAhead, TypeOK, Months
  <2>9. QED
    BY <2>4, <2>6, <2>7, <2>8
<1>6. QED
  BY <1>1, <1>2, <1>3, <1>4, <1>5 DEF Handle

\* An update of the office that clears the pause, and counts it lifted.
LEMMA LiftKeepsPause ==
  ASSUME IInv, Lift, UNCHANGED <<month, pauses>>, phone'.pausedAt = NULL
  PROVE lifts' \in [Months -> Nat] /\ PausesAnswered' /\ NotPausedAhead'
<1> USE DEF IInv
<1>1. CASE phone.pausedAt = NULL
  <2>1. lifts' = lifts
    BY <1>1 DEF Lift
  <2>2. \A p \in Months : phone.pausedAt # p
    BY <1>1, CatalogFacts
  <2>3. QED
    BY <2>1, <2>2, <1>1 DEF PausesAnswered, NotPausedAhead, TypeOK
<1>2. CASE phone.pausedAt # NULL
  <2> DEFINE q == phone.pausedAt
  <2>1. q \in Months
    BY <1>2 DEF TypeOK, Phone
  <2>2. lifts' = [lifts EXCEPT ![q] = @ + 1]
    BY <1>2 DEF Lift
  <2>3. lifts' \in [Months -> Nat]
    BY <2>1, <2>2 DEF TypeOK
  <2>4. PausesAnswered'
    <3> SUFFICES ASSUME NEW p \in Months
                 PROVE pauses[p] <= lifts'[p] + (IF p < month THEN 1 ELSE 0)
      BY CatalogFacts DEF PausesAnswered
    <3>1. pauses[p] \in Nat /\ lifts[p] \in Nat /\ lifts'[p] = lifts[p] + (IF p = q THEN 1 ELSE 0)
      BY <2>1, <2>2 DEF TypeOK
    <3>2. QED
      BY <3>1 DEF PausesAnswered
  <2>5. QED
    BY <2>3, <2>4 DEF NotPausedAhead
<1>3. QED
  BY <1>1, <1>2

\* What the office writes is a number: its blocks are at least one.
LEMMA BlocksTyping ==
  ASSUME NEW total \in Nat, \A p \in Paid : p <= total
  PROVE (total - Largest) \div BlockMessages + 1 \in Nat
<1>1. Largest \in Nat /\ Largest <= total
  BY CatalogFacts
<1>2. total - Largest \in Nat
  BY <1>1
<1>3. \A a \in Nat, b \in Nat \ {0} : a \div b \in Nat
  OBVIOUS
<1>4. QED
  BY <1>2, <1>3, Catalog

LEMMA DeskKeepsIInv ==
  ASSUME IInv, NEW d \in Desks,
         \/ AskLimit(d) \/ \E p \in Paid : AskPlan(d, p)
         \/ Answer(d) \/ DeskDies(d)
  PROVE IInv'
<1> USE DEF IInv
<1>1. CASE AskLimit(d)
  <2>1. DesksOK'
    BY <1>1 DEF AskLimit, TypeOK, DesksOK, DeskState, NoDesk
  <2>2. TypeOK'
    BY <1>1, <2>1 DEF AskLimit, TypeOK, ReportsOK, usage, history
  <2>3. QED
    BY <1>1, <2>2, RequestKeepsPause DEF AskLimit, ReportsStarted, usage
<1>2. ASSUME NEW p \in Paid, AskPlan(d, p) PROVE IInv'
  <2>1. DesksOK'
    BY <1>2, CatalogFacts DEF AskPlan, TypeOK, DesksOK, DeskState, NoDesk
  <2>2. TypeOK'
    BY <1>2, <2>1 DEF AskPlan, TypeOK, ReportsOK, usage, history
  <2>3. QED
    BY <1>2, <2>2, RequestKeepsPause DEF AskPlan, ReportsStarted, usage
<1>3. CASE KeepPause(d)
  <2> USE <1>3 DEF KeepPause
  <2>1. DesksOK'
    BY DeskGoTyping DEF TypeOK
  <2>2. phone' \in Phone /\ phone'.pausedAt = phone.pausedAt
    BY DEF TypeOK, Phone
  <2>3. TypeOK'
    BY <2>1, <2>2 DEF TypeOK, ReportsOK, usage, history
  <2>4. QED
    BY <2>2, <2>3 DEF PausesAnswered, NotPausedAhead, ReportsStarted, usage, history
<1>4. CASE (\E p \in Paid : ContinueOn(d, p)) \/ ContinuePast(d) \/ AssignCovering(d)
  <2>1. /\ desk' = [desk EXCEPT ![d].step = "resolving"] /\ Lift
        /\ UNCHANGED <<month, usage, notices, report, pauses, faults>>
    BY <1>4 DEF ContinueOn, ContinuePast, AssignCovering
  <2>2. phone' \in Phone /\ phone'.pausedAt = NULL
    <3>0. desk[d] \in DeskState
      BY DEF TypeOK, DesksOK
    <3>1. ASSUME NEW p \in Paid, ContinueOn(d, p) PROVE phone' \in Phone /\ phone'.pausedAt = NULL
      BY <3>1, CatalogFacts DEF ContinueOn, Phone
    <3>2. CASE ContinuePast(d)
      <4>1. (desk[d].total - Largest) \div BlockMessages + 1 \in Nat
        BY <3>0, <3>2, BlocksTyping DEF ContinuePast, DeskState
      <4>2. QED
        BY <3>0, <3>2, <4>1, CatalogFacts DEF ContinuePast, Phone, DeskState
    <3>3. CASE AssignCovering(d)
      BY <3>0, <3>3 DEF AssignCovering, Phone, DeskState
    <3>4. QED
      BY <1>4, <3>1, <3>2, <3>3
  <2>3. DesksOK'
    BY <2>1, DeskGoTyping DEF TypeOK
  <2>4. lifts' \in [Months -> Nat] /\ PausesAnswered' /\ NotPausedAhead'
    BY <2>1, <2>2, LiftKeepsPause
  <2>5. TypeOK'
    BY <2>1, <2>2, <2>3, <2>4 DEF TypeOK, ReportsOK, usage
  <2>6. QED
    BY <2>1, <2>4, <2>5 DEF ReportsStarted, usage
<1>5. CASE AssignSmall(d)
  <2> USE <1>5 DEF AssignSmall
  <2>1. DesksOK'
    BY DeskEndTyping DEF TypeOK
  <2>2. phone' \in Phone /\ phone'.pausedAt = phone.pausedAt
    BY DEF TypeOK, Phone, DesksOK, DeskState
  <2>3. TypeOK'
    BY <2>1, <2>2 DEF TypeOK, ReportsOK, usage, history
  <2>4. QED
    BY <2>2, <2>3 DEF PausesAnswered, NotPausedAhead, ReportsStarted, usage, history
<1>6. CASE ResolveNotices(d) \/ DeskDies(d)
  <2>1. /\ desk' = [desk EXCEPT ![d] = NoDesk]
        /\ UNCHANGED <<month, usage, phone, report, history>>
        /\ notices' \in {notices, 0}
        /\ faults' = faults \/ (faults < MaxFaults /\ faults' = faults + 1)
    BY <1>6 DEF ResolveNotices, DeskDies
  <2>2. DesksOK'
    BY <2>1, DeskEndTyping DEF TypeOK
  <2>3. TypeOK'
    BY <2>1, <2>2, Bounds DEF TypeOK, ReportsOK, usage, history
  <2>4. QED
    BY <2>1, <2>3, RequestKeepsPause DEF ReportsStarted, usage
<1>7. QED
  BY <1>1, <1>2, <1>3, <1>4, <1>5, <1>6 DEF Answer

LEMMA NextKeepsIInv == IInv /\ [Next]_vars => IInv'
<1> SUFFICES ASSUME IInv, [Next]_vars PROVE IInv'
  OBVIOUS
<1>1. ASSUME NEW m \in Messages, Deliver(m) PROVE IInv'
  <2>1. TypeOK'
    BY <1>1 DEF IInv, Deliver, TypeOK, ReportsOK, DesksOK, history
  <2>2. ReportsStarted'
    BY <1>1, CatalogFacts DEF IInv, Deliver, ReportsStarted, TypeOK
  <2>3. QED
    BY <1>1, <2>1, <2>2, RequestKeepsPause DEF IInv, Deliver
<1>2. ASSUME NEW r \in Reports, NEW m \in Messages, Resolve(r, m) PROVE IInv'
  <2>1. [NoReport EXCEPT !.step = "recording", !.msg = m, !.seen = phone,
                         !.row = delivered[m] \in rows] \in ReportState
    <3> DEFINE row == delivered[m] \in rows
    <3>1. row \in BOOLEAN /\ phone \in Phone
      BY DEF IInv, TypeOK
    <3> HIDE DEF row
    <3>2. [NoReport EXCEPT !.step = "recording", !.msg = m, !.seen = phone, !.row = row] \in ReportState
      BY <3>1, NoReportTyping DEF ReportState
    <3>3. QED
      BY <3>2 DEF row
  <2>2. ReportsOK'
    BY <1>2, <2>1 DEF IInv, Resolve, TypeOK, ReportsOK
  <2>3. TypeOK'
    BY <1>2, <2>2 DEF IInv, Resolve, TypeOK, DesksOK, usage, history
  <2>4. ReportsStarted'
    BY <1>2 DEF IInv, Resolve, ReportsStarted, TypeOK, ReportsOK, NoReport, usage
  <2>5. QED
    BY <1>2, <2>3, <2>4, RequestKeepsPause DEF IInv, Resolve
<1>3. CASE MonthTurns
  <2>0. month' \in Months
    BY <1>3, Bounds DEF IInv, MonthTurns, TypeOK, Months
  <2>1. TypeOK'
    BY <1>3, <2>0 DEF IInv, MonthTurns, TypeOK, ReportsOK, DesksOK, usage, history
  <2>2. PausesAnswered'
    BY <1>3 DEF IInv, MonthTurns, PausesAnswered, TypeOK, history, Months
  <2>3. NotPausedAhead'
    BY <1>3 DEF IInv, MonthTurns, NotPausedAhead, TypeOK, Phone, Months
  <2>4. QED
    BY <1>3, <2>1, <2>2, <2>3 DEF IInv, MonthTurns, ReportsStarted, usage
<1>4. CASE UNCHANGED vars
  BY <1>4 DEF IInv, TypeOK, ReportsOK, DesksOK, ReportsStarted, PausesAnswered, NotPausedAhead,
              vars, usage, history
<1>5. ASSUME NEW p \in Months, RecordCall(p) PROVE IInv'
  <2>1. TypeOK'
    BY <1>5 DEF IInv, RecordCall, TypeOK, ReportsOK, DesksOK, history
  <2>2. ReportsStarted'
    BY <1>5 DEF IInv, RecordCall, ReportsStarted
  <2>3. QED
    BY <1>5, <2>1, <2>2, RequestKeepsPause DEF IInv, RecordCall
<1>6. QED
  BY <1>1, <1>2, <1>3, <1>4, <1>5, ReportKeepsIInv, DeskKeepsIInv DEF Next

LEMMA Inductive == Spec => []IInv
BY InitIInv, NextKeepsIInv, PTL DEF Spec

-----------------------------------------------------------------------------

\* Every variable keeps its type, whatever order the requests' steps come in;
\* in particular the blocks the office accepts are never negative.
THEOREM TypeCorrect == Spec => []TypeOK
BY Inductive, PTL DEF IInv

\* However many reports cross the limit together, and whoever answers
\* meanwhile, the assistant is paused in a month at most once more than its
\* pauses of that month were lifted (followLimit's conditional update).
THEOREM PausedOnce == Spec => []PausedOncePerAnswer
<1>1. IInv => PausedOncePerAnswer
  BY DEF IInv, PausesAnswered, PausedOncePerAnswer, TypeOK
<1>2. QED
  BY <1>1, Inductive, PTL

-----------------------------------------------------------------------------
(* A lifted pause leaves room                                              *)

\* The office chooses among the paid plans, and answers about a month.
DesksAsk ==
  \A d \in Desks :
    /\ desk[d].step = "plan" => desk[d].plan \in Paid
    /\ desk[d].step = "limit" => desk[d].period \in Months

LEMMA NextKeepsDesks == IInv /\ DesksAsk /\ [Next]_vars => DesksAsk'
<1> SUFFICES ASSUME IInv, DesksAsk, [Next]_vars PROVE DesksAsk'
  OBVIOUS
<1>0. desk \in [Desks -> DeskState] /\ month \in Months
  BY DEF IInv, TypeOK, DesksOK
<1>1. ASSUME NEW d \in Desks, AskLimit(d) PROVE DesksAsk'
  <2>1. /\ desk'[d].step = "limit" /\ desk'[d].period = month
        /\ \A o \in Desks \ {d} : desk'[o] = desk[o]
    BY <1>0, <1>1 DEF AskLimit, NoDesk
  <2>2. QED
    BY <1>0, <2>1 DEF DesksAsk
<1>2. ASSUME NEW d \in Desks, NEW p \in Paid, AskPlan(d, p) PROVE DesksAsk'
  <2>1. /\ desk'[d].step = "plan" /\ desk'[d].plan = p
        /\ \A o \in Desks \ {d} : desk'[o] = desk[o]
    BY <1>0, <1>2 DEF AskPlan, NoDesk
  <2>2. QED
    BY <1>0, <2>1 DEF DesksAsk
<1>3. ASSUME NEW d \in Desks, Answer(d) \/ DeskDies(d) PROVE DesksAsk'
  <2>1. desk' = [desk EXCEPT ![d].step = "resolving"] \/ desk' = [desk EXCEPT ![d] = NoDesk]
    BY <1>3 DEF Answer, KeepPause, ContinueOn, ContinuePast, AssignCovering, AssignSmall,
                ResolveNotices, DeskDies
  <2>2. desk'[d].step \in {"resolving", "idle"} /\ \A o \in Desks \ {d} : desk'[o] = desk[o]
    BY <1>0, <2>1 DEF NoDesk, DeskState
  <2>3. QED
    BY <2>2 DEF DesksAsk
<1>4. ASSUME NEW r \in Reports, Handle(r) \/ ReportDies(r) \/ \E m \in Messages : Resolve(r, m)
      PROVE DesksAsk'
  BY <1>4 DEF Handle, Record, Collided, Repeated, Bill, ResetPlan, Pause, Leave, Announce, ReportDies,
              Resolve, DesksAsk
<1>5. CASE \/ (\E m \in Messages : Deliver(m)) \/ (\E p \in Months : RecordCall(p))
           \/ MonthTurns \/ UNCHANGED vars
  BY <1>5 DEF Deliver, RecordCall, MonthTurns, vars, DesksAsk
<1>6. QED
  BY <1>1, <1>2, <1>3, <1>4, <1>5 DEF Next

\* The blocks for the messages and one more do cover them.
LEMMA BlocksCover ==
  ASSUME NEW total \in Nat, NEW included \in Nat, included <= total
  PROVE  total < included + ((total - included) \div BlockMessages + 1) * BlockMessages
<1> DEFINE n == total - included
           b == BlockMessages
<1>1. n \in Nat /\ b \in Nat /\ b > 0
  BY Catalog
<1>2. n \div b \in Int /\ n = b * (n \div b) + (n % b) /\ n % b < b /\ n % b \in Int
  BY <1>1
<1>3. (n \div b + 1) * b = b * (n \div b) + b
  BY <1>1, <1>2
<1>4. b * (n \div b) \in Int
  BY <1>1, <1>2
<1>5. n < (n \div b + 1) * b
  BY <1>1, <1>2, <1>3, <1>4
<1>6. (n \div b + 1) * b \in Int
  BY <1>1, <1>3, <1>4
<1>7. QED
  BY <1>5, <1>6

\* Whoever ends a pause leaves the number on a plan, or with blocks, that the
\* messages of the answer do not fill: the assistant does not pause again for
\* what was already sent (resolveLimit, assignPlan).
THEOREM LiftsLeaveRoom == Spec => LiftedWithRoom
<1>1. Init => DesksAsk
  BY DEF Init, DesksAsk, NoDesk
<1>2. IInv /\ DesksAsk /\ [Next]_vars =>
        [\A d \in Desks :
           /\ phone.pausedAt # NULL /\ phone'.pausedAt = NULL
           /\ desk[d].step # "resolving" /\ desk'[d].step = "resolving"
           /\ desk[d].period \in {NULL, month}
           => desk[d].total < Included(phone', month)]_vars
  <2> SUFFICES ASSUME IInv, DesksAsk, Next, NEW d \in Desks,
                      phone.pausedAt # NULL, phone'.pausedAt = NULL,
                      desk[d].step # "resolving", desk'[d].step = "resolving",
                      desk[d].period \in {NULL, month}
               PROVE desk[d].total < Included(phone', month)
    OBVIOUS
  <2> DEFINE total == desk[d].total
  <2>0. /\ desk \in [Desks -> DeskState] /\ month \in Months /\ phone \in Phone /\ NULL \notin Months
        /\ total \in Nat
    BY CatalogFacts DEF IInv, TypeOK, DesksOK, DeskState
  <2>1. PICK o \in Desks : AskLimit(o) \/ (\E p \in Paid : AskPlan(o, p)) \/ Answer(o) \/ DeskDies(o)
    <3>1. ~UNCHANGED desk
      OBVIOUS
    <3>2. QED
      BY <3>1 DEF Next, Deliver, Handle, Record, Collided, Repeated, Bill, ResetPlan, Pause, Leave, Announce,
                  ReportDies, Resolve, RecordCall, MonthTurns
  <2>2. o = d
    <3>1. \A e \in Desks \ {o} : desk'[e] = desk[e]
      BY <2>0, <2>1 DEF AskLimit, AskPlan, Answer, KeepPause, ContinueOn, ContinuePast,
                        AssignCovering, AssignSmall, ResolveNotices, DeskDies
    <3>2. QED
      BY <3>1
  <2>3. (\E p \in Paid : ContinueOn(d, p)) \/ ContinuePast(d) \/ AssignCovering(d)
    <3>1. /\ ~AskLimit(d)
          /\ ~\E p \in Paid : AskPlan(d, p)
          /\ ~(AssignSmall(d) \/ ResolveNotices(d) \/ DeskDies(d))
      <4>1. AskLimit(d) => desk'[d].step = "limit"
        BY <2>0 DEF AskLimit, NoDesk
      <4>2. \A p \in Paid : AskPlan(d, p) => desk'[d].step = "plan"
        BY <2>0 DEF AskPlan, NoDesk
      <4>3. AssignSmall(d) \/ ResolveNotices(d) \/ DeskDies(d) => desk' = [desk EXCEPT ![d] = NoDesk]
        BY DEF AssignSmall, ResolveNotices, DeskDies
      <4>4. desk' = [desk EXCEPT ![d] = NoDesk] => desk'[d].step = "idle"
        BY <2>0 DEF NoDesk
      <4>5. QED
        BY <4>1, <4>2, <4>3, <4>4
    <3>2. ~KeepPause(d)
      BY <2>0 DEF KeepPause, Phone
    <3>3. QED
      BY <2>1, <2>2, <3>1, <3>2 DEF Answer
  \* A paid plan without blocks includes what it includes in any month.
  <2>4. ASSUME NEW p \in Paid, total < p,
               phone' = [plan |-> p, pausedAt |-> NULL, confirmed |-> FALSE, blocks |-> 0, blocksFor |-> NULL]
        PROVE total < Included(phone', month)
    <3>1. phone'.plan = p /\ phone'.blocksFor # month
      BY <2>0, <2>4
    <3>2. AcceptedBlocks(phone', month) = 0
      BY <3>1 DEF AcceptedBlocks
    <3>3. AssignedPlan(phone'.plan, month) = p
      <4>1. p # NULL /\ p # Trial
        BY Catalog
      <4>2. QED
        BY <3>1, <4>1 DEF AssignedPlan
    <3>4. p \in Nat /\ BlockMessages \in Nat
      BY Catalog
    <3>5. Included(phone', month) = p
      BY <3>2, <3>3, <3>4 DEF Included
    <3>6. QED
      BY <2>4, <3>5
  <2>5. ASSUME NEW p \in Paid, ContinueOn(d, p) PROVE total < Included(phone', month)
    <3>1. total < p
      BY <2>0, <2>5, CatalogFacts DEF ContinueOn
    <3>2. QED
      BY <2>4, <2>5, <3>1 DEF ContinueOn
  <2>6. CASE AssignCovering(d)
    <3>1. desk[d].plan \in Paid /\ total < desk[d].plan
      BY <2>0, <2>6, CatalogFacts DEF AssignCovering, DesksAsk
    <3>2. QED
      BY <2>4, <2>6, <3>1 DEF AssignCovering
  <2>7. CASE ContinuePast(d)
    <3>1. Largest \in Nat /\ Largest <= total
      BY <2>7, CatalogFacts DEF ContinuePast
    <3>2. desk[d].period = month
      BY <2>0, <2>7 DEF ContinuePast, DesksAsk
    <3>3. /\ phone'.plan = Largest
          /\ phone'.blocks = (total - Largest) \div BlockMessages + 1
          /\ phone'.blocksFor = month
      BY <2>7, <3>2 DEF ContinuePast
    <3>4. AssignedPlan(phone'.plan, month) = Largest
      <4>1. Largest # NULL /\ Largest # Trial
        BY Catalog, CatalogFacts
      <4>2. QED
        BY <3>3, <4>1 DEF AssignedPlan
    <3>5. AcceptedBlocks(phone', month) = (total - Largest) \div BlockMessages + 1
      BY <3>3 DEF AcceptedBlocks
    <3>6. Included(phone', month) = Largest + ((total - Largest) \div BlockMessages + 1) * BlockMessages
      BY <3>4, <3>5 DEF Included
    <3>7. QED
      BY <2>0, <3>1, <3>6, BlocksCover
  <2>8. QED
    BY <2>3, <2>5, <2>6, <2>7
<1>3. QED
  BY <1>1, <1>2, Inductive, NextKeepsDesks, PTL DEF Spec, LiftedWithRoom

-----------------------------------------------------------------------------
(* The sum of the events' weights: MapThenSumSet takes the elements in an    *)
(* order of its own, so that one more element adds its weight has to be      *)
(* shown, by the smallest set for which it would not.                        *)

Total(S) == MapThenSumSet(Weight, S)
First(s) == CHOOSE x \in s : TRUE
Added(g, s) == IF s = {} THEN 0 ELSE Weight(First(s)) + g[s \ {First(s)}]
Adds(g, D) == g = [s \in D |-> Added(g, s)]

LEMMA SumIs ==
  ASSUME NEW S, NEW g, Adds(g, SUBSET S)
  PROVE  \E h : Adds(h, SUBSET S) /\ Total(S) = h[S]
<1> DEFINE h == CHOOSE iter : iter = [s \in SUBSET S |->
                 IF s = {} THEN 0
                 ELSE LET x == CHOOSE x \in s : TRUE IN Weight(x) + iter[s \ {x}]]
<1>1. Total(S) = h[S]
  BY Zenon DEF Total, MapThenSumSet, MapThenFoldSet
<1>2. Adds(h, SUBSET S)
  BY DEF Adds, Added, First
<1> QED
  BY <1>1, <1>2

\* Of some numbers, one is the least.
LEMMA LeastOne ==
  ASSUME NEW N \in SUBSET Nat, N # {}
  PROVE  \E n \in N : \A m \in N : n <= m
<1> DEFINE R == OpToRel(<, Nat)
<1>1. IsWellFoundedOn(R, Nat)
  BY NatLessThanWellFounded, Zenon
<1> HIDE DEF R
<1>2. PICK a \in N : \A b \in N : ~(<<b, a>> \in R)
  BY <1>1, WFMin
<1>3. ASSUME NEW b \in N PROVE a <= b
  <2>1. a \in Nat /\ b \in Nat /\ ~(<<b, a>> \in R)
    BY <1>2
  <2>2. ~(b < a)
    BY <2>1 DEF R, OpToRel
  <2> QED
    BY <2>1, <2>2
<1> QED
  BY <1>2, <1>3

\* Among some subsets of a finite set, one is the smallest.
LEMMA FewestOne ==
  ASSUME NEW S, IsFiniteSet(S), NEW F \in SUBSET SUBSET S, F # {}
  PROVE  \E T \in F : \A U \in F : Cardinality(T) <= Cardinality(U)
<1> DEFINE N == {Cardinality(T) : T \in F}
<1>1. \A T \in F : Cardinality(T) \in Nat
  BY FS_Subset, FS_CardinalityType
<1>2. N \in SUBSET Nat /\ N # {}
  BY <1>1
<1>3. PICK n \in N : \A m \in N : n <= m
  BY <1>2, LeastOne
<1> QED
  BY <1>3

Few(S, n) == {s \in SUBSET S : Cardinality(s) <= n}

\* The element taken first leaves fewer.
LEMMA FirstLeavesFewer ==
  ASSUME NEW S, IsFiniteSet(S), S # {}
  PROVE  /\ First(S) \in S /\ IsFiniteSet(S \ {First(S)})
         /\ Cardinality(S) \in Nat /\ Cardinality(S \ {First(S)}) \in Nat
         /\ Cardinality(S \ {First(S)}) = Cardinality(S) - 1
<1>1. First(S) \in S
  BY DEF First
<1> QED
  BY <1>1, FS_RemoveElement, FS_CardinalityType

\* The function that adds exists over the subsets of a finite set: there is one
\* over those of n elements at most, for every n.
LEMMA AdderExists ==
  ASSUME NEW S, IsFiniteSet(S)
  PROVE  \E g : Adds(g, SUBSET S)
<1> DEFINE Bad == {n \in Nat : ~\E g : Adds(g, Few(S, n))}
<1>0. \A s \in SUBSET S : IsFiniteSet(s) /\ Cardinality(s) \in Nat /\ Cardinality(s) <= Cardinality(S)
  BY FS_Subset, FS_CardinalityType
<1>1. Bad = {}
  <2> SUFFICES ASSUME Bad # {} PROVE FALSE
    OBVIOUS
  <2>1. PICK n \in Bad : \A m \in Bad : n <= m
    BY LeastOne
  <2>2. n \in Nat /\ ~\E g : Adds(g, Few(S, n))
    OBVIOUS
  <2>3. CASE n = 0
    <3> DEFINE g == [s \in Few(S, n) |-> 0]
    <3>1. \A s \in Few(S, n) : s = {}
      BY <1>0, <2>3, FS_EmptySet DEF Few
    <3>2. Adds(g, Few(S, n))
      BY <3>1 DEF Adds, Added
    <3> QED
      BY <2>2, <3>2
  <2>4. CASE n # 0
    <3>1. n - 1 \in Nat /\ n - 1 \notin Bad
      BY <2>1, <2>2, <2>4
    <3>2. PICK g : Adds(g, Few(S, n - 1))
      BY <3>1
    <3> DEFINE h == [s \in Few(S, n) |-> Added(g, s)]
    <3>3. ASSUME NEW s \in Few(S, n - 1) PROVE s \in Few(S, n) /\ h[s] = g[s]
      <4>1. s \in Few(S, n)
        BY <1>0, <2>2 DEF Few
      <4>2. g[s] = Added(g, s)
        BY <3>2 DEF Adds
      <4> QED
        BY <4>1, <4>2
    <3>4. ASSUME NEW s \in Few(S, n), s # {} PROVE s \ {First(s)} \in Few(S, n - 1)
      <4>1. IsFiniteSet(s) /\ s \in SUBSET S /\ Cardinality(s) <= n
        BY <1>0 DEF Few
      <4>2. Cardinality(s) \in Nat /\ Cardinality(s \ {First(s)}) = Cardinality(s) - 1
        BY <3>4, <4>1, FirstLeavesFewer
      <4> QED
        BY <2>2, <4>1, <4>2 DEF Few
    <3>5. \A s \in Few(S, n) : Added(h, s) = Added(g, s)
      <4> HIDE DEF h
      <4> QED
        BY <3>3, <3>4 DEF Added
    <3>6. h = [s \in Few(S, n) |-> Added(h, s)]
      BY <3>5
    <3> HIDE DEF h
    <3>7. Adds(h, Few(S, n))
      BY <3>6 DEF Adds
    <3> QED
      BY <2>2, <3>7
  <2> QED
    BY <2>3, <2>4
<1>2. Few(S, Cardinality(S)) = SUBSET S /\ Cardinality(S) \in Nat
  BY <1>0 DEF Few
<1>3. Cardinality(S) \notin Bad
  BY <1>1
<1> HIDE DEF Bad
<1> QED
  BY <1>1, <1>2, <1>3 DEF Bad

LEMMA WeightIs == \A m : Weight(m) \in Nat
BY DEF Weight

\* What is added is a number, and does not depend on the set whose subsets
\* the function is over.
LEMMA AdderAlike ==
  ASSUME NEW S, IsFiniteSet(S), NEW V \in SUBSET S, NEW g, Adds(g, SUBSET S), NEW h, Adds(h, SUBSET V)
  PROVE  \A T \in SUBSET V : g[T] = h[T] /\ h[T] \in Nat
<1> DEFINE Bad == {T \in SUBSET V : ~(g[T] = h[T] /\ h[T] \in Nat)}
<1> SUFFICES ASSUME Bad # {} PROVE FALSE
  OBVIOUS
<1>0. IsFiniteSet(V)
  BY FS_Subset
<1>1. PICK T \in Bad : \A U \in Bad : Cardinality(T) <= Cardinality(U)
  BY <1>0, FewestOne
<1>2. T \in SUBSET V /\ T \in SUBSET S /\ ~(g[T] = h[T] /\ h[T] \in Nat)
  OBVIOUS
<1>3. g[T] = Added(g, T) /\ h[T] = Added(h, T)
  BY <1>2 DEF Adds
<1>4. T # {}
  BY <1>2, <1>3 DEF Added
<1>5. IsFiniteSet(T)
  BY <1>0, <1>2, FS_Subset
<1> DEFINE U == T \ {First(T)}
<1>6. U \in SUBSET V /\ ~(Cardinality(T) <= Cardinality(U))
  <2>1. Cardinality(T) \in Nat /\ Cardinality(U) = Cardinality(T) - 1
    BY <1>4, <1>5, FirstLeavesFewer
  <2> QED
    BY <1>2, <2>1
<1>7. U \notin Bad
  BY <1>1, <1>6
<1>8. g[U] = h[U] /\ h[U] \in Nat
  BY <1>6, <1>7
<1>9. g[T] = Weight(First(T)) + g[U] /\ h[T] = Weight(First(T)) + h[U]
  BY <1>3, <1>4 DEF Added
<1> HIDE DEF U, Bad
<1> QED
  BY <1>2, <1>8, <1>9, WeightIs

\* Whichever element is added first, the sum is the same.
AddsAnyFirst(g, T) == \A e \in T : g[T] = Weight(e) + g[T \ {e}]

LEMMA AnyFirst ==
  ASSUME NEW S, IsFiniteSet(S), NEW g, Adds(g, SUBSET S)
  PROVE  \A T \in SUBSET S : AddsAnyFirst(g, T)
<1> DEFINE Bad == {T \in SUBSET S : ~AddsAnyFirst(g, T)}
<1> SUFFICES ASSUME Bad # {} PROVE FALSE
  OBVIOUS
<1>1. PICK T \in Bad : \A U \in Bad : Cardinality(T) <= Cardinality(U)
  BY FewestOne
<1>2. T \in SUBSET S /\ ~AddsAnyFirst(g, T)
  OBVIOUS
<1>3. PICK e \in T : g[T] # Weight(e) + g[T \ {e}]
  BY <1>2 DEF AddsAnyFirst
<1> DEFINE x == First(T)
           U == T \ {x}
           W == T \ {e}
<1>4. IsFiniteSet(T) /\ T # {}
  BY <1>2, FS_Subset
<1>5. /\ x \in T /\ U \in SUBSET S /\ W \in SUBSET S
      /\ ~(Cardinality(T) <= Cardinality(U)) /\ ~(Cardinality(T) <= Cardinality(W))
  <2>1. x \in T /\ Cardinality(T) \in Nat /\ Cardinality(U) = Cardinality(T) - 1
    BY <1>4, FirstLeavesFewer
  <2>2. Cardinality(W) = Cardinality(T) - 1
    BY <1>3, <1>4, FS_RemoveElement
  <2> QED
    BY <1>2, <2>1, <2>2
<1>6. g[T] = Weight(x) + g[U]
  BY <1>2, <1>4 DEF Adds, Added
<1>7. x # e
  BY <1>3, <1>6
<1>8. U \notin Bad /\ W \notin Bad
  BY <1>1, <1>5
<1>9. e \in U /\ x \in W
  BY <1>3, <1>5, <1>7
<1>10. g[U] = Weight(e) + g[U \ {e}]
  BY <1>5, <1>8, <1>9 DEF AddsAnyFirst
<1>11. g[W] = Weight(x) + g[W \ {x}]
  BY <1>5, <1>8, <1>9 DEF AddsAnyFirst
<1>12. U \ {e} = W \ {x} /\ U \ {e} \in SUBSET S
  BY <1>5
<1>13. \A Z \in SUBSET S : g[Z] \in Nat
  BY AdderAlike
<1> HIDE DEF Bad, x, U, W
<1>14. g[U \ {e}] \in Nat /\ g[W \ {x}] = g[U \ {e}]
  BY <1>12, <1>13
<1>15. g[T] = Weight(x) + (Weight(e) + g[U \ {e}]) /\ g[W] = Weight(x) + g[U \ {e}]
  BY <1>6, <1>10, <1>11, <1>14
<1>16. g[T] = Weight(e) + g[W]
  BY <1>14, <1>15, WeightIs
<1> QED
  BY <1>3, <1>16 DEF W

\* MapThenSumSet: nothing of nothing; one more element adds its weight.
LEMMA SumOfNone == Total({}) = 0
<1>1. PICK g : Adds(g, SUBSET {})
  BY AdderExists, FS_EmptySet
<1>2. PICK h : Adds(h, SUBSET {}) /\ Total({}) = h[{}]
  BY <1>1, SumIs
<1> QED
  BY <1>2 DEF Adds, Added

LEMMA SumOfOneMore ==
  ASSUME NEW S, IsFiniteSet(S), NEW e, e \notin S
  PROVE  /\ Total(S) \in Nat
         /\ Total(S \cup {e}) = Total(S) + Weight(e)
<1> DEFINE More == S \cup {e}
<1>1. IsFiniteSet(More)
  BY FS_AddElement
<1>2. PICK g : Adds(g, SUBSET More) /\ Total(More) = g[More]
  BY <1>1, AdderExists, SumIs
<1>3. PICK h : Adds(h, SUBSET S) /\ Total(S) = h[S]
  BY AdderExists, SumIs
<1>4. S \in SUBSET More /\ e \in More /\ More \ {e} = S
  OBVIOUS
<1> HIDE DEF More
<1>5. g[S] = h[S] /\ h[S] \in Nat
  <2>1. Adds(g, SUBSET More) /\ Adds(h, SUBSET S)
    BY <1>2, <1>3
  <2>2. \A T \in SUBSET S : g[T] = h[T] /\ h[T] \in Nat
    BY ONLY <1>1, <1>4, <2>1, AdderAlike
  <2> QED
    BY <2>2
<1>6. g[More] = Weight(e) + g[More \ {e}]
  <2>1. Adds(g, SUBSET More)
    BY <1>2
  <2>2. \A T \in SUBSET More : AddsAnyFirst(g, T)
    BY ONLY <1>1, <2>1, AnyFirst
  <2>3. AddsAnyFirst(g, More)
    BY <2>2
  <2> QED
    BY <1>4, <2>3 DEF AddsAnyFirst
<1>7. Total(S) \in Nat /\ Total(More) = Total(S) + Weight(e)
  <2>1. Total(More) = g[More] /\ Total(S) = h[S]
    BY <1>2, <1>3
  <2>2. g[More] = Weight(e) + h[S]
    BY <1>4, <1>5, <1>6
  <2> QED
    BY <2>1, <2>2, <1>5, WeightIs
<1> QED
  BY <1>7 DEF More
-----------------------------------------------------------------------------
(* What is counted *)

EventsOf(p) == {m \in recorded : delivered[m] = p}

\* An event is of a message that was delivered, and each month has the sum of its events.
CountsHold ==
  /\ IsFiniteSet(recorded)
  /\ \A m \in recorded : delivered[m] \in Months
  /\ \A p \in Months : used[p] = Total(EventsOf(p))

\* What touches the counters: a delivery and a transaction of a report.
LEMMA WhoCounts ==
  ASSUME [Next]_vars
  PROVE  \/ \E m \in Messages : Deliver(m)
         \/ \E r \in Reports : Record(r)
         \/ UNCHANGED <<delivered, recorded, used>>
<1>1. ASSUME NEW r \in Reports, NEW m \in Messages, Resolve(r, m)
      PROVE UNCHANGED <<delivered, recorded, used>>
  BY <1>1 DEF Resolve, usage
<1>2. ASSUME NEW r \in Reports,
             \/ Collided(r) \/ Repeated(r) \/ Bill(r) \/ ResetPlan(r)
             \/ Pause(r) \/ Leave(r) \/ Announce(r) \/ ReportDies(r)
      PROVE  UNCHANGED <<delivered, recorded, used>>
  BY <1>2 DEF Collided, Repeated, Bill, ResetPlan, Pause, Leave, Announce, ReportDies, usage
<1>3. ASSUME NEW d \in Desks,
             AskLimit(d) \/ (\E p \in Paid : AskPlan(d, p)) \/ Answer(d) \/ DeskDies(d)
      PROVE  UNCHANGED <<delivered, recorded, used>>
  BY <1>3 DEF AskLimit, AskPlan, Answer, KeepPause, ContinueOn, ContinuePast,
              AssignCovering, AssignSmall, ResolveNotices, DeskDies, usage
<1>4. CASE (\E p \in Months : RecordCall(p)) \/ MonthTurns \/ UNCHANGED vars
  BY <1>4 DEF RecordCall, MonthTurns, vars, usage
<1> QED
  BY <1>1, <1>2, <1>3, <1>4 DEF Next, Handle

LEMMA NextKeepsCounts == IInv /\ CountsHold /\ [Next]_vars => CountsHold'
<1> SUFFICES ASSUME IInv, CountsHold, [Next]_vars PROVE CountsHold'
  OBVIOUS
<1>0. delivered \in [Messages -> Months \cup {NULL}] /\ used \in [Months -> Nat] /\ recorded \subseteq Messages
  BY DEF IInv, TypeOK
<1>1. ASSUME NEW m \in Messages, Deliver(m) PROVE CountsHold'
  <2>1. recorded' = recorded /\ used' = used /\ m \notin recorded
    BY <1>1, CatalogFacts DEF Deliver, CountsHold
  <2>2. \A n \in recorded : delivered'[n] = delivered[n]
    BY <1>0, <1>1, <2>1 DEF Deliver
  <2>3. \A p \in Months : EventsOf(p)' = EventsOf(p)
    BY <2>1, <2>2 DEF EventsOf
  <2> QED
    BY <2>1, <2>2, <2>3 DEF CountsHold
<1>2. ASSUME NEW r \in Reports, Record(r) PROVE CountsHold'
  <2> DEFINE m == report[r].msg
             at == delivered[m]
  <2>1. /\ m \notin recorded /\ recorded' = recorded \cup {m} /\ delivered' = delivered
        /\ used' = [used EXCEPT ![at] = @ + Weight(m)]
    BY <1>2 DEF Record
  <2>2. at \in Months
    BY <1>2 DEF Record, IInv, ReportsStarted
  <2>3. IsFiniteSet(recorded') /\ \A n \in recorded' : delivered'[n] \in Months
    BY <2>1, <2>2, FS_AddElement DEF CountsHold
  <2>4. ASSUME NEW p \in Months PROVE used'[p] = Total(EventsOf(p))'
    <3>1. IsFiniteSet(EventsOf(p)) /\ m \notin EventsOf(p) /\ used[p] = Total(EventsOf(p))
      BY <2>1, FS_Subset DEF EventsOf, CountsHold
    <3>2. CASE p = at
      <4>1. EventsOf(p)' = EventsOf(p) \cup {m}
        BY <2>1, <3>2 DEF EventsOf
      <4>2. used'[p] = used[p] + Weight(m)
        BY <1>0, <2>1, <2>2, <3>2
      <4>3. Total(EventsOf(p) \cup {m}) = Total(EventsOf(p)) + Weight(m)
        BY <3>1, SumOfOneMore
      <4> QED
        BY <3>1, <4>1, <4>2, <4>3 DEF Total
    <3>3. CASE p # at
      <4>1. EventsOf(p)' = EventsOf(p) /\ used'[p] = used[p]
        BY <1>0, <2>1, <2>2, <3>3 DEF EventsOf
      <4> QED
        BY <3>1, <4>1
    <3> QED
      BY <3>2, <3>3
  <2> QED
    BY <2>3, <2>4 DEF CountsHold
<1>3. CASE UNCHANGED <<delivered, recorded, used>>
  <2>1. recorded' = recorded /\ used' = used /\ delivered' = delivered
    BY <1>3
  <2>2. \A p \in Months : EventsOf(p)' = EventsOf(p)
    BY <2>1 DEF EventsOf
  <2> QED
    BY <2>1, <2>2 DEF CountsHold
<1> QED
  BY <1>1, <1>2, <1>3, WhoCounts

\* However many reports of a message come, at once or after failures, it is counted
\* once, in the month it was delivered: the month's counter is the sum of its events
\* (recordMeta's transaction and its unique index).
THEOREM MessagesCountOnce == Spec => []CountedOnce
<1>1. Init => CountsHold
  <2> SUFFICES ASSUME Init PROVE CountsHold
    OBVIOUS
  <2>1. recorded = {} /\ \A p \in Months : used[p] = 0
    BY DEF Init
  <2>2. \A p \in Months : EventsOf(p) = {}
    BY <2>1 DEF EventsOf
  <2> QED
    BY <2>1, <2>2, SumOfNone, FS_EmptySet DEF CountsHold
<1>2. IInv /\ CountsHold /\ [Next]_vars => CountsHold'
  BY NextKeepsCounts
<1>3. CountsHold => CountedOnce
  BY DEF CountsHold, CountedOnce, EventsOf, Total
<1> QED
  BY <1>1, <1>2, <1>3, Inductive, PTL DEF Spec
=============================================================================
