----------------------------- MODULE PlanCatalog -----------------------------
(* The catalog of message plans (BillingService), the functions each plan      *)
(* includes (PlanFeaturesService) and the plan each number of an office is on  *)
(* (UsageService). The owner has several tabs; each request is a few queries.  *)
EXTENDS Naturals, FiniteSets

CONSTANTS
  Plans,      \* ids, in the order of creation
  Sizes,      \* messages a plan may include
  Features,   \* functions of the panel
  DefaultOn,  \* those a plan that never set them includes
  Lines,      \* numbers of the office
  Desks,      \* requests that may run at once
  NoPlan,
  MaxOrders   \* bound: requests

ASSUME CatalogParameters ==
  /\ Plans \subseteq Nat /\ 1 \in Plans /\ Lines # {} /\ Sizes \subseteq Nat /\ Sizes # {}
  /\ DefaultOn \subseteq Features /\ NoPlan \notin Plans /\ MaxOrders \in Nat

VARIABLES
  plans,     \* MessagePlan
  lines,     \* the numbers: plan, isActive and whether they are in their first month
  onTrial,   \* the office was created after the trial's date
  roles,     \* PlanFeatureRole: the functions each role has off
  desks, orders,
  crossed    \* history: two requests were in course at once

catalogVars == <<plans, lines, onTrial, roles, desks, orders, crossed>>

OfficeRoles == {"ADMIN", "SUPERADMIN"}
Setting == {"unset", "on", "off"}
PlanRow == [made : BOOLEAN, live : BOOLEAN, active : BOOLEAN, trial : BOOLEAN, free : BOOLEAN,
            messages : Sizes, features : [Features -> Setting]]
NoRowYet == [made |-> FALSE, live |-> FALSE, active |-> FALSE, trial |-> FALSE, free |-> FALSE,
             messages |-> CHOOSE s \in Sizes : TRUE, features |-> [f \in Features |-> "unset"]]

NoPlans == [p \in Plans |-> NoRowYet]

\* What a request changes of a plan: each field has its new value, or none.
Same == [active |-> {}, trial |-> {}, free |-> {}, messages |-> {}, on |-> {}, off |-> {}]
FunctionChanges == {Same} \cup {[Same EXCEPT !.on = {f}] : f \in Features} \cup {[Same EXCEPT !.off = {f}] : f \in Features}
PlanChanges ==
  {[Same EXCEPT !.active = {v}] : v \in BOOLEAN} \cup {[Same EXCEPT !.trial = {v}] : v \in BOOLEAN}
  \cup {[Same EXCEPT !.free = {v}] : v \in BOOLEAN} \cup {[Same EXCEPT !.trial = {v}, !.free = {v}] : v \in BOOLEAN}
  \cup {[Same EXCEPT !.messages = {s}] : s \in Sizes}
  \cup FunctionChanges
Or(new, old) == IF new = {} THEN old ELSE CHOOSE v \in new : TRUE

Free == [step |-> "free", op |-> "none", plan |-> NoPlan, line |-> CHOOSE l \in Lines : TRUE, row |-> NoRowYet,
         change |-> Same, off |-> {}]

CatalogTypeOK ==
  /\ plans \in [Plans -> PlanRow]
  /\ \A l \in Lines : /\ lines[l].plan \in Plans \cup {NoPlan} /\ lines[l].kind \in {"none", "on", "off"}
                      /\ lines[l].first \in BOOLEAN
  /\ onTrial \in BOOLEAN /\ roles \in [OfficeRoles -> SUBSET Features]
  /\ \A d \in Desks : /\ desks[d].step \in {"free", "found", "alone", "checked"} /\ desks[d].row \in PlanRow
                      /\ desks[d].plan \in Plans \cup {NoPlan}
  /\ orders \in 0..MaxOrders /\ crossed \in BOOLEAN

\* A catalog with one paid plan.
CatalogInit ==
  /\ \E stored \in [Features -> Setting] :
       plans = [NoPlans EXCEPT ![1] = [@ EXCEPT !.made = TRUE, !.live = TRUE, !.active = TRUE, !.features = stored]]
  /\ lines = [l \in Lines |-> [plan |-> NoPlan, kind |-> "none", first |-> TRUE]]
  /\ onTrial \in BOOLEAN /\ roles = [r \in OfficeRoles |-> {}]
  /\ desks = [d \in Desks |-> Free] /\ orders = 0 /\ crossed = FALSE

-----------------------------------------------------------------------------
(* What a number is on, and what it includes *)

Catalog == {p \in Plans : plans[p].live}
Paid == {p \in Catalog : ~plans[p].trial}
ActivePaid == {p \in Paid : plans[p].active}

\* catalog() and paidPlans: smallest first.
Before(p, q) == plans[p].messages < plans[q].messages \/ (plans[p].messages = plans[q].messages /\ p < q)
Smallest(S) == IF S = {} THEN NoPlan ELSE CHOOSE p \in S : \A q \in S \ {p} : Before(p, q)

\* assignedPlanFor: the assigned plan, the trial only in the first month, or the
\* smallest paid one.
AssignedPlan(p, first) ==
  IF p \in Catalog /\ (plans[p].trial => first) THEN p
  ELSE IF ActivePaid # {} THEN Smallest(ActivePaid) ELSE Smallest(Paid)
PlanOf(l) == AssignedPlan(lines[l].plan, lines[l].first)

\* initialPlanIdFor: a new account's numbers start on the trial.
Trials == {p \in Catalog : plans[p].active /\ plans[p].trial}
InitialPlan == IF onTrial /\ Trials # {} THEN CHOOSE p \in Trials : \A q \in Trials : p <= q ELSE NoPlan

\* featuresOf: what a plan never set has its default.
FeaturesOf(stored) == {f \in Features : stored[f] = "on" \/ (stored[f] = "unset" /\ f \in DefaultOn)}
FeaturesOfPlan(p) == IF p = NoPlan THEN DefaultOn ELSE FeaturesOf(plans[p].features)

ActiveLines == {l \in Lines : lines[l].kind = "on"}

\* organizationFeatures: one number's plan that includes it is enough.
OfficeFeatures ==
  IF ActiveLines = {} THEN FeaturesOfPlan(AssignedPlan(InitialPlan, TRUE))
  ELSE UNION {FeaturesOfPlan(PlanOf(l)) : l \in ActiveLines}

\* forUser.
FeaturesFor(role) == OfficeFeatures \ roles[role]
BlockedByRole(role) == OfficeFeatures \cap roles[role]
AvailableIn(f) == Smallest({p \in ActivePaid : f \in FeaturesOfPlan(p)})

\* keepWith: the numbers that may send what needs a function.
KeepWith(f) == {l \in ActiveLines : f \in FeaturesOfPlan(PlanOf(l))}

-----------------------------------------------------------------------------
(* The owner's requests *)

Start(d, request) ==
  /\ desks[d].step = "free" /\ orders < MaxOrders /\ orders' = orders + 1
  /\ desks' = [desks EXCEPT ![d] = request]
  /\ crossed' = (crossed \/ \E e \in Desks \ {d} : desks[e].step # "free")
  /\ UNCHANGED <<plans, lines, onTrial, roles>>

\* withChanges: every function, as it was read, with the change.
WithChanges(stored, change) ==
  IF change.on \cup change.off = {} THEN stored
  ELSE [f \in Features |-> IF f \in (FeaturesOf(stored) \cup change.on) \ change.off THEN "on" ELSE "off"]

\* createPlan checks only that a trial is free and the only one.
AskCreate(d, trial, free, size, change) ==
  /\ trial => free
  /\ Start(d, [Free EXCEPT !.step = "found", !.op = "create",
                           !.row = [NoRowYet EXCEPT !.trial = trial, !.free = free, !.messages = size,
                                             !.features = WithChanges(@, change)]])

\* findPlan, for updatePlan and removePlan.
AskUpdate(d, p, change) ==
  /\ p \in Catalog /\ (Or(change.trial, plans[p].trial) => Or(change.free, plans[p].free))
  /\ Start(d, [Free EXCEPT !.step = "found", !.op = "update", !.plan = p, !.row = plans[p], !.change = change])
AskRemove(d, p) ==
  /\ p \in Catalog
  /\ Start(d, [Free EXCEPT !.step = "found", !.op = "remove", !.plan = p, !.row = plans[p]])

NextActive(d) == Or(desks[d].change.active, desks[d].row.active)
NextTrial(d) == Or(desks[d].change.trial, desks[d].row.trial)

\* The last active paid plan cannot go, nor become the trial.
LeavesPaid(d) ==
  /\ desks[d].row.active /\ ~desks[d].row.trial
  /\ \/ desks[d].op = "remove"
     \/ desks[d].op = "update" /\ (~NextActive(d) \/ NextTrial(d))

NeedsOnlyTrial(d) ==
  \/ desks[d].op = "create" /\ desks[d].row.trial
  \/ desks[d].op = "update" /\ NextTrial(d) /\ NextActive(d)

GoOn(d, refused, step) ==
  /\ desks' = [desks EXCEPT ![d] = IF refused THEN Free ELSE [@ EXCEPT !.step = step]]
  /\ UNCHANGED <<plans, lines, onTrial, roles, orders, crossed>>

\* The two checks are two reads; the requests one does not concern pass it.
AssertNoOtherTrial(d) ==
  /\ desks[d].step = "found" /\ desks[d].op \in {"create", "update", "remove"}
  /\ GoOn(d, NeedsOnlyTrial(d) /\ Trials \ {desks[d].plan} # {}, "alone")

AssertKeepsAPaidPlan(d) ==
  /\ desks[d].step = "alone"
  /\ GoOn(d, LeavesPaid(d) /\ ActivePaid \ {desks[d].plan} = {}, "checked")

CreatePlan(d) ==
  /\ desks[d].step = "checked" /\ desks[d].op = "create"
  /\ \E p \in Plans :
       /\ ~plans[p].made
       /\ plans' = [plans EXCEPT ![p] = [desks[d].row EXCEPT !.made = TRUE, !.live = TRUE, !.active = TRUE]]
  /\ desks' = [desks EXCEPT ![d] = Free]
  /\ UNCHANGED <<lines, onTrial, roles, orders, crossed>>

\* The row is written whatever became of it since it was found.
UpdatePlan(d) ==
  LET p == desks[d].plan
      change == desks[d].change
      functions == change.on \cup change.off
  IN /\ desks[d].step = "checked" /\ desks[d].op = "update"
     /\ plans' = [plans EXCEPT ![p].active = Or(change.active, @), ![p].trial = Or(change.trial, @),
                               ![p].free = Or(change.free, @), ![p].messages = Or(change.messages, @),
                               ![p].features = IF functions = {} THEN @ ELSE WithChanges(desks[d].row.features, change)]
     /\ desks' = [desks EXCEPT ![d] = Free]
     /\ UNCHANGED <<lines, onTrial, roles, orders, crossed>>

\* Its numbers go back to the smallest paid plan, in one transaction.
RemovePlan(d) ==
  /\ desks[d].step = "checked" /\ desks[d].op = "remove"
  /\ plans' = [plans EXCEPT ![desks[d].plan].live = FALSE, ![desks[d].plan].active = FALSE]
  /\ lines' = [l \in Lines |-> IF lines[l].plan = desks[d].plan THEN [lines[l] EXCEPT !.plan = NoPlan] ELSE lines[l]]
  /\ desks' = [desks EXCEPT ![d] = Free]
  /\ UNCHANGED <<onTrial, roles, orders, crossed>>

\* setRoles reads the rows of the function and writes both roles.
AskRoles(d, role, f, on) ==
  Start(d, [Free EXCEPT !.step = "found", !.op = "roles", !.change = [Same EXCEPT !.on = {f}],
                        !.off = {r \in OfficeRoles : IF r = role THEN ~on ELSE f \in roles[r]}])

SetRoles(d) ==
  /\ desks[d].step = "found" /\ desks[d].op = "roles"
  /\ roles' = [r \in OfficeRoles |-> IF r \in desks[d].off THEN roles[r] \cup desks[d].change.on
                                     ELSE roles[r] \ desks[d].change.on]
  /\ desks' = [desks EXCEPT ![d] = Free]
  /\ UNCHANGED <<plans, lines, onTrial, orders, crossed>>

-----------------------------------------------------------------------------
(* The numbers *)

\* assignPlan: an active paid plan.
Assignable == {p \in Catalog : plans[p].active /\ ~plans[p].trial}

AskPlan(d, l, p) ==
  /\ lines[l].kind # "none" /\ p \in Assignable
  /\ Start(d, [Free EXCEPT !.step = "found", !.op = "assign", !.line = l, !.plan = p])

\* A new number starts on the trial, if its account is new.
AskNumber(d, l) ==
  /\ lines[l].kind = "none"
  /\ Start(d, [Free EXCEPT !.step = "found", !.op = "number", !.line = l, !.plan = InitialPlan])

PutOnPlan(d) ==
  /\ desks[d].step = "found" /\ desks[d].op \in {"assign", "number"}
  /\ lines' = [lines EXCEPT ![desks[d].line].plan = desks[d].plan,
                            ![desks[d].line].kind = IF desks[d].op = "number" THEN "on" ELSE @]
  /\ desks' = [desks EXCEPT ![d] = Free]
  /\ UNCHANGED <<plans, onTrial, roles, orders, crossed>>

SwitchLine(l) ==
  /\ lines[l].kind # "none"
  /\ lines' = [lines EXCEPT ![l].kind = IF @ = "on" THEN "off" ELSE "on"]
  /\ UNCHANGED <<plans, onTrial, roles, desks, orders, crossed>>

FirstMonthEnds(l) ==
  /\ lines[l].kind # "none" /\ lines[l].first
  /\ lines' = [lines EXCEPT ![l].first = FALSE]
  /\ UNCHANGED <<plans, onTrial, roles, desks, orders, crossed>>

CatalogNext ==
  \/ \E d \in Desks :
       \/ \E trial, free \in BOOLEAN, s \in Sizes, c \in FunctionChanges : AskCreate(d, trial, free, s, c)
       \/ \E p \in Plans : \/ AskRemove(d, p) \/ \E c \in PlanChanges : AskUpdate(d, p, c)
                           \/ \E l \in Lines : AskPlan(d, l, p)
       \/ \E r \in OfficeRoles, f \in Features, on \in BOOLEAN : AskRoles(d, r, f, on)
       \/ \E l \in Lines : AskNumber(d, l)
       \/ AssertNoOtherTrial(d) \/ AssertKeepsAPaidPlan(d) \/ CreatePlan(d) \/ UpdatePlan(d) \/ RemovePlan(d) \/ SetRoles(d) \/ PutOnPlan(d)
  \/ \E l \in Lines : SwitchLine(l) \/ FirstMonthEnds(l)

CatalogSpec == CatalogInit /\ [][CatalogNext]_catalogVars

-----------------------------------------------------------------------------
(* Properties *)

\* "Billing needs a paid plan to fall back on" (assertKeepsAPaidPlan), and there
\* is one trial at most, a free one, as long as one request is served at a time.
CatalogStands ==
  ~crossed => /\ ActivePaid # {} /\ Cardinality(Trials) <= 1
              /\ \A p \in Catalog : plans[p].trial => plans[p].free

\* "Its numbers go back to the smallest paid plan" (removePlan): no number is on a
\* plan that is gone.
NoGonePlan == ~crossed => \A l \in Lines : lines[l].plan # NoPlan => lines[l].plan \in Catalog

\* The plan the panel names for a locked function gives it (availableIn): a number
\* in service that moves to a plan may send with all that the plan includes, and
\* nothing but the role hides it from the office.
UpgradeUnlocks ==
  \A d \in Desks : desks[d].op = "assign" /\ desks'[d].op = "none" /\ ~crossed' /\ lines[desks[d].line].kind = "on" =>
       \A f \in FeaturesOfPlan(desks[d].plan) :
         /\ desks[d].line \in KeepWith(f)'
         /\ \A r \in OfficeRoles : f \in (FeaturesFor(r) \cup BlockedByRole(r))'

\* The same with two requests at once.
AlwaysAPaidPlan == ActivePaid # {}
AlwaysOneTrial == Cardinality(Trials) <= 1

\* A change of one role leaves the other as it is.
OtherRoleStays ==
  [][\A d \in Desks : desks[d].op = "roles" /\ desks'[d].op = "none" =>
       \E r \in OfficeRoles : roles'[r] = roles[r]]_catalogVars
=============================================================================
