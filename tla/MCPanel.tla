------------------------------- MODULE MCPanel -------------------------------
(* What people do in the panel: ask the assistant ("chat") and confirm the     *)
(* cards it shows ("changes"), manage the accounts and the numbers ("access"), *)
(* the hours ("hours"), the message plans ("plans") and the coverages          *)
(* ("coverages"). Each behaviour is one of a part, the others at rest.         *)
EXTENDS AssistantChanges, AssistantChat, OfficeAccess, OfficeHours, PlanCatalog, CoverageSettings, TLC

VARIABLE part

panelVars == <<part, changeVars, chatVars, accessVars, hoursVars, catalogVars, coverVars>>

\* Ranges of slots: two shifts out of order, one late at night, two that overlap.
MCRaws == {<<(<<3, 4>>), (<<1, 2>>)>>, <<(<<0, 2>>), (<<1, 3>>)>>}

\* Requests and quotes are told apart by nothing but their name. As one part is at
\* work at a time, both pairs are swapped at once, or none.
MCPairs == {Calls, Quotes}
MCTwin(x) == CHOOSE y \in UNION {p \in MCPairs : x \in p} : y # x
MCTwins ==
  {[x \in UNION MCPairs |-> IF \A q \in Quotes : swap[q] = q THEN x ELSE MCTwin(x)] : swap \in Permutations(Quotes)}

\* The calendar moves and the office edits, but for a number connected later and one
\* with hours of its own, which is still edited.
HoursBudget ==
  LET apart == part = "hours" /\ (connected # Branches \/ \E b \in Branches : hours[b] # None)
  IN /\ moves = IF apart THEN MaxMoves ELSE 0
     /\ hourEdits = IF part = "hours" /\ connected # Branches THEN MaxHoursEdits ELSE 0

PanelInit ==
  /\ part \in {"changes", "chat", "access", "hours", "plans", "coverages"}
  /\ ChatInit
  /\ AccessInit /\ (part = "access" \/ (code[<<Home, Branch>>].state = "live" /\ number[Line].billed = <<Home, Master>>))
  /\ HoursInit /\ (\A h \in Holidays : (<<NewYear, h>> \in calendar) <=> (part = "hours" /\ \E b \in Branches : hours[b] # None))
               /\ (part = "hours" \/ (connected = Branches /\ \A b \in Branches : hours[b] = None))
               /\ HoursBudget
  /\ ChangesInit /\ (part = "changes" \/ subject = "closure")
  /\ CatalogInit /\ (onTrial => part = "plans") /\ \A f \in Features : plans[1].features[f] = "unset" \/ (part = "plans" /\ ~onTrial)
  /\ CoverageInit /\ (part = "coverages" \/ \A c \in CoverCodes : settings[c].status = "none")

PanelNext ==
  /\ UNCHANGED part
  /\ \/ part = "changes" /\ ChangesNext /\ UNCHANGED <<chatVars, accessVars, hoursVars, catalogVars, coverVars>>
     \/ part = "chat" /\ ChatNext /\ UNCHANGED <<changeVars, accessVars, hoursVars, catalogVars, coverVars>>
     \/ part = "access" /\ AccessNext /\ UNCHANGED <<changeVars, chatVars, hoursVars, catalogVars, coverVars>>
     \/ part = "hours" /\ HoursNext /\ UNCHANGED <<changeVars, chatVars, accessVars, catalogVars, coverVars>>
     \/ part = "plans" /\ CatalogNext /\ UNCHANGED <<changeVars, chatVars, accessVars, hoursVars, coverVars>>
     \/ part = "coverages" /\ CoverageNext /\ UNCHANGED <<changeVars, chatVars, accessVars, hoursVars, catalogVars>>

PanelSpec == PanelInit /\ [][PanelNext]_panelVars

\* Every row, request and step of the part at work keeps its type.
PanelTypesOK ==
  /\ part = "changes" => ChangesTypeOK
  /\ part = "chat" => ChatTypeOK
  /\ part = "access" => AccessTypeOK
  /\ part = "hours" => HoursTypeOK
  /\ part = "plans" => CatalogTypeOK
  /\ part = "coverages" => CoverageTypeOK

\* The assistant answers each question once, with what it proposed in it, and its
\* cards tell what they do and can be gone back on; people see what they were
\* given; the bot's word on the hours is true; no coverage's wording is a guess;
\* the catalog keeps a plan to bill on.
PanelHolds ==
  /\ PanelTypesOK
  /\ part = "chat" => AnswersFit
  /\ part = "changes" => CardsFit
  /\ part = "access" => AccessFits
  /\ part = "hours" => HoursFit
  /\ part = "coverages" => NothingIsGuessed
  /\ part = "plans" => CatalogStands /\ NoGonePlan

\* A change leaves all it does not name, a save what it did not send, a quote's new
\* codes what is offered, and the sync a holiday it loaded before.
SettingsFit ==
  [][/\ part = "changes" => OthersStay
     /\ part = "coverages" => DiscoveryIsQuiet /\ ShownIsKept
     /\ part = "hours" => LoadedOnce]_panelVars

\* An admin's sight grows only by a grant, and a plan chosen for a function gives it.
AccountsFit ==
  [][/\ part = "access" => SightIsGranted
     /\ part = "plans" => UpgradeUnlocks]_panelVars
=============================================================================
