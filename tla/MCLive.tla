------------------------------- MODULE MCLive -------------------------------
(* What must eventually happen in four parts of the API: a refused password    *)
(* that was corrected gets its calls back, a number connected after the last   *)
(* text gets its template, a line that dropped is noticed, a number left       *)
(* answering past its plan is paused by the next message. Each behaviour is    *)
(* one of a part, the others at rest, and only the part at work is owed its    *)
(* steps.                                                                      *)
EXTENDS Naturals, FiniteSets

\* Tokens
CONSTANTS Callers, LastPassword, CredentialsTTL, RefusedPause, TokenLife, Windows, NoCaller
VARIABLES accepted, stored, kept, live, row, pause, inFlight, caller, sync, owner
Tokens == INSTANCE TriunfoTokens

\* Texts
CONSTANTS Writers, LastAccount, Texts, FirstText, LastVersion, Day, Verdicts, MaxRare
VARIABLES campaign, connected, meta, writer, passDue, crossed, cutAfter, rare
Templates == INSTANCE CampaignTexts

\* Lines
CONSTANTS Organizations, Accounts, Phones, LastId, LastRow, Checkers, Unknown, MaxEvents
VARIABLES cloud, lastId, accounts, numbers, created, silentChat, signup, checks, removed, split, events
Lines == INSTANCE NumberConnections

\* Plans
CONSTANTS NULL, Paid, Trial, BlockMessages, Start, Messages, Campaigns, Reports, Desks, LastMonth, MaxFaults
VARIABLES month, delivered, recorded, used, rows, phone, notices, report, desk, pauses, lifts, faults
Plan == INSTANCE PlanPause

CONSTANTS c1, w1, w2, t1, o1, p1, cron, account, m1, m2, r1, r2, d1

VARIABLE part

tokenVars == <<accepted, stored, kept, live, pause, row, inFlight, caller, sync, owner>>
textVars == <<campaign, connected, meta, writer, passDue, crossed, cutAfter, rare>>
lineVars == <<cloud, lastId, accounts, numbers, created, silentChat, signup, checks, removed, split, events>>
planVars == <<month, delivered, recorded, used, rows, phone, notices, report, desk, pauses, lifts, faults>>
liveVars == <<part, tokenVars, textVars, lineVars, planVars>>

\* The plan's messages were delivered, and their reports are to come: two at a
\* time on the trial while nobody of the office answers, or one at a time on the
\* largest plan while somebody does.
Parts == {"tokens", "texts", "lines", "reports", "office"}
PlanParts == {"reports", "office"}

PlanInit ==
  /\ month = 1 /\ delivered = [m \in Messages |-> 1] /\ recorded = {}
  /\ used = [p \in Plan!Months |-> 0] /\ rows = {}
  /\ phone = [Plan!New EXCEPT !.plan = IF part = "office" THEN Plan!Largest ELSE Trial]
  /\ notices = 0 /\ faults = 0
  /\ report = [r \in Reports |-> Plan!NoReport] /\ desk = [d \in Desks |-> Plan!NoDesk]
  /\ pauses = [p \in Plan!Months |-> 0] /\ lifts = [p \in Plan!Months |-> 0]

LiveInit ==
  /\ part \in Parts
  /\ Tokens!TokensInit /\ Templates!TextsInit /\ Lines!ConnectionsInit /\ PlanInit

LiveNext ==
  /\ UNCHANGED part
  /\ \/ part = "tokens" /\ Tokens!TokensNext /\ UNCHANGED <<textVars, lineVars, planVars>>
     \/ part = "texts" /\ Templates!TextsNext /\ UNCHANGED <<tokenVars, lineVars, planVars>>
     \/ part = "lines" /\ Lines!ConnectionsNext /\ UNCHANGED <<tokenVars, textVars, planVars>>
     \/ /\ part \in PlanParts /\ Plan!Next
        /\ IF part = "office" THEN UNCHANGED report[r2] ELSE UNCHANGED desk
        /\ UNCHANGED <<tokenVars, textVars, lineVars>>

\* A query or a request in course ends, and time passes.
TokensFair ==
  /\ \A c \in Callers : WF_tokenVars(part = "tokens" /\ Tokens!CallGoesOn(c))
  /\ WF_tokenVars(part = "tokens" /\ Tokens!SyncGoesOn)
  /\ WF_tokenVars(part = "tokens" /\ Tokens!OwnerGoesOn)
  /\ WF_tokenVars(part = "tokens" /\ Tokens!TimePasses)

\* Requests go on and the half-hourly passes come.
TextsFair ==
  /\ \A w \in Writers : WF_textVars(part = "texts" /\ Templates!WriterGoesOn(w))
  /\ SF_textVars(part = "texts" /\ \E w \in Writers : Templates!RefreshPending(w))
  /\ SF_textVars(part = "texts" /\ \E w \in Writers : Templates!SyncNewAccounts(w))
  /\ WF_textVars(part = "texts" /\ Templates!HalfHour)

\* The cron runs every 30 minutes, its requests end, and Graph does not keep
\* silent forever.
LinesFair ==
  \A c \in Checkers :
    /\ WF_lineVars(part = "lines" /\ Lines!CheckWabas(c, Lines!StillConnected))
    /\ WF_lineVars(part = "lines" /\ Lines!MarkDisconnected(c))
    /\ \A w \in Accounts :
         /\ WF_lineVars(part = "lines" /\ (Lines!ProbeIsFine(c, w) \/ Lines!ProbeFindsDrop(c, w)))
         /\ SF_lineVars(part = "lines" /\ Lines!ProbeFindsDrop(c, w))

\* A report that started ends.
PlanFair == \A r \in Reports : WF_planVars(part \in PlanParts /\ Plan!Handle(r))

LiveSpec ==
  /\ LiveInit /\ [][LiveNext]_liveVars
  /\ TokensFair /\ TextsFair /\ LinesFair /\ PlanFair

\* Once the stored password is for good the accepted one, the pause after a
\* refusal ends for good.
AccessRecovers == Tokens!AccessRecovers

\* A number connected after the last text gets a template of it.
AccountsServed == Templates!AccountsServed

\* A number that left Cloud API is noticed, webhook or not.
DropIsNoticed == Lines!DropIsNoticed

\* A number left full and answering is paused by the next message reported.
NextReportPauses == Plan!NextReportPauses
=============================================================================
