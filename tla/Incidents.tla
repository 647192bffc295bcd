----------------------------- MODULE Incidents -----------------------------
(* How one external service answers, for the panel's Status section             *)
(* (integration-status/integration-status.service.ts): each call reports its    *)
(* success or failure, a failure opens an incident or adds to it, the next      *)
(* success ends it. Reports of one service run one after the other on a copy of *)
(* its row kept in memory; explanations by the AI model run beside them, so     *)
(* they read, write and mail an incident that has moved on. A tick of the clock *)
(* is longer than the model may take to answer.                                 *)
EXTENDS Naturals

CONSTANTS Signatures,   \* ways to fail: signatureOf's kind and status
          Explainers,   \* explanations in course at once
          ReopenWithin, \* REOPEN_WITHIN_MS
          ExplainRetry, \* EXPLAIN_RETRY_MS
          AlertAgain,   \* ALERT_AGAIN_AFTER_MS
          MaxIncidents, LastTick, MaxFailures, MaxStops

ASSUME IncidentParameters ==
  /\ {ReopenWithin, AlertAgain, MaxIncidents, LastTick, MaxFailures, MaxStops} \subseteq Nat
  /\ ExplainRetry \in Nat \ {0, 1}

Ids == 1..MaxIncidents
None == "none"
Unread == MaxIncidents + 1
Times == 0..LastTick
NotYet == LastTick + 1

VARIABLES
  incident,  \* IntegrationIncident, by id
  open,      \* IntegrationComponent.openIncidentId, 0 without one
  known,     \* the row in memory: its openIncidentId, or Unread
  task,      \* the report the queue is running
  explain,   \* explainIncident
  tried,     \* explainTriedAt, by incident and signature
  alerted,   \* alertedAt, by signature
  viewer,    \* overview: the open incident as it read it
  tick,
  mailedAt,  \* history: when a failure was last mailed
  soon,      \* history: failures mailed again too soon by one process
  crossed,   \* history: incidents explained for one failure and read with another
  failures, stops

incidentRows == <<incident, open>>
mailing == <<alerted, mailedAt, soon>>
incidentVars == <<incidentRows, known, task, explain, tried, mailing, viewer, tick, crossed, failures, stops>>

Stages == {"none", "open", "ended"}
TaskSteps == {"idle", "loading", "finding", "writing", "naming", "adding", "ending"}
ExplainSteps == {"idle", "reading", "asking", "saving", "checking", "mailing"}

IncidentsTypeOK ==
  /\ incident \in [Ids -> [stage : Stages, sig : Signatures \cup {None}, endedAt : Times,
                           explainedFor : Signatures \cup {None}, about : Signatures \cup {None}]]
  /\ open \in 0..MaxIncidents
  /\ known \in 0..Unread
  /\ task \in [step : TaskSteps, sig : Signatures \cup {None}, id : 0..MaxIncidents]
  /\ explain \in [Explainers -> [step : ExplainSteps, id : 0..MaxIncidents,
                                 sig : Signatures \cup {None}, about : Signatures \cup {None}, since : Times]]
  /\ tried \in [Ids \X Signatures -> 0..NotYet] /\ alerted \in [Signatures -> 0..NotYet]
  /\ viewer \in [id : 0..MaxIncidents, sig : Signatures \cup {None}]
  /\ tick \in Times /\ mailedAt \in [Signatures -> 0..NotYet]
  /\ soon \subseteq Signatures /\ crossed \subseteq Ids
  /\ failures \in 0..MaxFailures /\ stops \in 0..MaxStops

Unused == [stage |-> "none", sig |-> None, endedAt |-> 0, explainedFor |-> None, about |-> None]
IdleTask == [step |-> "idle", sig |-> None, id |-> 0]
IdleExplain == [step |-> "idle", id |-> 0, sig |-> None, about |-> None, since |-> 0]
IdleViewer == [id |-> 0, sig |-> None]

IncidentsInit ==
  /\ incident = [i \in Ids |-> Unused] /\ open = 0 /\ known = Unread
  /\ task = IdleTask
  /\ explain = [e \in Explainers |-> IdleExplain]
  /\ tried = [a \in Ids \X Signatures |-> NotYet] /\ alerted = [s \in Signatures |-> NotYet]
  /\ viewer = IdleViewer /\ tick = 0
  /\ mailedAt = [s \in Signatures |-> NotYet] /\ soon = {} /\ crossed = {}
  /\ failures = 0 /\ stops = 0

-----------------------------------------------------------------------------
(* requestExplanation: synchronous, by whoever sees the failure. *)

JustTried(id, sig) == tried[<<id, sig>>] # NotYet /\ tick < tried[<<id, sig>>] + ExplainRetry

Asks(id, sig) ==
  \E e \in Explainers :
    /\ explain[e].step = "idle"
    /\ explain' = [explain EXCEPT ![e] =
         [IdleExplain EXCEPT !.step = "reading", !.id = id, !.sig = sig, !.since = tick]]
    /\ tried' = [tried EXCEPT ![<<id, sig>>] = tick]

\* Slip: the same failure is handed to the model on every report of it.
RequestAlways(id, sig) == Asks(id, sig)

RequestExplanation(id, sig) ==
  IF JustTried(id, sig) THEN UNCHANGED <<explain, tried>> ELSE Asks(id, sig)

-----------------------------------------------------------------------------
(* The reports of the service's calls, through serialize. *)

\* What the row in memory makes the report do.
Branch(sig, id) ==
  [step |-> IF sig = None THEN IF id = 0 THEN "idle" ELSE "ending"
            ELSE IF id = 0 THEN "finding" ELSE "adding",
   sig |-> sig, id |-> id]
Enter(sig) == IF known = Unread THEN [step |-> "loading", sig |-> sig, id |-> 0] ELSE Branch(sig, known)

Succeeded ==
  /\ task.step = "idle" /\ known # 0
  /\ task' = Enter(None)
  /\ UNCHANGED <<incidentRows, known, explain, tried, mailing, viewer, tick, crossed, failures, stops>>

Failed(sig) ==
  /\ task.step = "idle" /\ failures < MaxFailures
  /\ failures' = failures + 1
  /\ task' = Enter(sig)
  /\ UNCHANGED <<incidentRows, known, explain, tried, mailing, viewer, tick, crossed, stops>>

\* component: the row, created the first time.
LoadComponent ==
  /\ task.step = "loading"
  /\ known' = open
  /\ task' = Branch(task.sig, open)
  /\ UNCHANGED <<incidentRows, explain, tried, mailing, viewer, tick, crossed, failures, stops>>

\* One transaction: the failure is the incident's last.
AddFailure ==
  /\ task.step = "adding"
  /\ incident' = [incident EXCEPT ![task.id].sig = task.sig]
  /\ RequestExplanation(task.id, task.sig)
  /\ task' = IdleTask
  /\ UNCHANGED <<open, known, mailing, viewer, tick, crossed, failures, stops>>

Recent(i) == incident[i].stage = "ended" /\ tick <= incident[i].endedAt + ReopenWithin

\* The incident that ended last, if it was just now: a flaky service is one incident.
FindRecent ==
  /\ task.step = "finding"
  /\ \/ \E i \in Ids :
          /\ Recent(i) /\ \A j \in Ids : Recent(j) => incident[j].endedAt <= incident[i].endedAt
          /\ task' = [task EXCEPT !.step = "writing", !.id = i]
     \/ (\A i \in Ids : ~Recent(i)) /\ task' = [task EXCEPT !.step = "writing"]
  /\ UNCHANGED <<incidentRows, known, explain, tried, mailing, viewer, tick, crossed, failures, stops>>

ReopenOrCreate ==
  /\ task.step = "writing"
  /\ \E i \in Ids :
       /\ IF task.id # 0 THEN i = task.id
          ELSE incident[i].stage = "none" /\ \A j \in 1..(i - 1) : incident[j].stage # "none"
       /\ incident' = [incident EXCEPT ![i].stage = "open", ![i].sig = task.sig]
       /\ task' = [task EXCEPT !.step = "naming", !.id = i]
  /\ UNCHANGED <<open, known, explain, tried, mailing, viewer, tick, crossed, failures, stops>>

\* A statement of its own: the service's row names the incident.
NameIncident ==
  /\ task.step = "naming"
  /\ open' = task.id /\ known' = task.id
  /\ RequestExplanation(task.id, task.sig)
  /\ task' = IdleTask
  /\ UNCHANGED <<incident, mailing, viewer, tick, crossed, failures, stops>>

\* One transaction: the incident has ended and the row names none.
EndIncident ==
  /\ task.step = "ending"
  /\ incident' = [incident EXCEPT ![task.id].stage = "ended", ![task.id].endedAt = tick]
  /\ open' = 0 /\ known' = 0
  /\ task' = IdleTask
  /\ UNCHANGED <<explain, tried, mailing, viewer, tick, crossed, failures, stops>>

\* Slip: what is in memory outlives a report that failed.
TrustMemory ==
  /\ task.step # "idle" /\ stops < MaxStops
  /\ stops' = stops + 1
  /\ known' = (IF task.step = "naming" THEN task.id ELSE known) /\ task' = IdleTask
  /\ UNCHANGED <<incidentRows, explain, tried, mailing, viewer, tick, crossed, failures>>

\* A query of a report throws: logged, and the row is read again next time.
ReportFails ==
  /\ task.step # "idle" /\ stops < MaxStops
  /\ stops' = stops + 1
  /\ known' = Unread /\ task' = IdleTask
  /\ UNCHANGED <<incidentRows, explain, tried, mailing, viewer, tick, crossed, failures>>

-----------------------------------------------------------------------------
(* explainIncident and alert. *)

ExplainTo(e, step) == explain' = [explain EXCEPT ![e].step = step]
ExplainEnds(e) == explain' = [explain EXCEPT ![e] = IdleExplain]

\* The model is told the failure the incident has now.
ReadIncident(e) ==
  /\ explain[e].step = "reading"
  /\ LET i == explain[e].id now == incident[i].sig IN
       IF incident[i].explainedFor = explain[e].sig
       THEN ExplainEnds(e) /\ UNCHANGED crossed
       ELSE /\ explain' = [explain EXCEPT ![e].step = "asking", ![e].about = now]
            /\ crossed' = IF now = explain[e].sig THEN crossed ELSE crossed \cup {i}
  /\ UNCHANGED <<incidentRows, known, task, tried, mailing, viewer, tick, failures, stops>>

Answered(e) ==
  /\ explain[e].step = "asking"
  /\ ExplainTo(e, "saving")
  /\ UNCHANGED <<incidentRows, known, task, tried, mailing, viewer, tick, crossed, failures, stops>>

\* Slip: the explanation is kept as that of the failure the incident has by now.
SaveForLatest(e) ==
  /\ explain[e].step = "saving"
  /\ LET i == explain[e].id IN
       incident' = [incident EXCEPT ![i].explainedFor = incident[i].sig, ![i].about = explain[e].about]
  /\ ExplainTo(e, "checking")
  /\ UNCHANGED <<open, known, task, tried, mailing, viewer, tick, crossed, failures, stops>>

SaveExplanation(e) ==
  /\ explain[e].step = "saving"
  /\ LET i == explain[e].id IN
       incident' = [incident EXCEPT ![i].explainedFor = explain[e].sig, ![i].about = explain[e].about]
  /\ ExplainTo(e, "checking")
  /\ UNCHANGED <<open, known, task, tried, mailing, viewer, tick, crossed, failures, stops>>

JustMailed(sig) == alerted[sig] # NotYet /\ tick < alerted[sig] + AlertAgain

CheckAlert(e) ==
  /\ explain[e].step = "checking"
  /\ IF JustMailed(explain[e].sig) THEN ExplainEnds(e) ELSE ExplainTo(e, "mailing")
  /\ UNCHANGED <<incidentRows, known, task, tried, mailing, viewer, tick, crossed, failures, stops>>

\* Not of an incident that ended while the model answered.
MailAlert(e) ==
  /\ explain[e].step = "mailing"
  /\ LET s == explain[e].sig IN
       IF incident[explain[e].id].stage = "open"
       THEN /\ alerted' = [alerted EXCEPT ![s] = tick]
            /\ soon' = IF mailedAt[s] # NotYet /\ tick < mailedAt[s] + AlertAgain THEN soon \cup {s} ELSE soon
            /\ mailedAt' = [mailedAt EXCEPT ![s] = tick]
       ELSE UNCHANGED mailing
  /\ ExplainEnds(e)
  /\ UNCHANGED <<incidentRows, known, task, tried, viewer, tick, crossed, failures, stops>>

\* The model does not answer, or answers something else: logged.
ExplainFails(e) ==
  /\ explain[e].step \in {"reading", "asking", "saving"}
  /\ ExplainEnds(e)
  /\ UNCHANGED <<incidentRows, known, task, tried, mailing, viewer, tick, crossed, failures, stops>>

-----------------------------------------------------------------------------
(* overview: whoever opens the Status section asks again for what is missing. *)

OverviewRead ==
  /\ viewer.id = 0 /\ open # 0
  /\ incident[open].explainedFor # incident[open].sig
  /\ viewer' = [id |-> open, sig |-> incident[open].sig]
  /\ UNCHANGED <<incidentRows, known, task, explain, tried, mailing, tick, crossed, failures, stops>>

OverviewAsks ==
  /\ viewer.id # 0
  /\ RequestExplanation(viewer.id, viewer.sig)
  /\ viewer' = IdleViewer
  /\ UNCHANGED <<incidentRows, known, task, mailing, tick, crossed, failures, stops>>

\* presentIncident: whether the panel shows the explanation.
Shown(i) == incident[i].explainedFor # None /\ incident[i].explainedFor = incident[i].sig

-----------------------------------------------------------------------------

IncidentsClock ==
  /\ tick < LastTick /\ \A e \in Explainers : explain[e].step # "idle" => explain[e].since = tick
  /\ tick' = tick + 1
  /\ UNCHANGED <<incidentRows, known, task, explain, tried, mailing, viewer, crossed, failures, stops>>

\* What is in memory is gone; a mail that goes out again then is another process's.
IncidentsRestart ==
  /\ stops < MaxStops
  /\ stops' = stops + 1
  /\ known' = Unread /\ task' = IdleTask /\ viewer' = IdleViewer
  /\ explain' = [e \in Explainers |-> IdleExplain]
  /\ tried' = [a \in Ids \X Signatures |-> NotYet]
  /\ alerted' = [s \in Signatures |-> NotYet] /\ mailedAt' = alerted'
  /\ UNCHANGED <<incidentRows, soon, tick, crossed, failures>>

IncidentsNext ==
  \/ Succeeded \/ (\E s \in Signatures : Failed(s))
  \/ LoadComponent \/ AddFailure \/ FindRecent \/ ReopenOrCreate \/ NameIncident \/ EndIncident \/ ReportFails
  \/ \E e \in Explainers :
       ReadIncident(e) \/ Answered(e) \/ SaveExplanation(e) \/ CheckAlert(e) \/ MailAlert(e) \/ ExplainFails(e)
  \/ OverviewRead \/ OverviewAsks \/ IncidentsClock \/ IncidentsRestart

IncidentsSpec == IncidentsInit /\ [][IncidentsNext]_incidentVars

-----------------------------------------------------------------------------
(* Properties *)

\* What is in memory matches the table whenever no report is at work, and then
\* an incident is open exactly when the row names it, unless a report was cut
\* between its two statements (integration-status.service.ts:232-247 and 524).
MemoryMatches ==
  task.step = "idle" =>
    /\ known \in {open, Unread}
    /\ open # 0 => incident[open].stage = "open"
    /\ stops = 0 => \A i \in Ids : incident[i].stage = "open" => open = i

\* "The same service failing the same way is mailed at most this often", also
\* with several incidents and the explanations that reports and readers ask for
\* at once. A report cut short, which may leave two incidents open, aside.
AlertsSeldom == stops = 0 => soon = {}

\* "An explanation of a different failure is not shown": the text is about the
\* failure the incident has now, unless the failure changed between the request
\* and the reading of the incident.
ExplanationFits == \A i \in Ids : Shown(i) /\ i \notin crossed => incident[i].about = incident[i].sig

\* What readers get of an incident: mails that are not repeated, and a text
\* about the failure it has.
AlertsFit == AlertsSeldom /\ ExplanationFits

\* The memory, the mails and the texts of incidents.
IncidentsFit == MemoryMatches /\ AlertsFit

\* What the code does not keep: the model reads the incident as it is by then,
\* and its text is kept as that of the failure it was asked for.
AlwaysFits == \A i \in Ids : Shown(i) => incident[i].about = incident[i].sig

\* What the code does not keep: an incident a report opened and could not name
\* stays open, and no success ends it.
SuccessEndsAll == task.step = "idle" /\ open = 0 => \A i \in Ids : incident[i].stage # "open"
=============================================================================
