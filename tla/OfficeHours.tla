----------------------------- MODULE OfficeHours -----------------------------
(* When an office answers (business-hours): the weekly ranges of an           *)
(* organization or of one number, the closures of each number, and the daily  *)
(* sync of national holidays. A day has the slots of DaySlots; from nine at     *)
(* night on it is already tomorrow in UTC.                                     *)
EXTENDS Integers, Sequences, SequencesExt

CONSTANTS
  Branches,   \* numbers
  Holidays,   \* names of national holidays
  Raws,       \* what an office may type as the ranges of a day
  LastDay,    \* bound: days that pass
  NewYear,    \* first day of the next calendar year
  MaxSyncs, MaxMoves, MaxHoursEdits  \* bounds: syncs, changes of the calendar, edits of the office

ASSUME HoursParameters ==
  /\ LastDay \in Nat /\ NewYear \in 0..(LastDay + 1) /\ MaxSyncs \in Nat /\ MaxMoves \in Nat /\ MaxHoursEdits \in Nat
  /\ "office" \notin Holidays
  /\ Raws \subseteq Seq((0..3) \X (1..4))

VARIABLES
  day, slot,  \* now, in Argentina
  hours,      \* businessHours of the organization (key "office") and of each number; None: not set
  connected,  \* numbers with a row
  closures,   \* BusinessClosure
  calendar,   \* external: the published holidays
  sync,       \* syncs by their number
  twinSyncs, \* history: two syncs were in course at once
  moves, hourEdits

hoursVars == <<day, slot, hours, connected, closures, calendar, sync, twinSyncs, moves, hourEdits>>

None == <<"none">>
DaySlots == 0..3
Nine == 2  \* 21:00
Ahead == 0..(LastDay + 1)
Syncs == 1..MaxSyncs
YearOf(d) == IF d < NewYear THEN 0 ELSE 1

\* Days 0 to 4 are Monday to Friday.
Weekday(d) == d % 7
Ranges == DaySlots \X (1..4)
DefaultSchedule == [w \in 0..6 |-> IF w < 5 THEN <<(<<1, 2>>)>> ELSE <<>>]

NoSync == [step |-> "idle", today |-> 0, years |-> {}, found |-> {}, numbers |-> {}, loaded |-> {}]

HoursTypeOK ==
  /\ day \in 0..LastDay /\ slot \in DaySlots
  /\ \A k \in Branches \cup {"office"} : hours[k] = None \/ \A w \in 0..6 : \A i \in DOMAIN hours[k][w] : hours[k][w][i] \in Ranges
  /\ connected \subseteq Branches
  /\ \A c \in closures : /\ c.branch \in Branches /\ c.from \in Ahead /\ c.to \in Ahead
                         /\ c.reason \in Holidays \cup {"office"} /\ c.by \in -MaxHoursEdits..MaxSyncs /\ c.live \in BOOLEAN
  /\ calendar \subseteq Ahead \X Holidays
  /\ \A s \in Syncs : sync[s].step \in {"idle", "removing", "reading", "creating", "over"}
  /\ twinSyncs \in BOOLEAN /\ moves \in 0..MaxMoves /\ hourEdits \in 0..MaxHoursEdits

HoursInit ==
  /\ day = 0 /\ slot = 0
  /\ connected \in SUBSET Branches
  /\ \E own \in [connected -> {None, [w \in 0..6 |-> <<>>]}] :
       hours = [k \in Branches \cup {"office"} |-> IF k \in connected THEN own[k] ELSE None]
  /\ closures = {}
  /\ calendar \in {{<<d, h>>} : d \in {1, NewYear}, h \in Holidays}
  /\ sync = [s \in Syncs |-> NoSync] /\ twinSyncs = FALSE
  /\ moves \in 0..MaxMoves /\ hourEdits \in 0..MaxHoursEdits  \* what is left of the bounds

-----------------------------------------------------------------------------
(* The weekly hours *)

\* validateSchedule's sort: the typed ranges in the order of their openings.
Sortings(raw) ==
  {s \in {[i \in DOMAIN raw |-> raw[p[i]]] : p \in Bijection(DOMAIN raw, DOMAIN raw)} :
     \A i, j \in DOMAIN s : i < j => s[i][1] <= s[j][1]}

Valid(sorted) ==
  \A i \in DOMAIN sorted : sorted[i][1] < sorted[i][2] /\ (i > 1 => sorted[i][1] >= sorted[i - 1][2])

\* updateSchedule of the organization, updateAssistant of a number: the typed
\* ranges on the days of work, sorted and checked.
UpdateSchedule(k, raw) ==
  /\ hourEdits < MaxHoursEdits /\ hourEdits' = hourEdits + 1
  /\ \E sorted \in Sortings(raw) :
       /\ Valid(sorted)
       /\ hours' = [hours EXCEPT ![k] = [w \in 0..6 |-> IF w < 5 THEN sorted ELSE <<>>]]
  /\ UNCHANGED <<day, slot, connected, closures, calendar, sync, twinSyncs, moves>>

\* A number without its own hours has the organization's.
ClearHours(b) ==
  /\ hourEdits < MaxHoursEdits /\ hourEdits' = hourEdits + 1
  /\ hours[b] # None
  /\ hours' = [hours EXCEPT ![b] = None]
  /\ UNCHANGED <<day, slot, connected, closures, calendar, sync, twinSyncs, moves>>

-----------------------------------------------------------------------------
(* The answer to a customer (getStatusForNumber, computeStatus) *)

\* parseSchedule: what is not a schedule is the default one.
ParseSchedule(h) == IF h = None THEN DefaultSchedule ELSE h
ScheduleOf(b) == ParseSchedule(IF hours[b] # None THEN hours[b] ELSE hours["office"])

\* The day in UTC.
UtcDay == IF slot >= Nine THEN day + 1 ELSE day

\* activeClosures: those that end today or later, by the day in UTC.
ActiveClosures(b) == {c \in closures : c.branch = b /\ c.live /\ c.to >= UtcDay}
ClosedOn(b, d) == \E c \in ActiveClosures(b) : c.from <= d /\ d <= c.to

IsOpenNow(b) ==
  /\ ~ClosedOn(b, day)
  /\ LET rs == ScheduleOf(b)[Weekday(day)] IN \E i \in DOMAIN rs : rs[i][1] <= slot /\ slot < rs[i][2]

\* The ranges of a day that have not begun.
Openings(b, offset) ==
  LET rs == ScheduleOf(b)[Weekday(day + offset)]
  IN {i \in DOMAIN rs : offset > 0 \/ rs[i][1] > slot}

\* nextOpening: of the first day within a week that has one and is not closed, the
\* first in the order they are stored.
NextOpening(b) ==
  LET offsets == {o \in 0..7 : ~ClosedOn(b, day + o) /\ Openings(b, o) # {}}
      first == Min(offsets)
  IN IF offsets = {} THEN None
     ELSE <<first, ScheduleOf(b)[Weekday(day + first)][Min(Openings(b, first))][1]>>

-----------------------------------------------------------------------------
(* Closures an office adds and removes *)

AddClosure(b, d, e) ==
  /\ hourEdits < MaxHoursEdits /\ hourEdits' = hourEdits + 1
  /\ b \in connected /\ d <= e
  /\ closures' = closures \cup {[branch |-> b, from |-> d, to |-> e, reason |-> "office", by |-> -hourEdits', live |-> TRUE]}
  /\ UNCHANGED <<day, slot, hours, connected, calendar, sync, twinSyncs, moves>>

RemoveClosure(c) ==
  /\ hourEdits < MaxHoursEdits /\ hourEdits' = hourEdits + 1
  /\ c.live
  /\ closures' = (closures \ {c}) \cup {[c EXCEPT !.live = FALSE]}
  /\ UNCHANGED <<day, slot, hours, connected, calendar, sync, twinSyncs, moves>>

Connect(b) ==
  /\ b \notin connected /\ connected' = connected \cup {b}
  /\ UNCHANGED <<day, slot, hours, closures, calendar, sync, twinSyncs, moves, hourEdits>>

-----------------------------------------------------------------------------
(* The sync of holidays: at the start of the process and every day *)

Syncing(s) == sync[s].step \in {"removing", "reading", "creating"}

\* Both years are asked for. One that does not answer, or answers with nothing, is
\* not a calendar without holidays; one with holidays of other types alone is.
FetchYears(s) ==
  /\ sync[s].step = "idle" /\ \A t \in 1..(s - 1) : sync[t].step # "idle"
  /\ \E years \in SUBSET {0, 1} :
       sync' = [sync EXCEPT ![s] =
         IF years = {} THEN [NoSync EXCEPT !.step = "over"]
         ELSE [NoSync EXCEPT !.step = "removing", !.today = day, !.years = years, !.numbers = connected,
                 !.found = {h \in calendar : YearOf(h[1]) \in years /\ h[1] >= day}]]
  /\ twinSyncs' = (twinSyncs \/ \E t \in Syncs \ {s} : Syncing(t))
  /\ UNCHANGED <<day, slot, hours, connected, closures, calendar, moves, hourEdits>>

Coming(s) == {c \in closures : c.reason # "office" /\ c.from >= sync[s].today}

\* removeMoved: upcoming ones of a fetched year whose date is no longer a holiday.
RemoveMoved(s) ==
  /\ sync[s].step = "removing"
  /\ LET stale == {c \in Coming(s) : c.live /\ YearOf(c.from) \in sync[s].years
                                     /\ \A h \in sync[s].found : h[1] # c.from}
     IN closures' = (closures \ stale) \cup {[c EXCEPT !.live = FALSE] : c \in stale}
  /\ sync' = [sync EXCEPT ![s].step = "reading"]
  /\ UNCHANGED <<day, slot, hours, connected, calendar, twinSyncs, moves, hourEdits>>

\* The removed ones count: a number chose to open on them.
Loaded(s) == {<<c.branch, c.from>> : c \in {d \in Coming(s) : d.branch \in sync[s].numbers}}

ReadLoaded(s) ==
  /\ sync[s].step = "reading"
  /\ sync' = [sync EXCEPT ![s].loaded = Loaded(s), ![s].step = "creating"]
  /\ UNCHANGED <<day, slot, hours, connected, closures, calendar, twinSyncs, moves, hourEdits>>

NewClosures(s) ==
  {[branch |-> n[1], from |-> n[2][1], to |-> n[2][1], reason |-> n[2][2], by |-> s, live |-> TRUE] :
     n \in {p \in sync[s].numbers \X sync[s].found : <<p[1], p[2][1]>> \notin sync[s].loaded}}

CreateClosures(s) ==
  /\ sync[s].step = "creating"
  /\ closures' = closures \cup NewClosures(s)
  /\ sync' = [sync EXCEPT ![s] = [NoSync EXCEPT !.step = "over"]]
  /\ UNCHANGED <<day, slot, hours, connected, calendar, twinSyncs, moves, hourEdits>>

-----------------------------------------------------------------------------

\* The government moves a holiday, or the mirror loses one for a while.
CalendarMoves(h, d) ==
  /\ moves < MaxMoves /\ moves' = moves + 1
  /\ h \in calendar /\ d \in Ahead \ {h[1]}
  /\ calendar' = (calendar \ {h}) \cup {<<d, h[2]>>}
  /\ UNCHANGED <<day, slot, hours, connected, closures, sync, twinSyncs, hourEdits>>

Tick ==
  /\ \/ slot < 3 /\ slot' = slot + 1 /\ UNCHANGED day
     \/ slot = 3 /\ day < LastDay /\ day' = day + 1 /\ slot' = 0
  /\ UNCHANGED <<hours, connected, closures, calendar, sync, twinSyncs, moves, hourEdits>>

HoursNext ==
  \/ Tick
  \/ \E raw \in Raws : \E k \in Branches \cup {"office"} : UpdateSchedule(k, raw)
  \/ \E b \in Branches : ClearHours(b) \/ Connect(b) \/ \E d, e \in Ahead : AddClosure(b, d, e)
  \/ \E c \in closures : RemoveClosure(c)
  \/ \E s \in Syncs : FetchYears(s) \/ RemoveMoved(s) \/ ReadLoaded(s) \/ CreateClosures(s)
  \/ \E h \in calendar, d \in Ahead : CalendarMoves(h, d)

HoursSpec == HoursInit /\ [][HoursNext]_hoursVars

-----------------------------------------------------------------------------
(* Properties *)

Closed(b, d) == \E c \in closures : c.branch = b /\ c.live /\ c.from <= d /\ d <= c.to
InHours(b, d, m) == LET rs == ScheduleOf(b)[Weekday(d)] IN \E i \in DOMAIN rs : rs[i][1] <= m /\ m < rs[i][2]

\* After nine at night the closures that end today are forgotten.
Forgotten(b) ==
  /\ slot >= Nine /\ Closed(b, day)
  /\ \A c \in closures : c.branch = b /\ c.live /\ c.from <= day /\ day <= c.to => c.to = day

\* A customer is told whether the office is open, but on such a night.
StatusFits == \A b \in connected : ~Forgotten(b) => (IsOpenNow(b) <=> InHours(b, day, slot) /\ ~Closed(b, day))

\* What the bot promises is the first moment within a week when the office opens:
\* but on such a night, of this one too.
PromiseFits ==
  \A b \in connected : ~Forgotten(b) =>
    LET begins == {x \in (0..7) \X DaySlots :
                     /\ ~Closed(b, day + x[1]) /\ (x[1] = 0 => x[2] > slot)
                     /\ LET ranges == ScheduleOf(b)[Weekday(day + x[1])] IN \E i \in DOMAIN ranges : ranges[i][1] = x[2]}
        next == NextOpening(b)
    IN IF begins = {} THEN next = None
       ELSE next \in begins /\ \A x \in begins : next[1] < x[1] \/ (next[1] = x[1] /\ next[2] <= x[2])

HolidayRow(b, d) == {c \in closures : c.branch = b /\ c.from = d /\ c.reason # "office"}

\* A holiday is loaded once for each number, whoever removed it since (comment of
\* HolidaySyncService), as long as syncs do not overlap.
LoadedOnce ==
  ~twinSyncs' => \A c \in closures' \ closures : c.by > 0 /\ c.live => HolidayRow(c.branch, c.from) = {}

\* The promises of the bot fit the hours and the closures.
HoursFit == StatusFits /\ PromiseFits

\* What the code does not keep: "closure covering today, if any" (schedule.ts:33),
\* also in the last hours of the day.
TodaysClosureIsSaid == \A b \in connected : IsOpenNow(b) => ~Closed(b, day)

\* What the code does not keep: the office is not awaited on a day it is closed.
PromiseIsOfAnOpenDay ==
  \A b \in connected : LET next == NextOpening(b) IN next = None \/ ~Closed(b, day + next[1])

\* After a sync its numbers are closed on every holiday it found, but for those an
\* office reopened.
HolidaysAreClosed ==
  [][\A s \in Syncs : sync[s].step = "creating" /\ hourEdits = 0 =>
       (sync'[s].step = "over" => \A b \in sync[s].numbers, h \in sync[s].found : \E c \in closures' :
          c.branch = b /\ c.live /\ c.from = h[1])]_hoursVars

\* A number that reopens on a holiday is open that day.
ReopenedIsOpen ==
  [][\A c \in closures : c.live /\ c.reason # "office" /\ [c EXCEPT !.live = FALSE] \in closures' \ closures =>
       ~\E d \in closures' : d.branch = c.branch /\ d.live /\ d.reason # "office" /\ d.from = c.from]_hoursVars
=============================================================================
