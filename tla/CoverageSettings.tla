--------------------------- MODULE CoverageSettings ---------------------------
(* The coverages an organization offers in its quotes (CoverageSettingsService *)
(* and the defaults of coverage-defaults.ts): the codes quotes discover, what  *)
(* an admin edits of them, and what each number changes of them.               *)
EXTENDS Naturals, FiniteSets

CONSTANTS
  CoverCodes,  \* the letters the insurer quotes
  Described,   \* those the product manual describes (CAR_COPY)
  Everyday,    \* those of them offered until somebody chooses
  LastYear,    \* bound: years of a vehicle
  Quotes,      \* quotes in course
  Editors,     \* people with the coverages' screen open
  MaxSaves,    \* bound: saves of a coverage
  MaxQuotes    \* bound: quotes asked for

ASSUME CoverageParameters ==
  /\ CoverCodes # {} /\ Described \subseteq CoverCodes /\ Everyday \subseteq Described
  /\ LastYear \in Nat \ {0} /\ MaxSaves \in Nat /\ MaxQuotes \in Nat

VARIABLES
  settings,   \* CoverageSetting, by code
  ownView,    \* PhoneNumber.coverageSettings of the number the quotes come by
  quotes, editors,
  saves, quoted,
  met         \* history: coverages two editors were saving at once

coverVars == <<settings, ownView, quotes, editors, saves, quoted, met>>

VehicleYears == 1..LastYear
Choice == {"unset", "on", "off"}

\* Wording: the manual's, somebody's own, what was stored before the manual was
\* read, or none.
Benefits == {"manual", "own", "old", "empty"}
Exclusions == {"manual", "own", "old", "null"}

\* yearFrom..yearTo as the years they admit.
SettingRow == [status : {"none", "live"}, configured : BOOLEAN, benefits : Benefits, exclusions : Exclusions,
               active : BOOLEAN, star : BOOLEAN, years : SUBSET VehicleYears]

DefaultBenefits(c) == IF c \in Described THEN "manual" ELSE "empty"

\* registerDiscovered: a row made today.
Found(c) == [status |-> "live", configured |-> FALSE, benefits |-> DefaultBenefits(c), exclusions |-> "manual",
             active |-> c \in Everyday, star |-> FALSE, years |-> VehicleYears]

\* "Every code was stored visible", with a guess for its wording.
FoundLongAgo(c) == [Found(c) EXCEPT !.benefits = "old", !.exclusions = "old", !.active = TRUE]

\* "Rows configured before exclusions existed".
SavedLongAgo(c) == [Found(c) EXCEPT !.configured = TRUE, !.benefits = "own", !.exclusions = "null"]

NeverSeen(c) == [Found(c) EXCEPT !.status = "none"]

\* What somebody sends of a coverage: each field has its new value, or none.
Untouched == [benefits |-> {}, exclusions |-> {}, active |-> {}, star |-> {}, years |-> {}]
Saves ==
  {[Untouched EXCEPT !.benefits = {b}] : b \in {"own", "empty"}} \cup {[Untouched EXCEPT !.exclusions = {"own"}]}
  \cup {[Untouched EXCEPT !.active = {v}] : v \in BOOLEAN} \cup {[Untouched EXCEPT !.star = {v}] : v \in BOOLEAN}
  \cup {[Untouched EXCEPT !.years = {1..LastYear}], [Untouched EXCEPT !.years = {{LastYear}}]}
SentOr(new, old) == IF new = {} THEN old ELSE CHOOSE v \in new : TRUE

NoQuote == [step |-> "free", left |-> {}, known |-> {}]
NoEditor == [step |-> "free", code |-> CHOOSE c \in CoverCodes : TRUE, first |-> FALSE, sent |-> Untouched]

CoverageTypeOK ==
  /\ settings \in [CoverCodes -> SettingRow] /\ ownView \in [CoverCodes -> Choice]
  /\ \A q \in Quotes : /\ quotes[q].step \in {"free", "asked", "read"}
                       /\ quotes[q].left \subseteq CoverCodes /\ quotes[q].known \subseteq CoverCodes
  /\ \A e \in Editors : /\ editors[e].step \in {"free", "found"} /\ editors[e].code \in CoverCodes
                        /\ editors[e].first \in BOOLEAN
  /\ saves \in 0..MaxSaves /\ quoted \in 0..MaxQuotes /\ met \subseteq CoverCodes

CoverageInit ==
  /\ \E past \in [CoverCodes -> {"unseen", "found", "saved"}] :
       settings = [c \in CoverCodes |-> CASE past[c] = "unseen" -> NeverSeen(c)
                                          [] past[c] = "found" -> FoundLongAgo(c)
                                          [] past[c] = "saved" -> SavedLongAgo(c)]
  /\ ownView = [c \in CoverCodes |-> "unset"]
  /\ quotes = [q \in Quotes |-> NoQuote] /\ editors = [e \in Editors |-> NoEditor]
  /\ saves = 0 /\ quoted = 0 /\ met = {}

-----------------------------------------------------------------------------
(* What a coverage reads like *)

\* wordingOf: until somebody edits it a row has no wording of its own.
WordingOf(c) ==
  [benefits |-> IF settings[c].configured THEN settings[c].benefits ELSE DefaultBenefits(c),
   exclusions |-> IF settings[c].configured /\ settings[c].exclusions # "null" THEN settings[c].exclusions ELSE "manual"]

IsOffered(c) == IF settings[c].configured THEN settings[c].active ELSE c \in Everyday

\* toResponse: the row as the panel lists it.
ShownRow(c) ==
  [benefits |-> WordingOf(c).benefits, exclusions |-> WordingOf(c).exclusions, active |-> IsOffered(c),
   star |-> settings[c].star, years |-> settings[c].years]

\* apply: the coverages of a quote and how each reads, for a vehicle of a year by
\* a number that offers some its own way. A motorcycle's are a fixed catalog.
OfferedIn(year, view) ==
  {c \in CoverCodes :
     IF settings[c].status = "live"
       THEN /\ WordingOf(c).benefits # "empty" /\ year \in settings[c].years
            /\ view[c] = "on" \/ (view[c] = "unset" /\ IsOffered(c))
       ELSE DefaultBenefits(c) # "empty" /\ (view[c] = "on" \/ (view[c] = "unset" /\ c \in Everyday))}
ReadsAs(c) ==
  IF settings[c].status = "live" THEN WordingOf(c) ELSE [benefits |-> DefaultBenefits(c), exclusions |-> "manual"]
Recommended(c) == settings[c].status = "live" /\ settings[c].star

-----------------------------------------------------------------------------
(* A quote: the insurer is asked, and the codes that came are registered       *)
(* behind the answer's back (the answer is OfferedIn, as it may be read then)  *)

AskQuote(q) ==
  /\ quotes[q].step = "free" /\ quoted < MaxQuotes /\ quoted' = quoted + 1
  /\ quotes' = [quotes EXCEPT ![q] = [NoQuote EXCEPT !.step = "asked"]]
  /\ UNCHANGED <<settings, ownView, editors, saves, met>>

\* The insurer answers with some codes, and the rows of those are read.
ReadKnown(q) ==
  /\ quotes[q].step = "asked"
  /\ \E S \in (SUBSET CoverCodes) \ {{}} :
       quotes' = [quotes EXCEPT ![q].step = "read", ![q].left = S,
                                ![q].known = {c \in S : settings[c].status # "none"}]
  /\ UNCHANGED <<settings, ownView, editors, saves, quoted, met>>

\* The row a code has once registered: made, or as the winner of the race left it.
Made(c) == IF settings[c].status = "none" THEN Found(c) ELSE settings[c]

RegisterCode(q) ==
  /\ quotes[q].step = "read"
  /\ \E c \in quotes[q].left :
       /\ quotes' = [quotes EXCEPT ![q] = IF @.left = {c} THEN NoQuote ELSE [quotes[q] EXCEPT !.left = @ \ {c}]]
       /\ settings' = IF c \in quotes[q].known THEN settings ELSE [settings EXCEPT ![c] = Made(c)]
  /\ UNCHANGED <<ownView, editors, saves, quoted, met>>

\* Any other failure leaves the rest for the next quote.
RegisterFails(q) ==
  /\ quotes[q].step = "read"
  /\ quotes' = [quotes EXCEPT ![q] = NoQuote]
  /\ UNCHANGED <<settings, ownView, editors, saves, quoted, met>>

-----------------------------------------------------------------------------
(* The panel *)

\* update finds the row (requireSetting), and writes it a moment later.
AskSave(e, c, sent) ==
  /\ editors[e].step = "free" /\ saves < MaxSaves /\ settings[c].status = "live"
  /\ editors' = [editors EXCEPT ![e] = [step |-> "found", code |-> c, first |-> ~settings[c].configured, sent |-> sent]]
  /\ saves' = saves + 1
  /\ met' = IF \E o \in Editors : editors[o].step = "found" /\ editors[o].code = c THEN met \cup {c} ELSE met
  /\ UNCHANGED <<settings, ownView, quotes, quoted>>

\* Slip: the first edit keeps the wording on screen, not its visibility.
WordingKept(c, row) == [row EXCEPT !.benefits = DefaultBenefits(c), !.exclusions = "manual"]

\* The first edit saves the wording and the visibility the screen had.
AsShown(c, row) ==
  [row EXCEPT !.benefits = DefaultBenefits(c), !.exclusions = "manual", !.active = c \in Everyday]

SaveCoverage(e) ==
  LET c == editors[e].code
      sent == editors[e].sent
      row == IF editors[e].first THEN AsShown(c, settings[c]) ELSE settings[c]
  IN /\ editors[e].step = "found"
     /\ settings' = [settings EXCEPT ![c] =
          [row EXCEPT !.configured = TRUE, !.benefits = SentOr(sent.benefits, @), !.exclusions = SentOr(sent.exclusions, @),
                      !.active = SentOr(sent.active, @), !.star = SentOr(sent.star, @), !.years = SentOr(sent.years, @)]]
     /\ editors' = [editors EXCEPT ![e] = NoEditor]
     /\ UNCHANGED <<ownView, quotes, saves, quoted, met>>

\* updateAssistant with coverageSettings: only codes the organization has.
SaveOwnView ==
  /\ saves < MaxSaves /\ saves' = saves + 1
  /\ ownView' \in {v \in [CoverCodes -> Choice] : \A c \in CoverCodes : v[c] # "unset" => settings[c].status = "live"}
  /\ UNCHANGED <<settings, quotes, editors, quoted, met>>

CoverageNext ==
  \/ \E q \in Quotes : AskQuote(q) \/ ReadKnown(q) \/ RegisterCode(q) \/ RegisterFails(q)
  \/ \E e \in Editors : \/ \E c \in CoverCodes, s \in Saves : AskSave(e, c, s)
                        \/ SaveCoverage(e)
  \/ SaveOwnView

CoverageSpec == CoverageInit /\ [][CoverageNext]_coverVars

-----------------------------------------------------------------------------
(* Properties *)

\* Registering the codes of a quote changes nothing of what a client is offered,
\* whatever an admin saved meanwhile and however many quotes met the code at once.
DiscoveryIsQuiet ==
  settings' # settings /\ (\E q \in Quotes : quotes'[q] # quotes[q]) =>
       /\ \A y \in VehicleYears, v \in [CoverCodes -> Choice] : OfferedIn(y, v)' = OfferedIn(y, v)
       /\ \A c \in CoverCodes : ReadsAs(c)' = ReadsAs(c) /\ Recommended(c)' = Recommended(c)

\* "So the coverage keeps reading exactly as the admin saw it" (update): a save
\* changes of what the screen showed what it sent, unless two saves met.
ShownIsKept ==
  \A e \in Editors, c \in CoverCodes \ met :
    editors[e].step = "found" /\ editors[e].code = c /\ editors'[e] = NoEditor =>
      \A sent \in {editors[e].sent} :
        LET before == ShownRow(c)
        IN ShownRow(c)' = [field \in DOMAIN before |-> SentOr(sent[field], before[field])]

\* "A code nobody described is hidden": no client is offered a coverage whose
\* wording is a guess stored before the manual was read, nor one without any.
NothingIsGuessed ==
  \A y \in VehicleYears : \A c \in OfferedIn(y, ownView) : ReadsAs(c).benefits \in {"manual", "own"}

\* The same when two first edits meet.
FirstEditsStay ==
  [][\A e \in Editors, c \in CoverCodes :
       editors[e].step = "found" /\ editors[e].code = c /\ editors'[e] = NoEditor /\ editors[e].sent.benefits = {} =>
         ShownRow(c).benefits' = ShownRow(c).benefits]_coverVars
=============================================================================
