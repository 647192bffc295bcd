---------------------------- MODULE CampaignFinder ----------------------------
(* Whom each campaign writes to (sales-campaigns/campaign-finder.service.ts),   *)
(* over the validity rules of common/poliza-vigencia.ts. The finder only reads: *)
(* the portfolio is that of a client with a phone, or a chat with its quotes.   *)
(* A vehicle or risk is a key, as keyOf builds it; `ids` are the ticked rows.   *)
EXTENDS Naturals, FiniteSets

CONSTANTS LastPolicy, LastQuote,
          Cars, Homes,   \* the vehicles and risks of the client
          Basic,         \* cars on a coverage the organization counts as basic
          NoDate, Now, LastInstant,
          DaysBefore,    \* renewal: the policies that end within
          WithinDays,    \* winback and quotes: since when
          AfterDays      \* quotes: until when

Policies == 1..LastPolicy
Quotes == 1..LastQuote
Instants == 0..LastInstant
Dates == Instants \cup {NoDate}

ASSUME FinderParameters ==
  /\ {LastPolicy, LastQuote, LastInstant, DaysBefore, WithinDays, AfterDays} \subseteq Nat
  /\ Now \in Instants /\ WithinDays <= Now /\ AfterDays <= WithinDays
  /\ NoDate \notin Nat /\ Cars # {} /\ Basic \subseteq Cars

VARIABLES portfolio,  \* the client's policies
          quotes      \* the chat's quotes: when, and asked to contract or not

finderVars == <<portfolio, quotes>>

\* cancelled: when Triunfo did; lost: not a replacement nor an error.
PolicyRow == [key : Cars \cup Homes, validFrom : Dates, validTo : Dates, cancelled : Dates, lost : BOOLEAN]
QuoteRow == [at : 0..Now, requested : BOOLEAN]
AnyPolicy == [key |-> CHOOSE c \in Cars : TRUE, validFrom |-> NoDate, validTo |-> NoDate, cancelled |-> NoDate,
              lost |-> FALSE]

FinderTypeOK == portfolio \in [Policies -> PolicyRow] /\ quotes \in [Quotes -> QuoteRow]

FinderInit ==
  \/ /\ portfolio \in [Policies -> {p \in PolicyRow : p.cancelled \in {NoDate} \cup 0..Now /\ (p.lost => p.cancelled # NoDate)}]
     /\ quotes = [q \in Quotes |-> [at |-> 0, requested |-> TRUE]]
  \/ /\ quotes \in [Quotes -> QuoteRow]
     /\ portfolio \in [Policies -> {[AnyPolicy EXCEPT !.validFrom = i] : i \in Instants}]

-----------------------------------------------------------------------------
(* poliza-vigencia.ts: what a query takes for in force, and what a row is. *)

Cancelled(p) == portfolio[p].cancelled # NoDate
EndsFrom(p, i) == portfolio[p].validTo # NoDate /\ portfolio[p].validTo >= i
Running(p) == EndsFrom(p, Now) /\ ~Cancelled(p)
InForce(p) == Running(p) /\ (portfolio[p].validFrom = NoDate \/ portfolio[p].validFrom <= Now)

Validity(p) ==
  CASE Cancelled(p) -> "anulada"
    [] ~Cancelled(p) /\ portfolio[p].validFrom # NoDate /\ portfolio[p].validFrom > Now -> "proxima"
    [] OTHER -> IF portfolio[p].validTo # NoDate /\ portfolio[p].validTo < Now THEN "vencida" ELSE "vigente"

-----------------------------------------------------------------------------
(* The campaigns. *)

SameKey(p, q) == portfolio[p].key = portfolio[q].key
IsCar(p) == portfolio[p].key \in Cars

CoverageUpgrade(ids) == {p \in ids : InForce(p) /\ portfolio[p].key \in Basic}

\* Slip: a renewal counts once it is in force.
RenewedInForce(p) == \E q \in Policies \ {p} : InForce(q) /\ SameKey(p, q) /\ portfolio[q].validTo > portfolio[p].validTo

Renewed(p) == \E q \in Policies \ {p} : Running(q) /\ SameKey(p, q) /\ portfolio[q].validTo > portfolio[p].validTo

Renewal(ids) == {p \in ids : InForce(p) /\ portfolio[p].validTo <= Now + DaysBefore /\ ~Renewed(p)}

\* The latest cancellation of each vehicle or risk with nothing running; of two of a moment, the first read.
Lost(p) ==
  /\ portfolio[p].lost /\ EndsFrom(p, 0)
  /\ Cancelled(p) /\ portfolio[p].cancelled \in (Now - WithinDays)..Now
  /\ ~\E q \in Policies : Running(q) /\ SameKey(p, q)

Later(p, q) ==
  portfolio[p].cancelled > portfolio[q].cancelled \/ (portfolio[p].cancelled = portfolio[q].cancelled /\ p < q)

Winback(ids) ==
  {p \in ids : Lost(p) /\ \A q \in ids \ {p} : Lost(q) /\ SameKey(p, q) => Later(p, q)}

\* The car that started last of a client without a home policy.
StartOf(p) ==
  IF portfolio[p].validFrom # NoDate THEN portfolio[p].validFrom ELSE portfolio[p].validTo

CrossSell(ids) ==
  LET cars == {p \in ids : InForce(p) /\ IsCar(p)} IN
    {p \in cars : /\ ~\E h \in Policies : InForce(h) /\ ~IsCar(h)
                  /\ \A q \in cars \ {p} : StartOf(p) > StartOf(q) \/ (StartOf(p) = StartOf(q) /\ p < q)}

\* The chat's latest quote of the window nobody asked to contract, unless the client
\* got a policy since (createdAt, here validFrom).
QuoteFollowup(ids) ==
  LET open == {q \in ids : ~quotes[q].requested /\ quotes[q].at \in (Now - WithinDays)..(Now - AfterDays)} IN
    {q \in open : /\ \A r \in open \ {q} : quotes[q].at > quotes[r].at \/ (quotes[q].at = quotes[r].at /\ q < r)
                  /\ ~\E p \in Policies : portfolio[p].validFrom # NoDate /\ portfolio[p].validFrom >= quotes[q].at}

-----------------------------------------------------------------------------
(* Properties *)

\* A vehicle or risk is offered a renewal or its recovery, never both, and
\* neither when a policy on it goes on past the one offered, started or not.
RenewedIsNotOffered ==
  \A p \in Policies :
    /\ p \in Renewal(Policies) => ~\E q \in Policies :
         ~Cancelled(q) /\ SameKey(p, q) /\ EndsFrom(q, portfolio[p].validTo + 1)
    /\ p \in Winback(Policies) => ~\E q \in Policies : ~Cancelled(q) /\ SameKey(p, q) /\ EndsFrom(q, Now)
    /\ p \in Renewal(Policies) => ~\E q \in Winback(Policies) : SameKey(p, q)

\* Whoever the panel lists is found again when only they are ticked: narrowing by
\* id before choosing one per vehicle, client or chat loses nobody who is listed.
TickedIsFound ==
  /\ \A ids \in SUBSET Policies :
       /\ ids \subseteq CoverageUpgrade(Policies) => CoverageUpgrade(ids) = ids
       /\ ids \subseteq Renewal(Policies) => Renewal(ids) = ids
       /\ ids \subseteq Winback(Policies) => Winback(ids) = ids
       /\ ids \subseteq CrossSell(Policies) => CrossSell(ids) = ids
  /\ \A ids \in SUBSET Quotes : ids \subseteq QuoteFollowup(Quotes) => QuoteFollowup(ids) = ids

\* The query for the policies in force and the status the panel and the bot show
\* agree on every policy with an end date.
InForceIsVigente ==
  \A p \in Policies : portfolio[p].validTo # NoDate => (InForce(p) <=> Validity(p) = "vigente")

OffersAgree == RenewedIsNotOffered /\ TickedIsFound /\ InForceIsVigente

\* What the code does not keep: only who the panel lists can be written to. Ticked
\* alone, an older cancellation, car or quote is the latest of those ticked.
OnlyListed ==
  /\ \A ids \in SUBSET Policies : Winback(ids) \subseteq Winback(Policies) /\ CrossSell(ids) \subseteq CrossSell(Policies)
  /\ \A ids \in SUBSET Quotes : QuoteFollowup(ids) \subseteq QuoteFollowup(Quotes)
=============================================================================
