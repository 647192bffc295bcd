----------------------------- MODULE MCInsurer ------------------------------
(* The parts of the API that deal with the insurer and watch its connections:  *)
(* its tokens and errors, the incidents, the portfolio, the catalog of vehicles *)
(* and the claims. They share no state: each behaviour is one of a part, the    *)
(* others at rest.                                                              *)
EXTENDS TriunfoTokens, TriunfoErrors, Incidents, PortfolioSync, VehicleCatalog, Claims, TLC

VARIABLE part

insurerVars == <<part, tokenVars, errorVars, incidentVars, syncVars, catalogVars, claimVars>>

\* Two of each of these, which nothing but the name tells apart. As one part is at
\* work at a time, all are swapped at once, or none.
Pairs == {Callers, Reports, Runs, Quoters, Photos, Signatures, Explainers}
Twin(x) == CHOOSE y \in UNION {p \in Pairs : x \in p} : y # x
MCTwins ==
  {[x \in UNION Pairs |-> IF \A q \in Quoters : swap[q] = q THEN x ELSE Twin(x)] : swap \in Permutations(Quoters)}

CatalogAtRest ==
  /\ kind = "AUTO" /\ ~wired.prices
  /\ \A v \in Vehicles : listing[v] = [page |-> LastPage, prices |-> "used"] /\ feature[v] = Unknown

InsurerInit ==
  /\ part \in {"tokens", "errors", "incidents", "portfolio", "catalog", "claims"}
  /\ TokensInit /\ ErrorsInit /\ IncidentsInit /\ SyncInit
  /\ CatalogInit /\ \A v \in Vehicles : listing[v] = [page |-> LastPage, prices |-> "used"] /\ feature[v] # "N"
  /\ wired.prices => kind = "AUTO" /\ \A v \in Vehicles : feature[v] = "I"
  /\ part = "catalog" \/ CatalogAtRest
  /\ ClaimsInit /\ \A p \in Policies : book[p] = [code |-> CHOOSE n \in OfficeLines : TRUE, inForce |-> TRUE]

InsurerNext ==
  /\ UNCHANGED part
  /\ \/ part = "tokens" /\ TokensNext /\ UNCHANGED <<errorVars, incidentVars, syncVars, catalogVars, claimVars>>
     \/ part = "errors" /\ ErrorsNext /\ UNCHANGED <<tokenVars, incidentVars, syncVars, catalogVars, claimVars>>
     \/ part = "incidents" /\ IncidentsNext /\ UNCHANGED <<tokenVars, errorVars, syncVars, catalogVars, claimVars>>
     \/ part = "portfolio" /\ SyncNext /\ UNCHANGED <<tokenVars, errorVars, incidentVars, catalogVars, claimVars>>
     \/ part = "catalog" /\ CatalogNext /\ UNCHANGED <<tokenVars, errorVars, incidentVars, syncVars, claimVars>>
     \/ part = "claims" /\ ClaimsNext /\ UNCHANGED <<tokenVars, errorVars, incidentVars, syncVars, catalogVars>>

InsurerSpec == InsurerInit /\ [][InsurerNext]_insurerVars

\* Every row, cache and step of the part at work keeps its type.
InsurerTypesOK ==
  /\ part = "tokens" => TokensTypeOK
  /\ part = "errors" => ErrorsTypeOK
  /\ part = "incidents" => IncidentsTypeOK
  /\ part = "portfolio" => SyncTypeOK
  /\ part = "catalog" => CatalogTypeOK
  /\ part = "claims" => ClaimsTypeOK

\* A token is asked for by one request at a time, the insurer's and the catalog's,
\* and a quote is priced on what the catalog says.
AccessFits ==
  /\ part = "tokens" => OneTokenRequest
  /\ part = "catalog" => CatalogFits

\* What fails is told until it ends, and a claim and its photos reach the office.
ReportsFit ==
  /\ part = "errors" => OutagesAreTold
  /\ part = "claims" => ClaimsFit

\* The connections' incidents and the portfolio, each of its part.
IncidentsHold == part = "incidents" => IncidentsFit
PortfolioHolds == part = "portfolio" => PortfolioFits
=============================================================================
