----------------------------- MODULE MCOutreach -----------------------------
(* The parts of the API by which the office writes to its clients: the text of *)
(* a campaign, whom it finds, its messages, and the notices of expired         *)
(* policies. Each behaviour is one of a part, the others at rest.              *)
EXTENDS CampaignTexts, CampaignFinder, CampaignMessages, ExpiryNotices

VARIABLE part

outreachVars == <<part, textVars, finderVars, messageVars, noticeVars>>

FinderAtRest ==
  /\ portfolio = [p \in Policies |-> AnyPolicy]
  /\ quotes = [q \in Quotes |-> [at |-> 0, requested |-> TRUE]]

OutreachInit ==
  /\ part \in {"texts", "finder", "messages", "expired"}
  /\ TextsInit /\ MessagesInit /\ NoticesInit
  /\ IF part = "finder" THEN FinderInit ELSE FinderAtRest
  /\ part = "messages" \/ ~byChat

OutreachNext ==
  /\ UNCHANGED <<part, finderVars>>
  /\ \/ part = "texts" /\ TextsNext /\ UNCHANGED <<messageVars, noticeVars>>
     \/ part = "messages" /\ MessagesNext /\ UNCHANGED <<textVars, noticeVars>>
     \/ part = "expired" /\ NoticesNext /\ UNCHANGED <<textVars, messageVars>>

OutreachSpec == OutreachInit /\ [][OutreachNext]_outreachVars

\* Every row, request and step of the part at work keeps its type.
OutreachTypesOK ==
  /\ part = "texts" => TextsTypeOK
  /\ part = "finder" => FinderTypeOK
  /\ part = "messages" => MessagesTypeOK
  /\ part = "expired" => NoticesTypeOK

\* Nobody is written to twice within the cooldown of a campaign, nor told twice
\* within the month of an expired policy, but for what the sends could not see:
\* one another, a message shown as failed that went out, or one a later failed
\* message hid.
WrittenOnce ==
  /\ part = "messages" => AgainOnlyUnseen
  /\ part = "expired" => ToldOncePerMonth

\* Whom the panel offers is whom a send finds, ticked alone or all together.
OffersFit == part = "finder" => OffersAgree
=============================================================================
