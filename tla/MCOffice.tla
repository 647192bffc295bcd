------------------------------ MODULE MCOffice ------------------------------
(* What happens around the office's chats: the session of a chat, one message  *)
(* of its person at a time with the office at work ("chat") or two at once     *)
(* ("burst"), the lines it comes by, the requests for a quote, and the months  *)
(* that close. Each behaviour is one of a part, the others at rest.            *)
EXTENDS MCSession, NumberConnections, QuoteRequests, MonthClose, MonthBalance, TLC

VARIABLE part

officeVars == <<part, sessionVars, connectionVars, quoteVars, closeVars, balanceVars>>

\* Two of each of these, which nothing but the name tells apart. As one part is at
\* work at a time, all are swapped at once, or none.
Pairs == {Requests, Submitters, Coverages, Documents}
Twin(x) == CHOOSE y \in UNION {p \in Pairs : x \in p} : y # x
MCTwins ==
  {[x \in UNION Pairs |-> IF \A r \in Requests : swap[r] = r THEN x ELSE Twin(x)] : swap \in Permutations(Requests)}

OfficeInit ==
  /\ part \in {"chat", "burst", "lines", "requests", "closes", "balance"}
  /\ SessionInit /\ ConnectionsInit /\ QuoteInit /\ CloseInit /\ BalanceInit
  /\ part = "requests" \/ ~online
  /\ part \in {"chat", "burst"} \/ chat.number = "main"

\* One message at a time, while the office writes and the chat is polled.
OneMessage == \A r, s \in Requests : requests'[r].step = "idle" \/ requests'[s].step = "idle" \/ r = s

\* Several at once, and nothing else.
Burst == aside' = aside /\ poll' = poll

OfficeNext ==
  /\ UNCHANGED part
  /\ \/ part = "chat" /\ SessionNext /\ OneMessage
        /\ UNCHANGED <<connectionVars, quoteVars, closeVars, balanceVars>>
     \/ part = "burst" /\ SessionNext /\ Burst
        /\ UNCHANGED <<connectionVars, quoteVars, closeVars, balanceVars>>
     \/ part = "lines" /\ ConnectionsNext /\ UNCHANGED <<sessionVars, quoteVars, closeVars, balanceVars>>
     \/ part = "requests" /\ QuoteNext /\ UNCHANGED <<sessionVars, connectionVars, closeVars, balanceVars>>
     \/ part = "closes" /\ CloseNext /\ UNCHANGED <<sessionVars, connectionVars, quoteVars, balanceVars>>
     \/ part = "balance" /\ BalanceNext /\ UNCHANGED <<sessionVars, connectionVars, quoteVars, closeVars>>

OfficeSpec == OfficeInit /\ [][OfficeNext]_officeVars

\* Every row, request and step of the part at work keeps its type.
OfficeTypesOK ==
  /\ part \in {"chat", "burst"} => SessionTypeOK
  /\ part = "lines" => ConnectionsTypeOK
  /\ part = "requests" => QuoteTypeOK
  /\ part = "closes" => CloseTypeOK
  /\ part = "balance" => BalanceTypeOK

\* A person who comes back starts anew, the chat's code is one its number serves,
\* and the goodbye is for who was silent.
SessionsFit == [](VisitsApart /\ CodeFits) /\ GoodbyeFits

\* A number back on its line has its chats, and its account is marked as
\* disconnected only when it is.
LinesFit == []ChatsFollowLine /\ AlarmsAreTrue

\* A request is before the office's eyes, and a lead's choice fits its price.
RequestsFit == NewIsListed /\ LeadFits

\* What a month's rows tell of its end was read in its days of grace (the plans, on
\* the 1st), and is left out or marked otherwise, whoever closes it and however late;
\* they are written again only when the owner forces it.
MonthsFit == [](UnmarkedIsTimely /\ BalanceIsTimely) /\ FrozenUnlessForced /\ RewrittenIfForced
=============================================================================
