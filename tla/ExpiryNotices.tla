---------------------------- MODULE ExpiryNotices -----------------------------
(* The worklist of expired policies and the notices the office sends from it   *)
(* (expired-policies/expired-policies.service.ts). The panel lists policies     *)
(* that ran out and were not renewed; a send reads the notices of the ticked    *)
(* ones, creates a row per policy and delivers them in the background.          *)
EXTENDS Naturals, Sequences

CONSTANTS Senders,       \* sends in course at once
          Expired,       \* policies that ran out
          RenotifyAfter, \* days
          LastDate, MaxNotices,
          MaxIncidentals \* troubles, days that pass, and policies hidden or renewed

ASSUME NoticeParameters == {RenotifyAfter, LastDate, MaxNotices, MaxIncidentals} \subseteq Nat

VARIABLES
  expiryNotices, \* PolicyExpiryNotice rows, oldest first
  hidden,        \* policies the office hid
  renewed,       \* policies with a running one of the same plate or risk
  listed,        \* policies the open panel shows
  sending,       \* sends: policies still to claim and rows to deliver
  date,
  incidentals

noticeVars == <<expiryNotices, hidden, renewed, listed, sending, date, incidentals>>

\* read: notices there were when its send read; and whether WhatsApp took it.
Notice == [policy : Expired, status : {"SENDING", "SENT", "FAILED", "MARKED"}, date : 0..LastDate,
           read : 0..MaxNotices, asOf : 0..LastDate, stale : BOOLEAN, accepted : BOOLEAN]

NoSend == [claims |-> {}, rows |-> <<>>, read |-> 0, asOf |-> 0, renewed |-> {}]

NoticesTypeOK ==
  /\ expiryNotices \in Seq(Notice) /\ Len(expiryNotices) <= MaxNotices
  /\ hidden \subseteq Expired /\ renewed \subseteq Expired /\ listed \subseteq Expired
  /\ sending \in [Senders -> [claims : SUBSET Expired, rows : Seq(1..MaxNotices),
                              read : 0..MaxNotices, asOf : 0..LastDate, renewed : SUBSET Expired]]
  /\ date \in 0..LastDate /\ incidentals \in 0..MaxIncidentals

NoticesInit ==
  /\ expiryNotices = <<>> /\ hidden = {} /\ renewed = {} /\ listed = Expired
  /\ sending = [s \in Senders |-> NoSend]
  /\ date = 0 /\ incidentals = 0

Incidental == incidentals < MaxIncidentals /\ incidentals' = incidentals + 1

-----------------------------------------------------------------------------
(* The worklist. *)

\* list: with renewedKeys, those renewed under a new certificate are left out.
List ==
  /\ listed' = Expired \ (hidden \cup renewed)
  /\ UNCHANGED <<expiryNotices, hidden, renewed, sending, date, incidentals>>

Hide(p) ==
  /\ p \notin hidden /\ Incidental
  /\ hidden' = hidden \cup {p}
  /\ UNCHANGED <<expiryNotices, renewed, listed, sending, date>>

Unhide(p) ==
  /\ p \in hidden
  /\ hidden' = hidden \ {p}
  /\ UNCHANGED <<expiryNotices, renewed, listed, sending, date, incidentals>>

\* The portfolio sync brings the renewal.
Renew(p) ==
  /\ p \notin renewed /\ Incidental
  /\ renewed' = renewed \cup {p}
  /\ UNCHANGED <<expiryNotices, hidden, listed, sending, date>>

-----------------------------------------------------------------------------
(* send and mark. *)

NoticesOf(p) == {i \in DOMAIN expiryNotices : expiryNotices[i].policy = p}
OnItsWay(p) == \E i \in NoticesOf(p) : expiryNotices[i].status = "SENDING"

\* Slip: the policy's last notice decides.
ToldLast(p) ==
  NoticesOf(p) # {} /\ LET last == expiryNotices[CHOOSE i \in NoticesOf(p) : \A j \in NoticesOf(p) : j <= i] IN
    last.status \in {"SENT", "MARKED"} /\ last.date + RenotifyAfter >= date

Told(p) ==
  \E i \in NoticesOf(p) :
    expiryNotices[i].status \in {"SENT", "MARKED"} /\ expiryNotices[i].date + RenotifyAfter >= date

\* send: of the ticked, the visible ones not told in the month nor going out.
\* Whether they were renewed is not asked again.
SendNotices(s, ticked) ==
  LET claims == {p \in ticked \ hidden : ~OnItsWay(p) /\ ~Told(p)} IN
    /\ sending[s] = NoSend /\ ticked \subseteq listed /\ claims # {}
    /\ sending' = [sending EXCEPT ![s] =
         [NoSend EXCEPT !.claims = claims, !.read = Len(expiryNotices), !.asOf = date, !.renewed = renewed]]
    /\ UNCHANGED <<expiryNotices, hidden, renewed, listed, date, incidentals>>

NoticeRow(p, status, send) ==
  [policy |-> p, status |-> status, date |-> date, read |-> send.read, asOf |-> send.asOf,
   stale |-> p \in send.renewed, accepted |-> FALSE]

ClaimNotice(s, p) ==
  /\ p \in sending[s].claims /\ Len(expiryNotices) < MaxNotices
  /\ expiryNotices' = Append(expiryNotices, NoticeRow(p, "SENDING", sending[s]))
  /\ sending' = [sending EXCEPT ![s].claims = @ \ {p}, ![s].rows = Append(@, Len(expiryNotices) + 1)]
  /\ UNCHANGED <<hidden, renewed, listed, date, incidentals>>

\* mark: the office told the client by other means.
MarkTold(p) ==
  /\ p \in listed \ hidden /\ ~OnItsWay(p) /\ Len(expiryNotices) < MaxNotices
  /\ expiryNotices' = Append(expiryNotices,
       NoticeRow(p, "MARKED", [NoSend EXCEPT !.read = Len(expiryNotices), !.asOf = date, !.renewed = renewed]))
  /\ UNCHANGED <<hidden, renewed, listed, sending, date, incidentals>>

-----------------------------------------------------------------------------
(* deliverAll and deliverOne. *)

Turn(s) == sending[s].claims = {} /\ sending[s].rows # <<>>
InTurn(s) == Head(sending[s].rows)
Pass(s) ==
  LET rest == Tail(sending[s].rows) IN
    sending' = [sending EXCEPT ![s] = IF rest = <<>> THEN NoSend ELSE [@ EXCEPT !.rows = rest]]

NoticeAccepted(s) ==
  /\ Turn(s) /\ ~expiryNotices[InTurn(s)].accepted
  /\ expiryNotices' = [expiryNotices EXCEPT ![InTurn(s)].accepted = TRUE]
  /\ UNCHANGED <<hidden, renewed, listed, sending, date, incidentals>>

\* Refused, or its answer or a query before it is lost.
NoticeRefused(s) ==
  /\ Turn(s) /\ ~expiryNotices[InTurn(s)].accepted /\ Incidental
  /\ \E took \in BOOLEAN :
       expiryNotices' = [expiryNotices EXCEPT ![InTurn(s)].status = "FAILED", ![InTurn(s)].accepted = took]
  /\ Pass(s)
  /\ UNCHANGED <<hidden, renewed, listed, date>>

\* In the chat and SENT, or SENT with a note.
NoticeSent(s) ==
  /\ Turn(s) /\ expiryNotices[InTurn(s)].accepted
  /\ expiryNotices' = [expiryNotices EXCEPT ![InTurn(s)].status = "SENT"]
  /\ Pass(s)
  /\ UNCHANGED <<hidden, renewed, listed, date, incidentals>>

\* Neither SENT could be written: FAILED where still SENDING.
NoticeUnstored(s) ==
  /\ Turn(s) /\ expiryNotices[InTurn(s)].accepted /\ Incidental
  /\ expiryNotices' = [expiryNotices EXCEPT ![InTurn(s)].status = IF @ = "SENDING" THEN "FAILED" ELSE @]
  /\ Pass(s)
  /\ UNCHANGED <<hidden, renewed, listed, date>>

\* The send throws: its rows stay SENDING.
SendFails(s) ==
  /\ sending[s] # NoSend /\ Incidental
  /\ sending' = [sending EXCEPT ![s] = NoSend]
  /\ UNCHANGED <<expiryNotices, hidden, renewed, listed, date>>

\* onModuleInit.
NoticesRestart ==
  /\ Incidental
  /\ sending' = [s \in Senders |-> NoSend]
  /\ expiryNotices' = [i \in DOMAIN expiryNotices |->
       [expiryNotices[i] EXCEPT !.status = IF @ = "SENDING" THEN "FAILED" ELSE @]]
  /\ UNCHANGED <<hidden, renewed, listed, date>>

DatePasses ==
  /\ date < LastDate /\ Incidental
  /\ date' = date + 1
  /\ UNCHANGED <<expiryNotices, hidden, renewed, listed, sending>>

NoticesNext ==
  \/ List \/ NoticesRestart \/ DatePasses
  \/ \E p \in Expired : Hide(p) \/ Unhide(p) \/ Renew(p) \/ MarkTold(p)
  \/ \E s \in Senders :
       \/ \E ticked \in SUBSET Expired : SendNotices(s, ticked)
       \/ \E p \in Expired : ClaimNotice(s, p)
       \/ NoticeAccepted(s) \/ NoticeRefused(s) \/ NoticeSent(s) \/ NoticeUnstored(s) \/ SendFails(s)

NoticesSpec == NoticesInit /\ [][NoticesNext]_noticeVars

-----------------------------------------------------------------------------
(* Properties *)

\* "A client told about a policy this recently is not told again, whatever the
\* office ticks": only sends that overlapped, or one after a notice WhatsApp took
\* and the row shows as failed, tell a policy's client twice within the month.
ToldOncePerMonth ==
  \A i, j \in DOMAIN expiryNotices :
    LET first == expiryNotices[i]  then == expiryNotices[j] IN
      /\ i < j /\ first.policy = then.policy /\ first.accepted /\ then.accepted
      /\ then.asOf <= first.date + RenotifyAfter
      => then.read < i \/ first.status = "FAILED"

\* What the code does not keep: a client who renewed is not offered a renewal. A
\* send believes the list the panel opened with.
RenewedIsNotTold == \A i \in DOMAIN expiryNotices : expiryNotices[i].accepted => ~expiryNotices[i].stale
=============================================================================
