------------------------------- MODULE Claims -------------------------------
(* The claims clients report and the photos that go with them                  *)
(* (siniestros.service.ts, bot.service.ts, mail.service.ts): a claim filed on   *)
(* the portal with its photo, or in a chat with its photos sent apart, each a   *)
(* request of its own; the office moves claims on meanwhile. A claim is stored,  *)
(* reported by e-mail and put before the office in separate statements.             *)
EXTENDS Naturals, Sequences, FiniteSets

CONSTANTS Filers,      \* requests that file
          Photos, Policies,
          Portal,      \* a photo filed with its claim
          Main,        \* the line that serves every code
          OfficeLines,       \* lines that serve the code of their name
          MaxFiles,    \* attachments a claim keeps
          PhotoWindow, \* days a loose photo joins a claim
          MaxClaims, LastPhotoDay, MaxThreadMoves, MaxCuts,
          Nothing

ASSUME ClaimParameters ==
  /\ Main \notin OfficeLines /\ Portal \notin Photos /\ Nothing \notin OfficeLines \cup {Main} \cup Policies
  /\ MaxFiles \in Nat \ {0} /\ {PhotoWindow, MaxClaims, LastPhotoDay, MaxThreadMoves, MaxCuts} \subseteq Nat

VARIABLES
  book,      \* Policy: its code, and whether it is in force
  claims,    \* Claim rows, by id
  filing, photo,
  thread,      \* Conversation: the line last written to, and the client's link
  reported,      \* claims e-mailed, and claims with a matter
  together,   \* history: photos attached while another was
  today, moves, cuts

claimVars == <<book, claims, filing, photo, thread, reported, together, today, moves, cuts>>

AllLines == OfficeLines \cup {Main}
\* Pending or in progress, which nothing tells apart here, or resolved.
Status == {"open", "resolved"}
\* A photo of a guided claim is labelled, one of a claim still being filled in held.
Kinds == {"loose", "labelled", "held"}
IdleFiling == [at |-> "idle", claim |-> 0]
UnsentPhoto == [at |-> "unsent", kind |-> "loose", line |-> Nothing, claim |-> 0, read |-> <<>>, day |-> 0]
InInbox == [UnsentPhoto EXCEPT !.at = "inbox"]

ClaimsTypeOK ==
  /\ book \in [Policies -> [code : OfficeLines, inForce : BOOLEAN]]
  /\ claims \in Seq([policy : Policies, code : OfficeLines, status : Status, filed : 0..LastPhotoDay, photos : Seq(Photos \cup {Portal})])
  /\ Len(claims) <= MaxClaims
  /\ filing \in [Filers -> [at : {"idle", "stored", "mailed", "answered", "failed"}, claim : 0..MaxClaims]]
  /\ photo \in [Photos -> [at : {"unsent", "asked", "found", "joined", "inbox"}, kind : Kinds,
                           line : AllLines \cup {Nothing},
                           claim : 0..MaxClaims, read : Seq(Photos \cup {Portal}), day : 0..LastPhotoDay]]
  /\ thread \in [line : AllLines, link : {"none", "active", "old"}]
  /\ reported \in [mail : SUBSET (1..MaxClaims), matter : SUBSET (1..MaxClaims)]
  /\ together \subseteq Photos /\ today \in 0..LastPhotoDay /\ moves \in 0..MaxThreadMoves /\ cuts \in 0..MaxCuts

ClaimsInit ==
  /\ book \in [Policies -> [code : OfficeLines, inForce : BOOLEAN]]
  /\ claims = <<>> /\ filing = [f \in Filers |-> IdleFiling] /\ photo = [p \in Photos |-> UnsentPhoto]
  /\ thread = [line |-> Main, link |-> "none"]
  /\ reported = [mail |-> {}, matter |-> {}] /\ together = {} /\ today = 0 /\ moves = 0 /\ cuts = 0

Serves(n, code) == n = Main \/ n = code

-----------------------------------------------------------------------------
\* A merge keeps the newest.
Merged(old, new) == LET all == old \o new IN SubSeq(all, IF Len(all) > MaxFiles THEN Len(all) - MaxFiles + 1 ELSE 1, Len(all))

-----------------------------------------------------------------------------
(* Filing *)

MayFile(f) == filing[f].at \in {"idle", "failed", "answered"} /\ Len(claims) < MaxClaims

\* The row takes its policy's code, which nothing here changes.
StoreClaim(f, pol, photos) ==
  /\ MayFile(f)
  /\ claims' = Append(claims, [policy |-> pol, code |-> book[pol].code, status |-> "open", filed |-> today, photos |-> photos])
  /\ filing' = [filing EXCEPT ![f] = [at |-> "stored", claim |-> Len(claims')]]
  /\ UNCHANGED <<book, photo, thread, reported, together, today, moves, cuts>>

\* POST me/siniestros, with photos or without: any policy of the client's.
FileOnWeb(f, pol) == \E n \in {0, MaxFiles} : StoreClaim(f, pol, [k \in 1..n |-> Portal])

\* The bot's: a client linked in this session, a policy in force of a code the
\* line serves.
FileByBot(f, pol) ==
  /\ thread.link = "active" /\ book[pol].inForce /\ Serves(thread.line, book[pol].code)
  /\ StoreClaim(f, pol, <<>>)

\* The advisor's e-mail goes out, or not: no claims address, no answer. Nothing
\* of it throws.
NotifyAdvisor(f) ==
  /\ filing[f].at = "stored"
  /\ filing' = [filing EXCEPT ![f].at = "mailed"]
  /\ \/ reported' = [reported EXCEPT !.mail = @ \cup {filing[f].claim}] /\ UNCHANGED cuts
     \/ cuts < MaxCuts /\ cuts' = cuts + 1 /\ UNCHANGED reported
  /\ UNCHANGED <<book, claims, photo, thread, together, today, moves>>

\* recordSiniestro, whose failure is only logged; the request ends.
RecordMatter(f) ==
  /\ filing[f].at = "mailed"
  /\ filing' = [filing EXCEPT ![f].at = "answered"]
  /\ \/ reported' = [reported EXCEPT !.matter = @ \cup {filing[f].claim}] /\ UNCHANGED cuts
     \/ cuts < MaxCuts /\ cuts' = cuts + 1 /\ UNCHANGED reported
  /\ UNCHANGED <<book, claims, photo, thread, together, today, moves>>

\* A query throws or the process dies: the client is told nothing, and may repeat.
FilingBreaks(f) ==
  /\ filing[f].at \in {"stored", "mailed"} /\ cuts < MaxCuts
  /\ filing' = [filing EXCEPT ![f].at = "failed"]
  /\ cuts' = cuts + 1
  /\ UNCHANGED <<book, claims, photo, thread, reported, together, today, moves>>

-----------------------------------------------------------------------------
(* Photos sent in the chat *)

\* The stored link, not the session's, is read once the upload is kept; without
\* one, or held, it stays in the inbox.
SendPhoto(p, kind) ==
  /\ photo[p].at = "unsent"
  /\ photo' = IF thread.link = "none" \/ kind = "held"
              THEN [photo EXCEPT ![p] = InInbox]
              ELSE [photo EXCEPT ![p].at = "asked", ![p].kind = kind, ![p].line = thread.line]
  /\ UNCHANGED <<book, claims, filing, thread, reported, together, today, moves, cuts>>

\* Slip: of any office's.
AnyOffices(p) ==
  {i \in DOMAIN claims :
     /\ claims[i].status # "resolved"
     /\ photo[p].kind = "labelled" \/ claims[i].filed + PhotoWindow >= today}

\* The open claims of the codes the line serves that the photo may join: any, if
\* it is labelled, or those filed in the last days.
Candidates(p) ==
  {i \in DOMAIN claims :
     /\ Serves(photo[p].line, claims[i].code)
     /\ claims[i].status # "resolved"
     /\ photo[p].kind = "labelled" \/ claims[i].filed + PhotoWindow >= today}

\* The latest of them.
FindClaim(p) ==
  /\ photo[p].at = "asked"
  /\ IF Candidates(p) = {}
     THEN photo' = [photo EXCEPT ![p] = InInbox] /\ UNCHANGED together
     ELSE \E i \in Candidates(p) :
            /\ \A j \in Candidates(p) : j <= i
            /\ photo' = [photo EXCEPT ![p].at = "found", ![p].claim = i, ![p].read = claims[i].photos, ![p].day = today]
            /\ LET others == {q \in Photos : photo[q].at = "found" /\ photo[q].claim = i}
               IN together' = IF others = {} THEN together ELSE together \cup others \cup {p}
  /\ UNCHANGED <<book, claims, filing, thread, reported, today, moves, cuts>>

\* The attachments read before are written back with the new one.
JoinClaim(p) ==
  /\ photo[p].at = "found"
  /\ claims' = [claims EXCEPT ![photo[p].claim].photos = Merged(photo[p].read, <<p>>)]
  /\ photo' = [photo EXCEPT ![p].at = "joined", ![p].read = <<>>]
  /\ UNCHANGED <<book, filing, thread, reported, together, today, moves, cuts>>

-----------------------------------------------------------------------------
(* Meanwhile *)

Moves == moves < MaxThreadMoves /\ moves' = moves + 1

\* The client is identified, the session ends, another line is written to.
ChatGoesOn ==
  /\ Moves
  /\ \/ thread.link # "active" /\ thread' = [thread EXCEPT !.link = "active"]
     \/ thread.link = "active" /\ thread' = [thread EXCEPT !.link = "old"]
     \/ \E n \in AllLines \ {thread.line} : thread' = [thread EXCEPT !.line = n]
  /\ UNCHANGED <<book, claims, filing, photo, reported, together, today, cuts>>

\* updateForAdmin: the status is any, in any order.
UpdateClaim(i, s) ==
  /\ Moves
  /\ claims[i].status # s
  /\ claims' = [claims EXCEPT ![i].status = s]
  /\ UNCHANGED <<book, filing, photo, thread, reported, together, today, cuts>>

DayPasses ==
  /\ today < LastPhotoDay
  /\ today' = today + 1
  /\ UNCHANGED <<book, claims, filing, photo, thread, reported, together, moves, cuts>>

ClaimsNext ==
  \/ \E f \in Filers, pol \in Policies : FileOnWeb(f, pol) \/ FileByBot(f, pol)
  \/ \E f \in Filers : NotifyAdvisor(f) \/ RecordMatter(f) \/ FilingBreaks(f)
  \/ \E p \in Photos, kind \in Kinds : SendPhoto(p, kind)
  \/ \E p \in Photos : FindClaim(p) \/ JoinClaim(p)
  \/ ChatGoesOn \/ DayPasses
  \/ \E i \in DOMAIN claims, s \in Status : UpdateClaim(i, s)

-----------------------------------------------------------------------------
(* Correctness *)

Holds(i, p) == \E k \in DOMAIN claims[i].photos : claims[i].photos[k] = p

\* Whatever happened while it was on its way, a photo of the chat is in one claim
\* at most, never one of a code the line it was sent to does not serve, never a
\* claim filed before those days unless it is labelled, and none while it is held
\* for a new one (BotService.attachAdjuntos).
PhotosFit ==
  \A p \in Photos, i \in DOMAIN claims :
    Holds(i, p) => /\ \A j \in DOMAIN claims : Holds(j, p) => j = i
                   /\ photo[p].kind # "held"
                   /\ Serves(photo[p].line, claims[i].code)
                   /\ photo[p].kind = "labelled" \/ claims[i].filed + PhotoWindow >= photo[p].day

\* A photo answered as attached stays in its claim until newer ones take all the
\* room, the older gone first, unless another was attached at that very time.
PhotosStay ==
  \A p \in Photos :
    photo[p].at = "joined" =>
      LET kept == claims[photo[p].claim].photos
      IN Holds(photo[p].claim, p) \/ p \in together \/ (Len(kept) = MaxFiles /\ \A k \in DOMAIN kept : kept[k] # Portal)

\* A claim no request works on any more is before the office and was e-mailed to
\* it, in this order of what may be missing: each thing missing failed by itself.
ClaimsAreTold ==
  LET settled == {i \in DOMAIN claims : ~\E f \in Filers : filing[f].claim = i /\ filing[f].at \in {"stored", "mailed"}}
      unseen == settled \ reported.matter
      unmailed == (settled \cap reported.matter) \ reported.mail
  IN Cardinality(unseen) + Cardinality(unmailed) <= cuts

ClaimsFit == PhotosFit /\ PhotosStay /\ ClaimsAreTold

\* What the code does not keep: photos sent in a burst are all kept while there is room.
BurstIsKept ==
  \A p \in Photos : photo[p].at = "joined" => Holds(photo[p].claim, p) \/ Len(claims[photo[p].claim].photos) = MaxFiles
=============================================================================
