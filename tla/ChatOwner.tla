----------------------------- MODULE ChatOwner -----------------------------
(***************************************************************************)
(* What the handover promises, whatever handlers and messages carry it     *)
(* out: the bot or the office attends the chat; at most one user of the    *)
(* office owns it, and only while the office attends it; it changes owner  *)
(* only by going back to the bot in between.                               *)
(***************************************************************************)
CONSTANTS Agents, Nobody

VARIABLES speaker, owner

TypeOK == speaker \in {"bot", "office"} /\ owner \in Agents \cup {Nobody}

Init == speaker = "bot" /\ owner = Nobody

Claim(a) == owner = Nobody /\ owner' = a /\ speaker' = "office"

AnswerFromTheApp == speaker' = "office" /\ UNCHANGED owner

HandBack == speaker' = "bot" /\ owner' = Nobody

Next == (\E a \in Agents : Claim(a)) \/ AnswerFromTheApp \/ HandBack

Spec == Init /\ [][Next]_<<speaker, owner>>

=============================================================================
