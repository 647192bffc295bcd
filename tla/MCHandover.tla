----------------------------- MODULE MCHandover -----------------------------
(* Small instances of Handover for TLC. *)
EXTENDS Handover, TLC

CONSTANTS a1, a2, w1, d1, d2, c1, c2, c3, quote, claim

NoDeliveries == [d \in {} |-> NULL]
NoCalls == [c \in {} |-> NULL]
OneEchoTwice == [d \in {d1, d2} |-> w1]
OneEcho == (d1 :> w1)
OneCall == (c1 :> quote)
QuoteCategory == (quote :> "cotizacion")
NoCategories == [t \in {} |-> "other"]

=============================================================================
