------------------------- MODULE MCRejectionNotices -------------------------
(* Small instances of RejectionNotices for TLC. *)
EXTENDS RejectionNotices, TLC

CONSTANTS e1, e2, q1, q2, q3

\* The second installment of the first Excel was paid after the rejection.
SecondPaid == {<<e1, 2>>}

RequestSymmetry == Permutations(Requests)

=============================================================================
