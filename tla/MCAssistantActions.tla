------------------------- MODULE MCAssistantActions -------------------------
(* Small instances of AssistantActions: proposals and requests have no name *)
(* of their own.                                                           *)
EXTENDS AssistantActions, TLC

Symmetry == Permutations(Actions) \cup Permutations(Requests)
=============================================================================
