---------------------------- MODULE MCPlanPause ----------------------------
(* Small instances of PlanPause: which messages and which requests they are *)
(* makes no difference, save for the campaigns.                            *)
EXTENDS PlanPause, TLC

Symmetry == Permutations(Messages \ Campaigns) \cup Permutations(Campaigns)
            \cup Permutations(Reports) \cup Permutations(Desks)
=============================================================================
