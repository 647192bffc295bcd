----------------------------- MODULE MCSession ------------------------------
(* The chat of a holder and a relative who writes from the same phone, with a *)
(* line that serves every code and a branch that serves one.                  *)
EXTENDS ChatSession

MCCodeOf == [c \in Clients |-> IF c = Owner THEN "a" ELSE "b"]
MCPolicyCodes == [c \in Clients |-> {MCCodeOf[c]}]
MCCodesOf == [l \in Lines |-> IF l = "branch" THEN {"b"} ELSE {}]
=============================================================================
