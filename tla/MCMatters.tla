------------------------------ MODULE MCMatters ------------------------------
(* Requests to the office that repeat one another or complete one another: two  *)
(* in a behaviour, or one and a reply from the app.  What is left out never     *)
(* comes.                                                                       *)
EXTENDS MCHandover

QuoteAndBares == (c1 :> quote) @@ (c2 :> NULL) @@ (c3 :> NULL)

MattersInit ==
  /\ now = 0 /\ faults = 0
  /\ open \in BOOLEAN /\ botEnabled \in BOOLEAN
  /\ conv = [status |-> "open", botPaused |-> FALSE, assigned |-> NULL, handedOverAt |-> NULL]
  /\ talk = [office |-> NULL, customer |-> NULL] /\ stored = {}
  /\ matters = [m \in MatterIds |-> NULL] /\ byHand = {}
  /\ agent = [a \in Agents |-> [step |-> "idle", at |-> NULL]]
  /\ \E left \in {{c1, d1}, {c3, d1}, {c2, c3}} :
       /\ echo = [d \in Deliveries |-> [step |-> IF d \in left THEN "done" ELSE "due", paused |-> FALSE]]
       /\ call = [c \in Calls |-> [Idle EXCEPT !.step = IF c \in left THEN "done" ELSE "idle"]]
  /\ sweep = SweepAt("idle", NULL)

MattersSpec == MattersInit /\ [][Next]_vars
==============================================================================
