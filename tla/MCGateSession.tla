--------------------------- MODULE MCGateSession ---------------------------
(* A fifth of what is measured and four fifths of what is injected, as in  *)
(* the code, with rates scaled so that two gaps in two messages reach the  *)
(* feeder threshold and only reach the main one with an injection.         *)
EXTENDS GateSession

MCThresholds ==
  {[gap     |-> [local |-> 1, feeder |-> 2, main |-> 4],
    corrupt |-> [local |-> 1, feeder |-> 2, main |-> 3],
    skew    |-> [local |-> 2, feeder |-> 3, main |-> 4],
    burst   |-> [local |-> 1, feeder |-> 2, main |-> 3]]}

MCRates == {[m \in Detected |-> 0],
            [m \in Detected |-> 1],
            [gap |-> 3, corrupt |-> 0, skew |-> 0, burst |-> 0]}
=============================================================================
