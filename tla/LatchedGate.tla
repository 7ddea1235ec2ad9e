---------------------------- MODULE LatchedGate ----------------------------
(***************************************************************************)
(* What lob::Breaker promises its clients, with nothing of how it keeps    *)
(* the promise: a gate with one visible level.  Below Trip the gate simply *)
(* shows the severity of the latest observation.  From Trip on it is a     *)
(* ratchet: an observation can raise it, and only an operator's Reset      *)
(* brings it down, to zero.  No latch bit, thresholds or readings appear.  *)
(***************************************************************************)
EXTENDS Integers

CONSTANTS Top,   \* the worst severity an observation can have, a natural
          Trip   \* the first level that latches, in 1..Top

VARIABLE level

Severity == 0..Top

Init == level = 0

Follow(s) == /\ level < Trip
             /\ level' = s

Ratchet(s) == /\ level >= Trip
              /\ s > level
              /\ level' = s

Hold(s) == /\ level >= Trip
           /\ s <= level
           /\ UNCHANGED level

Reset == level' = 0

Next == \/ \E s \in Severity : Follow(s) \/ Ratchet(s) \/ Hold(s)
        \/ Reset

Spec == Init /\ [][Next]_level
=============================================================================
