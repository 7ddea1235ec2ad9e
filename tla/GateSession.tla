---------------------------- MODULE GateSession ----------------------------
(***************************************************************************)
(* A feed handler's session with the gate: the detectors are updated in    *)
(* any order, the breaker is stepped on readings() whenever the handler    *)
(* evaluates the gate, and an operator may clear the latch at any moment.  *)
(* (replay itself makes one such session of a single evaluation:           *)
(* src/src/replay.cpp lines 341-345.)                                      *)
(***************************************************************************)
EXTENDS Detectors, FiniteSetsExt

CONSTANTS Thresholds,   \* tables a breaker may be built with
          Totals, Bursts, Skews, Rates,  \* arguments the handler passes
          MaxCount      \* bound of the model on the two counters

VARIABLES thr, st, latched,   \* the breaker
          seen,    \* history: severities evaluated since the last clear
          last,    \* history: the latest of them, Fuse right after a clear
          longest  \* history: the longest burst the handler has reported

B == INSTANCE Breaker WITH Readings <- [Detected -> Nat]

ASSUME SessionAssumption == /\ Thresholds \subseteq B!BreakerThresholds
                            /\ Totals \cup Bursts \cup Skews \subseteq Nat
                            /\ Rates \subseteq [Detected -> Nat]
                            /\ MaxCount \in Nat

bvars == <<thr, st, latched>>
vars == <<dvars, bvars, seen, last, longest>>

Init == /\ DInit
        /\ B!Init
        /\ seen = {}
        /\ last = B!Fuse
        /\ longest = 0

Count == /\ \/ \E n \in Totals : on_message(n)
            \/ gaps < MaxCount /\ on_gap(1)
            \/ corrupt < MaxCount /\ on_corrupt(1)
            \/ \E ppm \in Skews : on_skew_ppm(ppm)
            \/ \E rates \in Rates : inject_ppm(rates)
         /\ UNCHANGED <<bvars, seen, last, longest>>

Burst == /\ \E ms \in Bursts : /\ on_burst(ms)
                               /\ longest' = Max({longest, ms})
         /\ UNCHANGED <<bvars, seen, last>>

Evaluate == /\ B!step(readings)
            /\ last' = B!worst(readings, thr)
            /\ seen' = seen \cup {last'}
            /\ UNCHANGED <<dvars, longest>>

Clear == /\ B!clear_latch
         /\ seen' = {}
         /\ last' = B!Fuse
         /\ UNCHANGED <<dvars, longest>>

Next == Count \/ Burst \/ Evaluate \/ Clear

Spec == Init /\ [][Next]_vars
-----------------------------------------------------------------------------
TypeOK == /\ DTypeOK
          /\ B!TypeOK
          /\ seen \subseteq B!BreakerState
          /\ last \in B!BreakerState
          /\ longest \in Nat

(***************************************************************************)
(* The state is a function of the evaluations since the last clear: the    *)
(* worst of them once any reached Feeder, otherwise just the latest one.   *)
(* The code computes this one step at a time from st_ and latched_.        *)
(***************************************************************************)
StateIsHistory ==
  st = IF \E d \in seen : d >= B!Feeder THEN Max(seen) ELSE last

(***************************************************************************)
(* The detectors remember a burst longer than the breaker does: once a     *)
(* burst was reported whose share of the blend reaches the feeder          *)
(* threshold, every later evaluation blocks publishing, whatever shorter   *)
(* bursts followed it and straight after clear_latch() too.                *)
(***************************************************************************)
BurstOutlivesClear ==
  [][Evaluate /\ A * longest >= Den * thr["burst"].feeder
       => ~B!publish_allowed']_vars

(***************************************************************************)
(* A reading lies between what was measured and what was injected, so a    *)
(* rate that both agree is below a threshold never crosses it.             *)
(***************************************************************************)
BlendBetween ==
  \A m \in Detected :
    LET bounds == {measured[m].n \div measured[m].d, s[m]}
    IN readings[m] >= Min(bounds) /\ readings[m] <= Max(bounds)

(***************************************************************************)
(* README.md line 261: the gate only goes back to a better mode after      *)
(* things have been good for a while, not just one fast event.  Going back *)
(* therefore follows an evaluation that was already better than the state. *)
(***************************************************************************)
RecoveryNeedsMoreThanOneGood == [][Evaluate /\ st' < st => last < st]_vars
=============================================================================
