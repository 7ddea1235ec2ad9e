----------------------------- MODULE GateTwins -----------------------------
(***************************************************************************)
(* Two breakers built from one threshold table and fed event by event, the *)
(* set-up of tests/test_gate_transitions.cpp: run_script() once over a     *)
(* script and once over a script with an injected fault.  The second feed  *)
(* is at every event at least as bad as the first one.                     *)
(*                                                                         *)
(* The test tries one injected spike below a threshold; here every worse   *)
(* feed is tried, with operator resets of both breakers in between.        *)
(***************************************************************************)
EXTENDS Breaker     \* the breaker with the clean feed: thr, st, latched

VARIABLES stF, latchedF,      \* the breaker with the faulty feed
          alike       \* history: every event so far was of equal severity

twins == <<vars, stF, latchedF, alike>>

Faulty == INSTANCE Breaker WITH st <- stF, latched <- latchedF

AtLeastAsBad(rF, r) == \A m \in Metrics : rF[m] >= r[m]

TwinsInit == /\ Init
             /\ Faulty!Init
             /\ alike = TRUE

(* One event of the script: both breakers step on their own reading. *)
Event(r, rF) == /\ AtLeastAsBad(rF, r)
                /\ step(r)
                /\ Faulty!step(rF)
                /\ alike' = (alike /\ worst(r, thr) = worst(rF, thr))

(* The operator resets both. *)
ClearBoth == /\ clear_latch
             /\ Faulty!clear_latch
             /\ UNCHANGED alike

TwinsNext == \/ \E r, rF \in Readings : Event(r, rF)
             \/ ClearBoth

TwinsSpec == TwinsInit /\ [][TwinsNext]_twins
-----------------------------------------------------------------------------
TwinsTypeOK == TypeOK /\ Faulty!TypeOK /\ alike \in BOOLEAN

(***************************************************************************)
(* A worse feed never buys a more permissive gate: the faulty run is at    *)
(* least as severe, latched whenever the clean run is, and publishes only  *)
(* when the clean run does.  This needs step() to be monotone in both the  *)
(* readings and the state it starts from, and holds for misordered tables  *)
(* too because worst() tests the main threshold first.                     *)
(***************************************************************************)
Dominance == /\ st <= stF
             /\ latched => latchedF
             /\ Faulty!publish_allowed => publish_allowed

(***************************************************************************)
(* A fault that crosses no further threshold leaves no trace: as long as   *)
(* no event changed severity the two runs are in the same state, so their  *)
(* transition logs agree (test 3, mid_burst_fault_injection).              *)
(***************************************************************************)
SubThresholdFaultInvisible == alike => st = stF /\ latched = latchedF
=============================================================================
