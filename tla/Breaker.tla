------------------------------ MODULE Breaker ------------------------------
(***************************************************************************)
(* The safety gate of the engine: class lob::Breaker                       *)
(* (src/include/breaker.hpp, src/src/breaker.cpp).                         *)
(*                                                                         *)
(* A breaker is built with a table of thresholds and then fed detector     *)
(* readings, one step() per evaluation, between which an operator may call *)
(* clear_latch().  Readings and thresholds are doubles in the code; only   *)
(* how a reading compares with the thresholds matters, so integers stand   *)
(* for them.  The thresholds of a metric are NOT assumed to be ordered:    *)
(* the constructor does not check them.                                    *)
(***************************************************************************)
EXTENDS Integers, FiniteSetsExt

CONSTANTS Thresholds,   \* the tables a client may construct a breaker with
          Readings      \* the DetectorReadings a client may pass to step()

Metrics == {"gap", "corrupt", "skew", "burst"}

(* enum class BreakerState *)
Fuse   == 0
Local  == 1
Feeder == 2
Main   == 3
Kill   == 4
BreakerState == Fuse..Kill

BreakerThresholds == [Metrics -> [local : Int, feeder : Int, main : Int]]
DetectorReadings  == [Metrics -> Int]

ASSUME BreakerAssumption == /\ Thresholds \subseteq BreakerThresholds
                            /\ Readings \subseteq DetectorReadings

VARIABLES thr,      \* thr_, fixed by the constructor
          st,       \* st_
          latched   \* latched_

vars == <<thr, st, latched>>
-----------------------------------------------------------------------------
(* Variant of the chain below: the tests upside down. *)
metric_level_local_first(x, t) == IF x >= t.local  THEN Local
                             ELSE IF x >= t.feeder THEN Feeder
                             ELSE IF x >= t.main   THEN Main
                             ELSE Fuse

(* The else-if chain worst() repeats for each metric. *)
metric_level(x, t) == IF x >= t.main   THEN Main
                 ELSE IF x >= t.feeder THEN Feeder
                 ELSE IF x >= t.local  THEN Local
                 ELSE Fuse

(* bump() keeps the highest level of the four metrics. *)
worst(r, t) == Max({metric_level(r[m], t[m]) : m \in Metrics})

publish_allowed == st \in {Fuse, Local}
-----------------------------------------------------------------------------
Init == /\ thr \in Thresholds
        /\ st = Fuse
        /\ latched = FALSE

(* Variants of the operations below: a latched step that follows the       *)
(* readings, a latch set from one metric only, a reset by one level.       *)
StepLatched_follows(r) == /\ latched
                          /\ st' = worst(r, thr)
                          /\ UNCHANGED <<thr, latched>>

StepUnlatched_by_burst(r) == /\ ~latched
                             /\ st' = worst(r, thr)
                             /\ latched' = (r["burst"] >= thr["burst"].feeder)
                             /\ UNCHANGED thr

clear_latch_one_level == /\ latched' = FALSE
                         /\ st' = IF st # Kill THEN st - 1 ELSE st
                         /\ UNCHANGED thr

(* step() once the latch is set: the state can only grow. *)
StepLatched(r) == /\ latched
                  /\ st' = Max({st, worst(r, thr)})
                  /\ UNCHANGED <<thr, latched>>

(* step() otherwise: follow the readings, and latch from Feeder on. *)
StepUnlatched(r) == /\ ~latched
                    /\ st' = worst(r, thr)
                    /\ latched' = (st' \in {Feeder, Main, Kill})
                    /\ UNCHANGED thr

step(r) == StepLatched(r) \/ StepUnlatched(r)

clear_latch == /\ latched' = FALSE
               /\ st' = IF st # Kill THEN Fuse ELSE st
               /\ UNCHANGED thr

Next == (\E r \in Readings : step(r)) \/ clear_latch

Spec == Init /\ [][Next]_vars
-----------------------------------------------------------------------------
TypeOK == /\ thr \in Thresholds
          /\ st \in BreakerState
          /\ latched \in BOOLEAN

(***************************************************************************)
(* Kill is a level of the enum, clear_latch() refuses to leave it and      *)
(* step() latches on it, yet no reading produces it: the top of the ladder *)
(* a breaker can reach is Main (worst() bumps to Main at most).            *)
(***************************************************************************)
KillUnreachable == st # Kill

(***************************************************************************)
(* The private latch and the public decision agree in every state,         *)
(* whatever clear_latch() and step() did to each separately: a breaker is  *)
(* latched exactly when it forbids publishing.                             *)
(***************************************************************************)
LatchedIffBlocked == latched <=> ~publish_allowed

(***************************************************************************)
(* No sequence of good readings brings publishing back: only the           *)
(* operator's clear_latch() does, and it restarts at Fuse, never at Local. *)
(***************************************************************************)
OnlyOperatorReopens ==
  [][~publish_allowed /\ publish_allowed' => clear_latch /\ st' = Fuse]_vars

(***************************************************************************)
(* The breaker implements the abstract gate: the latch bit and the         *)
(* threshold table add nothing a client could observe.                     *)
(***************************************************************************)
Gate == INSTANCE LatchedGate WITH Top <- Main, Trip <- Feeder, level <- st

GateSpec == Gate!Spec
=============================================================================
