-------------------------- MODULE GateTwinsProofs --------------------------
(***************************************************************************)
(* Theorems about one breaker and about the twins, for every set of        *)
(* threshold tables (ordered or not) and every set of readings.  GateTwins *)
(* extends Breaker, so the first half speaks of any breaker: Init, Next    *)
(* and Spec are those of Breaker.  In the second half it is the one with   *)
(* the clean feed, and the faulty one computes the same severity           *)
(* (SameWorst), so that both implement LatchedGate.                        *)
(***************************************************************************)
EXTENDS GateTwins, TLAPS

(***************************************************************************)
(* The inductive invariant.  LatchedIffBlocked alone is not inductive: a   *)
(* step from Kill would keep it only because max() never falls, and        *)
(* clear_latch() breaks it at Kill, so Kill has to be excluded as well.    *)
(***************************************************************************)
IInv == TypeOK /\ KillUnreachable /\ LatchedIffBlocked

(* The values of the enum are the first five naturals. *)
LEMMA Levels == BreakerState = {Fuse, Local, Feeder, Main, Kill}
  BY DEF BreakerState, Fuse, Local, Feeder, Main, Kill

(* Max of two levels is one of them and is at least both. *)
LEMMA MaxOfTwo ==
  ASSUME NEW a \in BreakerState, NEW b \in BreakerState
  PROVE  /\ Max({a, b}) \in {a, b}
         /\ Max({a, b}) >= a
         /\ Max({a, b}) >= b
  <1>1. CASE a >= b
    <2>1. /\ a \in {a, b}
          /\ \A y \in {a, b} : a >= y
      BY <1>1 DEF BreakerState, Fuse, Kill
    <2>2. QED
      BY <2>1 DEF Max
  <1>2. CASE b >= a
    <2>1. /\ b \in {a, b}
          /\ \A y \in {a, b} : b >= y
      BY <1>2 DEF BreakerState, Fuse, Kill
    <2>2. QED
      BY <2>1 DEF Max
  <1>3. QED
    BY <1>1, <1>2 DEF BreakerState, Fuse, Kill

(* One metric contributes a level between Fuse and Main. *)
LEMMA MetricLevelRange ==
  ASSUME NEW x \in Int, NEW t
  PROVE  metric_level(x, t) \in Fuse..Main
  BY DEF metric_level, Fuse, Local, Feeder, Main

(* A nonempty set of levels has a greatest member, the one Max chooses. *)
LEMMA MaxOfLevels ==
  ASSUME NEW S \in SUBSET (Fuse..Main), S # {}
  PROVE  /\ Max(S) \in S
         /\ \A y \in S : Max(S) >= y
  <1>1. \E x \in S : \A y \in S : x >= y
    <2>1. S \subseteq {0, 1, 2, 3}
      BY DEF Fuse, Main
    <2>2. CASE 3 \in S
      BY <2>1, <2>2
    <2>3. CASE 3 \notin S /\ 2 \in S
      BY <2>1, <2>3
    <2>4. CASE 3 \notin S /\ 2 \notin S /\ 1 \in S
      BY <2>1, <2>4
    <2>5. CASE 3 \notin S /\ 2 \notin S /\ 1 \notin S
      <3>1. PICK z \in S : TRUE
        OBVIOUS
      <3>2. z = 0 /\ \A y \in S : y = 0
        BY <2>1, <2>5
      <3>3. QED
        BY <3>2
    <2>6. QED
      BY <2>2, <2>3, <2>4, <2>5
  <1>2. QED
    BY <1>1 DEF Max

(***************************************************************************)
(* worst() returns the highest level any one metric asks for: it is asked  *)
(* for by some metric, no metric asks for more, and it is never Kill.      *)
(***************************************************************************)
LEMMA WorstIsHighest ==
  ASSUME NEW r \in DetectorReadings, NEW t \in BreakerThresholds
  PROVE  /\ worst(r, t) \in Fuse..Main
         /\ \E m \in Metrics : worst(r, t) = metric_level(r[m], t[m])
         /\ \A m \in Metrics : worst(r, t) >= metric_level(r[m], t[m])
  <1> DEFINE S == {metric_level(r[m], t[m]) : m \in Metrics}
  <1>1. \A m \in Metrics : metric_level(r[m], t[m]) \in Fuse..Main
    BY MetricLevelRange DEF DetectorReadings
  <1>2. S \in SUBSET (Fuse..Main) /\ S # {}
    BY <1>1 DEF Metrics
  <1>3. Max(S) \in S /\ \A y \in S : Max(S) >= y
    BY <1>2, MaxOfLevels
  <1>4. worst(r, t) = Max(S)
    BY DEF worst
  <1> HIDE DEF S
  <1>5. worst(r, t) \in Fuse..Main
    BY <1>2, <1>3, <1>4
  <1>6. \E m \in Metrics : worst(r, t) = metric_level(r[m], t[m])
    BY <1>3, <1>4 DEF S
  <1>7. \A m \in Metrics : worst(r, t) >= metric_level(r[m], t[m])
    BY <1>3, <1>4 DEF S
  <1>8. QED
    BY <1>5, <1>6, <1>7
-----------------------------------------------------------------------------
LEMMA InitIInv == Init => IInv
  <1> SUFFICES ASSUME Init
               PROVE  IInv
    OBVIOUS
  <1>1. st \in BreakerState /\ KillUnreachable
    BY DEF Init, KillUnreachable, BreakerState, Fuse, Kill
  <1>2. thr \in Thresholds /\ latched \in BOOLEAN
    BY DEF Init
  <1>3. ~latched /\ publish_allowed
    BY DEF Init, publish_allowed
  <1>4. QED
    BY <1>1, <1>2, <1>3 DEF IInv, TypeOK, LatchedIffBlocked

(* step() preserves the inductive invariant, latched or not. *)
LEMMA StepIInv ==
  ASSUME IInv, NEW r \in Readings, step(r)
  PROVE  IInv'
  <1> USE DEF Fuse, Local, Feeder, Main, Kill
  <1>1. worst(r, thr) \in Fuse..Main
    BY WorstIsHighest, BreakerAssumption DEF IInv, TypeOK
  <1>2. CASE StepLatched(r)
    <2>1. st \in BreakerState /\ worst(r, thr) \in BreakerState
      BY <1>1 DEF IInv, TypeOK, BreakerState
    <2>2. st' \in {st, worst(r, thr)} /\ st' >= st
      BY <1>2, <2>1, MaxOfTwo DEF StepLatched
    <2>3. st \in {Feeder, Main}
      BY <1>2, <2>1 DEF StepLatched, IInv, KillUnreachable,
                        LatchedIffBlocked, publish_allowed, BreakerState
    <2>4. st' \in {Feeder, Main}
      BY <1>1, <2>2, <2>3
    <2>5. QED
      BY <1>2, <2>4 DEF StepLatched, IInv, TypeOK, KillUnreachable,
                        LatchedIffBlocked, publish_allowed, BreakerState
  <1>3. CASE StepUnlatched(r)
    <2>1. st' \in {Fuse, Local, Feeder, Main} /\ thr' = thr
      BY <1>1, <1>3 DEF StepUnlatched
    <2>2. latched' <=> st' \in {Feeder, Main, Kill}
      BY <1>3 DEF StepUnlatched
    <2>3. latched' \in BOOLEAN
      BY <1>3 DEF StepUnlatched
    <2>4. TypeOK' /\ KillUnreachable'
      BY <2>1, <2>3 DEF IInv, TypeOK, KillUnreachable, BreakerState
    <2>5. st' \in {Feeder, Main, Kill} <=> ~publish_allowed'
      BY <2>1 DEF publish_allowed
    <2>6. QED
      BY <2>2, <2>4, <2>5 DEF IInv, LatchedIffBlocked
  <1>4. QED
    BY <1>2, <1>3 DEF step

(* clear_latch() preserves it because Kill is out of reach. *)
LEMMA ClearIInv ==
  ASSUME IInv, clear_latch
  PROVE  IInv'
  <1>1. thr' = thr /\ st' = Fuse
    BY DEF clear_latch, IInv, KillUnreachable
  <1>2. ~latched' /\ latched' \in BOOLEAN
    BY DEF clear_latch
  <1>3. TypeOK' /\ KillUnreachable'
    BY <1>1, <1>2
       DEF IInv, TypeOK, KillUnreachable, BreakerState, Fuse, Kill
  <1>4. publish_allowed'
    BY <1>1 DEF publish_allowed
  <1>5. QED
    BY <1>2, <1>3, <1>4 DEF IInv, LatchedIffBlocked

LEMMA NextIInv == IInv /\ [Next]_vars => IInv'
  <1> SUFFICES ASSUME IInv, [Next]_vars
               PROVE  IInv'
    OBVIOUS
  <1>1. ASSUME NEW r \in Readings, step(r)
        PROVE  IInv'
    BY <1>1, StepIInv
  <1>2. CASE clear_latch
    BY <1>2, ClearIInv
  <1>3. CASE UNCHANGED vars
    BY <1>3 DEF vars, IInv, TypeOK, KillUnreachable, LatchedIffBlocked,
                publish_allowed
  <1>4. QED
    BY <1>1, <1>2, <1>3 DEF Next

(* The inductive invariant holds of every behaviour of a breaker. *)
THEOREM Invariance == Spec => []IInv
  BY InitIInv, NextIInv, PTL DEF Spec

(* A breaker's state and latch keep their types, whatever its thresholds. *)
THEOREM TypeCorrect == Spec => []TypeOK
  <1>1. IInv => TypeOK
    BY DEF IInv
  <1>2. QED
    BY <1>1, Invariance, PTL

(* No breaker, however built and fed, ever reaches Kill. *)
THEOREM NeverKill == Spec => []KillUnreachable
  <1>1. IInv => KillUnreachable
    BY DEF IInv
  <1>2. QED
    BY <1>1, Invariance, PTL

(* latched_ and publish_allowed() contradict each other in no state. *)
THEOREM LatchAgreesWithPublish == Spec => []LatchedIffBlocked
  <1>1. IInv => LatchedIffBlocked
    BY DEF IInv
  <1>2. QED
    BY <1>1, Invariance, PTL

(***************************************************************************)
(* The only step from a blocked breaker to a publishing one is             *)
(* clear_latch(), for every table of thresholds and every reading.         *)
(***************************************************************************)
THEOREM OperatorReopens == Spec => OnlyOperatorReopens
  <1> USE DEF Fuse, Local, Feeder, Main, Kill
  <1>1. IInv /\ [Next]_vars
          => [~publish_allowed /\ publish_allowed'
                => clear_latch /\ st' = Fuse]_vars
    <2> SUFFICES ASSUME IInv, Next, ~publish_allowed, publish_allowed'
                 PROVE  clear_latch /\ st' = Fuse
      OBVIOUS
    <2>1. ASSUME NEW r \in Readings, step(r)
          PROVE  FALSE
      <3>1. worst(r, thr) \in BreakerState /\ st \in BreakerState
        BY WorstIsHighest, BreakerAssumption
           DEF IInv, TypeOK, BreakerState
      <3>2. st' >= st
        BY <2>1, <3>1, MaxOfTwo
           DEF step, StepLatched, StepUnlatched, IInv, LatchedIffBlocked
      <3>3. QED
        BY <3>1, <3>2 DEF publish_allowed, BreakerState
    <2>2. CASE clear_latch
      BY <2>2 DEF clear_latch, IInv, KillUnreachable
    <2>3. QED
      BY <2>1, <2>2 DEF Next
  <1>2. QED
    BY <1>1, Invariance, PTL DEF Spec, OnlyOperatorReopens
-----------------------------------------------------------------------------
(***************************************************************************)
(* Breaker implements LatchedGate under level <- st: the concrete step     *)
(* that ignores the latch bit is the abstract step, because the latch is   *)
(* set exactly when the level has reached Trip.                            *)
(***************************************************************************)
THEOREM ImplementsGate == Spec => GateSpec
  <1> USE DEF Fuse, Local, Feeder, Main, Kill
  <1>1. Init => Gate!Init
    BY DEF Init, Gate!Init
  <1>2. IInv /\ [Next]_vars => [Gate!Next]_st
    <2> SUFFICES ASSUME IInv, [Next]_vars
                 PROVE  [Gate!Next]_st
      OBVIOUS
    <2>1. ASSUME NEW r \in Readings, step(r)
          PROVE  Gate!Next
      <3>1. worst(r, thr) \in Gate!Severity
        BY WorstIsHighest, BreakerAssumption
           DEF IInv, TypeOK, Gate!Severity
      <3>2. CASE StepLatched(r)
        <4>1. st \in BreakerState /\ worst(r, thr) \in BreakerState
          BY <3>1 DEF IInv, TypeOK, BreakerState, Gate!Severity
        <4>2. /\ st' \in {st, worst(r, thr)}
              /\ st' >= st
              /\ st' >= worst(r, thr)
          BY <3>2, <4>1, MaxOfTwo DEF StepLatched
        <4>3. st >= Feeder
          BY <3>2, <4>1 DEF StepLatched, IInv, LatchedIffBlocked,
                            publish_allowed, BreakerState
        <4>4. Gate!Ratchet(worst(r, thr)) \/ Gate!Hold(worst(r, thr))
          BY <4>1, <4>2, <4>3 DEF Gate!Ratchet, Gate!Hold, BreakerState
        <4>5. QED
          BY <3>1, <4>4 DEF Gate!Next
      <3>3. CASE StepUnlatched(r)
        <4>1. st < Feeder
          BY <3>3 DEF StepUnlatched, IInv, TypeOK, LatchedIffBlocked,
                      publish_allowed, BreakerState
        <4>2. Gate!Follow(worst(r, thr))
          BY <3>3, <4>1 DEF StepUnlatched, Gate!Follow
        <4>3. QED
          BY <3>1, <4>2 DEF Gate!Next
      <3>4. QED
        BY <2>1, <3>2, <3>3 DEF step
    <2>2. CASE clear_latch
      BY <2>2 DEF clear_latch, IInv, KillUnreachable, Gate!Next, Gate!Reset
    <2>3. CASE UNCHANGED vars
      BY <2>3 DEF vars
    <2>4. QED
      BY <2>1, <2>2, <2>3 DEF Next
  <1>3. QED
    BY <1>1, <1>2, Invariance, PTL DEF Spec, GateSpec, Gate!Spec
-----------------------------------------------------------------------------
(* Both breakers grade a reading alike: severity does not depend on state. *)
LEMMA SameWorst ==
  ASSUME NEW r, NEW t
  PROVE  Faulty!worst(r, t) = worst(r, t)
  BY DEF worst, metric_level, Max, Metrics, Fuse, Local, Feeder, Main,
         Faulty!worst, Faulty!metric_level, Faulty!Max, Faulty!Metrics,
         Faulty!Fuse, Faulty!Local, Faulty!Feeder, Faulty!Main

(* Max does not depend on the instance either. *)
LEMMA SameMax ==
  ASSUME NEW S
  PROVE  Faulty!Max(S) = Max(S)
  BY DEF Max, Faulty!Max

(* A threshold triple grades a higher value at least as severely, whatever *)
(* the order of its three thresholds: the chain tests main first.          *)
LEMMA LevelMonotone ==
  ASSUME NEW x \in Int, NEW y \in Int, x <= y,
         NEW t \in [local : Int, feeder : Int, main : Int]
  PROVE  metric_level(x, t) <= metric_level(y, t)
  BY DEF metric_level, Fuse, Local, Feeder, Main

(* So does worst(), metric by metric. *)
LEMMA WorstMonotone ==
  ASSUME NEW r \in DetectorReadings, NEW rF \in DetectorReadings,
         AtLeastAsBad(rF, r), NEW t \in BreakerThresholds
  PROVE  worst(r, t) <= worst(rF, t)
  <1>1. PICK m \in Metrics : worst(r, t) = metric_level(r[m], t[m])
    BY WorstIsHighest
  <1>2. metric_level(r[m], t[m]) <= metric_level(rF[m], t[m])
    <2>1. /\ r[m] \in Int /\ rF[m] \in Int
          /\ t[m] \in [local : Int, feeder : Int, main : Int]
      BY DEF DetectorReadings, BreakerThresholds
    <2>2. r[m] <= rF[m]
      BY <2>1 DEF AtLeastAsBad
    <2>3. QED
      BY <2>1, <2>2, LevelMonotone
  <1>3. worst(rF, t) >= metric_level(rF[m], t[m])
    BY WorstIsHighest
  <1>4. /\ metric_level(r[m], t[m]) \in Int
        /\ metric_level(rF[m], t[m]) \in Int
        /\ worst(rF, t) \in Int
    BY WorstIsHighest DEF metric_level, Fuse, Local, Feeder, Main
  <1>5. QED
    BY <1>1, <1>2, <1>3, <1>4
-----------------------------------------------------------------------------
(***************************************************************************)
(* Each of the twins is a breaker: what is proved of every breaker above   *)
(* holds of the clean one in the twins' runs.                              *)
(***************************************************************************)
THEOREM TwinsAreBreakers == TwinsSpec => Spec /\ Faulty!Spec
  <1>1. TwinsInit => Init /\ Faulty!Init
    BY DEF TwinsInit
  <1>2. [TwinsNext]_twins => [Next]_vars /\ [Faulty!Next]_(Faulty!vars)
    <2> SUFFICES ASSUME [TwinsNext]_twins
                 PROVE  [Next]_vars /\ [Faulty!Next]_(Faulty!vars)
      OBVIOUS
    <2>1. ASSUME NEW r \in Readings, NEW rF \in Readings, Event(r, rF)
          PROVE  Next /\ Faulty!Next
      BY <2>1 DEF Event, Next, Faulty!Next
    <2>2. CASE ClearBoth
      BY <2>2 DEF ClearBoth, Next, Faulty!Next
    <2>3. CASE UNCHANGED twins
      BY <2>3 DEF twins, vars, Faulty!vars
    <2>4. QED
      BY <2>1, <2>2, <2>3 DEF TwinsNext
  <1>3. QED
    BY <1>1, <1>2, PTL DEF TwinsSpec, Spec, Faulty!Spec

(* What the faulty breaker keeps by itself: IInv once more.                 *)
FaultyInv == /\ stF \in Fuse..Main
             /\ latchedF \in BOOLEAN
             /\ latchedF <=> stF \in {Feeder, Main}

(***************************************************************************)
(* The inductive invariant.  The order of the states alone is not          *)
(* inductive: were the clean breaker latched and the faulty one not, the   *)
(* clean one would hold a level the faulty one may leave.                  *)
(***************************************************************************)
TwinsInv == IInv /\ FaultyInv /\ st <= stF

(* The order of the states is all of Dominance, given that each latch      *)
(* agrees with its state.                                                  *)
LEMMA TwinsInvDominates == TwinsInv => Dominance
  <1> SUFFICES ASSUME TwinsInv
               PROVE  Dominance
    OBVIOUS
  <1> USE DEF Fuse, Local, Feeder, Main, Kill
  <1>1. /\ st \in 0..3 /\ stF \in 0..3 /\ st <= stF
        /\ latched <=> st \notin {0, 1}
        /\ latchedF <=> stF \in {2, 3}
    BY DEF TwinsInv, IInv, TypeOK, KillUnreachable, LatchedIffBlocked,
           publish_allowed, BreakerState, FaultyInv
  <1>2. latched => latchedF
    BY <1>1
  <1>3. stF \in {0, 1} => st \in {0, 1}
    BY <1>1
  <1>4. QED
    BY <1>1, <1>2, <1>3
       DEF Dominance, publish_allowed, Faulty!publish_allowed,
           Faulty!Fuse, Faulty!Local

LEMMA TwinsInitInv == TwinsInit => TwinsInv
  <1> SUFFICES ASSUME TwinsInit
               PROVE  TwinsInv
    OBVIOUS
  <1>1. IInv
    BY InitIInv DEF TwinsInit
  <1>2. st = 0 /\ stF = 0
    BY DEF TwinsInit, Init, Faulty!Init, Faulty!Fuse, Fuse
  <1>3. ~latchedF /\ latchedF \in BOOLEAN
    BY DEF TwinsInit, Faulty!Init
  <1>4. stF \in Fuse..Main /\ stF \notin {Feeder, Main} /\ st <= stF
    BY <1>2 DEF Fuse, Feeder, Main
  <1>5. QED
    BY <1>1, <1>3, <1>4 DEF TwinsInv, FaultyInv

(* One event: each breaker keeps its invariant, and the states their order *)
LEMMA EventInv ==
  ASSUME TwinsInv, NEW r \in Readings, NEW rF \in Readings, Event(r, rF)
  PROVE  TwinsInv'
  <1> DEFINE w  == worst(r, thr)
             wF == worst(rF, thr)
  <1> USE DEF Fuse, Local, Feeder, Main, Kill
  <1>1. w \in 0..3 /\ wF \in 0..3 /\ w <= wF
    <2>1. /\ r \in DetectorReadings /\ rF \in DetectorReadings
          /\ thr \in BreakerThresholds /\ AtLeastAsBad(rF, r)
      BY BreakerAssumption DEF TwinsInv, IInv, TypeOK, Event
    <2>2. QED
      BY <2>1, WorstIsHighest, WorstMonotone
  <1>2. step(r) /\ IInv'
    BY StepIInv DEF Event, TwinsInv
  <1>3. /\ st \in 0..3 /\ stF \in 0..3 /\ st <= stF
        /\ latched \in BOOLEAN /\ latchedF \in BOOLEAN
        /\ latched <=> st \in {2, 3}
        /\ latchedF <=> stF \in {2, 3}
    BY DEF TwinsInv, IInv, TypeOK, KillUnreachable, LatchedIffBlocked,
           publish_allowed, BreakerState, FaultyInv
  <1> HIDE DEF w, wF
  <1>4. /\ latched => st' \in {st, w} /\ st' >= st /\ st' >= w
        /\ ~latched => st' = w
    <2>1. st \in BreakerState /\ w \in BreakerState
      BY <1>1, <1>3 DEF BreakerState
    <2>2. latched => st' = Max({st, w})
      BY <1>2 DEF step, StepLatched, StepUnlatched, w
    <2>3. ~latched => st' = w
      BY <1>2 DEF step, StepLatched, StepUnlatched, w
    <2>4. QED
      BY <2>1, <2>2, <2>3, MaxOfTwo
  <1>5. /\ latchedF => /\ stF' \in {stF, wF} /\ stF' >= stF /\ stF' >= wF
                       /\ latchedF' = latchedF
        /\ ~latchedF => stF' = wF /\ latchedF' = (stF' \in {2, 3, 4})
    <2>1. stF \in BreakerState /\ wF \in BreakerState
      BY <1>1, <1>3 DEF BreakerState
    <2>2. Faulty!worst(rF, thr) = wF
      BY SameWorst DEF wF
    <2>3. Faulty!Max({stF, wF}) = Max({stF, wF})
      BY SameMax
    <2>4. Faulty!step(rF)
      BY DEF Event
    <2>5. latchedF => stF' = Max({stF, wF}) /\ latchedF' = latchedF
      BY <2>2, <2>3, <2>4
         DEF Faulty!step, Faulty!StepLatched, Faulty!StepUnlatched
    <2>6. ~latchedF => stF' = wF /\ latchedF' = (stF' \in {2, 3, 4})
      BY <2>2, <2>4
         DEF Faulty!step, Faulty!StepLatched, Faulty!StepUnlatched,
             Faulty!Feeder, Faulty!Main, Faulty!Kill
    <2>7. QED
      BY <2>1, <2>5, <2>6, MaxOfTwo
  <1>6. FaultyInv'
    <2>1. CASE latchedF
      BY <1>1, <1>3, <1>5, <2>1 DEF FaultyInv
    <2>2. CASE ~latchedF
      <3>1. stF' \in 0..3 /\ latchedF' = (stF' \in {2, 3, 4})
        BY <1>1, <1>5, <2>2
      <3>2. latchedF' \in BOOLEAN
        BY <3>1
      <3>3. latchedF' <=> stF' \in {2, 3, 4}
        BY <3>1
      <3>4. stF' \in {2, 3, 4} <=> stF' \in {2, 3}
        BY <3>1
      <3>5. QED
        BY <3>1, <3>2, <3>3, <3>4 DEF FaultyInv
    <2>3. QED
      BY <2>1, <2>2
  <1>7. st' <= stF'
    <2>1. CASE latched
      <3>1. latchedF
        BY <1>3, <2>1
      <3>2. QED
        BY <1>1, <1>3, <1>4, <1>5, <2>1, <3>1
    <2>2. CASE ~latched /\ latchedF
      BY <1>1, <1>3, <1>4, <1>5, <2>2
    <2>3. CASE ~latched /\ ~latchedF
      BY <1>1, <1>4, <1>5, <2>3
    <2>4. QED
      BY <2>1, <2>2, <2>3
  <1>8. QED
    BY <1>2, <1>6, <1>7 DEF TwinsInv

(* The operator's reset puts both at Fuse: neither is in Kill. *)
LEMMA ClearBothInv ==
  ASSUME TwinsInv, ClearBoth
  PROVE  TwinsInv'
  <1>1. IInv' /\ st' = 0
    BY ClearIInv DEF ClearBoth, TwinsInv, IInv, KillUnreachable,
                     clear_latch, Fuse
  <1>2. stF' = 0
    BY DEF ClearBoth, Faulty!clear_latch, Faulty!Fuse, Faulty!Kill,
           TwinsInv, FaultyInv, Fuse, Main
  <1>3. ~latchedF' /\ latchedF' \in BOOLEAN
    BY DEF ClearBoth, Faulty!clear_latch
  <1>4. stF' \in Fuse..Main /\ stF' \notin {Feeder, Main} /\ st' <= stF'
    BY <1>1, <1>2 DEF Fuse, Feeder, Main
  <1>5. QED
    BY <1>1, <1>3, <1>4 DEF TwinsInv, FaultyInv

LEMMA TwinsNextInv == TwinsInv /\ [TwinsNext]_twins => TwinsInv'
  <1> SUFFICES ASSUME TwinsInv, [TwinsNext]_twins
               PROVE  TwinsInv'
    OBVIOUS
  <1>1. ASSUME NEW r \in Readings, NEW rF \in Readings, Event(r, rF)
        PROVE  TwinsInv'
    BY <1>1, EventInv
  <1>2. CASE ClearBoth
    BY <1>2, ClearBothInv
  <1>3. CASE UNCHANGED twins
    BY <1>3 DEF twins, vars, TwinsInv, FaultyInv, IInv, TypeOK,
                KillUnreachable, LatchedIffBlocked, publish_allowed
  <1>4. QED
    BY <1>1, <1>2, <1>3 DEF TwinsNext

(***************************************************************************)
(* Both breakers keep their types in lockstep, for every table and feed.   *)
(***************************************************************************)
THEOREM TwinsTypeCorrect == TwinsSpec => []TwinsTypeOK
  <1>1. TwinsInit => TwinsInv /\ alike \in BOOLEAN
    BY TwinsInitInv DEF TwinsInit
  <1>2. TwinsInv /\ alike \in BOOLEAN /\ [TwinsNext]_twins
          => (TwinsInv /\ alike \in BOOLEAN)'
    <2> SUFFICES ASSUME TwinsInv, alike \in BOOLEAN, [TwinsNext]_twins
                 PROVE  TwinsInv' /\ alike' \in BOOLEAN
      OBVIOUS
    <2>1. ASSUME NEW r \in Readings, NEW rF \in Readings, Event(r, rF)
          PROVE  alike' \in BOOLEAN
      BY <2>1, Zenon DEF Event
    <2>2. ASSUME ClearBoth \/ UNCHANGED twins
          PROVE  alike' \in BOOLEAN
      BY <2>2 DEF ClearBoth, twins
    <2>3. alike' \in BOOLEAN
      BY <2>1, <2>2 DEF TwinsNext
    <2>4. QED
      BY <2>3, TwinsNextInv
  <1>3. TwinsInv /\ alike \in BOOLEAN => TwinsTypeOK
    BY DEF TwinsInv, IInv, FaultyInv, TwinsTypeOK, TypeOK, Faulty!TypeOK,
           BreakerState, Faulty!BreakerState, Fuse, Local, Feeder, Main, Kill,
           Faulty!Fuse, Faulty!Local, Faulty!Feeder, Faulty!Main, Faulty!Kill
  <1>4. QED
    BY <1>1, <1>2, <1>3, PTL DEF TwinsSpec

(***************************************************************************)
(* A feed that is worse at every event never yields a more permissive      *)
(* gate, for every table, ordered or not, and with operator resets.        *)
(***************************************************************************)
THEOREM WorseFeedDominates == TwinsSpec => []Dominance
  <1>1. TwinsSpec => []TwinsInv
    BY TwinsInitInv, TwinsNextInv, PTL DEF TwinsSpec
  <1>2. QED
    BY <1>1, TwinsInvDominates, PTL
-----------------------------------------------------------------------------
(* Equal severities drive equal states to equal states: SubThreshold-      *)
(* FaultInvisible is inductive by itself.                                  *)
LEMMA EventAlike ==
  ASSUME SubThresholdFaultInvisible,
         NEW r \in Readings, NEW rF \in Readings, Event(r, rF)
  PROVE  SubThresholdFaultInvisible'
  <1> SUFFICES ASSUME alike'
               PROVE  st' = stF' /\ latched' = latchedF'
    BY DEF SubThresholdFaultInvisible
  <1>1. alike /\ worst(r, thr) = worst(rF, thr)
    BY DEF Event
  <1>2. st = stF /\ latched = latchedF
    BY <1>1 DEF SubThresholdFaultInvisible
  <1>3. /\ Faulty!worst(rF, thr) = worst(r, thr)
        /\ Faulty!Max({stF, worst(r, thr)}) = Max({st, worst(r, thr)})
    BY <1>1, <1>2, SameWorst, SameMax
  <1>4. step(r) /\ Faulty!step(rF)
    BY DEF Event
  <1>5. CASE latched
    BY <1>2, <1>3, <1>4, <1>5
       DEF step, StepLatched, StepUnlatched,
           Faulty!step, Faulty!StepLatched, Faulty!StepUnlatched
  <1>6. CASE ~latched
    BY <1>2, <1>3, <1>4, <1>6
       DEF step, StepLatched, StepUnlatched,
           Faulty!step, Faulty!StepLatched, Faulty!StepUnlatched,
           Feeder, Main, Kill, Faulty!Feeder, Faulty!Main, Faulty!Kill
  <1>7. QED
    BY <1>5, <1>6

(***************************************************************************)
(* An injected fault that never changes the severity of an event changes   *)
(* nothing either breaker does, for every table and every feed.            *)
(***************************************************************************)
THEOREM FaultInvisible == TwinsSpec => []SubThresholdFaultInvisible
  <1>1. TwinsInit => SubThresholdFaultInvisible
    BY DEF TwinsInit, Init, Faulty!Init, SubThresholdFaultInvisible,
           Fuse, Faulty!Fuse
  <1>2. SubThresholdFaultInvisible /\ [TwinsNext]_twins
          => SubThresholdFaultInvisible'
    <2> SUFFICES ASSUME SubThresholdFaultInvisible, [TwinsNext]_twins
                 PROVE  SubThresholdFaultInvisible'
      OBVIOUS
    <2>1. ASSUME NEW r \in Readings, NEW rF \in Readings, Event(r, rF)
          PROVE  SubThresholdFaultInvisible'
      BY <2>1, EventAlike
    <2>2. CASE ClearBoth
      BY <2>2 DEF ClearBoth, clear_latch, Faulty!clear_latch, Fuse, Kill,
                  Faulty!Fuse, Faulty!Kill, SubThresholdFaultInvisible
    <2>3. CASE UNCHANGED twins
      BY <2>3 DEF twins, vars, SubThresholdFaultInvisible
    <2>4. QED
      BY <2>1, <2>2, <2>3 DEF TwinsNext
  <1>3. QED
    BY <1>1, <1>2, PTL DEF TwinsSpec
-----------------------------------------------------------------------------
(* The faulty breaker's step is an observation of its own abstract gate. *)
LEMMA FaultyIsObserved ==
  ASSUME thr \in Thresholds, FaultyInv, NEW rF \in Readings, Faulty!step(rF)
  PROVE  \E w \in 0..3 : \/ Faulty!Gate!Follow(w) \/ Faulty!Gate!Ratchet(w)
                         \/ Faulty!Gate!Hold(w)
  <1> DEFINE w == worst(rF, thr)
  <1>1. w \in 0..3
    BY WorstIsHighest, BreakerAssumption DEF Fuse, Main
  <1>2. stF \in 0..3 /\ (latchedF <=> stF >= 2)
    BY DEF FaultyInv, Fuse, Feeder, Main
  <1>3. Faulty!worst(rF, thr) = w
    BY SameWorst
  <1>4. latchedF => stF' = Max({stF, w})
    BY <1>3, SameMax DEF Faulty!step, Faulty!StepLatched, Faulty!StepUnlatched
  <1>5. ~latchedF => stF' = w
    BY <1>3 DEF Faulty!step, Faulty!StepLatched, Faulty!StepUnlatched
  <1> HIDE DEF w
  <1>6. CASE latchedF
    <2>1. stF \in BreakerState /\ w \in BreakerState
      BY <1>1, <1>2 DEF BreakerState, Fuse, Kill
    <2>2. stF' \in {stF, w} /\ stF' >= stF /\ stF' >= w
      BY <1>4, <1>6, <2>1, MaxOfTwo
    <2>3. Faulty!Gate!Ratchet(w) \/ Faulty!Gate!Hold(w)
      BY <1>1, <1>2, <1>6, <2>2
         DEF Faulty!Gate!Ratchet, Faulty!Gate!Hold, Faulty!Feeder
    <2>4. QED
      BY <1>1, <2>3
  <1>7. CASE ~latchedF
    <2>1. Faulty!Gate!Follow(w)
      BY <1>2, <1>5, <1>7 DEF Faulty!Gate!Follow, Faulty!Feeder
    <2>2. QED
      BY <1>1, <2>1
  <1>8. QED
    BY <1>6, <1>7

(***************************************************************************)
(* Each of the twins shows its clients the abstract gate, the one with the *)
(* injected fault too.                                                     *)
(***************************************************************************)
THEOREM TwinsAreGates == TwinsSpec => GateSpec /\ Faulty!GateSpec
  <1>1. TwinsSpec => GateSpec
    BY TwinsAreBreakers, ImplementsGate, PTL
  <1>2. TwinsInit => Faulty!Gate!Init
    BY DEF TwinsInit, Faulty!Init, Faulty!Gate!Init, Faulty!Fuse
  <1>3. TwinsInv /\ [TwinsNext]_twins => [Faulty!Gate!Next]_stF
    <2> SUFFICES ASSUME TwinsInv, [TwinsNext]_twins
                 PROVE  [Faulty!Gate!Next]_stF
      OBVIOUS
    <2>1. ASSUME NEW r \in Readings, NEW rF \in Readings, Event(r, rF)
          PROVE  Faulty!Gate!Next
      BY <2>1, FaultyIsObserved
         DEF Event, TwinsInv, IInv, TypeOK, Faulty!Gate!Next, Faulty!Gate!Severity,
             Faulty!Main
    <2>2. CASE ClearBoth
      BY <2>2 DEF ClearBoth, Faulty!clear_latch, Faulty!Fuse, Faulty!Kill,
                  TwinsInv, FaultyInv, Fuse, Main, Faulty!Gate!Next,
                  Faulty!Gate!Reset
    <2>3. CASE UNCHANGED twins
      BY <2>3 DEF twins
    <2>4. QED
      BY <2>1, <2>2, <2>3 DEF TwinsNext
  <1>4. TwinsSpec => []TwinsInv
    BY TwinsInitInv, TwinsNextInv, PTL DEF TwinsSpec
  <1>5. QED
    BY <1>1, <1>2, <1>3, <1>4, PTL
       DEF TwinsSpec, Faulty!GateSpec, Faulty!Gate!Spec
=============================================================================
