------------------------- MODULE GateSessionProofs -------------------------
(***************************************************************************)
(* Theorems about GateSession: for every set of threshold tables, every    *)
(* weight of the blend, every bound on the counters and all the arguments  *)
(* a feed handler or an operator may pass.  A session is also shown to be  *)
(* a run of Breaker, and so of the abstract gate LatchedGate.              *)
(***************************************************************************)
EXTENDS GateSession, TLAPS

(* B!Max is the Max of this module under another name. *)
LEMMA SameMax ==
  ASSUME NEW S
  PROVE  B!Max(S) = Max(S)
  BY DEF Max, B!Max

(* A nonempty set of levels has a greatest member, the one Max chooses. *)
LEMMA MaxOfLevels ==
  ASSUME NEW S \in SUBSET (0..3), S # {}
  PROVE  /\ Max(S) \in S
         /\ \A y \in S : Max(S) >= y
  <1>1. \E x \in S : \A y \in S : x >= y
    <2>1. S \subseteq {0, 1, 2, 3}
      OBVIOUS
    <2>2. CASE 3 \in S
      BY <2>1, <2>2
    <2>3. CASE 3 \notin S /\ 2 \in S
      BY <2>1, <2>3
    <2>4. CASE 3 \notin S /\ 2 \notin S /\ 1 \in S
      BY <2>1, <2>4
    <2>5. CASE 3 \notin S /\ 2 \notin S /\ 1 \notin S
      <3>1. PICK z \in S : TRUE
        OBVIOUS
      <3>2. z = 0 /\ \A y \in S : y = 0
        BY <2>1, <2>5
      <3>3. QED
        BY <3>2
    <2>6. QED
      BY <2>2, <2>3, <2>4, <2>5
  <1>2. QED
    BY <1>1 DEF Max

(* Only one member of a set of levels is at least all the others. *)
LEMMA MaxIs ==
  ASSUME NEW S \in SUBSET (0..3), NEW x \in S, \A y \in S : x >= y
  PROVE  Max(S) = x
  <1>1. Max(S) \in S /\ Max(S) >= x
    BY MaxOfLevels
  <1>2. x >= Max(S)
    BY <1>1
  <1>3. x \in 0..3 /\ Max(S) \in 0..3
    BY <1>1
  <1>4. QED
    BY <1>1, <1>2, <1>3

(* A level added to a set raises its maximum if it is above it. *)
LEMMA MaxOfUnion ==
  ASSUME NEW S \in SUBSET (0..3), S # {}, NEW w \in 0..3
  PROVE  Max(S \cup {w}) = Max({Max(S), w})
  <1>1. /\ Max(S) \in S
        /\ \A y \in S : Max(S) >= y
    BY MaxOfLevels
  <1>2. CASE Max(S) >= w
    <2>1. Max(S \cup {w}) = Max(S)
      BY <1>1, <1>2, MaxIs
    <2>2. Max({Max(S), w}) = Max(S)
      BY <1>1, <1>2, MaxIs
    <2>3. QED
      BY <2>1, <2>2
  <1>3. CASE Max(S) < w
    <2>1. Max(S \cup {w}) = w
      BY <1>1, <1>3, MaxIs
    <2>2. Max({Max(S), w}) = w
      BY <1>1, <1>3, MaxIs
    <2>3. QED
      BY <2>1, <2>2
  <1>4. Max(S) \in 0..3
    BY <1>1
  <1>5. QED
    BY <1>2, <1>3, <1>4

(***************************************************************************)
(* worst() is one of the levels up to Main, and no metric asks for more.   *)
(***************************************************************************)
LEMMA WorstIsHighest ==
  ASSUME NEW r, NEW t
  PROVE  /\ B!worst(r, t) \in 0..3
         /\ \A m \in B!Metrics : B!worst(r, t) >= B!metric_level(r[m], t[m])
  <1> DEFINE S == {B!metric_level(r[m], t[m]) : m \in B!Metrics}
  <1>1. \A m \in B!Metrics : B!metric_level(r[m], t[m]) \in 0..3
    BY DEF B!metric_level, B!Fuse, B!Local, B!Feeder, B!Main
  <1>2. S \in SUBSET (0..3) /\ S # {}
    BY <1>1 DEF B!Metrics
  <1>3. B!worst(r, t) = Max(S)
    BY SameMax DEF B!worst
  <1>4. \A m \in B!Metrics : B!metric_level(r[m], t[m]) \in S
    OBVIOUS
  <1> HIDE DEF S
  <1>5. Max(S) \in S /\ \A y \in S : Max(S) >= y
    BY <1>2, MaxOfLevels
  <1>6. QED
    BY <1>2, <1>3, <1>4, <1>5
-----------------------------------------------------------------------------
(***************************************************************************)
(* The inductive invariant for the state: the latch is a function of the   *)
(* evaluations since the last clear, and so is the level.  Without the     *)
(* first two conjuncts StateIsHistory says nothing of the next step, which *)
(* looks at the latch; without the third, nothing about the first level    *)
(* after a clear.                                                          *)
(***************************************************************************)
LevelInv == /\ latched \in BOOLEAN
            /\ seen \in SUBSET (0..3)
            /\ latched <=> \E d \in seen : d >= 2
            /\ last \in seen \/ (seen = {} /\ last = 0)
            /\ StateIsHistory

LEMMA InitLevel == Init => LevelInv
  BY DEF Init, B!Init, LevelInv, StateIsHistory, B!Fuse, B!Feeder

LEMMA LevelRange == LevelInv => st \in 0..3 /\ last \in 0..3
  <1> SUFFICES ASSUME LevelInv
               PROVE  st \in 0..3 /\ last \in 0..3
    OBVIOUS
  <1>1. last \in 0..3
    <2>1. CASE last \in seen
      BY <2>1 DEF LevelInv
    <2>2. CASE last = 0
      BY <2>2
    <2>3. QED
      BY <2>1, <2>2 DEF LevelInv
  <1>2. seen # {} => Max(seen) \in 0..3
    BY MaxOfLevels DEF LevelInv
  <1>3. QED
    BY <1>1, <1>2 DEF LevelInv, StateIsHistory

(* One evaluation: latched, the set of severities and the state grow       *)
(* together; unlatched, every earlier severity was below Feeder.           *)
LEMMA EvaluateLevel ==
  ASSUME LevelInv, Evaluate
  PROVE  LevelInv'
  <1> DEFINE w == B!worst(readings, thr)
  <1>1. w \in 0..3
    BY WorstIsHighest
  <1>2. last' = w /\ seen' = seen \cup {w}
    BY DEF Evaluate
  <1>3. B!StepLatched(readings) \/ B!StepUnlatched(readings)
    BY DEF Evaluate, B!step
  <1>4. CASE B!StepLatched(readings)
    <2>1. /\ latched /\ latched' = latched
          /\ st' = B!Max({st, w})
      BY <1>4 DEF B!StepLatched
    <2> HIDE DEF w
    <2>2. seen # {} /\ st = Max(seen)
      BY <2>1 DEF LevelInv, StateIsHistory, B!Feeder
    <2>3. st' = Max(seen')
      BY <1>1, <1>2, <2>1, <2>2, MaxOfUnion, SameMax DEF LevelInv
    <2>4. \E d \in seen' : d >= 2
      BY <1>2, <2>1 DEF LevelInv
    <2>5. seen' \in SUBSET (0..3) /\ last' \in seen'
      BY <1>1, <1>2 DEF LevelInv
    <2>6. QED
      BY <2>1, <2>3, <2>4, <2>5 DEF LevelInv, StateIsHistory, B!Feeder
  <1>5. CASE B!StepUnlatched(readings)
    <2>1. /\ ~latched
          /\ st' = w
          /\ latched' = (w \in {2, 3, 4})
      BY <1>5 DEF B!StepUnlatched, B!Feeder, B!Main, B!Kill
    <2> HIDE DEF w
    <2>2. \A d \in seen : d < 2
      BY <2>1 DEF LevelInv
    <2>3. seen' \in SUBSET (0..3) /\ last' \in seen'
      BY <1>1, <1>2 DEF LevelInv
    <2>4. w >= 2 <=> \E d \in seen' : d >= 2
      BY <1>1, <1>2, <2>2 DEF LevelInv
    <2>5. latched' <=> w >= 2
      <3>1. w \in {2, 3, 4} <=> w >= 2
        BY <1>1
      <3>2. QED
        BY <2>1, <3>1, Zenon
    <2>6. w >= 2 => Max(seen') = w
      BY <1>1, <1>2, <2>2, <2>3, MaxIs DEF LevelInv
    <2>7. StateIsHistory'
      BY <1>2, <2>1, <2>4, <2>6 DEF StateIsHistory, B!Feeder
    <2>8. latched' \in BOOLEAN
      BY <2>1
    <2>9. QED
      BY <2>3, <2>4, <2>5, <2>7, <2>8 DEF LevelInv
  <1>6. QED
    BY <1>3, <1>4, <1>5

(* clear_latch() forgets the severities, and the level with them. *)
LEMMA ClearLevel ==
  ASSUME LevelInv, Clear
  PROVE  LevelInv'
  <1>1. st # B!Kill
    BY LevelRange DEF B!Kill
  <1>2. QED
    BY <1>1 DEF Clear, B!clear_latch, LevelInv, StateIsHistory, B!Fuse,
                B!Feeder

LEMMA NextLevel == LevelInv /\ [Next]_vars => LevelInv'
  <1> SUFFICES ASSUME LevelInv, [Next]_vars
               PROVE  LevelInv'
    OBVIOUS
  <1>1. CASE Evaluate
    BY <1>1, EvaluateLevel
  <1>2. CASE Clear
    BY <1>2, ClearLevel
  <1>3. CASE Count \/ Burst \/ UNCHANGED vars
    <2>1. UNCHANGED <<st, latched, seen, last>>
      BY <1>3 DEF Count, Burst, bvars, vars
    <2>2. QED
      BY <2>1 DEF LevelInv, StateIsHistory
  <1>4. QED
    BY <1>1, <1>2, <1>3 DEF Next

(***************************************************************************)
(* The state of the gate is the worst evaluation since the last clear once *)
(* any of them reached Feeder, and the latest one otherwise, in every      *)
(* session of any length.                                                  *)
(***************************************************************************)
THEOREM StateFromHistory == Spec => []StateIsHistory
  <1>1. LevelInv => StateIsHistory
    BY DEF LevelInv
  <1>2. QED
    BY <1>1, InitLevel, NextLevel, PTL DEF Spec
-----------------------------------------------------------------------------
(***************************************************************************)
(* The detectors' half of the inductive invariant: the counters are        *)
(* naturals, the table is one a breaker may be built with, and the burst   *)
(* the detectors remember is the longest one ever reported to them.        *)
(***************************************************************************)
CounterInv == /\ DTypeOK
              /\ thr \in Thresholds
              /\ longest = burst_ms

(* The greater of two naturals. *)
LEMMA MaxOfPair ==
  ASSUME NEW a \in Nat, NEW b \in Nat
  PROVE  Max({a, b}) = IF b > a THEN b ELSE a
  <1>1. CASE b > a
    <2>1. b \in {a, b} /\ \A y \in {a, b} : b >= y
      BY <1>1
    <2>2. \A x \in {a, b} : (\A y \in {a, b} : x >= y) => x = b
      BY <1>1
    <2>3. QED
      BY <1>1, <2>1, <2>2 DEF Max
  <1>2. CASE ~(b > a)
    <2>1. a \in {a, b} /\ \A y \in {a, b} : a >= y
      BY <1>2
    <2>2. \A x \in {a, b} : (\A y \in {a, b} : x >= y) => x = a
      BY <1>2
    <2>3. QED
      BY <1>2, <2>1, <2>2 DEF Max
  <1>3. QED
    BY <1>1, <1>2

(* The lesser of two naturals. *)
LEMMA MinOfPair ==
  ASSUME NEW a \in Nat, NEW b \in Nat
  PROVE  Min({a, b}) = IF b > a THEN a ELSE b
  <1>1. CASE b > a
    <2>1. a \in {a, b} /\ \A y \in {a, b} : a <= y
      BY <1>1
    <2>2. \A x \in {a, b} : (\A y \in {a, b} : x <= y) => x = a
      BY <1>1
    <2>3. QED
      BY <1>1, <2>1, <2>2 DEF Min
  <1>2. CASE ~(b > a)
    <2>1. b \in {a, b} /\ \A y \in {a, b} : b <= y
      BY <1>2
    <2>2. \A x \in {a, b} : (\A y \in {a, b} : x <= y) => x = b
      BY <1>2
    <2>3. QED
      BY <1>2, <2>1, <2>2 DEF Min
  <1>3. QED
    BY <1>1, <1>2

LEMMA InitCounter == Init => CounterInv
  BY DEF Init, DInit, B!Init, CounterInv, DTypeOK

LEMMA NextCounter == CounterInv /\ [Next]_vars => CounterInv'
  <1> SUFFICES ASSUME CounterInv, [Next]_vars
               PROVE  CounterInv'
    OBVIOUS
  <1>1. CASE Count
    <2>1. thr' = thr /\ longest' = longest
      BY <1>1 DEF Count, bvars
    <2>2. burst_ms' = burst_ms
      BY <1>1 DEF Count, on_message, on_gap, on_corrupt, on_skew_ppm,
                  inject_ppm
    <2>3. ASSUME NEW n \in Totals, on_message(n)
          PROVE  DTypeOK'
      BY <2>3, SessionAssumption DEF on_message, CounterInv, DTypeOK
    <2>4. ASSUME on_gap(1) \/ on_corrupt(1)
          PROVE  DTypeOK'
      BY <2>4 DEF on_gap, on_corrupt, CounterInv, DTypeOK
    <2>5. ASSUME NEW ppm \in Skews, on_skew_ppm(ppm)
          PROVE  DTypeOK'
      BY <2>5, SessionAssumption DEF on_skew_ppm, CounterInv, DTypeOK
    <2>6. ASSUME NEW rates \in Rates, inject_ppm(rates)
          PROVE  DTypeOK'
      BY <2>6, SessionAssumption DEF inject_ppm, CounterInv, DTypeOK
    <2>7. DTypeOK'
      BY <1>1, <2>3, <2>4, <2>5, <2>6 DEF Count
    <2>8. QED
      BY <2>1, <2>2, <2>7 DEF CounterInv
  <1>2. CASE Burst
    <2>1. PICK ms \in Bursts : /\ on_burst(ms)
                               /\ longest' = Max({longest, ms})
      BY <1>2 DEF Burst
    <2>2. ms \in Nat /\ burst_ms \in Nat /\ longest = burst_ms
      BY SessionAssumption DEF CounterInv, DTypeOK
    <2>3. longest' = IF ms > burst_ms THEN ms ELSE burst_ms
      BY <2>1, <2>2, MaxOfPair
    <2>4. burst_ms' = longest' /\ burst_ms' \in Nat
      BY <2>1, <2>2, <2>3 DEF on_burst
    <2>5. thr' = thr
      BY <1>2 DEF Burst, bvars
    <2>6. DTypeOK'
      BY <2>1, <2>4 DEF on_burst, CounterInv, DTypeOK
    <2>7. QED
      BY <2>4, <2>5, <2>6 DEF CounterInv
  <1>3. CASE Evaluate
    <2>1. thr' = thr
      BY <1>3 DEF Evaluate, B!step, B!StepLatched, B!StepUnlatched
    <2>2. QED
      BY <1>3, <2>1 DEF Evaluate, dvars, CounterInv, DTypeOK
  <1>4. CASE Clear
    BY <1>4 DEF Clear, B!clear_latch, dvars, CounterInv, DTypeOK
  <1>5. CASE UNCHANGED vars
    BY <1>5 DEF vars, dvars, bvars, CounterInv, DTypeOK
  <1>6. QED
    BY <1>1, <1>2, <1>3, <1>4, <1>5 DEF Next

(* The two halves together hold in every state of every session. *)
THEOREM Invariance == Spec => [](CounterInv /\ LevelInv)
  BY InitCounter, NextCounter, InitLevel, NextLevel, PTL DEF Spec

(***************************************************************************)
(* Counters, table, level and latch keep their types, and the level of a   *)
(* session is one of the enum, whatever the handler and operator do.       *)
(***************************************************************************)
THEOREM TypeCorrect == Spec => []TypeOK
  <1>1. CounterInv /\ LevelInv => TypeOK
    <2> SUFFICES ASSUME CounterInv, LevelInv
                 PROVE  TypeOK
      OBVIOUS
    <2>1. B!BreakerState = 0..4
      BY DEF B!BreakerState, B!Fuse, B!Kill
    <2>2. st \in 0..4 /\ last \in 0..4 /\ seen \subseteq 0..4
      BY LevelRange DEF LevelInv
    <2>3. longest \in Nat
      BY DEF CounterInv, DTypeOK
    <2>4. B!TypeOK
      BY <2>1, <2>2 DEF CounterInv, LevelInv, B!TypeOK
    <2>5. QED
      BY <2>1, <2>2, <2>3, <2>4 DEF CounterInv, TypeOK
  <1>2. QED
    BY <1>1, Invariance, PTL
-----------------------------------------------------------------------------
(* What integer division by a positive divisor is bounded by. *)
LEMMA DivAtLeast ==
  ASSUME NEW n \in Int, NEW d \in Nat \ {0}, NEW q \in Int, n >= d * q
  PROVE  n \div d >= q
  OBVIOUS

LEMMA DivAtMost ==
  ASSUME NEW n \in Int, NEW d \in Nat \ {0}, NEW q \in Int, n < d * (q + 1)
  PROVE  n \div d <= q
  OBVIOUS

LEMMA DivBounds ==
  ASSUME NEW n \in Int, NEW d \in Nat \ {0}
  PROVE  /\ n \div d \in Int
         /\ d * (n \div d) <= n
         /\ n < d * ((n \div d) + 1)
  OBVIOUS

LEMMA TimesMonotone ==
  ASSUME NEW a \in Nat, NEW x \in Int, NEW y \in Int, x <= y
  PROVE  a * x <= a * y
  OBVIOUS

(* Every measured rate is a fraction of naturals. *)
LEMMA MeasuredFraction ==
  ASSUME DTypeOK, NEW m \in Detected
  PROVE  measured[m].n \in Nat /\ measured[m].d \in Nat \ {0}
  <1>1. /\ total \in Nat /\ gaps \in Nat /\ corrupt \in Nat
        /\ burst_ms \in Nat /\ skew_ppm \in Nat
    BY DEF DTypeOK
  <1>2. \A part \in Nat : /\ ppm_of(part).n \in Nat
                          /\ ppm_of(part).d \in Nat \ {0}
    BY <1>1, DetectorsAssumption DEF ppm_of
  <1>3. CASE m = "gap"
    BY <1>1, <1>2, <1>3 DEF measured
  <1>4. CASE m = "corrupt"
    BY <1>1, <1>2, <1>4 DEF measured
  <1>5. CASE m = "skew"
    BY <1>1, <1>5 DEF measured, Whole
  <1>6. CASE m = "burst"
    BY <1>1, <1>6 DEF measured, Whole
  <1>7. QED
    BY <1>3, <1>4, <1>5, <1>6 DEF Detected

(***************************************************************************)
(* The blend of a fraction x with a rate is at least any whole k that      *)
(* neither goes below, and at most any whole k that neither exceeds (the   *)
(* fraction by less than one).                                             *)
(***************************************************************************)
LEMMA BlendAtLeast ==
  ASSUME NEW n \in Nat, NEW d \in Nat \ {0}, NEW inj \in Nat, NEW k \in Nat,
         n >= d * k, inj >= k
  PROVE  Blend([n |-> n, d |-> d], inj) >= k
  <1>1. /\ A \in Nat /\ Den - A \in Nat /\ Den \in Nat
        /\ A + (Den - A) = Den
    BY DetectorsAssumption
  <1>2. Den * d \in Nat \ {0}
    BY DetectorsAssumption
  <1>3. A * n >= A * (d * k)
    BY <1>1, TimesMonotone
  <1>4. (Den - A) * (inj * d) >= (Den - A) * (k * d)
    <2>1. d * k <= d * inj
      BY TimesMonotone
    <2>2. k * d \in Int /\ inj * d \in Int /\ k * d <= inj * d
      BY <2>1
    <2>3. QED
      BY <1>1, <2>2, TimesMonotone
  <1>5. A * (d * k) + (Den - A) * (k * d) = (Den * d) * k
    BY <1>1
  <1>6. (Den - A) * inj * d = (Den - A) * (inj * d)
    BY <1>1
  <1>7. A * n + (Den - A) * inj * d >= (Den * d) * k
    BY <1>1, <1>3, <1>4, <1>5, <1>6
  <1>8. A * n + (Den - A) * inj * d \in Int
    BY <1>1
  <1>9. QED
    BY <1>2, <1>7, <1>8, DivAtLeast DEF Blend

LEMMA BlendAtMost ==
  ASSUME NEW n \in Nat, NEW d \in Nat \ {0}, NEW inj \in Nat, NEW k \in Nat,
         n < d * (k + 1), inj <= k
  PROVE  Blend([n |-> n, d |-> d], inj) <= k
  <1>1. /\ A \in Nat /\ Den - A \in Nat /\ Den \in Nat \ {0}
        /\ A + (Den - A) = Den
    BY DetectorsAssumption
  <1>2. Den * d \in Nat \ {0}
    BY DetectorsAssumption
  <1>3. (Den - A) * (inj * d) <= (Den - A) * (k * d)
    <2>1. d * inj <= d * k
      BY TimesMonotone
    <2>2. k * d \in Int /\ inj * d \in Int /\ inj * d <= k * d
      BY <2>1
    <2>3. QED
      BY <1>1, <2>2, TimesMonotone
  <1>4. d * (k + 1) = k * d + d /\ k * d \in Nat
    OBVIOUS
  <1>5. A * n <= A * (k * d + d - 1)
    BY <1>1, <1>4, TimesMonotone
  <1>6. A * (k * d + d - 1) = A * (k * d) + A * d - A
    BY <1>1, <1>4
  <1>7. A * (k * d) + (Den - A) * (k * d) = Den * (k * d)
    BY <1>1, <1>4
  <1>8. A * d <= Den * d
    BY DetectorsAssumption
  <1>9. A * d - A < Den * d
    <2>1. CASE A = 0
      BY <1>2, <2>1
    <2>2. CASE A > 0
      BY <1>1, <1>8, <2>2
    <2>3. QED
      BY <1>1, <2>1, <2>2
  <1>10. (Den * d) * (k + 1) = Den * (k * d) + Den * d
    BY <1>1
  <1>11. (Den - A) * inj * d = (Den - A) * (inj * d)
    BY <1>1
  <1> DEFINE N == A * n + (Den - A) * inj * d
  <1>12. N \in Int
    BY <1>1
  <1>13. N < (Den * d) * (k + 1)
    <2>1. /\ A * n \in Int /\ (Den - A) * (inj * d) \in Int
          /\ A * (k * d) \in Int /\ (Den - A) * (k * d) \in Int
          /\ A * d \in Int /\ Den * d \in Int /\ Den * (k * d) \in Int
      BY <1>1
    <2>2. QED
      BY <1>1, <1>3, <1>5, <1>6, <1>7, <1>9, <1>10, <1>11, <2>1
  <1> HIDE DEF N
  <1>14. N \div (Den * d) <= k
    BY <1>2, <1>12, <1>13, DivAtMost
  <1>15. QED
    BY <1>14 DEF Blend, N

(* Two naturals and a reading between the lesser and the greater of them. *)
LEMMA BlendIsBetween ==
  ASSUME CounterInv
  PROVE  BlendBetween
  <1> SUFFICES ASSUME NEW m \in Detected
               PROVE  LET bounds == {measured[m].n \div measured[m].d, s[m]}
                      IN /\ readings[m] >= Min(bounds)
                         /\ readings[m] <= Max(bounds)
    BY DEF BlendBetween
  <1> DEFINE n == measured[m].n
             d == measured[m].d
             q == n \div d
  <1>1. n \in Nat /\ d \in Nat \ {0} /\ s[m] \in Nat
    BY MeasuredFraction DEF CounterInv, DTypeOK
  <1>2. readings[m] = Blend([n |-> n, d |-> d], s[m])
    BY DEF readings, Blend
  <1> HIDE DEF n, d
  <1>3. q \in Nat /\ d * q <= n /\ n < d * (q + 1)
    BY <1>1
  <1> HIDE DEF q
  <1> DEFINE lo == Min({q, s[m]})
             hi == Max({q, s[m]})
  <1>4. lo \in Nat /\ lo <= q /\ lo <= s[m]
    BY <1>1, <1>3, MinOfPair
  <1>5. hi \in Nat /\ q <= hi /\ s[m] <= hi
    BY <1>1, <1>3, MaxOfPair
  <1> HIDE DEF lo, hi
  <1>6. readings[m] >= lo
    <2>1. d * lo <= d * q
      BY <1>1, <1>3, <1>4, TimesMonotone
    <2>2. n >= d * lo
      BY <1>1, <1>3, <1>4, <2>1
    <2>3. QED
      BY <1>1, <1>2, <1>4, <2>2, BlendAtLeast
  <1>7. readings[m] <= hi
    <2>1. d * (q + 1) <= d * (hi + 1)
      BY <1>1, <1>3, <1>5, TimesMonotone
    <2>2. n < d * (hi + 1)
      BY <1>1, <1>3, <1>5, <2>1
    <2>3. QED
      BY <1>1, <1>2, <1>5, <2>2, BlendAtMost
  <1>8. QED
    BY <1>6, <1>7 DEF lo, hi, q, n, d

(***************************************************************************)
(* Every reading lies between the measured rate and the injected one, for  *)
(* every weight between 0 and 1 and every history of the counters.         *)
(***************************************************************************)
THEOREM ReadingsBlend == Spec => []BlendBetween
  BY BlendIsBetween, Invariance, PTL
-----------------------------------------------------------------------------
(* A burst whose share reaches the feeder threshold makes worst() block. *)
LEMMA BurstReachesFeeder ==
  ASSUME CounterInv, A * longest >= Den * thr["burst"].feeder
  PROVE  B!worst(readings, thr) >= 2
  <1> DEFINE f == thr["burst"].feeder
             N == A * burst_ms + (Den - A) * s["burst"] * 1
  <1>1. f \in Int
    BY SessionAssumption
       DEF CounterInv, B!BreakerThresholds, B!Metrics
  <1>2. burst_ms \in Nat /\ s["burst"] \in Nat /\ longest = burst_ms
    BY DEF CounterInv, DTypeOK, Detected
  <1>3. A \in Nat /\ Den - A \in Nat /\ Den \in Nat \ {0}
    BY DetectorsAssumption
  <1>4. readings["burst"] = N \div (Den * 1)
    BY DEF readings, Detected, Blend, measured, Whole
  <1>5. Den * 1 = Den /\ N \in Int
    BY <1>2, <1>3
  <1>6. (Den - A) * s["burst"] * 1 >= 0
    BY <1>2, <1>3
  <1>7. N >= Den * f
    BY <1>1, <1>2, <1>3, <1>6
  <1> HIDE DEF f, N
  <1>8. readings["burst"] >= f
    BY <1>1, <1>3, <1>4, <1>5, <1>7, DivAtLeast
  <1>9. B!metric_level(readings["burst"], thr["burst"]) \in {2, 3}
    BY <1>8 DEF f, B!metric_level, B!Feeder, B!Main
  <1>10. QED
    BY <1>9, WorstIsHighest DEF B!Metrics

(***************************************************************************)
(* Once a burst whose weighted length reaches the feeder threshold was     *)
(* reported, every evaluation blocks publishing: later shorter bursts do   *)
(* not hide it from the detectors, and clear_latch() does not either.      *)
(***************************************************************************)
THEOREM BurstIsRemembered == Spec => BurstOutlivesClear
  <1>1. CounterInv /\ LevelInv /\ [Next]_vars
          => [Evaluate /\ A * longest >= Den * thr["burst"].feeder
                => ~B!publish_allowed']_vars
    <2> SUFFICES ASSUME CounterInv, LevelInv, Evaluate,
                        A * longest >= Den * thr["burst"].feeder
                 PROVE  ~B!publish_allowed'
      OBVIOUS
    <2> DEFINE w == B!worst(readings, thr)
    <2>1. w \in 0..3 /\ w >= 2
      BY BurstReachesFeeder, WorstIsHighest
    <2>2. last' = w /\ seen' = seen \cup {w}
      BY DEF Evaluate
    <2> HIDE DEF w
    <2>3. LevelInv'
      BY EvaluateLevel
    <2>4. st' = Max(seen')
      BY <2>1, <2>2, <2>3 DEF LevelInv, StateIsHistory, B!Feeder
    <2>5. st' >= w /\ st' \in 0..3
      BY <2>2, <2>3, <2>4, MaxOfLevels DEF LevelInv
    <2>6. st' >= 2
      BY <2>1, <2>5
    <2>7. QED
      BY <2>5, <2>6 DEF B!publish_allowed, B!Fuse, B!Local
  <1>2. QED
    BY <1>1, Invariance, PTL DEF Spec, BurstOutlivesClear
-----------------------------------------------------------------------------
(* No blend of naturals is negative: what the gate reads are readings a    *)
(* breaker may be given.                                                   *)
LEMMA ReadingsAreNat ==
  ASSUME CounterInv
  PROVE  readings \in [Detected -> Nat]
  <1> SUFFICES ASSUME NEW m \in Detected
               PROVE  Blend(measured[m], s[m]) \in Nat
    BY DEF readings
  <1> DEFINE n == measured[m].n
             d == measured[m].d
  <1>1. n \in Nat /\ d \in Nat \ {0} /\ s[m] \in Nat
    BY MeasuredFraction DEF CounterInv, DTypeOK
  <1>2. Blend(measured[m], s[m]) = (A * n + (Den - A) * s[m] * d) \div (Den * d)
    BY DEF Blend
  <1> HIDE DEF n, d
  <1>3. A \in Nat /\ Den - A \in Nat
    BY DetectorsAssumption
  <1>4. A * n + (Den - A) * s[m] * d \in Nat
    BY <1>1, <1>3
  <1>5. Den * d \in Nat \ {0}
    BY <1>1, DetectorsAssumption
  <1> DEFINE N == A * n + (Den - A) * s[m] * d
             D == Den * d
  <1>6. N \in Nat /\ D \in Nat \ {0}
    BY <1>4, <1>5
  <1> HIDE DEF N, D
  <1>7. N \div D \in Nat
    BY <1>6
  <1>8. QED
    BY <1>2, <1>7 DEF N, D

(***************************************************************************)
(* What the handler and the operator do to the breaker of a session are    *)
(* steps of class lob::Breaker with readings a breaker may be given: a     *)
(* session is a run of the breaker, and what is proved of every breaker    *)
(* holds in it.                                                            *)
(***************************************************************************)
THEOREM SessionIsBreaker == Spec => B!Spec
  <1>1. Init => B!Init
    BY DEF Init
  <1>2. CounterInv /\ [Next]_vars => [B!Next]_(B!vars)
    <2> SUFFICES ASSUME CounterInv, [Next]_vars
                 PROVE  [B!Next]_(B!vars)
      OBVIOUS
    <2>1. CASE Evaluate
      BY <2>1, ReadingsAreNat DEF Evaluate, B!Next
    <2>2. CASE Clear
      BY <2>2 DEF Clear, B!Next
    <2>3. CASE Count \/ Burst \/ UNCHANGED vars
      BY <2>3 DEF Count, Burst, vars, bvars, B!vars
    <2>4. QED
      BY <2>1, <2>2, <2>3 DEF Next
  <1>3. QED
    BY <1>1, <1>2, Invariance, PTL DEF Spec, B!Spec

(* Latched exactly from Feeder on: what LevelInv says of the level itself. *)
LEMMA LatchIsLevel ==
  ASSUME LevelInv
  PROVE  st \in 0..3 /\ (latched <=> st >= 2)
  <1>1. st \in 0..3 /\ last \in 0..3
    BY LevelRange
  <1>2. CASE \E d \in seen : d >= 2
    <2>1. PICK d \in seen : d >= 2
      BY <1>2
    <2>2. st = Max(seen)
      BY <1>2 DEF LevelInv, StateIsHistory, B!Feeder
    <2>3. Max(seen) >= d /\ d \in 0..3
      BY <2>1, MaxOfLevels DEF LevelInv
    <2>4. st >= 2
      BY <1>1, <2>1, <2>2, <2>3
    <2>5. QED
      BY <1>1, <1>2, <2>4 DEF LevelInv
  <1>3. CASE ~(\E d \in seen : d >= 2)
    <2>1. st = last
      BY <1>3 DEF LevelInv, StateIsHistory, B!Feeder
    <2>2. last < 2
      BY <1>3, <1>1 DEF LevelInv
    <2>3. QED
      BY <1>1, <1>3, <2>1, <2>2 DEF LevelInv
  <1>4. QED
    BY <1>2, <1>3

(* One evaluation is an observation of the abstract gate. *)
LEMMA EvaluateIsObserved ==
  ASSUME LevelInv, Evaluate
  PROVE  \E w \in 0..3 : B!Gate!Follow(w) \/ B!Gate!Ratchet(w) \/ B!Gate!Hold(w)
  <1> DEFINE w == B!worst(readings, thr)
  <1>1. w \in 0..3
    BY WorstIsHighest
  <1>2. st \in 0..3 /\ (latched <=> st >= 2)
    BY LatchIsLevel
  <1>3. latched => st' = Max({st, w})
    BY SameMax DEF Evaluate, B!step, B!StepLatched, B!StepUnlatched
  <1>4. ~latched => st' = w
    BY DEF Evaluate, B!step, B!StepLatched, B!StepUnlatched
  <1> HIDE DEF w
  <1>5. CASE latched
    <2>1. st' = IF w > st THEN w ELSE st
      BY <1>1, <1>2, <1>3, <1>5, MaxOfPair
    <2>2. B!Gate!Ratchet(w) \/ B!Gate!Hold(w)
      BY <1>1, <1>2, <1>5, <2>1 DEF B!Gate!Ratchet, B!Gate!Hold, B!Feeder
    <2>3. QED
      BY <1>1, <2>2
  <1>6. CASE ~latched
    <2>1. B!Gate!Follow(w)
      BY <1>2, <1>4, <1>6 DEF B!Gate!Follow, B!Feeder
    <2>2. QED
      BY <1>1, <2>1
  <1>7. QED
    BY <1>5, <1>6

(***************************************************************************)
(* A handler that feeds detectors and an operator who clears the latch see *)
(* the abstract gate of LatchedGate: a level that follows the evaluations  *)
(* below Feeder, ratchets from there on, and is reset by the operator      *)
(* only.  The detectors, their blend and the latch bit do not show.        *)
(***************************************************************************)
THEOREM SessionIsGate == Spec => B!GateSpec
  <1>1. Init => B!Gate!Init
    BY DEF Init, B!Init, B!Gate!Init, B!Fuse
  <1>2. LevelInv /\ [Next]_vars => [B!Gate!Next]_st
    <2> SUFFICES ASSUME LevelInv, [Next]_vars
                 PROVE  [B!Gate!Next]_st
      OBVIOUS
    <2>1. CASE Evaluate
      BY <2>1, EvaluateIsObserved DEF B!Gate!Next, B!Gate!Severity, B!Main
    <2>2. CASE Clear
      <3>1. st # B!Kill
        BY LatchIsLevel DEF B!Kill
      <3>2. st' = 0
        BY <2>2, <3>1 DEF Clear, B!clear_latch, B!Fuse
      <3>3. QED
        BY <3>2 DEF B!Gate!Next, B!Gate!Reset
    <2>3. CASE Count \/ Burst \/ UNCHANGED vars
      BY <2>3 DEF Count, Burst, vars, bvars
    <2>4. QED
      BY <2>1, <2>2, <2>3 DEF Next
  <1>3. QED
    BY <1>1, <1>2, Invariance, PTL DEF Spec, B!GateSpec, B!Gate!Spec

(***************************************************************************)
(* Neither evaluations nor new rates bring publishing back in a session:   *)
(* only the operator's clear_latch() does.                                 *)
(***************************************************************************)
THEOREM OnlyClearReopens ==
  Spec => [][~B!publish_allowed /\ B!publish_allowed' => Clear]_vars
  <1>1. LevelInv /\ [Next]_vars
          => [~B!publish_allowed /\ B!publish_allowed' => Clear]_vars
    <2> SUFFICES ASSUME LevelInv, [Next]_vars, ~B!publish_allowed, ~Clear
                 PROVE  ~B!publish_allowed' \/ UNCHANGED vars
      OBVIOUS
    <2>1. st \in {2, 3} /\ latched
      BY LatchIsLevel DEF B!publish_allowed, B!Fuse, B!Local
    <2>2. CASE Evaluate
      <3>1. PICK w \in 0..3 :
               B!Gate!Follow(w) \/ B!Gate!Ratchet(w) \/ B!Gate!Hold(w)
        BY <2>2, EvaluateIsObserved
      <3>2. st' >= 2 /\ st' \in 0..3
        BY <2>1, <3>1 DEF B!Gate!Follow, B!Gate!Ratchet, B!Gate!Hold, B!Feeder
      <3>3. QED
        BY <3>2 DEF B!publish_allowed, B!Fuse, B!Local
    <2>3. CASE Count \/ Burst
      <3>1. st' = st
        BY <2>3 DEF Count, Burst, bvars
      <3>2. QED
        BY <2>1, <3>1 DEF B!publish_allowed, B!Fuse, B!Local
    <2>4. QED
      BY <2>2, <2>3 DEF Next
  <1>2. QED
    BY <1>1, Invariance, PTL DEF Spec
=============================================================================
