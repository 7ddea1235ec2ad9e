----------------------------- MODULE Quantiles -----------------------------
(***************************************************************************)
(* Three programs turn the same latencies into quantiles: scripts/bench.sh *)
(* picks a sample by an integer index, scripts/update_performance_badges   *)
(* interpolates (when bench.sh left no summary), and so does the replay    *)
(* engine for the tail metrics.  All sort first; here the samples arrive   *)
(* one by one and are kept sorted.                                         *)
(*                                                                         *)
(* Latencies are integers and an interpolated quantile is 100 times its    *)
(* value: with percentages as quantiles everything is exact.               *)
(***************************************************************************)
EXTENDS Integers, Sequences

CONSTANTS Latencies,   \* what a run can take
          Runs         \* bound: samples

ASSUME QuantilesAssumption == Latencies \subseteq Nat /\ Runs \in Nat \ {0}

VARIABLE sorted        \* sorted=(...), values.sort(), std::sort

Quantile == {50, 95, 99}
-----------------------------------------------------------------------------
SamplesInit == sorted \in {<<t>> : t \in Latencies}

Position(t) == CHOOSE k \in 0..Len(sorted) :
                 /\ \A m \in 1..k : sorted[m] <= t
                 /\ \A m \in k + 1..Len(sorted) : t < sorted[m]

(* Variant: not sorted. *)
record_unsorted(t) == Len(sorted) < Runs /\ sorted' = Append(sorted, t)

(* times+=("$ms"); samples.append(); event_latencies_ms.push_back() *)
record(t) == /\ Len(sorted) < Runs
             /\ sorted' = SubSeq(sorted, 1, Position(t)) \o <<t>>
                          \o SubSeq(sorted, Position(t) + 1, Len(sorted))

SamplesNext == \/ \E t \in Latencies : record(t)
               \/ Len(sorted) = Runs /\ UNCHANGED sorted

SamplesSpec == SamplesInit /\ [][SamplesNext]_sorted
-----------------------------------------------------------------------------
Clamp(k, n) == IF k >= n THEN n - 1 ELSE k

(* Variant: the index is counted from the last sample. *)
Index_last(n, p) == ((n - 1) * p) \div 100

(* idx95=$((n * 95 / 100)), clamped to the last.  Indices are from 0.      *)
Index(n, p) == Clamp((n * p) \div 100, n)

bench_quantile(s, p) == s[Index(Len(s), p) + 1]

(* Where interpolation falls, in hundredths of a sample. *)
Pos(n, p) == (n - 1) * p
Lower(n, p) == Pos(n, p) \div 100
Upper(n, p) == (Pos(n, p) + 99) \div 100

(* _percentile(): pos is (n - 1) * quantile, between floor and ceil.       *)
percentile(s, p) ==
  LET n == Len(s)  lo == s[Lower(n, p) + 1]  hi == s[Upper(n, p) + 1] IN
  100 * lo + (hi - lo) * (Pos(n, p) - 100 * Lower(n, p))

(* The engine's percentile: the next sample, or the last one again.        *)
replay_percentile(s, p) ==
  LET n    == Len(s)
      lo   == Pos(n, p) \div 100
      hi   == IF lo + 1 < n THEN lo + 1 ELSE lo
      frac == Pos(n, p) - 100 * lo
  IN  s[lo + 1] * (100 - frac) + s[hi + 1] * frac

(* statistics.median(), the badges' p50. *)
median(s) == LET n == Len(s) IN
  IF n % 2 = 1 THEN 100 * s[n \div 2 + 1]
               ELSE 50 * (s[n \div 2] + s[n \div 2 + 1])

(* _pick_color() *)
latency_color(p99) == IF p99 <= 100 * 500 THEN "green"
                 ELSE IF p99 <= 100 * 800 THEN "yellow" ELSE "red"

(* _load_summary() from a file with the summary, and from one without.     *)
FromSummary == [p \in Quantile |-> 100 * bench_quantile(sorted, p)]
FromSamples == [p \in Quantile |-> IF p = 50 THEN median(sorted)
                                             ELSE percentile(sorted, p)]

Rank == [green |-> 0, yellow |-> 1, red |-> 2]
-----------------------------------------------------------------------------
(***************************************************************************)
(* The three formulas fit each other.  The badges and the engine           *)
(* interpolate alike, and the badges' median is the same p50.  What        *)
(* bench.sh picks is the sample just above that point, or at it: a badge   *)
(* made without the summary never shows more, nor a worse colour, than one *)
(* made with it.                                                           *)
(***************************************************************************)
FormulasAgree ==
  /\ median(sorted) = replay_percentile(sorted, 50)
  /\ \A p \in Quantile :
       /\ percentile(sorted, p) = replay_percentile(sorted, p)
       /\ Index(Len(sorted), p) = Upper(Len(sorted), p)
       /\ FromSamples[p] <= FromSummary[p]
       /\ Rank[latency_color(FromSamples[p])] <= Rank[latency_color(FromSummary[p])]

(***************************************************************************)
(* One more run, as slow as a quantile or slower, never improves it: no    *)
(* badge gets better by measuring something worse.                         *)
(***************************************************************************)
SlowerRunNeverHelps ==
  [][\A t \in Latencies, p \in Quantile : record(t) =>
       /\ 100 * t >= FromSummary[p] => FromSummary'[p] >= FromSummary[p]
       /\ 100 * t >= FromSamples[p] => FromSamples'[p] >= FromSamples[p]]_sorted
=============================================================================
