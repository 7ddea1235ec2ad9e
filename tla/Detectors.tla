----------------------------- MODULE Detectors -----------------------------
(***************************************************************************)
(* Class lob::Detectors (src/include/detectors.hpp): counters fed by the   *)
(* feed handler, the rates an operator injects, and the readings a breaker *)
(* is given, which blend the two.                                          *)
(*                                                                         *)
(* The code blends in doubles with weight a (0.2 by default).  Here the    *)
(* weight is the ratio A/Den and a reading is the integer part of the      *)
(* exact blend: a reading is used only in comparisons with thresholds, and *)
(* for the whole thresholds of BreakerThresholds x >= t exactly when the   *)
(* integer part of x is >= t.  Rounding of doubles is not modelled.        *)
(***************************************************************************)
EXTENDS Integers

CONSTANTS A, Den,     \* a_ = A/Den
          PPM         \* parts per million: 1000000 in the code

ASSUME DetectorsAssumption == /\ Den \in Nat \ {0}
                              /\ A \in 0..Den
                              /\ PPM \in Nat \ {0}

VARIABLES total, gaps, corrupt,   \* message, gap and corruption counters
          burst_ms, skew_ppm,     \* worst burst so far, latest skew
          s                       \* the injected (synthetic) rates, per metric

Detected == {"gap", "corrupt", "skew", "burst"}

dvars == <<total, gaps, corrupt, burst_ms, skew_ppm, s>>

DInit == /\ total = 0
         /\ gaps = 0
         /\ corrupt = 0
         /\ burst_ms = 0
         /\ skew_ppm = 0
         /\ s = [m \in Detected |-> 0]

DTypeOK == /\ {total, gaps, corrupt, burst_ms, skew_ppm} \subseteq Nat
           /\ s \in [Detected -> Nat]
-----------------------------------------------------------------------------
(* on_message() stores the running total its caller keeps. *)
on_message(n) == /\ total' = n
                 /\ UNCHANGED <<gaps, corrupt, burst_ms, skew_ppm, s>>

on_gap(inc) == /\ gaps' = gaps + inc
               /\ UNCHANGED <<total, corrupt, burst_ms, skew_ppm, s>>

on_corrupt(inc) == /\ corrupt' = corrupt + inc
                   /\ UNCHANGED <<total, gaps, burst_ms, skew_ppm, s>>

(* Variant: the latest burst replaces a longer one. *)
on_burst_latest(ms) == /\ burst_ms' = ms
                       /\ UNCHANGED <<total, gaps, corrupt, skew_ppm, s>>

(* Only a longer burst is recorded; nothing ever shortens it. *)
on_burst(ms) == /\ burst_ms' = IF ms > burst_ms THEN ms ELSE burst_ms
                /\ UNCHANGED <<total, gaps, corrupt, skew_ppm, s>>

on_skew_ppm(ppm) == /\ skew_ppm' = ppm
                    /\ UNCHANGED <<total, gaps, corrupt, burst_ms, s>>

inject_ppm(rates) == /\ s' = rates
                     /\ UNCHANGED <<total, gaps, corrupt, burst_ms, skew_ppm>>
-----------------------------------------------------------------------------
(* A share of the messages in ppm, as a fraction; no messages, no rate. *)
ppm_of(part) == IF total = 0 THEN [n |-> 0, d |-> 1]
                             ELSE [n |-> part * PPM, d |-> total]

Whole(x) == [n |-> x, d |-> 1]

measured == [gap     |-> ppm_of(gaps),
             corrupt |-> ppm_of(corrupt),
             skew    |-> Whole(skew_ppm),
             burst   |-> Whole(burst_ms)]

(* Variant: what was measured counts in full. *)
Blend_unweighted(x, injected) ==
  (Den * x.n + (Den - A) * injected * x.d) \div (Den * x.d)

(* a_ * x + (1 - a_) * injected, rounded down. *)
Blend(x, injected) ==
  (A * x.n + (Den - A) * injected * x.d) \div (Den * x.d)

readings == [m \in Detected |-> Blend(measured[m], s[m])]
=============================================================================
