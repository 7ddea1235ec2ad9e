------------------------- MODULE VerifyBenchProofs -------------------------
(***************************************************************************)
(* Proofs about VerifyBench, for any lines, baselines, command lines and   *)
(* numbers of rewrites and invocations.                                    *)
(*                                                                         *)
(* The decision is arithmetic: the lemmas on Min, on the profiles and on   *)
(* the limits say what verdict() compares.  What is left for the           *)
(* invariant is when: a decision is taken on a measurement and a baseline  *)
(* that were read whole, and what is on disk or in the exit code goes      *)
(* back to one such decision.                                              *)
(***************************************************************************)
EXTENDS VerifyBench, TLAPS

(* The same set as Command, written so that the provers, which do not know *)
(* that a literal is a STRING, can put another profile into a command.     *)
AnyCommand == [words : SUBSET STRING, profile : STRING \union Profiles, runner : STRING,
               cli : [Gates \union {"budget"} -> Knob],
               env : [Gates \union {"budget"} -> Knob \union {Garbage}],
               require : BOOLEAN, force : BOOLEAN, export : BOOLEAN,
               tune : BOOLEAN]

(* What an invocation has established before it decides. *)
CommandOK(c) == c \in AnyCommand /\ c.profile \in Profiles /\ env_float_ok(c)

LineOK(l) == l \in Line /\ l.p99 \in Nat /\ l.samples \in Nat

StatsOK(s) == s \in Stats /\ s.median \in Nat /\ s.mad \in Nat
-----------------------------------------------------------------------------
(* The least of two limits and the budget, if there is one. *)
LEMMA LeastOf ==
  ASSUME NEW a \in Nat, NEW b \in Nat, NEW cap \in Nat \union {Unset},
         NEW m, m = Min({a, b} \union IF cap = Unset THEN {} ELSE {cap})
  PROVE  /\ m \in Nat
         /\ m <= a /\ m <= b /\ (cap # Unset => m <= cap)
         /\ m = a \/ m = b \/ (cap # Unset /\ m = cap)
  <1> DEFINE S == {a, b} \union IF cap = Unset THEN {} ELSE {cap}
  <1>1. S \subseteq Nat
    BY DEF Unset
  <1>2. \E x \in S : \A y \in S : x <= y
    <2>1. CASE cap = Unset
      <3>1. a <= b \/ b <= a
        OBVIOUS
      <3>2. QED
        BY <2>1, <3>1
    <2>2. CASE cap # Unset
      <3>1. \/ a <= b /\ a <= cap
            \/ b <= a /\ b <= cap
            \/ cap <= a /\ cap <= b
        BY <2>2 DEF Unset
      <3>2. S = {a, b, cap}
        BY <2>2
      <3>3. QED
        BY <3>1, <3>2
    <2>3. QED
      BY <2>1, <2>2
  <1>3. m \in S /\ \A y \in S : m <= y
    BY <1>2 DEF Min
  <1>4. QED
    BY <1>1, <1>3

(* The profiles' numbers, and that each profile is stricter than the next. *)
LEMMA Presets ==
  ASSUME NEW p \in Profiles
  PROVE  /\ \A g \in Gates : PROFILE_PRESETS[p][g] \in Nat
         /\ PROFILE_PRESETS[p].digest \in BOOLEAN
         /\ Laxer[p] \in Profiles
         /\ \A g \in Gates : PROFILE_PRESETS[p][g] <= PROFILE_PRESETS[Laxer[p]][g]
         /\ PROFILE_PRESETS[Laxer[p]].digest => PROFILE_PRESETS[p].digest
  <1>1. /\ PROFILE_PRESETS["strict"]["mad"] = 2000
        /\ PROFILE_PRESETS["strict"]["p99"] = 1050
        /\ PROFILE_PRESETS["strict"]["eps"] = 3000
        /\ PROFILE_PRESETS["strict"].digest = TRUE
    BY DEF PROFILE_PRESETS
  <1>2. /\ PROFILE_PRESETS["standard"]["mad"] = 3000
        /\ PROFILE_PRESETS["standard"]["p99"] = 1100
        /\ PROFILE_PRESETS["standard"]["eps"] = 5000
        /\ PROFILE_PRESETS["standard"].digest = FALSE
    BY DEF PROFILE_PRESETS
  <1>3. /\ PROFILE_PRESETS["lenient"]["mad"] = 4000
        /\ PROFILE_PRESETS["lenient"]["p99"] = 1200
        /\ PROFILE_PRESETS["lenient"]["eps"] = 7000
        /\ PROFILE_PRESETS["lenient"].digest = FALSE
    BY DEF PROFILE_PRESETS
  <1>4. \/ p = "strict" /\ Laxer[p] = "standard"
        \/ p = "standard" /\ Laxer[p] = "lenient"
        \/ p = "lenient" /\ Laxer[p] = "lenient"
    BY DEF Profiles, Laxer
  <1>5. \A g \in Gates : /\ PROFILE_PRESETS[p][g] \in Nat
                         /\ PROFILE_PRESETS[p][g] <= PROFILE_PRESETS[Laxer[p]][g]
    BY <1>1, <1>2, <1>3, <1>4 DEF Gates
  <1>6. /\ PROFILE_PRESETS[p].digest \in BOOLEAN
        /\ PROFILE_PRESETS[Laxer[p]].digest => PROFILE_PRESETS[p].digest
    <2>1. CASE p = "strict"
      <3>1. PROFILE_PRESETS[p].digest = TRUE
        BY <1>1, <2>1
      <3>2. QED
        BY <3>1, Zenon
    <2>2. CASE p # "strict"
      <3>1. /\ PROFILE_PRESETS[p].digest = FALSE
            /\ PROFILE_PRESETS[Laxer[p]].digest = FALSE
        BY <1>2, <1>3, <1>4, <2>2
      <3>2. QED
        BY <3>1, Zenon
    <2>3. QED
      BY <2>1, <2>2
  <1>7. Laxer[p] \in Profiles
    BY <1>4 DEF Profiles
  <1>8. QED
    BY <1>5, <1>6, <1>7

(* Every gate of a valid command is a number, and so is its budget if set. *)
LEMMA Configured ==
  ASSUME NEW c, CommandOK(c)
  PROVE  /\ profile_cfg(c) \in [Gates -> Nat]
         /\ \A g \in Gates :
              /\ c.cli[g] # Unset => profile_cfg(c)[g] = c.cli[g]
              /\ c.cli[g] = Unset /\ c.env[g] # Unset => profile_cfg(c)[g] = c.env[g]
              /\ c.cli[g] = Unset /\ c.env[g] = Unset =>
                   profile_cfg(c)[g] = PROFILE_PRESETS[c.profile][g]
         /\ budget_cap(c) \in Nat \union {Unset}
  <1>1. /\ c.cli \in [Gates \union {"budget"} -> Knob]
        /\ c.env \in [Gates \union {"budget"} -> Knob \union {Garbage}]
    BY DEF CommandOK, AnyCommand
  <1>2. \A g \in Gates \union {"budget"} :
          /\ c.cli[g] \in Nat \union {Unset}
          /\ c.cli[g] = Unset => c.env[g] \in Nat \union {Unset}
    BY <1>1 DEF CommandOK, env_float_ok, Knob
  <1>3. \A g \in Gates : PROFILE_PRESETS[c.profile][g] \in Nat
    BY Presets DEF CommandOK
  <1>4. \A g \in Gates :
          /\ profile_cfg(c)[g] = resolve_float(c, g, PROFILE_PRESETS[c.profile][g])
          /\ resolve_float(c, g, PROFILE_PRESETS[c.profile][g]) \in Nat
    BY <1>2, <1>3 DEF profile_cfg, resolve_float, Unset
  <1>5. budget_cap(c) \in Nat \union {Unset}
    BY <1>2 DEF budget_cap, resolve_float
  <1>6. QED
    BY <1>4, <1>5 DEF profile_cfg, resolve_float

(* The last run's quantile, or what stands in for it. *)
Reference(s) == or(s.last, or(s.p99, s.median))

LEMMA ReferenceIsNat ==
  ASSUME NEW s, StatsOK(s)
  PROVE  Reference(s) \in Nat /\ (s.last > 0 => Reference(s) = s.last)
  BY DEF StatsOK, Stats, Reference, or

(* Products of naturals, which the SMT solver does not find by itself. *)
LEMMA ProductIsNat == \A a, b \in Nat : a * b \in Nat
  OBVIOUS

LEMMA MultipleGrows == \A a, b \in Int, k \in Nat : a >= b => a * k >= b * k
  OBVIOUS

LEMMA ProductGrows == \A a, b, k \in Nat : a <= b => a * k <= b * k
  OBVIOUS

(* What each of the two gates and the budget allow. *)
ByDeviation(c, s) == Mille * s.median + profile_cfg(c).mad * s.mad
                     + Mille * profile_cfg(c).eps
ByLast(c, s) == profile_cfg(c).p99 * Reference(s) + Mille * profile_cfg(c).eps

LEMMA AllowedIsLeast ==
  ASSUME NEW c, CommandOK(c), NEW s, StatsOK(s)
  PROVE  /\ ByDeviation(c, s) \in Nat /\ ByLast(c, s) \in Nat
         /\ allowed(c, s) \in Nat
         /\ allowed(c, s) <= ByDeviation(c, s)
         /\ allowed(c, s) <= ByLast(c, s)
         /\ budget_cap(c) # Unset => allowed(c, s) <= budget_cap(c)
         /\ \/ allowed(c, s) = ByDeviation(c, s)
            \/ allowed(c, s) = ByLast(c, s)
            \/ budget_cap(c) # Unset /\ allowed(c, s) = budget_cap(c)
  <1>1. /\ profile_cfg(c).mad \in Nat /\ profile_cfg(c).p99 \in Nat
        /\ profile_cfg(c).eps \in Nat
        /\ s.median \in Nat /\ s.mad \in Nat /\ Reference(s) \in Nat
    BY Configured, ReferenceIsNat DEF Gates, StatsOK
  <1>2. profile_cfg(c).mad * s.mad \in Nat /\ profile_cfg(c).p99 * Reference(s) \in Nat
    BY <1>1, ProductIsNat
  <1>3. ByDeviation(c, s) \in Nat /\ ByLast(c, s) \in Nat
    BY <1>1, <1>2 DEF ByDeviation, ByLast, Mille
  <1>4. allowed(c, s) = Min({ByDeviation(c, s), ByLast(c, s)}
                            \union IF budget_cap(c) = Unset THEN {} ELSE {budget_cap(c)})
    BY DEF allowed, compute_allowed, ByDeviation, ByLast, Reference
  <1>5. budget_cap(c) \in Nat \union {Unset}
    BY Configured
  <1>6. QED
    BY <1>3, <1>4, <1>5, LeastOf
-----------------------------------------------------------------------------
(* The reference of Within is the one compute_allowed() takes. *)
LEMMA SameReference ==
  ASSUME NEW s, StatsOK(s)
  PROVE  (CHOOSE r \in {s.last, s.p99, s.median} :
            \/ r = s.last /\ r > 0
            \/ r = s.p99 /\ r > 0 /\ s.last = 0
            \/ r = s.median /\ s.last = 0 /\ s.p99 = 0) = Reference(s)
  BY DEF StatsOK, Stats, Reference, or

(* To be within the least limit is to be within each of them. *)
LEMMA WithinIsEach ==
  ASSUME NEW c, CommandOK(c), NEW s, StatsOK(s), NEW cap, NEW x, NEW n
  PROVE  Within(x, n, profile_cfg(c), cap, s) <=>
           /\ x <= n * ByDeviation(c, s)
           /\ x <= n * ByLast(c, s)
           /\ cap # Unset => x <= n * cap
  <1>1. s.median \in Nat /\ profile_cfg(c).eps \in Nat
    BY Configured DEF StatsOK, Gates
  <1>2. Mille * (s.median + profile_cfg(c).eps) + profile_cfg(c).mad * s.mad
        = ByDeviation(c, s)
    <2>1. profile_cfg(c).mad * s.mad \in Nat
      BY Configured, ProductIsNat DEF StatsOK, Gates
    <2>2. QED
      BY <1>1, <2>1 DEF ByDeviation, Mille
  <1>3. QED
    BY <1>2, SameReference DEF Within, ByLast

LEMMA WithinIsAllowed ==
  ASSUME NEW c, CommandOK(c), NEW s, StatsOK(s), NEW x \in Nat, NEW n \in {1, 3}
  PROVE  Within(x, n, profile_cfg(c), budget_cap(c), s) <=> x <= n * allowed(c, s)
  <1>1. Within(x, n, profile_cfg(c), budget_cap(c), s) <=>
          /\ x <= n * ByDeviation(c, s)
          /\ x <= n * ByLast(c, s)
          /\ budget_cap(c) # Unset => x <= n * budget_cap(c)
    BY WithinIsEach
  <1>2. budget_cap(c) \in Nat \union {Unset}
    BY Configured
  <1>3. CASE n = 1
    BY <1>1, <1>2, <1>3, AllowedIsLeast
  <1>4. CASE n = 3
    BY <1>1, <1>2, <1>4, AllowedIsLeast
  <1>5. QED
    BY <1>3, <1>4

(***************************************************************************)
(* verdict() is PASS if and only if every requirement of docs/gates.md is  *)
(* met.                                                                    *)
(***************************************************************************)
LEMMA VerdictIsSound ==
  ASSUME NEW c, CommandOK(c), NEW l, LineOK(l), NEW s, StatsOK(s)
  PROVE  /\ verdict(c, l, s) \in {"PASS", "FAIL"}
         /\ verdict(c, l, s) = "PASS" <=> Sound(c, l, s)
  <1> DEFINE Met ==
        /\ Mille * l.p99 <= allowed(c, s)
        /\ require_digest(c) /\ s.golden # "" => l.digest = s.golden
        /\ samples_gate(l)
        /\ l.p999_valid
        /\ l.p9999_valid
        /\ l.p999 > 0 => Mille * l.p999 <= 3 * allowed(c, s)
  <1>1. Mille * l.p99 \in Nat /\ Mille * l.p999 \in Nat /\ l.samples \in Nat
    BY DEF LineOK, Line, Mille
  <1>2. Within(Mille * l.p99, 1, profile_cfg(c), budget_cap(c), s)
          <=> Mille * l.p99 <= allowed(c, s)
    BY <1>1, WithinIsAllowed, AllowedIsLeast
  <1>3. Within(Mille * l.p999, 3, profile_cfg(c), budget_cap(c), s)
          <=> Mille * l.p999 <= 3 * allowed(c, s)
    BY <1>1, WithinIsAllowed
  <1>4. samples_gate(l) <=> Enough(l)
    BY <1>1 DEF samples_gate, Enough
  <1>5. verdict(c, l, s) = IF Met THEN "PASS" ELSE "FAIL"
    BY DEF verdict
  <1>6. Met <=> Sound(c, l, s)
    <2>1. ASSUME Met
          PROVE  Sound(c, l, s)
      BY <1>2, <1>3, <1>4, <2>1, Zenon DEF Sound
    <2>2. ASSUME Sound(c, l, s)
          PROVE  Met
      BY <1>2, <1>3, <1>4, <2>2, Zenon DEF Sound
    <2>3. QED
      BY <2>1, <2>2, Zenon
  <1> HIDE DEF Met
  <1>7. QED
    BY <1>5, <1>6
-----------------------------------------------------------------------------
(***************************************************************************)
(* A command whose gates all allow more, and that asks for a digest only   *)
(* if the other does, passes what the other passes.                        *)
(***************************************************************************)
LEMMA LaxerPasses ==
  ASSUME NEW c, CommandOK(c), NEW d, CommandOK(d), NEW l, LineOK(l), NEW s, StatsOK(s),
         \A g \in Gates : profile_cfg(c)[g] <= profile_cfg(d)[g],
         budget_cap(d) # Unset => budget_cap(c) # Unset /\ budget_cap(c) <= budget_cap(d),
         require_digest(d) => require_digest(c),
         verdict(c, l, s) = "PASS"
  PROVE  verdict(d, l, s) = "PASS"
  <1>1. /\ profile_cfg(c) \in [Gates -> Nat] /\ profile_cfg(d) \in [Gates -> Nat]
        /\ budget_cap(c) \in Nat \union {Unset} /\ budget_cap(d) \in Nat \union {Unset}
        /\ s.median \in Nat /\ s.mad \in Nat /\ Reference(s) \in Nat
    BY Configured, ReferenceIsNat DEF StatsOK
  <1>2. /\ profile_cfg(c).mad * s.mad <= profile_cfg(d).mad * s.mad
        /\ profile_cfg(c).p99 * Reference(s) <= profile_cfg(d).p99 * Reference(s)
    BY <1>1, ProductGrows DEF Gates
  <1>3. /\ profile_cfg(c).mad * s.mad \in Nat /\ profile_cfg(d).mad * s.mad \in Nat
        /\ profile_cfg(c).p99 * Reference(s) \in Nat
        /\ profile_cfg(d).p99 * Reference(s) \in Nat
    BY <1>1, ProductIsNat DEF Gates
  <1>4. profile_cfg(c).eps \in Nat /\ profile_cfg(d).eps \in Nat
        /\ profile_cfg(c).eps <= profile_cfg(d).eps
    BY <1>1 DEF Gates
  <1>5. ByDeviation(c, s) <= ByDeviation(d, s) /\ ByLast(c, s) <= ByLast(d, s)
    BY <1>1, <1>2, <1>3, <1>4 DEF ByDeviation, ByLast, Mille
  <1>6. allowed(c, s) \in Nat /\ allowed(d, s) \in Nat /\ allowed(c, s) <= allowed(d, s)
    BY <1>1, <1>5, AllowedIsLeast
  <1>7. Mille * l.p99 \in Nat /\ Mille * l.p999 \in Nat
    BY DEF LineOK, Line, Mille
  <1>8. /\ Mille * l.p99 <= allowed(c, s) => Mille * l.p99 <= allowed(d, s)
        /\ Mille * l.p999 <= 3 * allowed(c, s) => Mille * l.p999 <= 3 * allowed(d, s)
    BY <1>6, <1>7
  <1>9. /\ Mille * l.p99 <= allowed(c, s)
        /\ require_digest(c) /\ s.golden # "" => l.digest = s.golden
        /\ samples_gate(l)
        /\ l.p999_valid
        /\ l.p9999_valid
        /\ l.p999 > 0 => Mille * l.p999 <= 3 * allowed(c, s)
    BY DEF verdict
  <1>10. QED
    BY <1>8, <1>9 DEF verdict

(* The same command under another profile, which leaves the overrides.     *)
LEMMA Reprofiled ==
  ASSUME NEW c, CommandOK(c), NEW p \in Profiles
  PROVE  LET d == [c EXCEPT !.profile = p]
         IN  /\ CommandOK(d)
             /\ d.cli = c.cli /\ d.env = c.env /\ d.profile = p
             /\ d.require = c.require /\ d.force = c.force
             /\ budget_cap(d) = budget_cap(c)
  <1> DEFINE d == [c EXCEPT !.profile = p]
  <1>1. d \in AnyCommand /\ d.profile = p
    BY DEF CommandOK, AnyCommand
  <1>2. d.cli = c.cli /\ d.env = c.env /\ d.require = c.require /\ d.force = c.force
    BY DEF CommandOK, AnyCommand
  <1> HIDE DEF d
  <1>3. CommandOK(d)
    BY <1>1, <1>2 DEF CommandOK, env_float_ok
  <1>4. budget_cap(d) = budget_cap(c)
    BY <1>2 DEF budget_cap, resolve_float
  <1>5. QED
    BY <1>1, <1>2, <1>3, <1>4 DEF d

(* The same command with another budget. *)
LEMMA Rebudgeted ==
  ASSUME NEW c, CommandOK(c), NEW b \in Knob
  PROVE  LET d == [c EXCEPT !.cli["budget"] = b, !.env["budget"] = Unset]
         IN  /\ CommandOK(d)
             /\ budget_cap(d) = b
             /\ profile_cfg(d) = profile_cfg(c)
             /\ require_digest(d) = require_digest(c)
  <1> DEFINE d == [c EXCEPT !.cli["budget"] = b, !.env["budget"] = Unset]
  <1>1. /\ c.cli \in [Gates \union {"budget"} -> Knob]
        /\ c.env \in [Gates \union {"budget"} -> Knob \union {Garbage}]
    BY DEF CommandOK, AnyCommand
  <1>2. /\ d.cli = [c.cli EXCEPT !["budget"] = b]
        /\ d.env = [c.env EXCEPT !["budget"] = Unset]
        /\ d.profile = c.profile /\ d.require = c.require /\ d.force = c.force
    BY DEF CommandOK, AnyCommand
  <1>3. /\ d.cli \in [Gates \union {"budget"} -> Knob]
        /\ d.env \in [Gates \union {"budget"} -> Knob \union {Garbage}]
        /\ d.cli["budget"] = b /\ d.env["budget"] = Unset
        /\ \A g \in Gates : d.cli[g] = c.cli[g] /\ d.env[g] = c.env[g]
    BY <1>1, <1>2 DEF Gates, Knob
  <1>4. d \in AnyCommand
    BY <1>3 DEF CommandOK, AnyCommand
  <1> HIDE DEF d
  <1>5. env_float_ok(d)
    BY <1>3 DEF CommandOK, env_float_ok, Garbage, Unset
  <1>6. budget_cap(d) = b
    BY <1>3 DEF budget_cap, resolve_float
  <1>7. profile_cfg(d) = profile_cfg(c)
    BY <1>2, <1>3 DEF profile_cfg, resolve_float
  <1>8. require_digest(d) = require_digest(c)
    BY <1>2 DEF require_digest
  <1>9. QED
    BY <1>2, <1>4, <1>5, <1>6, <1>7, <1>8 DEF CommandOK, d

(* Each profile is at least as strict as the one Laxer names. *)
LEMMA ProfileOrder ==
  ASSUME NEW c, CommandOK(c), NEW p \in Profiles, NEW l, LineOK(l), NEW s, StatsOK(s),
         verdict([c EXCEPT !.profile = p], l, s) = "PASS"
  PROVE  verdict([c EXCEPT !.profile = Laxer[p]], l, s) = "PASS"
  <1> DEFINE a == [c EXCEPT !.profile = p]
             d == [c EXCEPT !.profile = Laxer[p]]
  <1>1. Laxer[p] \in Profiles
    BY Presets
  <1>2. /\ CommandOK(a) /\ CommandOK(d)
        /\ a.cli = c.cli /\ a.env = c.env /\ a.profile = p
        /\ d.cli = c.cli /\ d.env = c.env /\ d.profile = Laxer[p]
        /\ a.require = d.require /\ a.force = d.force
        /\ budget_cap(a) = budget_cap(d)
    BY <1>1, Reprofiled
  <1>3. verdict(a, l, s) = "PASS"
    OBVIOUS
  <1> HIDE DEF a, d
  <1>4. \A g \in Gates : profile_cfg(a)[g] <= profile_cfg(d)[g]
    <2> SUFFICES ASSUME NEW g \in Gates
                 PROVE  profile_cfg(a)[g] <= profile_cfg(d)[g]
      OBVIOUS
    <2>1. profile_cfg(a)[g] \in Nat /\ profile_cfg(d)[g] \in Nat
      BY <1>2, Configured
    <2>2. CASE c.cli[g] = Unset /\ c.env[g] = Unset
      BY <1>2, <2>2, Configured, Presets
    <2>3. CASE ~(c.cli[g] = Unset /\ c.env[g] = Unset)
      <3>1. profile_cfg(a)[g] = profile_cfg(d)[g]
        BY <1>2, <2>3, Configured
      <3>2. QED
        BY <2>1, <3>1
    <2>4. QED
      BY <2>2, <2>3
  <1>5. require_digest(d) => require_digest(a)
    <2>1. PROFILE_PRESETS[d.profile].digest => PROFILE_PRESETS[a.profile].digest
      BY <1>2, Presets
    <2>2. QED
      BY <1>2, <2>1, Zenon DEF require_digest
  <1>6. /\ budget_cap(a) \in Nat \union {Unset}
        /\ budget_cap(d) # Unset => budget_cap(a) # Unset /\ budget_cap(a) <= budget_cap(d)
    BY <1>2, Configured DEF Unset
  <1>7. verdict(d, l, s) = "PASS"
    BY <1>2, <1>3, <1>4, <1>5, <1>6, LaxerPasses
  <1>8. QED
    BY <1>7 DEF d
-----------------------------------------------------------------------------
(***************************************************************************)
(* Rounding to the nearest multiple of unit loses at most half a unit, and *)
(* the headroom of auto_tune_gate() is more than that.                     *)
(***************************************************************************)
LEMMA Division ==
  ASSUME NEW n \in Int, NEW k \in Nat \ {0}
  PROVE  n \div k \in Int /\ n < k * (n \div k) + k /\ k * (n \div k) <= n
  OBVIOUS

LEMMA RoundedLimit ==
  ASSUME NEW num \in Int
  PROVE  /\ round(num, 1, FourDecimals) \in Int
         /\ num <= round(num, 1, FourDecimals) + Half
         /\ round(num, 1, FourDecimals) - Half <= num
         /\ Half = 5000
  <1> DEFINE q == (2 * num + 1 * FourDecimals) \div (2 * 1 * FourDecimals)
  <1>1. FourDecimals = 10000 /\ Half = 5000
    BY DEF FourDecimals, Half, Mille
  <1>2. /\ 2 * 1 * FourDecimals \in Nat \ {0}
        /\ 2 * num + 1 * FourDecimals \in Int
    BY <1>1
  <1>3. /\ q \in Int
        /\ 2 * num + 1 * FourDecimals < (2 * 1 * FourDecimals) * q + 2 * 1 * FourDecimals
        /\ (2 * 1 * FourDecimals) * q <= 2 * num + 1 * FourDecimals
    BY <1>2, Division
  <1>4. round(num, 1, FourDecimals) = FourDecimals * q
    BY DEF round
  <1> HIDE DEF q
  <1>5. QED
    BY <1>1, <1>3, <1>4

(* A natural number is not rounded below zero. *)
LEMMA RoundedNat ==
  ASSUME NEW num \in Nat
  PROVE  round(num, 1, FourDecimals) \in Nat
  <1> DEFINE q == (2 * num + 1 * FourDecimals) \div (2 * 1 * FourDecimals)
  <1>1. FourDecimals = 10000
    BY DEF FourDecimals, Mille
  <1>2. q \in Nat
    BY <1>1
  <1>3. round(num, 1, FourDecimals) = FourDecimals * q
    BY DEF round
  <1> HIDE DEF q
  <1>4. QED
    BY <1>1, <1>2, <1>3

LEMMA RoundedMad ==
  ASSUME NEW num \in Int, NEW den \in Nat \ {0}
  PROVE  /\ round(num, den, 10) \in Int
         /\ num < round(num, den, 10) * den + 5 * den
  <1> DEFINE q == (2 * num + den * 10) \div (2 * den * 10)
  <1>1. 2 * den * 10 \in Nat \ {0} /\ 2 * num + den * 10 \in Int
    OBVIOUS
  <1>2. q \in Int /\ 2 * num + den * 10 < (2 * den * 10) * q + 2 * den * 10
    BY <1>1, Division
  <1>3. round(num, den, 10) = 10 * q
    BY DEF round
  <1> HIDE DEF q
  <1>4. QED
    BY <1>2, <1>3

LEMMA RoundedLast ==
  ASSUME NEW num \in Int, NEW den \in Nat \ {0}
  PROVE  /\ round(num, den, 1) \in Int
         /\ 2 * num < 2 * (round(num, den, 1) * den) + den
  <1> DEFINE q == (2 * num + den * 1) \div (2 * den * 1)
  <1>1. 2 * den * 1 \in Nat \ {0} /\ 2 * num + den * 1 \in Int
    OBVIOUS
  <1>2. q \in Int /\ 2 * num + den * 1 < (2 * den * 1) * q + 2 * den * 1
    BY <1>1, Division
  <1>3. round(num, den, 1) = 1 * q
    BY DEF round
  <1> HIDE DEF q
  <1>4. QED
    BY <1>2, <1>3

LEMMA AtLeastOne ==
  ASSUME NEW x \in Int
  PROVE  Max({Mille, x}) \in Nat /\ Max({Mille, x}) >= x
  <1>1. \E m \in {Mille, x} : \A y \in {Mille, x} : m >= y
    <2>1. Mille >= x \/ x >= Mille
      BY DEF Mille
    <2>2. QED
      BY <2>1 DEF Mille
  <1>2. Max({Mille, x}) \in {Mille, x} /\ \A y \in {Mille, x} : Max({Mille, x}) >= y
    BY <1>1 DEF Max
  <1>3. QED
    BY <1>2 DEF Mille

(* What --auto-tune suggests for a baseline without zeros, and that each   *)
(* suggestion alone leaves room for a measurement that is not tiny.        *)
LEMMA Suggested ==
  ASSUME NEW l, LineOK(l), l.p99 >= Microsecond,
         NEW s, StatsOK(s), s.median > 0, s.mad > 0, s.last > 0
  PROVE  LET t == auto_tune_gate(l, s)
         IN  /\ t.budget \in Nat /\ t.mad \in Nat /\ t.p99 \in Nat
             /\ Mille * l.p99 <= t.budget
             /\ Mille * l.p99 <= Mille * s.median + t.mad * s.mad
             /\ Mille * l.p99 <= t.p99 * s.last
  <1> DEFINE t == auto_tune_gate(l, s)
             up == Mille * (l.p99 - s.median) + 500 * s.mad
             over == Mille * l.p99 + 20 * s.last
  <1>1. /\ l.p99 \in Nat /\ s.median \in Nat /\ s.mad \in Nat \ {0}
        /\ s.last \in Nat \ {0}
    BY DEF LineOK, StatsOK, Stats
  <1>2. or(s.median, l.p99) = s.median /\ or(s.last, or(s.median, l.p99)) = s.last
    BY DEF or
  <1>3. /\ t.budget = round(1050 * l.p99, 1, FourDecimals)
        /\ t.mad = Max({Mille, round(up, s.mad, 10)})
        /\ t.p99 = Max({Mille, round(over, s.last, 1)})
    BY <1>1, <1>2 DEF auto_tune_gate
  <1> HIDE DEF t
  <1>4. up \in Int /\ over \in Int
    BY <1>1 DEF Mille
  <1>5. /\ round(up, s.mad, 10) \in Int
        /\ up < round(up, s.mad, 10) * s.mad + 5 * s.mad
    BY <1>1, <1>4, RoundedMad
  <1>6. /\ round(over, s.last, 1) \in Int
        /\ 2 * over < 2 * (round(over, s.last, 1) * s.last) + s.last
    BY <1>1, <1>4, RoundedLast
  <1>7. /\ t.mad \in Nat /\ t.mad >= round(up, s.mad, 10)
        /\ t.p99 \in Nat /\ t.p99 >= round(over, s.last, 1)
    BY <1>3, <1>5, <1>6, AtLeastOne
  <1>8. /\ t.mad * s.mad >= round(up, s.mad, 10) * s.mad
        /\ t.p99 * s.last >= round(over, s.last, 1) * s.last
    BY <1>1, <1>5, <1>6, <1>7, MultipleGrows
  <1>9. /\ t.mad * s.mad \in Int /\ round(up, s.mad, 10) * s.mad \in Int
        /\ t.p99 * s.last \in Int /\ round(over, s.last, 1) * s.last \in Int
    BY <1>1, <1>5, <1>6, <1>7
  <1>10. Mille * l.p99 <= Mille * s.median + t.mad * s.mad
    BY <1>1, <1>5, <1>8, <1>9 DEF Mille
  <1>11. Mille * l.p99 <= t.p99 * s.last
    BY <1>1, <1>6, <1>8, <1>9 DEF Mille
  <1>12. t.budget \in Nat /\ Mille * l.p99 <= t.budget
    <2>1. 1050 * l.p99 \in Nat
      BY <1>1
    <2>2. t.budget \in Nat /\ 1050 * l.p99 <= t.budget + 5000
      BY <1>3, <2>1, RoundedLimit, RoundedNat
    <2>3. QED
      BY <1>1, <2>2 DEF Mille, Microsecond
  <1>13. QED
    BY <1>7, <1>10, <1>11, <1>12 DEF t

LEMMA TunedAllows ==
  ASSUME NEW c, CommandOK(c), NEW l, LineOK(l), l.p99 >= Microsecond,
         NEW s, StatsOK(s), s.median > 0, s.mad > 0, s.last > 0
  PROVE  Mille * l.p99 <= allowed(Retuned(c, auto_tune_gate(l, s)), s)
  <1> DEFINE t == auto_tune_gate(l, s)
             d == Retuned(c, t)
  <1>1. /\ t.budget \in Nat /\ t.mad \in Nat /\ t.p99 \in Nat
        /\ Mille * l.p99 <= t.budget
        /\ Mille * l.p99 <= Mille * s.median + t.mad * s.mad
        /\ Mille * l.p99 <= t.p99 * s.last
    BY Suggested
  <1> HIDE DEF t
  <1>2. c.cli \in [Gates \union {"budget"} -> Knob]
    BY DEF CommandOK, AnyCommand
  <1>3. /\ d.cli = [c.cli EXCEPT !["budget"] = t.budget, !["mad"] = t.mad, !["p99"] = t.p99]
        /\ d.env = c.env /\ d.profile = c.profile
    BY DEF CommandOK, AnyCommand, Retuned
  <1>4. /\ d.cli \in [Gates \union {"budget"} -> Knob]
        /\ d.cli["budget"] = t.budget /\ d.cli["mad"] = t.mad /\ d.cli["p99"] = t.p99
        /\ d.cli["eps"] = c.cli["eps"]
    BY <1>1, <1>2, <1>3 DEF Gates, Knob
  <1>5. d \in AnyCommand
    BY <1>4 DEF CommandOK, AnyCommand, Retuned
  <1> HIDE DEF d
  <1>6. CommandOK(d)
    <2>1. \A g \in Gates \union {"budget"} : d.cli[g] = Unset => d.env[g] # Garbage
      BY <1>1, <1>3, <1>4 DEF CommandOK, env_float_ok, Gates, Unset
    <2>2. QED
      BY <1>3, <1>5, <2>1 DEF CommandOK, env_float_ok
  <1>7. /\ profile_cfg(d).mad = t.mad
        /\ profile_cfg(d).p99 = t.p99
        /\ profile_cfg(d).eps \in Nat
        /\ budget_cap(d) = t.budget
    <2>1. profile_cfg(d).mad = t.mad /\ profile_cfg(d).p99 = t.p99
      BY <1>1, <1>4 DEF profile_cfg, resolve_float, Gates, Unset
    <2>2. profile_cfg(d).eps \in Nat
      BY <1>6, Configured DEF Gates
    <2>3. budget_cap(d) = t.budget
      BY <1>1, <1>4 DEF budget_cap, resolve_float, Unset
    <2>4. QED
      BY <2>1, <2>2, <2>3
  <1>8. /\ Reference(s) = s.last /\ s.last \in Nat /\ s.median \in Nat /\ s.mad \in Nat
        /\ l.p99 \in Nat
    BY ReferenceIsNat DEF StatsOK, Stats, LineOK
  <1>9. t.mad * s.mad \in Nat /\ t.p99 * s.last \in Nat
    BY <1>1, <1>8, ProductIsNat
  <1>10. Mille * l.p99 <= ByDeviation(d, s) /\ Mille * l.p99 <= ByLast(d, s)
    BY <1>1, <1>7, <1>8, <1>9 DEF ByDeviation, ByLast, Mille
  <1>11. Mille * l.p99 <= allowed(d, s)
    BY <1>1, <1>6, <1>7, <1>10, AllowedIsLeast
  <1>12. QED
    BY <1>11 DEF d, t
-----------------------------------------------------------------------------
(***************************************************************************)
(* The inductive invariant.  Its parts follow the reading: the command is  *)
(* valid once it has been let in, the line is whole once it was parsed,    *)
(* and a baseline is only there beside both.  A zero and a bundle go back  *)
(* to one decision.                                                        *)
(***************************************************************************)
TypeInv == /\ line \in Lines
           /\ base \in Baselines
           /\ cmd \in Commands
           /\ pc \in {"idle", "bench", "prom", "base", "export"}

Progress == /\ pc # "idle" => CommandOK(cmd) /\ code = Running
            /\ pc \in {"prom", "base", "export"} => LineOK(read)
            /\ pc = "export" => stats # NoStats

Decided == stats # NoStats => CommandOK(cmd) /\ LineOK(read) /\ StatsOK(stats)

Zero == code = 0 => /\ stats # NoStats
                    /\ verdict(cmd, read, stats) = "PASS"
                    /\ Exporting(cmd) => bundle = Bundle(cmd, read, stats)

DecidedBy(c) == /\ CommandOK(c) /\ LineOK(bundle.bench) /\ StatsOK(bundle.base)
                /\ bundle = Bundle(c, bundle.bench, bundle.base)

OneDecision == Written => \E c \in Commands : DecidedBy(c)

IInv == TypeInv /\ Progress /\ Decided /\ Zero /\ OneDecision

(* What a valid start and a whole line or baseline are. *)
LEMMA LetIn ==
  ASSUME NEW c \in Commands, c.profile \in Profiles, env_float_ok(c)
  PROVE  CommandOK(c)
  <1>1. c \in Command
    BY VerifyAssumption
  <1>2. c \in AnyCommand
    BY <1>1 DEF Command, AnyCommand
  <1>3. QED
    BY <1>2 DEF CommandOK

LEMMA WholeLine ==
  ASSUME NEW l \in Lines, Unset \notin {l.p99, l.samples}
  PROVE  LineOK(l)
  <1>1. l \in Line
    BY VerifyAssumption
  <1>2. QED
    BY <1>1 DEF LineOK, Line, Knob

LEMMA WholeBaseline ==
  ASSUME NEW c, NEW b \in Baselines, load_baseline_ok(c, b)
  PROVE  StatsOK(baseline_of(c, b)) /\ baseline_of(c, b) # NoStats
  <1>1. baseline_of(c, b) \in Stats
    BY VerifyAssumption DEF baseline_of
  <1>2. baseline_of(c, b).median # Unset /\ baseline_of(c, b).mad # Unset
    BY DEF load_baseline_ok
  <1>3. QED
    <2>1. StatsOK(baseline_of(c, b))
      BY <1>1, <1>2 DEF StatsOK, Stats, Knob
    <2>2. NoStats.median = Unset
      BY DEF NoStats
    <2>3. QED
      BY <1>2, <2>1, <2>2

(* The bundle of a decision tells that decision. *)
LEMMA BundleTells ==
  ASSUME NEW c, CommandOK(c), NEW l, LineOK(l), NEW s, StatsOK(s)
  PROVE  LET b == Bundle(c, l, s)
         IN  /\ b.bench = l /\ b.base = s /\ b.profile = c.profile
             /\ b.gates = profile_cfg(c)
             /\ b.allowed = round(allowed(c, s), 1, FourDecimals)
             /\ b.status = verdict(c, l, s)
             /\ b.status \in {"PASS", "FAIL"}
             /\ \A i \in DOMAIN b.auto_tune : b.auto_tune[i] = auto_tune_gate(l, s)
  <1> DEFINE b == Bundle(c, l, s)
  <1>1. /\ b.bench = l /\ b.base = s /\ b.profile = c.profile
        /\ b.gates = profile_cfg(c)
        /\ b.allowed = round(allowed(c, s), 1, FourDecimals)
        /\ b.status = verdict(c, l, s)
        /\ b.auto_tune = IF c.tune THEN <<auto_tune_gate(l, s)>> ELSE <<>>
    BY DEF Bundle
  <1>2. b.status \in {"PASS", "FAIL"}
    BY <1>1, VerdictIsSound
  <1>3. \A i \in DOMAIN b.auto_tune : b.auto_tune[i] = auto_tune_gate(l, s)
    BY <1>1
  <1>4. QED
    BY <1>1, <1>2, <1>3

(***************************************************************************)
(* Its status is justified by what else it tells: the allowance is known   *)
(* to half of what it was rounded to, the digest from the profile.         *)
(***************************************************************************)
LEMMA BundleJustified ==
  ASSUME NEW c, CommandOK(c), NEW l, LineOK(l), NEW s, StatsOK(s),
         NEW b, b = Bundle(c, l, s)
  PROVE  /\ b.status = "PASS" => /\ Shown(b, Half)
                                 /\ b.profile = "strict" => DigestShown(b)
         /\ b.status = "FAIL" => ~(Shown(b, -Half) /\ DigestShown(b))
         /\ Within(b.allowed - Half, 1, b.gates, Unset, b.base)
  <1>1. /\ b.bench = l /\ b.base = s /\ b.profile = c.profile
        /\ b.gates = profile_cfg(c)
        /\ b.status = verdict(c, l, s)
    BY BundleTells
  <1> DEFINE a == allowed(c, s)
  <1>2. a \in Nat
    BY AllowedIsLeast
  <1>3. /\ b.allowed \in Int /\ Half \in Nat
        /\ a <= b.allowed + Half /\ b.allowed - Half <= a
    BY <1>2, BundleTells, RoundedLimit
  <1> HIDE DEF a
  <1>4. Mille * l.p99 \in Nat /\ Mille * l.p999 \in Nat /\ l.samples \in Nat
    BY DEF LineOK, Line, Mille
  <1>5. samples_gate(l) <=> Enough(l)
    BY <1>4 DEF samples_gate, Enough
  <1>6. /\ Mille * l.p99 <= a => Mille * l.p99 <= b.allowed + Half
        /\ Mille * l.p999 <= 3 * a => Mille * l.p999 <= 3 * (b.allowed + Half)
        /\ Mille * l.p99 <= b.allowed + (-Half) => Mille * l.p99 <= a
        /\ Mille * l.p999 <= 3 * (b.allowed + (-Half)) => Mille * l.p999 <= 3 * a
    BY <1>2, <1>3, <1>4
  <1>7. ASSUME b.status = "PASS"
        PROVE  Shown(b, Half) /\ (b.profile = "strict" => DigestShown(b))
    <2>1. /\ Mille * l.p99 <= a
          /\ require_digest(c) /\ s.golden # "" => l.digest = s.golden
          /\ samples_gate(l) /\ l.p999_valid /\ l.p9999_valid
          /\ l.p999 > 0 => Mille * l.p999 <= 3 * a
      BY <1>1, <1>7 DEF verdict, a
    <2>2. c.profile = "strict" => require_digest(c)
      BY DEF require_digest, PROFILE_PRESETS
    <2>3. Shown(b, Half)
      BY <1>1, <1>5, <1>6, <2>1 DEF Shown
    <2>4. QED
      BY <1>1, <2>1, <2>2, <2>3 DEF DigestShown
  <1>8. ASSUME Shown(b, -Half), DigestShown(b)
        PROVE  b.status = "PASS"
    <2>1. /\ Mille * l.p99 <= a
          /\ samples_gate(l) /\ l.p999_valid /\ l.p9999_valid
          /\ l.p999 > 0 => Mille * l.p999 <= 3 * a
      BY <1>1, <1>5, <1>6, <1>8 DEF Shown
    <2>2. s.golden # "" => l.digest = s.golden
      BY <1>1, <1>8 DEF DigestShown
    <2>3. QED
      BY <1>1, <2>1, <2>2 DEF verdict, a
  <1>9. Within(b.allowed - Half, 1, b.gates, Unset, b.base)
    <2>1. /\ ByDeviation(c, s) \in Nat /\ ByLast(c, s) \in Nat
          /\ a <= ByDeviation(c, s) /\ a <= ByLast(c, s)
      BY AllowedIsLeast DEF a
    <2>2. b.allowed - Half <= 1 * ByDeviation(c, s) /\ b.allowed - Half <= 1 * ByLast(c, s)
      BY <1>2, <1>3, <2>1
    <2>3. QED
      BY <1>1, <2>2, WithinIsEach
  <1>10. QED
    BY <1>7, <1>8, <1>9

LEMMA InitIInv == Init => IInv
  <1> SUFFICES ASSUME Init
               PROVE  IInv
    OBVIOUS
  <1>1. TypeInv /\ Progress /\ Decided
    BY DEF Init, TypeInv, Progress, Decided
  <1>2. Zero /\ OneDecision
    BY DEF Init, Zero, OneDecision, Written, Running, NoBundle
  <1>3. QED
    BY <1>1, <1>2 DEF IInv

(* A bundle that stays goes back to the same decision. *)
LEMMA SameBundle ==
  ASSUME OneDecision, bundle' = bundle
  PROVE  OneDecision'
  BY DEF OneDecision, Written, DecidedBy

LEMMA NextIInv == IInv /\ [Next]_vars => IInv'
  <1> SUFFICES ASSUME IInv, [Next]_vars
               PROVE  IInv'
    OBVIOUS
  <1> USE DEF IInv
  <1>1. CASE start
    <2>1. cmd' \in Commands
      BY <1>1 DEF start, TypeInv
    <2>2. code' # 0 /\ stats' = NoStats /\ read' = NoLine /\ UNCHANGED <<line, base, bundle>>
      BY <1>1 DEF start, Exit, Running, files
    <2>3. \/ pc' = "idle"
          \/ pc' = "bench" /\ CommandOK(cmd') /\ code' = Running
      BY <1>1, <2>1, LetIn DEF start, Exit
    <2>4. TypeInv' /\ Progress' /\ Decided' /\ Zero'
      BY <2>1, <2>2, <2>3 DEF TypeInv, Progress, Decided, Zero
    <2>5. OneDecision'
      BY <2>2, SameBundle
    <2>6. QED
      BY <2>4, <2>5
  <1>2. CASE parse_bench
    <2>1. \/ pc' = "idle" /\ code' = 1 /\ read' = read
          \/ pc' = "prom" /\ LineOK(read') /\ code' = code
      BY <1>2, WholeLine DEF parse_bench, Exit, TypeInv
    <2>2. UNCHANGED <<line, base, cmd, stats, bundle>> /\ pc = "bench"
      BY <1>2 DEF parse_bench, files
    <2>3. TypeInv' /\ Progress' /\ Decided' /\ OneDecision'
      BY <2>1, <2>2, SameBundle DEF TypeInv, Progress, Decided
    <2>4. Zero'
      BY <2>1, <2>2 DEF Zero, Progress, Running
    <2>5. QED
      BY <2>3, <2>4
  <1>3. CASE parse_prom_metrics
    <2>1. \/ pc' = "idle" /\ code' = 1
          \/ pc' = "base" /\ code' = code
      BY <1>3 DEF parse_prom_metrics, Exit
    <2>2. UNCHANGED <<line, base, cmd, read, stats, bundle>> /\ pc = "prom"
      BY <1>3 DEF parse_prom_metrics, files
    <2>3. TypeInv' /\ Progress' /\ Decided' /\ OneDecision'
      BY <2>1, <2>2, SameBundle DEF TypeInv, Progress, Decided
    <2>4. Zero'
      BY <2>1, <2>2 DEF Zero
    <2>5. QED
      BY <2>3, <2>4
  <1>4. CASE load_baseline
    <2>1. UNCHANGED <<line, base, cmd, read, bundle>> /\ pc = "base"
      BY <1>4 DEF load_baseline, files
    <2>2. CASE stats' = stats /\ pc' = "idle" /\ code' = 1
      BY <2>1, <2>2, SameBundle DEF TypeInv, Progress, Decided, Zero
    <2>3. CASE /\ load_baseline_ok(cmd, base)
               /\ stats' = baseline_of(cmd, base)
               /\ IF Exporting(cmd)
                  THEN pc' = "export" /\ UNCHANGED code
                  ELSE Exit(Returned(verdict(cmd, read, stats')))
      <3>1. CommandOK(cmd) /\ LineOK(read) /\ StatsOK(stats') /\ stats' # NoStats
        BY <2>1, <2>3, WholeBaseline DEF Progress, TypeInv
      <3>2. TypeInv' /\ Progress' /\ Decided' /\ OneDecision'
        BY <2>1, <2>3, <3>1, SameBundle DEF TypeInv, Progress, Decided, Exit
      <3>3. ASSUME code' = 0
            PROVE  ~Exporting(cmd) /\ verdict(cmd, read, stats') = "PASS"
        BY <2>1, <2>3, <3>3 DEF Exit, Returned, Progress, Running
      <3>4. QED
        BY <2>1, <3>1, <3>2, <3>3 DEF Zero
    <2>4. QED
      BY <1>4, <2>2, <2>3 DEF load_baseline, Exit
  <1>5. CASE export_metrics_bundle
    <2>1. UNCHANGED <<line, base, cmd, read, stats>> /\ pc = "export" /\ pc' = "idle"
      BY <1>5 DEF export_metrics_bundle, Exit, files
    <2>2. CommandOK(cmd) /\ LineOK(read) /\ StatsOK(stats) /\ stats # NoStats
      BY <2>1 DEF Progress, Decided
    <2>3. TypeInv' /\ Progress' /\ Decided'
      BY <2>1, <2>2 DEF TypeInv, Progress, Decided
    <2>4. CASE bundle' = Bundle(cmd, read, stats) /\ code' = Returned(bundle'.status)
      <3>1. /\ bundle'.bench = read /\ bundle'.base = stats
            /\ bundle'.status = verdict(cmd, read, stats)
        BY <2>2, <2>4, BundleTells
      <3>2. OneDecision'
        <4>1. cmd \in Commands
          BY DEF TypeInv
        <4>2. DecidedBy(cmd)'
          BY <2>1, <2>2, <2>4, <3>1 DEF DecidedBy
        <4>3. QED
          BY <2>1, <4>1, <4>2 DEF OneDecision
      <3>3. code' = 0 => verdict(cmd, read, stats) = "PASS"
        BY <2>4, <3>1 DEF Returned
      <3>4. Zero'
        BY <2>1, <2>2, <2>4, <3>3 DEF Zero
      <3>5. QED
        BY <2>3, <3>2, <3>4
    <2>5. CASE bundle' \in {bundle, Torn} /\ code' = 1
      <3>1. Zero'
        BY <2>5 DEF Zero
      <3>2. OneDecision'
        <4>1. CASE bundle' = bundle
          BY <4>1, SameBundle
        <4>2. CASE bundle' = Torn
          BY <4>2 DEF OneDecision, Written, Torn
        <4>3. QED
          BY <2>5, <4>1, <4>2
      <3>3. QED
        BY <2>3, <3>1, <3>2
    <2>6. QED
      BY <1>5, <2>4, <2>5 DEF export_metrics_bundle, Exit
  <1>6. CASE rewrite
    <2>1. /\ line' \in Lines /\ base' \in Baselines
          /\ UNCHANGED <<cmd, pc, read, stats, bundle, code>>
      BY <1>6 DEF rewrite, TypeInv
    <2>2. TypeInv' /\ Progress' /\ Decided' /\ OneDecision'
      BY <2>1, SameBundle DEF TypeInv, Progress, Decided
    <2>3. Zero'
      BY <2>1 DEF Zero
    <2>4. QED
      BY <2>2, <2>3
  <1>7. CASE UNCHANGED vars
    <2>1. TypeInv' /\ Progress' /\ Decided' /\ OneDecision'
      BY <1>7, SameBundle DEF vars, TypeInv, Progress, Decided
    <2>2. Zero'
      BY <1>7 DEF vars, Zero
    <2>3. QED
      BY <2>1, <2>2
  <1>8. QED
    BY <1>1, <1>2, <1>3, <1>4, <1>5, <1>6, <1>7 DEF Next, Done

(* The inductive invariant holds in every reachable state. *)
THEOREM Invariance == Spec => []IInv
  BY InitIInv, NextIInv, PTL DEF Spec

(***************************************************************************)
(* Exit code 0 is earned: all three files were read and satisfy every      *)
(* requirement, and the bundle that was asked for says so.                 *)
(***************************************************************************)
THEOREM ZeroEarned == Spec => []ZeroIsEarned
  <1>1. IInv => ZeroIsEarned
    <2> SUFFICES ASSUME IInv, code = 0
                 PROVE  /\ read # NoLine /\ stats # NoStats
                        /\ Sound(cmd, read, stats)
                        /\ Exporting(cmd) => /\ bundle = Bundle(cmd, read, stats)
                                             /\ bundle.status = "PASS"
      BY DEF ZeroIsEarned
    <2>1. /\ CommandOK(cmd) /\ LineOK(read) /\ StatsOK(stats) /\ stats # NoStats
          /\ verdict(cmd, read, stats) = "PASS"
          /\ Exporting(cmd) => bundle = Bundle(cmd, read, stats)
      BY DEF IInv, Decided, Zero
    <2>2. read # NoLine
      <3>1. NoLine.p99 = Unset /\ Unset \notin Nat
        BY DEF NoLine, Unset
      <3>2. QED
        BY <2>1, <3>1 DEF LineOK
    <2>3. Sound(cmd, read, stats)
      BY <2>1, VerdictIsSound
    <2>4. Exporting(cmd) => bundle.status = "PASS"
      BY <2>1, BundleTells
    <2>5. QED
      BY <2>1, <2>2, <2>3, <2>4
  <1>2. QED
    BY <1>1, Invariance, PTL

(***************************************************************************)
(* The status of a bundle is one that what is written beside it justifies, *)
(* however old it is and whatever was rewritten meanwhile: to within the   *)
(* rounding of the allowance, and with the digest under the strict profile.*)
(***************************************************************************)
THEOREM BundleConsistent == Spec => []BundleIsOneVerdict
  <1>1. IInv => BundleIsOneVerdict
    <2> SUFFICES ASSUME IInv, Written
                 PROVE  /\ bundle.status = "PASS" =>
                             /\ Shown(bundle, Half)
                             /\ bundle.profile = "strict" => DigestShown(bundle)
                        /\ bundle.status = "FAIL" =>
                             ~(Shown(bundle, -Half) /\ DigestShown(bundle))
                        /\ Within(bundle.allowed - Half, 1, bundle.gates, Unset,
                                  bundle.base)
      BY DEF BundleIsOneVerdict
    <2>1. PICK c \in Commands : DecidedBy(c)
      BY DEF IInv, OneDecision
    <2>2. QED
      BY <2>1, BundleJustified DEF DecidedBy
  <1>2. QED
    BY <1>1, Invariance, PTL

(***************************************************************************)
(* A stricter profile or a lower budget never passes what a laxer one      *)
(* refuses, whatever is overridden on the command line or by variables.    *)
(***************************************************************************)
THEOREM StricterIsStricter == Spec => []StricterNeverPasses
  <1>1. IInv => StricterNeverPasses
    <2> SUFFICES ASSUME IInv, stats # NoStats
                 PROVE  /\ \A p \in Profiles : Passes(With(p)) => Passes(With(Laxer[p]))
                        /\ Passes(cmd) => Passes(Budget(Unset))
                        /\ \A b \in {budget_cap(cmd) - 1} \cap Nat :
                             Passes(Budget(b)) => Passes(cmd)
      BY DEF StricterNeverPasses
    <2>1. CommandOK(cmd) /\ LineOK(read) /\ StatsOK(stats)
      BY DEF IInv, Decided
    <2>2. \A p \in Profiles : Passes(With(p)) => Passes(With(Laxer[p]))
      BY <2>1, ProfileOrder DEF Passes, With
    <2>3. budget_cap(cmd) \in Nat \union {Unset} /\ profile_cfg(cmd) \in [Gates -> Nat]
      BY <2>1, Configured
    <2>4. ASSUME NEW b \in Knob
          PROVE  /\ CommandOK(Budget(b))
                 /\ budget_cap(Budget(b)) = b
                 /\ profile_cfg(Budget(b)) = profile_cfg(cmd)
                 /\ require_digest(Budget(b)) = require_digest(cmd)
      BY <2>1, Rebudgeted DEF Budget
    <2>5. Passes(cmd) => Passes(Budget(Unset))
      <3>1. Unset \in Knob
        BY DEF Knob
      <3>2. \A g \in Gates : profile_cfg(cmd)[g] <= profile_cfg(Budget(Unset))[g]
        BY <2>3, <2>4, <3>1
      <3>3. QED
        BY <2>1, <2>4, <3>1, <3>2, LaxerPasses DEF Passes
    <2>6. ASSUME NEW b \in {budget_cap(cmd) - 1} \cap Nat, Passes(Budget(b))
          PROVE  Passes(cmd)
      <3>1. b \in Knob /\ b # Unset /\ b <= budget_cap(cmd)
        BY <2>3, <2>6 DEF Knob, Unset
      <3>2. \A g \in Gates : profile_cfg(Budget(b))[g] <= profile_cfg(cmd)[g]
        BY <2>3, <2>4, <3>1
      <3>3. QED
        BY <2>1, <2>4, <2>6, <3>1, <3>2, LaxerPasses DEF Passes
    <2>7. QED
      BY <2>2, <2>5, <2>6
  <1>2. QED
    BY <1>1, Invariance, PTL

(***************************************************************************)
(* The suggestions of --auto-tune allow a measurement of a microsecond or  *)
(* more that they were made from, under any valid command line, if the     *)
(* baseline holds no zero.                                                 *)
(***************************************************************************)
THEOREM SuggestionsCover == Spec => []TuneCovers
  <1>1. IInv => TuneCovers
    <2> SUFFICES ASSUME IInv, Written, bundle.base.median > 0, bundle.base.mad > 0,
                        bundle.base.last > 0, bundle.bench.p99 >= Microsecond,
                        NEW i \in DOMAIN bundle.auto_tune,
                        NEW c \in Commands, c.profile \in Profiles, env_float_ok(c)
                 PROVE  Mille * bundle.bench.p99
                          <= allowed(Retuned(c, bundle.auto_tune[i]), bundle.base)
      BY DEF TuneCovers, Covers
    <2>1. PICK d \in Commands : DecidedBy(d)
      BY DEF IInv, OneDecision
    <2>2. /\ LineOK(bundle.bench) /\ StatsOK(bundle.base)
          /\ bundle.auto_tune[i] = auto_tune_gate(bundle.bench, bundle.base)
      BY <2>1, BundleTells DEF DecidedBy
    <2>3. CommandOK(c)
      BY LetIn
    <2>4. QED
      BY <2>2, <2>3, TunedAllows
  <1>2. QED
    BY <1>1, Invariance, PTL
=============================================================================
