---------------------------- MODULE VerifyBench ----------------------------
(***************************************************************************)
(* The release gate: scripts/verify_bench.py, invoked again and again by   *)
(* CI or an engineer over evidence that a bench and a golden calibration   *)
(* may rewrite meanwhile.  It reads the first line of bench.jsonl, then    *)
(* metrics.prom, then the baseline, decides, and may export a bundle.      *)
(*                                                                         *)
(* Times are in ticks of 0.00001 ms (10 ns: a replay measures fractions of *)
(* a microsecond), multipliers in thousandths, and limits, being a product *)
(* of both, in thousandths of a tick.  The tolerance of 1e-9 that the code *)
(* adds for rounded doubles is zero here, and a tie is rounded up.         *)
(***************************************************************************)
EXTENDS Integers, Sequences, FiniteSetsExt

CONSTANTS Lines,        \* what the first line of bench.jsonl may hold
          Baselines,    \* what the baseline file may hold
          Commands,     \* command lines, each with its environment
          Rewrites,     \* bound: how often a file is rewritten
          Invocations   \* bound: how often the gate is run

Unset   == -1   \* an option, variable or key that is not there
Garbage == -2   \* a variable that does not parse as a number
Mille   == 1000

(* The code rounds what it writes of a limit to multiples of 0.0001 ms.    *)
FourDecimals == 10 * Mille
Half         == FourDecimals \div 2

Gates    == {"mad", "p99", "eps"}
Profiles == {"strict", "standard", "lenient"}

Knob  == Nat \union {Unset}
Stats == [median : Knob, mad : Knob, last : Nat, p99 : Nat, golden : STRING]
NoStats == [median |-> Unset, mad |-> Unset, last |-> 0, p99 |-> 0, golden |-> ""]

NoLine == [p99 |-> Unset, p999 |-> 0, samples |-> Unset, p999_valid |-> FALSE,
           p9999_valid |-> FALSE, digest |-> ""]
Line == [p99 : Knob, p999 : Nat, samples : Knob, p999_valid : BOOLEAN,
         p9999_valid : BOOLEAN, digest : STRING]

Command == [words : SUBSET STRING, profile : STRING, runner : STRING,
            cli : [Gates \union {"budget"} -> Knob],
            env : [Gates \union {"budget"} -> Knob \union {Garbage}],
            require : BOOLEAN, force : BOOLEAN, export : BOOLEAN,
            tune : BOOLEAN]

ASSUME VerifyAssumption ==
  /\ Lines \subseteq Line
  /\ \A b \in Baselines : /\ b.defaults \in Stats
                          /\ \A r \in DOMAIN b.runners : b.runners[r] \in Stats
  /\ Commands \subseteq Command
  /\ Rewrites \in Nat
  /\ Invocations \in Nat
-----------------------------------------------------------------------------
(* Variant: a slip in one multiplier. *)
PROFILE_PRESETS_slip ==
  [strict   |-> [mad |-> 2000, p99 |-> 1050, eps |-> 3000, digest |-> TRUE],
   standard |-> [mad |-> 3000, p99 |-> 1100, eps |-> 5000, digest |-> FALSE],
   lenient  |-> [mad |-> 4000, p99 |-> 1002, eps |-> 7000, digest |-> FALSE]]

PROFILE_PRESETS ==
  [strict   |-> [mad |-> 2000, p99 |-> 1050, eps |-> 3000, digest |-> TRUE],
   standard |-> [mad |-> 3000, p99 |-> 1100, eps |-> 5000, digest |-> FALSE],
   lenient  |-> [mad |-> 4000, p99 |-> 1200, eps |-> 7000, digest |-> FALSE]]

(* argparse takes a word for the option it begins, if there is only one.   *)
OptionsMatching == [bench   |-> {"--bench-file"},
                    metrics |-> {"--metrics-file", "--metrics-export-path"}]

parse_args_ok(c) == \A w \in c.words : \E o \in OptionsMatching[w] :
                      OptionsMatching[w] = {o}

(* The command line wins over the environment, and that over the profile;  *)
(* the environment is not even parsed when it loses.                       *)
resolve_float(c, g, fallback) == IF c.cli[g] # Unset THEN c.cli[g]
                            ELSE IF c.env[g] # Unset THEN c.env[g]
                            ELSE fallback

env_float_ok(c) == \A g \in Gates \union {"budget"} :
                     c.cli[g] = Unset => c.env[g] # Garbage

profile_cfg(c) == [g \in Gates |->
                     resolve_float(c, g, PROFILE_PRESETS[c.profile][g])]

budget_cap(c) == resolve_float(c, "budget", Unset)

(* The runner's own entry, or the defaults: also for an unknown runner.    *)
baseline_of(c, b) == IF c.runner \in DOMAIN b.runners THEN b.runners[c.runner]
                                                      ELSE b.defaults

(* No entry and no defaults, or an entry without a required key. *)
load_baseline_ok(c, b) == LET s == baseline_of(c, b)
                          IN  s.median # Unset /\ s.mad # Unset

(* Python's `or`: a zero counts as absent. *)
or(x, y) == IF x > 0 THEN x ELSE y

compute_allowed(s, cfg, cap) ==
  LET last == or(s.last, or(s.p99, s.median))
  IN  Min({Mille * s.median + cfg.mad * s.mad + Mille * cfg.eps,
           cfg.p99 * last + Mille * cfg.eps}
          \union IF cap = Unset THEN {} ELSE {cap})

allowed(c, s) == compute_allowed(s, profile_cfg(c), budget_cap(c))

require_digest(c) == \/ PROFILE_PRESETS[c.profile].digest
                     \/ c.require
                     \/ c.force

(* As many samples as p99.9 needs, and as many as p99.99 needs. *)
samples_gate(l) == l.samples >= 1000 /\ l.samples >= 10000

(* main() starts from PASS and each test below may turn it into FAIL.  The *)
(* p99.99 latency and the metrics are reported but not tested.             *)
verdict(c, l, s) ==
  IF /\ Mille * l.p99 <= allowed(c, s)
     /\ require_digest(c) /\ s.golden # "" => l.digest = s.golden
     /\ samples_gate(l)
     /\ l.p999_valid
     /\ l.p9999_valid
     /\ l.p999 > 0 => Mille * l.p999 <= 3 * allowed(c, s)
  THEN "PASS" ELSE "FAIL"

(* num / den to the nearest multiple of unit, for den > 0. *)
round(num, den, unit) == unit * ((2 * num + den * unit) \div (2 * den * unit))

(* Variant: the headroom of the MAD multiplier is taken from the last run. *)
auto_tune_gate_last(l, s) ==
  LET median == or(s.median, l.p99)
      last   == or(s.last, or(median, l.p99))
  IN  [budget |-> round(1050 * l.p99, 1, FourDecimals),
       mad |-> IF s.mad = 0 THEN Unset
               ELSE Max({Mille, round(Mille * (l.p99 - last), s.mad, 10)}),
       p99 |-> IF last = 0 THEN Unset
               ELSE Max({Mille, round(Mille * l.p99, last, 1) + 20})]

auto_tune_gate(l, s) ==
  LET median == or(s.median, l.p99)
      last   == or(s.last, or(median, l.p99))
  IN  [budget |-> round(1050 * l.p99, 1, FourDecimals),
       mad |-> IF s.mad = 0 THEN Unset
               ELSE Max({Mille, round(Mille * (l.p99 - median) + 500 * s.mad,
                                      s.mad, 10)}),
       p99 |-> IF last = 0 THEN Unset
               ELSE Max({Mille, round(Mille * l.p99 + 20 * last, last, 1)})]
-----------------------------------------------------------------------------
VARIABLES
  line,     \* the first line of bench.jsonl
  prom,     \* metrics.prom has the required keys
  base,     \* the baseline file
  cmd,      \* the command line of the current or the last invocation
  pc,       \* the file it reads next
  read,     \* BenchResult, once parsed
  stats,    \* the baseline entry it decides on
  bundle,   \* metrics-export.json on disk
  code,     \* its exit code
  rewrites, invocations

vars == <<line, prom, base, cmd, pc, read, stats, bundle, code, rewrites,
          invocations>>

files == <<line, prom, base, rewrites>>

Running == 99

NoBundle == [status |-> "none"]
Torn     == [status |-> "torn"]

Init == /\ line \in Lines
        /\ prom \in BOOLEAN
        /\ base \in Baselines
        /\ cmd \in Commands
        /\ pc = "idle"
        /\ read = NoLine
        /\ stats = NoStats
        /\ bundle = NoBundle
        /\ code = Running
        /\ rewrites = 0
        /\ invocations = 0

(* A bench or a golden calibration goes on while the gate is reading. *)
rewrite == /\ rewrites < Rewrites
           /\ rewrites' = rewrites + 1
           /\ \/ line' \in Lines \ {line} /\ UNCHANGED <<prom, base>>
              \/ prom' = ~prom /\ UNCHANGED <<line, base>>
              \/ base' \in Baselines \ {base} /\ UNCHANGED <<line, prom>>
           /\ UNCHANGED <<cmd, pc, read, stats, bundle, code, invocations>>

Exit(c) == pc' = "idle" /\ code' = c

(* Misuse ends with 2, a bad variable or an unknown PROFILE with 1. *)
start == /\ pc = "idle"
         /\ invocations < Invocations
         /\ invocations' = invocations + 1
         /\ cmd' \in IF invocations = 0 THEN {cmd} ELSE Commands
         /\ \/ ~parse_args_ok(cmd') /\ Exit(2)
            \/ /\ parse_args_ok(cmd')
               /\ cmd'.profile \notin Profiles \/ ~env_float_ok(cmd')
               /\ Exit(1)
            \/ /\ parse_args_ok(cmd')
               /\ cmd'.profile \in Profiles /\ env_float_ok(cmd')
               /\ pc' = "bench"
               /\ code' = Running
         /\ read' = NoLine
         /\ stats' = NoStats
         /\ UNCHANGED <<files, bundle>>

parse_bench == /\ pc = "bench"
               /\ \/ /\ Unset \in {line.p99, line.samples}
                     /\ Exit(1)
                     /\ UNCHANGED read
                  \/ /\ Unset \notin {line.p99, line.samples}
                     /\ read' = line
                     /\ pc' = "prom"
                     /\ UNCHANGED code
               /\ UNCHANGED <<files, cmd, stats, bundle, invocations>>

parse_prom_metrics == /\ pc = "prom"
                      /\ \/ ~prom /\ Exit(1)
                         \/ prom /\ pc' = "base" /\ UNCHANGED code
                      /\ UNCHANGED <<files, cmd, read, stats, bundle, invocations>>

Exporting(c) == c.export \/ c.tune

Returned(v) == IF v = "PASS" THEN 0 ELSE 1

(* Read the baseline, decide, and print the verdict. *)
load_baseline == /\ pc = "base"
                 /\ \/ ~load_baseline_ok(cmd, base) /\ Exit(1) /\ UNCHANGED stats
                    \/ /\ load_baseline_ok(cmd, base)
                       /\ stats' = baseline_of(cmd, base)
                       /\ IF Exporting(cmd)
                          THEN pc' = "export" /\ UNCHANGED code
                          ELSE Exit(Returned(verdict(cmd, read, stats')))
                 /\ UNCHANGED <<files, cmd, read, bundle, invocations>>

(* The payload: what it decided on, the gates of the profile with their    *)
(* overrides, and the allowance, rounded.  Neither the budget nor whether  *)
(* a digest was required is part of it.                                    *)
Bundle(c, l, s) == [status    |-> verdict(c, l, s),
                    runner    |-> c.runner,
                    profile   |-> c.profile,
                    allowed   |-> round(allowed(c, s), 1, FourDecimals),
                    gates     |-> profile_cfg(c),
                    bench     |-> l,
                    base      |-> s,
                    auto_tune |-> IF c.tune THEN <<auto_tune_gate(l, s)>> ELSE <<>>]

(* Variants: the line is read again; a failed write is ignored. *)
export_reread == /\ pc = "export"
                 /\ bundle' = [Bundle(cmd, line, stats)
                                 EXCEPT !.status = verdict(cmd, read, stats)]
                 /\ Exit(Returned(bundle'.status))
                 /\ UNCHANGED <<files, cmd, read, stats, invocations>>

export_ignored == /\ pc = "export"
                  /\ bundle' \in {Bundle(cmd, read, stats), bundle, Torn}
                  /\ Exit(Returned(verdict(cmd, read, stats)))
                  /\ UNCHANGED <<files, cmd, read, stats, invocations>>

(* mkdir or open() may fail, and the write after open() has truncated the  *)
(* file: an exception, so exit code 1 whatever was printed.                *)
export_metrics_bundle == /\ pc = "export"
                         /\ \/ /\ bundle' = Bundle(cmd, read, stats)
                               /\ Exit(Returned(bundle'.status))
                            \/ /\ bundle' \in {bundle, Torn}
                               /\ Exit(1)
                         /\ UNCHANGED <<files, cmd, read, stats, invocations>>

Done == pc = "idle" /\ invocations = Invocations /\ UNCHANGED vars

Next == \/ start \/ parse_bench \/ parse_prom_metrics \/ load_baseline
        \/ export_metrics_bundle \/ rewrite \/ Done

Spec == Init /\ [][Next]_vars
-----------------------------------------------------------------------------
Written == bundle.status \in {"PASS", "FAIL"}

(* x is within n times each of the limits that gates and a budget set.     *)
Within(x, n, gates, cap, s) ==
  LET ref == CHOOSE r \in {s.last, s.p99, s.median} :
               \/ r = s.last /\ r > 0
               \/ r = s.p99 /\ r > 0 /\ s.last = 0
               \/ r = s.median /\ s.last = 0 /\ s.p99 = 0
  IN  /\ x <= n * (Mille * (s.median + gates.eps) + gates.mad * s.mad)
      /\ x <= n * (gates.p99 * ref + Mille * gates.eps)
      /\ cap # Unset => x <= n * cap

Enough(l) == l.samples >= 10000

(* What docs/gates.md asks of a release, with the profile's numbers. *)
Sound(c, l, s) ==
  /\ Within(Mille * l.p99, 1, profile_cfg(c), budget_cap(c), s)
  /\ l.p999 > 0 => Within(Mille * l.p999, 3, profile_cfg(c), budget_cap(c), s)
  /\ Enough(l) /\ l.p999_valid /\ l.p9999_valid
  /\ s.golden = l.digest \/ s.golden = "" \/ ~require_digest(c)

(***************************************************************************)
(* Exit code 0 is earned in this invocation: all three files were read and *)
(* satisfy every single requirement, and when a bundle was asked for it is *)
(* on disk and says so.  No failed write, rewritten file or earlier run    *)
(* leaves a zero behind (main(), export_metrics_bundle()).                 *)
(***************************************************************************)
ZeroIsEarned ==
  code = 0 => /\ read # NoLine /\ stats # NoStats
              /\ Sound(cmd, read, stats)
              /\ Exporting(cmd) => /\ bundle = Bundle(cmd, read, stats)
                                    /\ bundle.status = "PASS"

(* What a reader of the bundle alone can check.  The allowance is known    *)
(* to within slack; whether a digest was required, from the profile only.  *)
Shown(b, slack) ==
  /\ Mille * b.bench.p99 <= b.allowed + slack
  /\ b.bench.p999 > 0 => Mille * b.bench.p999 <= 3 * (b.allowed + slack)
  /\ Enough(b.bench) /\ b.bench.p999_valid /\ b.bench.p9999_valid

DigestShown(b) == b.base.golden \in {"", b.bench.digest}

(***************************************************************************)
(* The status of a bundle is one that the measurement, the baseline and    *)
(* the gates written beside it justify, whatever was rewritten while the   *)
(* gate was reading and however long ago it was written: a PASS meets the  *)
(* written allowance up to its rounding, and under the strict profile the  *)
(* digest; a FAIL misses the allowance, another gate or the digest; and    *)
(* the allowance is no more than the written gates allow on the written    *)
(* baseline.                                                               *)
(***************************************************************************)
BundleIsOneVerdict ==
  Written =>
    /\ bundle.status = "PASS" => /\ Shown(bundle, Half)
                                 /\ bundle.profile = "strict" => DigestShown(bundle)
    /\ bundle.status = "FAIL" => ~(Shown(bundle, -Half) /\ DigestShown(bundle))
    /\ Within(bundle.allowed - Half, 1, bundle.gates, Unset, bundle.base)

(***************************************************************************)
(* Asking for more never turns a FAIL into a PASS: what a profile passes,  *)
(* a laxer one passes on the same evidence, and so it does without the p99 *)
(* budget, or under a higher one.  The p99.9 gate is derived from the      *)
(* budget and must follow it (PROFILE_PRESETS, compute_allowed()).         *)
(***************************************************************************)
Laxer == [strict |-> "standard", standard |-> "lenient", lenient |-> "lenient"]

With(profile) == [cmd EXCEPT !.profile = profile]
Budget(b) == [cmd EXCEPT !.cli["budget"] = b, !.env["budget"] = Unset]

Passes(c) == verdict(c, read, stats) = "PASS"

StricterNeverPasses ==
  stats # NoStats =>
    /\ \A p \in Profiles : Passes(With(p)) => Passes(With(Laxer[p]))
    /\ Passes(cmd) => Passes(Budget(Unset))
    /\ \A b \in {budget_cap(cmd) - 1} \cap Nat : Passes(Budget(b)) => Passes(cmd)

(***************************************************************************)
(* Running the gate again on the same evidence with the suggestions of     *)
(* --auto-tune as options, under any profile, the measured p99 is within   *)
(* the allowance.  It takes a measurement of a microsecond or more, below  *)
(* which the suggested budget may be rounded to less than was measured,    *)
(* and a baseline with a deviation, a last_p99_ms and a median that is not *)
(* zero, which auto_tune_gate() would replace by the measurement and       *)
(* compute_allowed() would not.                                            *)
(***************************************************************************)
Microsecond == 100

Retuned(c, t) == [c EXCEPT !.cli = [@ EXCEPT !["budget"] = t.budget,
                                             !["mad"] = t.mad,
                                             !["p99"] = t.p99]]

Covers(t, b) ==
  \A c \in Commands : c.profile \in Profiles /\ env_float_ok(c) =>
    Mille * b.bench.p99 <= allowed(Retuned(c, t), b.base)

TuneCovers ==
  /\ Written
  /\ bundle.base.median > 0 /\ bundle.base.mad > 0 /\ bundle.base.last > 0
  /\ bundle.bench.p99 >= Microsecond
  => \A i \in DOMAIN bundle.auto_tune : Covers(bundle.auto_tune[i], bundle)
=============================================================================
