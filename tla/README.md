# Blanc LOB Engine: formal models

TLA+ modules, TLC configurations and TLAPS proofs for the Blanc LOB Engine. The engine replays a
file of market data, runs a safety gate (a *breaker*) over detector readings, and leaves evidence
files that release scripts judge. The modules are written from the code; this file says which
code, what is checked and proved, and what is not modelled yet.

Paths are relative to the repository root.

## 1. Inventory

| Component | Source | State | Operations | Interacts with |
|---|---|---|---|---|
| Breaker | `include/breaker.hpp`, `src/breaker.cpp` | `thr_`, `st_`, `latched_` | constructor, `step`, `clear_latch`, `publish_allowed` | fed with readings by replay or a library client |
| Detectors | `include/detectors.hpp` | three counters, longest burst, skew, four injected rates | `on_message`, `on_gap`, `on_corrupt`, `on_burst`, `on_skew_ppm`, `inject_ppm`, `readings` | readings go to the breaker |
| Replay | `src/replay.cpp` | the process; files in `ART_DIR` | parse, read, time chunks, evaluate the gate, write evidence, print | calls the two above and telemetry |
| Telemetry writers | `src/telemetry.cpp` | `bench.jsonl` (append), `metrics.prom` (truncate) | `ensure_dir`, `write_jsonl`, `write_prom` | files shared with every other run and script |
| Bench pipeline | `Makefile` (`bench`), `scripts/bench.sh`, `scripts/prom_textfile.sh` | the two files | run with knobs, truncate, nine runs, summary, rewrite, ensure | runs replay; read by the verifier |
| Verifier | `scripts/verify_bench.py` | none; exports `metrics-export.json` | resolve options, read three files, allow, decide, tune, export | judges the pipeline's files and a golden baseline |
| Stability runner | `scripts/long_horizon_stability.sh` | iteration, deadline, run directories, summary file | loop, replay, copy, append, sleep | replay's files |
| Packager | `scripts/release_package.sh` | staging directory, archive, manifest, signature | copy, list, update the archive, sign | artifact directory |
| Release updater | `scripts/update_github_release.py` | the release on GitHub | look up, create or update | GitHub, other jobs |
| CodeQL badge | `scripts/update_codeql_badge.py`, `.github/workflows/codeql-badge.yml` | `badges/codeql_alerts.json` | fetch pages, count, write, commit | GitHub |
| Performance badges | `scripts/update_performance_badges.py` | two JSON files | read, choose a source, write one after the other | `bench.jsonl` |
| Bench report | `scripts/bench_report.py` | `report/index.html` | read two files, render | `bench.jsonl`, `metrics.prom` |
| Demo scripts | `scripts/run_demo.py`, `scripts/run_example.py`, `examples/run_demo.py` | none | load, rank, list, summarise, filter | `examples/qa_demo.csv` |
| Others | order book, generators, microbenchmarks, apps, enterprise interfaces, workflows, tests | | | see `PROJECT.json` |

No program here has threads; they meet in files and on GitHub. What is hard about it:

* **Sequences of calls.** The breaker's answer depends on the whole sequence of readings and resets
  since the last reset, kept in two fields that have to stay consistent.
* **A shared directory.** Several replays, tests and scripts write `bench.jsonl` and `metrics.prom`
  of one `ART_DIR`. Nothing locks it; one file is appended to, the other truncated.
* **Ignored failures.** `main()` drops the results of its writers, the Makefile those of its scripts.
* **Evidence that outlives its run.** The pipeline truncates, appends and rewrites files which the
  verifier then judges by their first line.
* **Readers beside writers.** The verifier, the report and the badges read several files, or write
  several, while a bench changes them.
* **A remote register.** Jobs that are retried share a release and a list of alerts which change
  between two requests, over a network that loses and delays them.

What makes each component correct is listed per module in section 3; the hazards behind the
properties are in `PROJECT.json`, each at its line.

## 2. Modules and how they fit

```
LatchedGate  <--refined by--  Breaker  <--extended by--  GateTwins
   (abstract gate)              ^                      (two breakers, two feeds)
                                | INSTANCE
             Detectors <------ GateSession             (feed handler + operator)
                  ^             |
                  | INSTANCE    v
                  +---------- Replay                   (processes sharing ART_DIR)
                                .
                                . one replay = one step
                           BenchPipeline               (make bench + scripts + what is judged)
                                ^
                                | extended by
                           BenchReaders                (report and badges, at any moment of it)

ReleaseRegister <--refined by-- GithubRelease          (jobs and the server)

VerifyBench    LongHorizon    ReleasePackage    CodeqlBadge    Quantiles    DemoScripts
```

The modules of the last row stand alone: they share files with the others, and model what those
files may hold instead of how they got there. `VerifyBench` is the whole verifier; `BenchPipeline`
keeps only which line it judges and when it refuses. `Quantiles` holds the numbers that
`BenchPipeline` and `BenchReaders` leave out.

| Module | Models | Run by | Proofs |
|---|---|---|---|
| `LatchedGate` | what a breaker promises: a level that follows below `Trip` and ratchets from `Trip` on | through `Breaker` | `GateTwinsProofs` |
| `Breaker` | `src/breaker.cpp`, whole | through `GateTwins` | `GateTwinsProofs` |
| `GateTwins` | `run_script` of `tests/test_gate_transitions.cpp` on a clean and a faulty feed | `MCGateTwins` (`twins`) | `GateTwinsProofs` |
| `Detectors` | `include/detectors.hpp`, whole | through `GateSession` | `GateSessionProofs` |
| `GateSession` | detectors and breaker with a handler and an operator | `MCGateSession` (`session`, `recovery`) | `GateSessionProofs` |
| `Replay` | `main()` and the telemetry writers, in several processes | `MCReplay` (`replay`) | `ReplayProofs` |
| `BenchPipeline` | `make bench`, `bench.sh`, `prom_textfile.sh`, what `verify_bench.py` judges | through `BenchReaders` | `BenchReadersProofs` |
| `BenchReaders` | `bench_report.py`, `update_performance_badges.py` beside the pipeline | itself (`pipeline`) | `BenchReadersProofs` |
| `Quantiles` | the quantiles of `bench.sh`, of the badges and of `replay.cpp` | itself (`quantiles`) | `BadgeProofs` |
| `VerifyBench` | `verify_bench.py`, whole | `MCVerifyBench` (`verify`) | `VerifyBenchProofs` |
| `LongHorizon` | `long_horizon_stability.sh` | itself (`long_horizon`) | `ScriptProofs` |
| `ReleasePackage` | `release_package.sh` | itself (`package`) | `ReleaseProofs` |
| `ReleaseRegister` | what a release is to those who update it | through `GithubRelease` | `ReleaseProofs` |
| `GithubRelease` | `update_github_release.py` in several jobs, and the server | itself (`github`) | `ReleaseProofs` |
| `CodeqlBadge` | `update_codeql_badge.py` and the workflow that commits | itself (`codeql`) | `BadgeProofs` |
| `DemoScripts` | the three demo scripts | itself (`demos`) | `ScriptProofs` |

Operators whose comment calls them a *variant* are altered forms of the definition that follows
them. No specification uses them; substituting one for the original makes a property fail, which
shows that the property depends on that line of the code (`PROJECT.json`, `mutants`).

## 3. What each module says

### Breaker

`thr`, `st`, `latched` are the three members. `metric_level` is one else-if chain of `worst()`,
which tests the main threshold first; `worst` is the maximum over the four metrics, as `bump()`
computes. `step` has two alternatives, latched and not; `clear_latch` is the operator's. Readings
and thresholds are integers, because only comparisons matter. **The thresholds of a metric are not
assumed ordered**: the constructor checks nothing.

* `KillUnreachable`: `Kill` is handled in three places but no reading produces it (proved, not run).
* `LatchedIffBlocked`: latched exactly when publishing is forbidden.
* `OnlyOperatorReopens`: from blocked to publishing only by `clear_latch`, and to `Fuse`.
* `GateSpec`: the breaker implements `LatchedGate` with `level <- st`. The abstract gate has no
  latch bit, so this says the bit is a function of the level.

They are checked on the two breakers of the run `twins`.

### GateTwins

Two breakers with one table. At every event the second one gets a reading at least as high in every
metric. The test tries one spike at one event; here every worse feed is tried, with resets of both.

* `Dominance`: the worse feed is never in a better state, never unlatched when the other is
  latched, never publishing when the other does not. It needs the order of the tests in `worst()`:
  with the local threshold tested first, misordered tables break it.
* `SubThresholdFaultInvisible`: while no event changed severity, state and latch are equal.

Run `twins`: three triples of thresholds (ordered, two equal, misordered) in every assignment to the
four metrics (81 tables), under 64 readings in `0..3` for either breaker: gap and burst range over
all levels, corruption and skew over two, so any two metrics can disagree. States repeat after two
steps, so the run is complete for these tables and readings.

### Detectors and GateSession

One action per update method. A rate is the exact fraction, and `Blend` is
`a * measured + (1 - a) * injected` rounded down. For whole thresholds `x >= t` holds exactly when
the integer part of `x` does, so the gate decides the same; rounding of doubles is not modelled.
`GateSession` composes them with a breaker: the handler updates in any order and evaluates when it
likes, the operator clears at any moment. `seen`, `last` and `longest` are history that no action
reads.

* `StateIsHistory`: the state is the worst evaluation since the last reset if any of them reached
  `Feeder`, else the latest. The code computes this incrementally.
* `BurstOutlivesClear`: a burst once reported keeps tripping every later evaluation, also after
  `clear_latch` and after shorter bursts, because `on_burst` keeps the maximum.
* `BlendBetween`: a reading lies between measured and injected.

Run `session`: `a = 1/5` as in the code, rates scaled (`PPM = 10`) and thresholds chosen so that
counters at their bound (`MaxCount = 2`) reach the feeder threshold and only an injection reaches
the main one. `MaxCount` is the only bound in the guards.

### Replay

Each process has a command (what argv parses to, whether its input can be read, its size and rates)
and a place in `main()`. `ensure_dir`, `write_jsonl`, opening and closing `metrics.prom` are
separate steps because another process can act between them. Each may fail (full disk) and each run
may be killed; `Slack` bounds both together. `metrics.prom` is a sequence of blocks, a write starts
at offset zero of the writer's own stream and leaves what lies beyond. An append to `bench.jsonl` is
a whole line; a line torn by a crash or split over the stream's buffer is not modelled.

`faults`, `overlap` (two runs were between start and exit at once) and `clash` (one opened
`metrics.prom` while another had it open) are history that no action reads.

* `FailuresLeaveNoTrace`: no step of a run that asks for help, is misused or cannot read its input
  touches the directory or either file, and a run that is not killed exits with the code of its case:
  1, 0 or 2, and 0 for every run that read its input. An action property, so truncation counts too.
* `MixTakesTwoWriters`: `metrics.prom` is the whole text of one run or empty, unless two runs had it
  open at once. Failures, kills and overlaps of another kind do not mix it.
* `EvidenceAgrees`: what the files miss when all runs are over is accounted for. No run has two
  lines; the runs that should have a line and have none are no more than `faults`. Without overlap
  `metrics.prom` is that of one run with no more later lines than `faults`, or empty after a fault; so
  without a fault both files are of the last run.
* `PublishFollowsKnobs`: what a line says about publishing follows from its command line alone. The
  right-hand side is a closed formula over rates and thresholds, not the breaker's code.

Run `replay`: three processes, seven commands each, two faults. Two writers show every overlap of
truncation and write, the third a line lost between two others; files of one and of two blocks show
a longer file under a shorter one. Rates 62 and 63 are on either side of the default feeder threshold 50 after the factor 0.8.

### BenchPipeline

`stage` is the recipe line, `phase` the place in `bench.sh`, which runs twice: from the Makefile and
from `prom_textfile.sh`. A replay is one step that may lose either file or both and exit 0, or fail,
or be killed, with either file written. `RunIsOneStep` (section 5) shows that these are the outcomes of
a run of `Replay` that no other overlaps. Whatever the scripts do, the recipe goes on; `abort` is a
failing command the Makefile does not ignore, or a cancelled job. `verify_bench` keeps which line is
judged and what is refused; the arithmetic behind `good` is abstracted. Both scripts are executable in
the repository, so the Makefile runs them.

* `FreshUnlessNeverTruncated`: a verdict about an old epoch or about the stress run takes two failed
  truncations in one epoch.
* `CleanEpochIsJudged`: with no failure the verdict is never a refusal, and both files are entirely
  of this epoch.
* `RecipeEnds`: a started recipe ends.

They are checked in the run `pipeline`, with the readers.

### BenchReaders

The report reads `bench.jsonl`, then `metrics.prom`, then writes a page; the badges read
`bench.jsonl` and write two files. `reader` is what the running one holds. A reader starts at any
moment of the recipe and any step of the recipe may come between its own. Each write may fail and
leave a torn file. `settled` is history: both files were read after one undisturbed `make bench`.

* `PageTellsOneBench`: chart and cards of a page are of one bench; a page with cards has all runs.
* `SettledPageIsWhole`: a page made at rest shows every run, the summary and its quantiles, and the
  tails of the last replay.
* `BadgesTellOneBench`: quantiles of a summary cover every run, those of samples some runs of one
  bench; both files show one measurement when the script succeeds, whatever is written between.

Run `pipeline`: two epochs, so that there is old evidence; two runs instead of nine (the code
compares `i` with the argument only, so two show first, middle and last); two faults, as many as
failed truncations make a stale verdict possible; two starts of a reader.

### Quantiles

The samples of one bench, kept sorted as they come. `bench_quantile` is the clamped integer index
of `bench.sh`, `percentile` and `median` are the badges', `replay_percentile` is the lambda of
`replay.cpp`. Percentages as quantiles and integer latencies make interpolation exact in hundredths.

* `FormulasAgree`: badges and engine interpolate alike, their median is the same p50, and
  `bench.sh` picks the sample at or just above that point, so a badge made without the summary never
  shows more, or a worse colour, than one made with it.
* `SlowerRunNeverHelps`: one more run as slow as a quantile never improves that quantile.

Run `quantiles`: every multiset of up to 45 samples of three latencies in colour bands of the badge:
sizes around 20 and 40 put the positions of p95 on and between samples, and `n = 1` and 2 are there.

### VerifyBench

`pc` is the file read next. Options, environment and profile are resolved by `resolve_float`, the
baseline entry by `baseline_of`, the allowance by `compute_allowed`, the five tests by `verdict`;
`auto_tune_gate` makes the suggestions and `export_metrics_bundle` writes them. `Bundle` is the
payload: allowance and suggested budget rounded to four decimals, the gates of the profile, and
neither the budget nor whether a digest was required. Times are ticks of 10 ns, a tenth of those
four decimals, because a replay of a small input takes less than a microsecond; multipliers are
thousandths, so that products are exact and the code's tolerance of 1e-9 is zero. `rewrite` lets a bench or a calibration change a file between two reads.

* `ZeroIsEarned`: exit code 0 means that in this invocation all files were read and satisfy every
  requirement one by one (`Sound`, a reference with one bound per limit), and the bundle asked for is
  on disk. An earlier bundle or a failed write leaves no zero.
* `BundleIsOneVerdict`: a bundle's status is one that what is written beside it justifies. A PASS meets
  the written allowance to within its rounding, and under the strict profile the written digest; a
  FAIL misses the allowance, the samples, the p99.9 gate or the digest; the allowance is no more than
  the written gates make of the written baseline. A FAIL of another profile with a digest that differs
  may be due to the digest or not: the bundle does not say whether it was required.
* `StricterNeverPasses`: a laxer profile, no budget or a higher one never turns a pass into a fail.
* `TuneCovers`: a measured p99 of a microsecond or more is within the allowance under the suggestions
  of `--auto-tune`, whatever the other options, if the baseline has a deviation, a `last_p99_ms` and a
  median above zero. Below a microsecond the suggested budget may be rounded to less than was
  measured; the run has such lines (0, 40 and 120 ns), and without the precondition TLC refutes it.

Run `verify`: the first invocation takes any of 17 lines, 8 baselines and 25 command lines, chosen on
both sides of each limit (1000 and 10000 samples, the three allowances, three times the allowance, one
microsecond); the deviation of the baseline is such that the allowances are rounded when written.
`Focus` draws what files are rewritten to, and the second command, from small sets. One rewrite and
two invocations give every single interleaving with a leftover bundle.

### GithubRelease and ReleaseRegister

A job is in `pc[p]`: the request it waits for. Requests are in `transit` until the server handles
them, in any order, or for ever; the answer reaches the job only if it still waits in the same try.
`give_up` is the 60 s time-out, a lost answer, an error of the server or a cancelled job; a job that
failed may be started again. The server finds published releases only, refuses a second published
one and takes any number of drafts. `drafts` are the jobs with `--draft`.

* `RegisterSpec`: it implements `ReleaseRegister`: what is published are one writer's notes, a draft
  can only take them away, and a zero means that one's notes were put there.
* `LastJobShows`: a job without `--draft` that started with nothing of another pending, and
  succeeded with nobody starting since, shows its notes, whatever its own earlier tries still do.
* `EveryRunEnds`: a run never hangs.

Run `github`: two jobs, three tries in each: a delayed request of the first, a retry, and another.

### CodeqlBadge

`open` is the server's list, newest first; a page is a slice of it when it is asked for. `alerts` is
what `fetch_alerts()` has, `file` the badge in the checkout, `badge` the one committed.

* `TotalIsLastCount`: whatever moves between pages, the total is the number open when the last page
  was answered, or the length of the earlier pages if that many have closed.
* `NoneOverlooked`: while none closes, no alert is skipped, and a critical one makes a critical badge.
* `CommitsAreWhole`: a commit never holds part of a listing or a torn file.

Run `codeql`: pages of two and six alerts, so a listing has up to three pages; two critical alerts on
either side of a page boundary; two days, so there is an old badge. The count of five at which
`latency_color` changes is inside the bound.

### LongHorizon

The evidence of a replay is the number of the iteration that wrote it. `replay` may succeed, lose
either write and still exit 0, or fail; `capture` copies what is there. Time passes in any state.

* `SuccessHasEvidence`: a zero means one line per iteration, and all iterations or the whole time;
  the refusals after the loop are never reached.
* `StaleOnlyIfLost`: at most as many iterations hold an earlier one's evidence as writes were lost.
* `JobEnds`: by iterations or by the clock.

Run `long_horizon`: 1 and 3 iterations and a deadline 0 or 4 intervals away, 2 lost writes, with and
without `jq`, with and without evidence and run directories of an earlier job.

### ReleasePackage

A file's content is a number. `release/`, the default of `--out-dir`, lies in the artifact directory
and is packed along. Other programs change files at any step; any step may fail. `gpg` says whether it
is installed: without it a run with `--sign` skips the signature and still exits 0.

* `OutputsFit`: after a success every file of the manifest is in the archive as listed and both are of
  this run. The signature is of this archive exactly when one was asked for and gpg is installed; in
  every other case what lies beside the archive is none, or one of an earlier archive.

Run `package`: two files, three changes, two packagings, one failure.

### DemoScripts

The file grows by a line at a time: header, rows, fences. A row is what the scripts compute with.
`ranked` gives each row its place; the rows of a report are a set of positions, printed in the order
of the file.

* `FenceIsTransparent`: `run_example.py` lists exactly the rows between the fences, closed or not.
* `ReportsFitRows`: average, spike filter and top spikes of `examples/run_demo.py` agree with its
  rows, `run_demo.py` ranks as many, and no row below a later one that is no better in any column.

Run `demos`: up to four lines, so two rows in a fence or three without. The report's limit of five
top spikes is not reached.

### Fairness

* `WF_allvars(Recipe ...)` (`BenchReaders`): make and the shells it starts are sequential and wait
  for nothing, so a recipe that can take its next step does. Nothing is assumed of starting a recipe,
  of the verifier or of the readers.
* `WF_vars(main(p))` (`GithubRelease`): a request returns or raises, because of `timeout=60`
  (`update_github_release.py:49`), so a waiting run goes on. The limit is one per socket operation: a
  server that sends a byte now and then for ever is assumed away, and nothing else of the server.
* `WF_vars(Script)` and `WF_vars(tick)` (`LongHorizon`): the shell waits only for a replay, which
  ends, and for its sleep; time passes.

The other modules have no liveness properties: the breaker is called by clients who may stop, and
`update_codeql_badge.py` calls `urlopen()` without a time-out.

## 4. Where code and documents disagree

One has a run that exhibits it: `recovery` (`RecoveryNeedsMoreThanOneGood`). README line 261 promises
recovery only after things have been good for a while; `step()` returns from `Local` to `Fuse` on one
good reading.

The others were met while modelling. The models contain the behaviour; none of them has a run.

* Exit code 0 of replay is documented as success (`src/src/replay.cpp:97`); a run that could not write
  its evidence also exits 0 (349, 366). `StaleOnlyIfLost` is about what follows from it.
* `--gap-ppm` is documented as the gap rate; the gate and the evidence see four fifths of it.
* `verify_bench.py:7` calls the first line of `bench.jsonl` the latest run. It is the oldest one.
* `docs/local-checks.md:30` says that the suggestions of `--auto-tune` cover the most recent run. With
  no deviation in the baseline, `p99_ms` in place of `last_p99_ms`, or a median of 0, they need not, and
  below a microsecond the suggested budget is rounded (`verify_bench.py:89`): 0.00012 ms gives a budget
  of 0.0001 ms, and 0.00004 ms one of 0.0. `TuneCovers` excludes the four.
* `docs/gates.md:42` says that the digest must match golden. A baseline with a `0x` prefix never
  matches (`verify_bench.py:367`), and `--require-digest` passes when the baseline has no digest.
* README line 860 runs the verifier with `--metrics`, which argparse refuses: it begins two options.
* A job with `--draft` finds no draft by its tag, so each run creates another, and one that finds a
  published release turns it into a draft.
* An HTTP error while alerts are fetched becomes a green badge with 0 open
  (`update_codeql_badge.py:56`); `CommitsAreWhole` states it.
* `docs/LONG_HORIZON_STABILITY.md:28` calls the summary JSONL; `jq` without `-c` writes its metrics
  over several lines (`long_horizon_stability.sh:34`).
* `release_package.sh` keeps removed files in the archive (115) and an old signature beside a new
  archive, and fails for an absolute `--out-dir` (65), which its test passes (`tests/test_release_package.sh:48`).
* `release_package.sh --sign` exits 0 without a signature when gpg is missing (127-129).
* `bench_report.py:5` promises the status of the digest; the page does not show it.

## 5. Proofs

A run fixes a small instance; the theorems hold for every value of the constants under the named
assumption of the module that declares them (`BreakerAssumption`, `DetectorsAssumption`, ...). These
only give types (`Nat` for a bound, records of the right shape for tables, command lines and
baselines) and exclude what the programs cannot be given: a denominator, a page size or a number of
runs of 0. No order of thresholds, no number of processes, jobs or lines is assumed. The bounds of the
runs (`MaxCount`, `Epochs`, `Slack`, `Tries`, ...) are parameters, so the theorems hold for any of them.

Each safety property and each refinement of the passing runs is a theorem. Every proof has the form: an
inductive invariant `IInv`, its initial case, one step for each action, and the property from it. Each
invariant was model-checked before it was proved. Where one module proves about two components, it
extends both; `ReleasePackage`, `Quantiles` and `DemoScripts` therefore name their specifications
`PackageSpec`, `SamplesSpec` and `DemoSpec`.

| Module | Inductive invariant | What it adds to the properties, and why they need it |
|---|---|---|
| `GateTwinsProofs` | `IInv`, `TwinsInv` | no `Kill`; the clean level is not above the faulty one |
| `GateSessionProofs` | `LevelInv`, `CounterInv` | the latch as a function of the evaluations since the last clear; `longest = burst_ms` |
| `ReplayProofs` | `TraceInv`, `Whole`, `EvidenceInv`, `Progress` | where a run may be once it has something to record; `metrics.prom` is empty while one run has it open; who lost or will lose a line, and how far `metrics.prom` is behind; what a run alone has done to either file at each place of `main()` |
| `BenchReadersProofs` | `PipelineInv`, `FilesInv` | where the recipe is, what the file holds since it was emptied, what a reader holds between its steps |
| `ReleaseProofs` | `IInv`, `TriesInv`, `PackageInv` | what is on its way and whose it is; which try a job is in; what the script owes the archive between its steps |
| `VerifyBenchProofs` | `IInv` | when a line and a baseline are known to be whole; one decision behind zero and bundle |
| `BadgeProofs` | `IInv`, `InOrder` | what has been fetched is as long as the part of the list the url skips; sorted samples |
| `ScriptProofs` | `IInv`, `Pace`, `Shape` | the loop's bookkeeping; the latest moment of each iteration at each place of the loop; the form of a sample while it is written |

**Breaker and twins.** `LatchedIffBlocked` alone is not inductive: `clear_latch` at `Kill` would leave
the breaker blocked and unlatched, so `KillUnreachable` is part of the invariant. `ImplementsGate`: a
latched step is `Ratchet` or `Hold`, an unlatched one `Follow`, and the latch tells them apart as the
level does. `LevelMonotone` and `WorstMonotone` (a higher reading is graded at least as severely,
whatever the order of the thresholds) give `WorseFeedDominates`. The theorems about `Spec` are those of
a single breaker; `TwinsAreBreakers` shows that the run `twins`, which checks the properties on its two
breakers, has two behaviours of `Spec`, and `TwinsAreGates` that each of them is an abstract gate.

**GateSession.** `StateFromHistory` needs that `seen` and `last` determine the latch, since the next
step looks at it. `ReadingsBlend` is arithmetic of a weighted mean that is rounded down.
`BurstIsRemembered` needs that the detectors' burst is the longest one reported. `SessionIsBreaker`:
what handler and operator do to the breaker is what `Breaker` lets a client do, since the detectors'
readings are natural numbers; so the theorems about a breaker hold in every session. `SessionIsGate`
goes on to the abstract gate, and `OnlyClearReopens` says who can end a block.

**Replay.** `NoTrace`: control passes `read_all()` only with a readable input, and every step that
touches a file comes after it. `PublishFromKnobs` reduces detectors and breaker of a run to its options.
`MixNeedsTwo` needs `Whole`: while one run has `metrics.prom` open and no two ever had, the file is
empty, so that what is written at offset zero is all of it. `TwoFilesOneStory` counts, before all runs
are over, the runs that have no line or cannot get one since the directory is missing (`Lost`): each
joins with a fault of its own (`LinesInv`). As long as none overlapped, `PromLag` bounds the lines after
those of `metrics.prom` by the faults, and by one more between a run's append and its `open()`
(`Sequential`).
`RunIsOneStep` follows one run from its start (`Begins`) while the others stand still (`Alone`): at every
place of `main()` either file is as before, whole, or in the case of `metrics.prom` emptied, and at exit
code 0 without a failure both are whole. It is the bridge to `BenchPipeline`. Stating it showed that
`BenchPipeline` left two outcomes out, both files lost and a killed run that wrote its line; it has
them now, and its invariants hold with them.

**Bench and readers.** `Fresh` says what `bench.jsonl` may hold since it was emptied, `OneBench` that
its lines with `run` and `summary` are of one `bench.sh`, counted by the loop variable; `Clean` the order
in which an epoch without a fault fills it. `ReaderInv`, `PageInv` and `BadgeInv` carry what was read
across the steps of the pipeline that happen before it is written.

**How far a run can go.** `RecipeEnds`, `EveryRunEnds` and `JobEnds` are liveness properties. What
a proof of each rests on, a number that every step lowers, is proved: `RecipeRunsDown` (at most
`4 * RunsPerBench + 7` steps of a recipe, and readers do not change the number), `JobsRunDown` (at most
`3 * Tries + 1` steps of a job, whatever server and network do) and `JobRunsDown` (steps of the stability
runner and its clock). `IterationsPaced` bounds the runner in time: iterations are an interval apart, and
without a limit no more are made than begin before the deadline.

**Releases.** `EarnedSuccess`: an answer that lets a job exit with 0 reaches it only after its notes were
written. `OnePublished` holds because the server refuses a second one. With them `ImplementsRegister`
is a case for each action: `serve_post` and `serve_patch` write, success is told, everything else
stutters. `LastOneShows` needs that while the last job started alone, what is on its way is its own
(`Undisturbed`). `PackageFits` holds for any files, changes, runs and faults; that an
unsigned run leaves no signature of its own needs `Unsigned` in the invariant: until it signs, the
signature is of an earlier run.

**Verifier.** Most is arithmetic: `AllowedIsLeast`, `VerdictIsSound`, `LaxerPasses`, `ProfileOrder`,
`TunedAllows`. `RoundedLimit` bounds what four decimals do to a limit: by half a unit either way for the
written allowance (`BundleJustified`, from the fields of the payload alone), and by less than 5% for the
budget suggested for a microsecond or more. The attempt to prove `TuneCovers` failed for a baseline whose median is 0:
`auto_tune_gate()` takes the measurement in its place and `compute_allowed()` does not. Such baselines
are now among those of the run, and the property excludes them.

**Badges.** `Standing` gives `TotalOfLastPage`, `Pending` gives `CalmMissesNone`: an alert moves only
towards the end while none is closed. `OneQuantile`: the index of `bench.sh` is that of the upper
neighbour in the interpolation of the badges and of `replay.cpp`, for any number of samples.
`SlowerNeverHelps` compares the sorted list before and after an insertion, place by place.

**Scripts.** `Debt` counts a stale file that waits to be copied; without it the bound of
`StaleByLossOnly` fails between a replay and its capture. `FenceTransparent` rests on `Listing`: what is
listed stands between the header in line `h` and line `e`, and outside of it there are no rows.
`ReportsFit` is about sums, averages and places in a ranking, which need induction over the rows. The
library's induction theorems take an operator and cannot be used, so the induction is a search for a
least counterexample: a set of positions that is not empty has a least member (`LeastMember`), and the
position before it is none. Rank and first five are cardinalities of sets of positions, not results
of a sort, so that facts about finite sets apply.

Only model-checked, because out of the prover's reach: the temporal part of the three liveness
properties, which needs ENABLED and an induction on the numbers above, and the disagreement of run
`recovery`, where a counterexample is the point.

## 6. Plan

All modules of the plan are written except two small ones: `ParseArgs` (which argument vectors replay
accepts, `REPLAY_MAX_BYTES` at its limit) and `Fnv` (the digest with its 64-bit wrap).

A theorem worth adding: that `BenchPipeline` implements a smaller specification of what the verifier is
promised (one judged line per epoch), of which `FreshUnlessNeverTruncated` is the invariant.

## 7. Not modelled

* Order book and bounded reader headers: no program of the repository uses them.
* Data generators, microbenchmarks, apps and enterprise interfaces: stubs, or arithmetic on random
  data without state.
* The tail matrix and the golden check: each is one replay and a comparison.
* Other workflows and setup scripts: configuration.
* Replay's argument parsing and digest: planned above.
* In modelled parts: doubles and their own rounding, NaN, text formats, CPU pinning, layout of the page,
  torn lines of `bench.jsonl`, names of archives.
* Verifier: baselines with a key whose value is `null` (`verify_bench.py:237-244` then drop one limit).
* Pipeline: `prom_textfile.sh` ends with a `mv`, taken as atomic; between two file systems it copies.
  No writer of `bench.jsonl` outside of `make bench`.
* Stability runner: a second writer of the artifacts it copies, and `ART_DIR`.

`PROJECT.json` gives the reason for each component.
