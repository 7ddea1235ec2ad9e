--------------------------- MODULE BenchReaders ---------------------------
(***************************************************************************)
(* The programs that read what make bench writes, at any moment of it:     *)
(* scripts/bench_report.py renders bench.jsonl and metrics.prom as a page, *)
(* scripts/update_performance_badges.py turns bench.jsonl into two badge   *)
(* files.  Nothing keeps them from running while the recipe does, and the  *)
(* report reads its two files one after the other.                         *)
(*                                                                         *)
(* A missing file and an empty one read alike in both programs, so <<>>    *)
(* and None stand for both here as they do in BenchPipeline.               *)
(***************************************************************************)
EXTENDS BenchPipeline

CONSTANT Readings     \* bound: how often a reader is started

ASSUME ReadersAssumption == Readings \in Nat

VARIABLES
  started,    \* history: readers started so far
  reader,     \* what the running reader holds, or Idle
  page,       \* report/index.html
  perf,       \* badges/performance.json
  extra,      \* badges/performance_extra.json
  badged      \* exit code of the last run of the badges, 0 before any

files == <<page, perf, extra, badged>>
allvars == <<vars, started, reader, files>>

Idle == [at |-> "idle"]
Absent == [state |-> "absent"]
Torn == [state |-> "torn"]
-----------------------------------------------------------------------------
EpochsOf(file, lines) == {file[n].epoch : n \in lines}

(* Variant: the summary line, which says how many runs, taken for a run.   *)
parse_bench_jsonl_loose(file) ==
  LET runs == Those(file, "run") \cup Those(file, "summary")
      summaries == Those(file, "summary")
  IN [runs    |-> Cardinality(runs),
      of      |-> EpochsOf(file, runs),
      summary |-> IF summaries = {} THEN 0 ELSE file[Max(summaries)].epoch]

(* The lines with "run" become points of the chart, the last one with      *)
(* "summary" the cards; telemetry and the minimal line have neither key.   *)
(* Of the points we keep how many they are and of which epochs, of the     *)
(* cards the epoch, 0 without a summary.                                   *)
parse_bench_jsonl(file) ==
  LET runs == Those(file, "run")
      summaries == Those(file, "summary")
  IN [runs    |-> Cardinality(runs),
      of      |-> EpochsOf(file, runs),
      summary |-> IF summaries = {} THEN 0 ELSE file[Max(summaries)].epoch]

(* Every "key value" line of the textfile. *)
parse_prom_metrics(file) == file

(* The page: a chart of the runs, the cards when there is a summary, and a *)
(* table of the metrics.  settled is history: both files were read after   *)
(* one undisturbed make bench.                                             *)
generate_html_report(bench, metrics, settled) ==
  [state   |-> "shown",
   chart   |-> bench.runs,
   of      |-> bench.of,
   cards   |-> bench.summary,
   table   |-> metrics,
   settled |-> settled]

(* The recipe is over and nothing failed in it. *)
Undisturbed == stage = "made" /\ faults = base

(* _load_summary(): the quantiles of the last summary, else those of all   *)
(* elapsed_ms, which only the runs have.                                   *)
load_summary == LET bench == parse_bench_jsonl(jsonl) IN
  [state |-> "shown",
   from  |-> IF bench.summary = 0 THEN "samples" ELSE "summary",
   runs  |-> bench.runs,
   of    |-> bench.of]

(* statistics.median() of nothing raises. *)
Measured == \E n \in DOMAIN jsonl : jsonl[n].kind \in {"run", "summary"}
-----------------------------------------------------------------------------
ReadersInit == /\ Init
               /\ started = 0
               /\ reader = Idle
               /\ page = Absent
               /\ perf = Absent
               /\ extra = Absent
               /\ badged = 0

Start == reader = Idle /\ started < Readings /\ started' = started + 1

report_reads_bench ==
  /\ Start
  /\ reader' = [at |-> "metrics", bench |-> parse_bench_jsonl(jsonl),
                epoch |-> epoch, settled |-> Undisturbed]
  /\ UNCHANGED <<vars, files>>

(* The metrics, the page, and its file. *)
report_writes ==
  /\ reader.at = "metrics"
  /\ \/ /\ page' = generate_html_report(reader.bench, parse_prom_metrics(prom),
                     reader.settled /\ Undisturbed /\ reader.epoch = epoch)
        /\ UNCHANGED faults
     \/ Fail /\ page' \in {page, Torn}
  /\ reader' = Idle
  /\ UNCHANGED <<hist, knobs, stage, phase, i, jsonl, prom, verdict, kept,
                 started, perf, extra, badged>>

(* main() of the badges up to the first write. *)
badges_read ==
  /\ Start
  /\ \/ /\ Measured
        /\ reader' = [at |-> "perf", badge |-> load_summary]
        /\ UNCHANGED badged
     \/ ~Measured /\ badged' = 1 /\ UNCHANGED reader
  /\ UNCHANGED <<vars, page, perf, extra>>

(* write_badges(): one file after the other.                               *)
badge_fails == Fail /\ badged' = 1 /\ reader' = Idle

write_perf ==
  /\ reader.at = "perf"
  /\ \/ /\ perf' = reader.badge
        /\ reader' = [reader EXCEPT !.at = "extra"]
        /\ UNCHANGED <<faults, badged>>
     \/ badge_fails /\ perf' \in {perf, Torn}
  /\ UNCHANGED <<hist, knobs, stage, phase, i, jsonl, prom, verdict, kept,
                 started, page, extra>>

(* Variant: the file is read once more. *)
write_extra_reread ==
  /\ reader.at = "extra"
  /\ extra' = load_summary /\ badged' = 0 /\ reader' = Idle
  /\ UNCHANGED <<vars, started, page, perf>>

write_extra ==
  /\ reader.at = "extra"
  /\ \/ /\ extra' = reader.badge
        /\ badged' = 0
        /\ reader' = Idle
        /\ UNCHANGED faults
     \/ badge_fails /\ extra' \in {extra, Torn}
  /\ UNCHANGED <<hist, knobs, stage, phase, i, jsonl, prom, verdict, kept,
                 started, page, perf>>

Readers == \/ report_reads_bench \/ report_writes
           \/ badges_read \/ write_perf \/ write_extra

ReadersDone == Done /\ reader = Idle /\ UNCHANGED allvars

ReadersNext == \/ (make_bench \/ Recipe \/ verify_bench)
                  /\ UNCHANGED <<started, reader, files>>
               \/ Readers
               \/ ReadersDone

ReadersSpec == /\ ReadersInit
               /\ [][ReadersNext]_allvars
               /\ WF_allvars(Recipe /\ UNCHANGED <<started, reader, files>>)
-----------------------------------------------------------------------------
ReadersTypeOK ==
  /\ TypeOK
  /\ started \in 0..Readings
  /\ reader.at \in {"idle", "metrics", "perf", "extra"}
  /\ page.state \in {"absent", "torn", "shown"}
  /\ page.state = "shown" => /\ page.chart \in 0..RunsPerBench
                             /\ page.cards \in 0..Epochs
                             /\ page.table.epoch \in 0..Epochs
  /\ \A b \in {perf, extra} :
       b.state = "shown" => b.runs \in 0..RunsPerBench /\ b.of \subseteq 1..Epochs
  /\ badged \in {0, 1}

(***************************************************************************)
(* Whenever the report is made, and whatever failed, its chart and its     *)
(* cards are of one bench.sh: points of one epoch, and with cards all the  *)
(* points of the epoch the cards are of.                                   *)
(***************************************************************************)
PageTellsOneBench ==
  page.state = "shown" =>
    /\ \A e, f \in page.of : e = f
    /\ page.cards # 0 => page.chart = RunsPerBench /\ page.of = {page.cards}

(***************************************************************************)
(* A page made after an undisturbed make bench, with no other one begun    *)
(* before both files were read, shows it whole: every run, the summary,    *)
(* and the quantiles prom_textfile.sh published with the tails of the last *)
(* replay.                                                                 *)
(***************************************************************************)
SettledPageIsWhole ==
  page.state = "shown" /\ page.settled =>
    /\ page.chart = RunsPerBench
    /\ page.cards = page.table.epoch
    /\ page.table = [epoch |-> page.cards, tails |-> TRUE, p99 |-> "elapsed",
                     publish |-> TRUE]

(***************************************************************************)
(* A badge is a measurement: quantiles of a summary are over every run of  *)
(* the bench, quantiles of the samples over some runs of one bench, and    *)
(* the minimal line of a failed bench never becomes one.  The two files    *)
(* show the same measurement whenever the last run of the script           *)
(* succeeded, though bench.jsonl may be written between them.              *)
(***************************************************************************)
BadgesTellOneBench ==
  /\ \A b \in {perf, extra} : b.state = "shown" =>
       /\ \E e \in 1..Epochs : b.of = {e}
       /\ b.from = "summary" => b.runs = RunsPerBench
  /\ reader.at # "extra" /\ badged = 0 => perf = extra
=============================================================================
