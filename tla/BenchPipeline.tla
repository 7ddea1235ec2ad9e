--------------------------- MODULE BenchPipeline ---------------------------
(***************************************************************************)
(* The release gate's evidence: `make bench` (Makefile), the scripts       *)
(* bench.sh and prom_textfile.sh it calls, and scripts/verify_bench.py,    *)
(* which CI runs when make has succeeded.  They share bench.jsonl and      *)
(* metrics.prom in one artifact directory and nothing else.                *)
(*                                                                         *)
(* A replay is one step here (Replay has its inside): it may succeed with  *)
(* either file unwritten, or fail with either written.  make ignores the   *)
(* exit codes of the first replay (hidden by the pipe to tee) and of both  *)
(* scripts (`|| true`).                                                    *)
(***************************************************************************)
EXTENDS Integers, Sequences, SequencesExt

CONSTANTS RunsPerBench,   \* argument of bench.sh: 9 in the Makefile
          Epochs,         \* bound: how many times make bench is invoked
          Slack           \* bound: how many steps may fail

ASSUME PipelineAssumption == /\ RunsPerBench \in Nat \ {0}
                             /\ Epochs \in Nat \ {0}
                             /\ Slack \in Nat

VARIABLES
  epoch,      \* history: invocations of make bench so far
  knobs,      \* GAP_PPM and BURST_MS of this one: "gated" or "nominal"
  stage,      \* the recipe line make is at
  phase,      \* where bench.sh is, when stage is one that runs it
  i,          \* its loop variable
  jsonl,      \* bench.jsonl
  prom,       \* metrics.prom, or None
  verdict,    \* what verify_bench.py made of this epoch
  faults,     \* history: steps that failed
  base,       \* history: how many of them before this epoch
  kept        \* history: truncations of bench.jsonl that failed in it

hist == <<epoch, base>>
vars == <<epoch, knobs, stage, phase, i, jsonl, prom, verdict, faults, base,
          kept>>

None == [epoch |-> 0, tails |-> FALSE, p99 |-> "absent", publish |-> TRUE]

(* Stages: the lines of the recipe; in "bench" and "textfile" bench.sh     *)
(* runs, called by the Makefile and by prom_textfile.sh.                   *)
Stages == {"idle", "knobs", "bench", "textfile", "publish", "ensure",
           "made", "failed"}
AtRest == stage \in {"idle", "made", "failed"}

Phases == {"truncate", "replay", "record", "summary", "off"}

Kinds == {"telemetry", "run", "summary", "minimal"}
Line == [kind : Kinds, epoch : 1..Epochs, knobs : {"gated", "nominal"},
         good : BOOLEAN]
-----------------------------------------------------------------------------
(* A line of this epoch; good says whether its p99 is within the budget.   *)
L(kind, k, good) ==
  [kind |-> kind, epoch |-> epoch, knobs |-> k, good |-> good]

Fail == /\ faults < Slack
        /\ faults' = faults + 1

(* The line and the metrics of a replay with knobs k. *)
write_jsonl(k) ==
  \E good \in BOOLEAN : jsonl' = Append(jsonl, L("telemetry", k, good))

prom_of(k) == [epoch |-> epoch, tails |-> TRUE, p99 |-> "event",
               publish |-> k = "nominal"]

(* One run of replay that exits 0; writes of the evidence may be lost, and *)
(* that of metrics.prom after the file was truncated.                      *)
ReplayOk(k) ==
  \/ write_jsonl(k) /\ prom' = prom_of(k) /\ UNCHANGED faults
  \/ /\ Fail
     /\ \/ write_jsonl(k) /\ prom' \in {prom, None}
        \/ UNCHANGED jsonl /\ prom' \in {prom, None, prom_of(k)}

(* One that does not, or is killed at any moment: what it had written stays. *)
ReplayFails(k) == /\ Fail
                  /\ write_jsonl(k) \/ UNCHANGED jsonl
                  /\ prom' \in {prom, None, prom_of(k)}
-----------------------------------------------------------------------------
Init == /\ epoch = 0
        /\ knobs = "nominal"
        /\ stage = "idle"
        /\ phase = "off"
        /\ i = 0
        /\ jsonl = <<>>
        /\ prom = None
        /\ verdict = "none"
        /\ faults = 0
        /\ base = 0
        /\ kept = 0

(* make bench with some knobs: mkdir -p, then the first recipe line. *)
make_bench == /\ AtRest
              /\ epoch < Epochs
              /\ epoch' = epoch + 1
              /\ knobs' \in {"gated", "nominal"}
              /\ stage' = "knobs"
              /\ verdict' = "none"
              /\ base' = faults
              /\ kept' = 0
              /\ UNCHANGED <<phase, i, jsonl, prom, faults>>

(* 1) Run with current knobs; a failure disappears in the pipe. *)
run_knobs == /\ stage = "knobs"
             /\ ReplayOk(knobs) \/ ReplayFails(knobs)
             /\ stage' = "bench"
             /\ phase' = "truncate"
             /\ UNCHANGED <<hist, knobs, i, kept, verdict>>

(* Variant: the textfile step starts the bench over. *)
AfterBench_again(printed) == /\ phase' = "truncate"
                             /\ UNCHANGED stage

(* bench.sh is over: the Makefile goes on whether it succeeded or not, but *)
(* prom_textfile.sh publishes only if a line with quantiles was printed:   *)
(* its read fails at end of input, and set -e ends it.                     *)
AfterBench(printed) ==
  /\ phase' = IF stage = "bench" THEN "truncate" ELSE "off"
  /\ stage' = IF stage = "bench" THEN "textfile"
              ELSE IF printed THEN "publish" ELSE "ensure"

(* Variant: the file is touched, not truncated. *)
truncate_append == /\ phase = "truncate"
                   /\ i' = 1
                   /\ phase' = "replay"
                   /\ UNCHANGED <<hist, knobs, stage, jsonl, prom, verdict,
                                  faults, kept>>

(* > "$outfile" *)
truncate == /\ phase = "truncate"
            /\ \/ /\ jsonl' = <<>>
                  /\ i' = 1
                  /\ phase' = "replay"
                  /\ UNCHANGED <<stage, faults, kept>>
               \/ /\ Fail
                  /\ kept' = kept + 1
                  /\ AfterBench(FALSE)
                  /\ UNCHANGED <<i, jsonl>>
            /\ UNCHANGED <<hist, knobs, prom, verdict>>

(* line="$(./build/bin/replay ...)": set -e ends the script if it fails. *)
bench_replay == /\ phase = "replay"
                /\ \/ /\ ReplayOk("nominal")
                      /\ phase' = "record"
                      /\ UNCHANGED stage
                   \/ /\ ReplayFails("nominal")
                      /\ AfterBench(FALSE)
                /\ UNCHANGED <<hist, knobs, i, kept, verdict>>

(* echo "{\"run\":$i,...}" >> "$outfile" *)
record_run == /\ phase = "record"
              /\ \/ /\ jsonl' = Append(jsonl, L("run", "nominal", TRUE))
                    /\ i' = i + 1
                    /\ phase' = IF i < RunsPerBench THEN "replay" ELSE "summary"
                    /\ UNCHANGED <<stage, faults>>
                 \/ /\ Fail
                    /\ AfterBench(FALSE)
                    /\ UNCHANGED <<i, jsonl>>
              /\ UNCHANGED <<hist, knobs, prom, kept, verdict>>

(* Print the quantiles, then append the summary, which may fail. *)
append_summary == /\ phase = "summary"
                  /\ \/ /\ jsonl' = Append(jsonl, L("summary", "nominal", TRUE))
                        /\ UNCHANGED faults
                     \/ Fail /\ UNCHANGED jsonl
                  /\ AfterBench(TRUE)
                  /\ UNCHANGED <<hist, knobs, i, prom, kept, verdict>>

(* Variant: the old file is not carried over. *)
prom_textfile_fresh == /\ stage = "publish"
                       /\ prom' = [None EXCEPT !.p99 = "elapsed"]
                       /\ stage' = "ensure"
                       /\ UNCHANGED <<hist, knobs, phase, i, jsonl, faults,
                                      kept, verdict>>

(* The rest of prom_textfile.sh: replace the latency metrics of the file   *)
(* by bench.sh's, keep the others, and default publish to 1; an awk, mktemp *)
(* or mv that fails leaves the file alone.                                 *)
prom_textfile == /\ stage = "publish"
                 /\ \/ /\ prom' = [prom EXCEPT !.p99 = "elapsed"]
                       /\ UNCHANGED faults
                    \/ Fail /\ UNCHANGED prom
                 /\ stage' = "ensure"
                 /\ UNCHANGED <<hist, knobs, phase, i, jsonl, kept, verdict>>

(* 3) Ensure bench.jsonl exists; 4) bundle the tarball. *)
ensure_bench == /\ stage = "ensure"
                /\ jsonl' = IF jsonl = <<>> THEN <<L("minimal", knobs, FALSE)>>
                                            ELSE jsonl
                /\ stage' = "made"
                /\ UNCHANGED <<hist, knobs, phase, i, prom, faults, kept,
                               verdict>>

(* Any other command of the recipe failing (mkdir, tee, echo, mv), or the   *)
(* job being cancelled, ends make with an error: CI goes no further.        *)
abort == /\ ~AtRest
         /\ Fail
         /\ stage' = "failed"
         /\ phase' = "off"
         /\ UNCHANGED <<hist, knobs, i, jsonl, prom, kept, verdict>>

(* _read_first_json_line(): the line the gate judges. *)
Judged == Head(jsonl)

(* parse_bench() needs p99_ms and samples, parse_prom_metrics() the tail   *)
(* metrics; without them the program exits before it decides.              *)
Parses == Judged.kind = "telemetry" /\ prom.tails /\ prom.p99 # "absent"

verify_bench == /\ stage = "made"
                /\ verdict = "none"
                /\ verdict' = IF ~Parses THEN "refused"
                              ELSE IF Judged.good THEN "PASS" ELSE "FAIL"
                /\ UNCHANGED <<hist, knobs, stage, phase, i, jsonl, prom,
                               faults, kept>>

Recipe == \/ run_knobs \/ truncate \/ bench_replay \/ record_run
          \/ append_summary \/ prom_textfile \/ ensure_bench \/ abort

Done == AtRest /\ epoch = Epochs /\ UNCHANGED vars

Next == make_bench \/ Recipe \/ verify_bench \/ Done

(* Once started a recipe goes on: make and the shells it starts are        *)
(* sequential and wait for nothing.                                        *)
Spec == Init /\ [][Next]_vars /\ WF_vars(Recipe)
-----------------------------------------------------------------------------
TypeOK == /\ epoch \in 0..Epochs
          /\ knobs \in {"gated", "nominal"}
          /\ stage \in Stages
          /\ phase \in Phases
          /\ i \in 0..RunsPerBench + 1
          /\ jsonl \in Seq(Line)
          /\ prom \in [epoch : 0..Epochs, tails : BOOLEAN,
                       p99 : {"absent", "event", "elapsed"},
                       publish : BOOLEAN]
          /\ verdict \in {"none", "PASS", "FAIL", "refused"}
          /\ faults \in 0..Slack
          /\ base \in 0..faults
          /\ kept \in 0..2

Decided == verdict \in {"PASS", "FAIL"}

(* Where the lines of a kind are in a file. *)
Those(file, kind) == {n \in DOMAIN file : file[n].kind = kind}

(***************************************************************************)
(* The gate judges a fresh, ungated measurement whatever else fails in     *)
(* between: a verdict about an older epoch, or about the run with stress   *)
(* knobs, takes two failed truncations in one epoch, one in each bench.sh. *)
(***************************************************************************)
FreshUnlessNeverTruncated ==
  Decided /\ kept < 2 => Judged.epoch = epoch /\ Judged.knobs = "nominal"

(***************************************************************************)
(* An epoch in which nothing fails is always judged, never refused, on the *)
(* evidence of all its runs: no interplay of the scripts loses the tail    *)
(* metrics or puts another line first.                                     *)
(***************************************************************************)
CleanEpochIsJudged ==
  stage = "made" /\ faults = base =>
    /\ verdict # "refused"
    /\ Cardinality(Those(jsonl, "telemetry")) = RunsPerBench
    /\ \A n \in DOMAIN jsonl : jsonl[n].epoch = epoch
    /\ prom = [epoch |-> epoch, tails |-> TRUE, p99 |-> "elapsed",
               publish |-> TRUE]

(***************************************************************************)
(* make bench comes to an end, whatever fails in its scripts.              *)
(***************************************************************************)
RecipeEnds == ~AtRest ~> AtRest

=============================================================================
