------------------------- MODULE BenchReadersProofs -------------------------
(***************************************************************************)
(* Theorems about make bench and its readers (BenchPipeline and            *)
(* BenchReaders), for every number of runs per bench, of invocations, of   *)
(* failures and of readers started meanwhile; at the end, how many steps a *)
(* recipe can take.                                                        *)
(***************************************************************************)
EXTENDS BenchReaders, SequenceTheorems, FiniteSetTheorems, TLAPS

Tele == Those(jsonl, "telemetry")
RunLines == Those(jsonl, "run")
Summaries == Those(jsonl, "summary")

InBench == phase \in {"replay", "record", "summary"}
Late == stage \in {"publish", "ensure", "made"}

(***************************************************************************)
(* Where the recipe is: bench.sh runs in two of its stages only, its loop  *)
(* variable is within bounds, at most one truncation failed per bench.sh,  *)
(* and only a finished make is judged.                                     *)
(***************************************************************************)
Control ==
  /\ phase = "off" <=> stage \notin {"bench", "textfile"}
  /\ stage # "idle" => epoch >= 1
  /\ phase \in {"replay", "record"} => i \in 1..RunsPerBench
  /\ phase = "summary" => i = RunsPerBench + 1
  /\ stage \in {"knobs", "bench"} => kept = 0
  /\ stage = "textfile" => kept \in {0, 1}
  /\ verdict # "none" => stage = "made"
  /\ stage = "made" => jsonl # <<>>
  /\ Decided => Judged.kind = "telemetry"

(* A truncation succeeded in this epoch. *)
Truncated == \/ stage = "bench" /\ phase # "truncate"
             \/ stage = "textfile" /\ (phase # "truncate" \/ kept = 0)
             \/ Late /\ kept < 2

(* Since then the file has only lines of this epoch, and only the minimal  *)
(* line tells of its stress knobs.                                         *)
Fresh == Truncated =>
           \A n \in DOMAIN jsonl :
             /\ jsonl[n].epoch = epoch
             /\ jsonl[n].kind # "minimal" => jsonl[n].knobs = "nominal"

(***************************************************************************)
(* The lines with "run" and "summary" are at any moment those of one       *)
(* bench.sh: while it runs, as many as it has appended, and no summary     *)
(* before it has appended them all.                                        *)
(***************************************************************************)
BenchLines ==
  /\ \A m, n \in RunLines : jsonl[m].epoch = jsonl[n].epoch
  /\ \A m, n \in Summaries : m = n
  /\ \A n \in Summaries : /\ Cardinality(RunLines) = RunsPerBench
                          /\ \A m \in RunLines :
                               jsonl[m].epoch = jsonl[n].epoch
  /\ Cardinality(RunLines) <= RunsPerBench

OneBench ==
  /\ BenchLines
  /\ InBench => /\ Summaries = {}
                /\ Cardinality(RunLines) = i - 1
                /\ \A m \in RunLines : jsonl[m].epoch = epoch

(* The metrics file of a nominal replay of this epoch. *)
Nominal(p99) == [epoch |-> epoch, tails |-> TRUE, p99 |-> p99,
                 publish |-> TRUE]

(* In an epoch without a fault a telemetry line comes first, there is one  *)
(* for every run so far, and the metrics are those of the last of them.    *)
Clean ==
  faults = base =>
    /\ kept = 0
    /\ (InBench \/ Late) /\ jsonl # <<>> => Judged.kind = "telemetry"
    /\ phase \in {"record", "summary"} \/ (phase = "replay" /\ i > 1) \/ Late
         => jsonl # <<>>
    /\ phase \in {"record", "summary"} \/ (phase = "replay" /\ i > 1)
         => prom = Nominal("event")
    /\ phase \in {"replay", "summary"} => Cardinality(Tele) = i - 1
    /\ phase = "record" => Cardinality(Tele) = i
    /\ Late => Cardinality(Tele) = RunsPerBench /\ Summaries # {}
    /\ stage = "publish" => prom = Nominal("event")
    /\ stage \in {"ensure", "made"} => prom = Nominal("elapsed")
    /\ verdict # "refused"

PipelineInv == TypeOK /\ Control /\ Fresh /\ OneBench /\ Clean
-----------------------------------------------------------------------------
(* What parsing bench.jsonl at any moment yields: lines of one bench. *)
Parsed == [runs : 0..RunsPerBench, of : SUBSET (1..Epochs),
           summary : 0..Epochs]

OfOneBench(bench) ==
  /\ \A e, f \in bench.of : e = f
  /\ bench.summary # 0 => /\ bench.runs = RunsPerBench
                          /\ bench.of = {bench.summary}

Badge == [state : {"shown"}, from : {"samples", "summary"},
          runs : 0..RunsPerBench, of : SUBSET (1..Epochs)]

Measurement(badge) ==
  /\ badge \in Badge
  /\ \E e \in 1..Epochs : badge.of = {e}
  /\ badge.from = "summary" => badge.runs = RunsPerBench

(* What a reader holds between its steps. *)
ReportReader == [at : {"metrics"}, bench : Parsed, epoch : 0..Epochs,
                 settled : BOOLEAN]
BadgeReader == [at : {"perf", "extra"}, badge : Badge]

ReaderInv ==
  /\ reader \in {Idle} \cup ReportReader \cup BadgeReader
  /\ reader.at = "metrics" =>
       /\ OfOneBench(reader.bench)
       /\ reader.settled => /\ reader.bench.runs = RunsPerBench
                            /\ reader.bench.summary = reader.epoch
  /\ reader.at \in {"perf", "extra"} => Measurement(reader.badge)

PageInv == page \in {Absent, Torn} \/
             /\ page.state = "shown"
             /\ page.chart \in 0..RunsPerBench
             /\ page.cards \in 0..Epochs
             /\ page.table.epoch \in 0..Epochs
             /\ PageTellsOneBench
             /\ SettledPageIsWhole

BadgeInv ==
  /\ \A b \in {perf, extra} : b \in {Absent, Torn} \/ Measurement(b)
  /\ badged \in {0, 1}
  /\ reader.at = "extra" => perf = reader.badge
  /\ reader.at # "extra" /\ badged = 0 => perf = extra

FilesInv == started \in 0..Readings /\ ReaderInv /\ PageInv /\ BadgeInv

IInv == PipelineInv /\ FilesInv
-----------------------------------------------------------------------------
(* A step of make, and what a reader may do to the pipeline's variables. *)
MakeStep == make_bench \/ Recipe \/ verify_bench
ReaderStep == /\ UNCHANGED <<hist, knobs, stage, phase, i, jsonl, prom,
                             verdict, kept>>
              /\ Fail \/ UNCHANGED faults

(* The lines of a kind are finitely many, and none in an empty file. *)
LEMMA ThoseFinite ==
  ASSUME NEW file \in Seq(Line), NEW kind
  PROVE  /\ IsFiniteSet(Those(file, kind))
         /\ Those(file, kind) \subseteq 1..Len(file)
         /\ Cardinality(Those(file, kind)) \in Nat
         /\ Cardinality(Those(file, kind)) = 0 <=> Those(file, kind) = {}
  <1>1. Len(file) \in Nat /\ DOMAIN file = 1..Len(file)
    BY LenProperties
  <1>2. Those(file, kind) \subseteq 1..Len(file)
    BY <1>1 DEF Those
  <1>3. IsFiniteSet(1..Len(file))
    BY <1>1, FS_Interval
  <1>4. IsFiniteSet(Those(file, kind))
    BY <1>2, <1>3, FS_Subset
  <1>5. QED
    BY <1>2, <1>4, FS_CardinalityType, FS_EmptySet

LEMMA ThoseOfNone ==
  ASSUME NEW kind
  PROVE  Those(<<>>, kind) = {}
  BY DEF Those

(* A line appended adds its index to those of its kind. *)
LEMMA ThoseAppend ==
  ASSUME NEW file \in Seq(Line), NEW l \in Line
  PROVE  LET new == Append(file, l) IN
         /\ new \in Seq(Line) /\ new # <<>>
         /\ Len(file) \in Nat
         /\ DOMAIN file = 1..Len(file)
         /\ DOMAIN new = 1..(Len(file) + 1)
         /\ \A n \in 1..Len(file) : new[n] = file[n]
         /\ new[Len(file) + 1] = l
         /\ Head(new) = IF file = <<>> THEN l ELSE Head(file)
         /\ \A kind : Those(new, kind) = IF l.kind = kind
                         THEN Those(file, kind) \cup {Len(file) + 1}
                         ELSE Those(file, kind)
  <1> DEFINE k == Len(file)
             new == Append(file, l)
  <1>1. /\ new \in Seq(Line) /\ new # <<>>
        /\ k \in Nat
        /\ DOMAIN file = 1..k
        /\ Len(new) = k + 1
        /\ \A n \in 1..k : new[n] = file[n]
        /\ new[k + 1] = l
    BY AppendProperties, LenProperties
  <1>2. DOMAIN new = 1..(k + 1)
    BY <1>1, LenProperties
  <1>3. Head(new) = IF file = <<>> THEN l ELSE Head(file)
    BY HeadTailAppend
  <1> HIDE DEF k, new
  <1>4. ASSUME NEW kind
        PROVE  Those(new, kind) = IF l.kind = kind
                 THEN Those(file, kind) \cup {k + 1} ELSE Those(file, kind)
    <2>1. \A n : n \in 1..(k + 1) <=> n \in 1..k \/ n = k + 1
      BY <1>1
    <2>2. \A n : n \in Those(new, kind)
                   <=> n \in Those(file, kind) \/ (n = k + 1 /\ l.kind = kind)
      BY <1>1, <1>2, <2>1 DEF Those
    <2>3. QED
      BY <2>2
  <1>5. QED
    BY <1>1, <1>2, <1>3, <1>4 DEF k, new

LEMMA CardinalityAppend ==
  ASSUME NEW file \in Seq(Line), NEW l \in Line, NEW kind
  PROVE  Cardinality(Those(Append(file, l), kind)) =
           IF l.kind = kind THEN Cardinality(Those(file, kind)) + 1
                            ELSE Cardinality(Those(file, kind))
  <1>1. Len(file) + 1 \notin Those(file, kind)
    BY ThoseFinite, LenProperties
  <1>2. IsFiniteSet(Those(file, kind))
    BY ThoseFinite
  <1>3. Those(Append(file, l), kind) = IF l.kind = kind
           THEN Those(file, kind) \cup {Len(file) + 1}
           ELSE Those(file, kind)
    BY ThoseAppend
  <1>4. Cardinality(Those(file, kind) \cup {Len(file) + 1})
          = Cardinality(Those(file, kind)) + 1
    BY <1>1, <1>2, FS_AddElement
  <1>5. QED
    BY <1>3, <1>4

(* Head is the first line. *)
LEMMA FirstIsHead ==
  ASSUME NEW file \in Seq(Line), file # <<>>
  PROVE  Head(file) = file[1] /\ 1 \in DOMAIN file
  BY LenProperties

LEMMA OneLineSeq ==
  ASSUME NEW l \in Line
  PROVE  /\ <<l>> \in Seq(Line)
         /\ <<l>> # <<>> /\ Head(<<l>>) = l
         /\ DOMAIN <<l>> = {1} /\ <<l>>[1] = l
         /\ \A kind : kind # l.kind => Those(<<l>>, kind) = {}
  <1>1. /\ <<l>> \in Seq(Line) /\ <<l>> # <<>> /\ Head(<<l>>) = l
        /\ DOMAIN <<l>> = {1} /\ <<l>>[1] = l
    OBVIOUS
  <1>2. \A kind : kind # l.kind => Those(<<l>>, kind) = {}
    BY <1>1 DEF Those
  <1>3. QED
    BY <1>1, <1>2

(* In the recipe there is an epoch, so its lines are lines. *)
LEMMA LineType ==
  ASSUME TypeOK, Control, stage # "idle", NEW kind \in Kinds,
         NEW k \in {"gated", "nominal"}, NEW good \in BOOLEAN
  PROVE  L(kind, k, good) \in Line
  BY PipelineAssumption DEF TypeOK, Control, L, Line

(* What replay may do to the two files. *)
LEMMA ReplayEffect ==
  ASSUME NEW k, ReplayOk(k) \/ ReplayFails(k)
  PROVE  /\ \/ jsonl' = jsonl
            \/ \E good \in BOOLEAN :
                 jsonl' = Append(jsonl, L("telemetry", k, good))
         /\ \/ prom' \in {prom, None}
            \/ prom' = [epoch |-> epoch, tails |-> TRUE, p99 |-> "event",
                        publish |-> k = "nominal"]
         /\ Fail \/ faults' = faults
  BY DEF ReplayOk, ReplayFails, write_jsonl, prom_of, Fail

LEMMA ReplayInPlace ==
  ASSUME TypeOK, NEW k, ReplayOk(k) \/ ReplayFails(k), faults' = faults
  PROVE  /\ ReplayOk(k)
         /\ \E good \in BOOLEAN :
              jsonl' = Append(jsonl, L("telemetry", k, good))
         /\ prom' = [epoch |-> epoch, tails |-> TRUE, p99 |-> "event",
                     publish |-> k = "nominal"]
  <1>1. ~Fail
    BY PipelineAssumption DEF TypeOK, Fail
  <1>2. QED
    BY <1>1 DEF ReplayOk, ReplayFails, write_jsonl, prom_of
-----------------------------------------------------------------------------
LEMMA InitPipeline == Init => PipelineInv
  <1> SUFFICES ASSUME Init
               PROVE  PipelineInv
    OBVIOUS
  <1>1. jsonl = <<>> /\ Those(jsonl, "run") = {}
        /\ Those(jsonl, "summary") = {}
    BY ThoseOfNone DEF Init
  <1>2. TypeOK
    <2>1. <<>> \in Seq(Line)
      OBVIOUS
    <2>2. QED
      BY <2>1, PipelineAssumption DEF Init, TypeOK, Stages, Phases, None
  <1>3. Control
    BY DEF Init, Control, Decided
  <1>4. Fresh
    BY <1>1 DEF Fresh
  <1>5. OneBench
    BY <1>1, FS_EmptySet, PipelineAssumption
       DEF Init, OneBench, BenchLines, RunLines, Summaries, InBench
  <1>6. Clean
    BY DEF Init, Clean, InBench, Late
  <1>7. QED
    BY <1>2, <1>3, <1>4, <1>5, <1>6 DEF PipelineInv

(* Types: lines stay lines of an epoch that exists. *)
LEMMA StepType ==
  ASSUME PipelineInv, MakeStep
  PROVE  TypeOK'
  <1> USE PipelineAssumption DEF PipelineInv
  <1>1. ~AtRest => stage # "idle" /\ epoch \in 1..Epochs
    BY DEF AtRest, Control, TypeOK
  <1>2. phase \in {"truncate", "replay", "record", "summary"}
          => stage \in {"bench", "textfile"}
    BY DEF Control
  <1>3. jsonl' \in Seq(Line)
    <2>1. ASSUME NEW k \in {"gated", "nominal"}, stage # "idle",
                 ReplayOk(k) \/ ReplayFails(k)
          PROVE  jsonl' \in Seq(Line)
      <3>1. CASE jsonl' = jsonl
        BY <3>1 DEF TypeOK
      <3>2. ASSUME NEW good \in BOOLEAN,
                   jsonl' = Append(jsonl, L("telemetry", k, good))
            PROVE  jsonl' \in Seq(Line)
        <4>1. L("telemetry", k, good) \in Line
          BY <2>1, LineType DEF Kinds
        <4>2. QED
          BY <3>2, <4>1, AppendProperties DEF TypeOK
      <3>3. QED
        BY <2>1, <3>1, <3>2, ReplayEffect
    <2>2. CASE run_knobs
      BY <2>1, <2>2 DEF run_knobs, TypeOK
    <2>3. CASE bench_replay
      BY <1>2, <2>1, <2>3 DEF bench_replay
    <2>4. CASE record_run
      <3>1. L("run", "nominal", TRUE) \in Line
        BY <1>2, <2>4, LineType DEF record_run, Kinds
      <3>2. jsonl \in Seq(Line)
        BY DEF TypeOK
      <3>3. \/ jsonl' = jsonl
            \/ jsonl' = Append(jsonl, L("run", "nominal", TRUE))
        BY <2>4 DEF record_run
      <3>4. Append(jsonl, L("run", "nominal", TRUE)) \in Seq(Line)
        BY <3>1, <3>2, AppendProperties
      <3>5. QED
        BY <3>2, <3>3, <3>4
    <2>5. CASE append_summary
      <3>1. L("summary", "nominal", TRUE) \in Line
        BY <1>2, <2>5, LineType DEF append_summary, Kinds
      <3>2. jsonl \in Seq(Line)
        BY DEF TypeOK
      <3>3. \/ jsonl' = jsonl
            \/ jsonl' = Append(jsonl, L("summary", "nominal", TRUE))
        BY <2>5 DEF append_summary
      <3>4. Append(jsonl, L("summary", "nominal", TRUE)) \in Seq(Line)
        BY <3>1, <3>2, AppendProperties
      <3>5. QED
        BY <3>2, <3>3, <3>4
    <2>6. CASE ensure_bench
      <3>1. L("minimal", knobs, FALSE) \in Line
        BY <2>6, LineType DEF ensure_bench, Kinds, TypeOK
      <3>2. <<L("minimal", knobs, FALSE)>> \in Seq(Line)
        BY <3>1, OneLineSeq
      <3>3. QED
        BY <2>6, <3>2 DEF ensure_bench, TypeOK
    <2>7. CASE truncate
      <3>1. jsonl' = jsonl \/ jsonl' = <<>>
        BY <2>7 DEF truncate
      <3>2. <<>> \in Seq(Line)
        OBVIOUS
      <3>3. QED
        BY <3>1, <3>2 DEF TypeOK
    <2>8. CASE make_bench \/ prom_textfile \/ abort \/ verify_bench
      BY <2>8 DEF make_bench, prom_textfile, abort, verify_bench, TypeOK
    <2>9. QED
      BY <2>2, <2>3, <2>4, <2>5, <2>6, <2>7, <2>8 DEF MakeStep, Recipe
  <1>4. prom' \in [epoch : 0..Epochs, tails : BOOLEAN,
                   p99 : {"absent", "event", "elapsed"}, publish : BOOLEAN]
    <2>1. None \in [epoch : 0..Epochs, tails : BOOLEAN,
                    p99 : {"absent", "event", "elapsed"}, publish : BOOLEAN]
      BY DEF None
    <2>2. ASSUME NEW k
          PROVE  [epoch |-> epoch, tails |-> TRUE, p99 |-> "event",
                  publish |-> k = "nominal"]
                   \in [epoch : 0..Epochs, tails : BOOLEAN,
                        p99 : {"absent", "event", "elapsed"},
                        publish : BOOLEAN]
      BY DEF TypeOK
    <2>3. CASE run_knobs \/ bench_replay
      <3>1. PICK k : ReplayOk(k) \/ ReplayFails(k)
        BY <2>3 DEF run_knobs, bench_replay
      <3>2. \/ prom' \in {prom, None}
            \/ prom' = [epoch |-> epoch, tails |-> TRUE, p99 |-> "event",
                        publish |-> k = "nominal"]
        BY <3>1, ReplayEffect
      <3>3. QED
        BY <2>1, <2>2, <3>2 DEF TypeOK
    <2>4. CASE prom_textfile
      BY <2>4 DEF prom_textfile, TypeOK
    <2>5. CASE ~(run_knobs \/ bench_replay \/ prom_textfile)
      <3>1. prom' = prom
        BY <2>5 DEF MakeStep, Recipe, make_bench, truncate, record_run,
             append_summary, ensure_bench, abort, verify_bench
      <3>2. QED
        BY <3>1 DEF TypeOK
    <2>6. QED
      BY <2>3, <2>4, <2>5
  <1>5. faults' \in 0..Slack /\ (faults' = faults \/ faults' = faults + 1)
    <2>1. Fail \/ faults' = faults
      BY ReplayEffect
         DEF MakeStep, Recipe, make_bench, run_knobs, truncate, bench_replay,
             record_run, append_summary, prom_textfile, ensure_bench, abort,
             verify_bench
    <2>2. QED
      BY <2>1 DEF Fail, TypeOK
  <1>6. base' \in 0..faults'
    <2>1. base' = base \/ base' = faults
      BY DEF MakeStep, Recipe, make_bench, run_knobs, truncate, bench_replay,
             record_run, append_summary, prom_textfile, ensure_bench, abort,
             verify_bench, hist
    <2>2. QED
      BY <1>5, <2>1 DEF TypeOK
  <1>7. kept' \in 0..2
    <2>1. CASE truncate
      <3>1. kept \in {0, 1}
        BY <1>2, <2>1 DEF truncate, Control
      <3>2. kept' = kept \/ kept' = kept + 1
        BY <2>1 DEF truncate
      <3>3. QED
        BY <3>1, <3>2
    <2>2. CASE ~truncate
      <3>1. kept' = kept \/ kept' = 0
        BY <2>2 DEF MakeStep, Recipe, make_bench, run_knobs, bench_replay,
             record_run, append_summary, prom_textfile, ensure_bench, abort,
             verify_bench
      <3>2. QED
        BY <3>1 DEF TypeOK
    <2>3. QED
      BY <2>1, <2>2
  <1>8. epoch' \in 0..Epochs
    <2>1. CASE make_bench
      BY <2>1 DEF make_bench, TypeOK
    <2>2. CASE ~make_bench
      <3>1. epoch' = epoch
        BY <2>2 DEF MakeStep, Recipe, run_knobs, truncate, bench_replay,
             record_run, append_summary, prom_textfile, ensure_bench, abort,
             verify_bench, hist
      <3>2. QED
        BY <3>1 DEF TypeOK
    <2>3. QED
      BY <2>1, <2>2
  <1>9. i' \in 0..RunsPerBench + 1
    <2>1. CASE record_run
      <3>1. i \in 1..RunsPerBench /\ (i' = i \/ i' = i + 1)
        BY <2>1 DEF record_run, Control
      <3>2. QED
        BY <3>1
    <2>2. CASE ~record_run
      <3>1. i' = i \/ i' = 1
        BY <2>2 DEF MakeStep, Recipe, make_bench, run_knobs, truncate,
             bench_replay, append_summary, prom_textfile, ensure_bench,
             abort, verify_bench
      <3>2. QED
        BY <3>1 DEF TypeOK
    <2>3. QED
      BY <2>1, <2>2
  <1>10. /\ knobs' \in {"gated", "nominal"}
         /\ stage' \in Stages
         /\ phase' \in Phases
    BY DEF MakeStep, Recipe, make_bench, run_knobs, truncate, bench_replay,
           record_run, append_summary, prom_textfile, ensure_bench, abort,
           verify_bench, TypeOK, AfterBench, Stages, Phases
  <1>11. verdict' \in {"none", "PASS", "FAIL", "refused"}
    BY DEF MakeStep, Recipe, make_bench, run_knobs, truncate, bench_replay,
           record_run, append_summary, prom_textfile, ensure_bench, abort,
           verify_bench, TypeOK
  <1>12. QED
    BY <1>3, <1>4, <1>5, <1>6, <1>7, <1>8, <1>9, <1>10, <1>11 DEF TypeOK

(* Control: each line of the recipe hands over to the next. *)
LEMMA StepControl ==
  ASSUME PipelineInv, MakeStep
  PROVE  Control'
  <1> USE PipelineAssumption DEF PipelineInv
  <1>1. phase \in {"truncate", "replay", "record", "summary"}
          => stage \in {"bench", "textfile"} /\ verdict = "none"
    BY DEF Control
  <1>2. ~AtRest => epoch >= 1 /\ verdict = "none"
    BY DEF AtRest, Control
  <1>3. CASE make_bench
    BY <1>3 DEF make_bench, AtRest, Control, TypeOK, Decided
  <1>4. CASE run_knobs
    BY <1>2, <1>4 DEF run_knobs, hist, AtRest, Control, Decided
  <1>5. CASE truncate
    <2>1. /\ verdict' = "none" /\ epoch' = epoch /\ epoch >= 1
          /\ stage \in {"bench", "textfile"}
      BY <1>1, <1>5 DEF truncate, hist, Control
    <2>2. CASE i' = 1 /\ phase' = "replay" /\ UNCHANGED <<stage, kept>>
      BY <2>1, <2>2 DEF Control, Decided
    <2>3. CASE kept' = kept + 1 /\ AfterBench(FALSE)
      BY <2>1, <2>3 DEF Control, Decided, AfterBench
    <2>4. QED
      BY <1>5, <2>2, <2>3 DEF truncate
  <1>6. CASE bench_replay
    <2>1. /\ verdict' = "none" /\ epoch' = epoch /\ epoch >= 1
          /\ stage \in {"bench", "textfile"} /\ kept' = kept /\ i' = i
          /\ phase = "replay"
      BY <1>1, <1>6 DEF bench_replay, hist, Control
    <2>2. CASE phase' = "record" /\ UNCHANGED stage
      BY <2>1, <2>2 DEF Control, Decided
    <2>3. CASE AfterBench(FALSE)
      BY <2>1, <2>3 DEF Control, Decided, AfterBench
    <2>4. QED
      BY <1>6, <2>2, <2>3 DEF bench_replay
  <1>7. CASE record_run
    <2>1. /\ verdict' = "none" /\ epoch' = epoch /\ epoch >= 1
          /\ stage \in {"bench", "textfile"} /\ kept' = kept
          /\ phase = "record" /\ i \in 1..RunsPerBench
      BY <1>1, <1>7 DEF record_run, hist, Control
    <2>2. CASE /\ i' = i + 1 /\ UNCHANGED stage
               /\ phase' = IF i < RunsPerBench THEN "replay" ELSE "summary"
      BY <2>1, <2>2 DEF Control, Decided
    <2>3. CASE AfterBench(FALSE)
      BY <2>1, <2>3 DEF Control, Decided, AfterBench
    <2>4. QED
      BY <1>7, <2>2, <2>3 DEF record_run
  <1>8. CASE append_summary
    BY <1>1, <1>8 DEF append_summary, hist, Control, Decided, AfterBench
  <1>9. CASE prom_textfile
    BY <1>2, <1>9 DEF prom_textfile, hist, AtRest, Control, Decided
  <1>10. CASE ensure_bench
    <2>1. jsonl' # <<>>
      BY <1>10 DEF ensure_bench
    <2>2. QED
      BY <1>2, <1>10, <2>1
         DEF ensure_bench, hist, AtRest, Control, Decided
  <1>11. CASE abort
    BY <1>2, <1>11 DEF abort, hist, Control, Decided
  <1>12. CASE verify_bench
    BY <1>12 DEF verify_bench, hist, Control, Decided, Parses, Judged
  <1>13. QED
    BY <1>3, <1>4, <1>5, <1>6, <1>7, <1>8, <1>9, <1>10, <1>11, <1>12
       DEF MakeStep, Recipe

(***************************************************************************)
(* What a step of make does to bench.jsonl: nothing, empty it, append a    *)
(* line of this epoch, or put the minimal line into an empty file.         *)
(***************************************************************************)
Appends(kind, k) == \E good \in BOOLEAN : jsonl' = Append(jsonl, L(kind, k, good))

LEMMA FileEffect ==
  ASSUME PipelineInv, MakeStep
  PROVE  \/ jsonl' = jsonl
         \/ truncate /\ jsonl' = <<>>
         \/ run_knobs /\ Appends("telemetry", knobs)
         \/ bench_replay /\ Appends("telemetry", "nominal")
         \/ record_run /\ Appends("run", "nominal")
         \/ append_summary /\ Appends("summary", "nominal")
         \/ ensure_bench /\ jsonl = <<>>
                         /\ jsonl' = <<L("minimal", knobs, FALSE)>>
  <1>1. CASE run_knobs
    BY <1>1, ReplayEffect DEF run_knobs, Appends
  <1>2. CASE bench_replay
    BY <1>2, ReplayEffect DEF bench_replay, Appends
  <1>3. CASE record_run
    BY <1>3 DEF record_run, Appends
  <1>4. CASE append_summary
    BY <1>4 DEF append_summary, Appends
  <1>5. CASE ensure_bench
    BY <1>5 DEF ensure_bench
  <1>6. CASE make_bench \/ truncate \/ prom_textfile \/ abort \/ verify_bench
    BY <1>6 DEF make_bench, truncate, prom_textfile, abort, verify_bench
  <1>7. QED
    BY <1>1, <1>2, <1>3, <1>4, <1>5, <1>6 DEF MakeStep, Recipe

(* A line appended outside the stage of the stress knobs is one of those   *)
(* a truncated file may have.                                              *)
LEMMA StepFresh ==
  ASSUME PipelineInv, MakeStep
  PROVE  Fresh'
  <1> USE DEF PipelineInv
  <1> SUFFICES ASSUME Truncated'
               PROVE  \A n \in DOMAIN jsonl' :
                        /\ jsonl'[n].epoch = epoch'
                        /\ jsonl'[n].kind # "minimal"
                             => jsonl'[n].knobs = "nominal"
    BY DEF Fresh
  <1>1. epoch' = epoch /\ ~make_bench /\ ~run_knobs /\ ~abort
    <2>1. ~make_bench
      BY DEF make_bench, Truncated, Late
    <2>2. ~run_knobs
      BY DEF run_knobs, Truncated, Late
    <2>3. ~abort
      BY DEF abort, Truncated, Late
    <2>4. QED
      BY <2>1, <2>2, <2>3
         DEF MakeStep, Recipe, truncate, bench_replay, record_run,
             append_summary, prom_textfile, ensure_bench, verify_bench, hist
  <1>2. CASE truncate /\ jsonl' = <<>>
    BY <1>2
  <1>3. CASE ~(truncate /\ jsonl' = <<>>)
    <2>1. Truncated
      <3>1. CASE truncate
        <4>1. kept' = kept + 1 /\ AfterBench(FALSE) /\ phase = "truncate"
          BY <1>3, <3>1 DEF truncate
        <4>2. stage \in {"bench", "textfile"} /\ kept \in {0, 1}
          BY <4>1 DEF Control
        <4>3. CASE stage = "bench"
          BY <4>1, <4>2, <4>3 DEF AfterBench, Control, Truncated, Late
        <4>4. CASE stage = "textfile"
          BY <4>1, <4>2, <4>4 DEF AfterBench, Control, Truncated, Late
        <4>5. QED
          BY <4>2, <4>3, <4>4
      <3>2. CASE bench_replay \/ record_run \/ append_summary
        BY <3>2 DEF bench_replay, record_run, append_summary, Truncated,
                    Control
      <3>3. CASE prom_textfile \/ ensure_bench \/ verify_bench
        BY <3>3 DEF prom_textfile, ensure_bench, verify_bench, Truncated,
                    Late
      <3>4. QED
        BY <1>1, <3>1, <3>2, <3>3 DEF MakeStep, Recipe
    <2>2. \A n \in DOMAIN jsonl :
            /\ jsonl[n].epoch = epoch
            /\ jsonl[n].kind # "minimal" => jsonl[n].knobs = "nominal"
      BY <2>1 DEF Fresh
    <2>3. CASE jsonl' = jsonl
      BY <1>1, <2>2, <2>3
    <2>4. ASSUME NEW kind \in Kinds, stage # "idle", Appends(kind, "nominal")
          PROVE  \A n \in DOMAIN jsonl' :
                   /\ jsonl'[n].epoch = epoch'
                   /\ jsonl'[n].kind # "minimal"
                        => jsonl'[n].knobs = "nominal"
      <3>1. PICK good \in BOOLEAN :
                   jsonl' = Append(jsonl, L(kind, "nominal", good))
        BY <2>4 DEF Appends
      <3> DEFINE l == L(kind, "nominal", good)
      <3>2. l \in Line
        BY <2>4, LineType
      <3>3. l.epoch = epoch /\ l.knobs = "nominal"
        BY DEF L
      <3> HIDE DEF l
      <3>4. /\ Len(jsonl) \in Nat
            /\ DOMAIN jsonl = 1..Len(jsonl)
            /\ DOMAIN jsonl' = 1..(Len(jsonl) + 1)
            /\ \A n \in 1..Len(jsonl) : jsonl'[n] = jsonl[n]
            /\ jsonl'[Len(jsonl) + 1] = l
        BY <3>1, <3>2, ThoseAppend DEF l, TypeOK
      <3>5. \A n \in DOMAIN jsonl' : n \in DOMAIN jsonl \/ n = Len(jsonl) + 1
        BY <3>4
      <3>6. QED
        BY <1>1, <2>2, <3>3, <3>4, <3>5
    <2>5. CASE /\ bench_replay \/ record_run \/ append_summary
               /\ jsonl' # jsonl
      <3>1. \E kind \in Kinds : Appends(kind, "nominal")
        BY <1>1, <1>3, <2>5, FileEffect
           DEF Kinds, bench_replay, record_run, append_summary, run_knobs,
               ensure_bench, Control
      <3>2. stage # "idle"
        BY <2>5 DEF bench_replay, record_run, append_summary, Control
      <3>3. QED
        BY <2>4, <3>1, <3>2
    <2>6. CASE ensure_bench /\ jsonl' # jsonl
      <3> DEFINE l == L("minimal", knobs, FALSE)
      <3>1. jsonl' = <<l>>
        BY <2>6 DEF ensure_bench
      <3>2. l.epoch = epoch /\ l.kind = "minimal"
        BY DEF L
      <3> HIDE DEF l
      <3>3. \A n \in DOMAIN jsonl' : jsonl'[n] = l
        BY <3>1
      <3>4. QED
        BY <1>1, <3>2, <3>3
    <2>7. QED
      BY <1>1, <1>3, <2>3, <2>5, <2>6, FileEffect
  <1>4. QED
    BY <1>2, <1>3

(* Within bench.sh a step truncates the file, runs replay or counts a run. *)
LEMMA WithinBench ==
  ASSUME PipelineInv, MakeStep, InBench'
  PROVE  /\ epoch' = epoch
         /\ \/ truncate /\ jsonl' = <<>> /\ i' = 1
            \/ bench_replay /\ InBench /\ i' = i
            \/ record_run /\ Appends("run", "nominal") /\ i' = i + 1
  <1> USE DEF PipelineInv
  <1>1. CASE truncate
    BY <1>1 DEF truncate, AfterBench, InBench, hist
  <1>2. CASE bench_replay
    BY <1>2 DEF bench_replay, InBench, hist
  <1>3. CASE record_run
    BY <1>3 DEF record_run, AfterBench, InBench, hist, Appends
  <1>4. CASE run_knobs \/ append_summary \/ abort
    BY <1>4 DEF run_knobs, append_summary, abort, AfterBench, InBench
  <1>5. CASE make_bench \/ prom_textfile \/ ensure_bench \/ verify_bench
    BY <1>5 DEF make_bench, prom_textfile, ensure_bench, verify_bench,
                AtRest, Control, InBench
  <1>6. QED
    BY <1>1, <1>2, <1>3, <1>4, <1>5 DEF MakeStep, Recipe

LEMMA StepOneBench ==
  ASSUME PipelineInv, MakeStep
  PROVE  OneBench'
  <1> USE PipelineAssumption DEF PipelineInv
  <1>1. jsonl \in Seq(Line)
    BY DEF TypeOK
  <1>2. CASE jsonl' = <<>>
    <2>1. RunLines' = {} /\ Summaries' = {}
      BY <1>2, ThoseOfNone DEF RunLines, Summaries
    <2>2. Cardinality(RunLines') = 0
      BY <2>1, FS_EmptySet
    <2>3. BenchLines'
      BY <2>1, <2>2 DEF BenchLines
    <2>4. InBench' => i' = 1
      <3>1. CASE bench_replay /\ InBench /\ i' = i /\ jsonl' = jsonl
        <4>1. Cardinality(RunLines) = i - 1 /\ RunLines = RunLines'
          BY <3>1 DEF OneBench, RunLines
        <4>2. QED
          BY <2>2, <3>1, <4>1 DEF TypeOK
      <3>2. QED
        <4>1. ASSUME NEW kind \in {"telemetry", "run"},
                     Appends(kind, "nominal"), stage # "idle"
              PROVE  FALSE
          <5>1. PICK good \in BOOLEAN :
                       jsonl' = Append(jsonl, L(kind, "nominal", good))
            BY <4>1 DEF Appends
          <5>2. L(kind, "nominal", good) \in Line
            BY <4>1, LineType DEF Kinds
          <5>3. Append(jsonl, L(kind, "nominal", good)) # <<>>
            BY <1>1, <5>2, ThoseAppend
          <5>4. QED
            BY <1>2, <5>1, <5>3
        <4>2. bench_replay \/ record_run => stage # "idle"
          BY DEF bench_replay, record_run, Control
        <4>3. bench_replay => jsonl' = jsonl \/ Appends("telemetry", "nominal")
          BY ReplayEffect DEF bench_replay, Appends
        <4>4. QED
          BY <3>1, <4>1, <4>2, <4>3, WithinBench
    <2>5. QED
      BY <2>1, <2>2, <2>3, <2>4 DEF OneBench
  <1>3. CASE jsonl' = jsonl /\ jsonl # <<>>
    <2>1. RunLines' = RunLines /\ Summaries' = Summaries /\ BenchLines'
      BY <1>3 DEF RunLines, Summaries, BenchLines, OneBench
    <2>2. InBench' => InBench /\ i' = i /\ epoch' = epoch
      <3>1. ~(record_run /\ Appends("run", "nominal"))
        <4>1. SUFFICES ASSUME record_run, Appends("run", "nominal")
                       PROVE  FALSE
          OBVIOUS
        <4>2. PICK good \in BOOLEAN :
                     jsonl' = Append(jsonl, L("run", "nominal", good))
          BY <4>1 DEF Appends
        <4>3. L("run", "nominal", good) \in Line
          BY <4>1, LineType DEF Kinds, record_run, Control
        <4>4. Len(Append(jsonl, L("run", "nominal", good))) = Len(jsonl) + 1
              /\ Len(jsonl) \in Nat
          BY <1>1, <4>3, AppendProperties, LenProperties
        <4>5. QED
          BY <1>3, <4>2, <4>4
      <3>2. QED
        BY <1>3, <3>1, WithinBench
    <2>3. QED
      BY <1>3, <2>1, <2>2 DEF OneBench
  <1>4. ASSUME NEW kind \in {"telemetry", "run", "summary"},
               NEW k \in {"gated", "nominal"}, Appends(kind, k),
               stage # "idle", kind = "run" => record_run,
               kind = "summary" => append_summary,
               kind = "telemetry" => ~record_run
        PROVE  OneBench'
    <2>1. PICK good \in BOOLEAN : jsonl' = Append(jsonl, L(kind, k, good))
      BY <1>4 DEF Appends
    <2> DEFINE l == L(kind, k, good)
               z == Len(jsonl) + 1
    <2>2. l \in Line
      BY <1>4, LineType DEF Kinds
    <2>3. l.epoch = epoch /\ l.kind = kind
      BY DEF L
    <2> HIDE DEF l
    <2>4. /\ Len(jsonl) \in Nat
          /\ \A n \in 1..Len(jsonl) : jsonl'[n] = jsonl[n]
          /\ jsonl'[z] = l
          /\ \A kk : Those(jsonl', kk) = IF l.kind = kk
                         THEN Those(jsonl, kk) \cup {z}
                         ELSE Those(jsonl, kk)
      BY <1>1, <2>1, <2>2, ThoseAppend DEF l
    <2>5. \A kk : Cardinality(Those(jsonl', kk)) =
                    IF l.kind = kk THEN Cardinality(Those(jsonl, kk)) + 1
                                   ELSE Cardinality(Those(jsonl, kk))
      BY <1>1, <2>1, <2>2, CardinalityAppend DEF l
    <2>6. /\ \A n \in RunLines : jsonl'[n] = jsonl[n]
          /\ \A n \in Summaries : jsonl'[n] = jsonl[n]
          /\ Cardinality(RunLines) \in Nat
      BY <1>1, <2>4, ThoseFinite DEF RunLines, Summaries
    <2> HIDE DEF z
    <2>7. CASE kind = "telemetry"
      <3>1. /\ RunLines' = RunLines /\ Summaries' = Summaries
            /\ Cardinality(RunLines') = Cardinality(RunLines)
        BY <2>3, <2>4, <2>7 DEF RunLines, Summaries
      <3>2. BenchLines'
        BY <2>6, <3>1 DEF BenchLines, OneBench
      <3>3. InBench' => InBench /\ i' = i /\ epoch' = epoch
        <4>1. jsonl' # <<>>
          BY <1>1, <2>1, <2>2, ThoseAppend DEF l
        <4>2. QED
          BY <1>4, <2>7, <4>1, WithinBench
      <3>4. QED
        BY <2>6, <3>1, <3>2, <3>3 DEF OneBench
    <2>8. CASE kind = "run"
      <3>1. record_run /\ phase = "record" /\ epoch' = epoch
        BY <1>4, <2>8 DEF record_run, hist
      <3>2. /\ Summaries = {}
            /\ Cardinality(RunLines) = i - 1
            /\ \A m \in RunLines : jsonl[m].epoch = epoch
            /\ i \in 1..RunsPerBench
        BY <3>1 DEF OneBench, InBench, Control
      <3>3. /\ RunLines' = RunLines \cup {z} /\ Summaries' = {}
            /\ Cardinality(RunLines') = i
        <4>1. Cardinality(RunLines') = Cardinality(RunLines) + 1
          BY <2>3, <2>5, <2>8 DEF RunLines
        <4>2. QED
          BY <2>3, <2>4, <2>8, <3>2, <4>1 DEF RunLines, Summaries
      <3>4. \A m \in RunLines' : jsonl'[m].epoch = epoch
        BY <2>3, <2>4, <2>6, <3>2, <3>3
      <3>5. BenchLines'
        BY <3>2, <3>3, <3>4 DEF BenchLines
      <3>6. InBench' => i' = i + 1
        BY <3>1, WithinBench
           DEF truncate, bench_replay
      <3>7. QED
        BY <3>1, <3>2, <3>3, <3>4, <3>5, <3>6 DEF OneBench
    <2>9. CASE kind = "summary"
      <3>1. append_summary /\ phase = "summary" /\ epoch' = epoch
        BY <1>4, <2>9 DEF append_summary, hist
      <3>2. /\ Summaries = {}
            /\ Cardinality(RunLines) = RunsPerBench
            /\ \A m \in RunLines : jsonl[m].epoch = epoch
        BY <3>1 DEF OneBench, InBench, Control
      <3>3. /\ RunLines' = RunLines /\ Summaries' = {z}
            /\ Cardinality(RunLines') = RunsPerBench
        BY <2>3, <2>4, <2>9, <3>2 DEF RunLines, Summaries
      <3>4. \A m \in RunLines' : jsonl'[m].epoch = epoch
        BY <2>6, <3>2, <3>3
      <3>5. BenchLines'
        BY <2>3, <2>4, <3>3, <3>4 DEF BenchLines
      <3>6. ~InBench'
        BY <3>1 DEF append_summary, AfterBench, InBench
      <3>7. QED
        BY <3>5, <3>6 DEF OneBench
    <2>10. QED
      BY <2>7, <2>8, <2>9
  <1>5. CASE ensure_bench /\ jsonl' = <<L("minimal", knobs, FALSE)>>
    <2> DEFINE l == L("minimal", knobs, FALSE)
    <2>1. l \in Line /\ l.kind = "minimal"
      BY <1>5, LineType DEF L, Kinds, ensure_bench, TypeOK
    <2> HIDE DEF l
    <2>2. RunLines' = {} /\ Summaries' = {}
      BY <1>5, <2>1, OneLineSeq DEF l, RunLines, Summaries
    <2>3. Cardinality(RunLines') = 0
      BY <2>2, FS_EmptySet
    <2>4. ~InBench'
      BY <1>5 DEF ensure_bench, Control, InBench
    <2>5. QED
      BY <2>2, <2>3, <2>4 DEF OneBench, BenchLines
  <1>6. /\ run_knobs => stage # "idle"
        /\ bench_replay => stage # "idle" /\ ~record_run
        /\ record_run => stage # "idle"
        /\ append_summary => stage # "idle"
        /\ run_knobs => ~record_run
        /\ knobs \in {"gated", "nominal"}
    BY DEF run_knobs, bench_replay, record_run, append_summary, Control,
           TypeOK
  <1>7. QED
    BY <1>2, <1>3, <1>4, <1>5, <1>6, FileEffect

(* A step that ends without a fault in its epoch had none before. *)
LEMMA NoFault ==
  ASSUME TypeOK, base' = base, Fail \/ faults' = faults, faults' = base'
  PROVE  faults = base /\ faults' = faults /\ ~Fail
  BY PipelineAssumption DEF TypeOK, Fail

LEMMA StepClean ==
  ASSUME PipelineInv, MakeStep
  PROVE  Clean'
  <1> USE PipelineAssumption DEF PipelineInv
  <1> SUFFICES ASSUME faults' = base'
               PROVE  Clean'
    BY DEF Clean
  <1>1. jsonl \in Seq(Line)
    BY DEF TypeOK
  <1>2. CASE make_bench
    <2>1. /\ kept' = 0 /\ verdict' = "none"
          /\ phase' = "off" /\ stage' = "knobs"
      BY <1>2 DEF make_bench, AtRest, Control
    <2>2. QED
      BY <2>1 DEF Clean, InBench, Late
  <1>3. CASE ~make_bench
    <2>1. base' = base /\ epoch' = epoch
      BY <1>3 DEF MakeStep, Recipe, run_knobs, truncate, bench_replay,
           record_run, append_summary, prom_textfile, ensure_bench, abort,
           verify_bench, hist
    <2>2. Fail \/ faults' = faults
      BY ReplayEffect
         DEF MakeStep, Recipe, make_bench, run_knobs, truncate, bench_replay,
             record_run, append_summary, prom_textfile, ensure_bench, abort,
             verify_bench
    <2>3. faults = base /\ faults' = faults /\ ~Fail
      BY <2>1, <2>2, NoFault
    <2>4. kept = 0 /\ verdict # "refused"
      BY <2>3 DEF Clean
    <2>5. CASE run_knobs
      BY <2>4, <2>5 DEF run_knobs, Clean, InBench, Late
    <2>6. CASE truncate
      <3>1. /\ jsonl' = <<>> /\ i' = 1 /\ phase' = "replay"
            /\ stage' \in {"bench", "textfile"}
            /\ kept' = 0 /\ verdict' = verdict
        BY <2>3, <2>4, <2>6 DEF truncate, Control
      <3>2. Cardinality(Tele') = 0
        BY <3>1, ThoseOfNone, FS_EmptySet DEF Tele
      <3>3. QED
        BY <2>4, <3>1, <3>2 DEF Clean, InBench, Late
    <2>7. CASE bench_replay
      <3>1. /\ phase = "replay" /\ phase' = "record"
            /\ stage \in {"bench", "textfile"} /\ stage' = stage
            /\ kept' = kept /\ verdict' = verdict /\ i' = i
        BY <2>3, <2>7 DEF bench_replay, ReplayFails, Control
      <3>2. ReplayOk("nominal")
        BY <2>3, <2>7 DEF bench_replay, ReplayFails
      <3>3. PICK good \in BOOLEAN :
                   jsonl' = Append(jsonl, L("telemetry", "nominal", good))
        BY <2>3, <3>2, ReplayInPlace
      <3>4. prom' = Nominal("event")'
        BY <2>1, <2>3, <3>2, ReplayInPlace DEF Nominal
      <3> DEFINE l == L("telemetry", "nominal", good)
      <3>5. l \in Line /\ l.kind = "telemetry"
        BY <3>1, LineType DEF L, Kinds
      <3> HIDE DEF l
      <3>6. /\ jsonl' # <<>>
            /\ Head(jsonl') = IF jsonl = <<>> THEN l ELSE Head(jsonl)
            /\ Cardinality(Tele') = Cardinality(Tele) + 1
        BY <1>1, <3>3, <3>5, ThoseAppend, CardinalityAppend DEF l, Tele
      <3>7. /\ Cardinality(Tele) = i - 1
            /\ jsonl # <<>> => Head(jsonl).kind = "telemetry"
        BY <2>3, <3>1 DEF Clean, InBench, Judged
      <3>8. Head(jsonl').kind = "telemetry"
        BY <3>5, <3>6, <3>7
      <3>9. Cardinality(Tele') = i'
        BY <3>1, <3>6, <3>7 DEF TypeOK
      <3>10. QED
        BY <2>4, <3>1, <3>4, <3>6, <3>8, <3>9
           DEF Clean, InBench, Late, Judged
    <2>8. CASE record_run
      <3>1. /\ phase = "record" /\ phase' \in {"replay", "summary"}
            /\ stage \in {"bench", "textfile"} /\ stage' = stage
            /\ kept' = kept /\ verdict' = verdict /\ i' = i + 1
            /\ prom' = prom
            /\ jsonl' = Append(jsonl, L("run", "nominal", TRUE))
        BY <2>3, <2>8 DEF record_run, Control
      <3> DEFINE l == L("run", "nominal", TRUE)
      <3>2. l \in Line /\ l.kind = "run"
        BY <3>1, LineType DEF L, Kinds
      <3> HIDE DEF l
      <3>3. /\ jsonl' # <<>>
            /\ Head(jsonl') = IF jsonl = <<>> THEN l ELSE Head(jsonl)
            /\ Cardinality(Tele') = Cardinality(Tele)
        <4>1. jsonl' = Append(jsonl, l)
          BY <3>1 DEF l
        <4>2. Tele' = Tele
          BY <1>1, <3>2, <4>1, ThoseAppend DEF Tele
        <4>3. QED
          BY <1>1, <3>2, <4>1, <4>2, ThoseAppend
      <3>4. /\ Cardinality(Tele) = i
            /\ jsonl # <<>> /\ Head(jsonl).kind = "telemetry"
            /\ prom = Nominal("event")
        BY <2>3, <3>1 DEF Clean, InBench, Judged
      <3>5. Nominal("event")' = Nominal("event")
        BY <2>1 DEF Nominal
      <3>6. Cardinality(Tele') = i' - 1
        BY <3>1, <3>3, <3>4 DEF TypeOK
      <3>7. QED
        BY <2>4, <3>1, <3>3, <3>4, <3>5, <3>6
           DEF Clean, InBench, Late, Judged
    <2>9. CASE append_summary
      <3>1. /\ phase = "summary" /\ kept' = kept /\ verdict' = verdict
            /\ prom' = prom /\ i = RunsPerBench + 1
            /\ stage \in {"bench", "textfile"}
            /\ AfterBench(TRUE)
            /\ jsonl' = Append(jsonl, L("summary", "nominal", TRUE))
        BY <2>3, <2>9 DEF append_summary, Control
      <3> DEFINE l == L("summary", "nominal", TRUE)
      <3>2. l \in Line /\ l.kind = "summary"
        BY <3>1, LineType DEF L, Kinds
      <3> HIDE DEF l
      <3>3. /\ jsonl' # <<>>
            /\ Head(jsonl') = IF jsonl = <<>> THEN l ELSE Head(jsonl)
            /\ Cardinality(Tele') = Cardinality(Tele)
            /\ Summaries' = Summaries \cup {Len(jsonl) + 1}
        <4>1. jsonl' = Append(jsonl, l)
          BY <3>1 DEF l
        <4>2. /\ Tele' = Tele
              /\ Summaries' = Summaries \cup {Len(jsonl) + 1}
          BY <1>1, <3>2, <4>1, ThoseAppend DEF Tele, Summaries
        <4>3. QED
          BY <1>1, <3>2, <4>1, <4>2, ThoseAppend
      <3>4. /\ Cardinality(Tele) = i - 1
            /\ jsonl # <<>> /\ Head(jsonl).kind = "telemetry"
            /\ prom = Nominal("event")
        BY <2>3, <3>1 DEF Clean, InBench, Judged
      <3>5. Nominal("event")' = Nominal("event")
        BY <2>1 DEF Nominal
      <3>6. Cardinality(Tele') = RunsPerBench /\ Summaries' # {}
        BY <3>1, <3>3, <3>4
      <3>7. CASE stage = "bench"
        BY <2>4, <3>1, <3>7 DEF AfterBench, Clean, InBench, Late
      <3>8. CASE stage = "textfile"
        <4>1. phase' = "off" /\ stage' = "publish"
          BY <3>1, <3>8 DEF AfterBench
        <4>2. QED
          BY <2>4, <3>1, <3>3, <3>4, <3>5, <3>6, <4>1
             DEF Clean, InBench, Late, Judged
      <3>9. QED
        BY <3>1, <3>7, <3>8
    <2>10. CASE prom_textfile
      <3>1. /\ stage = "publish" /\ stage' = "ensure"
            /\ phase' = phase /\ phase = "off" /\ jsonl' = jsonl
            /\ kept' = kept /\ verdict' = verdict
            /\ prom' = [prom EXCEPT !.p99 = "elapsed"]
        BY <2>3, <2>10 DEF prom_textfile, Control
      <3>2. prom = Nominal("event")
        BY <2>3, <3>1 DEF Clean
      <3>3. prom' = Nominal("elapsed")'
        BY <2>1, <3>1, <3>2 DEF Nominal
      <3>4. /\ Cardinality(Tele) = RunsPerBench /\ Summaries # {}
            /\ jsonl # <<>> /\ Head(jsonl).kind = "telemetry"
        BY <2>3, <3>1 DEF Clean, Late, Judged
      <3>5. Tele' = Tele /\ Summaries' = Summaries
        BY <3>1 DEF Tele, Summaries
      <3>6. QED
        BY <2>4, <3>1, <3>3, <3>4, <3>5 DEF Clean, InBench, Late, Judged
    <2>11. CASE ensure_bench \/ verify_bench
      <3>1. /\ stage \in {"ensure", "made"} /\ stage' = "made"
            /\ phase' = phase /\ phase = "off"
            /\ kept' = kept /\ prom' = prom
        BY <2>11 DEF ensure_bench, verify_bench, Control
      <3>2. /\ Cardinality(Tele) = RunsPerBench /\ Summaries # {}
            /\ jsonl # <<>> /\ Head(jsonl).kind = "telemetry"
            /\ prom = Nominal("elapsed")
        BY <2>3, <3>1 DEF Clean, Late, Judged
      <3>3. jsonl' = jsonl
        BY <2>11, <3>2 DEF ensure_bench, verify_bench
      <3>4. /\ Tele' = Tele /\ Summaries' = Summaries
            /\ Nominal("elapsed")' = Nominal("elapsed")
        BY <2>1, <3>3 DEF Tele, Summaries, Nominal
      <3>5. verdict' # "refused"
        BY <2>4, <2>11, <3>2
           DEF ensure_bench, verify_bench, Parses, Judged, Nominal
      <3>6. QED
        BY <2>4, <3>1, <3>2, <3>3, <3>4, <3>5
           DEF Clean, InBench, Late, Judged
    <2>12. ~abort
      BY <2>3 DEF abort
    <2>13. QED
      BY <1>3, <2>5, <2>6, <2>7, <2>8, <2>9, <2>10, <2>11, <2>12
         DEF MakeStep, Recipe
  <1>4. QED
    BY <1>2, <1>3

LEMMA StepPipeline ==
  ASSUME PipelineInv, MakeStep
  PROVE  PipelineInv'
  BY StepType, StepControl, StepFresh, StepOneBench, StepClean
     DEF PipelineInv

(* A reader can only fail, which leaves everything but the count alone. *)
LEMMA ReaderKeepsPipeline ==
  ASSUME PipelineInv, ReaderStep
  PROVE  PipelineInv'
  <1>1. /\ epoch' = epoch /\ base' = base /\ knobs' = knobs
        /\ stage' = stage /\ phase' = phase /\ i' = i /\ jsonl' = jsonl
        /\ prom' = prom /\ verdict' = verdict /\ kept' = kept
    BY DEF ReaderStep, hist
  <1>2. faults' \in 0..Slack /\ base' \in 0..faults'
    <2>1. faults \in 0..Slack /\ base \in 0..faults
      BY DEF PipelineInv, TypeOK
    <2>2. faults' = faults \/ (faults < Slack /\ faults' = faults + 1)
      BY DEF ReaderStep, Fail
    <2>3. QED
      BY <1>1, <2>1, <2>2, PipelineAssumption
  <1>3. TypeOK'
    BY <1>1, <1>2 DEF PipelineInv, TypeOK
  <1>4. Control' /\ Fresh' /\ OneBench'
    BY <1>1 DEF PipelineInv, Control, Decided, Judged, Fresh, Truncated,
                Late, OneBench, BenchLines, InBench, RunLines, Summaries
  <1>5. Clean'
    <2>1. SUFFICES ASSUME faults' = base'
                   PROVE  Clean'
      BY DEF Clean
    <2>2. faults = base
      BY <1>1, <2>1, NoFault DEF ReaderStep, PipelineInv
    <2>3. QED
      BY <1>1, <2>2 DEF PipelineInv, Clean, InBench, Late, Judged, Tele,
                        Summaries, Nominal
  <1>6. QED
    BY <1>3, <1>4, <1>5 DEF PipelineInv
-----------------------------------------------------------------------------
(* Max of one number. *)
LEMMA MaxOfOne ==
  ASSUME NEW x \in Int
  PROVE  Max({x}) = x
  BY DEF Max

(***************************************************************************)
(* Whenever bench.jsonl is parsed, its points and its cards are of one     *)
(* bench.sh, and after an undisturbed recipe they are all there.           *)
(***************************************************************************)
LEMMA ParseIsOneBench ==
  ASSUME PipelineInv
  PROVE  /\ parse_bench_jsonl(jsonl) \in Parsed
         /\ OfOneBench(parse_bench_jsonl(jsonl))
         /\ Undisturbed => /\ parse_bench_jsonl(jsonl).runs = RunsPerBench
                           /\ parse_bench_jsonl(jsonl).summary = epoch
         /\ Measured => \E e \in 1..Epochs :
                          parse_bench_jsonl(jsonl).of = {e}
  <1> USE PipelineAssumption DEF PipelineInv
  <1> DEFINE bench == parse_bench_jsonl(jsonl)
  <1>1. /\ bench.runs = Cardinality(RunLines)
        /\ bench.of = EpochsOf(jsonl, RunLines)
        /\ bench.summary = IF Summaries = {} THEN 0
                           ELSE jsonl[Max(Summaries)].epoch
        /\ bench = [runs |-> bench.runs, of |-> bench.of,
                    summary |-> bench.summary]
    BY DEF parse_bench_jsonl, RunLines, Summaries
  <1> HIDE DEF bench
  <1>2. /\ jsonl \in Seq(Line)
        /\ \A n \in DOMAIN jsonl : jsonl[n].epoch \in 1..Epochs
        /\ DOMAIN jsonl \subseteq Int
    <2>1. jsonl \in Seq(Line) /\ DOMAIN jsonl = 1..Len(jsonl)
      BY LenProperties DEF TypeOK
    <2>2. \A n \in DOMAIN jsonl : jsonl[n] \in Line
      BY <2>1
    <2>3. QED
      BY <2>1, <2>2 DEF Line
  <1>3. RunLines \subseteq DOMAIN jsonl /\ Summaries \subseteq DOMAIN jsonl
    BY DEF RunLines, Summaries, Those
  <1>4. /\ Cardinality(RunLines) \in 0..RunsPerBench
        /\ Cardinality(RunLines) = 0 <=> RunLines = {}
    BY <1>2, ThoseFinite DEF RunLines, OneBench, BenchLines
  <1>5. bench.of \subseteq 1..Epochs /\ \A e, f \in bench.of : e = f
    <2>1. \A e \in bench.of : \E n \in RunLines : e = jsonl[n].epoch
      BY <1>1 DEF EpochsOf
    <2>2. QED
      BY <1>2, <1>3, <2>1 DEF OneBench, BenchLines
  <1>6. ASSUME NEW n \in Summaries
        PROVE  /\ Summaries = {n} /\ bench.summary = jsonl[n].epoch
               /\ bench.summary \in 1..Epochs
               /\ bench.runs = RunsPerBench
               /\ bench.of = {bench.summary}
    <2>1. Summaries = {n}
      BY DEF OneBench, BenchLines
    <2>2. bench.summary = jsonl[n].epoch /\ bench.summary \in 1..Epochs
      BY <1>1, <1>2, <1>3, <2>1, MaxOfOne
    <2>3. bench.runs = RunsPerBench
      BY <1>1 DEF OneBench, BenchLines
    <2>4. PICK m \in RunLines : TRUE
      BY <1>1, <1>4, <2>3
    <2>5. \A k \in RunLines : jsonl[k].epoch = bench.summary
      BY <2>2 DEF OneBench, BenchLines
    <2>6. bench.of = {bench.summary}
      BY <1>1, <2>4, <2>5 DEF EpochsOf
    <2>7. QED
      BY <2>1, <2>2, <2>3, <2>6
  <1>7. bench.summary # 0 => \E n \in Summaries : TRUE
    BY <1>1
  <1>8. bench \in Parsed
    <2>1. bench.runs \in 0..RunsPerBench /\ bench.of \in SUBSET (1..Epochs)
      BY <1>1, <1>4, <1>5
    <2>2. bench.summary \in 0..Epochs
      <3>1. CASE Summaries = {}
        BY <1>1, <3>1
      <3>2. CASE Summaries # {}
        BY <1>6, <3>2
      <3>3. QED
        BY <3>1, <3>2
    <2>3. QED
      BY <1>1, <2>1, <2>2 DEF Parsed
  <1>9. OfOneBench(bench)
    BY <1>5, <1>6, <1>7 DEF OfOneBench
  <1>10. ASSUME Undisturbed
         PROVE  bench.runs = RunsPerBench /\ bench.summary = epoch
    <2>1. stage = "made" /\ faults = base /\ kept = 0 /\ Summaries # {}
      BY <1>10 DEF Undisturbed, Clean, Late
    <2>2. PICK n \in Summaries : TRUE
      BY <2>1
    <2>3. jsonl[n].epoch = epoch
      BY <1>3, <2>1 DEF Fresh, Truncated, Late
    <2>4. QED
      BY <1>6, <2>3
  <1>11. ASSUME Measured
         PROVE  \E e \in 1..Epochs : bench.of = {e}
    <2>1. PICK n \in DOMAIN jsonl : jsonl[n].kind \in {"run", "summary"}
      BY <1>11 DEF Measured
    <2>2. CASE jsonl[n].kind = "run"
      <3>1. n \in RunLines
        BY <2>1, <2>2 DEF RunLines, Those
      <3>2. jsonl[n].epoch \in bench.of
        BY <1>1, <3>1 DEF EpochsOf
      <3>3. bench.of = {jsonl[n].epoch}
        BY <1>5, <3>2
      <3>4. QED
        BY <1>2, <3>3
    <2>3. CASE jsonl[n].kind = "summary"
      <3>1. n \in Summaries
        BY <2>1, <2>3 DEF Summaries, Those
      <3>2. QED
        BY <1>6, <3>1
    <2>4. QED
      BY <2>1, <2>2, <2>3
  <1>12. QED
    BY <1>8, <1>9, <1>10, <1>11 DEF bench

(* What the badges are made of is a measurement. *)
LEMMA SummaryIsMeasurement ==
  ASSUME PipelineInv, Measured
  PROVE  Measurement(load_summary)
  <1> DEFINE bench == parse_bench_jsonl(jsonl)
  <1>1. /\ bench \in Parsed /\ OfOneBench(bench)
        /\ \E e \in 1..Epochs : bench.of = {e}
    BY ParseIsOneBench
  <1>2. load_summary = [state |-> "shown",
                        from  |-> IF bench.summary = 0 THEN "samples"
                                                       ELSE "summary",
                        runs  |-> bench.runs, of |-> bench.of]
    BY DEF load_summary
  <1> HIDE DEF bench
  <1>3. load_summary \in Badge
    BY <1>1, <1>2 DEF Badge, Parsed
  <1>4. QED
    BY <1>1, <1>2, <1>3 DEF Measurement, OfOneBench

LEMMA InitFiles == ReadersInit => FilesInv
  <1> SUFFICES ASSUME ReadersInit
               PROVE  FilesInv
    OBVIOUS
  <1>1. reader = Idle /\ reader.at = "idle"
    BY DEF ReadersInit, Idle
  <1>2. ReaderInv /\ PageInv /\ BadgeInv
    BY <1>1 DEF ReadersInit, ReaderInv, PageInv, BadgeInv
  <1>3. QED
    BY <1>2, ReadersAssumption DEF ReadersInit, FilesInv

(* The pipeline does not touch what readers hold or have written. *)
LEMMA MakeKeepsFiles ==
  ASSUME FilesInv, UNCHANGED <<started, reader, files>>
  PROVE  FilesInv'
  BY DEF files, FilesInv, ReaderInv, PageInv, PageTellsOneBench,
         SettledPageIsWhole, BadgeInv

LEMMA StartCounts ==
  ASSUME FilesInv, Start
  PROVE  /\ started' \in 0..Readings
         /\ reader = Idle /\ reader.at = "idle"
  BY ReadersAssumption DEF FilesInv, Start, Idle

LEMMA ReportReadsFiles ==
  ASSUME PipelineInv, FilesInv, report_reads_bench
  PROVE  FilesInv'
  <1> DEFINE bench == parse_bench_jsonl(jsonl)
  <1>1. /\ bench \in Parsed /\ OfOneBench(bench)
        /\ Undisturbed => bench.runs = RunsPerBench /\ bench.summary = epoch
    BY ParseIsOneBench
  <1>2. reader' = [at |-> "metrics", bench |-> bench, epoch |-> epoch,
                   settled |-> Undisturbed]
    BY DEF report_reads_bench
  <1>3. started' \in 0..Readings /\ reader.at = "idle"
    BY StartCounts DEF report_reads_bench
  <1>4. epoch \in 0..Epochs /\ Undisturbed \in BOOLEAN
    BY DEF PipelineInv, TypeOK, Undisturbed
  <1> HIDE DEF bench
  <1>5. /\ reader'.at = "metrics" /\ reader'.bench = bench
        /\ reader'.epoch = epoch /\ (reader'.settled <=> Undisturbed)
    BY <1>2
  <1>6. reader' \in ReportReader
    BY <1>1, <1>2, <1>4 DEF ReportReader
  <1>7. ReaderInv'
    BY <1>1, <1>5, <1>6 DEF ReaderInv
  <1>8. UNCHANGED <<page, perf, extra, badged>>
    BY DEF report_reads_bench, files
  <1>9. PageInv'
    BY <1>8 DEF FilesInv, PageInv, PageTellsOneBench, SettledPageIsWhole
  <1>10. BadgeInv'
    BY <1>3, <1>5, <1>8 DEF FilesInv, BadgeInv
  <1>11. QED
    BY <1>3, <1>7, <1>9, <1>10 DEF FilesInv

LEMMA ReportWritesFiles ==
  ASSUME PipelineInv, FilesInv, report_writes
  PROVE  FilesInv'
  <1>1. /\ reader.at = "metrics" /\ reader' = Idle /\ reader'.at = "idle"
        /\ UNCHANGED <<started, perf, extra, badged>>
    BY DEF report_writes, Idle
  <1>2. reader \in ReportReader /\ OfOneBench(reader.bench)
    BY <1>1 DEF FilesInv, ReaderInv, Idle, BadgeReader
  <1>3. ReaderInv'
    BY <1>1 DEF ReaderInv
  <1>4. BadgeInv'
    BY <1>1 DEF FilesInv, BadgeInv
  <1>5. PageInv'
    <2>1. CASE page' \in {page, Torn}
      BY <2>1 DEF FilesInv, PageInv, PageTellsOneBench, SettledPageIsWhole
    <2>2. CASE page' = generate_html_report(reader.bench,
                         parse_prom_metrics(prom),
                         reader.settled /\ Undisturbed
                           /\ reader.epoch = epoch)
      <3> DEFINE bench == reader.bench
      <3>1. bench \in Parsed
        BY <1>2 DEF ReportReader
      <3>2. /\ page'.state = "shown" /\ page'.chart = bench.runs
            /\ page'.of = bench.of /\ page'.cards = bench.summary
            /\ page'.table = prom
            /\ page'.settled <=> (reader.settled /\ Undisturbed
                                    /\ reader.epoch = epoch)
        BY <2>2 DEF generate_html_report, parse_prom_metrics
      <3> HIDE DEF bench
      <3>3. PageTellsOneBench'
        BY <1>2, <3>2 DEF PageTellsOneBench, OfOneBench, bench
      <3>4. SettledPageIsWhole'
        <4>1. SUFFICES ASSUME page'.settled
                       PROVE  /\ page'.chart = RunsPerBench
                              /\ page'.cards = page'.table.epoch
                              /\ page'.table = [epoch |-> page'.cards,
                                   tails |-> TRUE, p99 |-> "elapsed",
                                   publish |-> TRUE]
          BY DEF SettledPageIsWhole
        <4>2. reader.settled /\ Undisturbed /\ reader.epoch = epoch
          BY <3>2, <4>1
        <4>3. bench.runs = RunsPerBench /\ bench.summary = epoch
          BY <1>1, <4>2 DEF FilesInv, ReaderInv, bench
        <4>4. prom = Nominal("elapsed")
          BY <4>2 DEF PipelineInv, Clean, Undisturbed
        <4>5. QED
          BY <3>2, <4>3, <4>4 DEF Nominal
      <3>5. /\ page'.chart \in 0..RunsPerBench /\ page'.cards \in 0..Epochs
            /\ page'.table.epoch \in 0..Epochs
        BY <3>1, <3>2 DEF Parsed, PipelineInv, TypeOK
      <3>6. QED
        BY <3>2, <3>3, <3>4, <3>5 DEF PageInv
    <2>3. QED
      BY <2>1, <2>2 DEF report_writes
  <1>6. QED
    BY <1>1, <1>3, <1>4, <1>5 DEF FilesInv

LEMMA BadgesReadFiles ==
  ASSUME PipelineInv, FilesInv, badges_read
  PROVE  FilesInv'
  <1>1. /\ started' \in 0..Readings /\ reader = Idle /\ reader.at = "idle"
        /\ UNCHANGED <<page, perf, extra>>
    BY StartCounts DEF badges_read
  <1>2. PageInv'
    BY <1>1 DEF FilesInv, PageInv, PageTellsOneBench, SettledPageIsWhole
  <1>3. CASE /\ Measured /\ UNCHANGED badged
             /\ reader' = [at |-> "perf", badge |-> load_summary]
    <2>1. Measurement(load_summary)
      BY <1>3, SummaryIsMeasurement
    <2>2. reader'.at = "perf" /\ reader'.badge = load_summary
      BY <1>3
    <2>3. reader' \in BadgeReader
      BY <1>3, <2>1 DEF BadgeReader, Measurement
    <2>4. ReaderInv' /\ BadgeInv'
      BY <1>1, <1>3, <2>1, <2>2, <2>3 DEF FilesInv, ReaderInv, BadgeInv
    <2>5. QED
      BY <1>1, <1>2, <2>4 DEF FilesInv
  <1>4. CASE badged' = 1 /\ UNCHANGED reader
    <2>1. ReaderInv' /\ BadgeInv'
      BY <1>1, <1>4 DEF FilesInv, ReaderInv, BadgeInv
    <2>2. QED
      BY <1>1, <1>2, <2>1 DEF FilesInv
  <1>5. QED
    BY <1>3, <1>4 DEF badges_read

LEMMA WritePerfFiles ==
  ASSUME PipelineInv, FilesInv, write_perf
  PROVE  FilesInv'
  <1>1. /\ reader.at = "perf" /\ UNCHANGED <<started, page, extra>>
    BY DEF write_perf
  <1>2. reader \in BadgeReader /\ Measurement(reader.badge)
    BY <1>1 DEF FilesInv, ReaderInv, Idle, ReportReader
  <1>3. PageInv'
    BY <1>1 DEF FilesInv, PageInv, PageTellsOneBench, SettledPageIsWhole
  <1>4. CASE /\ perf' = reader.badge /\ badged' = badged
             /\ reader' = [reader EXCEPT !.at = "extra"]
    <2>1. /\ reader'.at = "extra" /\ reader'.badge = reader.badge
          /\ reader' \in BadgeReader
      BY <1>2, <1>4 DEF BadgeReader
    <2>2. ReaderInv' /\ BadgeInv'
      BY <1>1, <1>2, <1>4, <2>1 DEF FilesInv, ReaderInv, BadgeInv
    <2>3. QED
      BY <1>1, <1>3, <2>2 DEF FilesInv
  <1>5. CASE badge_fails /\ perf' \in {perf, Torn}
    <2>1. reader' = Idle /\ reader'.at = "idle" /\ badged' = 1
      BY <1>5 DEF badge_fails, Idle
    <2>2. ReaderInv' /\ BadgeInv'
      BY <1>1, <1>5, <2>1 DEF FilesInv, ReaderInv, BadgeInv
    <2>3. QED
      BY <1>1, <1>3, <2>2 DEF FilesInv
  <1>6. QED
    BY <1>4, <1>5 DEF write_perf

LEMMA WriteExtraFiles ==
  ASSUME PipelineInv, FilesInv, write_extra
  PROVE  FilesInv'
  <1>1. /\ reader.at = "extra" /\ UNCHANGED <<started, page, perf>>
    BY DEF write_extra
  <1>2. perf = reader.badge /\ Measurement(reader.badge)
    BY <1>1 DEF FilesInv, ReaderInv, BadgeInv
  <1>3. PageInv'
    BY <1>1 DEF FilesInv, PageInv, PageTellsOneBench, SettledPageIsWhole
  <1>4. reader' = Idle /\ reader'.at = "idle"
    BY DEF write_extra, badge_fails, Idle
  <1>5. ReaderInv'
    BY <1>4 DEF ReaderInv
  <1>6. CASE extra' = reader.badge /\ badged' = 0
    <2>1. BadgeInv'
      BY <1>1, <1>2, <1>4, <1>6 DEF FilesInv, BadgeInv
    <2>2. QED
      BY <1>1, <1>3, <1>5, <2>1 DEF FilesInv
  <1>7. CASE badge_fails /\ extra' \in {extra, Torn}
    <2>1. BadgeInv'
      BY <1>1, <1>4, <1>7 DEF FilesInv, BadgeInv, badge_fails
    <2>2. QED
      BY <1>1, <1>3, <1>5, <2>1 DEF FilesInv
  <1>8. QED
    BY <1>6, <1>7 DEF write_extra

LEMMA ReadersAreReaders == Readers => ReaderStep
  BY DEF Readers, report_reads_bench, report_writes, badges_read, write_perf,
         write_extra, badge_fails, ReaderStep, vars, hist

LEMMA NextIInv == IInv /\ [ReadersNext]_allvars => IInv'
  <1> SUFFICES ASSUME IInv, [ReadersNext]_allvars
               PROVE  IInv'
    OBVIOUS
  <1> USE DEF IInv
  <1>1. CASE /\ make_bench \/ Recipe \/ verify_bench
             /\ UNCHANGED <<started, reader, files>>
    BY <1>1, StepPipeline, MakeKeepsFiles DEF MakeStep
  <1>2. CASE Readers
    <2>1. PipelineInv'
      BY <1>2, ReadersAreReaders, ReaderKeepsPipeline
    <2>2. FilesInv'
      BY <1>2, ReportReadsFiles, ReportWritesFiles, BadgesReadFiles,
         WritePerfFiles, WriteExtraFiles DEF Readers
    <2>3. QED
      BY <2>1, <2>2
  <1>3. CASE UNCHANGED allvars
    <2>1. ReaderStep /\ UNCHANGED <<started, reader, files>>
      BY <1>3 DEF allvars, vars, hist, ReaderStep
    <2>2. QED
      BY <2>1, ReaderKeepsPipeline, MakeKeepsFiles
  <1>4. QED
    BY <1>1, <1>2, <1>3 DEF ReadersNext, ReadersDone

(* The inductive invariant holds in every state of recipe and readers. *)
THEOREM Invariance == ReadersSpec => []IInv
  <1>1. ReadersInit => IInv
    BY InitPipeline, InitFiles DEF ReadersInit, IInv
  <1>2. QED
    BY <1>1, NextIInv, PTL DEF ReadersSpec

(* Every variable of recipe and readers keeps its type. *)
THEOREM ReadersTypeCorrect == ReadersSpec => []ReadersTypeOK
  <1>1. IInv => ReadersTypeOK
    <2> SUFFICES ASSUME IInv
                 PROVE  ReadersTypeOK
      OBVIOUS
    <2> USE DEF IInv, FilesInv
    <2>1. reader.at \in {"idle", "metrics", "perf", "extra"}
      BY DEF ReaderInv, Idle, ReportReader, BadgeReader
    <2>2. /\ page.state \in {"absent", "torn", "shown"}
          /\ page.state = "shown" => /\ page.chart \in 0..RunsPerBench
                                     /\ page.cards \in 0..Epochs
                                     /\ page.table.epoch \in 0..Epochs
      BY DEF PageInv, Absent, Torn
    <2>3. \A b \in {perf, extra} :
            b.state = "shown" => b.runs \in 0..RunsPerBench
                                   /\ b.of \subseteq 1..Epochs
      BY DEF BadgeInv, Measurement, Badge, Absent, Torn
    <2>4. QED
      BY <2>1, <2>2, <2>3 DEF PipelineInv, BadgeInv, ReadersTypeOK
  <1>2. QED
    BY <1>1, Invariance, PTL

(***************************************************************************)
(* A verdict about another epoch or about the stress knobs takes two       *)
(* failed truncations in one make bench, whatever else fails.              *)
(***************************************************************************)
THEOREM VerdictIsFresh == ReadersSpec => []FreshUnlessNeverTruncated
  <1>1. IInv => FreshUnlessNeverTruncated
    <2> SUFFICES ASSUME IInv, Decided, kept < 2
                 PROVE  Judged.epoch = epoch /\ Judged.knobs = "nominal"
      BY DEF FreshUnlessNeverTruncated
    <2> USE DEF IInv, PipelineInv
    <2>1. stage = "made" /\ jsonl # <<>> /\ Judged.kind = "telemetry"
      BY DEF Control, Decided
    <2>2. Judged = jsonl[1] /\ 1 \in DOMAIN jsonl
      BY <2>1, FirstIsHead DEF Judged, TypeOK
    <2>3. QED
      BY <2>1, <2>2 DEF Fresh, Truncated, Late
  <1>2. QED
    BY <1>1, Invariance, PTL

(***************************************************************************)
(* A make bench in which nothing fails ends with a telemetry line for      *)
(* every run, all lines its own, the metrics of its last replay with the   *)
(* published quantiles, and is never refused by the gate.                  *)
(***************************************************************************)
THEOREM CleanIsJudged == ReadersSpec => []CleanEpochIsJudged
  <1>1. IInv => CleanEpochIsJudged
    <2> SUFFICES ASSUME IInv, stage = "made", faults = base
                 PROVE  /\ verdict # "refused"
                        /\ Cardinality(Those(jsonl, "telemetry"))
                             = RunsPerBench
                        /\ \A n \in DOMAIN jsonl : jsonl[n].epoch = epoch
                        /\ prom = [epoch |-> epoch, tails |-> TRUE,
                                   p99 |-> "elapsed", publish |-> TRUE]
      BY DEF CleanEpochIsJudged
    <2> USE DEF IInv, PipelineInv
    <2>1. /\ kept = 0 /\ verdict # "refused" /\ prom = Nominal("elapsed")
          /\ Cardinality(Tele) = RunsPerBench
      BY DEF Clean, Late
    <2>2. \A n \in DOMAIN jsonl : jsonl[n].epoch = epoch
      BY <2>1 DEF Fresh, Truncated, Late
    <2>3. QED
      BY <2>1, <2>2 DEF Nominal, Tele
  <1>2. QED
    BY <1>1, Invariance, PTL

(***************************************************************************)
(* A page never mixes two runs of bench.sh, at whatever moment it is made  *)
(* and whatever fails.                                                     *)
(***************************************************************************)
THEOREM PageOfOneBench == ReadersSpec => []PageTellsOneBench
  <1>1. IInv => PageTellsOneBench
    BY DEF IInv, FilesInv, PageInv, PageTellsOneBench, Absent, Torn
  <1>2. QED
    BY <1>1, Invariance, PTL

(* After an undisturbed make bench the page is whole. *)
THEOREM SettledPage == ReadersSpec => []SettledPageIsWhole
  <1>1. IInv => SettledPageIsWhole
    BY DEF IInv, FilesInv, PageInv, SettledPageIsWhole, Absent, Torn
  <1>2. QED
    BY <1>1, Invariance, PTL

(***************************************************************************)
(* Badges are measurements of one bench, and the two files agree after a   *)
(* run that succeeded.                                                     *)
(***************************************************************************)
THEOREM BadgesOfOneBench == ReadersSpec => []BadgesTellOneBench
  <1>1. IInv => BadgesTellOneBench
    BY DEF IInv, FilesInv, BadgeInv, Measurement, BadgesTellOneBench, Absent,
           Torn
  <1>2. QED
    BY <1>1, Invariance, PTL
-----------------------------------------------------------------------------
(* The steps bench.sh has left, at most, and with them those of the recipe. *)
BenchLeft == CASE phase = "truncate" -> 2 * RunsPerBench + 2
               [] phase = "replay"   -> 2 * (RunsPerBench - i) + 3
               [] phase = "record"   -> 2 * (RunsPerBench - i) + 2
               [] phase = "summary"  -> 1
               [] OTHER              -> 0

RecipeLeft == CASE stage = "knobs"    -> 4 * RunsPerBench + 7
                [] stage = "bench"    -> 2 * RunsPerBench + 4 + BenchLeft
                [] stage = "textfile" -> 2 + BenchLeft
                [] stage = "publish"  -> 2
                [] stage = "ensure"   -> 1
                [] OTHER              -> 0

LEMMA BenchLeftRange ==
  ASSUME PipelineInv
  PROVE  /\ BenchLeft \in 0..2 * RunsPerBench + 2
         /\ stage \in {"bench", "textfile"} => BenchLeft >= 1
  <1>1. RunsPerBench \in Nat /\ RunsPerBench >= 1
    BY PipelineAssumption
  <1>2. phase \in {"replay", "record"} => i \in 1..RunsPerBench
    BY DEF PipelineInv, Control
  <1>3. phase \in Phases /\ (stage \in {"bench", "textfile"} => phase # "off")
    BY DEF PipelineInv, Control, TypeOK
  <1>4. QED
    BY <1>1, <1>2, <1>3 DEF BenchLeft, Phases

(* A recipe has steps left as long as it is not at rest. *)
LEMMA RecipeLeftRange ==
  ASSUME PipelineInv
  PROVE  /\ RecipeLeft \in 0..4 * RunsPerBench + 7
         /\ RecipeLeft = 0 <=> AtRest
  <1>1. RunsPerBench \in Nat /\ RunsPerBench >= 1
    BY PipelineAssumption
  <1>2. /\ BenchLeft \in 0..2 * RunsPerBench + 2
        /\ stage \in {"bench", "textfile"} => BenchLeft >= 1
    BY BenchLeftRange
  <1>3. stage \in Stages
    BY DEF PipelineInv, TypeOK
  <1>4. QED
    BY <1>1, <1>2, <1>3 DEF RecipeLeft, AtRest, Stages

(* bench.sh may end at any of its steps: then what follows it is left. *)
LEMMA EndOfBench ==
  ASSUME PipelineInv, NEW printed, AfterBench(printed),
         stage \in {"bench", "textfile"}
  PROVE  RecipeLeft' < RecipeLeft
  <1>1. RunsPerBench \in Nat /\ RunsPerBench >= 1
    BY PipelineAssumption
  <1>2. BenchLeft \in Nat /\ BenchLeft >= 1
    BY <1>1, BenchLeftRange
  <1>3. CASE stage = "bench"
    <2>1. stage' = "textfile" /\ phase' = "truncate"
      BY <1>3 DEF AfterBench
    <2>2. RecipeLeft' = 2 + (2 * RunsPerBench + 2)
      BY <2>1 DEF RecipeLeft, BenchLeft
    <2>3. RecipeLeft = 2 * RunsPerBench + 4 + BenchLeft
      BY <1>3 DEF RecipeLeft
    <2>4. QED
      BY <1>1, <1>2, <2>2, <2>3
  <1>4. CASE stage = "textfile"
    <2>1. stage' \in {"publish", "ensure"}
      BY <1>4 DEF AfterBench
    <2>2. RecipeLeft' \in {1, 2}
      BY <2>1 DEF RecipeLeft
    <2>3. RecipeLeft = 2 + BenchLeft
      BY <1>4 DEF RecipeLeft
    <2>4. QED
      BY <1>2, <2>2, <2>3
  <1>5. QED
    BY <1>3, <1>4

(* Within bench.sh what is left of the recipe is what is left of it. *)
LEMMA StepOfBench ==
  ASSUME PipelineInv, stage \in {"bench", "textfile"}, stage' = stage,
         BenchLeft' \in Int, BenchLeft' < BenchLeft
  PROVE  RecipeLeft' < RecipeLeft
  <1>1. RunsPerBench \in Nat /\ BenchLeft \in Int
    BY PipelineAssumption, BenchLeftRange
  <1>2. QED
    BY <1>1 DEF RecipeLeft

LEMMA RecipeShortens ==
  ASSUME PipelineInv, Recipe
  PROVE  RecipeLeft' < RecipeLeft
  <1>1. RunsPerBench \in Nat /\ RunsPerBench >= 1
    BY PipelineAssumption
  <1>2. phase # "off" => stage \in {"bench", "textfile"}
    BY DEF PipelineInv, Control
  <1>3. phase \in {"replay", "record"} => i \in 1..RunsPerBench
    BY DEF PipelineInv, Control
  <1>4. CASE run_knobs
    <2>1. stage = "knobs" /\ stage' = "bench" /\ phase' = "truncate"
      BY <1>4 DEF run_knobs
    <2>2. /\ RecipeLeft = 4 * RunsPerBench + 7
          /\ RecipeLeft' = 2 * RunsPerBench + 4 + (2 * RunsPerBench + 2)
      BY <2>1 DEF RecipeLeft, BenchLeft
    <2>3. QED
      BY <1>1, <2>2
  <1>5. CASE truncate
    <2>1. phase = "truncate" /\ stage \in {"bench", "textfile"}
      BY <1>2, <1>5 DEF truncate
    <2>2. CASE i' = 1 /\ phase' = "replay" /\ stage' = stage
      <3>1. BenchLeft = 2 * RunsPerBench + 2 /\ BenchLeft' = 2 * (RunsPerBench - 1) + 3
        BY <2>1, <2>2 DEF BenchLeft
      <3>2. QED
        BY <1>1, <2>1, <2>2, <3>1, StepOfBench
    <2>3. CASE AfterBench(FALSE)
      BY <2>1, <2>3, EndOfBench
    <2>4. QED
      BY <1>5, <2>2, <2>3 DEF truncate
  <1>6. CASE bench_replay
    <2>1. phase = "replay" /\ stage \in {"bench", "textfile"} /\ i' = i
      BY <1>2, <1>6 DEF bench_replay
    <2>2. CASE phase' = "record" /\ stage' = stage
      <3>1. /\ BenchLeft = 2 * (RunsPerBench - i) + 3
            /\ BenchLeft' = 2 * (RunsPerBench - i) + 2
        BY <2>1, <2>2 DEF BenchLeft
      <3>2. QED
        BY <1>1, <1>3, <2>1, <2>2, <3>1, StepOfBench
    <2>3. CASE AfterBench(FALSE)
      BY <2>1, <2>3, EndOfBench
    <2>4. QED
      BY <1>6, <2>2, <2>3 DEF bench_replay
  <1>7. CASE record_run
    <2>1. phase = "record" /\ stage \in {"bench", "textfile"}
      BY <1>2, <1>7 DEF record_run
    <2>2. CASE /\ i' = i + 1 /\ stage' = stage
               /\ phase' = IF i < RunsPerBench THEN "replay" ELSE "summary"
      <3>1. BenchLeft = 2 * (RunsPerBench - i) + 2 /\ i \in 1..RunsPerBench
        BY <1>3, <2>1 DEF BenchLeft
      <3>2. BenchLeft' = IF i < RunsPerBench THEN 2 * (RunsPerBench - (i + 1)) + 3
                                             ELSE 1
        BY <2>2 DEF BenchLeft
      <3>3. QED
        BY <1>1, <2>1, <2>2, <3>1, <3>2, StepOfBench
    <2>3. CASE AfterBench(FALSE)
      BY <2>1, <2>3, EndOfBench
    <2>4. QED
      BY <1>7, <2>2, <2>3 DEF record_run
  <1>8. CASE append_summary
    <2>1. phase = "summary" /\ AfterBench(TRUE)
      BY <1>8 DEF append_summary
    <2>2. stage \in {"bench", "textfile"}
      BY <1>2, <2>1
    <2>3. QED
      BY <2>1, <2>2, EndOfBench
  <1>9. CASE prom_textfile
    BY <1>9 DEF prom_textfile, RecipeLeft
  <1>10. CASE ensure_bench
    BY <1>10 DEF ensure_bench, RecipeLeft
  <1>11. CASE abort
    <2>1. ~AtRest /\ RecipeLeft' = 0
      BY <1>11 DEF abort, RecipeLeft
    <2>2. RecipeLeft \in Nat /\ RecipeLeft # 0
      BY <1>1, <2>1, RecipeLeftRange
    <2>3. QED
      BY <2>1, <2>2
  <1>12. QED
    BY <1>4, <1>5, <1>6, <1>7, <1>8, <1>9, <1>10, <1>11 DEF Recipe

(***************************************************************************)
(* A recipe that is not at rest has at most 4 * RunsPerBench + 7 steps     *)
(* left; each of its own takes at least one off, a reader's none, and      *)
(* there are no others.  With the fairness of ReadersSpec this is why      *)
(* RecipeEnds holds: only ENABLED and the temporal induction are missing.  *)
(***************************************************************************)
RecipeCounts == /\ Readers => RecipeLeft' = RecipeLeft
                /\ ~AtRest => Readers \/ RecipeLeft' < RecipeLeft

THEOREM RecipeRunsDown ==
  ReadersSpec => /\ [](/\ RecipeLeft \in 0..4 * RunsPerBench + 7
                       /\ RecipeLeft = 0 <=> AtRest)
                 /\ [][RecipeCounts]_allvars
  <1>1. IInv => /\ RecipeLeft \in 0..4 * RunsPerBench + 7
                /\ RecipeLeft = 0 <=> AtRest
    BY RecipeLeftRange DEF IInv
  <1>2. IInv /\ [ReadersNext]_allvars => [RecipeCounts]_allvars
    <2> SUFFICES ASSUME IInv, ReadersNext, ~(UNCHANGED allvars)
                 PROVE  RecipeCounts
      OBVIOUS
    <2>1. CASE Readers
      <3>1. UNCHANGED <<stage, phase, i>>
        BY <2>1, ReadersAreReaders DEF ReaderStep
      <3>2. RecipeLeft' = RecipeLeft
        BY <3>1 DEF RecipeLeft, BenchLeft
      <3>3. QED
        BY <2>1, <3>2 DEF RecipeCounts
    <2>2. CASE ~Readers
      <3>1. make_bench \/ Recipe \/ verify_bench
        BY <2>2 DEF ReadersNext, ReadersDone
      <3>2. ~AtRest => Recipe
        BY <3>1 DEF make_bench, verify_bench, AtRest
      <3>3. QED
        BY <2>2, <3>2, RecipeShortens DEF IInv, RecipeCounts
    <2>3. QED
      BY <2>1, <2>2
  <1>3. QED
    BY <1>1, <1>2, Invariance, PTL DEF ReadersSpec
=============================================================================
