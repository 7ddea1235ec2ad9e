---------------------------- MODULE ReplayProofs ----------------------------
(***************************************************************************)
(* Theorems about Replay: for every set of processes and of command lines, *)
(* every default table, every weight of the blend and any number of        *)
(* failures and kills.  The last part shows what BenchPipeline takes for   *)
(* granted: that a run which no other overlaps is one step.                *)
(***************************************************************************)
EXTENDS Replay, SequenceTheorems, FiniteSetTheorems, TLAPS

Recording == {p \in Runs : Recorded(p)}

(***************************************************************************)
(* What the two files may hold: a line is the snapshot of a run that had   *)
(* something to record, a block one of its blocks.                         *)
(***************************************************************************)
Lines == {TelemetrySnapshot(p) : p \in Recording}
PromBlocks == Recording \X Nat

(* Where a run may only be once it has something to record. *)
Writing == {"dir", "append", "open", "write", "print"}

(***************************************************************************)
(* The inductive invariant behind TypeOK and FailuresLeaveNoTrace: control *)
(* passes read_all() only with a readable input, so everything in either   *)
(* file stems from such a run, and no run has a code before it exits.      *)
(***************************************************************************)
TraceInv == /\ cmd \in [Runs -> Commands]
            /\ pc \in [Runs -> Places]
            /\ code \in [Runs -> {0, 1, 2, Running, Killed}]
            /\ dir \in BOOLEAN
            /\ overlap \in BOOLEAN
            /\ clash \in BOOLEAN
            /\ faults \in 0..Slack
            /\ jsonl \in Seq(Lines)
            /\ prom \in Seq(PromBlocks)
            /\ \A p \in Runs : /\ pc[p] = "read" => cmd[p].args = "run"
                               /\ pc[p] \in Writing => Recorded(p)
                               /\ pc[p] # "done" => code[p] = Running

(* What a run records depends on its command line only. *)
LEMMA SnapshotStable ==
  ASSUME cmd' = cmd
  PROVE  /\ \A p : TelemetrySnapshot(p)' = TelemetrySnapshot(p)
         /\ \A p : Recorded(p)' = Recorded(p)
         /\ Recording' = Recording
         /\ Lines' = Lines
         /\ PromBlocks' = PromBlocks
  <1>1. \A p : TelemetrySnapshot(p)' = TelemetrySnapshot(p)
    BY DEF TelemetrySnapshot, breaker, D!readings, D!Detected, D!Blend,
           D!measured, D!ppm_of, D!Whole, B!worst, B!Metrics,
           B!metric_level, B!Fuse, B!Local, B!Feeder, B!Main
  <1>2. QED
    BY <1>1 DEF Recorded, Recording, Lines, PromBlocks

(* A line or a block of a recording run is one the files may hold. *)
LEMMA SnapshotIsLine ==
  ASSUME NEW p \in Runs, Recorded(p)
  PROVE  TelemetrySnapshot(p) \in Lines /\ TelemetrySnapshot(p).run = p
  <1>1. p \in Recording
    BY DEF Recording
  <1>2. TelemetrySnapshot(p).run = p
    BY DEF TelemetrySnapshot
  <1>3. QED
    BY <1>1, <1>2 DEF Lines

LEMMA BlocksAreBlocks ==
  ASSUME NEW p \in Runs, Recorded(p), cmd \in [Runs -> Commands]
  PROVE  /\ Blocks(p) \in Seq(PromBlocks)
         /\ Len(Blocks(p)) = cmd[p].blocks
         /\ cmd[p].blocks \in Nat \ {0}
  <1>1. cmd[p].blocks \in Nat \ {0}
    BY ReplayAssumption DEF CommandsOK
  <1>2. p \in Recording
    BY DEF Recording
  <1>3. \A i \in 1..cmd[p].blocks : <<p, i>> \in PromBlocks
    BY <1>1, <1>2 DEF PromBlocks
  <1>4. QED
    BY <1>1, <1>3 DEF Blocks

(* A write at offset zero keeps what both texts consist of, and replaces   *)
(* an empty file as a whole.                                               *)
LEMMA OverwriteType ==
  ASSUME NEW S, NEW old \in Seq(S), NEW new \in Seq(S)
  PROVE  Overwrite(old, new) \in Seq(S)
  <1>1. Len(new) \in Nat /\ Len(old) \in Nat
    BY LenProperties
  <1>2. \A i \in (Len(new) + 1)..Len(old) : old[i] \in S
    BY <1>1, ElementOfSeq
  <1>3. SubSeq(old, Len(new) + 1, Len(old)) \in Seq(S)
    BY <1>1, <1>2, SubSeqProperties
  <1>4. QED
    BY <1>3, ConcatProperties DEF Overwrite

LEMMA OverwriteEmpty ==
  ASSUME NEW S, NEW new \in Seq(S)
  PROVE  Overwrite(<<>>, new) = new
  <1>1. Len(new) \in Nat /\ Len(<<>>) = 0
    BY LenProperties
  <1>2. SubSeq(<<>>, Len(new) + 1, Len(<<>>)) = <<>>
    BY <1>1, SubSeqEmpty
  <1>3. QED
    BY <1>2, ConcatEmptySeq DEF Overwrite
-----------------------------------------------------------------------------
LEMMA InitTrace == Init => TraceInv
  <1> SUFFICES ASSUME Init
               PROVE  TraceInv
    OBVIOUS
  <1>1. 0 \in 0..Slack
    BY ReplayAssumption
  <1>2. <<>> \in Seq(Lines) /\ <<>> \in Seq(PromBlocks)
    OBVIOUS
  <1>3. /\ pc \in [Runs -> Places]
        /\ code \in [Runs -> {0, 1, 2, Running, Killed}]
    BY DEF Init, Places
  <1>4. \A p \in Runs : pc[p] = "start" /\ code[p] = Running
    BY DEF Init
  <1>5. \A p \in Runs : /\ pc[p] # "read"
                        /\ pc[p] \notin Writing
                        /\ code[p] = Running
    BY <1>4 DEF Writing
  <1>6. QED
    BY <1>1, <1>2, <1>3, <1>5 DEF Init, TraceInv

(* Each operation of a run keeps the invariant. *)
LEMMA StepTrace ==
  ASSUME TraceInv, NEW p \in Runs, Step(p) \/ kill(p)
  PROVE  TraceInv'
  <1>1. /\ cmd' = cmd
        /\ \A q : Recorded(q)' = Recorded(q)
        /\ Lines' = Lines
        /\ PromBlocks' = PromBlocks
    <2>1. cmd' = cmd
      BY DEF Step, parse_args, read_all, ensure_dir, write_jsonl, open_prom,
             close_prom, report, kill
    <2>2. QED
      BY <2>1, SnapshotStable
  <1>2. faults' \in 0..Slack
    BY ReplayAssumption
       DEF Step, parse_args, read_all, ensure_dir, write_jsonl, open_prom,
           close_prom, report, kill, Fail, TraceInv, history
  <1>3. dir' \in BOOLEAN /\ overlap' \in BOOLEAN /\ clash' \in BOOLEAN
    BY DEF Step, parse_args, read_all, ensure_dir, write_jsonl, open_prom,
           close_prom, report, kill, TraceInv, history
  <1>4. jsonl' \in Seq(Lines)
    <2>1. CASE write_jsonl(p)
      <3>1. Recorded(p)
        BY <2>1 DEF write_jsonl, TraceInv, Writing
      <3>2. CASE jsonl' = Append(jsonl, TelemetrySnapshot(p))
        BY <3>1, <3>2, SnapshotIsLine, AppendProperties DEF TraceInv
      <3>3. CASE jsonl' = jsonl
        BY <3>3 DEF TraceInv
      <3>4. QED
        BY <2>1, <3>2, <3>3 DEF write_jsonl
    <2>2. CASE ~write_jsonl(p)
      <3>1. jsonl' = jsonl
        BY <2>2 DEF Step, parse_args, read_all, ensure_dir, open_prom,
                    close_prom, report, kill
      <3>2. QED
        BY <3>1 DEF TraceInv
    <2>3. QED
      BY <2>1, <2>2
  <1>5. prom' \in Seq(PromBlocks)
    <2>1. CASE close_prom(p)
      <3>1. Recorded(p)
        BY <2>1 DEF close_prom, TraceInv, Writing
      <3>2. Blocks(p) \in Seq(PromBlocks)
        BY <3>1, BlocksAreBlocks DEF TraceInv
      <3>3. Overwrite(prom, Blocks(p)) \in Seq(PromBlocks)
        BY <3>2, OverwriteType DEF TraceInv
      <3>4. QED
        BY <2>1, <3>3 DEF close_prom, TraceInv
    <2>2. CASE ~close_prom(p)
      <3>1. prom' = prom \/ prom' = <<>>
        BY <2>2 DEF Step, parse_args, read_all, ensure_dir, write_jsonl,
                    open_prom, report, kill
      <3>2. <<>> \in Seq(PromBlocks) /\ prom \in Seq(PromBlocks)
        BY DEF TraceInv
      <3>3. QED
        BY <3>1, <3>2
    <2>3. QED
      BY <2>1, <2>2
  <1>6. pc' \in [Runs -> Places]
    BY DEF Step, parse_args, read_all, ensure_dir, write_jsonl, open_prom,
           close_prom, report, kill, Goto, Exit, TraceInv, Places
  <1>7. code' \in [Runs -> {0, 1, 2, Running, Killed}]
    BY DEF Step, parse_args, read_all, ensure_dir, write_jsonl, open_prom,
           close_prom, report, kill, Goto, Exit, TraceInv
  <1>8. ASSUME NEW q \in Runs
        PROVE  /\ pc'[q] = "read" => cmd[q].args = "run"
               /\ pc'[q] \in Writing => Recorded(q)
               /\ pc'[q] # "done" => code'[q] = Running
    <2> USE DEF TraceInv, Goto, Exit, Writing, Places, Running, Killed
    <2>1. CASE parse_args(p)
      BY <2>1 DEF parse_args
    <2>2. CASE read_all(p)
      BY <2>2 DEF read_all, Recorded
    <2>3. CASE ensure_dir(p)
      BY <2>3 DEF ensure_dir
    <2>4. CASE write_jsonl(p)
      BY <2>4 DEF write_jsonl
    <2>5. CASE open_prom(p)
      BY <2>5 DEF open_prom
    <2>6. CASE close_prom(p)
      BY <2>6 DEF close_prom
    <2>7. CASE report(p)
      BY <2>7 DEF report
    <2>8. CASE kill(p)
      BY <2>8 DEF kill
    <2>9. QED
      BY <2>1, <2>2, <2>3, <2>4, <2>5, <2>6, <2>7, <2>8 DEF Step
  <1>9. QED
    BY <1>1, <1>2, <1>3, <1>4, <1>5, <1>6, <1>7, <1>8 DEF TraceInv

LEMMA NextTrace == TraceInv /\ [Next]_vars => TraceInv'
  <1> SUFFICES ASSUME TraceInv, [Next]_vars
               PROVE  TraceInv'
    OBVIOUS
  <1>1. ASSUME NEW p \in Runs, Step(p) \/ kill(p)
        PROVE  TraceInv'
    BY <1>1, StepTrace
  <1>2. CASE UNCHANGED vars
    <2>1. Lines' = Lines /\ PromBlocks' = PromBlocks
      BY <1>2, SnapshotStable DEF vars
    <2>2. QED
      BY <1>2, <2>1 DEF vars, history, TraceInv, Recorded
  <1>3. QED
    BY <1>1, <1>2 DEF Next

(* Everything in the two files comes from a run that read its input. *)
THEOREM Traces == Spec => []TraceInv
  BY InitTrace, NextTrace, PTL DEF Spec

(***************************************************************************)
(* Commands, control, exit codes and files keep their types: in particular *)
(* no exit code but the documented three, unless the run was killed.       *)
(***************************************************************************)
THEOREM TypeCorrect == Spec => []TypeOK
  <1>1. TraceInv => TypeOK
    <2> SUFFICES ASSUME TraceInv
                 PROVE  TypeOK
      OBVIOUS
    <2>1. ASSUME NEW i \in DOMAIN jsonl
          PROVE  jsonl[i].run \in Runs
      <3>1. jsonl[i] \in Lines
        BY DEF TraceInv
      <3>2. PICK q \in Recording : jsonl[i] = TelemetrySnapshot(q)
        BY <3>1 DEF Lines
      <3>3. QED
        BY <3>2 DEF Recording, TelemetrySnapshot
    <2>2. ASSUME NEW i \in DOMAIN prom
          PROVE  prom[i][1] \in Runs
      <3>1. prom[i] \in PromBlocks
        BY DEF TraceInv
      <3>2. QED
        BY <3>1 DEF PromBlocks, Recording
    <2>3. QED
      BY <2>1, <2>2 DEF TraceInv, TypeOK
  <1>2. QED
    BY <1>1, Traces, PTL

(***************************************************************************)
(* A run that is misused, asked for help or without a readable input never *)
(* touches the directory or either file, whatever the other runs do, and   *)
(* every run that is not killed exits with the code of its case.           *)
(***************************************************************************)
THEOREM NoTrace == Spec => FailuresLeaveNoTrace
  <1> DEFINE Leaves(p) == /\ ~Recorded(p) => UNCHANGED <<dir, jsonl, prom>>
                          /\ code'[p] \in {Running, Killed, ExitCode(p)}
  <1>1. TraceInv /\ [Next]_vars
          => [\A p \in Runs : pc'[p] # pc[p] => Leaves(p)]_vars
    <2> SUFFICES ASSUME TraceInv, [Next]_vars, vars' # vars,
                        NEW p \in Runs, pc'[p] # pc[p]
                 PROVE  Leaves(p)
      OBVIOUS
    <2>1. pc \in [Runs -> Places] /\ code \in [Runs -> {0, 1, 2, Running, Killed}]
      BY DEF TraceInv
    <2>2. Step(p) \/ kill(p)
      <3>1. PICK q \in Runs : Step(q) \/ kill(q)
        BY DEF Next
      <3>2. \A o \in Runs : o # q => pc'[o] = pc[o]
        BY <2>1, <3>1
           DEF Step, parse_args, read_all, ensure_dir, write_jsonl, open_prom,
               close_prom, report, kill, Goto, Exit
      <3>3. QED
        BY <3>1, <3>2
    <2>3. ASSUME ~Recorded(p)
          PROVE  UNCHANGED <<dir, jsonl, prom>>
      <3>1. pc[p] \notin Writing
        BY <2>3 DEF TraceInv
      <3>2. parse_args(p) \/ read_all(p) \/ kill(p)
        BY <2>2, <3>1 DEF Step, Writing, ensure_dir, write_jsonl, open_prom,
                          close_prom, report
      <3>3. QED
        BY <3>2 DEF parse_args, read_all, kill
    <2>4. code'[p] \in {Running, Killed, ExitCode(p)}
      <3> USE DEF Goto, Exit
      <3>1. CASE parse_args(p)
        BY <2>1, <3>1 DEF parse_args, TraceInv, ExitCode
      <3>2. CASE read_all(p)
        <4>1. cmd[p].args = "run" /\ code[p] = Running
          BY <3>2 DEF read_all, TraceInv
        <4>2. CASE cmd[p].readable
          BY <2>1, <3>2, <4>1, <4>2 DEF read_all
        <4>3. CASE ~cmd[p].readable
          BY <2>1, <3>2, <4>1, <4>3 DEF read_all, ExitCode
        <4>4. QED
          BY <4>2, <4>3
      <3>3. CASE report(p)
        BY <2>1, <3>3 DEF report, TraceInv, Writing, Recorded, ExitCode
      <3>4. CASE kill(p)
        BY <2>1, <3>4 DEF kill
      <3>5. CASE ensure_dir(p) \/ write_jsonl(p) \/ open_prom(p) \/ close_prom(p)
        <4>1. code'[p] = code[p] /\ pc[p] # "done"
          BY <3>5 DEF ensure_dir, write_jsonl, open_prom, close_prom
        <4>2. QED
          BY <4>1 DEF TraceInv
      <3>6. QED
        BY <2>2, <3>1, <3>2, <3>3, <3>4, <3>5 DEF Step
    <2>5. QED
      BY <2>3, <2>4
  <1>2. QED
    BY <1>1, Traces, PTL DEF Spec, FailuresLeaveNoTrace
-----------------------------------------------------------------------------
(* A nonempty set of levels has a greatest member, the one Max chooses. *)
LEMMA MaxOfLevels ==
  ASSUME NEW S \in SUBSET (0..3), S # {}
  PROVE  /\ B!Max(S) \in S
         /\ \A y \in S : B!Max(S) >= y
  <1>1. \E x \in S : \A y \in S : x >= y
    <2>1. S \subseteq {0, 1, 2, 3}
      OBVIOUS
    <2>2. CASE 3 \in S
      BY <2>1, <2>2
    <2>3. CASE 3 \notin S /\ 2 \in S
      BY <2>1, <2>3
    <2>4. CASE 3 \notin S /\ 2 \notin S /\ 1 \in S
      BY <2>1, <2>4
    <2>5. CASE 3 \notin S /\ 2 \notin S /\ 1 \notin S
      <3>1. PICK z \in S : TRUE
        OBVIOUS
      <3>2. z = 0 /\ \A y \in S : y = 0
        BY <2>1, <2>5
      <3>3. QED
        BY <3>2
    <2>6. QED
      BY <2>2, <2>3, <2>4, <2>5
  <1>2. QED
    BY <1>1 DEF B!Max

(* The lesser of two integers. *)
LEMMA MinOfPair ==
  ASSUME NEW a \in Int, NEW b \in Int
  PROVE  Min({a, b}) \in {a, b} /\ Min({a, b}) <= a /\ Min({a, b}) <= b
  <1>1. CASE a <= b
    <2>1. a \in {a, b} /\ \A y \in {a, b} : a <= y
      BY <1>1
    <2>2. QED
      BY <2>1 DEF Min
  <1>2. CASE b <= a
    <2>1. b \in {a, b} /\ \A y \in {a, b} : b <= y
      BY <1>2
    <2>2. QED
      BY <2>1 DEF Min
  <1>3. QED
    BY <1>1, <1>2

(* worst() stays below Feeder exactly when every metric does. *)
LEMMA WorstBelowFeeder ==
  ASSUME NEW r
  PROVE  B!worst(r, Default) \in {0, 1} <=>
           \A m \in B!Metrics : ~(r[m] >= Default[m].main)
                                  /\ ~(r[m] >= Default[m].feeder)
  <1> DEFINE L(m) == B!metric_level(r[m], Default[m])
             S == {L(m) : m \in B!Metrics}
  <1>1. \A m \in B!Metrics :
          /\ L(m) \in 0..3
          /\ L(m) \in {0, 1} <=> ~(r[m] >= Default[m].main)
                                   /\ ~(r[m] >= Default[m].feeder)
    BY DEF B!metric_level, B!Fuse, B!Local, B!Feeder, B!Main
  <1>2. B!worst(r, Default) = B!Max(S)
    BY DEF B!worst
  <1> HIDE DEF L
  <1>3. S \in SUBSET (0..3) /\ S # {}
    BY <1>1 DEF B!Metrics
  <1>4. \A m \in B!Metrics : L(m) \in S
    OBVIOUS
  <1>5. \A y \in S : \E m \in B!Metrics : y = L(m)
    OBVIOUS
  <1> HIDE DEF S
  <1>6. B!Max(S) \in S /\ \A y \in S : B!Max(S) >= y
    BY <1>3, MaxOfLevels
  <1>7. ASSUME B!Max(S) \in {0, 1}
        PROVE  \A m \in B!Metrics : L(m) \in {0, 1}
    BY <1>1, <1>4, <1>6, <1>7
  <1>8. ASSUME \A m \in B!Metrics : L(m) \in {0, 1}
        PROVE  B!Max(S) \in {0, 1}
    BY <1>5, <1>6, <1>8
  <1>9. QED
    BY <1>1, <1>2, <1>7, <1>8

(* Nothing measured: the reading is the weighted rate, rounded down. *)
LEMMA WeightedRate ==
  ASSUME NEW k \in Nat, NEW d \in Nat \ {0}, NEW t \in Int
  PROVE  ((Den - A) * k * d) \div (Den * d) >= t <=> (Den - A) * k >= Den * t
  <1> DEFINE X == (Den - A) * k
             Y == Den * t
             q == (X * d) \div (Den * d)
  <1>1. /\ Den \in Nat \ {0} /\ Den - A \in Nat
        /\ X \in Nat /\ Y \in Int
    BY ReplayAssumption
  <1>2. Den * d \in Nat \ {0} /\ X * d \in Int
    BY <1>1
  <1>3. (Den * d) * t = Y * d
    BY <1>1
  <1> HIDE DEF X, Y
  <1>4. ASSUME X >= Y
        PROVE  q >= t
    <2>1. X * d >= Y * d
      BY <1>1, <1>4
    <2>2. X * d >= (Den * d) * t
      BY <1>3, <2>1
    <2>3. QED
      BY <1>2, <2>2
  <1>5. ASSUME X < Y
        PROVE  q < t
    <2>1. X + 1 <= Y
      BY <1>1, <1>5
    <2>2. X * d + d <= Y * d
      <3>1. (X + 1) * d <= Y * d
        BY <1>1, <2>1
      <3>2. (X + 1) * d = X * d + d
        BY <1>1
      <3>3. QED
        BY <3>1, <3>2
    <2>3. X * d < (Den * d) * t
      BY <1>1, <1>2, <1>3, <2>2
    <2>4. QED
      BY <1>2, <2>3
  <1>6. q \in Int
    BY <1>2
  <1>7. q >= t <=> X >= Y
    BY <1>1, <1>4, <1>5, <1>6
  <1>8. QED
    BY <1>7 DEF X, Y

(* What one metric of a run reads, compared with a whole threshold. *)
LEMMA ReadingOfRun ==
  ASSUME cmd \in [Runs -> Commands], NEW p \in Runs, NEW m \in B!Metrics,
         NEW t \in Int
  PROVE  D(p)!readings[m] >= t <=> (Den - A) * cmd[p].knobs[m] >= Den * t
  <1> DEFINE k == cmd[p].knobs[m]
             d == D(p)!measured[m].d
  <1>1. cmd[p].knobs \in [B!Metrics -> Nat] /\ cmd[p].bytes \in Nat
    BY ReplayAssumption DEF CommandsOK
  <1>2. k \in Nat
    BY <1>1
  <1>3. D(p)!measured[m].n = 0 /\ d \in Nat \ {0}
    BY <1>1, ReplayAssumption
       DEF D!measured, D!ppm_of, D!Whole, B!Metrics
  <1>4. D(p)!readings[m] = (A * 0 + (Den - A) * k * d) \div (Den * d)
    BY <1>3 DEF D!readings, D!Blend, D!Detected, B!Metrics
  <1> HIDE DEF k, d
  <1>5. A * 0 + (Den - A) * k * d = (Den - A) * k * d
    BY <1>2, <1>3, ReplayAssumption
  <1>6. D(p)!readings[m] = ((Den - A) * k * d) \div (Den * d)
    BY <1>4, <1>5
  <1>7. QED
    BY <1>2, <1>3, <1>6, WeightedRate DEF k

(***************************************************************************)
(* What a run publishes is a function of its command line: allowed exactly *)
(* when every rate injected, scaled by the blend, stays below the lower of *)
(* the metric's feeder and main thresholds, for every default table (they  *)
(* need not be ordered) and every weight.                                  *)
(***************************************************************************)
THEOREM PublishFromKnobs == Spec => []PublishFollowsKnobs
  <1>1. TraceInv => PublishFollowsKnobs
    <2> SUFFICES ASSUME TraceInv, NEW i \in DOMAIN jsonl
                 PROVE  jsonl[i].publish <=>
                          \A m \in B!Metrics :
                            (Den - A) * cmd[jsonl[i].run].knobs[m]
                              < Den * Min({Default[m].feeder,
                                           Default[m].main})
      BY DEF PublishFollowsKnobs
    <2>1. jsonl[i] \in Lines
      BY DEF TraceInv
    <2>2. PICK p \in Recording : jsonl[i] = TelemetrySnapshot(p)
      BY <2>1 DEF Lines
    <2>3. p \in Runs /\ cmd \in [Runs -> Commands]
      BY DEF Recording, TraceInv
    <2>4. /\ jsonl[i].run = p
          /\ jsonl[i].publish
               <=> B!worst(D(p)!readings, Default) \in {0, 1}
      <3>1. /\ jsonl[i].run = p
            /\ jsonl[i].publish = (breaker(p) \in {B!Fuse, B!Local})
        BY <2>2 DEF TelemetrySnapshot
      <3>2. breaker(p) \in {B!Fuse, B!Local}
              <=> B!worst(D(p)!readings, Default) \in {0, 1}
        BY DEF breaker, B!Fuse, B!Local
      <3>3. QED
        BY <3>1, <3>2, Zenon
    <2>5. ASSUME NEW m \in B!Metrics
          PROVE  ~(D(p)!readings[m] >= Default[m].main)
                   /\ ~(D(p)!readings[m] >= Default[m].feeder)
                 <=> (Den - A) * cmd[p].knobs[m]
                       < Den * Min({Default[m].feeder, Default[m].main})
      <3> DEFINE f == Default[m].feeder
                 g == Default[m].main
                 R == (Den - A) * cmd[p].knobs[m]
      <3>1. f \in Int /\ g \in Int
        BY ReplayAssumption DEF B!BreakerThresholds
      <3>2. cmd[p].knobs[m] \in Nat
        BY <2>3, ReplayAssumption DEF CommandsOK
      <3>3. R \in Int /\ Den \in Nat
        BY <3>2, ReplayAssumption
      <3>4. /\ D(p)!readings[m] >= g <=> R >= Den * g
            /\ D(p)!readings[m] >= f <=> R >= Den * f
        BY <2>3, <3>1, ReadingOfRun
      <3> HIDE DEF f, g, R
      <3>5. /\ Min({f, g}) \in {f, g}
            /\ Den * Min({f, g}) <= Den * f
            /\ Den * Min({f, g}) <= Den * g
        <4> DEFINE l == Min({f, g})
        <4>1. l \in {f, g} /\ l <= f /\ l <= g
          BY <3>1, MinOfPair
        <4> HIDE DEF l
        <4>2. l \in Int
          BY <3>1, <4>1
        <4>3. Den * l <= Den * f /\ Den * l <= Den * g
          BY <3>1, <3>3, <4>1, <4>2
        <4>4. QED
          BY <4>1, <4>3 DEF l
      <3>6. R < Den * Min({f, g}) <=> ~(R >= Den * g) /\ ~(R >= Den * f)
        BY <3>1, <3>3, <3>5
      <3>7. QED
        BY <3>4, <3>6 DEF f, g, R
    <2>6. QED
      BY <2>4, <2>5, WorstBelowFeeder
  <1>2. QED
    BY <1>1, Traces, PTL
-----------------------------------------------------------------------------
(***************************************************************************)
(* The inductive invariant behind MixTakesTwoWriters: until two runs have  *)
(* the file open at once, it is empty while one run has it open.           *)
(***************************************************************************)
Whole == ~clash =>
           /\ \A p, q \in Runs : pc[p] = "write" /\ pc[q] = "write" => p = q
           /\ (\E p \in Runs : pc[p] = "write") => prom = <<>>
           /\ prom = <<>> \/ \E p \in Runs : prom = Blocks(p)

LEMMA BlocksStable ==
  ASSUME cmd' = cmd
  PROVE  \A p : Blocks(p)' = Blocks(p)
  BY DEF Blocks

(* The command lines never change. *)
LEMMA SameCommands ==
  ASSUME NEW p \in Runs, Step(p) \/ kill(p)
  PROVE  cmd' = cmd
  BY DEF Step, parse_args, read_all, ensure_dir, write_jsonl, open_prom,
         close_prom, report, kill

(* Only the two halves of write_prom() touch metrics.prom. *)
LEMMA SameProm ==
  ASSUME NEW p \in Runs, Step(p) \/ kill(p), ~open_prom(p), ~close_prom(p)
  PROVE  prom' = prom /\ clash' = clash
  BY DEF Step, parse_args, read_all, ensure_dir, write_jsonl, report, kill, history

LEMMA StepWhole ==
  ASSUME TraceInv, Whole, NEW p \in Runs, Step(p) \/ kill(p)
  PROVE  Whole'
  <1>1. cmd' = cmd /\ \A q : Blocks(q)' = Blocks(q)
    BY SameCommands, BlocksStable
  <1>2. pc \in [Runs -> Places]
    BY DEF TraceInv
  <1> USE DEF Goto, Exit
  <1>3. CASE open_prom(p)
    <2>1. CASE pc' = [pc EXCEPT ![p] = "print"] /\ prom' = prom /\ clash' = clash
      BY <1>1, <1>2, <2>1 DEF Whole
    <2>2. CASE /\ pc' = [pc EXCEPT ![p] = "write"] /\ prom' = <<>>
               /\ clash' = (clash \/ \E q \in Runs : pc[q] = "write")
      <3>1. SUFFICES ASSUME ~clash'
                     PROVE  \A q \in Runs : pc'[q] = "write" => q = p
        BY <2>2 DEF Whole
      <3>2. QED
        BY <1>2, <2>2, <3>1
    <2>3. QED
      BY <1>3, <2>1, <2>2 DEF open_prom
  <1>4. CASE close_prom(p)
    <2>1. /\ pc[p] = "write" /\ clash' = clash
          /\ pc' = [pc EXCEPT ![p] = "print"]
          /\ prom' = Overwrite(prom, Blocks(p)) \/ prom' = prom
      BY <1>4 DEF close_prom
    <2>2. SUFFICES ASSUME ~clash
                   PROVE  /\ \A q \in Runs : pc'[q] # "write"
                          /\ prom' \in {<<>>, Blocks(p)}
      BY <1>1, <2>1 DEF Whole
    <2>3. prom = <<>> /\ \A q \in Runs : pc[q] = "write" => q = p
      BY <2>1, <2>2 DEF Whole
    <2>4. Overwrite(prom, Blocks(p)) = Blocks(p)
      BY <2>1, <2>3, BlocksAreBlocks, OverwriteEmpty DEF TraceInv, Writing
    <2>5. QED
      BY <1>2, <2>1, <2>3, <2>4
  <1>5. CASE ~open_prom(p) /\ ~close_prom(p)
    <2>1. prom' = prom /\ clash' = clash
      BY <1>5, SameProm
    <2>2. \A q \in Runs : pc'[q] = "write" => pc[q] = "write"
      BY <1>2, <1>5 DEF Step, parse_args, read_all, ensure_dir, write_jsonl,
                        report, kill
    <2>3. QED
      BY <1>1, <2>1, <2>2 DEF Whole
  <1>6. QED
    BY <1>3, <1>4, <1>5

(***************************************************************************)
(* Only two runs that have metrics.prom open at once can mix it, whatever  *)
(* their number, the length of their texts and what fails or is killed.    *)
(***************************************************************************)
THEOREM MixNeedsTwo == Spec => []MixTakesTwoWriters
  <1>1. Init => Whole
    BY DEF Init, Whole
  <1>2. TraceInv /\ Whole /\ [Next]_vars => Whole'
    <2>1. ASSUME UNCHANGED vars, Whole
          PROVE  Whole'
      BY <2>1 DEF vars, history, Whole, Blocks
    <2>2. QED
      BY <2>1, StepWhole DEF Next
  <1>3. Whole => MixTakesTwoWriters
    BY DEF Whole, MixTakesTwoWriters
  <1>4. QED
    BY <1>1, <1>2, <1>3, Traces, PTL DEF Spec
-----------------------------------------------------------------------------
(***************************************************************************)
(* The inductive invariant behind EvidenceAgrees.  LinesInv: a run has at  *)
(* most one line, and those that have none, or cannot get one because the  *)
(* directory is missing, are no more than the faults.  Sequential: as long *)
(* as no two runs overlapped, a run with metrics.prom open has the last    *)
(* line or none, and otherwise the file is that of a run, with no more     *)
(* lines after it than faults: one more while its successor is at "open".  *)
(***************************************************************************)
Before == {"start", "read", "dir", "append"}
After  == {"open", "write", "print"}

Lost == {p \in Runs : \/ pc[p] = "append" /\ ~dir
                      \/ /\ pc[p] \in After \union {"done"}
                         /\ Recorded(p) /\ LinesOf(p) = {}}

LinesInv ==
  /\ ~dir => jsonl = <<>> /\ prom = <<>>
  /\ \A p \in Runs : /\ LinesOf(p) = {} \/ \E i \in DOMAIN jsonl : LinesOf(p) = {i}
                     /\ pc[p] \in Before => LinesOf(p) = {}
                     /\ pc[p] = "write" => dir
  /\ IsFiniteSet(Lost) /\ Cardinality(Lost) <= faults

PromLag(k) ==
  \/ \E q \in Runs : /\ prom = Blocks(q)
                     /\ LinesOf(q) = {} => faults > 0
                     /\ \A i \in LinesOf(q) : Len(jsonl) - i <= faults + k
  \/ prom = <<>> /\ (jsonl # <<>> => faults + k > 0)

Sequential ==
  /\ \A p, q \in Runs : Alive(p) /\ Alive(q) => p = q
  /\ \A p \in Runs :
       /\ pc[p] \in {"open", "write"} /\ dir =>
            /\ LinesOf(p) = {} => faults > 0
            /\ \A i \in LinesOf(p) : i = Len(jsonl)
       /\ pc[p] = "open" => PromLag(1)
       /\ pc[p] = "write" => prom = <<>>
  /\ (\A p \in Runs : pc[p] \notin {"open", "write"}) => PromLag(0)

EvidenceInv == LinesInv /\ (~overlap => Sequential)

LEMMA InitEvidence == Init => EvidenceInv
  <1> SUFFICES ASSUME Init
               PROVE  LinesInv /\ Sequential
    BY DEF EvidenceInv
  <1>1. jsonl = <<>> /\ prom = <<>> /\ faults = 0 /\ \A p \in Runs : pc[p] = "start"
    BY DEF Init
  <1>2. \A p \in Runs : LinesOf(p) = {}
    BY <1>1 DEF LinesOf
  <1>3. Lost = {}
    BY <1>1 DEF Lost, After
  <1>4. LinesInv
    BY <1>1, <1>2, <1>3, FS_EmptySet DEF LinesInv
  <1>5. Sequential
    BY <1>1 DEF Sequential, PromLag, Alive
  <1>6. QED
    BY <1>4, <1>5

(* Appending the snapshot of p adds one index to the lines of p and none   *)
(* to those of another run.                                                *)
LEMMA AppendLine ==
  ASSUME TraceInv, NEW p \in Runs, Recorded(p),
         jsonl' = Append(jsonl, TelemetrySnapshot(p))
  PROVE  /\ LinesOf(p)' = LinesOf(p) \cup {Len(jsonl) + 1}
         /\ \A q \in Runs : q # p => LinesOf(q)' = LinesOf(q)
         /\ Len(jsonl) + 1 \in DOMAIN jsonl'
         /\ DOMAIN jsonl \subseteq DOMAIN jsonl'
         /\ Len(jsonl') = Len(jsonl) + 1
  <1> DEFINE n == Len(jsonl)
  <1>1. jsonl \in Seq(Lines) /\ TelemetrySnapshot(p) \in Lines
    BY SnapshotIsLine DEF TraceInv
  <1>2. /\ n \in Nat
        /\ Len(jsonl') = n + 1
        /\ \A i \in 1..n : jsonl'[i] = jsonl[i]
        /\ jsonl'[n + 1] = TelemetrySnapshot(p)
        /\ jsonl' \in Seq(Lines)
    BY <1>1, AppendProperties, LenProperties
  <1>3. DOMAIN jsonl = 1..n /\ DOMAIN jsonl' = 1..(n + 1)
    BY <1>1, <1>2, LenProperties
  <1>4. TelemetrySnapshot(p).run = p
    BY SnapshotIsLine
  <1> HIDE DEF n
  <1>5. \A q : LinesOf(q)' = {i \in 1..(n + 1) : jsonl'[i].run = q}
    BY <1>3 DEF LinesOf
  <1>6. \A q : LinesOf(q) = {i \in 1..n : jsonl[i].run = q}
    BY <1>3 DEF LinesOf
  <1>7. LinesOf(p)' = LinesOf(p) \cup {n + 1}
    BY <1>2, <1>4, <1>5, <1>6
  <1>8. ASSUME NEW q \in Runs, q # p
        PROVE  LinesOf(q)' = LinesOf(q)
    <2>1. \A i : i \in 1..(n + 1) <=> i \in 1..n \/ i = n + 1
      BY <1>2
    <2>2. jsonl'[n + 1].run # q
      BY <1>2, <1>4, <1>8
    <2>3. \A i : i \in LinesOf(q)' <=> i \in LinesOf(q)
      BY <1>2, <1>5, <1>6, <2>1, <2>2
    <2>4. QED
      BY <1>5, <1>6, <2>3
  <1>9. n + 1 \in DOMAIN jsonl' /\ DOMAIN jsonl \subseteq DOMAIN jsonl'
    BY <1>2, <1>3
  <1>10. QED
    BY <1>2, <1>7, <1>8, <1>9 DEF n

(* A line is in a place of the journal, and only recording runs have one. *)
LEMMA PlaceOfLine ==
  ASSUME TraceInv, NEW p \in Runs, NEW i \in LinesOf(p)
  PROVE  i \in Nat /\ Recorded(p)
  <1>1. jsonl \in Seq(Lines) /\ i \in DOMAIN jsonl /\ jsonl[i].run = p
    BY DEF TraceInv, LinesOf
  <1>2. jsonl[i] \in Lines /\ i \in 1..Len(jsonl) /\ Len(jsonl) \in Nat
    BY <1>1, ElementOfSeq, LenProperties
  <1>3. PICK q \in Recording : jsonl[i] = TelemetrySnapshot(q)
    BY <1>2 DEF Lines
  <1>4. q = p
    BY <1>1, <1>3 DEF TelemetrySnapshot
  <1>5. QED
    BY <1>2, <1>3, <1>4 DEF Recording

(* A step of p adds to the lost at most p, and only by a fault. *)
LEMMA StepLost ==
  ASSUME TraceInv, LinesInv, NEW p \in Runs, Step(p) \/ kill(p)
  PROVE  \/ Lost' \subseteq Lost /\ faults' \in {faults, faults + 1}
         \/ Lost' \subseteq Lost \union {p} /\ faults' = faults + 1
  <1>1. cmd' = cmd /\ \A q : Recorded(q)' = Recorded(q)
    <2>1. cmd' = cmd
      BY SameCommands
    <2>2. QED
      BY <2>1 DEF Recorded
  <1>2. pc \in [Runs -> Places]
    BY DEF TraceInv
  <1>3. ASSUME jsonl' = jsonl
        PROVE  \A q : LinesOf(q)' = LinesOf(q)
    BY <1>3 DEF LinesOf
  <1> USE DEF Lost, Goto, Exit, After
  <1>4. CASE parse_args(p)
    BY <1>1, <1>2, <1>3, <1>4 DEF parse_args, Recorded
  <1>5. CASE read_all(p)
    BY <1>1, <1>2, <1>3, <1>5 DEF read_all, Recorded, history
  <1>6. CASE ensure_dir(p)
    BY <1>1, <1>2, <1>3, <1>6 DEF ensure_dir, Fail
  <1>7. CASE write_jsonl(p)
    <2>1. Recorded(p) /\ pc[p] = "append" /\ pc' = [pc EXCEPT ![p] = "open"] /\ dir' = dir
      BY <1>7 DEF write_jsonl, TraceInv, Writing
    <2>2. CASE dir /\ jsonl' = Append(jsonl, TelemetrySnapshot(p)) /\ faults' = faults
      <3>1. /\ LinesOf(p)' # {}
            /\ \A q \in Runs : q # p => LinesOf(q)' = LinesOf(q)
        BY <2>1, <2>2, AppendLine
      <3>2. QED
        BY <1>1, <1>2, <2>1, <2>2, <3>1
    <2>3. CASE jsonl' = jsonl /\ (faults' = faults + 1 \/ (~dir /\ faults' = faults))
      BY <1>1, <1>2, <1>3, <2>1, <2>3
    <2>4. QED
      BY <1>7, <2>2, <2>3 DEF write_jsonl, Fail, history
  <1>8. CASE open_prom(p)
    BY <1>1, <1>2, <1>3, <1>8 DEF open_prom, Fail
  <1>9. CASE close_prom(p)
    BY <1>1, <1>2, <1>3, <1>9 DEF close_prom, Fail
  <1>10. CASE report(p)
    BY <1>1, <1>2, <1>3, <1>10 DEF report, history
  <1>11. CASE kill(p)
    BY <1>1, <1>2, <1>3, <1>11 DEF kill, Fail
  <1>12. QED
    BY <1>4, <1>5, <1>6, <1>7, <1>8, <1>9, <1>10, <1>11 DEF Step

LEMMA StepLines ==
  ASSUME TraceInv, LinesInv, NEW p \in Runs, Step(p) \/ kill(p)
  PROVE  LinesInv'
  <1>1. faults \in Nat /\ faults' \in Nat /\ pc \in [Runs -> Places]
    BY StepTrace, ReplayAssumption DEF TraceInv
  <1>2. ~dir' => jsonl' = <<>> /\ prom' = <<>>
    BY DEF LinesInv, Step, parse_args, read_all, ensure_dir, write_jsonl,
           open_prom, close_prom, report, kill
  <1>3. \A q \in Runs : pc'[q] = "write" => dir'
    BY <1>1 DEF LinesInv, Step, parse_args, read_all, ensure_dir, write_jsonl,
                open_prom, close_prom, report, kill, Goto, Exit
  <1>4. \A q \in Runs : /\ LinesOf(q)' = {} \/ \E i \in DOMAIN jsonl' : LinesOf(q)' = {i}
                        /\ pc'[q] \in Before => LinesOf(q)' = {}
    <2>1. CASE jsonl' = jsonl
      <3>1. \A q \in Runs : LinesOf(q)' = LinesOf(q)
        BY <2>1 DEF LinesOf
      <3>2. \A q \in Runs : pc'[q] \in Before => pc[q] \in Before
        BY <1>1 DEF Before, Step, parse_args, read_all, ensure_dir, write_jsonl,
                    open_prom, close_prom, report, kill, Goto, Exit
      <3>3. QED
        BY <2>1, <3>1, <3>2 DEF LinesInv
    <2>2. CASE jsonl' # jsonl
      <3>1. write_jsonl(p)
        BY <2>2 DEF Step, parse_args, read_all, ensure_dir, open_prom, close_prom,
                    report, kill
      <3>2. /\ Recorded(p) /\ pc[p] = "append" /\ pc' = [pc EXCEPT ![p] = "open"]
            /\ jsonl' = Append(jsonl, TelemetrySnapshot(p))
        BY <2>2, <3>1 DEF write_jsonl, TraceInv, Writing, Goto
      <3>3. /\ LinesOf(p)' = LinesOf(p) \cup {Len(jsonl) + 1}
            /\ \A q \in Runs : q # p => LinesOf(q)' = LinesOf(q)
            /\ Len(jsonl) + 1 \in DOMAIN jsonl'
            /\ DOMAIN jsonl \subseteq DOMAIN jsonl'
        BY <3>2, AppendLine
      <3>4. LinesOf(p) = {}
        BY <3>2 DEF LinesInv, Before
      <3>5. QED
        BY <1>1, <3>2, <3>3, <3>4 DEF LinesInv, Before
    <2>3. QED
      BY <2>1, <2>2
  <1>5. IsFiniteSet(Lost') /\ Cardinality(Lost') <= faults'
    <2>1. IsFiniteSet(Lost) /\ Cardinality(Lost) <= faults /\ Cardinality(Lost) \in Nat
      BY FS_CardinalityType DEF LinesInv
    <2>2. CASE Lost' \subseteq Lost /\ faults' \in {faults, faults + 1}
      <3>1. IsFiniteSet(Lost') /\ Cardinality(Lost') <= Cardinality(Lost)
        BY <2>1, <2>2, FS_Subset
      <3>2. Cardinality(Lost') \in Nat
        BY <3>1, FS_CardinalityType
      <3>3. QED
        BY <1>1, <2>1, <2>2, <3>1, <3>2
    <2>3. CASE Lost' \subseteq Lost \union {p} /\ faults' = faults + 1
      <3>1. /\ IsFiniteSet(Lost \union {p})
            /\ Cardinality(Lost \union {p}) \in {Cardinality(Lost), Cardinality(Lost) + 1}
        BY <2>1, FS_AddElement
      <3>2. IsFiniteSet(Lost') /\ Cardinality(Lost') <= Cardinality(Lost \union {p})
        BY <2>3, <3>1, FS_Subset
      <3>3. Cardinality(Lost') \in Nat
        BY <3>2, FS_CardinalityType
      <3>4. QED
        BY <1>1, <2>1, <2>3, <3>1, <3>2, <3>3
    <2>4. QED
      BY <2>2, <2>3, StepLost
  <1>6. QED
    BY <1>2, <1>3, <1>4, <1>5 DEF LinesInv

(* What metrics.prom may lag behind is not less after a line or a fault.   *)
LEMMA LagKeeps ==
  ASSUME TraceInv, cmd' = cmd, jsonl' = jsonl, prom' = prom,
         faults' \in {faults, faults + 1}
  PROVE  /\ PromLag(0) => PromLag(0)'
         /\ faults' = faults => (PromLag(1) => PromLag(1)')
         /\ faults' = faults + 1 => (PromLag(1) => PromLag(0)')
         /\ faults' = faults + 1 /\ prom = <<>> => PromLag(0)'
  <1>1. faults \in Nat /\ Len(jsonl) \in Nat
    BY ReplayAssumption, LenProperties DEF TraceInv
  <1>2. \A q : Blocks(q)' = Blocks(q) /\ LinesOf(q)' = LinesOf(q)
    BY DEF Blocks, LinesOf
  <1>3. \A q \in Runs : \A i \in LinesOf(q) : i \in Nat
    BY PlaceOfLine
  <1>4. PromLag(0) => PromLag(0)'
    <2>1. CASE faults' = faults
      BY <1>1, <1>2, <1>3, <2>1 DEF PromLag
    <2>2. CASE faults' = faults + 1
      BY <1>1, <1>2, <1>3, <2>2 DEF PromLag
    <2>3. QED
      BY <2>1, <2>2
  <1>5. faults' = faults => (PromLag(1) => PromLag(1)')
    BY <1>1, <1>2, <1>3 DEF PromLag
  <1>6. faults' = faults + 1 => (PromLag(1) => PromLag(0)')
    BY <1>1, <1>2, <1>3 DEF PromLag
  <1>7. faults' = faults + 1 /\ prom = <<>> => PromLag(0)'
    BY <1>1 DEF PromLag
  <1>8. QED
    BY <1>4, <1>5, <1>6, <1>7

(* A new line puts it behind by at most one more. *)
LEMMA LagGrows ==
  ASSUME TraceInv, NEW p \in Runs, Recorded(p), cmd' = cmd, prom' = prom,
         faults' = faults, jsonl' = Append(jsonl, TelemetrySnapshot(p)),
         LinesOf(p) = {}, PromLag(0)
  PROVE  PromLag(1)'
  <1> DEFINE n == Len(jsonl)
  <1>1. /\ LinesOf(p)' = {n + 1} /\ Len(jsonl') = n + 1
        /\ \A q \in Runs : q # p => LinesOf(q)' = LinesOf(q)
    BY AppendLine
  <1>2. faults \in Nat /\ n \in Nat
    BY ReplayAssumption, LenProperties DEF TraceInv
  <1>3. \A q \in Runs : \A i \in LinesOf(q) : i \in Nat
    BY PlaceOfLine
  <1>4. \A q : Blocks(q)' = Blocks(q)
    BY BlocksStable
  <1> HIDE DEF n
  <1>5. CASE prom = <<>>
    BY <1>2, <1>5 DEF PromLag
  <1>6. ASSUME NEW q \in Runs, prom = Blocks(q), LinesOf(q) = {} => faults > 0,
               \A i \in LinesOf(q) : n - i <= faults
        PROVE  PromLag(1)'
    <2>1. LinesOf(q)' = {} => faults' > 0
      BY <1>1, <1>6
    <2>2. \A i \in LinesOf(q)' : (n + 1) - i <= faults' + 1
      BY <1>1, <1>2, <1>3, <1>6
    <2>3. QED
      BY <1>1, <1>4, <1>6, <2>1, <2>2 DEF PromLag
  <1>7. QED
    BY <1>2, <1>5, <1>6 DEF PromLag, n

(* At most one run is alive while none overlapped another. *)
LEMMA StepAlone ==
  ASSUME TraceInv, ~overlap => Sequential, NEW p \in Runs, Step(p) \/ kill(p),
         ~overlap'
  PROVE  /\ ~overlap /\ Sequential
         /\ \A q \in Runs : q # p => ~Alive(q) /\ pc'[q] = pc[q]
  <1>1. pc \in [Runs -> Places]
    BY DEF TraceInv
  <1>2. \A q \in Runs : q # p => pc'[q] = pc[q]
    BY <1>1 DEF Step, parse_args, read_all, ensure_dir, write_jsonl, open_prom,
                close_prom, report, kill, Goto, Exit
  <1>3. CASE parse_args(p)
    <2>1. ~overlap /\ \A q \in Runs : ~Alive(q)
      BY <1>3, Zenon DEF parse_args
    <2>2. QED
      BY <1>2, <2>1
  <1>4. CASE ~parse_args(p)
    <2>1. overlap' = overlap /\ Alive(p)
      BY <1>4 DEF Step, read_all, ensure_dir, write_jsonl, open_prom, close_prom,
                  report, kill, history, Alive
    <2>2. ~overlap /\ Sequential
      BY <2>1
    <2>3. QED
      BY <1>2, <2>1, <2>2 DEF Sequential
  <1>5. QED
    BY <1>3, <1>4

LEMMA StepSequential ==
  ASSUME TraceInv, LinesInv, ~overlap => Sequential,
         NEW p \in Runs, Step(p) \/ kill(p), ~overlap'
  PROVE  Sequential'
  <1>1. cmd' = cmd /\ \A q : Blocks(q)' = Blocks(q)
    BY SameCommands, BlocksStable
  <1>2. /\ pc \in [Runs -> Places] /\ faults \in Nat /\ Len(jsonl) \in Nat
        /\ faults' \in {faults, faults + 1}
    <2>1. faults' \in {faults, faults + 1}
      BY DEF Step, parse_args, read_all, ensure_dir, write_jsonl, open_prom,
             close_prom, report, kill, Fail, history
    <2>2. QED
      BY <2>1, ReplayAssumption, LenProperties DEF TraceInv
  <1>3. Sequential /\ \A q \in Runs : q # p => ~Alive(q) /\ pc'[q] = pc[q]
    BY StepAlone
  <1>4. \A q \in Runs : q # p => ~Alive(q)' /\ pc'[q] \notin {"open", "write"}
                                            /\ pc[q] \notin {"open", "write"}
    BY <1>3 DEF Alive
  <1>5. jsonl' = jsonl => \A q : LinesOf(q)' = LinesOf(q)
    BY DEF LinesOf
  (* What is left to show of the step, once the others are out of the way. *)
  <1> DEFINE Rest == /\ pc'[p] \in {"open", "write"} /\ dir' =>
                          /\ LinesOf(p)' = {} => faults' > 0
                          /\ \A i \in LinesOf(p)' : i = Len(jsonl')
                     /\ pc'[p] = "open" => PromLag(1)'
                     /\ pc'[p] = "write" => prom' = <<>>
                     /\ pc'[p] \notin {"open", "write"} => PromLag(0)'
  <1>6. SUFFICES Rest
    <2>1. \A q, r \in Runs : Alive(q)' /\ Alive(r)' => q = r
      BY <1>4
    <2>2. ASSUME Rest
          PROVE  Sequential'
      BY <1>4, <2>1, <2>2 DEF Sequential
    <2>3. QED
      BY <2>2
  <1> USE DEF Goto, Exit
  <1>7. CASE pc[p] \notin {"open", "write"} /\ ~write_jsonl(p)
    <2>1. PromLag(0)
      BY <1>3, <1>4, <1>7 DEF Sequential
    <2>2. UNCHANGED <<jsonl, prom>> /\ pc'[p] \notin {"open", "write"}
      BY <1>2, <1>7 DEF Step, parse_args, read_all, ensure_dir, open_prom,
                        close_prom, report, kill
    <2>3. QED
      BY <1>1, <1>2, <2>1, <2>2, LagKeeps
  <1>8. CASE write_jsonl(p)
    <2>1. /\ pc[p] = "append" /\ pc'[p] = "open" /\ prom' = prom /\ dir' = dir
          /\ Recorded(p) /\ LinesOf(p) = {}
      BY <1>2, <1>8 DEF write_jsonl, TraceInv, Writing, LinesInv, Before
    <2>2. PromLag(0)
      BY <1>3, <1>4, <2>1 DEF Sequential
    <2>3. CASE jsonl' = Append(jsonl, TelemetrySnapshot(p)) /\ faults' = faults
      <3>1. PromLag(1)'
        BY <1>1, <2>1, <2>2, <2>3, LagGrows
      <3>2. LinesOf(p)' = {Len(jsonl) + 1} /\ Len(jsonl') = Len(jsonl) + 1
        BY <2>1, <2>3, AppendLine
      <3>3. QED
        BY <2>1, <3>1, <3>2
    <2>4. CASE jsonl' = jsonl /\ (dir => faults' = faults + 1)
      <3>1. PromLag(0)'
        BY <1>1, <1>2, <2>1, <2>2, <2>4, LagKeeps
      <3>2. PromLag(1)'
        <4>1. faults' \in Nat /\ Len(jsonl') \in Nat
          BY <1>2, <2>4
        <4>2. \A q \in Runs : \A i \in LinesOf(q)' : i \in Nat
          BY <1>5, <2>4, PlaceOfLine
        <4>3. ASSUME NEW q \in Runs, NEW i \in LinesOf(q)', Len(jsonl') - i <= faults' + 0
              PROVE  Len(jsonl') - i <= faults' + 1
          BY <4>1, <4>2, <4>3
        <4>4. \A f \in Nat : f + 0 > 0 => f + 1 > 0
          OBVIOUS
        <4>5. QED
          BY <3>1, <4>1, <4>3, <4>4, Zenon DEF PromLag
      <3>3. QED
        BY <1>2, <1>5, <2>1, <2>4, <3>2
    <2>5. QED
      BY <1>8, <2>3, <2>4 DEF write_jsonl, Fail, history
  <1>9. CASE pc[p] = "open"
    <2>1. /\ PromLag(1)
          /\ dir => /\ LinesOf(p) = {} => faults > 0
                    /\ \A i \in LinesOf(p) : i = Len(jsonl)
      BY <1>3, <1>9 DEF Sequential
    <2>2. jsonl' = jsonl /\ dir' = dir
      BY <1>9 DEF Step, parse_args, read_all, ensure_dir, write_jsonl, open_prom,
                  close_prom, report, kill
    <2>3. CASE pc'[p] = "write" /\ prom' = <<>> /\ faults' = faults
      BY <1>5, <2>1, <2>2, <2>3
    <2>4. CASE pc'[p] \in {"print", "done"} /\ prom' = prom /\ faults' = faults + 1
      BY <1>1, <2>1, <2>2, <2>4, LagKeeps
    <2>5. CASE pc'[p] = "print" /\ prom' = prom /\ ~dir
      <3>1. prom' = <<>> /\ jsonl' = <<>>
        BY <2>2, <2>5 DEF LinesInv
      <3>2. QED
        BY <2>5, <3>1 DEF PromLag
    <2>6. QED
      BY <1>2, <1>9, <2>3, <2>4, <2>5
         DEF Step, parse_args, read_all, ensure_dir, write_jsonl, open_prom,
             close_prom, report, kill, Fail
  <1>10. CASE pc[p] = "write"
    <2>1. /\ prom = <<>>
          /\ LinesOf(p) = {} => faults > 0
          /\ \A i \in LinesOf(p) : i = Len(jsonl)
      BY <1>3, <1>10 DEF Sequential, LinesInv
    <2>2. jsonl' = jsonl
      BY <1>10 DEF Step, parse_args, read_all, ensure_dir, write_jsonl, open_prom,
                   close_prom, report, kill
    <2>3. CASE pc'[p] = "print" /\ prom' = Overwrite(prom, Blocks(p)) /\ faults' = faults
      <3>1. Recorded(p)
        BY <1>10 DEF TraceInv, Writing
      <3>2. prom' = Blocks(p)'
        BY <1>1, <2>1, <2>3, <3>1, BlocksAreBlocks, OverwriteEmpty DEF TraceInv
      <3>3. \A i \in LinesOf(p)' : Len(jsonl') - i <= faults'
        BY <1>2, <1>5, <2>1, <2>2, <2>3
      <3>4. PromLag(0)'
        BY <1>2, <1>5, <2>1, <2>2, <2>3, <3>2, <3>3 DEF PromLag
      <3>5. QED
        BY <2>3, <3>4
    <2>4. CASE pc'[p] \in {"print", "done"} /\ prom' = prom /\ faults' = faults + 1
      BY <1>1, <2>1, <2>2, <2>4, LagKeeps
    <2>5. QED
      BY <1>2, <1>10, <2>3, <2>4
         DEF Step, parse_args, read_all, ensure_dir, write_jsonl, open_prom,
             close_prom, report, kill, Fail
  <1>11. QED
    BY <1>7, <1>8, <1>9, <1>10

LEMMA NextEvidence ==
  TraceInv /\ EvidenceInv /\ [Next]_vars => EvidenceInv'
  <1>1. ASSUME TraceInv, EvidenceInv, NEW p \in Runs, Step(p) \/ kill(p)
        PROVE  EvidenceInv'
    BY <1>1, StepLines, StepSequential DEF EvidenceInv
  <1>2. ASSUME EvidenceInv, UNCHANGED vars
        PROVE  EvidenceInv'
    <2>1. UNCHANGED <<cmd, pc, code, dir, jsonl, prom, faults, overlap>>
      BY <1>2 DEF vars, history
    <2>2. Lost' = Lost /\ \A q : LinesOf(q)' = LinesOf(q)
      BY <2>1 DEF Lost, LinesOf, Recorded
    <2>3. \A k : PromLag(k)' = PromLag(k)
      BY <2>1, <2>2 DEF PromLag, Blocks
    <2>4. LinesInv'
      BY <1>2, <2>1, <2>2 DEF EvidenceInv, LinesInv
    <2>5. ~overlap => Sequential'
      BY <1>2, <2>1, <2>2, <2>3 DEF EvidenceInv, Sequential, Alive
    <2>6. QED
      BY <2>1, <2>4, <2>5 DEF EvidenceInv
  <1>3. QED
    BY <1>1, <1>2 DEF Next

(***************************************************************************)
(* Once all runs are over, no run has two lines and no more runs have none *)
(* than operations failed or runs were killed; and unless two overlapped,  *)
(* metrics.prom is that of one run with no more lines after it than faults *)
(* there were, for any number of runs and texts of any length.             *)
(***************************************************************************)
THEOREM TwoFilesOneStory == Spec => []EvidenceAgrees
  <1>1. TraceInv /\ EvidenceInv => EvidenceAgrees
    <2> SUFFICES ASSUME TraceInv, EvidenceInv, Finished
                 PROVE  EvidenceAgrees
      BY DEF EvidenceAgrees
    <2>1. \A p \in Runs : pc[p] = "done"
      BY DEF Finished
    <2>2. faults \in Nat /\ Len(jsonl) \in Nat
      BY ReplayAssumption, LenProperties DEF TraceInv
    <2>3. ASSUME NEW p \in Runs
          PROVE  Cardinality(LinesOf(p)) <= IF Recorded(p) THEN 1 ELSE 0
      <3>1. CASE LinesOf(p) = {}
        BY <3>1, FS_EmptySet
      <3>2. CASE LinesOf(p) # {}
        <4>1. PICK i : LinesOf(p) = {i}
          BY <3>2 DEF EvidenceInv, LinesInv
        <4>2. Cardinality(LinesOf(p)) = 1
          BY <4>1, FS_Singleton
        <4>3. Recorded(p)
          BY <4>1, PlaceOfLine
        <4>4. QED
          BY <4>2, <4>3
      <3>3. QED
        BY <3>1, <3>2
    <2>4. Cardinality({p \in Runs : Recorded(p) /\ LinesOf(p) = {}}) <= faults
      <3>1. {p \in Runs : Recorded(p) /\ LinesOf(p) = {}} = Lost
        BY <2>1 DEF Lost, After
      <3>2. QED
        BY <3>1 DEF EvidenceInv, LinesInv
    <2>5. ASSUME ~overlap
          PROVE  \/ \E q \in Runs : PromIsOf(q)
                 \/ prom = <<>> /\ (jsonl # <<>> => faults > 0)
      <3>1. PromLag(0)
        BY <2>1, <2>5 DEF EvidenceInv, Sequential
      <3>2. QED
        BY <2>2, <3>1 DEF PromLag, PromIsOf
    <2>6. QED
      BY <2>3, <2>4, <2>5 DEF EvidenceAgrees
  <1>2. QED
    BY <1>1, InitTrace, NextTrace, InitEvidence, NextEvidence, PTL DEF Spec
-----------------------------------------------------------------------------
(***************************************************************************)
(* A run p that nobody overlaps, from the moment it is started: line and   *)
(* blocks are what the files held then, failed how often something had     *)
(* failed by then.                                                         *)
(***************************************************************************)
Begins(p, line, blocks, failed) ==
  /\ TraceInv
  /\ pc[p] = "start" /\ code[p] = Running
  /\ jsonl = line /\ prom = blocks /\ faults = failed

(* Only p takes steps. *)
Alone(p) == [][Step(p) \/ kill(p)]_vars

(***************************************************************************)
(* What p leaves when it is over: its line or none, and its metrics, none, *)
(* or those that were there.  It has written both if nothing failed and it *)
(* exits with 0, unless it was only asked for help, and neither if it      *)
(* exits with 1 or 2.                                                      *)
(***************************************************************************)
OneStep(p, line, blocks, failed) ==
  pc[p] = "done" =>
    /\ jsonl \in {line, Append(line, TelemetrySnapshot(p))}
    /\ prom \in {blocks, <<>>, Blocks(p)}
    /\ failed <= faults
    /\ code[p] = 0 /\ faults = failed /\ cmd[p].args = "run" =>
         jsonl = Append(line, TelemetrySnapshot(p)) /\ prom = Blocks(p)
    /\ code[p] \in {1, 2} \/ cmd[p].args # "run" => jsonl = line /\ prom = blocks

(* How far p is, and what it has written so far. *)
Progress(p, line, blocks, failed) ==
  /\ TraceInv
  /\ failed <= faults
  /\ pc[p] \in {"start", "read", "dir", "append"} => jsonl = line
  /\ pc[p] \in {"start", "read", "dir", "append", "open"} => prom = blocks
  /\ pc[p] = "write" => prom = <<>> /\ dir
  /\ pc[p] = "append" /\ faults = failed => dir
  /\ pc[p] = "open" /\ faults = failed => dir
  /\ pc[p] \in {"open", "write", "print"} =>
       /\ jsonl \in {line, Append(line, TelemetrySnapshot(p))}
       /\ faults = failed => jsonl = Append(line, TelemetrySnapshot(p))
  /\ pc[p] = "print" =>
       /\ prom \in {blocks, <<>>, Blocks(p)}
       /\ faults = failed => prom = Blocks(p)
  /\ pc[p] \notin {"start", "done"} => cmd[p].args = "run"
  /\ OneStep(p, line, blocks, failed)

LEMMA StepProgress ==
  ASSUME NEW p \in Runs, NEW line, NEW blocks, NEW failed \in Nat,
         Progress(p, line, blocks, failed), Step(p) \/ kill(p)
  PROVE  Progress(p, line, blocks, failed)'
  <1> DEFINE snap == TelemetrySnapshot(p)
             own == Blocks(p)
             full == Append(line, snap)
  <1>1. cmd' = cmd
    BY DEF Step, parse_args, read_all, ensure_dir, write_jsonl, open_prom,
           close_prom, report, kill
  <1>2. snap' = snap /\ own' = own
    BY <1>1, SnapshotStable, BlocksStable
  <1>3. TraceInv /\ TraceInv'
    BY StepTrace DEF Progress
  <1>4. /\ pc \in [Runs -> Places] /\ faults \in Nat
        /\ code \in [Runs -> {0, 1, 2, Running, Killed}]
        /\ faults' \in Nat
    BY <1>3, ReplayAssumption DEF TraceInv
  <1>5. pc[p] = "write" => Overwrite(prom, own) = own
    <2>1. SUFFICES ASSUME pc[p] = "write" PROVE Overwrite(<<>>, own) = own
      BY DEF Progress
    <2>2. Recorded(p) /\ cmd \in [Runs -> Commands]
      BY <1>3, <2>1 DEF TraceInv, Writing
    <2>3. own \in Seq(PromBlocks)
      BY <2>2, BlocksAreBlocks
    <2>4. QED
      BY <2>3, OverwriteEmpty
  <1> HIDE DEF snap, own, full
  <1>6. CASE parse_args(p)
    BY <1>1, <1>2, <1>3, <1>4, <1>6
       DEF parse_args, Goto, Exit, Progress, OneStep, Killed, snap, own
  <1>7. CASE read_all(p)
    BY <1>1, <1>2, <1>3, <1>4, <1>7
       DEF read_all, Goto, history, Exit, Progress, OneStep, Killed, snap, own
  <1>8. CASE ensure_dir(p)
    BY <1>1, <1>2, <1>3, <1>4, <1>8
       DEF ensure_dir, Fail, Goto, Exit, Progress, OneStep, snap, own
  <1>9. CASE write_jsonl(p)
    BY <1>1, <1>2, <1>3, <1>4, <1>9
       DEF write_jsonl, history, Fail, Goto, Exit, Progress, OneStep, snap, own
  <1>10. CASE open_prom(p)
    BY <1>1, <1>2, <1>3, <1>4, <1>10
       DEF open_prom, Fail, Goto, Exit, Progress, OneStep, snap, own
  <1>11. CASE close_prom(p)
    BY <1>1, <1>2, <1>3, <1>4, <1>5, <1>11
       DEF close_prom, Fail, Goto, Exit, Progress, OneStep, snap, own
  <1>12. CASE report(p)
    BY <1>1, <1>2, <1>3, <1>4, <1>12
       DEF report, Goto, history, Exit, Progress, OneStep, snap, own
  <1>13. CASE kill(p)
    <2>1. /\ pc'[p] = "done" /\ code'[p] = 98 /\ faults' = faults + 1
          /\ UNCHANGED <<jsonl, prom>>
          /\ pc[p] \in {"read", "dir", "append", "open", "write", "print"}
      BY <1>4, <1>13 DEF kill, Alive, Fail, Goto, Exit, Killed, Places
    <2>2. failed <= faults /\ cmd[p].args = "run"
      BY <2>1 DEF Progress
    <2>3. jsonl \in {line, Append(line, snap)} /\ prom \in {blocks, <<>>, own}
      BY <2>1 DEF Progress, snap, own
    <2>4. /\ failed <= faults' /\ faults' # failed /\ cmd'[p].args = "run"
          /\ jsonl' \in {line, Append(line, snap')} /\ prom' \in {blocks, <<>>, own'}
      BY <1>1, <1>2, <1>4, <2>1, <2>2, <2>3
    <2>5. OneStep(p, line, blocks, failed)'
      BY <2>1, <2>4 DEF OneStep, snap, own
    <2>6. QED
      BY <1>3, <2>1, <2>4, <2>5 DEF Progress
  <1>14. QED
    BY <1>6, <1>7, <1>8, <1>9, <1>10, <1>11, <1>12, <1>13 DEF Step

LEMMA StayProgress ==
  ASSUME NEW p \in Runs, NEW line, NEW blocks, NEW failed \in Nat,
         Progress(p, line, blocks, failed), UNCHANGED vars
  PROVE  Progress(p, line, blocks, failed)'
  <1>1. UNCHANGED <<cmd, pc, code, dir, jsonl, prom, faults, overlap>>
    BY DEF vars, history
  <1>2. TelemetrySnapshot(p)' = TelemetrySnapshot(p) /\ Blocks(p)' = Blocks(p)
    BY <1>1, SnapshotStable, BlocksStable
  <1>3. TraceInv'
    BY NextTrace DEF Progress
  <1>4. QED
    BY <1>1, <1>2, <1>3 DEF Progress, OneStep

(***************************************************************************)
(* A run that nobody overlaps is one step to whoever looks at the files    *)
(* before and after it: either file is written whole, left, or in the case *)
(* of metrics.prom emptied, and both are written unless something failed.  *)
(* BenchPipeline takes a replay to be this step (ReplayOk, ReplayFails).   *)
(***************************************************************************)
THEOREM RunIsOneStep ==
  ASSUME NEW p \in Runs, NEW line, NEW blocks, NEW failed \in Nat
  PROVE  Begins(p, line, blocks, failed) /\ Alone(p)
           => []OneStep(p, line, blocks, failed)
  <1>1. Begins(p, line, blocks, failed) => Progress(p, line, blocks, failed)
    BY DEF Begins, Progress, OneStep
  <1>2. Progress(p, line, blocks, failed) /\ [Step(p) \/ kill(p)]_vars
          => Progress(p, line, blocks, failed)'
    BY StepProgress, StayProgress
  <1>3. Progress(p, line, blocks, failed) => OneStep(p, line, blocks, failed)
    BY DEF Progress
  <1>4. QED
    BY <1>1, <1>2, <1>3, PTL DEF Alone
=============================================================================
