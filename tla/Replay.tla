------------------------------- MODULE Replay -------------------------------
(***************************************************************************)
(* Processes running the replay program (main() of src/src/replay.cpp) in  *)
(* one artifact directory, and the two evidence files they leave there     *)
(* (src/src/telemetry.cpp): bench.jsonl, opened for appending, and         *)
(* metrics.prom, truncated by open() and written when the stream closes.   *)
(* Nothing locks the directory, so runs of one ART_DIR may overlap (two    *)
(* shells, tests run in parallel), any write may fail (full or read-only   *)
(* disk) and a run may be killed at any moment (a cancelled CI job).       *)
(*                                                                         *)
(* A prom file is a sequence of blocks <<run, i>>: run's i-th block.  A    *)
(* write starts at offset zero of the writer's own stream, so it replaces  *)
(* as many blocks as it has and leaves what lies beyond them.              *)
(***************************************************************************)
EXTENDS Integers, Sequences, FiniteSets, SequencesExt

CONSTANTS Runs,        \* the processes
          Commands,    \* what they may be invoked with, and find on disk
          A, Den, PPM, \* the blend of Detectors
          Default,     \* the thresholds of BreakerThresholds{}
          Slack        \* how many operations may fail and runs be killed

B == INSTANCE Breaker WITH
       Thresholds <- {Default}, Readings <- {},
       thr <- Default, st <- 0, latched <- FALSE

Outcomes == {"run", "help", "bad"}   \* what parse_args() makes of argv

CommandsOK(c) == /\ c.args \in Outcomes
                 /\ c.readable \in BOOLEAN
                 /\ c.bytes \in Nat
                 /\ c.knobs \in [B!Metrics -> Nat]
                 /\ c.blocks \in Nat \ {0}

ASSUME ReplayAssumption == /\ \A c \in Commands : CommandsOK(c)
                           /\ Den \in Nat \ {0}
                           /\ A \in 0..Den
                           /\ PPM \in Nat \ {0}
                           /\ Default \in B!BreakerThresholds
                           /\ Slack \in Nat

VARIABLES cmd,       \* cmd[p]: the command line of p and the file it names
          pc,        \* where p is in main()
          code,      \* code[p]: exit code, Running or Killed
          dir,       \* the artifact directory exists
          jsonl,     \* the lines of bench.jsonl, each a snapshot
          prom,      \* the blocks of metrics.prom
          faults,    \* history: failures and kills so far
          overlap,   \* history: two runs were between start and exit at once
          clash      \* history: two runs had metrics.prom open at once

history == <<faults, overlap, clash>>

vars == <<cmd, pc, code, dir, jsonl, prom, history>>

Running == 99
Killed  == 98

Places == {"start", "read", "dir", "append", "open", "write", "print", "done"}

Alive(p) == pc[p] \notin {"start", "done"}
-----------------------------------------------------------------------------
(* The gate of one run: bytes counted as messages, rates injected from the *)
(* command line, a fresh breaker stepped once.                             *)
D(p) == INSTANCE Detectors WITH
          total <- cmd[p].bytes, gaps <- 0, corrupt <- 0,
          burst_ms <- 0, skew_ppm <- 0, s <- cmd[p].knobs

breaker(p) == B!worst(D(p)!readings, Default)

(* Variant: publish keeps the default of struct TelemetrySnapshot. *)
TelemetrySnapshot_default(p) == [run      |-> p,
                                 readings |-> D(p)!readings,
                                 breaker  |-> breaker(p),
                                 publish  |-> TRUE]

TelemetrySnapshot(p) == [run      |-> p,
                         readings |-> D(p)!readings,
                         breaker  |-> breaker(p),
                         publish  |-> breaker(p) \in {B!Fuse, B!Local}]

Blocks(p) == [i \in 1..cmd[p].blocks |-> <<p, i>>]

(* A write at offset zero over what the file already holds. *)
Overwrite(old, new) == new \o SubSeq(old, Len(new) + 1, Len(old))
-----------------------------------------------------------------------------
Init == /\ cmd \in [Runs -> Commands]
        /\ pc = [p \in Runs |-> "start"]
        /\ code = [p \in Runs |-> Running]
        /\ dir = FALSE
        /\ jsonl = <<>>
        /\ prom = <<>>
        /\ faults = 0
        /\ overlap = FALSE
        /\ clash = FALSE

Goto(p, to) == pc' = [pc EXCEPT ![p] = to]

Exit(p, c) == /\ Goto(p, "done")
              /\ code' = [code EXCEPT ![p] = c]

(* Something the operating system may refuse, within the bound. *)
Fail == /\ faults < Slack
        /\ faults' = faults + 1

parse_args(p) == /\ pc[p] = "start"
                 /\ overlap' = (overlap \/ \E q \in Runs : Alive(q))
                 /\ \/ /\ cmd[p].args = "bad"
                       /\ Exit(p, 1)
                    \/ /\ cmd[p].args = "help"
                       /\ Exit(p, 0)
                    \/ /\ cmd[p].args = "run"
                       /\ Goto(p, "read")
                       /\ UNCHANGED code
                 /\ UNCHANGED <<cmd, dir, jsonl, prom, faults, clash>>

(* Variants: metrics.prom is opened first; errno becomes the exit code. *)
read_all_opened(p) == /\ pc[p] = "read"
                      /\ prom' = <<>>
                      /\ IF cmd[p].readable THEN Goto(p, "dir") /\ UNCHANGED code
                                            ELSE Exit(p, 2)
                      /\ UNCHANGED <<cmd, dir, jsonl, history>>

read_all_errno(p) == /\ pc[p] = "read"
                     /\ IF cmd[p].readable THEN Goto(p, "dir") /\ UNCHANGED code
                                           ELSE Exit(p, 13)
                     /\ UNCHANGED <<cmd, dir, jsonl, prom, history>>

read_all(p) == /\ pc[p] = "read"
               /\ \/ /\ cmd[p].readable
                     /\ Goto(p, "dir")
                     /\ UNCHANGED code
                  \/ /\ ~cmd[p].readable
                     /\ Exit(p, 2)
               /\ UNCHANGED <<cmd, dir, jsonl, prom, history>>

(* The result of ensure_dir() is not looked at. *)
ensure_dir(p) == /\ pc[p] = "dir"
                 /\ Goto(p, "append")
                 /\ \/ dir' = TRUE /\ UNCHANGED faults
                    \/ ~dir /\ Fail /\ UNCHANGED dir
                 /\ UNCHANGED <<cmd, code, jsonl, prom, overlap, clash>>

(* Variant: the file is opened without ios::app. *)
write_jsonl_trunc(p) == /\ pc[p] = "append"
                        /\ Goto(p, "open")
                        /\ dir
                        /\ jsonl' = <<TelemetrySnapshot(p)>>
                        /\ UNCHANGED <<cmd, code, dir, prom, history>>

(* Nor is that of write_jsonl(): a line, or silently none. *)
write_jsonl(p) == /\ pc[p] = "append"
                  /\ Goto(p, "open")
                  /\ \/ /\ dir
                        /\ jsonl' = Append(jsonl, TelemetrySnapshot(p))
                        /\ UNCHANGED faults
                     \/ /\ dir
                        /\ Fail
                        /\ UNCHANGED jsonl
                     \/ /\ ~dir
                        /\ UNCHANGED <<jsonl, faults>>
                  /\ UNCHANGED <<cmd, code, dir, prom, overlap, clash>>

(* Variant: the file is opened for update, without truncation. *)
open_prom_update(p) == /\ pc[p] = "open"
                       /\ Goto(p, IF dir THEN "write" ELSE "print")
                       /\ UNCHANGED <<cmd, code, dir, jsonl, prom, history>>

(* write_prom(): open() truncates ... *)
open_prom(p) == /\ pc[p] = "open"
                /\ \/ /\ dir
                      /\ prom' = <<>>
                      /\ Goto(p, "write")
                      /\ clash' = (clash \/ \E q \in Runs : pc[q] = "write")
                      /\ UNCHANGED faults
                   \/ /\ dir
                      /\ Fail
                      /\ Goto(p, "print")
                      /\ UNCHANGED <<prom, clash>>
                   \/ /\ ~dir
                      /\ Goto(p, "print")
                      /\ UNCHANGED <<prom, faults, clash>>
                /\ UNCHANGED <<cmd, code, dir, jsonl, overlap>>

(* ... and the destructor of the stream writes the buffered text, or fails *)
(* to, after write_prom() has computed its result.                         *)
close_prom(p) == /\ pc[p] = "write"
                 /\ Goto(p, "print")
                 /\ \/ prom' = Overwrite(prom, Blocks(p)) /\ UNCHANGED faults
                    \/ Fail /\ UNCHANGED prom
                 /\ UNCHANGED <<cmd, code, dir, jsonl, overlap, clash>>

report(p) == /\ pc[p] = "print"
             /\ Exit(p, 0)
             /\ UNCHANGED <<cmd, dir, jsonl, prom, history>>

kill(p) == /\ Alive(p)
           /\ Fail
           /\ Exit(p, Killed)
           /\ UNCHANGED <<cmd, dir, jsonl, prom, overlap, clash>>

Step(p) == \/ parse_args(p) \/ read_all(p)  \/ ensure_dir(p) \/ write_jsonl(p)
           \/ open_prom(p)  \/ close_prom(p) \/ report(p)

Finished == \A p \in Runs : pc[p] = "done"

Next == \/ \E p \in Runs : Step(p) \/ kill(p)
        \/ Finished /\ UNCHANGED vars

Spec == Init /\ [][Next]_vars
-----------------------------------------------------------------------------
(* Where the lines of p are in bench.jsonl. *)
LinesOf(p) == {i \in DOMAIN jsonl : jsonl[i].run = p}

(* Runs that got as far as having something to record. *)
Recorded(p) == cmd[p].args = "run" /\ cmd[p].readable

TypeOK == /\ cmd \in [Runs -> Commands]
          /\ pc \in [Runs -> Places]
          /\ code \in [Runs -> {0, 1, 2, Running, Killed}]
          /\ dir \in BOOLEAN
          /\ \A i \in DOMAIN jsonl : jsonl[i].run \in Runs
          /\ \A i \in DOMAIN prom : prom[i][1] \in Runs
          /\ faults \in 0..Slack
          /\ {overlap, clash} \subseteq BOOLEAN

(* What the input and the command line alone make of an exit. *)
ExitCode(p) == CASE cmd[p].args = "bad"  -> 1
                 [] cmd[p].args = "help" -> 0
                 [] cmd[p].args = "run"  -> IF cmd[p].readable THEN 0 ELSE 2

(***************************************************************************)
(* No step of a run that asks for help, is misused or cannot read its      *)
(* input touches the directory or either file, so a failing command cannot *)
(* destroy the evidence of an earlier one; and a run that is not killed    *)
(* exits with the code that tells its case, whatever happened to its files.*)
(***************************************************************************)
FailuresLeaveNoTrace ==
  [][\A p \in Runs : pc'[p] # pc[p] =>
       /\ ~Recorded(p) => UNCHANGED <<dir, jsonl, prom>>
       /\ code'[p] \in {Running, Killed, ExitCode(p)}]_vars

(***************************************************************************)
(* metrics.prom is never a mixture of two runs, nor a part of one, unless  *)
(* one run opened it while another had it open: a run that fails or is     *)
(* killed, or one that merely overlaps another, leaves it whole or empty.  *)
(***************************************************************************)
MixTakesTwoWriters ==
  ~clash => prom = <<>> \/ \E p \in Runs : prom = Blocks(p)

(***************************************************************************)
(* What the two files miss once all runs are over is accounted for, run by *)
(* run.  No run has two lines, and of those that read their input no more  *)
(* have none than operations failed or runs were killed.  If no two runs   *)
(* overlapped, metrics.prom is that of one run, and no more lines were     *)
(* added since than something failed; so if nothing did, both files are of *)
(* the last run.                                                           *)
(***************************************************************************)
PromIsOf(q) == /\ prom = Blocks(q)
               /\ LinesOf(q) = {} => faults > 0
               /\ \A i \in LinesOf(q) : Len(jsonl) - i <= faults

EvidenceAgrees ==
  Finished =>
    /\ \A p \in Runs : Cardinality(LinesOf(p)) <= IF Recorded(p) THEN 1 ELSE 0
    /\ Cardinality({p \in Runs : Recorded(p) /\ LinesOf(p) = {}}) <= faults
    /\ ~overlap => \/ \E q \in Runs : PromIsOf(q)
                   \/ prom = <<>> /\ (jsonl # <<>> => faults > 0)

(***************************************************************************)
(* What a run publishes follows from its command line alone: it is allowed *)
(* to exactly when every injected rate, scaled by the blend, stays below   *)
(* the feeder threshold, however the runs interleave.                      *)
(***************************************************************************)
PublishFollowsKnobs ==
  \A i \in DOMAIN jsonl :
    jsonl[i].publish <=>
      \A m \in B!Metrics :
        (Den - A) * cmd[jsonl[i].run].knobs[m]
          < Den * Min({Default[m].feeder, Default[m].main})

=============================================================================
