---------------------------- MODULE LongHorizon ----------------------------
(***************************************************************************)
(* scripts/long_horizon_stability.sh: replay again and again for a number  *)
(* of iterations or until a deadline, copy the evidence of each run into   *)
(* its directory and append a line to stability_summary.jsonl.             *)
(*                                                                         *)
(* The evidence of a replay is the number of the iteration that wrote it,  *)
(* 0 for what an earlier job left and -1 for no file.  A replay that exits *)
(* 0 may have failed to write either file.                                 *)
(***************************************************************************)
EXTENDS Integers, Sequences, FiniteSets, SequencesExt

CONSTANTS Limits,     \* values of MAX_ITERS, 0 for the deadline
          Durations,  \* values of DURATION_HOURS, in ticks of the clock
          Interval,   \* INTERVAL_SEC, in ticks
          Slack       \* bound: writes that fail or are lost

ASSUME HorizonAssumption == /\ Limits \subseteq Nat
                            /\ Durations \subseteq Nat
                            /\ Interval \in Nat \ {0}
                            /\ Slack \in Nat

VARIABLES max_iters, duration,   \* its environment
          jq,         \* whether jq is installed
          filed,      \* what an earlier job left in the run directories
          pc, iter, clock,
          wake,       \* when the sleep is over
          bench,      \* artifacts/bench.jsonl, its last line
          prom,       \* artifacts/metrics.prom
          run,        \* run[n]: what run_<n>/ holds
          stability,  \* stability_summary.jsonl
          code,       \* exit code, or Running
          lost        \* history: writes of the evidence that were lost

env == <<max_iters, duration, jq, filed>>
evidence == <<bench, prom>>
vars == <<env, pc, iter, clock, wake, evidence, run, stability, code, lost>>

NoFile == -1
Running == 99
-----------------------------------------------------------------------------
(* A job starts among the artifacts of earlier ones. *)
Init == /\ max_iters \in Limits
        /\ duration \in Durations
        /\ jq \in BOOLEAN
        /\ filed \in {NoFile, 0}
        /\ pc = "test"
        /\ iter = 0
        /\ clock = 0
        /\ wake = 0
        /\ bench \in {NoFile, 0}
        /\ prom \in {NoFile, 0}
        /\ run = <<>>
        /\ stability = <<>>
        /\ code = Running
        /\ lost = 0

Exit(c) == pc' = "exit" /\ code' = c

(* Variant: one iteration more than asked for. *)
should_continue_inclusive == IF max_iters > 0 THEN iter <= max_iters
                                   ELSE iter = 0 \/ clock <= duration

should_continue == IF max_iters > 0 THEN iter < max_iters
                                   ELSE iter = 0 \/ clock < duration

(* while should_continue, and the two checks after the loop. *)
test == /\ pc = "test"
        /\ \/ /\ should_continue
              /\ iter' = iter + 1
              /\ pc' = "replay"
              /\ UNCHANGED code
           \/ /\ ~should_continue
              /\ Exit(IF iter < 1 \/ stability = <<>> THEN 2 ELSE 0)
              /\ UNCHANGED iter
        /\ UNCHANGED <<env, clock, wake, evidence, run, stability, lost>>

(* Variant: a replay that fails is tried again and not counted.            *)
replay_retried == /\ pc = "replay"
                  /\ \/ bench' = iter /\ prom' = iter /\ pc' = "copy" /\ UNCHANGED iter
                     \/ UNCHANGED evidence /\ pc' = "sleep" /\ iter' = iter - 1
                  /\ UNCHANGED <<env, clock, wake, run, stability, code, lost>>

(* replay | tee, with pipefail: a failure of either ends the job. *)
replay == /\ pc = "replay"
          /\ \/ bench' = iter /\ prom' = iter /\ pc' = "copy" /\ UNCHANGED <<code, lost>>
             \/ /\ lost < Slack
                /\ lost' = lost + 1
                /\ \/ bench' = iter /\ UNCHANGED prom
                   \/ prom' = iter /\ UNCHANGED bench
                   \/ UNCHANGED evidence
                /\ pc' = "copy"
                /\ UNCHANGED code
             \/ /\ Exit(1)
                /\ bench' \in {bench, iter} /\ prom' \in {prom, iter}
                /\ UNCHANGED lost
          /\ UNCHANGED <<env, iter, clock, wake, run, stability>>

(* The line of bench.jsonl the metrics of an iteration are taken from, if  *)
(* jq is there to take them.                                               *)
extract_metrics(line) == IF jq THEN line ELSE NoFile

(* Variant: the line is read before the replay's evidence is copied.       *)
capture_before == /\ pc = "copy"
                  /\ run' = Append(run, [bench |-> bench, prom |-> prom])
                  /\ stability' = Append(stability,
                       [iteration |-> iter,
                        metrics |-> extract_metrics(IF run = <<>> THEN bench
                                                    ELSE Last(run).bench)])
                  /\ pc' = "sleep" /\ wake' = clock + Interval
                  /\ UNCHANGED <<env, iter, clock, evidence, code, lost>>

(* A copy, if there is a file to copy. *)
cp(file) == IF file = NoFile THEN filed ELSE file

(* The copies, then the line of the summary: its metrics are those of the  *)
(* last line of bench.jsonl.  set -e ends the job if one fails.            *)
capture == /\ pc = "copy"
           /\ \/ /\ run' = Append(run, [bench |-> cp(bench), prom |-> cp(prom)])
                 /\ stability' = Append(stability,
                      [iteration |-> iter, metrics |-> extract_metrics(bench)])
                 /\ pc' = IF max_iters > 0 /\ iter >= max_iters THEN "test" ELSE "sleep"
                 /\ wake' = clock + Interval
                 /\ UNCHANGED code
              \/ /\ Exit(1)
                 /\ run' \in {run} \union
                       {Append(run, [bench |-> cp(bench), prom |-> p]) :
                          p \in {filed, cp(prom)}}
                 /\ UNCHANGED <<stability, wake>>
           /\ UNCHANGED <<env, iter, clock, evidence, lost>>

(* sleep "${INTERVAL_SEC}" *)
sleep == /\ pc = "sleep"
         /\ clock >= wake
         /\ pc' = "test"
         /\ UNCHANGED <<env, iter, clock, wake, evidence, run, stability, code, lost>>

(* Time passes, also while a replay runs: but only as far as matters. *)
tick == /\ pc # "exit"
        /\ clock < duration + Interval \/ clock < wake
        /\ clock' = clock + 1
        /\ UNCHANGED <<env, pc, iter, wake, evidence, run, stability, code, lost>>

Script == test \/ replay \/ capture \/ sleep

Next == Script \/ tick \/ (pc = "exit" /\ UNCHANGED vars)

(* The script goes on when it can, and time passes. *)
Spec == Init /\ [][Next]_vars /\ WF_vars(Script) /\ WF_vars(tick)
-----------------------------------------------------------------------------
(***************************************************************************)
(* Exit code 0 means stability evidence: one line for every iteration, at  *)
(* least one, all the iterations asked for or the whole time; and the job  *)
(* never comes to the refusals after its loop (lines 96-104), which the    *)
(* loop's own guarantee makes unnecessary.                                 *)
(***************************************************************************)
SuccessHasEvidence ==
  code # Running =>
    /\ code # 2
    /\ code = 0 => /\ iter >= 1
                   /\ Len(run) = iter /\ Len(stability) = iter
                   /\ \A n \in DOMAIN stability : stability[n].iteration = n
                   /\ IF max_iters > 0 THEN iter = max_iters ELSE clock >= duration

(***************************************************************************)
(* The evidence of an iteration is that iteration's, in its directory and  *)
(* in the summary, unless a write of the replay was lost: then that of an  *)
(* earlier one is filed under its number.  At most as many are stale as    *)
(* writes were lost.                                                       *)
(***************************************************************************)
StaleOnlyIfLost ==
  LET stale == {n \in DOMAIN stability :
                  \/ jq /\ stability[n].metrics # n
                  \/ run[n].bench # n \/ run[n].prom # n}
  IN  Cardinality(stale) <= lost

(***************************************************************************)
(* The job ends, by iterations or by the clock, whatever fails in it.      *)
(***************************************************************************)
JobEnds == <>(pc = "exit")
=============================================================================
