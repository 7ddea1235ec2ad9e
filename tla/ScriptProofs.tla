---------------------------- MODULE ScriptProofs ----------------------------
(***************************************************************************)
(* Theorems about the long-horizon runner and the demo scripts.            *)
(*                                                                         *)
(* LongHorizon: for every number of iterations, duration and interval,     *)
(* whatever the artifacts held before, and any number of lost writes.      *)
(* Both safety properties need the loop's bookkeeping: at every place of   *)
(* the script, how many lines and directories there are for how many       *)
(* iterations (Books).  The staleness bound holds between a replay and its *)
(* capture only if a stale file that waits to be copied is counted as well *)
(* (Debt).                                                                 *)
(*                                                                         *)
(* DemoScripts: for files of any length and any numbers.  A fence is       *)
(* transparent because of the form a sample has while it is written        *)
(* (Shape): its rows are numbered by their lines and its header stands     *)
(* first or after an opening fence.  The report of a sample adds up its    *)
(* rows: that Total() lies between the least and the greatest number times *)
(* the rows (AverageBetween) is proved by induction over the rows, and the *)
(* induction is the search for a least one that fails (LeastMember, UpTo). *)
(***************************************************************************)
EXTENDS LongHorizon, DemoScripts, SequenceTheorems, FiniteSetTheorems,
        WellFoundedInduction, TLAPS

Evidence == [bench : Int, prom : Int]
Entry == [iteration : Int, metrics : Int]

TypeInv == /\ max_iters \in Nat /\ duration \in Nat
           /\ filed \in Int /\ bench \in Int /\ prom \in Int
           /\ iter \in Nat /\ clock \in Nat
           /\ run \in Seq(Evidence)
           /\ stability \in Seq(Entry)
           /\ lost \in Nat

(* What there is for the iterations so far; the last one is under way      *)
(* between its test and its capture.                                       *)
Books == /\ pc \in {"test", "replay", "copy", "sleep", "exit"}
         /\ code = Running <=> pc # "exit"
         /\ max_iters > 0 => iter <= max_iters
         /\ pc \in {"test", "sleep"} => Len(run) = iter /\ Len(stability) = iter
         /\ pc \in {"replay", "copy"} =>
              iter >= 1 /\ Len(run) = iter - 1 /\ Len(stability) = iter - 1
         /\ Len(stability) <= Len(run)

Numbered == \A n \in DOMAIN stability : stability[n].iteration = n

(* The iterations of the summary whose evidence is not their own. *)
Stale == {n \in DOMAIN stability :
            \/ jq /\ stability[n].metrics # n
            \/ run[n].bench # n \/ run[n].prom # n}

(* The evidence that waits to be copied is not that of this iteration. *)
StaleNow == bench # iter \/ prom # iter

Debt == IF pc = "copy" /\ StaleNow THEN Cardinality(Stale) + 1 <= lost
                                   ELSE Cardinality(Stale) <= lost

IInv == TypeInv /\ Books /\ Numbered /\ SuccessHasEvidence /\ Debt
-----------------------------------------------------------------------------
(* The stale iterations are finitely many. *)
LEMMA StaleFinite ==
  ASSUME stability \in Seq(Entry)
  PROVE  IsFiniteSet(Stale) /\ Cardinality(Stale) \in Nat
  <1>1. DOMAIN stability = 1..Len(stability) /\ Len(stability) \in Nat
    BY LenProperties
  <1>2. IsFiniteSet(1..Len(stability)) /\ Stale \subseteq 1..Len(stability)
    BY <1>1, FS_Interval DEF Stale
  <1>3. QED
    BY <1>2, FS_Subset, FS_CardinalityType

LEMMA StaleFiniteNext ==
  ASSUME stability' \in Seq(Entry)
  PROVE  Cardinality(Stale') \in Nat
  <1>1. DOMAIN stability' = 1..Len(stability') /\ Len(stability') \in Nat
    BY LenProperties
  <1>2. IsFiniteSet(1..Len(stability')) /\ Stale' \subseteq 1..Len(stability')
    BY <1>1, FS_Interval DEF Stale
  <1>3. QED
    BY <1>2, FS_Subset, FS_CardinalityType

LEMMA InitIInv == Init => IInv
  <1> SUFFICES ASSUME Init PROVE IInv
    OBVIOUS
  <1>1. /\ run = <<>> /\ stability = <<>> /\ iter = 0 /\ lost = 0 /\ pc = "test"
        /\ code = Running
    BY DEF Init
  <1>2. /\ run \in Seq(Evidence) /\ stability \in Seq(Entry)
        /\ Len(run) = 0 /\ Len(stability) = 0
    BY <1>1, EmptySeq
  <1>3. DOMAIN stability = {}
    <2>1. DOMAIN stability = 1..0
      BY <1>2, LenProperties
    <2>2. QED
      BY <2>1
  <1>4. TypeInv
    BY <1>2, HorizonAssumption DEF Init, TypeInv, NoFile
  <1>5. Books /\ Numbered /\ SuccessHasEvidence
    <2>1. max_iters \in Nat
      BY HorizonAssumption DEF Init
    <2>2. QED
      BY <1>1, <1>2, <1>3, <2>1 DEF Books, Numbered, SuccessHasEvidence
  <1>6. Debt
    <2>1. Stale = {}
      BY <1>3 DEF Stale
    <2>2. QED
      BY <1>1, <2>1, FS_EmptySet DEF Debt
  <1>7. QED
    BY <1>4, <1>5, <1>6 DEF IInv

(* The loop ends by its own condition: then an iteration was made, and as  *)
(* many as asked for or for the whole time, so neither check refuses.      *)
LEMMA LoopEnds ==
  ASSUME IInv, pc = "test", ~should_continue
  PROVE  /\ iter >= 1 /\ stability # <<>>
         /\ IF max_iters > 0 THEN iter = max_iters ELSE clock >= duration
  <1>1. /\ max_iters \in Nat /\ iter \in Nat /\ clock \in Nat /\ duration \in Nat
        /\ Len(stability) = iter
        /\ max_iters > 0 => iter <= max_iters
    BY DEF IInv, TypeInv, Books
  <1>2. iter >= 1 /\ IF max_iters > 0 THEN iter = max_iters ELSE clock >= duration
    BY <1>1 DEF should_continue
  <1>3. stability # <<>>
    <2>1. Len(<<>>) = 0
      OBVIOUS
    <2>2. QED
      BY <1>1, <1>2, <2>1
  <1>4. QED
    BY <1>2, <1>3

LEMMA TestIInv == IInv /\ test => IInv'
  <1> SUFFICES ASSUME IInv, test PROVE IInv'
    OBVIOUS
  <1>1. /\ pc = "test"
        /\ UNCHANGED <<max_iters, duration, jq, filed, clock, bench, prom, run,
                       stability, lost>>
    BY DEF test, env, evidence
  <1>2. /\ max_iters \in Nat /\ iter \in Nat /\ lost \in Nat
        /\ Len(run) = iter /\ Len(stability) = iter
        /\ max_iters > 0 => iter <= max_iters
        /\ code = Running
    BY <1>1 DEF IInv, TypeInv, Books
  <1>3. Cardinality(Stale) <= lost /\ Stale' = Stale
    BY <1>1 DEF IInv, Debt, Stale
  <1>4. Numbered'
    BY <1>1 DEF IInv, Numbered
  <1>5. CASE should_continue
    <2>1. iter' = iter + 1 /\ pc' = "replay" /\ code' = code
      BY <1>5 DEF test
    <2>2. max_iters > 0 => iter < max_iters
      BY <1>5 DEF should_continue
    <2>3. TypeInv'
      BY <1>1, <2>1 DEF IInv, TypeInv
    <2>4. Books'
      BY <1>1, <1>2, <2>1, <2>2 DEF Books
    <2>5. SuccessHasEvidence'
      BY <1>2, <2>1 DEF SuccessHasEvidence
    <2>6. Debt'
      BY <1>1, <1>3, <2>1 DEF Debt
    <2>7. QED
      BY <1>4, <2>3, <2>4, <2>5, <2>6 DEF IInv
  <1>6. CASE ~should_continue
    <2>1. /\ iter >= 1 /\ stability # <<>>
          /\ IF max_iters > 0 THEN iter = max_iters ELSE clock >= duration
      BY <1>1, <1>6, LoopEnds
    <2>2. iter' = iter /\ pc' = "exit" /\ code' = 0
      BY <1>2, <1>6, <2>1 DEF test, Exit
    <2>3. TypeInv'
      BY <1>1, <2>2 DEF IInv, TypeInv
    <2>4. Books'
      BY <1>1, <1>2, <2>2 DEF Books, Running
    <2>5. SuccessHasEvidence'
      BY <1>1, <1>2, <1>4, <2>1, <2>2 DEF SuccessHasEvidence, Numbered
    <2>6. Debt'
      BY <1>1, <1>3, <2>2 DEF Debt
    <2>7. QED
      BY <1>4, <2>3, <2>4, <2>5, <2>6 DEF IInv
  <1>7. QED
    BY <1>5, <1>6

(* A replay that loses no write leaves the evidence of this iteration; one *)
(* that loses a write pays for it.                                         *)
LEMMA ReplayIInv == IInv /\ replay => IInv'
  <1> SUFFICES ASSUME IInv, replay PROVE IInv'
    OBVIOUS
  <1>1. /\ pc = "replay"
        /\ UNCHANGED <<max_iters, duration, jq, filed, iter, clock, run, stability>>
    BY DEF replay, env
  <1>2. /\ iter \in Nat /\ lost \in Nat /\ bench \in Int /\ prom \in Int
        /\ Len(run) = iter - 1 /\ Len(stability) = iter - 1 /\ iter >= 1
        /\ max_iters > 0 => iter <= max_iters
        /\ code = Running
    BY <1>1 DEF IInv, TypeInv, Books
  <1>3. /\ Cardinality(Stale) <= lost /\ Stale' = Stale
        /\ Cardinality(Stale) \in Nat
    BY <1>1, StaleFinite DEF IInv, TypeInv, Debt, Stale
  <1>4. Numbered'
    BY <1>1 DEF IInv, Numbered
  <1>5. /\ \/ pc' = "copy" /\ code' = code /\ lost' = lost /\ ~StaleNow'
           \/ pc' = "copy" /\ code' = code /\ lost' = lost + 1
           \/ pc' = "exit" /\ code' = 1 /\ lost' = lost
        /\ bench' \in {bench, iter} /\ prom' \in {prom, iter}
    <2>1. CASE bench' = iter /\ prom' = iter /\ pc' = "copy" /\ UNCHANGED <<code, lost>>
      BY <1>1, <2>1 DEF StaleNow
    <2>2. CASE /\ lost' = lost + 1
               /\ \/ bench' = iter /\ UNCHANGED prom
                  \/ prom' = iter /\ UNCHANGED bench
                  \/ UNCHANGED evidence
               /\ pc' = "copy"
               /\ UNCHANGED code
      BY <2>2 DEF evidence
    <2>3. CASE /\ Exit(1)
               /\ bench' \in {bench, iter} /\ prom' \in {prom, iter}
               /\ UNCHANGED lost
      BY <2>3 DEF Exit
    <2>4. QED
      BY <2>1, <2>2, <2>3 DEF replay
  <1>6. lost' \in Nat /\ bench' \in Int /\ prom' \in Int
    BY <1>2, <1>5
  <1>7. TypeInv'
    BY <1>1, <1>6 DEF IInv, TypeInv
  <1>8. Books'
    BY <1>1, <1>2, <1>5 DEF Books, Running
  <1>9. SuccessHasEvidence'
    BY <1>2, <1>5 DEF SuccessHasEvidence, Running
  <1>10. Debt'
    BY <1>2, <1>3, <1>5 DEF Debt
  <1>11. QED
    BY <1>4, <1>7, <1>8, <1>9, <1>10 DEF IInv

(* A capture appends a line and a directory; they are stale only if what   *)
(* was copied was, and then the write that was lost has been counted.      *)
LEMMA CapturedIInv ==
  ASSUME IInv, pc = "copy",
         run' = Append(run, [bench |-> cp(bench), prom |-> cp(prom)]),
         stability' = Append(stability,
                      [iteration |-> iter, metrics |-> extract_metrics(bench)]),
         pc' \in {"test", "sleep"}, wake' = clock + Interval, code' = code,
         UNCHANGED <<env, iter, clock, evidence, lost>>
  PROVE  IInv'
  <1> DEFINE copied == [bench |-> cp(bench), prom |-> cp(prom)]
             line == [iteration |-> iter, metrics |-> extract_metrics(bench)]
  <1>1. UNCHANGED <<max_iters, duration, jq, filed, iter, clock, bench, prom, lost>>
    BY DEF env, evidence
  <1>2. /\ max_iters \in Nat /\ iter \in Nat /\ lost \in Nat
        /\ bench \in Int /\ prom \in Int /\ filed \in Int
        /\ run \in Seq(Evidence) /\ stability \in Seq(Entry)
        /\ Len(run) = iter - 1 /\ Len(stability) = iter - 1 /\ iter >= 1
        /\ code = Running
    BY DEF IInv, TypeInv, Books
  <1>3. max_iters > 0 => iter <= max_iters
    BY DEF IInv, Books
  <1>4. copied \in Evidence /\ line \in Entry
    BY <1>2 DEF Evidence, Entry, cp, extract_metrics, NoFile
  <1>5. /\ copied.bench = cp(bench) /\ copied.prom = cp(prom)
        /\ line.iteration = iter /\ line.metrics = extract_metrics(bench)
    OBVIOUS
  <1> HIDE DEF copied, line
  <1>6. /\ run' \in Seq(Evidence) /\ Len(run') = iter
        /\ \A n \in 1..iter - 1 : run'[n] = run[n]
        /\ run'[iter] = copied
    <2>1. run' = Append(run, copied)
      BY DEF copied
    <2>2. QED
      BY <1>2, <1>4, <2>1, AppendProperties
  <1>7. /\ stability' \in Seq(Entry) /\ Len(stability') = iter
        /\ \A n \in 1..iter - 1 : stability'[n] = stability[n]
        /\ stability'[iter] = line
    <2>1. stability' = Append(stability, line)
      BY DEF line
    <2>2. QED
      BY <1>2, <1>4, <2>1, AppendProperties
  <1>8. DOMAIN stability = 1..iter - 1 /\ DOMAIN stability' = 1..iter
    BY <1>2, <1>7, LenProperties
  <1>9. TypeInv'
    BY <1>1, <1>6, <1>7 DEF IInv, TypeInv
  <1>10. Books'
    BY <1>1, <1>2, <1>3, <1>6, <1>7 DEF Books
  <1>11. Numbered'
    <2>1. ASSUME NEW n \in 1..iter
          PROVE  stability'[n].iteration = n
      <3>1. CASE n = iter
        BY <1>5, <1>7, <3>1
      <3>2. CASE n # iter
        <4>1. n \in 1..iter - 1
          BY <1>2, <3>2
        <4>2. stability[n].iteration = n
          BY <1>8, <4>1 DEF IInv, Numbered
        <4>3. QED
          BY <1>7, <4>1, <4>2
      <3>3. QED
        BY <3>1, <3>2
    <2>2. QED
      BY <1>8, <2>1 DEF Numbered
  <1>12. SuccessHasEvidence'
    BY <1>2 DEF SuccessHasEvidence
  <1>13. Stale' \subseteq Stale \union {iter}
    <2>1. ASSUME NEW n \in 1..iter, n # iter, n \in Stale'
          PROVE  n \in Stale
      <3>1. n \in 1..iter - 1
        BY <1>2, <2>1
      <3>2. stability'[n] = stability[n] /\ run'[n] = run[n]
        BY <1>6, <1>7, <3>1
      <3>3. QED
        BY <1>1, <1>8, <2>1, <3>1, <3>2 DEF Stale
    <2>2. QED
      BY <1>8, <2>1 DEF Stale
  <1>14. ~StaleNow => iter \notin Stale'
    <2>1. SUFFICES ASSUME bench = iter, prom = iter
                   PROVE  iter \notin Stale'
      BY DEF StaleNow
    <2>2. cp(bench) = iter /\ cp(prom) = iter
      BY <1>2, <2>1 DEF cp, NoFile
    <2>3. jq' => extract_metrics(bench) = iter
      BY <1>1, <2>1 DEF extract_metrics
    <2>4. /\ run'[iter].bench = iter /\ run'[iter].prom = iter
          /\ jq' => stability'[iter].metrics = iter
      BY <1>5, <1>6, <1>7, <2>2, <2>3
    <2>5. QED
      BY <2>4 DEF Stale
  <1>15. /\ IsFiniteSet(Stale) /\ Cardinality(Stale) \in Nat
         /\ Cardinality(Stale') \in Nat
    BY <1>2, <1>7, StaleFinite, StaleFiniteNext
  <1>16. Cardinality(Stale') <= lost
    <2>1. CASE StaleNow
      <3>1. Cardinality(Stale) + 1 <= lost
        BY <2>1 DEF IInv, Debt
      <3>2. /\ IsFiniteSet(Stale \union {iter})
            /\ Cardinality(Stale \union {iter}) \in Nat
            /\ Cardinality(Stale \union {iter}) <= Cardinality(Stale) + 1
        <4>1. /\ IsFiniteSet(Stale \union {iter})
              /\ \/ Cardinality(Stale \union {iter}) = Cardinality(Stale)
                 \/ Cardinality(Stale \union {iter}) = Cardinality(Stale) + 1
          BY <1>15, FS_AddElement, Zenon
        <4>2. QED
          BY <1>15, <4>1
      <3>3. Cardinality(Stale') <= Cardinality(Stale \union {iter})
        BY <1>13, <3>2, FS_Subset
      <3>4. QED
        BY <1>2, <1>15, <3>1, <3>2, <3>3
    <2>2. CASE ~StaleNow
      <3>1. Cardinality(Stale) <= lost
        BY <2>2 DEF IInv, Debt
      <3>2. Stale' \subseteq Stale
        BY <1>13, <1>14, <2>2
      <3>3. Cardinality(Stale') <= Cardinality(Stale)
        BY <1>15, <3>2, FS_Subset
      <3>4. QED
        BY <1>2, <1>15, <3>1, <3>3
    <2>3. QED
      BY <2>1, <2>2
  <1>17. Debt'
    BY <1>1, <1>16 DEF Debt
  <1>18. QED
    BY <1>9, <1>10, <1>11, <1>12, <1>17 DEF IInv

(* A capture that fails ends the job; no line is written. *)
LEMMA CaptureFailsIInv ==
  ASSUME IInv, pc = "copy", Exit(1),
         run' \in {run} \union
               {Append(run, [bench |-> cp(bench), prom |-> p]) :
                  p \in {filed, cp(prom)}},
         UNCHANGED <<stability, env, iter, clock, evidence, lost>>
  PROVE  IInv'
  <1>1. /\ pc' = "exit" /\ code' = 1
        /\ UNCHANGED <<max_iters, duration, jq, filed, iter, clock, bench, prom,
                       stability, lost>>
    BY DEF env, evidence, Exit
  <1>2. /\ iter \in Nat /\ lost \in Nat
        /\ bench \in Int /\ prom \in Int /\ filed \in Int
        /\ run \in Seq(Evidence) /\ stability \in Seq(Entry)
        /\ Len(run) = iter - 1 /\ Len(stability) = iter - 1 /\ iter >= 1
    BY DEF IInv, TypeInv, Books
  <1>3. /\ run' \in Seq(Evidence) /\ Len(run') >= iter - 1
        /\ \A n \in 1..iter - 1 : run'[n] = run[n]
    <2>1. CASE run' = run
      BY <1>2, <2>1
    <2>2. ASSUME NEW p \in {filed, cp(prom)},
                 run' = Append(run, [bench |-> cp(bench), prom |-> p])
          PROVE  /\ run' \in Seq(Evidence) /\ Len(run') >= iter - 1
                 /\ \A n \in 1..iter - 1 : run'[n] = run[n]
      <3> DEFINE copied == [bench |-> cp(bench), prom |-> p]
      <3>1. copied \in Evidence
        BY <1>2 DEF Evidence, cp, NoFile
      <3> HIDE DEF copied
      <3>2. run' = Append(run, copied)
        BY <2>2 DEF copied
      <3>3. /\ run' \in Seq(Evidence) /\ Len(run') = Len(run) + 1
            /\ \A n \in 1..Len(run) : run'[n] = run[n]
        BY <1>2, <3>1, <3>2, AppendProperties
      <3>4. QED
        BY <1>2, <3>3
    <2>3. QED
      BY <2>1, <2>2
  <1>4. DOMAIN stability = 1..iter - 1
    BY <1>2, LenProperties
  <1>5. TypeInv'
    BY <1>1, <1>3 DEF IInv, TypeInv
  <1>6. Books'
    BY <1>1, <1>2, <1>3 DEF IInv, Books, Running
  <1>7. Numbered' /\ SuccessHasEvidence'
    BY <1>1 DEF IInv, Numbered, SuccessHasEvidence, Running
  <1>8. Stale' = Stale
    <2>1. \A n \in DOMAIN stability : run'[n] = run[n]
      BY <1>3, <1>4
    <2>2. QED
      BY <1>1, <2>1 DEF Stale
  <1>9. Cardinality(Stale) <= lost
    <2>1. Cardinality(Stale) \in Nat
      BY <1>2, StaleFinite
    <2>2. QED
      BY <1>2, <2>1 DEF IInv, Debt
  <1>10. Debt'
    BY <1>1, <1>8, <1>9 DEF Debt
  <1>11. QED
    BY <1>5, <1>6, <1>7, <1>10 DEF IInv

LEMMA CaptureIInv == IInv /\ capture => IInv'
  <1> SUFFICES ASSUME IInv, capture PROVE IInv'
    OBVIOUS
  <1>1. pc = "copy" /\ UNCHANGED <<env, iter, clock, evidence, lost>>
    BY DEF capture
  <1>2. CASE /\ run' = Append(run, [bench |-> cp(bench), prom |-> cp(prom)])
             /\ stability' = Append(stability,
                  [iteration |-> iter, metrics |-> extract_metrics(bench)])
             /\ pc' = IF max_iters > 0 /\ iter >= max_iters THEN "test" ELSE "sleep"
             /\ wake' = clock + Interval
             /\ UNCHANGED code
    <2>1. pc' \in {"test", "sleep"} /\ code' = code
      BY <1>2
    <2>2. QED
      BY <1>1, <1>2, <2>1, CapturedIInv
  <1>3. CASE /\ Exit(1)
             /\ run' \in {run} \union
                   {Append(run, [bench |-> cp(bench), prom |-> p]) :
                      p \in {filed, cp(prom)}}
             /\ UNCHANGED <<stability, wake>>
    <2>1. stability' = stability
      BY <1>3
    <2>2. QED
      BY <1>1, <1>3, <2>1, CaptureFailsIInv
  <1>4. QED
    BY <1>2, <1>3 DEF capture

(* The end of a sleep, and the clock, touch no evidence. *)
LEMMA SleepIInv == IInv /\ sleep => IInv'
  <1> SUFFICES ASSUME IInv, sleep PROVE IInv'
    OBVIOUS
  <1>1. /\ pc = "sleep" /\ pc' = "test"
        /\ UNCHANGED <<max_iters, duration, jq, filed, iter, clock, bench, prom,
                       run, stability, code, lost>>
    BY DEF sleep, env, evidence
  <1>2. TypeInv'
    BY <1>1 DEF IInv, TypeInv
  <1>3. Books' /\ Numbered' /\ SuccessHasEvidence'
    BY <1>1 DEF IInv, Books, Numbered, SuccessHasEvidence
  <1>4. Debt'
    BY <1>1 DEF IInv, Debt, Stale
  <1>5. QED
    BY <1>2, <1>3, <1>4 DEF IInv

LEMMA TickIInv == IInv /\ tick => IInv'
  <1> SUFFICES ASSUME IInv, tick PROVE IInv'
    OBVIOUS
  <1>1. /\ pc # "exit" /\ clock' = clock + 1
        /\ UNCHANGED <<max_iters, duration, jq, filed, pc, iter, bench, prom,
                       run, stability, code, lost>>
    BY DEF tick, env, evidence
  <1>2. TypeInv'
    BY <1>1 DEF IInv, TypeInv
  <1>3. Books' /\ Numbered'
    BY <1>1 DEF IInv, Books, Numbered
  <1>4. SuccessHasEvidence'
    BY <1>1 DEF IInv, Books, SuccessHasEvidence
  <1>5. Debt'
    BY <1>1 DEF IInv, Debt, Stale, StaleNow
  <1>6. QED
    BY <1>2, <1>3, <1>4, <1>5 DEF IInv

LEMMA NextIInv == IInv /\ [Next]_vars => IInv'
  <1>1. IInv /\ UNCHANGED vars => IInv'
    <2> SUFFICES ASSUME IInv, UNCHANGED vars PROVE IInv'
      OBVIOUS
    <2>1. UNCHANGED <<max_iters, duration, jq, filed, pc, iter, clock, bench, prom,
                      run, stability, code, lost>>
      BY DEF vars, env, evidence
    <2>2. TypeInv' /\ Books' /\ Numbered' /\ SuccessHasEvidence'
      BY <2>1 DEF IInv, TypeInv, Books, Numbered, SuccessHasEvidence
    <2>3. Debt'
      BY <2>1 DEF IInv, Debt, Stale, StaleNow
    <2>4. QED
      BY <2>2, <2>3 DEF IInv
  <1>2. QED
    BY <1>1, TestIInv, ReplayIInv, CaptureIInv, SleepIInv, TickIInv DEF Next, Script
-----------------------------------------------------------------------------
(* The inductive invariant holds in every reachable state. *)
THEOREM Invariance == Spec => []IInv
  BY InitIInv, NextIInv, PTL DEF Spec

(***************************************************************************)
(* Exit code 0 means a line and a directory for every iteration, and all   *)
(* of those asked for, or the whole time; exit code 2 does not occur.      *)
(***************************************************************************)
THEOREM EvidenceOfSuccess == Spec => []SuccessHasEvidence
  <1>1. IInv => SuccessHasEvidence
    BY DEF IInv
  <1>2. QED
    BY <1>1, Invariance, PTL

(***************************************************************************)
(* At most as many iterations have stale evidence as writes were lost.     *)
(***************************************************************************)
THEOREM StaleByLossOnly == Spec => []StaleOnlyIfLost
  <1>1. IInv => StaleOnlyIfLost
    <2> SUFFICES ASSUME IInv PROVE Cardinality(Stale) <= lost
      BY DEF StaleOnlyIfLost, Stale
    <2>1. Cardinality(Stale) \in Nat /\ lost \in Nat
      BY StaleFinite DEF IInv, TypeInv
    <2>2. QED
      BY <2>1 DEF IInv, Debt
  <1>2. QED
    BY <1>1, Invariance, PTL
-----------------------------------------------------------------------------
(* How long n sleeps take. *)
Intervals(n) == n * Interval

(***************************************************************************)
(* Two iterations are at least an interval apart, whatever they take, and  *)
(* a job with a deadline makes no more of them than fit before it: the     *)
(* first, and those that start before the time is up.                      *)
(***************************************************************************)
Paced == /\ iter >= 1 => Intervals(iter - 1) <= clock
         /\ max_iters = 0 /\ iter > 1 => Intervals(iter - 1) < duration

(* The iterations that are over, and how late it may be after n of them.   *)
Made == IF pc \in {"replay", "copy"} THEN iter - 1 ELSE iter
Latest(n) == duration + Interval + Intervals(n)

(***************************************************************************)
(* The inductive invariant about time: a sleep is not over before its      *)
(* interval, and neither the clock nor the end of a sleep is later than    *)
(* the iterations made so far allow.                                       *)
(***************************************************************************)
Pace == /\ Paced
        /\ wake \in Nat
        /\ pc = "sleep" => Intervals(iter) <= wake
        /\ pc = "test" /\ should_continue => Intervals(iter) <= clock
        /\ pc = "exit" => iter >= 1
        /\ clock <= Latest(Made) /\ wake <= Latest(Made)

(* The most iterations a job makes. *)
MostIters == IF max_iters > 0 THEN max_iters ELSE duration + 1

(* The place in the loop, counted backwards. *)
Rank == CASE pc = "replay" -> 4 [] pc = "copy" -> 3 [] pc = "sleep" -> 2
          [] pc = "test" -> 1 [] OTHER -> 0

(***************************************************************************)
(* A bound on the steps, of the script and of the clock, that are left.    *)
(***************************************************************************)
StepsLeft == (Latest(MostIters) - clock) + 4 * (MostIters - iter) + Rank

-----------------------------------------------------------------------------
(* What the proofs below use of the multiplication in Intervals. *)
LEMMA IntervalsGrow ==
  ASSUME NEW n \in Nat
  PROVE  /\ Intervals(n) \in Nat
         /\ Intervals(n + 1) = Intervals(n) + Interval
         /\ n <= Intervals(n)
         /\ Intervals(0) = 0
  <1>1. Interval \in Nat /\ Interval >= 1
    BY HorizonAssumption
  <1>2. Interval - 1 \in Nat
    BY <1>1
  <1>3. n * (Interval - 1) \in Nat
    BY <1>2
  <1>4. n * Interval = n * (Interval - 1) + n
    BY <1>1
  <1>5. (n + 1) * Interval = n * Interval + Interval
    BY <1>1
  <1>6. n * Interval \in Nat /\ n <= n * Interval
    BY <1>3, <1>4
  <1>7. QED
    BY <1>1, <1>5, <1>6 DEF Intervals

LEMMA LaterIterations ==
  ASSUME NEW m \in Nat, NEW n \in Nat, m <= n
  PROVE  Intervals(m) <= Intervals(n)
  <1>1. Interval \in Nat /\ n - m \in Nat
    BY HorizonAssumption
  <1>2. (n - m) * Interval \in Nat
    BY <1>1
  <1>3. n * Interval = m * Interval + (n - m) * Interval
    BY <1>1
  <1>4. m * Interval \in Nat /\ n * Interval \in Nat
    BY <1>1
  <1>5. QED
    BY <1>2, <1>3, <1>4 DEF Intervals

(* The types the arithmetic below needs. *)
LEMMA TimeTypes ==
  ASSUME IInv
  PROVE  /\ max_iters \in Nat /\ duration \in Nat /\ iter \in Nat
         /\ clock \in Nat /\ Interval \in Nat /\ Interval >= 1
         /\ Made \in Nat /\ Made <= iter /\ iter <= Made + 1
         /\ max_iters > 0 => iter <= max_iters
         /\ pc \in {"test", "replay", "copy", "sleep", "exit"}
  <1>1. /\ max_iters \in Nat /\ duration \in Nat /\ iter \in Nat /\ clock \in Nat
        /\ pc \in {"test", "replay", "copy", "sleep", "exit"}
        /\ max_iters > 0 => iter <= max_iters
        /\ pc \in {"replay", "copy"} => iter >= 1
    BY DEF IInv, TypeInv, Books
  <1>2. Made \in Nat /\ Made <= iter /\ iter <= Made + 1
    BY <1>1 DEF Made
  <1>3. QED
    BY <1>1, <1>2, HorizonAssumption

LEMMA InitPace == Init => Pace
  <1> SUFFICES ASSUME Init PROVE Pace
    OBVIOUS
  <1>1. /\ pc = "test" /\ iter = 0 /\ clock = 0 /\ wake = 0
        /\ duration \in Nat /\ Interval \in Nat
    BY HorizonAssumption DEF Init
  <1>2. Intervals(0) = 0
    BY IntervalsGrow
  <1>3. Made = 0
    BY <1>1 DEF Made
  <1>4. Latest(Made) = duration + Interval
    BY <1>1, <1>2, <1>3 DEF Latest
  <1>5. QED
    BY <1>1, <1>2, <1>4 DEF Pace, Paced

LEMMA TestPace == IInv /\ Pace /\ test => Pace'
  <1> SUFFICES ASSUME IInv, Pace, test PROVE Pace'
    OBVIOUS
  <1>1. /\ pc = "test" /\ Made = iter
        /\ UNCHANGED <<max_iters, duration, clock, wake>>
    BY DEF test, env, Made
  <1>2. /\ iter \in Nat /\ clock \in Nat /\ max_iters \in Nat
        /\ duration \in Nat
    BY TimeTypes
  <1>3. /\ Latest(iter)' = Latest(iter')
        /\ \A n \in Nat : Latest(n)' = Latest(n)
    BY <1>1 DEF Latest, Intervals
  <1>4. CASE should_continue
    <2>1. iter' = iter + 1 /\ pc' = "replay"
      BY <1>4 DEF test
    <2>2. Made' = iter
      BY <1>2, <2>1 DEF Made
    <2>3. clock' <= Latest(Made)' /\ wake' <= Latest(Made)'
      BY <1>1, <2>2 DEF Pace, Latest, Intervals
    <2>4. Intervals(iter' - 1) <= clock'
      <3>1. iter' - 1 = iter
        BY <1>2, <2>1
      <3>2. Intervals(iter) <= clock
        BY <1>1, <1>4 DEF Pace
      <3>3. QED
        BY <1>1, <3>1, <3>2
    <2>5. max_iters = 0 /\ iter' > 1 => Intervals(iter' - 1) < duration
      <3>1. SUFFICES ASSUME max_iters = 0, iter' > 1
                     PROVE  Intervals(iter' - 1) < duration
        OBVIOUS
      <3>2. clock < duration
        BY <1>2, <1>4, <2>1, <3>1 DEF should_continue
      <3>3. Intervals(iter' - 1) \in Nat
        BY <1>2, <2>1, IntervalsGrow
      <3>4. QED
        BY <1>1, <1>2, <2>4, <3>2, <3>3
    <2>6. QED
      BY <1>1, <2>1, <2>3, <2>4, <2>5 DEF Pace, Paced, Intervals
  <1>5. CASE ~should_continue
    <2>1. iter' = iter /\ pc' = "exit"
      BY <1>5 DEF test, Exit
    <2>2. iter >= 1
      BY <1>1, <1>5, LoopEnds
    <2>3. Made' = iter
      BY <2>1 DEF Made
    <2>4. clock' <= Latest(Made)' /\ wake' <= Latest(Made)'
      BY <1>1, <2>3 DEF Pace, Latest, Intervals
    <2>5. QED
      BY <1>1, <2>1, <2>2, <2>4 DEF Pace, Paced, Intervals
  <1>6. QED
    BY <1>4, <1>5

LEMMA ReplayPace == IInv /\ Pace /\ replay => Pace'
  <1> SUFFICES ASSUME IInv, Pace, replay PROVE Pace'
    OBVIOUS
  <1>1. /\ pc = "replay" /\ pc' \in {"copy", "exit"}
        /\ UNCHANGED <<max_iters, duration, iter, clock, wake>>
    BY DEF replay, env, Exit
  <1>2. /\ iter \in Nat /\ clock \in Nat /\ duration \in Nat /\ Interval \in Nat
        /\ Made = iter - 1 /\ Made \in Nat /\ wake \in Nat
    BY <1>1, TimeTypes DEF Made, Pace
  <1>3. Made' \in {Made, iter} /\ Made <= iter
    BY <1>1, <1>2 DEF Made
  <1>4. clock' <= Latest(Made)' /\ wake' <= Latest(Made)'
    <2>1. Intervals(Made) <= Intervals(iter)
      BY <1>2, LaterIterations
    <2>2. Intervals(Made) \in Nat /\ Intervals(iter) \in Nat
      BY <1>2, IntervalsGrow
    <2>3. clock <= Latest(Made) /\ wake <= Latest(Made)
      BY DEF Pace
    <2>4. clock <= Latest(iter) /\ wake <= Latest(iter)
      BY <1>2, <2>1, <2>2, <2>3 DEF Latest
    <2>5. Latest(Made)' \in {Latest(Made), Latest(iter)}
      BY <1>1, <1>3 DEF Latest, Intervals
    <2>6. QED
      BY <1>1, <2>3, <2>4, <2>5
  <1>5. iter >= 1
    BY <1>2
  <1>6. QED
    BY <1>1, <1>4, <1>5 DEF Pace, Paced, Intervals

LEMMA CapturePace == IInv /\ Pace /\ capture => Pace'
  <1> SUFFICES ASSUME IInv, Pace, capture PROVE Pace'
    OBVIOUS
  <1>1. /\ pc = "copy"
        /\ UNCHANGED <<max_iters, duration, iter, clock>>
        /\ \/ /\ pc' = IF max_iters > 0 /\ iter >= max_iters THEN "test" ELSE "sleep"
              /\ wake' = clock + Interval
           \/ pc' = "exit" /\ wake' = wake
    BY DEF capture, env, Exit
  <1>2. /\ iter \in Nat /\ clock \in Nat /\ duration \in Nat /\ Interval \in Nat
        /\ Made = iter - 1 /\ Made \in Nat /\ wake \in Nat
        /\ iter >= 1
    BY <1>1, TimeTypes DEF Made, Pace
  <1>3. Made' = iter /\ iter = Made + 1
    BY <1>1, <1>2 DEF Made
  <1>4. /\ Intervals(Made) \in Nat /\ Intervals(iter) = Intervals(Made) + Interval
        /\ Intervals(iter) \in Nat
    BY <1>2, <1>3, IntervalsGrow
  <1>5. clock <= Latest(Made) /\ wake <= Latest(Made) /\ Intervals(Made) <= clock
    BY <1>2 DEF Pace, Paced
  <1>6. Latest(iter) = Latest(Made) + Interval /\ Latest(Made) \in Nat
    BY <1>2, <1>4 DEF Latest
  <1>7. Latest(Made)' = Latest(iter)
    BY <1>1, <1>3 DEF Latest, Intervals
  <1>8. clock' <= Latest(Made)' /\ wake' <= Latest(Made)' /\ wake' \in Nat
    BY <1>1, <1>2, <1>5, <1>6, <1>7
  <1>9. pc' = "sleep" => Intervals(iter) <= wake'
    BY <1>1, <1>2, <1>4, <1>5
  <1>10. pc' = "test" => ~should_continue'
    <2>1. pc' = "test" => max_iters > 0 /\ iter >= max_iters
      BY <1>1
    <2>2. QED
      BY <1>1, <1>2, <2>1, TimeTypes DEF should_continue
  <1>11. QED
    BY <1>1, <1>2, <1>8, <1>9, <1>10 DEF Pace, Paced, Intervals

LEMMA SleepPace == IInv /\ Pace /\ sleep => Pace'
  <1> SUFFICES ASSUME IInv, Pace, sleep PROVE Pace'
    OBVIOUS
  <1>1. /\ pc = "sleep" /\ pc' = "test" /\ clock >= wake
        /\ UNCHANGED <<max_iters, duration, iter, clock, wake>>
    BY DEF sleep, env
  <1>2. /\ iter \in Nat /\ clock \in Nat /\ wake \in Nat
    BY TimeTypes DEF Pace
  <1>3. Intervals(iter) \in Nat
    BY <1>2, IntervalsGrow
  <1>4. Intervals(iter) <= clock
    BY <1>1, <1>2, <1>3 DEF Pace
  <1>5. Latest(Made)' = Latest(Made)
    BY <1>1 DEF Latest, Intervals, Made
  <1>6. QED
    BY <1>1, <1>4, <1>5 DEF Pace, Paced, Intervals

LEMMA TickPace == IInv /\ Pace /\ tick => Pace'
  <1> SUFFICES ASSUME IInv, Pace, tick PROVE Pace'
    OBVIOUS
  <1>1. /\ pc # "exit" /\ clock' = clock + 1
        /\ clock < duration + Interval \/ clock < wake
        /\ UNCHANGED <<max_iters, duration, iter, wake, pc>>
    BY DEF tick, env
  <1>2. /\ iter \in Nat /\ clock \in Nat /\ wake \in Nat /\ duration \in Nat
        /\ Interval \in Nat /\ Made \in Nat
    BY TimeTypes DEF Pace
  <1>3. Intervals(Made) \in Nat
    BY <1>2, IntervalsGrow
  <1>4. Intervals(iter) \in Nat /\ (iter >= 1 => Intervals(iter - 1) \in Nat)
    <2>1. iter >= 1 => iter - 1 \in Nat
      BY <1>2
    <2>2. QED
      BY <1>2, <2>1, IntervalsGrow
  <1>5. clock + 1 <= Latest(Made) /\ wake <= Latest(Made)
    BY <1>1, <1>2, <1>3 DEF Pace, Latest
  <1>6. Latest(Made)' = Latest(Made)
    BY <1>1 DEF Latest, Intervals, Made
  <1>7. Paced'
    <2>1. iter >= 1 => Intervals(iter - 1) <= clock + 1
      BY <1>2, <1>4 DEF Pace, Paced
    <2>2. QED
      BY <1>1, <2>1 DEF Pace, Paced, Intervals
  <1>8. pc = "test" /\ should_continue' => Intervals(iter) <= clock + 1
    <2>1. should_continue' => should_continue
      BY <1>1, <1>2 DEF should_continue
    <2>2. QED
      BY <1>2, <1>4, <2>1 DEF Pace
  <1>9. QED
    BY <1>1, <1>5, <1>6, <1>7, <1>8 DEF Pace, Intervals

LEMMA NextPace == IInv /\ Pace /\ [Next]_vars => Pace'
  <1>1. IInv /\ Pace /\ UNCHANGED vars => Pace'
    BY DEF vars, env, Pace, Paced, Made, Latest, Intervals, should_continue
  <1>2. QED
    BY <1>1, TestPace, ReplayPace, CapturePace, SleepPace, TickPace DEF Next, Script

(***************************************************************************)
(* Two iterations of a job are an interval apart, and without a limit it   *)
(* makes no more of them than fit into its duration, however long replays  *)
(* take and whatever is lost.                                              *)
(***************************************************************************)
THEOREM IterationsPaced == Spec => []Paced
  <1>1. Pace => Paced
    BY DEF Pace
  <1>2. QED
    BY <1>1, InitPace, NextPace, Invariance, PTL DEF Spec

(* No job makes more iterations than MostIters, and its clock stops with   *)
(* the latest of them.                                                     *)
LEMMA Bounded ==
  ASSUME IInv, Pace
  PROVE  /\ MostIters \in Nat /\ iter <= MostIters
         /\ clock <= Latest(MostIters) /\ Latest(MostIters) \in Nat
  <1>1. /\ max_iters \in Nat /\ duration \in Nat /\ iter \in Nat
        /\ clock \in Nat /\ Interval \in Nat /\ Made \in Nat /\ Made <= iter
        /\ max_iters > 0 => iter <= max_iters
    BY TimeTypes
  <1>2. MostIters \in Nat
    BY <1>1 DEF MostIters
  <1>3. iter <= MostIters
    <2>1. CASE max_iters = 0 /\ iter > 1
      <3>1. Intervals(iter - 1) < duration
        BY <2>1 DEF Pace, Paced
      <3>2. iter - 1 \in Nat
        BY <1>1, <2>1
      <3>3. iter - 1 <= Intervals(iter - 1) /\ Intervals(iter - 1) \in Nat
        BY <3>2, IntervalsGrow
      <3>4. iter < duration + 1
        BY <1>1, <3>1, <3>2, <3>3
      <3>5. QED
        BY <1>1, <2>1, <3>4 DEF MostIters
    <2>2. CASE max_iters > 0 \/ iter <= 1
      BY <1>1, <2>2 DEF MostIters
    <2>3. QED
      BY <1>1, <2>1, <2>2
  <1>4. Intervals(Made) <= Intervals(MostIters)
    BY <1>1, <1>2, <1>3, LaterIterations
  <1>5. Intervals(Made) \in Nat /\ Intervals(MostIters) \in Nat
    BY <1>1, <1>2, IntervalsGrow
  <1>6. clock <= Latest(Made)
    BY DEF Pace
  <1>7. clock <= Latest(MostIters) /\ Latest(MostIters) \in Nat
    BY <1>1, <1>4, <1>5, <1>6 DEF Latest
  <1>8. QED
    BY <1>2, <1>3, <1>7

LEMMA StepsAreNat ==
  ASSUME IInv, Pace
  PROVE  StepsLeft \in Nat
  <1>1. /\ MostIters \in Nat /\ iter <= MostIters /\ iter \in Nat /\ clock \in Nat
        /\ clock <= Latest(MostIters) /\ Latest(MostIters) \in Nat
    BY Bounded, TimeTypes
  <1>2. Rank \in 0..4
    BY DEF Rank
  <1>3. QED
    BY <1>1, <1>2 DEF StepsLeft

(* A step of the script counts down by its place or by the iteration, one  *)
(* of the clock by the clock.                                              *)
LEMMA StepCounts ==
  ASSUME IInv, Pace, Script \/ tick
  PROVE  StepsLeft' < StepsLeft
  <1>1. /\ MostIters \in Nat /\ iter \in Nat /\ clock \in Nat
        /\ Latest(MostIters) \in Nat
    BY Bounded, TimeTypes
  <1>2. UNCHANGED <<max_iters, duration>>
    BY DEF Script, test, replay, capture, sleep, tick, env
  <1>3. MostIters' = MostIters /\ Latest(MostIters)' = Latest(MostIters)
    BY <1>2 DEF MostIters, Latest, Intervals
  <1>4. Rank \in 0..4 /\ Rank' \in 0..4
    BY DEF Rank
  <1>5. \/ clock' = clock + 1 /\ iter' = iter /\ Rank' = Rank
        \/ clock' = clock /\ iter' = iter + 1 /\ Rank' = 4 /\ Rank = 1
        \/ clock' = clock /\ iter' = iter /\ Rank' < Rank
    <2>1. CASE test
      BY <2>1 DEF test, Exit, Rank
    <2>2. CASE replay
      BY <2>2 DEF replay, Exit, Rank
    <2>3. CASE capture
      BY <2>3 DEF capture, Exit, Rank
    <2>4. CASE sleep
      BY <2>4 DEF sleep, Rank
    <2>5. CASE tick
      BY <2>5 DEF tick, Rank
    <2>6. QED
      BY <2>1, <2>2, <2>3, <2>4, <2>5 DEF Script
  <1> DEFINE M == MostIters
             K == Latest(MostIters)
             r == Rank
             rn == Rank'
  <1>6. StepsLeft = (K - clock) + 4 * (M - iter) + r
    BY DEF StepsLeft
  <1>7. StepsLeft' = (K - clock') + 4 * (M - iter') + rn
    BY <1>3 DEF StepsLeft
  <1>8. M \in Nat /\ K \in Nat /\ r \in 0..4 /\ rn \in 0..4
    BY <1>1, <1>4
  <1>9. \/ clock' = clock + 1 /\ iter' = iter /\ rn = r
        \/ clock' = clock /\ iter' = iter + 1 /\ rn = 4 /\ r = 1
        \/ clock' = clock /\ iter' = iter /\ rn < r
    BY <1>5
  <1> HIDE DEF M, K, r, rn
  <1>10. QED
    BY <1>1, <1>6, <1>7, <1>8, <1>9

(***************************************************************************)
(* Every step of a job, of its script or of the clock, leaves a smaller    *)
(* natural number of steps, so no job makes more steps than StepsLeft has  *)
(* at its start: this is the part of JobEnds that needs no fairness.       *)
(***************************************************************************)
THEOREM JobRunsDown == Spec => [](StepsLeft \in Nat) /\ [][StepsLeft' < StepsLeft]_vars
  <1>1. Spec => [](IInv /\ Pace)
    BY InitPace, NextPace, Invariance, PTL DEF Spec
  <1>2. IInv /\ Pace => StepsLeft \in Nat
    BY StepsAreNat
  <1>3. IInv /\ Pace /\ [Next]_vars => [StepsLeft' < StepsLeft]_vars
    BY StepCounts DEF Next
  <1>4. QED
    BY <1>1, <1>2, <1>3, PTL DEF Spec
-----------------------------------------------------------------------------
Line == Row \union {Header, Fence}

(* The file: a header, after a fence if there is one, then rows numbered   *)
(* by their lines, and fences.                                             *)
Shape ==
  /\ file \in Seq(Line)
  /\ Len(file) >= 1 => file[1] \in {Header, Fence}
  /\ Len(file) >= 2 /\ file[1] = Fence => file[2] = Header
  /\ \A n \in 1..Len(file) :
       \/ file[n] = Fence
       \/ file[n] = Header /\ (n = 1 \/ (n = 2 /\ file[1] = Fence))
       \/ file[n] \in Row /\ file[n].id = n

(* Rows have numbers, the header and a fence have none. *)
LEMMA Kinds ==
  /\ \A r \in Row : r.id \in Nat /\ r.id > 0 /\ r # Header /\ r # Fence
  /\ Header.id = 0 /\ Fence.id = 0 /\ Header # Fence
  <1>1. Header.id = 0 /\ Fence.id = 0
    BY DEF Header, Fence
  <1>2. Header # Fence
    BY DEF Header, Fence
  <1>3. ASSUME NEW r \in Row
        PROVE  r.id \in Nat /\ r.id > 0
    <2>1. r.id \in 1..MaxLines
      BY DEF Row
    <2>2. QED
      BY <2>1, DemoAssumption
  <1>4. QED
    BY <1>1, <1>2, <1>3

LEMMA InitShape == DemoInit => Shape
  BY EmptySeq DEF DemoInit, Shape

LEMMA NextShape == Shape /\ [DemoNext]_sample => Shape'
  <1> SUFFICES ASSUME Shape, [DemoNext]_sample PROVE Shape'
    OBVIOUS
  <1>1. CASE add_line
    <2>1. PICK line \in Lines : file' = Append(file, line)
      BY <1>1 DEF add_line
    <2>2. file \in Seq(Line) /\ Len(file) \in Nat
      BY LenProperties DEF Shape
    <2>3. \/ file = <<>> /\ line \in {Header, Fence}
          \/ file = <<Fence>> /\ line = Header
          \/ /\ file # <<>> /\ file # <<Fence>>
             /\ \/ line \in Row /\ line.id = Len(file) + 1
                \/ line = Fence
      BY <2>1 DEF Lines
    <2>4. line \in Line
      BY <2>3 DEF Line
    <2>5. /\ file' \in Seq(Line) /\ Len(file') = Len(file) + 1
          /\ \A n \in 1..Len(file) : file'[n] = file[n]
          /\ file'[Len(file) + 1] = line
      BY <2>1, <2>2, <2>4, AppendProperties
    <2>6. CASE file = <<>>
      <3>1. Len(file) = 0 /\ line \in {Header, Fence}
        BY <2>3, <2>6
      <3>2. QED
        BY <2>5, <3>1 DEF Shape
    <2>7. CASE file = <<Fence>>
      <3>1. Len(file) = 1 /\ file[1] = Fence /\ line = Header
        BY <2>3, <2>7
      <3>2. QED
        BY <2>5, <3>1 DEF Shape
    <2>8. CASE file # <<>> /\ file # <<Fence>>
      <3>1. line = Fence \/ (line \in Row /\ line.id = Len(file) + 1)
        BY <2>3, <2>8
      <3>2. Len(file) >= 1
        BY <2>2, <2>8, EmptySeq
      <3>3. ~(Len(file) = 1 /\ file[1] = Fence)
        <4>1. SUFFICES ASSUME Len(file) = 1, file[1] = Fence PROVE file = <<Fence>>
          BY <2>8
        <4>2. <<Fence>> \in Seq(Line) /\ Len(<<Fence>>) = 1 /\ <<Fence>>[1] = Fence
          BY DEF Line
        <4>3. QED
          BY <2>2, <4>1, <4>2, SeqEqual
      <3>4. \A n \in 1..Len(file') :
              \/ file'[n] = Fence
              \/ file'[n] = Header /\ (n = 1 \/ (n = 2 /\ file'[1] = Fence))
              \/ file'[n] \in Row /\ file'[n].id = n
        BY <2>2, <2>5, <3>1, <3>2 DEF Shape
      <3>5. /\ Len(file') >= 1 => file'[1] \in {Header, Fence}
            /\ Len(file') >= 2 /\ file'[1] = Fence => file'[2] = Header
        <4>1. file'[1] = file[1] /\ file[1] \in {Header, Fence}
          BY <2>2, <2>5, <3>2 DEF Shape
        <4>2. ASSUME file[1] = Fence PROVE file'[2] = Header
          <5>1. Len(file) >= 2
            <6>1. Len(file) # 1
              BY <3>3, <4>2
            <6>2. QED
              BY <2>2, <3>2, <6>1
          <5>2. file[2] = Header /\ file'[2] = file[2]
            BY <2>2, <2>5, <4>2, <5>1 DEF Shape
          <5>3. QED
            BY <5>2
        <4>3. QED
          BY <4>1, <4>2
      <3>6. QED
        BY <2>5, <3>4, <3>5 DEF Shape
    <2>9. QED
      BY <2>6, <2>7, <2>8
  <1>2. CASE remove_file
    BY <1>2, EmptySeq DEF remove_file, Shape
  <1>3. CASE UNCHANGED sample
    BY <1>3 DEF sample, Shape
  <1>4. QED
    BY <1>1, <1>2, <1>3 DEF DemoNext

(* The reader gives the lines after the header, if none of them is a fence *)
LEMMA Reads ==
  ASSUME NEW lines \in Seq(Line), Len(lines) > 0, lines[1] = Header,
         \A n \in 2..Len(lines) : lines[n] # Fence
  PROVE  /\ DOMAIN DictReader(lines) = 1..Len(lines) - 1
         /\ \A n \in 1..Len(lines) - 1 : DictReader(lines)[n] = lines[n + 1]
  <1>1. lines # <<>> /\ Len(lines) \in Nat
    BY EmptySeq, LenProperties
  <1>2. \A n \in 1..Len(lines) - 1 : lines[n + 1] # Fence
    BY <1>1
  <1>3. DictReader(lines) = [n \in 1..Len(lines) - 1 |->
          IF lines[1] # Header THEN Foreign
          ELSE IF lines[n + 1] = Fence THEN [Foreign EXCEPT !.spike = None]
          ELSE lines[n + 1]]
    BY <1>1 DEF DictReader
  <1>4. QED
    BY <1>2, <1>3

(* What is listed is what stands between the header in line h and line e,  *)
(* all of it rows, and there are no rows elsewhere.                        *)
LEMMA Listing ==
  ASSUME Shape, Header \in ToSet(file), Fences(file) \in {{}, {1}, {1, Len(file)}}
  PROVE  \E h, e \in 1..Len(file) :
           /\ DOMAIN load_csv = 1..e - h
           /\ \A n \in 1..e - h : load_csv[n] = file[n + h]
           /\ \A n \in h + 1..e : file[n] \in Row /\ file[n].id = n
           /\ \A n \in 1..Len(file) : n \notin h + 1..e => file[n].id = 0
  <1> DEFINE N == Len(file)
  <1>1. /\ file \in Seq(Line) /\ N \in Nat /\ DOMAIN file = 1..N
        /\ \A n \in 1..N : file[n] \in Line
    BY LenProperties, ElementOfSeq DEF Shape
  <1>2. /\ N >= 2 /\ file[1] = Fence => file[2] = Header
        /\ \A n \in 1..N : \/ file[n] = Fence
                           \/ file[n] = Header /\ (n = 1 \/ (n = 2 /\ file[1] = Fence))
                           \/ file[n] \in Row /\ file[n].id = n
        /\ N >= 1 => file[1] \in {Header, Fence}
    BY DEF Shape
  <1>3. Fences(file) \in {{}, {1}, {1, N}}
    OBVIOUS
  <1>4. SUFFICES \E h, e \in 1..N :
                   /\ DOMAIN load_csv = 1..e - h
                   /\ \A n \in 1..e - h : load_csv[n] = file[n + h]
                   /\ \A n \in h + 1..e : file[n] \in Row /\ file[n].id = n
                   /\ \A n \in 1..N : n \notin h + 1..e => file[n].id = 0
    OBVIOUS
  <1> HIDE DEF N
  <1>5. PICK k \in 1..N : file[k] = Header
    BY <1>1 DEF ToSet
  <1>6. N >= 1 /\ file # <<>> /\ file[1] \in {Header, Fence}
    BY <1>1, <1>5, EmptySeq DEF Shape
  <1>7. \A n \in 1..N : file[n] = Fence <=> n \in Fences(file)
    BY <1>1 DEF Fences
  <1>8. CASE file[1] = Header
    <2>1. Fences(file) = {}
      <3>1. 1 \notin Fences(file)
        BY <1>1, <1>6, <1>7, <1>8, Kinds
      <3>2. QED
        BY <3>1
    <2>2. load_csv = DictReader(file)
      BY <1>8, Kinds DEF load_csv, read
    <2>3. \A n \in 2..N : file[n] # Fence
      BY <1>1, <1>7, <2>1
    <2>4. /\ DOMAIN load_csv = 1..N - 1
          /\ \A n \in 1..N - 1 : load_csv[n] = file[n + 1]
      BY <1>1, <1>6, <1>8, <2>2, <2>3, Reads
    <2>5. \A n \in 1 + 1..N : file[n] \in Row /\ file[n].id = n
      BY <1>1, <1>2, <1>8, <2>3, Kinds
    <2>6. \A n \in 1..N : n \notin 1 + 1..N => file[n].id = 0
      <3>1. \A n \in 1..N : n \notin 1 + 1..N => n = 1
        BY <1>1
      <3>2. QED
        BY <1>8, <3>1, Kinds
    <2>7. 1 \in 1..N /\ N \in 1..N
      BY <1>1, <1>6
    <2>8. QED
      BY <2>4, <2>5, <2>6, <2>7
  <1>9. CASE file[1] = Fence
    <2>1. N >= 2 /\ file[2] = Header
      <3>1. k # 1
        BY <1>5, <1>9, Kinds
      <3>2. N >= 2
        BY <1>1, <1>5, <3>1
      <3>3. QED
        BY <1>2, <1>9, <3>2
    <2>2. PICK e \in Nat :
            /\ load_csv = DictReader(SubSeq(file, 2, e))
            /\ \/ e = N /\ Fences(file) = {1}
               \/ e = N - 1 /\ Fences(file) = {1, N} /\ file[N] = Fence
      <3>1. 1 \in Fences(file)
        BY <1>1, <1>6, <1>7, <1>9
      <3>2. CASE Fences(file) = {1}
        <4>1. load_csv = DictReader(SubSeq(file, 2, N))
          BY <1>6, <1>9, <3>2 DEF load_csv, N
        <4>2. QED
          BY <1>1, <3>2, <4>1
      <3>3. CASE Fences(file) # {1}
        <4>1. Fences(file) = {1, N}
          BY <1>3, <3>1, <3>3
        <4>2. N \in Fences(file) /\ N \in 1..N
          BY <1>1, <1>6, <4>1
        <4>3. file[N] = Fence
          BY <1>7, <4>2
        <4>4. Max({1, N}) = N
          BY <1>1, <2>1 DEF Max
        <4>5. load_csv = DictReader(SubSeq(file, 2, N - 1))
          BY <1>6, <1>9, <3>3, <4>1, <4>4 DEF load_csv
        <4>6. N - 1 \in Nat
          BY <1>1, <2>1
        <4>7. QED
          BY <4>1, <4>3, <4>5, <4>6
      <3>4. QED
        BY <3>2, <3>3
    <2> DEFINE s == SubSeq(file, 2, e)
    <2>3. e \in Nat /\ e >= 2 /\ e <= N
      <3>1. N = 2 => file[N] # Fence
        BY <2>1, Kinds
      <3>2. e = N \/ (e = N - 1 /\ N # 2)
        BY <2>2, <3>1
      <3>3. N \in Nat /\ N >= 2
        BY <1>1, <2>1
      <3> HIDE DEF N
      <3>4. QED
        BY <3>2, <3>3
    <2>4. \A n \in 2..e : file[n] # Fence
      <3>1. ASSUME NEW n \in 2..e, file[n] = Fence PROVE FALSE
        <4>1. n \in 1..N /\ n # 1 /\ (n = N => e = N)
          BY <1>1, <2>3
        <4>2. n \in Fences(file)
          BY <1>7, <3>1, <4>1
        <4>3. Fences(file) = {1, N} /\ n = N /\ e = N - 1
          BY <2>2, <4>1, <4>2
        <4>4. QED
          BY <1>1, <4>1, <4>3
      <3>2. QED
        BY <3>1
    <2>5. /\ s \in Seq(Line) /\ Len(s) = e - 1
          /\ \A n \in 1..e - 1 : s[n] = file[n + 1]
      <3>1. 2 \in Int /\ e \in Int /\ \A i \in 2..e : file[i] \in Line
        BY <1>1, <2>3
      <3>2. /\ s \in Seq(Line)
            /\ Len(s) = IF 2 <= e THEN e - 2 + 1 ELSE 0
            /\ \A n \in 1..e - 2 + 1 : s[n] = file[2 + n - 1]
        BY <3>1, SubSeqProperties
      <3> HIDE DEF s
      <3>3. \A n \in 1..e - 1 : n \in 1..e - 2 + 1 /\ 2 + n - 1 = n + 1
        BY <2>3
      <3>4. QED
        BY <2>3, <3>2, <3>3
    <2> HIDE DEF s
    <2>6. Len(s) > 0 /\ s[1] = Header /\ \A n \in 2..Len(s) : s[n] # Fence
      BY <2>1, <2>4, <2>5, <2>3
    <2>7. /\ DOMAIN load_csv = 1..e - 2
          /\ \A n \in 1..e - 2 : load_csv[n] = file[n + 2]
      <3>1. /\ DOMAIN load_csv = 1..Len(s) - 1
            /\ \A n \in 1..Len(s) - 1 : load_csv[n] = s[n + 1]
        BY <2>2, <2>5, <2>6, Reads DEF s
      <3>2. Len(s) - 1 = e - 2
        BY <2>5, <2>3
      <3>3. \A n \in 1..e - 2 : n + 1 \in 1..e - 1 /\ (n + 1) + 1 = n + 2
        BY <2>3
      <3>4. QED
        BY <2>5, <3>1, <3>2, <3>3
    <2>8. \A n \in 2 + 1..e : file[n] \in Row /\ file[n].id = n
      <3>1. ASSUME NEW n \in 2 + 1..e
            PROVE  n \in 1..N /\ n # 1 /\ n # 2 /\ file[n] # Fence
        BY <1>1, <2>4, <2>3
      <3>2. QED
        BY <1>2, <3>1
    <2>9. \A n \in 1..N : n \notin 2 + 1..e => file[n].id = 0
      <3>1. ASSUME NEW n \in 1..N, n \notin 2 + 1..e
            PROVE  n = 1 \/ n = 2 \/ (n = N /\ file[N] = Fence)
        <4>1. n = 1 \/ n = 2 \/ n > e
          BY <1>1, <2>3, <3>1
        <4>2. n > e => e = N - 1 /\ n = N
          BY <1>1, <2>2, <2>3
        <4>3. e = N - 1 => file[N] = Fence
          BY <1>1, <2>2
        <4>4. QED
          BY <4>1, <4>2, <4>3
      <3>2. QED
        BY <1>9, <2>1, <3>1, Kinds
    <2>10. 2 \in 1..N /\ e \in 1..N
      BY <1>1, <2>3
    <2>11. QED
      BY <2>7, <2>8, <2>9, <2>10
  <1>10. QED
    BY <1>6, <1>8, <1>9

(***************************************************************************)
(* A fence around the sample, with or without its closing line, changes    *)
(* nothing of what is listed, for files of any length.                     *)
(***************************************************************************)
THEOREM FenceTransparent == DemoSpec => []FenceIsTransparent
  <1>1. Shape => FenceIsTransparent
    <2> SUFFICES ASSUME Shape, Header \in ToSet(file),
                        Fences(file) \in {{}, {1}, {1, Len(file)}}
                 PROVE  /\ ToSet(load_csv) = {l \in ToSet(file) : l.id > 0}
                        /\ \A j, k \in DOMAIN load_csv :
                             j < k => load_csv[j].id < load_csv[k].id
      BY DEF FenceIsTransparent
    <2>1. PICK h \in 1..Len(file), e \in 1..Len(file) :
            /\ DOMAIN load_csv = 1..e - h
            /\ \A n \in 1..e - h : load_csv[n] = file[n + h]
            /\ \A n \in h + 1..e : file[n] \in Row /\ file[n].id = n
            /\ \A n \in 1..Len(file) : n \notin h + 1..e => file[n].id = 0
      BY Listing
    <2>2. DOMAIN file = 1..Len(file) /\ Len(file) \in Nat
      BY LenProperties DEF Shape
    <2>3. \A n \in 1..e - h : n + h \in h + 1..e /\ n + h \in 1..Len(file)
      BY <2>2
    <2>4. ToSet(load_csv) \subseteq {l \in ToSet(file) : l.id > 0}
      <3>1. ASSUME NEW n \in 1..e - h
            PROVE  load_csv[n] \in ToSet(file) /\ load_csv[n].id > 0
        BY <2>1, <2>2, <2>3, Kinds DEF ToSet
      <3>2. QED
        BY <2>1, <3>1 DEF ToSet
    <2>5. {l \in ToSet(file) : l.id > 0} \subseteq ToSet(load_csv)
      <3>1. ASSUME NEW n \in 1..Len(file), file[n].id > 0
            PROVE  file[n] \in ToSet(load_csv)
        <4>1. n \in h + 1..e
          BY <2>1, <3>1
        <4>2. n - h \in 1..e - h /\ (n - h) + h = n
          BY <2>2, <4>1
        <4>3. QED
          BY <2>1, <4>2 DEF ToSet
      <3>2. QED
        BY <2>2, <3>1 DEF ToSet
    <2>6. ASSUME NEW j \in DOMAIN load_csv, NEW k \in DOMAIN load_csv, j < k
          PROVE  load_csv[j].id < load_csv[k].id
      <3>1. load_csv[j].id = j + h /\ load_csv[k].id = k + h
        BY <2>1, <2>3
      <3>2. QED
        BY <2>1, <2>2, <2>6, <3>1
    <2>7. QED
      BY <2>4, <2>5, <2>6
  <1>2. QED
    BY <1>1, InitShape, NextShape, PTL DEF DemoSpec

-----------------------------------------------------------------------------
(* A set of naturals that is not empty has a least member. *)
LEMMA LeastMember ==
  ASSUME NEW T, T \subseteq Nat, T # {}
  PROVE  \E x \in T : \A y \in T : x <= y
  <1> DEFINE R == OpToRel(<, Nat)
  <1>1. IsWellFoundedOn(R, Nat)
    BY NatLessThanWellFounded
  <1>2. \A x, y \in Nat : y < x => <<y, x>> \in R
    BY DEF OpToRel
  <1> HIDE DEF R
  <1>3. PICK x \in T : \A y \in T : ~(<<y, x>> \in R)
    BY <1>1, WFMin
  <1>4. ASSUME NEW y \in T PROVE x <= y
    <2>1. x \in Nat /\ y \in Nat
      OBVIOUS
    <2>2. ~(y < x)
      BY <1>2, <1>3, <2>1
    <2>3. QED
      BY <2>1, <2>2
  <1>5. QED
    BY <1>4

(***************************************************************************)
(* Induction up to N over a set of naturals, from LeastMember: the first   *)
(* number that is missing would be 0 or follow one that is not.            *)
(***************************************************************************)
LEMMA UpTo ==
  ASSUME NEW N \in Nat, NEW T, 0 \in T,
         \A n \in 1..N : n - 1 \in T => n \in T
  PROVE  0..N \subseteq T
  <1> DEFINE M == {n \in 0..N : n \notin T}
  <1>1. SUFFICES ASSUME M # {} PROVE FALSE
    OBVIOUS
  <1>2. M \subseteq Nat
    OBVIOUS
  <1>3. PICK x \in M : \A y \in M : x <= y
    BY <1>1, <1>2, LeastMember
  <1>4. x \in 0..N /\ x \notin T /\ x # 0
    OBVIOUS
  <1>5. x \in 1..N /\ x - 1 \in 0..N /\ ~(x <= x - 1)
    BY <1>4
  <1>6. x - 1 \in T
    BY <1>3, <1>5
  <1>7. QED
    BY <1>4, <1>5, <1>6

(* A running sum exists: the function that Total() defines by recursion. *)
LEMMA SumExists ==
  ASSUME NEW N \in Nat, NEW g \in [1..N -> Nat]
  PROVE  \E f \in [0..N -> Nat] :
           \A n \in 0..N : f[n] = IF n = 0 THEN 0 ELSE f[n - 1] + g[n]
  <1> DEFINE Sum(f, k) == \A n \in 0..k : f[n] = IF n = 0 THEN 0 ELSE f[n - 1] + g[n]
             T == {k \in 0..N : \E f \in [0..k -> Nat] : Sum(f, k)}
  <1>1. 0 \in T
    <2> DEFINE f == [n \in 0..0 |-> 0]
    <2>1. f \in [0..0 -> Nat] /\ Sum(f, 0)
      OBVIOUS
    <2>2. \E e \in [0..0 -> Nat] : Sum(e, 0)
      BY <2>1
    <2> HIDE DEF Sum
    <2>3. QED
      BY <2>2
  <1>2. ASSUME NEW k \in 1..N, k - 1 \in T PROVE k \in T
    <2>1. PICK h \in [0..(k - 1) -> Nat] : Sum(h, k - 1)
      BY <1>2
    <2> DEFINE f == [n \in 0..k |-> IF n = k THEN h[k - 1] + g[k] ELSE h[n]]
    <2>2. k - 1 \in 0..(k - 1) /\ \A n \in 0..k : n # k => n \in 0..(k - 1)
      OBVIOUS
    <2>3. f \in [0..k -> Nat]
      <3>1. h[k - 1] \in Nat /\ g[k] \in Nat
        BY <2>2
      <3>2. \A n \in 0..(k - 1) : h[n] \in Nat
        OBVIOUS
      <3>3. h[k - 1] + g[k] \in Nat
        BY <3>1
      <3>4. QED
        BY <2>2, <3>2, <3>3
    <2>4. Sum(f, k)
      <3>1. ASSUME NEW n \in 0..k
            PROVE  f[n] = IF n = 0 THEN 0 ELSE f[n - 1] + g[n]
        <4>1. CASE n = k
          <5>1. n # 0 /\ n - 1 \in 0..k /\ n - 1 # k
            BY <4>1
          <5>2. f[n - 1] = h[n - 1] /\ f[n] = h[n - 1] + g[n]
            BY <4>1, <5>1
          <5>3. QED
            BY <5>1, <5>2
        <4>2. CASE n # k
          <5>1. n \in 0..(k - 1)
            BY <2>2, <4>2
          <5>2. n # 0 => n - 1 \in 0..k /\ n - 1 # k
            BY <4>2
          <5>3. f[n] = h[n] /\ (n # 0 => f[n - 1] = h[n - 1])
            BY <4>2, <5>2
          <5>4. QED
            BY <2>1, <5>1, <5>3
        <4>3. QED
          BY <4>1, <4>2
      <3>2. QED
        BY <3>1
    <2> HIDE DEF f, Sum
    <2>5. \E e \in [0..k -> Nat] : Sum(e, k)
      BY <2>3, <2>4
    <2>6. k \in 0..N
      OBVIOUS
    <2>7. QED
      BY <2>5, <2>6
  <1>3. 0..N \subseteq T
    <2> HIDE DEF T
    <2>1. QED
      BY <1>1, <1>2, UpTo
  <1>4. N \in T
    <2> HIDE DEF T
    <2>1. N \in 0..N
      OBVIOUS
    <2>2. QED
      BY <1>3, <2>1
  <1>5. QED
    BY <1>4

(* Rows as the programs read them: numbers where they compute with them. *)
Rows(rs) == /\ rs \in Seq(Line \union {Foreign, [Foreign EXCEPT !.spike = None]})
            /\ \A n \in 1..Len(rs) : int(rs[n].mutuals) \in Nat /\ int(rs[n].age) \in Nat

(* What Total() computes satisfies the equation it is defined by. *)
LEMMA TotalIsSum ==
  ASSUME NEW rs, Rows(rs)
  PROVE  \E f \in [0..Len(rs) -> Nat] :
           /\ \A n \in 0..Len(rs) :
                f[n] = IF n = 0 THEN 0 ELSE f[n - 1] + int(rs[n].mutuals)
           /\ Total(rs) = f[Len(rs)]
  <1> DEFINE N == Len(rs)
             g == [n \in 1..N |-> int(rs[n].mutuals)]
             Eq(f) == f = [n \in 0..N |-> IF n = 0 THEN 0
                                          ELSE f[n - 1] + int(rs[n].mutuals)]
             sum == CHOOSE f : Eq(f)
  <1>1. N \in Nat /\ g \in [1..N -> Nat]
    BY LenProperties DEF Rows
  <1>2. PICK f \in [0..N -> Nat] :
          \A n \in 0..N : f[n] = IF n = 0 THEN 0 ELSE f[n - 1] + g[n]
    <2> HIDE DEF N, g
    <2>1. QED
      BY <1>1, SumExists
  <1>3. \A n \in 0..N : f[n] = IF n = 0 THEN 0 ELSE f[n - 1] + int(rs[n].mutuals)
    <2>1. \A n \in 0..N : n # 0 => n \in 1..N
      BY <1>1
    <2>2. QED
      BY <1>2, <2>1
  <1>4. Eq(f)
    BY <1>3
  <1>5. Eq(sum)
    <2> HIDE DEF Eq
    <2>1. QED
      BY <1>4
  <1> HIDE DEF N
  <1>6. DOMAIN sum = 0..N /\ \A n \in 0..N : sum[n] = IF n = 0 THEN 0 ELSE sum[n - 1] + int(rs[n].mutuals)
    <2> HIDE DEF sum
    <2>1. QED
      BY <1>5
  <1> HIDE DEF sum
  <1> DEFINE T == {n \in 0..N : sum[n] \in Nat}
  <1>7. 0 \in T
    BY <1>1, <1>6
  <1>8. ASSUME NEW n \in 1..N, n - 1 \in T PROVE n \in T
    <2>1. n \in 0..N /\ n # 0 /\ sum[n - 1] \in Nat
      BY <1>1, <1>8
    <2>2. int(rs[n].mutuals) \in Nat
      BY DEF Rows, N
    <2>3. sum[n] = sum[n - 1] + int(rs[n].mutuals)
      BY <1>6, <2>1
    <2>4. QED
      BY <2>1, <2>2, <2>3
  <1>9. 0..N \subseteq T
    <2> HIDE DEF T
    <2>1. QED
      BY <1>1, <1>7, <1>8, UpTo
  <1>10. sum \in [0..N -> Nat]
    <2>1. sum = [n \in 0..N |-> sum[n]]
      BY <1>5, <1>6
    <2>2. \A n \in 0..N : sum[n] \in Nat
      BY <1>9
    <2>3. QED
      BY <2>1, <2>2
  <1>11. Total(rs) = sum[N]
    BY DEF Total, sum, N
  <1>12. QED
    BY <1>6, <1>10, <1>11 DEF N

LEMMA TimesSuccessor == \A n, x \in Nat : (n + 1) * x = n * x + x
  OBVIOUS

LEMMA TimesMonotone == \A n, x, y \in Nat : x <= y => n * x <= n * y
  OBVIOUS

(* The average of some rows lies between the numbers of two of them. *)
LEMMA AverageBetween ==
  ASSUME NEW rs, Rows(rs), Len(rs) > 0
  PROVE  \E j, k \in 1..Len(rs) : /\ Len(rs) * int(rs[j].mutuals) <= Total(rs)
                                 /\ Total(rs) <= Len(rs) * int(rs[k].mutuals)
  <1> DEFINE N == Len(rs)
             x(n) == int(rs[n].mutuals)
  <1>1. N \in Nat /\ N > 0 /\ \A n \in 1..N : x(n) \in Nat
    BY LenProperties DEF Rows
  <1>2. PICK f \in [0..N -> Nat] :
          /\ \A n \in 0..N : f[n] = IF n = 0 THEN 0 ELSE f[n - 1] + x(n)
          /\ Total(rs) = f[N]
    BY TotalIsSum
  <1> DEFINE Low(n) == \E j \in 1..n : n * x(j) <= f[n]
             High(n) == \E k \in 1..n : f[n] <= n * x(k)
             T == {n \in 0..N : n # 0 => Low(n) /\ High(n)}
  <1> HIDE DEF N, x
  <1>3. 0 \in T
    BY <1>1
  <1>4. ASSUME NEW n \in 1..N, n - 1 \in T PROVE n \in T
    <2>1. n \in 0..N /\ n # 0 /\ n \in 1..n /\ n - 1 \in Nat /\ n \in Nat
      BY <1>1
    <2>2. /\ f[n] = f[n - 1] + x(n)
          /\ f[n - 1] \in Nat /\ x(n) \in Nat /\ f[n] \in Nat
      BY <1>1, <1>2, <2>1
    <2>3. PICK m \in Nat : m = n - 1 /\ n = m + 1
      BY <2>1
    <2>4. CASE m = 0
      <3>1. f[m] = 0 /\ n = 1
        BY <1>1, <1>2, <2>3, <2>4
      <3>2. f[n] = 1 * x(n)
        BY <2>2, <2>3, <3>1
      <3>3. Low(n) /\ High(n)
        BY <2>1, <2>2, <3>1, <3>2
      <3>4. QED
        BY <2>1, <3>3
    <2>5. CASE m # 0
      <3>1. Low(m) /\ High(m)
        BY <1>4, <2>3, <2>5
      <3>2. \A j \in 1..m : j \in 1..n /\ j \in 1..N
        BY <1>1, <2>3
      <3>3. Low(n)
        <4>1. PICK j \in 1..m : m * x(j) <= f[m]
          BY <3>1
        <4>2. x(j) \in Nat
          BY <1>1, <3>2
        <4>3. CASE x(j) <= x(n)
          <5>1. n * x(j) = m * x(j) + x(j)
            BY <2>3, <4>2, TimesSuccessor
          <5>2. m * x(j) \in Nat
            BY <4>2
          <5>3. n * x(j) <= f[n]
            BY <2>2, <2>3, <4>1, <4>2, <4>3, <5>1, <5>2
          <5>4. QED
            BY <3>2, <5>3
        <4>4. CASE ~(x(j) <= x(n))
          <5>1. /\ n * x(n) = m * x(n) + x(n)
                /\ m * x(n) <= m * x(j)
            <6>1. x(n) <= x(j)
              BY <2>2, <4>2, <4>4
            <6>2. m * x(n) <= m * x(j)
              BY <2>2, <2>3, <4>2, <6>1, TimesMonotone
            <6>3. n * x(n) = m * x(n) + x(n)
              BY <2>2, <2>3, TimesSuccessor
            <6>4. QED
              BY <6>2, <6>3
          <5>2. m * x(n) \in Nat /\ m * x(j) \in Nat
            BY <2>2, <4>2
          <5>3. n * x(n) <= f[n]
            BY <2>2, <2>3, <4>1, <5>1, <5>2
          <5>4. QED
            BY <2>1, <5>3
        <4>5. QED
          BY <4>3, <4>4
      <3>4. High(n)
        <4>1. PICK j \in 1..m : f[m] <= m * x(j)
          BY <3>1
        <4>2. x(j) \in Nat
          BY <1>1, <3>2
        <4>3. CASE x(n) <= x(j)
          <5>1. n * x(j) = m * x(j) + x(j)
            BY <2>3, <4>2, TimesSuccessor
          <5>2. m * x(j) \in Nat
            BY <4>2
          <5>3. f[n] <= n * x(j)
            BY <2>2, <2>3, <4>1, <4>2, <4>3, <5>1, <5>2
          <5>4. QED
            BY <3>2, <5>3
        <4>4. CASE ~(x(n) <= x(j))
          <5>1. n * x(n) = m * x(n) + x(n) /\ m * x(j) <= m * x(n)
            BY <2>2, <2>3, <4>2, <4>4, TimesSuccessor, TimesMonotone
          <5>2. m * x(n) \in Nat /\ m * x(j) \in Nat
            BY <2>2, <4>2
          <5>3. f[n] <= n * x(n)
            BY <2>2, <2>3, <4>1, <5>1, <5>2
          <5>4. QED
            BY <2>1, <5>3
        <4>5. QED
          BY <4>3, <4>4
      <3>5. QED
        BY <2>1, <3>3, <3>4
    <2>6. QED
      BY <2>4, <2>5
  <1>5. N \in T
    <2> HIDE DEF T
    <2>1. N \in 0..N
      BY <1>1
    <2>2. QED
      BY <1>1, <1>3, <1>4, <2>1, UpTo
  <1>6. Low(N) /\ High(N)
    BY <1>1, <1>5
  <1>7. QED
    BY <1>2, <1>6 DEF N, x

(* What the programs read are rows. *)
LEMMA ReadIsRows ==
  ASSUME file \in Seq(Line)
  PROVE  Rows(read) /\ DOMAIN read = 1..Len(read) /\ Len(read) \in Nat
  <1> DEFINE S == Line \union {Foreign, [Foreign EXCEPT !.spike = None]}
  <1>1. ASSUME NEW r \in S PROVE int(r.mutuals) \in Nat /\ int(r.age) \in Nat
    <2>1. CASE r \in Row
      <3>1. /\ r.mutuals \in Counts \union {NotANumber}
            /\ r.age \in Counts \union {NotANumber}
        BY <2>1 DEF Row
      <3>2. QED
        BY <3>1, DemoAssumption DEF int
    <2>2. CASE r \in {Header, Fence, Foreign, [Foreign EXCEPT !.spike = None]}
      <3>1. /\ Header.mutuals = 0 /\ Header.age = 0
            /\ Fence.mutuals = 0 /\ Fence.age = 0
            /\ Foreign.mutuals = 0 /\ Foreign.age = 0
        BY DEF Header, Fence, Foreign
      <3> DEFINE f == [Foreign EXCEPT !.spike = None]
      <3>2. f.mutuals = 0 /\ f.age = 0
        BY DEF Foreign
      <3>3. r.mutuals = 0 /\ r.age = 0
        <4> HIDE DEF f
        <4>1. r \in {Header, Fence, Foreign, f}
          BY <2>2 DEF f
        <4>2. QED
          BY <3>1, <3>2, <4>1
      <3>4. QED
        BY <3>3 DEF int, NotANumber
    <2>3. QED
      BY <1>1, <2>1, <2>2 DEF Line
  <1>2. read \in Seq(S)
    <2>1. CASE file = <<>>
      BY <2>1 DEF read, DictReader
    <2>2. CASE file # <<>>
      <3>1. PICK N \in Nat : N = Len(file)
        BY LenProperties
      <3>2. N > 0 /\ \A n \in 1..N : file[n] \in Line
        BY <2>2, <3>1, EmptySeq, ElementOfSeq
      <3>3. read = [n \in 1..N - 1 |->
              IF file[1] # Header THEN Foreign
              ELSE IF file[n + 1] = Fence THEN [Foreign EXCEPT !.spike = None]
              ELSE file[n + 1]]
        BY <2>2, <3>1 DEF read, DictReader
      <3>4. \A n \in 1..N - 1 : n + 1 \in 1..N
        BY <3>1
      <3>5. read \in [1..N - 1 -> S]
        BY <3>2, <3>3, <3>4
      <3>6. N - 1 \in Nat
        BY <3>1, <3>2
      <3> HIDE DEF S
      <3>7. QED
        BY <3>5, <3>6, SeqDef
    <2>3. QED
      BY <2>1, <2>2
  <1>3. DOMAIN read = 1..Len(read) /\ Len(read) \in Nat
    <2> HIDE DEF S
    <2>1. QED
      BY <1>2, LenProperties
  <1>4. \A n \in 1..Len(read) : read[n] \in S
    <2> HIDE DEF S
    <2>1. QED
      BY <1>2, ElementOfSeq
  <1>5. QED
    BY <1>1, <1>2, <1>3, <1>4 DEF Rows

LEMMA ScoreIsInt ==
  ASSUME NEW r, int(r.mutuals) \in Nat, int(r.age) \in Nat
  PROVE  score_candidate(r) \in Int
  <1>1. Max0(30 - int(r.age)) \in Int
    BY DEF Max0
  <1> DEFINE b == IF r.spike \in {"true", " True"} THEN 20 ELSE 0
  <1>2. b \in Int
    OBVIOUS
  <1>3. score_candidate(r) = b + 5 * int(r.mutuals) + Max0(30 - int(r.age))
    BY DEF score_candidate
  <1> HIDE DEF b
  <1>4. QED
    BY <1>1, <1>2, <1>3

(* A row as good as another in every column scores as much. *)
LEMMA BetterScoresMore ==
  ASSUME NEW r, NEW s, AsGood(r, s),
         int(r.mutuals) \in Nat, int(r.age) \in Nat,
         int(s.mutuals) \in Nat, int(s.age) \in Nat
  PROVE  score_candidate(r) >= score_candidate(s)
  <1>1. /\ int(r.mutuals) >= int(s.mutuals)
        /\ int(r.age) <= int(s.age)
        /\ s.spike \in {"true", " True"} => r.spike \in {"true", " True"}
    BY DEF AsGood
  <1>2. PICK v \in Int, w \in Int : /\ v = Max0(30 - int(r.age))
                                 /\ w = Max0(30 - int(s.age))
                                 /\ v >= w
    <2>1. PICK x \in Nat, y \in Nat : x = int(r.age) /\ y = int(s.age) /\ x <= y
      BY <1>1
    <2>2. Max0(30 - x) \in Int /\ Max0(30 - y) \in Int /\ Max0(30 - x) >= Max0(30 - y)
      BY <2>1 DEF Max0
    <2>3. QED
      BY <2>1, <2>2
  <1> DEFINE b == IF r.spike \in {"true", " True"} THEN 20 ELSE 0
             c == IF s.spike \in {"true", " True"} THEN 20 ELSE 0
  <1>3. b \in Int /\ c \in Int /\ b >= c
    <2>1. CASE s.spike \in {"true", " True"}
      <3>1. b = 20 /\ c = 20
        BY <1>1, <2>1
      <3> HIDE DEF b, c
      <3>2. QED
        BY <3>1
    <2>2. CASE s.spike \notin {"true", " True"}
      <3>1. c = 0 /\ b \in {0, 20}
        BY <2>2
      <3> HIDE DEF b, c
      <3>2. QED
        BY <3>1
    <2>3. QED
      BY <2>1, <2>2
  <1>4. /\ score_candidate(r) = b + 5 * int(r.mutuals) + v
        /\ score_candidate(s) = c + 5 * int(s.mutuals) + w
    BY <1>2 DEF score_candidate
  <1> HIDE DEF b, c
  <1>5. PICK x \in Nat, y \in Nat :
          x = int(r.mutuals) /\ y = int(s.mutuals) /\ x >= y
    BY <1>1
  <1>6. b + 5 * x + v >= c + 5 * y + w
    BY <1>2, <1>3, <1>5
  <1>7. QED
    BY <1>4, <1>5, <1>6

(* The order of the ranking is a strict linear one. *)
LEMMA BeforeIsOrder ==
  ASSUME NEW N \in Nat, DOMAIN read = 1..N, Rows(read)
  PROVE  /\ \A m \in DOMAIN read : ~Before(m, m)
         /\ \A m, n \in DOMAIN read : m # n => Before(m, n) \/ Before(n, m)
         /\ \A l, m, n \in DOMAIN read : Before(l, m) /\ Before(m, n) => Before(l, n)
         /\ \A m, n \in DOMAIN read : m < n /\ AsGood(read[m], read[n]) => Before(m, n)
  <1> DEFINE sc(n) == score_candidate(read[n])
  <1>1. \A n \in DOMAIN read : n \in Int /\ sc(n) \in Int
    <2>1. ASSUME NEW n \in DOMAIN read
          PROVE  n \in Int /\ sc(n) \in Int
      <3>1. int(read[n].mutuals) \in Nat /\ int(read[n].age) \in Nat
        BY DEF Rows
      <3>2. sc(n) \in Int
        BY <3>1, ScoreIsInt
      <3>3. QED
        BY <3>2
    <2>2. QED
      BY <2>1
  <1>2. \A m, n \in DOMAIN read : AsGood(read[m], read[n]) => sc(m) >= sc(n)
    <2>1. ASSUME NEW m \in DOMAIN read, NEW n \in DOMAIN read,
                 AsGood(read[m], read[n])
          PROVE  sc(m) >= sc(n)
      <3>1. /\ int(read[m].mutuals) \in Nat /\ int(read[m].age) \in Nat
            /\ int(read[n].mutuals) \in Nat /\ int(read[n].age) \in Nat
        BY DEF Rows
      <3>2. QED
        BY <2>1, <3>1, BetterScoresMore
    <2>2. QED
      BY <2>1
  <1>3. \A m, n : Before(m, n) <=> sc(m) > sc(n) \/ (sc(m) = sc(n) /\ m < n)
    BY DEF Before
  <1> HIDE DEF sc
  <1>4. QED
    BY <1>1, <1>2, <1>3

(* The places of the ranking are 1 to the number of rows, in its order. *)
LEMMA Places ==
  ASSUME NEW N \in Nat, DOMAIN read = 1..N, Rows(read), ~Raises
  PROVE  /\ DOMAIN ranked = DOMAIN read
         /\ \A m, n \in DOMAIN read : Before(m, n) => ranked[m] < ranked[n]
         /\ {ranked[n] : n \in DOMAIN ranked} = 1..N
  <1> DEFINE D == DOMAIN read
             Ahead(n) == {m \in D : Before(m, n)}
  <1>1. /\ ranked = [n \in D |-> 1 + Cardinality(Ahead(n))]
    BY DEF ranked
  <1>2. IsFiniteSet(D) /\ Cardinality(D) = N
    BY FS_Interval, 1 \in Int, N \in Int
  <1>3. \A n \in D : /\ IsFiniteSet(Ahead(n))
                     /\ Cardinality(Ahead(n)) \in Nat
                     /\ Cardinality(Ahead(n)) < N
    <2>1. ASSUME NEW n \in D
          PROVE  /\ IsFiniteSet(Ahead(n))
                 /\ Cardinality(Ahead(n)) \in Nat
                 /\ Cardinality(Ahead(n)) < N
      <3>1. Ahead(n) \in SUBSET D /\ n \notin Ahead(n)
        BY BeforeIsOrder
      <3> HIDE DEF Ahead, D
      <3>2. /\ IsFiniteSet(Ahead(n))
            /\ Cardinality(Ahead(n)) <= Cardinality(D)
            /\ Cardinality(D) = Cardinality(Ahead(n)) => D = Ahead(n)
        BY <1>2, <3>1, FS_Subset
      <3>3. Cardinality(Ahead(n)) \in Nat
        BY <3>2, FS_CardinalityType
      <3>4. D # Ahead(n)
        BY <3>1
      <3>5. QED
        BY <1>2, <3>2, <3>3, <3>4
    <2> HIDE DEF Ahead, D
    <2>2. QED
      BY <2>1
  <1>4. \A m, n \in D : Before(m, n) => ranked[m] < ranked[n]
    <2>1. ASSUME NEW m \in D, NEW n \in D, Before(m, n)
          PROVE  Cardinality(Ahead(m)) < Cardinality(Ahead(n))
      <3>1. /\ Ahead(m) \union {m} \in SUBSET Ahead(n)
            /\ m \notin Ahead(m)
        BY <2>1, BeforeIsOrder
      <3> HIDE DEF Ahead, D
      <3>2. /\ IsFiniteSet(Ahead(m) \union {m})
            /\ Cardinality(Ahead(m) \union {m}) = Cardinality(Ahead(m)) + 1
        BY <1>3, <3>1, FS_AddElement
      <3>3. Cardinality(Ahead(m) \union {m}) <= Cardinality(Ahead(n))
        BY <1>3, <3>1, FS_Subset
      <3>4. QED
        BY <1>3, <3>2, <3>3
    <2> HIDE DEF Ahead, D
    <2>2. QED
      BY <1>1, <1>3, <2>1
  <1> HIDE DEF Ahead
  <1>5. ranked \in [D -> 1..N]
    <2>1. \A n \in D : 1 + Cardinality(Ahead(n)) \in 1..N
      BY <1>3
    <2> HIDE DEF D
    <2>2. QED
      BY <1>1, <2>1
  <1>6. ranked \in Injection(D, 1..N)
    <2>1. ASSUME NEW m \in D, NEW n \in D, ranked[m] = ranked[n]
          PROVE  m = n
      <3>1. ranked[m] \in Int /\ ranked[n] \in Int
        BY <1>5
      <3>2. ~Before(m, n) /\ ~Before(n, m)
        BY <1>4, <2>1, <3>1
      <3>3. QED
        BY <3>2, BeforeIsOrder
    <2> HIDE DEF D
    <2>2. QED
      BY <1>5, <2>1 DEF Injection, IsInjective
  <1>7. ranked \in Surjection(D, 1..N)
    <2>1. IsFiniteSet(1..N) /\ Cardinality(1..N) = Cardinality(D)
      BY <1>2
    <2> HIDE DEF D
    <2>2. QED
      BY <1>6, <2>1, FS_Injection
  <1>8. {ranked[n] : n \in D} = 1..N
    <2> HIDE DEF D
    <2>1. QED
      BY <1>5, <1>7 DEF Surjection
  <1>9. QED
    BY <1>1, <1>4, <1>8

(* What First() takes is the beginning of the rows it is given. *)
LEMMA FirstBegins ==
  ASSUME NEW k \in Nat, NEW rows \in SUBSET DOMAIN read,
         NEW N \in Nat, DOMAIN read = 1..N
  PROVE  Begins(First(k, rows), rows)
  <1> DEFINE UpToRow(n) == {m \in rows : m <= n}
  <1>1. ASSUME NEW m \in rows, NEW n \in First(k, rows), m <= n
        PROVE  m \in First(k, rows)
    <2>1. n \in rows /\ Cardinality(UpToRow(n)) <= k
      BY <1>1 DEF First
    <2>2. UpToRow(m) \in SUBSET UpToRow(n)
      BY <1>1, <2>1
    <2>3. IsFiniteSet(UpToRow(n))
      <3>1. IsFiniteSet(1..N) /\ UpToRow(n) \in SUBSET (1..N)
        BY FS_Interval, 1 \in Int, N \in Int
      <3> HIDE DEF UpToRow
      <3>2. QED
        BY <3>1, FS_Subset
    <2> HIDE DEF UpToRow
    <2>4. Cardinality(UpToRow(m)) <= k
      <3>1. /\ IsFiniteSet(UpToRow(m))
            /\ Cardinality(UpToRow(m)) <= Cardinality(UpToRow(n))
        BY <2>2, <2>3, FS_Subset
      <3>2. Cardinality(UpToRow(m)) \in Nat /\ Cardinality(UpToRow(n)) \in Nat
        BY <2>3, <3>1, FS_CardinalityType
      <3>3. QED
        BY <2>1, <3>1, <3>2
    <2>5. QED
      BY <2>4 DEF First, UpToRow
  <1>2. QED
    BY <1>1 DEF Begins, First

(***************************************************************************)
(* The reports of the demo scripts fit the rows, for files of any length   *)
(* and any numbers in them.                                                *)
(***************************************************************************)
THEOREM ReportsFit == DemoSpec => []ReportsFitRows
  <1>1. file \in Seq(Line) => ReportsFitRows
    <2> SUFFICES ASSUME file \in Seq(Line) PROVE ReportsFitRows
      OBVIOUS
    <2>1. PICK N \in Nat : N = Len(read) /\ DOMAIN read = 1..N /\ Rows(read)
      BY ReadIsRows
    <2>2. summary.total = N /\ summary.mutuals = Total(read)
      BY <2>1 DEF summary
    <2>3. summary.spikes = Cardinality(spikes) /\ summary.top_spikes = First(5, spikes)
      BY DEF summary
    <2>4. Averaged(summary.total, summary.mutuals)
      <3>1. N > 0 => \E j, k \in 1..N : /\ N * int(read[j].mutuals) <= Total(read)
                                       /\ Total(read) <= N * int(read[k].mutuals)
        BY <2>1, AverageBetween
      <3>2. QED
        BY <2>1, <2>2, <3>1 DEF Averaged
    <2>5. filtered(TRUE) \in SUBSET spikes
      BY DEF filtered, spikes
    <2>6. spikes \in SUBSET DOMAIN read
      BY DEF spikes
    <2>7. Cardinality(filtered(TRUE)) <= summary.spikes
      <3>1. IsFiniteSet(1..N)
        BY FS_Interval, 1 \in Int, N \in Int
      <3>2. IsFiniteSet(spikes)
        BY <2>1, <2>6, <3>1, FS_Subset
      <3>3. QED
        BY <2>3, <2>5, <3>2, FS_Subset
    <2>8. MinMutuals = 0 => Begins(summary.top_spikes, filtered(TRUE))
      <3>1. ASSUME MinMutuals = 0 PROVE filtered(TRUE) = spikes
        <4>1. \A n \in DOMAIN read : int(read[n].mutuals) \in Nat
          BY <2>1 DEF Rows
        <4>2. \A n \in DOMAIN read : int(read[n].mutuals) >= MinMutuals
          BY <3>1, <4>1
        <4>3. QED
          BY <4>2 DEF filtered, spikes
      <3>2. Begins(First(5, spikes), spikes)
        BY <2>1, <2>6, FirstBegins
      <3>3. QED
        BY <2>3, <3>1, <3>2
    <2>9. ~Raises => /\ DOMAIN ranked = DOMAIN read
                     /\ \A m, n \in DOMAIN read : Before(m, n) => ranked[m] < ranked[n]
                     /\ {ranked[n] : n \in DOMAIN ranked} = 1..N
      BY <2>1, Places
    <2>10. example_code = 0 =>
             {ranked[n] : n \in DOMAIN ranked} = 1..summary.total
      <3>1. example_code = 0 => ~Raises
        BY DEF example_code
      <3>2. QED
        BY <2>2, <2>9, <3>1
    <2>11. \A j, k \in DOMAIN ranked :
             j < k /\ AsGood(read[j], read[k]) => ranked[j] < ranked[k]
      <3>1. CASE Raises
        <4>1. DOMAIN ranked = {}
          BY <3>1 DEF ranked
        <4>2. QED
          BY <4>1
      <3>2. CASE ~Raises
        <4>1. \A m, n \in DOMAIN read : m < n /\ AsGood(read[m], read[n]) => Before(m, n)
          BY <2>1, BeforeIsOrder
        <4>2. QED
          BY <2>9, <3>2, <4>1
      <3>3. QED
        BY <3>1, <3>2
    <2>12. QED
      BY <2>4, <2>7, <2>8, <2>10, <2>11 DEF ReportsFitRows
  <1>2. Shape => file \in Seq(Line)
    BY DEF Shape
  <1>3. QED
    BY <1>1, <1>2, InitShape, NextShape, PTL DEF DemoSpec
=============================================================================
