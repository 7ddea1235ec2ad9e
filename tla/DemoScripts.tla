---------------------------- MODULE DemoScripts ----------------------------
(***************************************************************************)
(* Three small programs that read examples/qa_demo.csv while it is edited: *)
(* scripts/run_demo.py ranks the rows, scripts/run_example.py lists them,  *)
(* examples/run_demo.py summarises and filters them.  Each loads the whole *)
(* file before it prints.                                                  *)
(*                                                                         *)
(* A row is abstracted to the columns they compute with; its number stands *)
(* for the rest.  A row cut short has None in its last columns.  The file  *)
(* may be wrapped in a Markdown fence, with or without the closing one.    *)
(***************************************************************************)
EXTENDS Integers, Sequences, FiniteSets, SequencesExt, FiniteSetsExt

CONSTANTS Counts,     \* numbers found in mutuals and age_days
          MinMutuals, \* --min-mutuals
          MaxLines    \* bound: lines of the file

ASSUME DemoAssumption == /\ Counts \subseteq Nat
                         /\ MinMutuals \in Int
                         /\ MaxLines \in Nat

VARIABLES exists, file      \* the file's lines

sample == <<exists, file>>

None == "None"
NotANumber == -1
Row == [id : 1..MaxLines, spike : {"true", " True", "yes", "no", None},
        mutuals : Counts \union {NotANumber}, age : Counts \union {NotANumber}]

Header == [id |-> 0, spike |-> "header", mutuals |-> 0, age |-> 0]
Fence == [id |-> 0, spike |-> "fence", mutuals |-> 0, age |-> 0]

(* A line under a header without these columns: the defaults of get().     *)
Foreign == [id |-> 0, spike |-> "", mutuals |-> 0, age |-> 0]
-----------------------------------------------------------------------------
DemoInit == exists = TRUE /\ file = <<>>

(* The header comes first, after a fence if there is one.                  *)
Lines == CASE file = <<>>                           -> {Header, Fence}
           [] file = <<Fence>>                      -> {Header}
           [] OTHER -> {r \in Row : r.id = Len(file) + 1} \union {Fence}

add_line == /\ exists
            /\ Len(file) < MaxLines
            /\ \E line \in Lines : file' = Append(file, line)
            /\ UNCHANGED exists

remove_file == exists /\ exists' = FALSE /\ file' = <<>>

DemoNext == add_line \/ remove_file

DemoSpec == DemoInit /\ [][DemoNext]_sample
-----------------------------------------------------------------------------
int(text) == IF text = NotANumber THEN 0 ELSE text

(* csv.DictReader(): the first line names the columns; a fence among the   *)
(* rows is a row of one column, the others of which are None.              *)
DictReader(lines) ==
  IF lines = <<>> THEN <<>>
  ELSE [n \in 1..Len(lines) - 1 |->
          IF lines[1] # Header THEN Foreign
          ELSE IF lines[n + 1] = Fence THEN [Foreign EXCEPT !.spike = None]
          ELSE lines[n + 1]]

read == DictReader(file)

Fences(lines) == {n \in DOMAIN lines : lines[n] = Fence}

(* Variant: the last line is taken off whether it is a fence or not.       *)
load_csv_last == IF file # <<>> /\ file[1] = Fence
                 THEN DictReader(SubSeq(file, 2, Len(file) - 1))
                 ELSE read

(* load_csv() of run_example.py: an opening fence is skipped, and all from *)
(* the last fence on is cut off, when there is another.                    *)
load_csv == IF file # <<>> /\ file[1] = Fence
            THEN DictReader(SubSeq(file, 2, IF Fences(file) = {1} THEN Len(file)
                                            ELSE Max(Fences(file)) - 1))
            ELSE read

(* None has no lower(): an exception, before anything is printed.          *)
Raises == \E n \in DOMAIN read : read[n].spike = None

Max0(n) == IF n > 0 THEN n ELSE 0

score_candidate(r) ==
  (IF r.spike \in {"true", " True"} THEN 20 ELSE 0)
  + 5 * int(r.mutuals) + Max0(30 - int(r.age))

(* Variant: sorted, then reversed. *)
Before_reversed(m, n) ==
  LET s == score_candidate(read[m])  t == score_candidate(read[n])
  IN  s > t \/ (s = t /\ m > n)

(* scored.sort(reverse=True) keeps the order of equal scores.              *)
Before(m, n) ==
  LET s == score_candidate(read[m])  t == score_candidate(read[n])
  IN  s > t \/ (s = t /\ m < n)

(* run_demo(): the place each row is printed at.                           *)
ranked == IF Raises THEN <<>>
          ELSE [n \in DOMAIN read |->
                  1 + Cardinality({m \in DOMAIN read : Before(m, n)})]

(* How load_csv() of examples/run_demo.py reads the spike column.          *)
spike(r) == r.spike \in {"true", "yes"}

(* A part of the rows in the order of the file is a set of positions.      *)
spikes == {n \in DOMAIN read : spike(read[n])}

(* The first k of them. *)
First(k, rows) == {n \in rows : Cardinality({m \in rows : m <= n}) <= k}

Total(rs) == LET sum[n \in 0..Len(rs)] ==
                   IF n = 0 THEN 0 ELSE sum[n - 1] + int(rs[n].mutuals)
             IN  sum[Len(rs)]

(* summary(); avg_mutuals is mutuals / total, 0 without rows.              *)
summary ==
  [total |-> Len(read), spikes |-> Cardinality(spikes),
   mutuals |-> Total(read), top_spikes |-> First(5, spikes)]

(* --filter-spike and --min-mutuals, the rows main() prints with them.     *)
filtered(only_spikes) ==
  {n \in DOMAIN read : /\ only_spikes => spike(read[n])
                       /\ int(read[n].mutuals) >= MinMutuals}

(* main(): no file is exit code 2, an exception 1.                         *)
example_code == IF ~exists THEN 2 ELSE IF Raises THEN 1 ELSE 0
-----------------------------------------------------------------------------
(***************************************************************************)
(* A fence around the sample is transparent to run_example.py, with the    *)
(* closing line or without: it lists exactly the rows written between, in  *)
(* their order.                                                            *)
(***************************************************************************)
FenceIsTransparent ==
  /\ Header \in ToSet(file)
  /\ Fences(file) \in {{}, {1}, {1, Len(file)}}
  => /\ ToSet(load_csv) = {l \in ToSet(file) : l.id > 0}
     /\ \A j, k \in DOMAIN load_csv : j < k => load_csv[j].id < load_csv[k].id

(* r is as good as s in every column that counts.                          *)
AsGood(r, s) == /\ s.spike \in {"true", " True"} => r.spike \in {"true", " True"}
                /\ int(r.mutuals) >= int(s.mutuals)
                /\ int(r.age) <= int(s.age)

(* The average of some rows lies between the numbers of two of them.       *)
Averaged(total, sum) ==
  total > 0 => \E j, k \in DOMAIN read : /\ total * int(read[j].mutuals) <= sum
                                         /\ sum <= total * int(read[k].mutuals)

(* a is the beginning of b. *)
Begins(a, b) == a \subseteq b /\ \A m \in b, n \in a : m <= n => m \in a

(***************************************************************************)
(* The reports agree with the rows and with each other.  The average lies  *)
(* within the rows' numbers; the rows printed by --filter-spike are        *)
(* counted as spikes and begin with the top ones when no minimum hides     *)
(* any; when examples/run_demo.py succeeds, the ranking gives each of the  *)
(* rows it counts a place of its own; and no row ranks below a later one   *)
(* of the file that is no better in any column.                            *)
(***************************************************************************)
ReportsFitRows ==
  /\ Averaged(summary.total, summary.mutuals)
  /\ Cardinality(filtered(TRUE)) <= summary.spikes
  /\ MinMutuals = 0 => Begins(summary.top_spikes, filtered(TRUE))
  /\ example_code = 0 => {ranked[n] : n \in DOMAIN ranked} = 1..summary.total
  /\ \A j, k \in DOMAIN ranked :
       j < k /\ AsGood(read[j], read[k]) => ranked[j] < ranked[k]
=============================================================================
