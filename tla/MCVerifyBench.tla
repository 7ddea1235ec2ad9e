--------------------------- MODULE MCVerifyBench ---------------------------
(* Every rule of the decision at its limits (Many), and a second           *)
(* invocation over files that have changed (Few).                          *)
EXTENDS VerifyBench

(* A tenth of the baseline of the repository, with a deviation that makes  *)
(* the rounding of the allowance visible, and variants: a runner with an   *)
(* entry of its own, no deviation, no median, p99_ms instead of            *)
(* last_p99_ms, other digests.                                             *)
Sample ==
  [median |-> 102500, mad |-> 503, last |-> 103600, p99 |-> 0, golden |-> "0xd"]

File(runners, defaults) == [runners |-> runners, defaults |-> defaults]

Own == [x \in {"runner"} |-> [Sample EXCEPT !.last = 98000, !.golden = "d"]]

FewBaselines == {File(<<>>, Sample), File(Own, Sample)}

ManyBaselines ==
  FewBaselines \union
  {File(<<>>, s) : s \in {NoStats,
                          [Sample EXCEPT !.mad = 0, !.golden = "d"],
                          [Sample EXCEPT !.last = 0, !.golden = ""],
                          [Sample EXCEPT !.last = 0, !.p99 = 90000, !.golden = "d"],
                          [Sample EXCEPT !.last = 0, !.median = 0],
                          [Sample EXCEPT !.median = 0]}}

(* The limits of Sample are 106506, 109009 and 111512 ticks; measurements  *)
(* from 4 to 12 ticks are what a replay of a small input takes.            *)
Measured(p99, p999, samples, valid) ==
  [p99 |-> p99, p999 |-> p999, samples |-> samples,
   p999_valid |-> samples >= 1000, p9999_valid |-> valid, digest |-> "d"]

FewLines == {NoLine} \union
            {Measured(p, 0, 10000, TRUE) : p \in {106506, 113000}}

ManyLines ==
  {NoLine, Measured(106506, 0, 999, FALSE), Measured(106506, 0, 9999, TRUE),
   Measured(106506, 0, 10000, FALSE), Measured(106506, 319518, 10000, TRUE),
   Measured(106506, 319519, 10000, TRUE), Measured(106506, 340000, 10000, TRUE)}
  \union {Measured(p, 0, 20000, TRUE) :
            p \in {0, 4, 12, 100, 98000, 106507, 109009, 109010, 111512, 111513}}

None == [g \in Gates \union {"budget"} |-> Unset]

Run(profile) == [words |-> {}, profile |-> profile, runner |-> "runner",
                 cli |-> None, env |-> None, require |-> FALSE, force |-> FALSE,
                 export |-> TRUE, tune |-> FALSE]

FewCommands ==
  {Run("standard"), [Run("standard") EXCEPT !.export = FALSE],
   [Run("standard") EXCEPT !.words = {"bench", "metrics"}],
   [Run("strict") EXCEPT !.tune = TRUE],
   [Run("lenient") EXCEPT !.env["budget"] = Garbage],
   [Run("standard") EXCEPT !.runner = "other", !.words = {"bench"}]}

(* Overrides in both places, and a variable that loses to an option.       *)
Overridden(c) ==
  {[c EXCEPT !.cli["budget"] = 106506000, !.env["budget"] = Garbage],
   [c EXCEPT !.env["budget"] = 109110000],
   [c EXCEPT !.cli["mad"] = 5000, !.env["mad"] = 0, !.env["p99"] = 1100],
   [c EXCEPT !.env["eps"] = 0],
   [c EXCEPT !.require = TRUE],
   [c EXCEPT !.force = TRUE, !.runner = "other"]}

ManyCommands == FewCommands
                \union {[Run("unknown") EXCEPT !.export = FALSE]}
                \union UNION {Overridden([Run(p) EXCEPT !.tune = TRUE]) : p \in Profiles}

(* The first invocation takes any command and any files; what the files    *)
(* are rewritten to, and the command of the second, come from Few.         *)
Focus == /\ line' # line => line' \in FewLines
         /\ base' # base => base' \in FewBaselines
         /\ cmd' # cmd => cmd' \in FewCommands

MCSpec == Init /\ [][Next /\ Focus]_vars
=============================================================================
