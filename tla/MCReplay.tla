------------------------------ MODULE MCReplay ------------------------------
(* The defaults of BreakerThresholds and of Detectors, and commands of     *)
(* every kind: misuse, help, an unreadable input, a nominal run and runs   *)
(* with a knob just below and at the rate that trips the feeder threshold. *)
EXTENDS Replay

MCDefault == [gap     |-> [local |-> 5, feeder |-> 50, main |-> 200],
              corrupt |-> [local |-> 1, feeder |-> 10, main |-> 50],
              skew    |-> [local |-> 5, feeder |-> 20, main |-> 100],
              burst   |-> [local |-> 2, feeder |-> 5,  main |-> 10]]

Nominal == [m \in B!Metrics |-> 0]

Command(args, readable, knobs, blocks) ==
  [args |-> args, readable |-> readable, bytes |-> 64, knobs |-> knobs,
   blocks |-> blocks]

MCCommands == {Command("bad",  TRUE,  Nominal, 1),
               Command("help", TRUE,  Nominal, 1),
               Command("run",  FALSE, Nominal, 1),
               Command("run",  TRUE,  Nominal, 1),
               Command("run",  TRUE,  [Nominal EXCEPT !["gap"] = 62], 2),
               Command("run",  TRUE,  [Nominal EXCEPT !["gap"] = 63], 2),
               Command("run",  TRUE,  [Nominal EXCEPT !["skew"] = 25], 1)}
=============================================================================
