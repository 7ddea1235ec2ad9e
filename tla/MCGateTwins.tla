---------------------------- MODULE MCGateTwins ----------------------------
(* Every assignment of two orderings of thresholds and one misordered one  *)
(* to the four metrics, under readings on both sides of each threshold:    *)
(* gap and burst range over every level, corruption and skew over two, so  *)
(* that any two metrics can disagree in both feeds.                        *)
EXTENDS GateTwins

MCTriples == {[local |-> 1, feeder |-> 2, main |-> 3],
              [local |-> 1, feeder |-> 1, main |-> 2],
              [local |-> 3, feeder |-> 2, main |-> 2]}

MCThresholds == [Metrics -> MCTriples]

MCReadings == {r \in [Metrics -> 0..3] :
                 r["corrupt"] \in {0, 2} /\ r["skew"] \in {0, 3}}
=============================================================================
