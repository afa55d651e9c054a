--------------------------------- MODULE MCM3 ---------------------------------
(* Small instances of M3AsyncTraining for TLC. *)
EXTENDS M3AsyncTraining, TLC

CONSTANTS k1, k2

\* Two rounds of a slide share one record timestamp, as M2's windows stamp them.
MCRoundTs == [k \in Keys |-> [n \in 1..NRounds |-> (n + 1) \div 2]]

\* The second training window of every device holds an outlier.
MCIsOutlier == [k \in Keys |-> [n \in 1..NRounds |-> n = 3]]

\* The devices have the same input: swapping them maps behaviours to behaviours.
Swap == Permutations({k1, k2})
================================================================================
