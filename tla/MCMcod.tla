-------------------------------- MODULE MCMcod --------------------------------
(* A small instance of Mcod for TLC: points on a line. *)
EXTENDS Mcod

\* With R = 4 these lie at distances 0, R/2, R, 3R/2 and beyond: pairs that make
\* a micro-cluster together, pairs that only see each other, and lone points.
MCArrivals == { <<2, 4>>, <<4, 0>>, <<2, 2>>, <<6>>, <<8, 2>>, <<0, 6>>, <<>> }
MCPositions == 0..8
MCDistance(a, b) == IF a < b THEN b - a ELSE a - b

\* A switch of parameters that brings the points closer.
MCRescale == [p \in 0..8 |-> p \div 2]
================================================================================
