-------------------------------- MODULE MCAdapt --------------------------------
(* A small instance of AdaptiveScaler for TLC. *)
EXTENDS ScalerReference

\* Readings of a plain channel and of Light; a round lacks both, or one, or none.
Rd(t, plain, light, guard) ==
  [ts |-> t, x |-> [c \in {"Gas", "Light"} |-> IF c = "Gas" THEN plain ELSE light],
   missing |-> plain = Absent \/ light = Absent, guard |-> guard]

\* Two rounds before the freeze; then a dense device with an incomplete and a
\* guarded round, and one that is absent longer than the threshold.
MCInputs ==
  { << Rd(1, 3, 1, FALSE), Rd(2, 1, 0, FALSE), Rd(3, 5, 2, TRUE), Rd(5, 2, Absent, FALSE),
       Rd(6, 4, 3, FALSE), Rd(7, 0, 1, FALSE) >>,
    << Rd(1, 1, 3, TRUE), Rd(2, Absent, Absent, FALSE), Rd(7, 2, 1, FALSE) >> }

MCLog == 0 :> 0 @@ 1 :> 3 @@ 2 :> 5 @@ 3 :> 6 @@ 4 :> 7 @@ 5 :> 8

MCSamples == UNION {{s \in [1..n -> 0..3] : \A i \in 1..(n - 1) : s[i] <= s[i + 1]} : n \in 1..6}

\* Two commands in the order M7 issues them, one effective during the warm-up
\* and one of a level that is not executed.
Cm(s, e, l) == [seq |-> s, eff |-> e, level |-> l]
MCCommands == {Cm(1, 2, 0), Cm(2, 4, 0), Cm(3, 6, 0), Cm(4, 6, 1)}
================================================================================
