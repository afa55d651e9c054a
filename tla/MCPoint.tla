-------------------------------- MODULE MCPoint --------------------------------
(* A small instance of PointChannel for TLC. *)
EXTENDS PointChannel

Rd(t, missing) == [ts |-> t, missing |-> missing, guard |-> FALSE]

\* A dense device with incomplete rounds, and two that are absent: one comes back
\* with an incomplete round.
MCInputs ==
  { << Rd(1, FALSE), Rd(3, FALSE), Rd(4, FALSE), Rd(5, TRUE), Rd(6, TRUE), Rd(7, FALSE),
       Rd(8, FALSE), Rd(9, FALSE) >>,
    << Rd(1, FALSE), Rd(2, FALSE), Rd(3, FALSE), Rd(10, TRUE), Rd(11, FALSE) >>,
    << Rd(1, FALSE), Rd(3, FALSE), Rd(9, FALSE) >> }

\* Effective times are multiples of the slide, as the command contract asks, and
\* more than a window after the freeze.
Cm(s, e) == [seq |-> s, eff |-> e, level |-> 0]
MCCommands == {Cm(1, 6), Cm(2, 8)}

ASSUME CommandsAreTimely == Commands = MCCommands => TimelyCommands

\* A command within a window of the freeze.
MCEarlyInputs == { << Rd(2, FALSE), Rd(3, FALSE), Rd(4, FALSE), Rd(5, FALSE), Rd(6, FALSE) >> }
MCEarlyCommands == {Cm(1, 4)}
================================================================================
