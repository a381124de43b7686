-------------------------------- MODULE MCGui --------------------------------
(***************************************************************************)
(* Values for model checking Gui: two devices to switch between, two       *)
(* setpoints to tell apart, two loops so that one can still be waiting for *)
(* its answer when the next one runs.                                      *)
(***************************************************************************)
EXTENDS Gui, TLC

CONSTANTS t1, t2, i1, i2, k1, lo, hi

TwoTickets == {t1, t2}
OneTicket  == {t1}
TwoValues  == {lo, hi}
TwoLoops   == {i1, i2}
OneSet     == {k1}

Symmetry == Permutations(TwoTickets) \cup Permutations(TwoValues) \cup Permutations(TwoLoops)
=============================================================================
