---------------------------- MODULE MCJsClosure ----------------------------
(***************************************************************************)
(* Values for model checking JsClosure: a mutable and a shared closure,    *)
(* two more JsValues, one event, and the constant undefined.                *)
(***************************************************************************)
EXTENDS JsClosure, TLC

CONSTANTS m, s, h1, h2, event, undefined

AllHandles  == {m, s, h1, h2}
AllValues   == {m, s, event}
OneConstant == {undefined}
FirstSlots  == [i \in 0 .. Reserved - 1 |-> undefined]
TwoClosures == {m, s}
OneMutable  == {m}

Symmetry == Permutations({h1, h2})

=============================================================================
