----------------------------- MODULE MCSmartFan -----------------------------
(***************************************************************************)
(* Values for model checking.  In tenths of a degree: the temperatures are *)
(* the two edges of the hysteresis band of the default setpoint; the       *)
(* setpoints the default itself, the last value of the range, the first    *)
(* outside of it, and NaN.  50.0 moves the band above both temperatures,   *)
(* going back to 25.0 brings them to its edges again.                      *)
(***************************************************************************)
EXTENDS SmartFan

CONSTANTS c1, c2

TwoConns    == {c1, c2}
OneConn     == {c1}
TwoTemps    == {240, 250}
FewSets     == {250, 500, 501, NaN}
OneSet      == {500}
Good        == "good"
OneSecret   == {"good"}
SomeSecrets == {"good", "bad"}
Min         == 100
Max         == 500
Default     == 250
Band        == 10
=============================================================================
