------------------------------- MODULE MCBoot -------------------------------
(***************************************************************************)
(* Values for model checking Boot: two keys are enough to tell a secret    *)
(* from another one, two retries to tell waiting from giving up.           *)
(***************************************************************************)
EXTENDS Boot

CONSTANTS k1, k2

TwoKeys == {k1, k2}
=============================================================================
