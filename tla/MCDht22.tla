------------------------------- MODULE MCDht22 -------------------------------
(***************************************************************************)
(* Values for model checking Dht22.  Bytes of two bits keep every part of  *)
(* a frame: two-byte numbers, a sign bit, a checksum that wraps around.    *)
(* The measurements are nothing but zeros, nothing but ones below zero,    *)
(* and one that mixes them.                                                *)
(***************************************************************************)
EXTENDS Dht22

SomeMeasurements == {[humidity |-> 0, temperature |-> 0],
                     [humidity |-> 15, temperature |-> -7],
                     [humidity |-> 6, temperature |-> 5]}
=============================================================================
