------------------------- MODULE MCHeaderProtection -------------------------
(***************************************************************************)
(* Values for model checking HeaderProtection: every first byte under      *)
(* every mask of it; the bytes behind it are zeros, and every one of them  *)
(* that is masked at all shows it.                                         *)
(***************************************************************************)
EXTENDS HeaderProtection

Zeros == [k \in Bit |-> 0]
Ones  == [k \in Bit |-> 1]

AllFirst == {[first |-> f, rest |-> [k \in Slice |-> Zeros]] : f \in Byte}
AllMasks == {[k \in 0 .. 4 |-> IF k = 0 THEN m ELSE Ones] : m \in Byte}
=============================================================================
