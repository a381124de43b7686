------------------------------- MODULE MCPage -------------------------------
(***************************************************************************)
(* Values for model checking Page: two tabs, which may be of the same      *)
(* variant or of two; strings with and without an ASCII beginning; a       *)
(* second Node, for when the first one could not be freed.                 *)
(***************************************************************************)
EXTENDS Page

CONSTANTS t1, t2, s1, s2, s3, n1, n2

TwoTabs      == {t1, t2}
TwoVariants  == {"smart-fan", "remote-thermometer"}
ThreeSecrets == {s1, s2, s3}
FewStrings   == {<<1>>, <<1, 3>>, <<2, 2, 1>>}
TwoNodes     == {n1, n2}

Symmetry == Permutations(TwoTabs) \cup Permutations(ThreeSecrets) \cup Permutations(TwoNodes)
=============================================================================
