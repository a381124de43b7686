------------------------------- MODULE JsRefs -------------------------------
(***************************************************************************)
(* What Rust may rely on when it holds JsValues: each is a reference of    *)
(* its own.  It shows the value it was made for until it is dropped,       *)
(* whatever happens to the others.                                         *)
(***************************************************************************)
CONSTANTS
  Handles,                 \* the JsValues that Rust may hold at a time
  Values,                  \* JavaScript values that get into the table
  Constants,               \* undefined, null, true and false
  None                     \* no JsValue

VARIABLE ref               \* ref[h]: the value that h stands for

Init == ref = [h \in Handles |-> None]

\* Rust gets hold of a value that JavaScript hands over.
Receive(h, v) == ref[h] = None /\ ref' = [ref EXCEPT ![h] = v]

Clone(g, h) == ref[g] # None /\ Receive(h, ref[g])

\* The value goes back to JavaScript, or is given up.
Release(h) == ref[h] # None /\ ref' = [ref EXCEPT ![h] = None]

Next == \E h \in Handles :
          \/ \E v \in Values \cup Constants : Receive(h, v)
          \/ \E g \in Handles : Clone(g, h)
          \/ Release(h)

Spec == Init /\ [][Next]_ref

=============================================================================
