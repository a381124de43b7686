------------------------------- MODULE JsHeap -------------------------------
(***************************************************************************)
(* The table through which wasm refers to JavaScript objects, in the glue  *)
(* that wasm-bindgen writes: an array whose unused slots form a list, each *)
(* holding the number of the next.  A number may also be an object in the  *)
(* table, so nothing tells a slot in use from a free one: that indices are *)
(* not mixed up rests on the list alone, and on Rust, which drops every    *)
(* JsValue once.                                                           *)
(***************************************************************************)
EXTENDS Naturals, Sequences

CONSTANTS
  Handles,                 \* the JsValues that Rust may hold at a time
  Values,                  \* JavaScript values that get into the table
  Constants,               \* undefined, null, true and false
  Reserved,                \* 1028: the first slots hold constants for good
  Constant,                \* Constant[i]: the constant in slot i
  None                     \* no JsValue

ASSUME HeapAssumption ==
  /\ Reserved \in Nat
  /\ Constant \in [0 .. Reserved - 1 -> Constants]
  /\ None \notin Values \cup Constants \cup Nat

VARIABLES
  heap,                    \* heap[i]: an object, or the number of the next free slot
  length,                  \* heap.length
  heap_next,               \* the first free slot, or heap.length
  idx                      \* idx[h]: the index inside the JsValue h

heapVars == <<heap, length, heap_next, idx>>

HeapInit ==
  /\ heap = Constant
  /\ length = Reserved
  /\ heap_next = Reserved
  /\ idx = [h \in Handles |-> None]

getObject(i) == heap[i]

\* Mutant: the list goes on behind a slot that was taken from its middle.
addHeapObjectNoPop(h, v) ==
  LET grown == heap_next = length IN
  /\ length' = IF grown THEN length + 1 ELSE length
  /\ heap' = [i \in 0 .. length' - 1 |-> IF i = heap_next THEN v ELSE heap[i]]
  /\ heap_next' = length'
  /\ idx' = [idx EXCEPT ![h] = heap_next]

\* The index goes to the JsValue h.
addHeapObject(h, v) ==
  LET grown == heap_next = length IN
  /\ idx[h] = None
  /\ length' = IF grown THEN length + 1 ELSE length
  /\ heap' = [i \in 0 .. length' - 1 |-> IF i = heap_next THEN v ELSE heap[i]]
  /\ heap_next' = IF grown THEN length + 1 ELSE heap[heap_next]
  /\ idx' = [idx EXCEPT ![h] = heap_next]

\* Mutant: the constants are put on the list like everything else.
dropObjectAll(i) ==
  /\ heap' = [heap EXCEPT ![i] = heap_next]
  /\ heap_next' = i

dropObject(i) ==
  IF i < Reserved
  THEN UNCHANGED <<heap, heap_next>>
  ELSE /\ heap' = [heap EXCEPT ![i] = heap_next]
       /\ heap_next' = i

\* takeObject, and __wbindgen_object_drop_ref: the JsValue is used up.
takeObject(h) ==
  /\ idx[h] # None
  /\ dropObject(idx[h])
  /\ idx' = [idx EXCEPT ![h] = None]
  /\ UNCHANGED length

-----------------------------------------------------------------------------
(* The imports, by what they do to the table.  Those that only look, such  *)
(* as __wbg_status, change nothing; one that uses an argument up before it *)
(* returns an object, such as clearTimeout, is the one after the other,    *)
(* and an array of arguments, as of console.error, is taken one by one.    *)

\* An import returns an object, new or old.
ReturnObject(h, v) == addHeapObject(h, v)

\* What an import threw is an object for Rust as well.
handleError(h, e) == addHeapObject(h, e)

\* JsValue::UNDEFINED and the like have the index of a slot that is there for
\* good; isLikeNone makes it 0 for what is not there.
ConstantValue(h) ==
  /\ idx[h] = None
  /\ \E i \in 0 .. Reserved - 1 : idx' = [idx EXCEPT ![h] = i]
  /\ UNCHANGED <<heap, length, heap_next>>

object_clone_ref(g, h) == idx[g] # None /\ addHeapObject(h, getObject(idx[g]))

HeapNext ==
  \E h \in Handles :
    \/ \E v \in Values : ReturnObject(h, v) \/ handleError(h, v)
    \/ ConstantValue(h) \/ takeObject(h)
    \/ \E g \in Handles : object_clone_ref(g, h)

HeapSpec == HeapInit /\ [][HeapNext]_heapVars

-----------------------------------------------------------------------------
HeapTypeOK ==
  /\ length \in Nat
  /\ Reserved <= length
  /\ heap \in [0 .. length - 1 -> Values \cup Constants \cup Nat]
  /\ heap_next \in Reserved .. length
  /\ idx \in [Handles -> 0 .. length - 1 \cup {None}]

\* Whatever is added, cloned and dropped in whichever order, every JsValue
\* shows what it was made for until it is dropped: no slot is handed out twice,
\* no constant is overwritten.
Refs == INSTANCE JsRefs WITH
          ref <- [h \in Handles |-> IF idx[h] = None THEN None ELSE getObject(idx[h])]

IndependentRefs == Refs!Spec

\* No slot is lost: the table only grows when every slot is in use, so it stays
\* as long as the most JsValues there ever were at a time.
GrowsWhenFull ==
  [][ length' > length => \A i \in Reserved .. length - 1 : \E h \in Handles : idx[h] = i ]_heapVars

=============================================================================
