---------------------------- MODULE WasmStrings ----------------------------
(***************************************************************************)
(* How the glue carries a string into the memory of the wasm module and    *)
(* out of it.  A view of that memory is cached; whenever the memory grows, *)
(* in malloc or in any other call, the view is detached: what is written   *)
(* through it is lost.  A string is the sequence of the lengths that its   *)
(* UTF-16 units have in UTF-8: 1, 2 or 3, and 2 twice for a surrogate pair.*)
(***************************************************************************)
EXTENDS Naturals, SequencesExt

Views == {"none", "fresh", "detached"}      \* cachedUint8ArrayMemory0

Longer(s, n) == Cardinality({i \in 1 .. Len(s) : s[i] > n})

Bytes(s) == Len(s) + Longer(s, 1) + Longer(s, 2)

\* What a call into wasm may do to the view.
Grown(view) == {view, IF view = "none" THEN "none" ELSE "detached"}

\* getUint8ArrayMemory0, getDataViewMemory0: the view that is used from here on.
getMemory(view) == IF view \in {"none", "detached"} THEN "fresh" ELSE view

\* The units before the first that is not ASCII.
Leading(s) ==
  LET other == SelectInSeq(s, LAMBDA unit : unit > 1)
  IN IF other = 0 THEN Len(s) ELSE other - 1

\* For how many bytes passStringToWasm0 asks, at most.
room(s) == Leading(s) + 3 * (Len(s) - Leading(s))

\* Mutant: the view is taken before malloc.
passStringEarlyView(s, view) ==
  { [len |-> room(s), landed |-> v = "fresh"] : v \in Grown(getMemory(view)) }

\* passStringToWasm0: what is in the memory and in WASM_VECTOR_LEN afterwards.
\* The leading units are written one by one, the others by encodeInto, as far as
\* there is room for them.
passString(s, view) ==
  LET len == IF Bytes(s) <= room(s) THEN Bytes(s) ELSE room(s)
  IN { [len |-> len, landed |-> getMemory(v) = "fresh" /\ getMemory(w) = "fresh"]
       : v \in Grown(view), w \in IF Leading(s) = Len(s) THEN {"fresh"} ELSE Grown("fresh") }

\* Rust gets the string as it was.
Arrives(s, passed) == passed.landed /\ passed.len = Bytes(s)

\* Mutant: both lengths are taken from WASM_VECTOR_LEN at the end.
passTwoLate(s, t, view) ==
  { [first |-> Arrives(s, [p EXCEPT !.len = q.len]), second |-> Arrives(t, q)]
    : p \in passString(s, view), q \in UNION { passString(t, v) : v \in Grown("fresh") } }

\* Two strings for one call: WASM_VECTOR_LEN is read after each.
passTwo(s, t, view) ==
  { [first |-> Arrives(s, p), second |-> Arrives(t, q)]
    : p \in passString(s, view), q \in UNION { passString(t, v) : v \in Grown("fresh") } }

\* A string that wasm returns: pointer and length are read, and the bytes decoded,
\* after the call.
ReturnsWhole(view) == \A v \in Grown(view) : getMemory(v) = "fresh"
=============================================================================
