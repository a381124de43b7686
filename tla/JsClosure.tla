----------------------------- MODULE JsClosure -----------------------------
(***************************************************************************)
(* Rust closures that JavaScript calls: event handlers, timers, reactions  *)
(* of promises.  The glue wraps each into a function that counts who still *)
(* needs the closure: Rust, until it drops or forgets the Closure, and     *)
(* every call that is running.  The function and its arguments reach Rust  *)
(* through the table of JsHeap.  A call can come while the same closure is *)
(* running, also after Rust dropped it there, and long after; but not from *)
(* the destructors that free it, which are part of the step that frees it. *)
(* The closure of __wbg_new_typed, which lives as long as the constructor  *)
(* of a Promise runs, is freed by Rust and has no count: it is not here.   *)
(***************************************************************************)
EXTENDS JsHeap, FiniteSets

CONSTANTS
  Closures,                \* the closures, and the functions they become
  Mutable,                 \* FnMut: makeMutClosure; the others makeClosure
  MaxDepth                 \* bound: calls inside calls

ASSUME ClosureAssumption ==
  /\ Closures \subseteq (Handles \cap Values) \ Constants
  /\ Mutable \subseteq Closures
  /\ MaxDepth \in Nat

VARIABLES
  env,                     \* env[c]: what Rust has allocated for c
  a,                       \* a[c]: state.a, the pointer to it, is not 0
  cnt,                     \* cnt[c]: state.cnt
  registered,              \* the closures whose state CLOSURE_DTORS knows
  forgotten,               \* the Closures that Rust gave up without dropping
  kept,                    \* the functions that JavaScript holds
  stack                    \* the calls that are running, the innermost last

closureVars == <<env, a, cnt, registered, forgotten, kept, stack>>
vars        == <<heapVars, closureVars>>

Other == Handles \ Closures          \* the JsValues that are not in a Closure
Call  == [c : Closures, a : BOOLEAN]

Top == stack[Len(stack)]

\* Rust runs: as a task of its own, or inside a closure that was called.  Called
\* with a = 0 it throws at once.
Running == stack # <<>> => Top.a

Init ==
  /\ HeapInit
  /\ env = [c \in Closures |-> "none"]
  /\ a = [c \in Closures |-> FALSE]
  /\ cnt = [c \in Closures |-> 0]
  /\ registered = {}
  /\ forgotten = {}
  /\ kept = {}
  /\ stack = <<>>

-----------------------------------------------------------------------------
\* What Rust does in __wbindgen_export5: nothing for a null pointer.
Destroy(c, ptr) ==
  env' = [env EXCEPT ![c] = IF ~ptr THEN @ ELSE IF @ = "live" THEN "freed" ELSE "twice"]

\* Mutant: the state still points to what was freed.
unrefKeepsA(c, ptr) ==
  /\ cnt' = [cnt EXCEPT ![c] = @ - 1]
  /\ IF cnt[c] = 1
     THEN Destroy(c, ptr) /\ a' = [a EXCEPT ![c] = ptr] /\ registered' = registered \ {c}
     ELSE UNCHANGED <<env, registered>> /\ a' = [a EXCEPT ![c] = ptr]

\* _wbg_cb_unref, with state.a = ptr.  The destructors that
\* run in it make JavaScript call no closure.
unref(c, ptr) ==
  /\ cnt' = [cnt EXCEPT ![c] = @ - 1]
  /\ IF cnt[c] = 1
     THEN Destroy(c, ptr) /\ a' = [a EXCEPT ![c] = FALSE] /\ registered' = registered \ {c}
     ELSE UNCHANGED <<env, registered>> /\ a' = [a EXCEPT ![c] = ptr]

\* A Closure is made into a function, which Rust holds: makeClosure,
\* makeMutClosure and the casts that call them.
makeClosure(c) ==
  /\ env[c] = "none"
  /\ addHeapObject(c, c)
  /\ env' = [env EXCEPT ![c] = "live"]
  /\ a' = [a EXCEPT ![c] = TRUE]
  /\ cnt' = [cnt EXCEPT ![c] = 1]
  /\ registered' = registered \cup {c}
  /\ UNCHANGED <<forgotten, kept, stack>>

\* The function goes to whoever will call it: onmessage, addEventListener,
\* setTimeout, then.
HandOut(h) ==
  /\ idx[h] # None
  /\ getObject(idx[h]) \in Closures
  /\ kept' = kept \cup {getObject(idx[h])}
  /\ UNCHANGED <<heapVars, env, a, cnt, registered, forgotten, stack>>

\* The timer has fired, the socket is gone, another handler is set.
LetGo(c) ==
  /\ c \in kept
  /\ kept' = kept \ {c}
  /\ UNCHANGED <<heapVars, env, a, cnt, registered, forgotten, stack>>

\* The shims between a function and Rust put the argument, if there is one, into
\* the table.  If Rust then throws for a = 0 nobody takes it out again; here it
\* has a JsValue all the same.
func_elem ==
  \/ UNCHANGED heapVars
  \/ \E h \in Other : \E v \in Values \ Closures : addHeapObject(h, v)

\* Mutant: the count is not raised for the time of the call.
realUncounted(c) ==
  /\ c \in kept
  /\ Running
  /\ Len(stack) < MaxDepth
  /\ stack' = Append(stack, [c |-> c, a |-> a[c]])
  /\ a' = [a EXCEPT ![c] = @ /\ c \notin Mutable]
  /\ func_elem
  /\ UNCHANGED <<env, cnt, registered, forgotten, kept>>

\* Mutant: a mutable closure can be entered while it is running.
realReentrant(c) ==
  /\ c \in kept
  /\ Running
  /\ Len(stack) < MaxDepth
  /\ cnt' = [cnt EXCEPT ![c] = @ + 1]
  /\ stack' = Append(stack, [c |-> c, a |-> a[c]])
  /\ func_elem
  /\ UNCHANGED <<env, a, registered, forgotten, kept>>

\* JavaScript calls the function, from its event loop or from something that
\* Rust called.  Rust may take the argument out of the table.
real(c) ==
  /\ c \in kept
  /\ Running
  /\ Len(stack) < MaxDepth
  /\ cnt' = [cnt EXCEPT ![c] = @ + 1]
  /\ stack' = Append(stack, [c |-> c, a |-> a[c]])
  /\ a' = [a EXCEPT ![c] = @ /\ c \notin Mutable]
  /\ func_elem
  /\ UNCHANGED <<env, registered, forgotten, kept>>

Pop == stack' = SubSeq(stack, 1, Len(stack) - 1)

\* Mutant: the pointer is put back after the count has been looked at.
finallySwapped ==
  /\ stack # <<>>
  /\ LET c == Top.c  ptr == Top.a IN
       /\ cnt' = [cnt EXCEPT ![c] = @ - 1]
       /\ IF cnt[c] = 1
          THEN Destroy(c, a[c]) /\ registered' = registered \ {c}
          ELSE UNCHANGED <<env, registered>>
       /\ a' = IF c \in Mutable THEN [a EXCEPT ![c] = ptr] ELSE a
  /\ Pop
  /\ UNCHANGED <<heapVars, forgotten, kept>>

\* The call ends: the finally blocks, whether Rust returned, threw, or answered
\* with an error, which its shim takes out of the table to throw it.
finally ==
  /\ stack # <<>>
  /\ unref(Top.c, IF Top.c \in Mutable THEN Top.a ELSE a[Top.c])
  /\ Pop
  /\ \/ UNCHANGED heapVars
     \/ Top.a /\ \E h \in Other : takeObject(h)
  /\ UNCHANGED <<forgotten, kept>>

\* Rust drops the Closure, which may be running.
DropClosure(c) ==
  /\ Running
  /\ takeObject(c)
  /\ unref(c, a[c])
  /\ UNCHANGED <<forgotten, kept, stack>>

\* Closure::forget: from now on the function owns the closure.
Forget(c) ==
  /\ Running
  /\ takeObject(c)
  /\ forgotten' = forgotten \cup {c}
  /\ UNCHANGED <<env, a, cnt, registered, kept, stack>>

\* The garbage collector finds that nobody holds the function any more.
Collect(c) ==
  /\ c \in registered
  /\ c \notin kept
  /\ \A h \in Handles : idx[h] # None => getObject(idx[h]) # c
  /\ \A i \in DOMAIN stack : stack[i].c # c
  /\ Destroy(c, a[c])
  /\ registered' = registered \ {c}
  /\ UNCHANGED <<heapVars, a, cnt, forgotten, kept, stack>>

\* Rust works on other JsValues: a clone may be of a function.
OtherValue(h) ==
  /\ Running
  /\ \/ \E v \in Values \ Closures : ReturnObject(h, v) \/ handleError(h, v)
     \/ ConstantValue(h)
     \/ takeObject(h)
     \/ \E g \in Handles : object_clone_ref(g, h)
  /\ UNCHANGED closureVars

Next ==
  \/ \E c \in Closures : \/ Running /\ makeClosure(c)
                         \/ LetGo(c) \/ real(c)
                         \/ DropClosure(c) \/ Forget(c) \/ Collect(c)
  \/ \E h \in Handles : Running /\ HandOut(h)
  \/ finally
  \/ \E h \in Other : OtherValue(h)

Spec == Init /\ [][Next]_vars

-----------------------------------------------------------------------------
TypeOK ==
  /\ HeapTypeOK
  /\ env \in [Closures -> {"none", "live", "freed", "twice"}]
  /\ a \in [Closures -> BOOLEAN]
  /\ cnt \in [Closures -> Nat]
  /\ registered \subseteq Closures
  /\ forgotten \subseteq Closures
  /\ kept \subseteq Closures
  /\ stack \in Seq(Call)

\* Whenever the functions are called and the Closures dropped, no call runs in
\* a closure that has been freed: not even when it drops itself.
RunsAlive == \A i \in DOMAIN stack : stack[i].a => env[stack[i].c] = "live"

\* A mutable closure is never entered while it is running.
RunsAlone ==
  \A i, j \in DOMAIN stack :
    stack[i].c = stack[j].c /\ stack[i].c \in Mutable /\ stack[i].a /\ stack[j].a => i = j

\* What Rust allocated is freed once: by the drop, by the last call that ends or
\* by the garbage collector.
FreedOnce == \A c \in Closures : env[c] # "twice"

\* A Closure that was dropped is freed as soon as it is not running, although
\* JavaScript may still hold its function; one that was forgotten is known to
\* the garbage collector.
NoLeak ==
  \A c \in Closures : env[c] = "live" =>
    \/ idx[c] # None
    \/ \E i \in DOMAIN stack : stack[i].c = c
    \/ c \in forgotten /\ c \in registered

=============================================================================
