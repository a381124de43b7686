-------------------------- MODULE JsClosure_proofs --------------------------
(***************************************************************************)
(* Proofs about the closures that JavaScript calls: for any number of      *)
(* closures, calls and JsValues none is used after it was freed, freed     *)
(* twice, entered twice at a time if it is mutable, or lost.               *)
(***************************************************************************)
EXTENDS JsClosure, JsHeap_proofs, FiniteSetTheorems, SequenceTheorems

Calls(st, c) == {i \in 1 .. Len(st) : st[i].c = c}

ClosureType ==
  /\ env \in [Closures -> {"none", "live", "freed", "twice"}]
  /\ a \in [Closures -> BOOLEAN]
  /\ cnt \in [Closures -> Nat]
  /\ registered \subseteq Closures
  /\ forgotten \subseteq Closures
  /\ kept \subseteq Closures
  /\ stack \in Seq(Call)

\* JavaScript or Rust can still get at the function.
Reach(c) == \/ c \in kept
            \/ \E h \in Handles : Shown(h) = c
            \/ Calls(stack, c) # {}

Owners(c) == IF idx[c] # None \/ c \in forgotten THEN 1 ELSE 0

\* The Closure, if Rust has it, holds its own function; the count is that of the
\* calls and of the owner.
Counted(c) ==
  /\ c \in forgotten => idx[c] = None
  /\ idx[c] # None => Shown(c) = c
  /\ cnt[c] = Cardinality(Calls(stack, c)) + Owners(c)

\* What is not allocated cannot be reached by a pointer that is not null.
Guarded(c) ==
  /\ env[c] = "none" => ~Reach(c) /\ c \notin forgotten /\ ~a[c]
  /\ env[c] # "live" =>
       /\ c \notin registered
       /\ Reach(c) => ~a[c]
       /\ \A i \in Calls(stack, c) : ~stack[i].a
  /\ env[c] # "twice"

\* What is allocated is known to the registry and pointed to, by the state or by
\* the outermost call of a mutable closure.
Pointed(c) ==
  /\ env[c] = "live" =>
       /\ c \in registered
       /\ cnt[c] >= 1
       /\ a[c] \/ (c \in Mutable /\ \E i \in Calls(stack, c) : stack[i].a)
  /\ c \in Mutable =>
       /\ Calls(stack, c) # {} => ~a[c]
       /\ \A i, j \in Calls(stack, c) : i < j => ~stack[j].a

CI(c) == Counted(c) /\ Guarded(c) /\ Pointed(c)

CInv == IInv /\ ClosureType /\ \A c \in Closures : CI(c)

-----------------------------------------------------------------------------
(* Calls on the stack.                                                     *)

LEMMA CallsFinite ==
  ASSUME NEW st \in Seq(Call), NEW c
  PROVE  IsFiniteSet(Calls(st, c)) /\ Cardinality(Calls(st, c)) \in Nat
<1>1. IsFiniteSet(1 .. Len(st))
      BY FS_Interval
<1>2. Calls(st, c) \subseteq 1 .. Len(st)
      BY DEF Calls
<1> QED
    BY <1>1, <1>2, FS_Subset, FS_CardinalityType

LEMMA NoCalls ==
  ASSUME NEW st \in Seq(Call), NEW c
  PROVE  Cardinality(Calls(st, c)) = 0 <=> Calls(st, c) = {}
BY CallsFinite, FS_EmptySet

LEMMA OneMore ==
  ASSUME NEW n \in Nat, NEW S, S \subseteq 1 .. n
  PROVE  Cardinality(S \cup {n + 1}) = Cardinality(S) + 1 /\ Cardinality(S) \in Nat
<1>1. IsFiniteSet(1 .. n)
      BY FS_Interval
<1>2. IsFiniteSet(S)
      BY <1>1, FS_Subset
<1>3. n + 1 \notin S
      OBVIOUS
<1> QED
    BY <1>2, <1>3, FS_AddElement, FS_CardinalityType

LEMMA OneLess ==
  ASSUME NEW n \in Nat, NEW S, S \subseteq 1 .. n, n \in S
  PROVE  Cardinality(S \ {n}) = Cardinality(S) - 1 /\ Cardinality(S) \in Nat
<1>1. IsFiniteSet(1 .. n)
      BY FS_Interval
<1>2. IsFiniteSet(S)
      BY <1>1, FS_Subset
<1> QED
    BY <1>2, FS_RemoveElement, FS_CardinalityType

LEMMA Push ==
  ASSUME NEW st \in Seq(Call), NEW e \in Call, NEW t, t = Append(st, e)
  PROVE  /\ t \in Seq(Call) /\ Len(st) \in Nat
         /\ Len(t) = Len(st) + 1 /\ t[Len(st) + 1] = e
         /\ \A i \in 1 .. Len(st) : t[i] = st[i]
OBVIOUS

LEMMA PopLast ==
  ASSUME NEW st \in Seq(Call), st # <<>>, NEW t, t = SubSeq(st, 1, Len(st) - 1)
  PROVE  /\ t \in Seq(Call) /\ Len(st) \in Nat \ {0} /\ st[Len(st)] \in Call
         /\ Len(t) = Len(st) - 1
         /\ \A i \in 1 .. Len(st) - 1 : t[i] = st[i]
<1>0. PICK n \in Nat : n = Len(st) - 1 /\ Len(st) = n + 1
      OBVIOUS
<1>1. \A i \in 1 .. n : st[i] \in Call
      BY <1>0
<1>2. /\ SubSeq(st, 1, n) \in Seq(Call)
      /\ Len(SubSeq(st, 1, n)) = IF 1 <= n THEN n - 1 + 1 ELSE 0
      /\ \A i \in 1 .. n - 1 + 1 : SubSeq(st, 1, n)[i] = st[1 + i - 1]
      BY <1>1, SubSeqProperties
<1>3. t = SubSeq(st, 1, n)
      BY <1>0
<1>4. Len(t) = n /\ t \in Seq(Call)
      BY <1>2, <1>3
<1>5. ASSUME NEW i \in 1 .. n PROVE t[i] = st[i]
  <2>1. i \in 1 .. n - 1 + 1 /\ 1 + i - 1 = i
        OBVIOUS
  <2> QED
      BY <2>1, <1>2, <1>3
<1> QED
    BY <1>0, <1>4, <1>5

-----------------------------------------------------------------------------
(* What the actions do to the table.                                       *)

LEMMA AddShows ==
  ASSUME IInv, NEW h \in Handles, NEW v \in Values \cup Constants, addHeapObject(h, v)
  PROVE  /\ IInv' /\ idx[h] = None /\ idx'[h] # None /\ Shown(h)' = v
         /\ \A g \in Handles \ {h} : idx'[g] = idx[g] /\ Shown(g)' = Shown(g)
<1> USE HeapAssumption
<1>1. IInv' /\ Refs!Receive(h, v)
      BY AddKeeps, AddIsReceive
<1>2. idx[h] = None /\ idx' = [idx EXCEPT ![h] = heap_next] /\ heap_next # None
      BY DEF addHeapObject, IInv, HeapTypeOK
<1>3. shown' = [shown EXCEPT ![h] = v]
      BY <1>1 DEF Refs!Receive, shown, Shown, getObject
<1>4. \A g \in Handles : Shown(g)' = IF g = h THEN v ELSE Shown(g)
      BY <1>3 DEF shown
<1> QED
    BY <1>1, <1>2, <1>4 DEF IInv, HeapTypeOK

LEMMA TakeShows ==
  ASSUME IInv, NEW h \in Handles, takeObject(h)
  PROVE  /\ IInv' /\ idx[h] # None /\ idx'[h] = None /\ Shown(h)' = None
         /\ \A g \in Handles \ {h} : idx'[g] = idx[g] /\ Shown(g)' = Shown(g)
<1> USE HeapAssumption
<1>1. IInv' /\ Refs!Release(h)
      BY TakeKeeps, TakeIsRelease
<1>2. idx[h] # None /\ idx' = [idx EXCEPT ![h] = None]
      BY DEF takeObject
<1>3. shown' = [shown EXCEPT ![h] = None]
      BY <1>1 DEF Refs!Release, shown, Shown, getObject
<1>4. \A g \in Handles : Shown(g)' = IF g = h THEN None ELSE Shown(g)
      BY <1>3 DEF shown
<1> QED
    BY <1>1, <1>2, <1>4 DEF IInv, HeapTypeOK

-----------------------------------------------------------------------------
(* The steps, first for the closures that a step is not about.             *)

\* The step does not concern d: at most it lets more or fewer of those who can
\* already get at the function get at it.
Untouched(d) ==
  /\ env'[d] = env[d] /\ a'[d] = a[d] /\ cnt'[d] = cnt[d]
  /\ d \in registered' <=> d \in registered
  /\ d \in forgotten' <=> d \in forgotten
  /\ d \in kept' => Reach(d)
  /\ idx'[d] = idx[d] /\ Shown(d)' = Shown(d)
  /\ \A h \in Handles : Shown(h)' = d => \E g \in Handles : Shown(g) = d
  /\ Calls(stack', d) = Calls(stack, d)
  /\ \A i \in Calls(stack, d) : stack'[i] = stack[i]

LEMMA Frame ==
  ASSUME CInv, NEW d \in Closures, Untouched(d)
  PROVE  CI(d)'
<1>1. CI(d)
      BY DEF CInv
<1>2. Reach(d)' => Reach(d)
      BY DEF Untouched, Reach
<1>3. Counted(d)'
      BY <1>1 DEF CI, Counted, Owners, Untouched
<1>4. Guarded(d)'
      BY <1>1, <1>2 DEF CI, Guarded, Untouched
<1>5. Pointed(d)'
      BY <1>1 DEF CI, Pointed, Untouched
<1> QED
    BY <1>3, <1>4, <1>5 DEF CI

\* The table changes, the closures do not.
LEMMA HeapOnly ==
  ASSUME CInv, UNCHANGED closureVars, IInv',
         \A d \in Closures : idx'[d] = idx[d] /\ Shown(d)' = Shown(d),
         \A h \in Handles : \A d \in Closures :
           Shown(h)' = d => \E g \in Handles : Shown(g) = d
  PROVE  CInv'
<1>1. \A d \in Closures : Untouched(d)
      BY DEF Untouched, closureVars, Reach
<1>2. ClosureType'
      BY DEF CInv, ClosureType, closureVars
<1> QED
    BY <1>1, <1>2, Frame DEF CInv

LEMMA OtherValueKeeps ==
  ASSUME CInv, NEW h \in Other, OtherValue(h)
  PROVE  CInv'
<1> USE HeapAssumption, ClosureAssumption
<1>0. IInv /\ UNCHANGED closureVars /\ h \in Handles /\ h \notin Closures /\ Closures \subseteq Handles
      BY DEF CInv, OtherValue, Other
<1>1. ASSUME NEW v \in Values \ Closures, ReturnObject(h, v) \/ handleError(h, v)
      PROVE  CInv'
  <2>1. addHeapObject(h, v)
        BY <1>1 DEF ReturnObject, handleError
  <2>2. /\ IInv' /\ Shown(h)' = v
        /\ \A g \in Handles \ {h} : idx'[g] = idx[g] /\ Shown(g)' = Shown(g)
        BY <1>0, <2>1, AddShows
  <2> QED
      BY <1>0, <2>2, HeapOnly
<1>2. ASSUME ConstantValue(h)
      PROVE  CInv'
  <2>1. IInv'
        BY <1>0, <1>2, ConstantKeeps
  <2>2. PICK k \in 0 .. Reserved - 1 : idx' = [idx EXCEPT ![h] = k] /\ heap' = heap
        BY <1>2 DEF ConstantValue
  <2>3. \A g \in Handles \ {h} : idx'[g] = idx[g] /\ Shown(g)' = Shown(g)
        BY <1>0, <2>2 DEF Shown, IInv, HeapTypeOK
  <2>4. Shown(h)' \in Constants
        BY <1>0, <2>2 DEF Shown, IInv, HeapTypeOK, ConstantsIntact
  <2> QED
      BY <1>0, <2>1, <2>3, <2>4, HeapOnly
<1>3. ASSUME takeObject(h)
      PROVE  CInv'
  <2>1. /\ IInv' /\ Shown(h)' = None
        /\ \A g \in Handles \ {h} : idx'[g] = idx[g] /\ Shown(g)' = Shown(g)
        BY <1>0, <1>3, TakeShows
  <2> QED
      BY <1>0, <2>1, HeapOnly
<1>4. ASSUME NEW g \in Handles, object_clone_ref(g, h)
      PROVE  CInv'
  <2>1. idx[g] # None /\ heap[idx[g]] \in Values \cup Constants /\ addHeapObject(h, heap[idx[g]])
        BY <1>0, <1>4, CloneIsAdd DEF object_clone_ref
  <2>2. /\ IInv' /\ Shown(h)' = Shown(g)
        /\ \A k \in Handles \ {h} : idx'[k] = idx[k] /\ Shown(k)' = Shown(k)
        BY <1>0, <2>1, AddShows DEF Shown
  <2> QED
      BY <1>0, <2>2, HeapOnly
<1> QED
    BY <1>1, <1>2, <1>3, <1>4 DEF OtherValue

LEMMA KeptKeeps ==
  ASSUME CInv, (\E h \in Handles : HandOut(h)) \/ (\E c \in Closures : LetGo(c))
  PROVE  CInv'
<1> USE HeapAssumption, ClosureAssumption
<1>0. /\ UNCHANGED <<heapVars, env, a, cnt, registered, forgotten, stack>>
      /\ kept' \subseteq Closures
      /\ \A d \in Closures : d \in kept' => d \in kept \/ \E h \in Handles : Shown(h) = d
      BY DEF CInv, ClosureType, HandOut, LetGo, Shown, getObject
<1>1. [HeapNext]_heapVars
      BY <1>0
<1>2. IInv'
      BY <1>1, NextIInv DEF CInv
<1>3. \A h \in Handles : idx'[h] = idx[h] /\ Shown(h)' = Shown(h)
      BY <1>0 DEF heapVars, Shown
<1>4. \A d \in Closures : Untouched(d)
      BY <1>0, <1>3 DEF Untouched, Reach
<1>5. ClosureType'
      BY <1>0 DEF CInv, ClosureType
<1> QED
    BY <1>2, <1>4, <1>5, Frame DEF CInv

LEMMA MakeKeeps ==
  ASSUME CInv, NEW c \in Closures, makeClosure(c)
  PROVE  CInv'
<1> USE HeapAssumption, ClosureAssumption
<1>0. /\ env[c] = "none" /\ addHeapObject(c, c) /\ c \in Handles /\ c \in Values
      /\ env' = [env EXCEPT ![c] = "live"] /\ a' = [a EXCEPT ![c] = TRUE]
      /\ cnt' = [cnt EXCEPT ![c] = 1] /\ registered' = registered \cup {c}
      /\ forgotten' = forgotten /\ kept' = kept /\ stack' = stack
      BY DEF makeClosure
<1>1. /\ IInv' /\ idx'[c] # None /\ Shown(c)' = c
      /\ \A g \in Handles \ {c} : idx'[g] = idx[g] /\ Shown(g)' = Shown(g)
      BY <1>0, AddShows DEF CInv
<1>2. ClosureType'
      BY <1>0 DEF CInv, ClosureType
<1>3. ASSUME NEW d \in Closures \ {c}
      PROVE  CI(d)'
  <2>1. Untouched(d)
        BY <1>0, <1>1 DEF Untouched, CInv, ClosureType, Reach
  <2> QED
      BY <2>1, Frame
<1>4. CI(c)'
  <2>1. Calls(stack, c) = {} /\ c \notin forgotten
        BY <1>0 DEF CInv, CI, Guarded, Reach
  <2>2. env'[c] = "live" /\ a'[c] /\ cnt'[c] = 1 /\ c \in registered'
        BY <1>0 DEF CInv, ClosureType
  <2>3. Cardinality(Calls(stack', c)) = 0 /\ Calls(stack', c) = {}
        BY <1>0, <2>1, FS_EmptySet
  <2>4. Counted(c)'
        BY <1>0, <1>1, <2>1, <2>2, <2>3 DEF Counted, Owners
  <2>5. Guarded(c)'
        BY <2>2 DEF Guarded
  <2>6. Pointed(c)'
        BY <2>2, <2>3 DEF Pointed
  <2> QED
      BY <2>4, <2>5, <2>6 DEF CI
<1> QED
    BY <1>1, <1>2, <1>3, <1>4 DEF CInv

LEMMA ForgetKeeps ==
  ASSUME CInv, NEW c \in Closures, Forget(c)
  PROVE  CInv'
<1> USE HeapAssumption, ClosureAssumption
<1>0. /\ takeObject(c) /\ c \in Handles /\ forgotten' = forgotten \cup {c}
      /\ UNCHANGED <<env, a, cnt, registered, kept, stack>>
      BY DEF Forget
<1>1. /\ IInv' /\ idx[c] # None /\ idx'[c] = None /\ Shown(c)' = None
      /\ \A g \in Handles \ {c} : idx'[g] = idx[g] /\ Shown(g)' = Shown(g)
      BY <1>0, TakeShows DEF CInv
<1>2. ClosureType'
      BY <1>0 DEF CInv, ClosureType
<1>3. ASSUME NEW d \in Closures \ {c}
      PROVE  CI(d)'
  <2>1. Untouched(d)
        BY <1>0, <1>1 DEF Untouched, CInv, ClosureType, Reach
  <2> QED
      BY <2>1, Frame
<1>4. CI(c)'
  <2>1. CI(c) /\ Shown(c) = c /\ env[c] # "none"
        BY <1>0, <1>1 DEF CInv, CI, Counted, Guarded, Reach
  <2>2. Reach(c)' => Reach(c)
        BY <1>0, <1>1 DEF Reach
  <2>3. Counted(c)'
        BY <1>0, <1>1, <2>1 DEF CI, Counted, Owners
  <2>4. Guarded(c)'
        BY <1>0, <2>1, <2>2 DEF CI, Guarded
  <2>5. Pointed(c)'
        BY <1>0, <2>1 DEF CI, Pointed
  <2> QED
      BY <2>3, <2>4, <2>5 DEF CI
<1> QED
    BY <1>1, <1>2, <1>3, <1>4 DEF CInv

LEMMA CollectKeeps ==
  ASSUME CInv, NEW c \in Closures, Collect(c)
  PROVE  CInv'
<1> USE HeapAssumption, ClosureAssumption
<1>0. /\ c \in registered /\ c \in Handles
      /\ registered' = registered \ {c}
      /\ UNCHANGED <<heapVars, a, cnt, forgotten, kept, stack>>
      /\ Destroy(c, a[c])
      BY DEF Collect
<1>1. ~Reach(c) /\ Calls(stack, c) = {} /\ idx[c] = None
  <2>1. stack \in Seq(Call) /\ c # None
        BY DEF CInv, ClosureType
  <2>2. \A h \in Handles : Shown(h) # c
        BY <2>1 DEF Collect, Shown, getObject
  <2>3. Calls(stack, c) = {}
        BY <2>1 DEF Collect, Calls
  <2> QED
      BY <1>0, <2>2, <2>3 DEF Collect, Reach, CInv, CI, Counted
<1>2. env[c] = "live" /\ a[c]
      BY <1>0, <1>1 DEF CInv, CI, Guarded, Pointed
<1>3. env' = [env EXCEPT ![c] = "freed"]
      BY <1>2 DEF CInv, ClosureType, Collect, Destroy
<1>4. ClosureType'
      BY <1>0, <1>3 DEF CInv, ClosureType
<1>5. [HeapNext]_heapVars
      BY <1>0
<1>6. IInv' /\ \A h \in Handles : idx'[h] = idx[h] /\ Shown(h)' = Shown(h)
      BY <1>0, <1>5, NextIInv DEF CInv, heapVars, Shown
<1>7. ASSUME NEW d \in Closures \ {c}
      PROVE  CI(d)'
  <2>1. Untouched(d)
        BY <1>0, <1>3, <1>6 DEF Untouched, CInv, ClosureType, Reach
  <2> QED
      BY <2>1, Frame
<1>8. CI(c)'
  <2>1. ~Reach(c)' /\ env'[c] = "freed"
        BY <1>0, <1>1, <1>3, <1>6 DEF Reach, CInv, ClosureType
  <2>2. Counted(c)'
        BY <1>0, <1>1, <1>6 DEF CInv, CI, Counted, Owners
  <2>3. Guarded(c)' /\ Pointed(c)'
        BY <1>0, <1>1, <2>1 DEF Guarded, Pointed
  <2> QED
      BY <2>2, <2>3 DEF CI
<1> QED
    BY <1>4, <1>6, <1>7, <1>8 DEF CInv

LEMMA DropKeeps ==
  ASSUME CInv, NEW c \in Closures, DropClosure(c)
  PROVE  CInv'
<1> USE HeapAssumption, ClosureAssumption
<1>0. /\ takeObject(c) /\ c \in Handles /\ unref(c, a[c])
      /\ UNCHANGED <<forgotten, kept, stack>>
      BY DEF DropClosure
<1>1. /\ IInv' /\ idx[c] # None /\ idx'[c] = None /\ Shown(c)' = None
      /\ \A g \in Handles \ {c} : idx'[g] = idx[g] /\ Shown(g)' = Shown(g)
      BY <1>0, TakeShows DEF CInv
<1>2. CI(c) /\ Shown(c) = c /\ Reach(c) /\ env[c] # "none" /\ c \notin forgotten
      BY <1>0, <1>1 DEF CInv, CI, Counted, Guarded, Reach
<1>3. /\ cnt[c] = Cardinality(Calls(stack, c)) + 1
      /\ Cardinality(Calls(stack, c)) \in Nat
      /\ Cardinality(Calls(stack, c)) = 0 <=> Calls(stack, c) = {}
      BY <1>1, <1>2, CallsFinite, NoCalls DEF CI, Counted, Owners, CInv, ClosureType
<1>4. cnt' = [cnt EXCEPT ![c] = cnt[c] - 1] /\ cnt[c] - 1 \in Nat
      BY <1>0, <1>3 DEF unref
<1>5. Reach(c)' => Reach(c)
      BY <1>2
<1>6. CASE cnt[c] = 1
  <2>1. /\ Calls(stack, c) = {}
        /\ a' = [a EXCEPT ![c] = FALSE] /\ registered' = registered \ {c}
        /\ Destroy(c, a[c])
        BY <1>0, <1>3, <1>6 DEF unref
  <2>2. a[c] <=> env[c] = "live"
        BY <1>2, <2>1 DEF CI, Guarded, Pointed, CInv, ClosureType
  <2>3. env' = [env EXCEPT ![c] = "freed"]
        BY <1>2, <2>1, <2>2 DEF Destroy, CInv, ClosureType, CI, Guarded
  <2>4. ClosureType'
        BY <1>0, <1>4, <2>1, <2>3 DEF CInv, ClosureType
  <2>5. ASSUME NEW d \in Closures \ {c}
        PROVE  CI(d)'
    <3>1. Untouched(d)
          BY <1>0, <1>1, <1>4, <2>1, <2>3 DEF Untouched, CInv, ClosureType, Reach
    <3> QED
        BY <3>1, Frame
  <2>6. env'[c] = "freed" /\ ~a'[c] /\ c \notin registered' /\ cnt'[c] = 0
        BY <1>4, <1>6, <2>1, <2>3 DEF CInv, ClosureType
  <2>7. Counted(c)'
        BY <1>0, <1>1, <1>2, <1>3, <1>6, <2>6 DEF Counted, Owners
  <2>8. Guarded(c)' /\ Pointed(c)'
        BY <1>0, <2>1, <2>6 DEF Guarded, Pointed
  <2> QED
      BY <1>1, <2>4, <2>5, <2>7, <2>8 DEF CInv, CI
<1>7. CASE cnt[c] # 1
  <2>1. UNCHANGED <<env, registered>> /\ a' = a
        BY <1>0, <1>7 DEF unref, CInv, ClosureType
  <2>2. ClosureType'
        BY <1>0, <1>4, <2>1 DEF CInv, ClosureType
  <2>3. ASSUME NEW d \in Closures \ {c}
        PROVE  CI(d)'
    <3>1. Untouched(d)
          BY <1>0, <1>1, <1>4, <2>1 DEF Untouched, CInv, ClosureType, Reach
    <3> QED
        BY <3>1, Frame
  <2>4. cnt'[c] = Cardinality(Calls(stack, c)) /\ cnt'[c] >= 1
        BY <1>3, <1>4, <1>7 DEF CInv, ClosureType
  <2>5. Counted(c)'
        BY <1>0, <1>1, <1>2, <1>3, <2>4 DEF Counted, Owners
  <2>6. Guarded(c)'
        BY <1>0, <1>2, <2>1 DEF CI, Guarded
  <2>7. Pointed(c)'
        BY <1>0, <1>2, <2>1, <2>4 DEF CI, Pointed
  <2> QED
      BY <1>1, <2>2, <2>3, <2>5, <2>6, <2>7 DEF CInv, CI
<1> QED
    BY <1>6, <1>7

LEMMA ArgumentShows ==
  ASSUME CInv, func_elem
  PROVE  /\ IInv'
         /\ \A d \in Closures : idx'[d] = idx[d] /\ Shown(d)' = Shown(d)
         /\ \A h \in Handles : \A d \in Closures :
              Shown(h)' = d => \E g \in Handles : Shown(g) = d
<1> USE HeapAssumption, ClosureAssumption
<1>1. CASE UNCHANGED heapVars
  <2>1. [HeapNext]_heapVars
        BY <1>1
  <2>2. \A h \in Handles : idx'[h] = idx[h] /\ Shown(h)' = Shown(h)
        BY <1>1 DEF heapVars, Shown
  <2>3. IInv'
        BY <2>1, NextIInv DEF CInv
  <2> QED
      BY <2>2, <2>3
<1>2. CASE \E h \in Other : \E v \in Values \ Closures : addHeapObject(h, v)
  <2>1. PICK h \in Handles \ Closures, v \in Values \ Closures : addHeapObject(h, v)
        BY <1>2 DEF Other
  <2>2. /\ IInv' /\ Shown(h)' = v
        /\ \A g \in Handles \ {h} : idx'[g] = idx[g] /\ Shown(g)' = Shown(g)
        BY <2>1, AddShows DEF CInv
  <2> QED
      BY <2>1, <2>2
<1> QED
    BY <1>1, <1>2 DEF func_elem

LEMMA ErrorShows ==
  ASSUME CInv, finally
  PROVE  /\ IInv'
         /\ \A d \in Closures : idx'[d] = idx[d] /\ Shown(d)' = Shown(d)
         /\ \A h \in Handles : \A d \in Closures :
              Shown(h)' = d => \E g \in Handles : Shown(g) = d
<1> USE HeapAssumption, ClosureAssumption
<1>1. CASE UNCHANGED heapVars
  <2>1. [HeapNext]_heapVars
        BY <1>1
  <2>2. \A h \in Handles : idx'[h] = idx[h] /\ Shown(h)' = Shown(h)
        BY <1>1 DEF heapVars, Shown
  <2>3. IInv'
        BY <2>1, NextIInv DEF CInv
  <2> QED
      BY <2>2, <2>3
<1>2. CASE \E h \in Other : takeObject(h)
  <2>1. PICK h \in Handles \ Closures : takeObject(h)
        BY <1>2 DEF Other
  <2>2. /\ IInv' /\ Shown(h)' = None
        /\ \A g \in Handles \ {h} : idx'[g] = idx[g] /\ Shown(g)' = Shown(g)
        BY <2>1, TakeShows DEF CInv
  <2> QED
      BY <2>1, <2>2
<1> QED
    BY <1>1, <1>2 DEF finally

LEMMA CallKeeps ==
  ASSUME CInv, NEW c \in Closures, real(c)
  PROVE  CInv'
<1> USE HeapAssumption, ClosureAssumption
<1>0. /\ c \in kept /\ func_elem
      /\ cnt' = [cnt EXCEPT ![c] = @ + 1]
      /\ stack' = Append(stack, [c |-> c, a |-> a[c]])
      /\ a' = [a EXCEPT ![c] = @ /\ c \notin Mutable]
      /\ UNCHANGED <<env, registered, forgotten, kept>>
      BY DEF real
<1>1. /\ IInv'
      /\ \A d \in Closures : idx'[d] = idx[d] /\ Shown(d)' = Shown(d)
      /\ \A h \in Handles : \A d \in Closures :
           Shown(h)' = d => \E g \in Handles : Shown(g) = d
      BY <1>0, ArgumentShows
<1>2. PICK n \in Nat : n = Len(stack)
      BY DEF CInv, ClosureType
<1>3. /\ stack \in Seq(Call) /\ [c |-> c, a |-> a[c]] \in Call
      BY DEF CInv, ClosureType, Call
<1>4. /\ stack' \in Seq(Call) /\ stack'[n + 1] = [c |-> c, a |-> a[c]]
      /\ Len(stack') = n + 1
      /\ \A i \in 1 .. n : stack'[i] = stack[i]
  <2>1. PICK e \in Call : e = [c |-> c, a |-> a[c]]
        BY <1>3
  <2> QED
      BY <1>0, <1>2, <1>3, <2>1, Push
<1>5. /\ Calls(stack', c) = Calls(stack, c) \cup {n + 1}
      /\ \A d : d # c => Calls(stack', d) = Calls(stack, d)
      /\ Calls(stack, c) \subseteq 1 .. n
      /\ \A d : Calls(stack, d) \subseteq 1 .. n
      BY <1>2, <1>4 DEF Calls
<1>6. /\ Cardinality(Calls(stack', c)) = Cardinality(Calls(stack, c)) + 1
      /\ Cardinality(Calls(stack, c)) \in Nat
  <2>1. PICK S : S = Calls(stack, c)
        OBVIOUS
  <2>2. S \subseteq 1 .. n
        BY <2>1, <1>5
  <2>3. Cardinality(S \cup {n + 1}) = Cardinality(S) + 1 /\ Cardinality(S) \in Nat
        BY <2>2, OneMore
  <2> QED
      BY <2>1, <2>3, <1>5
<1>7. ClosureType'
      BY <1>0, <1>4, <1>5 DEF CInv, ClosureType
<1>8. ASSUME NEW d \in Closures \ {c}
      PROVE  CI(d)'
  <2>1. Untouched(d)
        BY <1>0, <1>1, <1>4, <1>5 DEF Untouched, CInv, ClosureType, Reach
  <2> QED
      BY <2>1, Frame
<1>9. CI(c)'
  <2>1. CI(c) /\ Reach(c) /\ env[c] # "none"
        BY <1>0 DEF CInv, CI, Guarded, Reach
  <2>2. /\ cnt'[c] = cnt[c] + 1 /\ cnt[c] \in Nat
        /\ a'[c] = (a[c] /\ c \notin Mutable) /\ a[c] \in BOOLEAN
        /\ stack'[n + 1].c = c /\ stack'[n + 1].a = a[c]
    <3>1. a \in [Closures -> BOOLEAN] /\ cnt \in [Closures -> Nat]
          BY DEF CInv, ClosureType
    <3>2. a'[c] = (a[c] /\ c \notin Mutable) /\ a[c] \in BOOLEAN
          BY <1>0, <3>1, Zenon
    <3>3. cnt'[c] = cnt[c] + 1 /\ cnt[c] \in Nat
          BY <1>0, <3>1
    <3>4. stack'[n + 1].c = c /\ stack'[n + 1].a = a[c]
          BY <1>4, <1>5
    <3> QED
        BY <3>2, <3>3, <3>4
  <2>3. Counted(c)'
        BY <1>0, <1>1, <1>6, <2>1, <2>2 DEF CI, Counted, Owners
  <2>4. Guarded(c)'
    <3>1. env[c] # "live" => ~a[c] /\ c \notin registered /\ \A i \in Calls(stack, c) : ~stack[i].a
          BY <2>1 DEF CI, Guarded
    <3>2. env[c] # "live" => \A i \in Calls(stack', c) : ~stack'[i].a
          BY <1>4, <1>5, <2>2, <3>1
    <3> QED
        BY <1>0, <2>1, <2>2, <3>1, <3>2 DEF CI, Guarded
  <2>5. Pointed(c)'
    <3>1. env[c] = "live" => c \in registered' /\ cnt'[c] >= 1
          BY <1>0, <2>1, <2>2 DEF CI, Pointed
    <3>2. ASSUME env[c] = "live"
          PROVE  a'[c] \/ (c \in Mutable /\ \E i \in Calls(stack', c) : stack'[i].a)
      <4>1. CASE a[c]
            BY <4>1, <1>5, <2>2
      <4>2. CASE ~a[c]
        <5>1. c \in Mutable /\ \E i \in Calls(stack, c) : stack[i].a
              BY <3>2, <4>2, <2>1 DEF CI, Pointed
        <5>2. PICK i \in Calls(stack, c) : stack[i].a
              BY <5>1
        <5>3. i \in Calls(stack', c) /\ i \in 1 .. n
              BY <5>2, <1>5
        <5>4. stack'[i].a
              BY <5>2, <5>3, <1>4
        <5> QED
            BY <5>1, <5>3, <5>4
      <4> QED
          BY <4>1, <4>2, <2>2
    <3>3. c \in Mutable => ~a'[c]
          BY <2>2
    <3>4. ASSUME c \in Mutable, NEW i \in Calls(stack', c), NEW j \in Calls(stack', c), i < j
          PROVE  ~stack'[j].a
      <4>1. CASE j = n + 1
        <5>1. i \in Calls(stack, c)
              BY <4>1, <3>4, <1>4, <1>5
        <5> QED
            BY <4>1, <5>1, <3>4, <2>1, <2>2 DEF CI, Pointed
      <4>2. CASE j # n + 1
        <5>1. j \in Calls(stack, c) /\ j \in 1 .. n
              BY <4>2, <3>4, <1>5
        <5>2. i \in Calls(stack, c)
          <6>1. i \in Calls(stack, c) \cup {n + 1}
                BY <3>4, <1>5
          <6> QED
              BY <6>1, <5>1, <3>4
        <5>3. ~stack[j].a
              BY <5>1, <5>2, <3>4, <2>1 DEF CI, Pointed
        <5> QED
            BY <5>1, <5>3, <1>4
      <4> QED
          BY <4>1, <4>2
    <3> QED
        BY <1>0, <3>1, <3>2, <3>3, <3>4 DEF Pointed
  <2> QED
      BY <2>3, <2>4, <2>5 DEF CI
<1> QED
    BY <1>1, <1>7, <1>8, <1>9 DEF CInv

LEMMA ReturnKeeps ==
  ASSUME CInv, finally
  PROVE  CInv'
<1> USE HeapAssumption, ClosureAssumption
<1>0. /\ stack \in Seq(Call) /\ stack # <<>>
      /\ stack' = SubSeq(stack, 1, Len(stack) - 1)
      /\ UNCHANGED <<forgotten, kept>>
      BY DEF CInv, ClosureType, finally, Pop
<1>1. PICK n \in Nat : n = Len(stack)
      BY <1>0
<1>2. /\ stack' \in Seq(Call) /\ n # 0 /\ stack[n] \in Call
      /\ Len(stack') = n - 1
      /\ \A i \in 1 .. n - 1 : stack'[i] = stack[i]
      BY <1>0, <1>1, PopLast
<1>3. PICK c \in Closures : c = stack[n].c
      BY <1>2 DEF Call
<1>4. PICK ptr \in BOOLEAN : ptr = IF c \in Mutable THEN stack[n].a ELSE a[c]
      BY <1>2 DEF CInv, ClosureType, Call
<1>5. unref(c, ptr)
      BY <1>1, <1>3, <1>4 DEF finally, Top
<1>6. /\ Calls(stack', c) = Calls(stack, c) \ {n}
      /\ n \in Calls(stack, c)
      /\ Calls(stack, c) \subseteq 1 .. n
      /\ \A d : d # c => Calls(stack', d) = Calls(stack, d)
      /\ \A d : Calls(stack', d) \subseteq 1 .. n - 1
      BY <1>1, <1>2, <1>3 DEF Calls
<1>7. /\ Cardinality(Calls(stack', c)) = Cardinality(Calls(stack, c)) - 1
      /\ Cardinality(Calls(stack, c)) \in Nat
      /\ Cardinality(Calls(stack', c)) \in Nat
      /\ Cardinality(Calls(stack', c)) = 0 => Calls(stack', c) = {}
  <2>1. PICK S : S = Calls(stack, c)
        OBVIOUS
  <2>2. S \subseteq 1 .. n /\ n \in S /\ S \ {n} \subseteq 1 .. n
        BY <2>1, <1>6
  <2>3. Cardinality(S \ {n}) = Cardinality(S) - 1 /\ Cardinality(S) \in Nat
        BY <2>2, OneLess
  <2>4. Cardinality(S \ {n}) \in Nat
        BY <2>2, OneMore
  <2>5. IsFiniteSet(1 .. n)
        BY FS_Interval
  <2>6. IsFiniteSet(S \ {n})
        BY <2>2, <2>5, FS_Subset
  <2>7. Cardinality(S \ {n}) = 0 => S \ {n} = {}
        BY <2>6, FS_EmptySet
  <2> QED
      BY <2>1, <2>3, <2>4, <2>7, <1>6
<1>8. /\ IInv'
      /\ \A d \in Closures : idx'[d] = idx[d] /\ Shown(d)' = Shown(d)
      /\ \A h \in Handles : \A d \in Closures :
           Shown(h)' = d => \E g \in Handles : Shown(g) = d
      BY ErrorShows
<1>9. /\ cnt[c] = Cardinality(Calls(stack, c)) + Owners(c)
      /\ Owners(c) \in {0, 1} /\ cnt[c] - 1 \in Nat
      /\ cnt' = [cnt EXCEPT ![c] = cnt[c] - 1]
      BY <1>5, <1>7 DEF CInv, CI, Counted, Owners, unref
<1>10. Reach(c) /\ env[c] # "none" /\ (Reach(c)' => Reach(c))
       BY <1>6 DEF Reach, CInv, CI, Guarded
<1>11. ptr => env[c] = "live"
       BY <1>4, <1>6, <1>10 DEF CInv, CI, Guarded
<1>12. CASE cnt[c] = 1
  <2>1. Calls(stack', c) = {} /\ Owners(c) = 0
        BY <1>7, <1>9, <1>12
  <2>2. Calls(stack, c) = {n}
        BY <2>1, <1>6
  <2>3. ptr <=> env[c] = "live"
        BY <1>4, <1>11, <2>2 DEF CInv, CI, Pointed
  <2>4. /\ a' = [a EXCEPT ![c] = FALSE] /\ registered' = registered \ {c}
        /\ Destroy(c, ptr)
        BY <1>5, <1>12 DEF unref
  <2>5. env' = [env EXCEPT ![c] = "freed"]
        BY <1>10, <2>3, <2>4 DEF Destroy, CInv, ClosureType, CI, Guarded
  <2>6. ClosureType'
        BY <1>0, <1>2, <1>9, <2>4, <2>5 DEF CInv, ClosureType
  <2>7. ASSUME NEW d \in Closures \ {c}
        PROVE  CI(d)'
    <3>1. Calls(stack', d) = Calls(stack, d) /\ Calls(stack', d) \subseteq 1 .. n - 1
          BY <1>6
    <3>2. \A i \in Calls(stack, d) : stack'[i] = stack[i]
          BY <3>1, <1>2
    <3>3. Untouched(d)
          BY <1>0, <1>8, <1>9, <2>4, <2>5, <3>1, <3>2
          DEF Untouched, CInv, ClosureType, Reach
    <3> QED
        BY <3>3, Frame
  <2>8. env'[c] = "freed" /\ ~a'[c] /\ c \notin registered' /\ cnt'[c] = 0
        BY <1>9, <1>12, <2>4, <2>5 DEF CInv, ClosureType
  <2>9. Counted(c)'
    <3>1. cnt'[c] = Cardinality(Calls(stack', c))
          BY <1>7, <1>9, <1>12, <2>1, <2>8
    <3>2. Owners(c)' = Owners(c)
          BY <1>0, <1>8 DEF Owners
    <3>3. (c \in forgotten => idx[c] = None)' /\ (idx[c] # None => Shown(c) = c)'
          BY <1>0, <1>8 DEF Counted, CInv, CI
    <3>4. cnt'[c] = Cardinality(Calls(stack', c)) + Owners(c)'
          BY <1>7, <3>1, <3>2, <2>1
    <3> QED
        BY <3>3, <3>4 DEF Counted
  <2>10. Guarded(c)' /\ Pointed(c)'
         BY <2>1, <2>8 DEF Guarded, Pointed
  <2> QED
      BY <1>8, <2>6, <2>7, <2>9, <2>10 DEF CInv, CI
<1>13. CASE cnt[c] # 1
  <2>1. UNCHANGED <<env, registered>> /\ a' = [a EXCEPT ![c] = ptr]
        BY <1>5, <1>13 DEF unref
  <2>2. ClosureType'
        BY <1>0, <1>2, <1>9, <2>1 DEF CInv, ClosureType
  <2>3. ASSUME NEW d \in Closures \ {c}
        PROVE  CI(d)'
    <3>1. Calls(stack', d) = Calls(stack, d) /\ Calls(stack', d) \subseteq 1 .. n - 1
          BY <1>6
    <3>2. \A i \in Calls(stack, d) : stack'[i] = stack[i]
          BY <3>1, <1>2
    <3>3. Untouched(d)
          BY <1>0, <1>8, <1>9, <2>1, <3>1, <3>2
          DEF Untouched, CInv, ClosureType, Reach
    <3> QED
        BY <3>3, Frame
  <2>4. /\ cnt'[c] = cnt[c] - 1 /\ cnt'[c] >= 1
        /\ a'[c] = ptr
        /\ Calls(stack', c) \subseteq 1 .. n - 1
        BY <1>6, <1>9, <1>13, <2>1 DEF CInv, ClosureType
  <2>5. \A i \in Calls(stack', c) : i \in Calls(stack, c) /\ i \in 1 .. n - 1 /\ stack'[i] = stack[i]
        BY <1>2, <1>6, <2>4
  <2>6. Counted(c)'
    <3>1. Owners(c)' = Owners(c)
          BY <1>0, <1>8 DEF Owners
    <3>2. cnt'[c] = Cardinality(Calls(stack', c)) + Owners(c)
          BY <1>7, <1>9, <2>4
    <3>3. (c \in forgotten => idx[c] = None)' /\ (idx[c] # None => Shown(c) = c)'
          BY <1>0, <1>8 DEF Counted, CInv, CI
    <3> QED
        BY <3>1, <3>2, <3>3 DEF Counted
  <2>7. Guarded(c)'
        BY <1>0, <1>10, <1>11, <2>1, <2>4, <2>5 DEF CInv, CI, Guarded
  <2>8. Pointed(c)'
    <3>1. Pointed(c)
          BY DEF CInv, CI
    <3>2. ASSUME env[c] = "live"
          PROVE  a'[c] \/ (c \in Mutable /\ \E i \in Calls(stack', c) : stack'[i].a)
      <4>1. CASE c \notin Mutable
            BY <4>1, <3>1, <3>2, <1>4, <2>4 DEF Pointed
      <4>2. CASE c \in Mutable /\ ~stack[n].a
        <5>1. ~a[c]
              BY <4>2, <3>1, <1>6 DEF Pointed
        <5>2. PICK i \in Calls(stack, c) : stack[i].a
              BY <5>1, <3>1, <3>2 DEF Pointed
        <5>3. i # n
              BY <5>2, <4>2
        <5>4. i \in Calls(stack', c)
              BY <5>2, <5>3, <1>6
        <5> QED
            BY <5>2, <5>4, <4>2, <2>5
      <4>3. CASE c \in Mutable /\ stack[n].a
            BY <4>3, <1>4, <2>4
      <4> QED
          BY <4>1, <4>2, <4>3
    <3>3. ASSUME c \in Mutable, NEW i \in Calls(stack', c)
          PROVE  ~a'[c]
      <4>1. i \in Calls(stack, c) /\ n \in Calls(stack, c) /\ i < n
            BY <3>3, <2>5, <1>6
      <4>2. ~stack[n].a
            BY <3>1, <3>3, <4>1 DEF Pointed
      <4> QED
          BY <3>3, <4>2, <1>4, <2>4
    <3>4. ASSUME c \in Mutable, NEW i \in Calls(stack', c), NEW j \in Calls(stack', c), i < j
          PROVE  ~stack'[j].a
          BY <3>1, <3>4, <2>5 DEF Pointed
    <3> QED
        BY <3>1, <3>2, <3>3, <3>4, <2>1, <2>4 DEF Pointed
  <2> QED
      BY <1>8, <2>2, <2>3, <2>6, <2>7, <2>8 DEF CInv, CI
<1> QED
    BY <1>12, <1>13

-----------------------------------------------------------------------------
(* The invariant, and what follows from it.                                *)

LEMMA InitCInv == Init => CInv
<1> USE HeapAssumption, ClosureAssumption
<1> SUFFICES ASSUME Init PROVE CInv
    OBVIOUS
<1>1. IInv
      BY InitIInv DEF Init
<1>2. ClosureType
      BY DEF Init, ClosureType
<1>3. ASSUME NEW c \in Closures
      PROVE  CI(c)
  <2>1. idx[c] = None /\ \A h \in Handles : Shown(h) = None
        BY DEF Init, HeapInit, Shown
  <2>2. Calls(stack, c) = {}
        BY DEF Init, Calls
  <2>3. Cardinality(Calls(stack, c)) = 0
        BY <2>2, FS_EmptySet
  <2>4. Counted(c)
        BY <2>1, <2>3 DEF Init, Counted, Owners
  <2>5. ~Reach(c)
        BY <2>1, <2>2 DEF Init, Reach
  <2>6. Guarded(c) /\ Pointed(c)
        BY <2>2, <2>5 DEF Init, Guarded, Pointed
  <2> QED
      BY <2>4, <2>6 DEF CI
<1> QED
    BY <1>1, <1>2, <1>3 DEF CInv

LEMMA NextCInv == CInv /\ [Next]_vars => CInv'
<1> SUFFICES ASSUME CInv, [Next]_vars PROVE CInv'
    OBVIOUS
<1>1. CASE UNCHANGED vars
  <2>1. [HeapNext]_heapVars /\ UNCHANGED closureVars
        BY <1>1 DEF vars
  <2>2. \A h \in Handles : idx'[h] = idx[h] /\ Shown(h)' = Shown(h)
        BY <1>1 DEF vars, heapVars, Shown
  <2>3. Closures \subseteq Handles
        BY ClosureAssumption
  <2> QED
      BY <2>1, <2>2, <2>3, NextIInv, HeapOnly DEF CInv
<1>2. ASSUME NEW c \in Closures, makeClosure(c) PROVE CInv'
      BY <1>2, MakeKeeps
<1>3. ASSUME NEW c \in Closures, LetGo(c) PROVE CInv'
      BY <1>3, KeptKeeps
<1>4. ASSUME NEW c \in Closures, real(c) PROVE CInv'
      BY <1>4, CallKeeps
<1>5. ASSUME NEW c \in Closures, DropClosure(c) PROVE CInv'
      BY <1>5, DropKeeps
<1>6. ASSUME NEW c \in Closures, Forget(c) PROVE CInv'
      BY <1>6, ForgetKeeps
<1>7. ASSUME NEW c \in Closures, Collect(c) PROVE CInv'
      BY <1>7, CollectKeeps
<1>8. ASSUME NEW h \in Handles, HandOut(h) PROVE CInv'
      BY <1>8, KeptKeeps
<1>9. ASSUME finally PROVE CInv'
      BY <1>9, ReturnKeeps
<1>10. ASSUME NEW h \in Other, OtherValue(h) PROVE CInv'
       BY <1>10, OtherValueKeeps
<1> QED
    BY <1>1, <1>2, <1>3, <1>4, <1>5, <1>6, <1>7, <1>8, <1>9, <1>10 DEF Next

THEOREM ClosuresCounted == Spec => []CInv
BY InitCInv, NextCInv, PTL DEF Spec

\* Every variable keeps its type.
THEOREM ClosureTypes == Spec => []TypeOK
<1>1. CInv => TypeOK
      BY DEF CInv, ClosureType, IInv, TypeOK
<1> QED
    BY <1>1, ClosuresCounted, PTL

\* No call runs in a closure that was freed: its pointer is not null, so the
\* closure is live.
THEOREM NoCallInFreed == Spec => []RunsAlive
<1>1. CInv => RunsAlive
  <2> SUFFICES ASSUME CInv, NEW i \in DOMAIN stack, stack[i].a
               PROVE  env[stack[i].c] = "live"
      BY DEF RunsAlive
  <2>1. i \in 1 .. Len(stack) /\ stack[i] \in Call
        BY DEF CInv, ClosureType
  <2>2. stack[i].c \in Closures /\ i \in Calls(stack, stack[i].c)
        BY <2>1 DEF Call, Calls
  <2> QED
      BY <2>2 DEF CInv, CI, Guarded
<1> QED
    BY <1>1, ClosuresCounted, PTL

\* Only the outermost of the calls of a mutable closure has its pointer.
THEOREM NoSecondEntry == Spec => []RunsAlone
<1>1. CInv => RunsAlone
  <2> SUFFICES ASSUME CInv, NEW i \in DOMAIN stack, NEW j \in DOMAIN stack,
                      stack[i].c = stack[j].c, stack[i].c \in Mutable,
                      stack[i].a, stack[j].a
               PROVE  i = j
      BY DEF RunsAlone
  <2>1. i \in 1 .. Len(stack) /\ j \in 1 .. Len(stack) /\ stack[i] \in Call
        BY DEF CInv, ClosureType
  <2>2. PICK c \in Closures : c = stack[i].c
        BY <2>1 DEF Call
  <2>3. i \in Calls(stack, c) /\ j \in Calls(stack, c)
        BY <2>1, <2>2 DEF Calls
  <2>4. ~(i < j) /\ ~(j < i)
        BY <2>2, <2>3 DEF CInv, CI, Pointed
  <2> QED
      BY <2>1, <2>4
<1> QED
    BY <1>1, ClosuresCounted, PTL

\* Nothing is freed twice.
THEOREM NoDoubleFree == Spec => []FreedOnce
<1>1. CInv => FreedOnce
      BY DEF CInv, CI, Guarded, FreedOnce
<1> QED
    BY <1>1, ClosuresCounted, PTL

\* What is allocated is owned by Rust, running, or left to the collector.
THEOREM NothingLost == Spec => []NoLeak
<1>1. CInv => NoLeak
  <2> SUFFICES ASSUME CInv, NEW c \in Closures, env[c] = "live"
               PROVE  \/ idx[c] # None
                      \/ \E i \in DOMAIN stack : stack[i].c = c
                      \/ c \in forgotten /\ c \in registered
      BY DEF NoLeak
  <2>1. c \in registered /\ cnt[c] >= 1 /\ cnt[c] = Cardinality(Calls(stack, c)) + Owners(c)
        BY DEF CInv, CI, Counted, Pointed
  <2>2. CASE Calls(stack, c) = {}
    <3>1. Cardinality(Calls(stack, c)) = 0
          BY <2>2, FS_EmptySet
    <3>2. Owners(c) # 0
          BY <2>1, <3>1
    <3> QED
        BY <2>1, <3>2 DEF Owners
  <2>3. CASE Calls(stack, c) # {}
    <3>1. DOMAIN stack = 1 .. Len(stack)
          BY DEF CInv, ClosureType
    <3>2. \E i \in 1 .. Len(stack) : stack[i].c = c
          BY <2>3 DEF Calls
    <3> QED
        BY <3>1, <3>2
  <2> QED
      BY <2>2, <2>3
<1> QED
    BY <1>1, ClosuresCounted, PTL

\* Whatever the closures do, the table sees additions and removals only.
LEMMA StepIsHeapStep == [Next]_vars => [HeapNext]_heapVars
<1> USE ClosureAssumption DEF HeapNext
<1> SUFFICES ASSUME [Next]_vars, ~UNCHANGED heapVars PROVE HeapNext
    OBVIOUS
<1>0. Closures \subseteq Handles /\ Closures \subseteq Values /\ Other \subseteq Handles
      BY DEF Other
<1>1. ASSUME NEW c \in Closures, makeClosure(c) PROVE HeapNext
      BY <1>0, <1>1 DEF makeClosure, ReturnObject
<1>2. ASSUME NEW c \in Closures, real(c) PROVE HeapNext
      BY <1>0, <1>2 DEF real, func_elem, ReturnObject
<1>3. ASSUME NEW c \in Closures, DropClosure(c) \/ Forget(c) PROVE HeapNext
      BY <1>0, <1>3 DEF DropClosure, Forget
<1>4. ASSUME finally PROVE HeapNext
      BY <1>0, <1>4 DEF finally
<1>5. ASSUME NEW h \in Other, OtherValue(h) PROVE HeapNext
      BY <1>0, <1>5 DEF OtherValue
<1> QED
    BY <1>1, <1>2, <1>3, <1>4, <1>5 DEF Next, vars, LetGo, Collect, HandOut

LEMMA SpecIsHeapSpec == Spec => HeapSpec
<1>1. Init => HeapInit
      BY DEF Init
<1> QED
    BY <1>1, StepIsHeapStep, PTL DEF Spec, HeapSpec

\* The table implements JsRefs while closures are made, called and dropped.
THEOREM ReferencesOfClosures == Spec => IndependentRefs
BY SpecIsHeapSpec, References, PTL

\* It grows only when every slot is in use.
THEOREM NoSlotLostToClosures == Spec => GrowsWhenFull
BY SpecIsHeapSpec, NoSlotLost, PTL

=============================================================================
