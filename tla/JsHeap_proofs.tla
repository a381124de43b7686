--------------------------- MODULE JsHeap_proofs ---------------------------
(***************************************************************************)
(* Proofs about the table of JavaScript objects: for any number of         *)
(* JsValues no slot is handed out twice, none is lost, and the table is    *)
(* what JsRefs promises.                                                   *)
(***************************************************************************)
EXTENDS JsHeap, TLAPS

\* The list of the free slots: f[1] is heap_next, each slot holds the number
\* of the next one and the last holds the length of the table.
FreeList(n, f) ==
  /\ n \in Nat
  /\ f \in [1 .. n -> Reserved .. length - 1]
  /\ \A i, j \in 1 .. n : f[i] = f[j] => i = j
  /\ \A i \in 1 .. n, h \in Handles : idx[h] # f[i]
  /\ \A s \in Reserved .. length - 1 :
       (\E h \in Handles : idx[h] = s) \/ (\E i \in 1 .. n : f[i] = s)
  /\ heap_next = IF n = 0 THEN length ELSE f[1]
  /\ \A i \in 1 .. n : heap[f[i]] = IF i = n THEN length ELSE f[i + 1]

ConstantsIntact == \A i \in 0 .. Reserved - 1 : heap[i] = Constant[i]

\* Two JsValues share a slot only if it holds a constant.
SlotsApart ==
  \A g, h \in Handles : idx[g] = idx[h] /\ idx[g] # None /\ g # h => idx[g] < Reserved

HeldAreObjects ==
  \A h \in Handles : idx[h] # None => heap[idx[h]] \in Values \cup Constants

IInv == /\ HeapTypeOK /\ ConstantsIntact /\ SlotsApart /\ HeldAreObjects
        /\ \E n, f : FreeList(n, f)

-----------------------------------------------------------------------------
LEMMA InitIInv == HeapInit => IInv
<1> USE HeapAssumption
<1> SUFFICES ASSUME HeapInit PROVE IInv
    OBVIOUS
<1>1. HeapTypeOK
      BY DEF HeapInit, HeapTypeOK
<1>2. ConstantsIntact /\ SlotsApart /\ HeldAreObjects
      BY DEF HeapInit, ConstantsIntact, SlotsApart, HeldAreObjects
<1>3. FreeList(0, [i \in 1 .. 0 |-> 0])
      BY DEF HeapInit, FreeList
<1> QED
    BY <1>1, <1>2, <1>3 DEF IInv

\* What adding an object does, split as addHeapObject splits it.
LEMMA AddGrown ==
  ASSUME IInv, NEW h \in Handles, NEW v \in Values \cup Constants,
         addHeapObject(h, v), heap_next = length
  PROVE  IInv' /\ \A g \in Handles : idx[g] # None => idx[g] # heap_next
<1> USE HeapAssumption
<1>0. PICK n, f : FreeList(n, f)
      BY DEF IInv
<1>1. n = 0
      BY <1>0 DEF FreeList, IInv, HeapTypeOK
<1>2. /\ idx[h] = None
      /\ length' = length + 1
      /\ heap' = [i \in 0 .. length |-> IF i = length THEN v ELSE heap[i]]
      /\ heap_next' = length + 1
      /\ idx' = [idx EXCEPT ![h] = length]
      /\ length \in Nat
      BY DEF addHeapObject, IInv, HeapTypeOK
<1>3. HeapTypeOK'
      BY <1>2 DEF IInv, HeapTypeOK
<1>4. ConstantsIntact' /\ SlotsApart' /\ HeldAreObjects'
      BY <1>2 DEF IInv, HeapTypeOK, ConstantsIntact, SlotsApart, HeldAreObjects
<1>5. FreeList(0, f)'
      BY <1>0, <1>1, <1>2 DEF FreeList, IInv, HeapTypeOK
<1> QED
    BY <1>2, <1>3, <1>4, <1>5 DEF IInv, HeapTypeOK

LEMMA AddFromList ==
  ASSUME IInv, NEW h \in Handles, NEW v \in Values \cup Constants,
         addHeapObject(h, v), heap_next # length
  PROVE  IInv' /\ \A g \in Handles : idx[g] # None => idx[g] # heap_next
<1> USE HeapAssumption
<1>0. PICK n, f : FreeList(n, f)
      BY DEF IInv
<1>1. n \in Nat \ {0} /\ heap_next = f[1] /\ f[1] \in Reserved .. length - 1
      BY <1>0 DEF FreeList
<1>2. /\ idx[h] = None
      /\ length' = length
      /\ heap' = [i \in 0 .. length - 1 |-> IF i = f[1] THEN v ELSE heap[i]]
      /\ heap_next' = heap[f[1]]
      /\ idx' = [idx EXCEPT ![h] = f[1]]
      /\ length \in Nat
      BY <1>1 DEF addHeapObject, IInv, HeapTypeOK
<1> DEFINE t == [i \in 1 .. n - 1 |-> f[i + 1]]
<1>3. heap[f[1]] = IF n = 1 THEN length ELSE f[2]
      BY <1>0, <1>1 DEF FreeList
<1>4. HeapTypeOK'
      BY <1>0, <1>1, <1>2, <1>3 DEF IInv, HeapTypeOK, FreeList
<1>5. \A g \in Handles : idx[g] # f[1]
      BY <1>0, <1>1 DEF FreeList
<1>6. ConstantsIntact' /\ SlotsApart' /\ HeldAreObjects'
      BY <1>1, <1>2, <1>5 DEF IInv, HeapTypeOK, ConstantsIntact, SlotsApart, HeldAreObjects
<1>7. FreeList(n - 1, t)'
  <2>1. n - 1 \in Nat /\ t \in [1 .. n - 1 -> Reserved .. length' - 1]
        BY <1>0, <1>1, <1>2 DEF FreeList
  <2>2. \A i, j \in 1 .. n - 1 : t[i] = t[j] => i = j
        BY <1>0, <1>1 DEF FreeList
  <2>3. \A i \in 1 .. n - 1, g \in Handles : idx'[g] # t[i]
        BY <1>0, <1>1, <1>2 DEF FreeList, IInv, HeapTypeOK
  <2>4. ASSUME NEW s \in Reserved .. length' - 1
        PROVE  (\E g \in Handles : idx'[g] = s) \/ (\E i \in 1 .. n - 1 : t[i] = s)
    <3>1. CASE s = f[1]
          BY <3>1, <1>2 DEF IInv, HeapTypeOK
    <3>2. CASE \E g \in Handles : idx[g] = s
          BY <3>2, <1>2 DEF IInv, HeapTypeOK
    <3>3. CASE \E i \in 1 .. n : f[i] = s /\ i # 1
      <4>1. PICK i \in 1 .. n : f[i] = s /\ i # 1
            BY <3>3
      <4>2. i - 1 \in 1 .. n - 1 /\ t[i - 1] = s
            BY <4>1, <1>1
      <4> QED
          BY <4>2
    <3> QED
        BY <3>1, <3>2, <3>3, <1>0, <1>2 DEF FreeList
  <2>5. heap_next' = IF n - 1 = 0 THEN length' ELSE t[1]
        BY <1>1, <1>2, <1>3
  <2>6. ASSUME NEW i \in 1 .. n - 1
        PROVE  heap'[t[i]] = IF i = n - 1 THEN length' ELSE t[i + 1]
    <3>1. i + 1 \in 1 .. n /\ t[i] = f[i + 1] /\ f[i + 1] # f[1] /\ f[i + 1] \in 0 .. length - 1
          BY <1>0, <1>1 DEF FreeList, IInv, HeapTypeOK
    <3>2. heap'[t[i]] = heap[f[i + 1]]
          BY <3>1, <1>2
    <3>3. heap[f[i + 1]] = IF i + 1 = n THEN length ELSE f[i + 2]
          BY <3>1, <1>0 DEF FreeList
    <3> QED
        BY <3>1, <3>2, <3>3, <1>1, <1>2
  <2> HIDE DEF t
  <2> QED
      BY <2>1, <2>2, <2>3, <2>4, <2>5, <2>6 DEF FreeList
<1> QED
    BY <1>1, <1>4, <1>5, <1>6, <1>7 DEF IInv

LEMMA AddKeeps ==
  ASSUME IInv, NEW h \in Handles, NEW v \in Values \cup Constants, addHeapObject(h, v)
  PROVE  IInv' /\ \A g \in Handles : idx[g] # None => idx[g] # heap_next
BY AddGrown, AddFromList

LEMMA TakeKeeps ==
  ASSUME IInv, NEW h \in Handles, takeObject(h)
  PROVE  IInv' /\ \A g \in Handles \ {h} : idx[g] # None => heap'[idx[g]] = heap[idx[g]]
<1> USE HeapAssumption
<1>0. PICK n, f : FreeList(n, f)
      BY DEF IInv
<1>k. PICK k : k = idx[h]
      OBVIOUS
<1>1. /\ k = idx[h] /\ k \in 0 .. length - 1
      /\ idx' = [idx EXCEPT ![h] = None] /\ length' = length
      BY <1>k DEF takeObject, IInv, HeapTypeOK
<1>2. CASE k < Reserved
  <2>1. heap' = heap /\ heap_next' = heap_next
        BY <1>1, <1>2 DEF takeObject, dropObject
  <2>2. HeapTypeOK' /\ ConstantsIntact' /\ SlotsApart' /\ HeldAreObjects'
        BY <1>1, <2>1 DEF IInv, HeapTypeOK, ConstantsIntact, SlotsApart, HeldAreObjects
  <2>3. ASSUME NEW s \in Reserved .. length - 1
        PROVE  (\E g \in Handles : idx'[g] = s) \/ (\E i \in 1 .. n : f[i] = s)
    <3>1. CASE \E i \in 1 .. n : f[i] = s
          BY <3>1
    <3>2. CASE \E g \in Handles : idx[g] = s
      <4>1. PICK g \in Handles : idx[g] = s
            BY <3>2
      <4>2. g # h
            BY <4>1, <1>1, <1>2
      <4> QED
          BY <4>1, <4>2, <1>1 DEF IInv, HeapTypeOK
    <3> QED
        BY <3>1, <3>2, <1>0 DEF FreeList
  <2>4. ASSUME NEW i \in 1 .. n, NEW g \in Handles
        PROVE  idx'[g] # f[i]
    <3>1. f[i] \in Nat /\ idx[g] # f[i]
          BY <1>0 DEF FreeList, IInv, HeapTypeOK
    <3> QED
        BY <3>1, <1>1 DEF IInv, HeapTypeOK
  <2>5. FreeList(n, f)'
        BY <1>0, <1>1, <2>1, <2>3, <2>4 DEF FreeList
  <2> QED
      BY <2>1, <2>2, <2>5 DEF IInv
<1>3. CASE k >= Reserved
  <2>1. heap' = [heap EXCEPT ![k] = heap_next] /\ heap_next' = k
        BY <1>1, <1>3 DEF takeObject, dropObject, IInv, HeapTypeOK
  <2>2. \A g \in Handles \ {h} : idx[g] # None => idx[g] # k
        BY <1>1, <1>3 DEF IInv, SlotsApart, HeapTypeOK
  <2>3. HeapTypeOK' /\ ConstantsIntact' /\ SlotsApart' /\ HeldAreObjects'
        BY <1>1, <1>3, <2>1, <2>2
        DEF IInv, HeapTypeOK, ConstantsIntact, SlotsApart, HeldAreObjects
  <2> DEFINE t == [i \in 1 .. n + 1 |-> IF i = 1 THEN k ELSE f[i - 1]]
  <2>4. /\ n \in Nat
        /\ t[1] = k
        /\ \A i \in 1 .. n + 1 : i # 1 => i - 1 \in 1 .. n /\ t[i] = f[i - 1] /\ t[i] # k
        BY <1>0, <1>1 DEF FreeList
  <2>5. t \in [1 .. n + 1 -> Reserved .. length' - 1]
        BY <1>0, <1>1, <1>3, <2>4 DEF FreeList, IInv, HeapTypeOK
  <2> HIDE DEF t
  <2>6. \A i, j \in 1 .. n + 1 : t[i] = t[j] => i = j
    <3> SUFFICES ASSUME NEW i \in 1 .. n + 1, NEW j \in 1 .. n + 1, t[i] = t[j]
                 PROVE  i = j
        OBVIOUS
    <3>1. CASE i = 1 \/ j = 1
          BY <3>1, <2>4
    <3>2. CASE i # 1 /\ j # 1
      <4>1. i - 1 \in 1 .. n /\ j - 1 \in 1 .. n /\ f[i - 1] = f[j - 1]
            BY <3>2, <2>4
      <4>2. i - 1 = j - 1
            BY <4>1, <1>0 DEF FreeList
      <4> QED
          BY <4>2
    <3> QED
        BY <3>1, <3>2
  <2>7. ASSUME NEW i \in 1 .. n + 1, NEW g \in Handles
        PROVE  idx'[g] # t[i]
    <3>1. t[i] \in Nat /\ (g # h => idx'[g] = idx[g]) /\ (g = h => idx'[g] = None)
          BY <1>1, <2>5 DEF IInv, HeapTypeOK
    <3>2. CASE i = 1
          BY <3>1, <3>2, <2>2, <2>4, <1>1
    <3>3. CASE i # 1
      <4>1. i - 1 \in 1 .. n /\ t[i] = f[i - 1]
            BY <3>3, <2>4
      <4> QED
          BY <4>1, <3>1, <1>0 DEF FreeList
    <3> QED
        BY <3>2, <3>3
  <2>8. ASSUME NEW s \in Reserved .. length' - 1
        PROVE  (\E g \in Handles : idx'[g] = s) \/ (\E i \in 1 .. n + 1 : t[i] = s)
    <3>1. CASE s = k
          BY <3>1, <2>4
    <3>2. CASE \E i \in 1 .. n : f[i] = s
      <4>1. PICK i \in 1 .. n : f[i] = s
            BY <3>2
      <4>2. i + 1 \in 1 .. n + 1 /\ t[i + 1] = s
            BY <4>1, <2>4
      <4> QED
          BY <4>2
    <3>3. CASE s # k /\ \E g \in Handles : idx[g] = s
          BY <3>3, <1>1 DEF IInv, HeapTypeOK
    <3> QED
        BY <3>1, <3>2, <3>3, <1>0, <1>1 DEF FreeList
  <2>9. heap_next' = IF n + 1 = 0 THEN length' ELSE t[1]
        BY <2>1, <2>4
  <2>10. ASSUME NEW i \in 1 .. n + 1
         PROVE  heap'[t[i]] = IF i = n + 1 THEN length' ELSE t[i + 1]
    <3>1. CASE i = 1
      <4>1. heap'[t[i]] = heap_next
            BY <3>1, <2>1, <2>4, <1>1 DEF IInv, HeapTypeOK
      <4>2. heap_next = IF n = 0 THEN length ELSE f[1]
            BY <1>0 DEF FreeList
      <4>3. n # 0 => t[2] = f[1]
            BY <2>4
      <4> QED
          BY <3>1, <4>1, <4>2, <4>3, <2>4, <1>1
    <3>2. CASE i # 1
      <4>1. i - 1 \in 1 .. n /\ t[i] = f[i - 1] /\ t[i] # k
            BY <3>2, <2>4
      <4>2. f[i - 1] \in DOMAIN heap
            BY <4>1, <1>0 DEF FreeList, IInv, HeapTypeOK
      <4>3. heap'[t[i]] = heap[f[i - 1]]
            BY <4>1, <4>2, <2>1
      <4>4. heap[f[i - 1]] = IF i - 1 = n THEN length ELSE f[i]
            BY <4>1, <1>0 DEF FreeList
      <4>5. i # n + 1 => t[i + 1] = f[i]
            BY <2>4
      <4> QED
          BY <4>3, <4>4, <4>5, <2>4, <1>1
    <3> QED
        BY <3>1, <3>2
  <2>11. n + 1 \in Nat
         BY <2>4
  <2>12. FreeList(n + 1, t)'
         BY <2>5, <2>6, <2>7, <2>8, <2>9, <2>10, <2>11 DEF FreeList
  <2> QED
      BY <2>1, <2>2, <2>3, <2>12, <1>1 DEF IInv, HeapTypeOK
<1> QED
    BY <1>1, <1>2, <1>3

LEMMA ConstantKeeps ==
  ASSUME IInv, NEW h \in Handles, ConstantValue(h)
  PROVE  IInv'
<1> USE HeapAssumption
<1>0. PICK n, f : FreeList(n, f)
      BY DEF IInv
<1>1. PICK k \in 0 .. Reserved - 1 : idx' = [idx EXCEPT ![h] = k]
      BY DEF ConstantValue
<1>2. idx[h] = None /\ heap' = heap /\ length' = length /\ heap_next' = heap_next
      BY DEF ConstantValue
<1>3. HeapTypeOK' /\ ConstantsIntact' /\ SlotsApart' /\ HeldAreObjects'
      BY <1>1, <1>2 DEF IInv, HeapTypeOK, ConstantsIntact, SlotsApart, HeldAreObjects
<1>4. ASSUME NEW i \in 1 .. n, NEW g \in Handles
      PROVE  idx'[g] # f[i]
  <2>1. f[i] \in Nat /\ f[i] >= Reserved /\ idx[g] # f[i]
        BY <1>0 DEF FreeList, IInv, HeapTypeOK
  <2> QED
      BY <2>1, <1>1 DEF IInv, HeapTypeOK
<1>5. ASSUME NEW s \in Reserved .. length - 1
      PROVE  (\E g \in Handles : idx'[g] = s) \/ (\E i \in 1 .. n : f[i] = s)
  <2>1. CASE \E i \in 1 .. n : f[i] = s
        BY <2>1
  <2>2. CASE \E g \in Handles : idx[g] = s
        BY <2>2, <1>1, <1>2 DEF IInv, HeapTypeOK
  <2> QED
      BY <2>1, <2>2, <1>0 DEF FreeList
<1>6. FreeList(n, f)'
      BY <1>0, <1>2, <1>4, <1>5 DEF FreeList
<1> QED
    BY <1>3, <1>6 DEF IInv

LEMMA CloneIsAdd ==
  ASSUME IInv, NEW g \in Handles, NEW h \in Handles, object_clone_ref(g, h)
  PROVE  heap[idx[g]] \in Values \cup Constants /\ addHeapObject(h, heap[idx[g]])
BY DEF IInv, HeldAreObjects, object_clone_ref, getObject

LEMMA NextIInv == IInv /\ [HeapNext]_heapVars => IInv'
<1> SUFFICES ASSUME IInv, [HeapNext]_heapVars PROVE IInv'
    OBVIOUS
<1>1. CASE UNCHANGED heapVars
  <2>1. PICK n, f : FreeList(n, f)
        BY DEF IInv
  <2>2. FreeList(n, f)'
        BY <1>1, <2>1 DEF heapVars, FreeList
  <2> QED
      BY <1>1, <2>2
      DEF heapVars, IInv, HeapTypeOK, ConstantsIntact, SlotsApart, HeldAreObjects
<1>2. ASSUME NEW h \in Handles, NEW v \in Values, ReturnObject(h, v) \/ handleError(h, v)
      PROVE  IInv'
      BY <1>2, AddKeeps DEF ReturnObject, handleError
<1>3. ASSUME NEW h \in Handles, ConstantValue(h)
      PROVE  IInv'
      BY <1>3, ConstantKeeps
<1>4. ASSUME NEW h \in Handles, takeObject(h)
      PROVE  IInv'
      BY <1>4, TakeKeeps
<1>5. ASSUME NEW g \in Handles, NEW h \in Handles, object_clone_ref(g, h)
      PROVE  IInv'
      BY <1>5, CloneIsAdd, AddKeeps
<1> QED
    BY <1>1, <1>2, <1>3, <1>4, <1>5 DEF HeapNext

\* The table keeps its type, its constants, and a free list that holds every slot
\* that is not in use, once.
THEOREM TableKept == HeapSpec => []IInv
BY InitIInv, NextIInv, PTL DEF HeapSpec

\* addHeapObject makes the table longer only when every slot is in use.
THEOREM NoSlotLost == HeapSpec => GrowsWhenFull
<1>1. ASSUME IInv, [HeapNext]_heapVars, length' > length
      PROVE  \A i \in Reserved .. length - 1 : \E h \in Handles : idx[h] = i
  <2> USE HeapAssumption
  <2>0. PICK n, f : FreeList(n, f)
        BY <1>1 DEF IInv
  <2>1. ASSUME NEW h \in Handles, NEW v, addHeapObject(h, v)
        PROVE  heap_next = length
        BY <1>1, <2>1 DEF addHeapObject, IInv, HeapTypeOK
  <2>2. heap_next = length
        BY <1>1, <2>1
        DEF HeapNext, heapVars, ReturnObject, handleError, ConstantValue, takeObject,
            object_clone_ref, getObject, IInv, HeapTypeOK
  <2>3. n = 0
        BY <2>0, <2>2, <1>1 DEF FreeList, IInv, HeapTypeOK
  <2> QED
      BY <2>0, <2>3 DEF FreeList
<1>2. IInv /\ [HeapNext]_heapVars
        => [length' > length =>
              \A i \in Reserved .. length - 1 : \E h \in Handles : idx[h] = i]_heapVars
      BY <1>1
<1> QED
    BY <1>2, TableKept, PTL DEF HeapSpec, GrowsWhenFull

-----------------------------------------------------------------------------
(* The table implements independent references.                            *)

Shown(h) == IF idx[h] = None THEN None ELSE heap[idx[h]]
shown    == [h \in Handles |-> Shown(h)]

LEMMA AddIsReceive ==
  ASSUME IInv, NEW h \in Handles, NEW v \in Values \cup Constants, addHeapObject(h, v)
  PROVE  Refs!Receive(h, v)
<1> USE HeapAssumption
<1>1. \A g \in Handles : idx[g] # None => idx[g] # heap_next
      BY AddKeeps
<1>2. /\ idx[h] = None
      /\ length' \in {length, length + 1} /\ heap_next \in 0 .. length' - 1
      /\ heap' = [i \in 0 .. length' - 1 |-> IF i = heap_next THEN v ELSE heap[i]]
      /\ idx' = [idx EXCEPT ![h] = heap_next]
      BY DEF addHeapObject, IInv, HeapTypeOK
<1>3. Shown(h)' = v
      BY <1>2 DEF Shown, IInv, HeapTypeOK
<1>4. ASSUME NEW g \in Handles \ {h}
      PROVE  Shown(g)' = Shown(g)
  <2>1. idx'[g] = idx[g]
        BY <1>2 DEF IInv, HeapTypeOK
  <2>2. idx[g] # None => heap'[idx[g]] = heap[idx[g]]
        BY <1>1, <1>2 DEF IInv, HeapTypeOK
  <2> QED
      BY <2>1, <2>2 DEF Shown
<1>5. [g \in Handles |-> Shown(g)]' = [[g \in Handles |-> Shown(g)] EXCEPT ![h] = v]
      BY <1>3, <1>4
<1> QED
    BY <1>2, <1>5 DEF Refs!Receive, Shown, getObject

LEMMA TakeIsRelease ==
  ASSUME IInv, NEW h \in Handles, takeObject(h)
  PROVE  Refs!Release(h)
<1> USE HeapAssumption
<1>1. idx[h] # None /\ idx' = [idx EXCEPT ![h] = None]
      BY DEF takeObject
<1>2. Shown(h)' = None
      BY <1>1 DEF Shown, IInv, HeapTypeOK
<1>3. ASSUME NEW g \in Handles \ {h}
      PROVE  Shown(g)' = Shown(g)
  <2>1. idx'[g] = idx[g]
        BY <1>1 DEF IInv, HeapTypeOK
  <2> QED
      BY <2>1, TakeKeeps DEF Shown
<1>4. [g \in Handles |-> Shown(g)]' = [[g \in Handles |-> Shown(g)] EXCEPT ![h] = None]
      BY <1>2, <1>3
<1>5. Shown(h) # None
      BY <1>1 DEF Shown, IInv, HeldAreObjects
<1> QED
    BY <1>4, <1>5 DEF Refs!Release, Shown, getObject

LEMMA ConstantIsReceive ==
  ASSUME IInv, NEW h \in Handles, ConstantValue(h)
  PROVE  \E v \in Constants : Refs!Receive(h, v)
<1> USE HeapAssumption
<1>1. PICK k \in 0 .. Reserved - 1 : idx' = [idx EXCEPT ![h] = k]
      BY DEF ConstantValue
<1>2. idx[h] = None /\ heap' = heap
      BY DEF ConstantValue
<1>3. PICK v \in Constants : v = heap[k] /\ k # None
      BY DEF IInv, ConstantsIntact
<1>4. [g \in Handles |-> Shown(g)]' = [[g \in Handles |-> Shown(g)] EXCEPT ![h] = v]
      BY <1>1, <1>2, <1>3 DEF Shown, IInv, HeapTypeOK
<1>5. Refs!Receive(h, v)
      BY <1>2, <1>4 DEF Refs!Receive, Shown, getObject
<1> QED
    BY <1>5

LEMMA HeapStepIsRefStep ==
  IInv /\ [HeapNext]_heapVars => [Refs!Next]_shown
<1> SUFFICES ASSUME IInv, [HeapNext]_heapVars
             PROVE  [Refs!Next]_shown
    OBVIOUS
<1>1. CASE UNCHANGED heapVars
      BY <1>1 DEF heapVars, Shown, shown
<1>2. ASSUME NEW h \in Handles, NEW v \in Values, ReturnObject(h, v) \/ handleError(h, v)
      PROVE  Refs!Next
      BY <1>2, AddIsReceive DEF ReturnObject, handleError, Refs!Next
<1>3. ASSUME NEW h \in Handles, ConstantValue(h)
      PROVE  Refs!Next
      BY <1>3, ConstantIsReceive DEF Refs!Next
<1>4. ASSUME NEW h \in Handles, takeObject(h)
      PROVE  Refs!Next
      BY <1>4, TakeIsRelease DEF Refs!Next
<1>5. ASSUME NEW g \in Handles, NEW h \in Handles, object_clone_ref(g, h)
      PROVE  Refs!Next
      BY <1>5, CloneIsAdd, AddIsReceive DEF Refs!Next
<1> QED
    BY <1>1, <1>2, <1>3, <1>4, <1>5 DEF HeapNext

\* Every JsValue shows what it was made for until it is dropped, whatever is
\* added, cloned and dropped besides: the table implements JsRefs.
THEOREM References == HeapSpec => IndependentRefs
<1>1. HeapInit => Refs!Init
      BY DEF HeapInit, Refs!Init
<1>2. IInv /\ [HeapNext]_heapVars
        => [Refs!Next]_[h \in Handles |-> IF idx[h] = None THEN None ELSE getObject(idx[h])]
      BY HeapStepIsRefStep DEF shown, Shown, getObject
<1> QED
    BY <1>1, <1>2, TableKept, PTL DEF HeapSpec, IndependentRefs, Refs!Spec

=============================================================================
