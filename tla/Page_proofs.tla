----------------------------- MODULE Page_proofs -----------------------------
(***************************************************************************)
(* Proofs about Page: for any number of tabs, variants, Nodes and strings, *)
(* a page that is delivered starts, its calls arrive whole, it has one     *)
(* Node, and its identity is that of its variant and of no other.          *)
(***************************************************************************)
EXTENDS Page, FiniteSetTheorems, SequenceTheorems, WellFoundedInduction, TLAPS

-----------------------------------------------------------------------------
(* Strings.                                                                *)

LEMMA LeastNumber ==
  ASSUME NEW S, S \subseteq Nat, S # {}
  PROVE  \E x \in S : \A y \in S : x <= y
<1>1. PICK x \in S : \A y \in S : ~(<<y, x>> \in OpToRel(<, Nat))
  BY NatLessThanWellFounded, WFMin
<1>2. \A y \in S : ~(y < x)
  BY <1>1 DEF OpToRel
<1> QED BY <1>2

\* The leading units are ASCII, whatever follows.
LEMMA LeadingUnits ==
  ASSUME NEW s \in Seq(1 .. 3)
  PROVE  /\ Leading(s) \in 0 .. Len(s)
         /\ \A i \in 1 .. Len(s) : s[i] > 1 => i > Leading(s)
<1> DEFINE I == {i \in 1 .. Len(s) : s[i] > 1}
<1>1. Len(s) \in Nat
  OBVIOUS
<1>2. CASE I = {}
  <2>1. Leading(s) = Len(s)
    BY <1>2 DEF Leading, SelectInSeq
  <2> QED BY <1>1, <1>2, <2>1
<1>3. CASE I # {}
  <2>1. \E x \in I : \A y \in I : x <= y
    <3>1. I \subseteq Nat
      BY <1>1
    <3> HIDE DEF I
    <3> QED BY <1>3, <3>1, LeastNumber
  <2>2. Min(I) \in I /\ \A y \in I : Min(I) <= y
    BY <2>1 DEF Min
  <2>3. Leading(s) = Min(I) - 1
    BY <1>1, <1>3, <2>2 DEF Leading, SelectInSeq
  <2>4. Min(I) \in 1 .. Len(s)
    BY <2>2
  <2>5. Leading(s) \in 0 .. Len(s)
    BY <1>1, <2>3, <2>4
  <2>6. ASSUME NEW i \in 1 .. Len(s), s[i] > 1
        PROVE  i > Leading(s)
    <3>1. Min(I) <= i
      BY <2>2, <2>6
    <3> HIDE DEF I
    <3> QED BY <1>1, <2>3, <2>4, <3>1
  <2> QED BY <2>5, <2>6
<1> QED BY <1>2, <1>3

LEMMA LongerBound ==
  ASSUME NEW s \in Seq(1 .. 3), NEW n \in {1, 2}
  PROVE  Longer(s, n) \in 0 .. Len(s) - Leading(s)
<1> DEFINE I == {i \in 1 .. Len(s) : s[i] > n}
<1>1. Len(s) \in Nat /\ Leading(s) \in 0 .. Len(s)
  BY LeadingUnits
<1>2. I \subseteq Leading(s) + 1 .. Len(s)
  <2> SUFFICES ASSUME NEW i \in I PROVE i \in Leading(s) + 1 .. Len(s)
    OBVIOUS
  <2>1. s[i] \in 1 .. 3 /\ s[i] > 1
    OBVIOUS
  <2> QED BY <1>1, <2>1, LeadingUnits
<1> DEFINE a == Leading(s) + 1
           b == Len(s)
<1>3. a \in Int /\ b \in Int /\ a <= b + 1
  BY <1>1
<1> HIDE DEF I, a, b
<1>4. IsFiniteSet(a .. b) /\ Cardinality(a .. b) = b - a + 1
  BY <1>3, FS_Interval
<1>5. IsFiniteSet(I) /\ Cardinality(I) <= b - a + 1
  BY <1>2, <1>4, FS_Subset DEF a, b
<1>6. Cardinality(I) \in Nat
  BY <1>5, FS_CardinalityType
<1> QED BY <1>1, <1>3, <1>5, <1>6 DEF Longer, I, a, b

\* encodeInto never runs out of room.
LEMMA RoomSuffices ==
  ASSUME NEW s \in Seq(1 .. 3)
  PROVE  Bytes(s) <= room(s)
<1>1. Len(s) \in Nat /\ Leading(s) \in 0 .. Len(s)
  BY LeadingUnits
<1> QED BY <1>1, LongerBound DEF Bytes, room

\* Wherever the memory grows, the view that is used is a fresh one.
LEMMA ViewIsFresh == \A view \in Views : getMemory(view) = "fresh"
BY DEF Views, getMemory

LEMMA GrownIsView == \A view \in Views : Grown(view) \subseteq Views
BY DEF Views, Grown

LEMMA PassedWhole ==
  ASSUME NEW s \in Seq(1 .. 3), NEW view \in Views, NEW p \in passString(s, view)
  PROVE  Arrives(s, p)
<1>1. "fresh" \in Views
  BY DEF Views
<1>2. PICK v \in Views, w \in Views :
        p = [len |-> Bytes(s), landed |-> getMemory(v) = "fresh" /\ getMemory(w) = "fresh"]
  BY <1>1, RoomSuffices, GrownIsView DEF passString
<1> QED BY <1>2, ViewIsFresh DEF Arrives

LEMMA TwoPassedWhole ==
  ASSUME NEW s \in Seq(1 .. 3), NEW t \in Seq(1 .. 3), NEW view \in Views,
         NEW p \in passTwo(s, t, view)
  PROVE  p.first /\ p.second
<1>1. PICK a \in passString(s, view),
           b \in UNION { passString(t, v) : v \in Grown("fresh") } :
        p = [first |-> Arrives(s, a), second |-> Arrives(t, b)]
  BY DEF passTwo
<1>2. PICK v \in Views : b \in passString(t, v)
  BY GrownIsView DEF Views
<1> QED BY <1>1, <1>2, PassedWhole

LEMMA ReturnedWhole == \A view \in Views : ReturnsWhole(view)
BY ViewIsFresh, GrownIsView DEF ReturnsWhole

-----------------------------------------------------------------------------
(* Addresses.                                                              *)

LEMMA LastOfTwo == ASSUME NEW a, NEW b PROVE Last(<<a, b>>) = b
BY DEF Last

LEMMA LastOfThree == ASSUME NEW a, NEW b, NEW c PROVE Last(<<a, b, c>>) = c
BY DEF Last

LEMMA FrontOf ==
  ASSUME NEW a, NEW b, NEW c
  PROVE  Front(<<a, b, c>>) = <<a, b>>
<1>1. <<a, b, c>> \in Seq({a, b, c}) /\ Len(<<a, b, c>>) = 3
  OBVIOUS
<1>2. <<a, b>> \in Seq({a, b, c}) /\ Len(<<a, b>>) = 2
  OBVIOUS
<1>3. Front(<<a, b, c>>) = SubSeq(<<a, b, c>>, 1, 2)
  BY <1>1 DEF Front
<1>4. SubSeq(<<a, b, c>>, 1, 2) \in Seq({a, b, c}) /\ Len(SubSeq(<<a, b, c>>, 1, 2)) = 2
  BY <1>1
<1>5. \A i \in 1 .. 2 : SubSeq(<<a, b, c>>, 1, 2)[i] = <<a, b>>[i]
  BY <1>1
<1> QED BY <1>2, <1>3, <1>4, <1>5, SeqEqual

LEMMA AppendTo ==
  ASSUME NEW a, NEW b, NEW c
  PROVE  Append(<<a, b>>, c) = <<a, b, c>>
<1>1. <<a, b>> \in Seq({a, b, c}) /\ c \in {a, b, c}
  OBVIOUS
<1>2. <<a, b, c>> \in Seq({a, b, c}) /\ Len(<<a, b, c>>) = 3
  OBVIOUS
<1>3. Append(<<a, b>>, c) \in Seq({a, b, c}) /\ Len(Append(<<a, b>>, c)) = 3
  BY <1>1
<1>4. \A i \in 1 .. 3 : Append(<<a, b>>, c)[i] = <<a, b, c>>[i]
  BY <1>1
<1> QED BY <1>2, <1>3, <1>4, SeqEqual

\* However the server lets the browser get at a variant, the page has the
\* variant's name for a namespace and its directory for the wasm.
LEMMA AddressTells ==
  ASSUME NEW v \in Variants, NEW p \in Addresses(v)
  PROVE  NS(p) = v /\ Dir(p) = Dist(v)
<1>1. v # "" /\ v # "index.html"
  BY PageAssumption
<1>2. CASE p = <<"", v>>
  <2>1. Last(p) = v
    BY <1>2, LastOfTwo
  <2>2. Append(p, "") = <<"", v, "">>
    BY <1>2, AppendTo
  <2> QED BY <1>1, <2>1, <2>2 DEF NS, Dir, Dist
<1>3. CASE p = <<"", v, "">>
  <2>1. Last(p) = ""
    BY <1>3, LastOfThree
  <2>2. Front(p) = <<"", v>>
    BY <1>3, FrontOf
  <2>3. Last(<<"", v>>) = v
    BY LastOfTwo
  <2> QED BY <1>1, <1>3, <2>1, <2>2, <2>3 DEF NS, Dir, Dist
<1>4. CASE p = <<"", v, "index.html">>
  <2>1. Last(p) = "index.html"
    BY <1>4, LastOfThree
  <2>2. Front(p) = <<"", v>>
    BY <1>4, FrontOf
  <2>3. Last(<<"", v>>) = v
    BY LastOfTwo
  <2>4. Append(<<"", v>>, "") = <<"", v, "">>
    BY AppendTo
  <2> QED BY <1>1, <2>1, <2>2, <2>3, <2>4 DEF NS, Dir, Dist
<1> QED BY <1>2, <1>3, <1>4 DEF Addresses

LEMMA NamespacesAreVariants == Namespaces = Variants
<1>1. \A v \in Variants : <<"", v>> \in Addresses(v)
  BY DEF Addresses
<1>2. ASSUME NEW v \in Variants
      PROVE  v \in Namespaces
  <2>1. NS(<<"", v>>) = v
    BY <1>1, AddressTells
  <2> QED BY <1>1, <2>1 DEF Namespaces
<1>3. ASSUME NEW n \in Namespaces
      PROVE  n \in Variants
  <2>1. PICK v \in Variants : \E p \in Addresses(v) : n = NS(p)
    BY DEF Namespaces
  <2> QED BY <2>1, AddressTells
<1> QED BY <1>2, <1>3

-----------------------------------------------------------------------------
(* Loading, and the handles.                                               *)

AllAddresses == UNION { Addresses(v) : v \in Variants }

\* A page that is open is at an address of its variant.
Placed ==
  /\ path \in [Tabs -> AllAddresses \cup {<<>>}]
  /\ \A t \in Tabs : pc[t] # "closed" => path[t] \in Addresses(variant[t])

\* The page that fails to start has a response to blame.
Delivered ==
  \A t \in Tabs : pc[t] \in {"stream", "bytes", "unloaded"} =>
    /\ response[t] \in Response
    /\ pc[t] = "unloaded" => ~(response[t].ok /\ response[t].valid)

\* The page has its Node exactly while it is up; it never keeps a Subscription
\* that it has freed.
Handled ==
  \A t \in Tabs : /\ pc[t] = "up" <=> node[t] # None
                  /\ current[t] # "freed"

\* The Node that Rust has for a page is the one the page has; every other one is
\* gone, or was in use when it was freed.
OneNode ==
  \A t \in Tabs, n \in Nodes : rust[t][n] = "live" <=> node[t] = n

PInv == TypeOK /\ Placed /\ Delivered /\ Handled /\ OneNode /\ CallsArrive

LEMMA InitPInv == Init => PInv
<1> SUFFICES ASSUME Init PROVE PInv
  OBVIOUS
<1>1. TypeOK
  BY NamespacesAreVariants DEF Init, TypeOK
<1>2. Placed /\ Delivered /\ Handled
  BY DEF Init, Placed, Delivered, Handled
<1>3. OneNode /\ CallsArrive
  BY PageAssumption DEF Init, OneNode, CallsArrive
<1> QED BY <1>1, <1>2, <1>3 DEF PInv

LEMMA OpenAddress ==
  ASSUME PInv, NEW t \in Tabs, pc[t] # "closed"
  PROVE  /\ variant[t] \in Variants
         /\ NS(path[t]) = variant[t]
         /\ Dir(path[t]) = Dist(variant[t])
         /\ stored[NS(path[t])] \in Secrets \cup {None}
<1>1. variant[t] \in Variants /\ path[t] \in Addresses(variant[t])
  BY DEF PInv, TypeOK, Placed
<1> QED BY <1>1, AddressTells DEF PInv, TypeOK

\* What Node.spawn is called with is what is stored for the variant.
LEMMA SpawnCalled ==
  ASSUME PInv, NEW t \in Tabs, pc[t] # "closed", CallSpawn(t)
  PROVE  /\ arg' = [arg EXCEPT ![t] = stored[variant[t]]]
         /\ arg' \in [Tabs -> Secrets \cup {None}]
         /\ faults' = {}
<1>1. NS(path[t]) = variant[t] /\ stored[variant[t]] \in Secrets \cup {None}
  BY OpenAddress
<1>2. Hex \in Seq(1 .. 3)
  BY DEF Hex
<1>3. PICK view \in Views : \E p \in passString(Hex, view) :
        faults' = faults \cup Fault("string", stored[NS(path[t])] # None => Arrives(Hex, p))
  BY DEF CallSpawn
<1>4. \A p \in passString(Hex, view) : Arrives(Hex, p)
  BY <1>2, PassedWhole
<1> QED BY <1>1, <1>3, <1>4 DEF CallSpawn, Fault, PInv, TypeOK, CallsArrive

LEMMA Subscribed ==
  ASSUME PInv, NEW t \in Tabs, NEW n \in Nodes, NEW before, before = {}, Subscribe(t, n, before)
  PROVE  /\ current' = [current EXCEPT ![t] = "held"]
         /\ connected' = connected \cup {t}
         /\ faults' = {}
<1>1. PICK ticket \in Strings, view \in Views : \E p \in passString(ticket, view) :
        faults' = before \cup Fault("string", Arrives(ticket, p))
                         \cup Fault("handle", current[t] # "freed" /\ n # None)
  BY DEF Subscribe
<1>2. ticket \in Seq(1 .. 3)
  BY PageAssumption
<1>3. \A p \in passString(ticket, view) : Arrives(ticket, p)
  BY <1>2, PassedWhole
<1>4. current[t] # "freed" /\ n # None
  BY PageAssumption DEF PInv, Handled
<1> QED BY <1>1, <1>3, <1>4 DEF Subscribe, Fault

LEMMA RejectedIsBad == Rejected \in Response /\ ~Rejected.ok
BY DEF Rejected, Response

\* Loading: nothing but the path, the response and how far the page is.
LEMMA LoadPInv ==
  ASSUME PInv, NEW t \in Tabs, Open(t) \/ Import(t) \/ Fetch(t) \/ Stream(t) \/ Instantiate(t)
  PROVE  PInv'
<1> USE DEF PInv
<1>1. /\ UNCHANGED <<variant, stored, arg, nodeVars, faults>>
      /\ pc[t] # "up"
      /\ \E x \in {"import", "fetch", "stream", "bytes", "ready", "unloaded"} :
           pc' = [pc EXCEPT ![t] = x]
  BY DEF TypeOK, Open, Import, Fetch, Stream, Instantiate, loadVars
<1>2. /\ response' \in [Tabs -> Response \cup {None}]
      /\ \A u \in Tabs \ {t} : response'[u] = response[u]
  <2>1. CASE UNCHANGED response
    BY <2>1 DEF TypeOK
  <2>2. CASE \E r \in Response : response' = [response EXCEPT ![t] = r]
    BY <2>2 DEF TypeOK
  <2> QED BY <2>1, <2>2, RejectedIsBad DEF Open, Import, Fetch, Stream, Instantiate, loadVars
<1>3. Placed'
  <2>1. CASE Open(t)
    <3>1. variant[t] \in Variants
      BY DEF TypeOK
    <3> QED BY <1>1, <2>1, <3>1 DEF TypeOK, Open, Placed, AllAddresses
  <2>2. CASE path' = path /\ pc[t] # "closed"
    BY <1>1, <2>2 DEF TypeOK, Placed
  <2> QED BY <2>1, <2>2 DEF Import, Fetch, Stream, Instantiate, loadVars
<1>4. TypeOK'
  <2>1. \A u \in Tabs : path'[u] \in Addresses(variant[u]) \cup {<<>>}
    BY DEF TypeOK, Placed, Open, Import, Fetch, Stream, Instantiate, loadVars
  <2>2. pc' \in [Tabs -> {"closed", "import", "fetch", "stream", "bytes", "ready", "unloaded",
                          "spawn", "respawn", "up", "stopped"}]
    BY <1>1 DEF TypeOK
  <2> QED BY <1>1, <1>2, <2>1, <2>2 DEF TypeOK, nodeVars
<1>5. Delivered'
  <2>1. ASSUME pc'[t] \in {"stream", "bytes", "unloaded"}
        PROVE  /\ response'[t] \in Response
               /\ pc'[t] = "unloaded" => ~(response'[t].ok /\ response'[t].valid)
    <3>1. CASE Open(t) \/ Import(t)
      BY <2>1, <3>1, OpenAddress DEF TypeOK, Open, Import
    <3>2. CASE Fetch(t)
      BY <3>2, RejectedIsBad DEF TypeOK, Fetch
    <3>3. CASE Stream(t)
      BY <2>1, <3>3 DEF TypeOK, Delivered, Stream, loadVars, Response
    <3>4. CASE Instantiate(t)
      BY <2>1, <3>4 DEF TypeOK, Delivered, Instantiate, loadVars, Response
    <3> QED BY <3>1, <3>2, <3>3, <3>4
  <2> QED BY <1>1, <1>2, <2>1 DEF TypeOK, Delivered
<1>6. Handled' /\ OneNode' /\ CallsArrive'
  BY <1>1 DEF TypeOK, Handled, OneNode, CallsArrive, nodeVars
<1> QED BY <1>3, <1>4, <1>5, <1>6

LEMMA ClosePInv ==
  ASSUME PInv, NEW t \in Tabs, Close(t)
  PROVE  PInv'
<1> USE DEF PInv, Close
<1>1. TypeOK'
  BY DEF TypeOK
<1>2. Placed' /\ Delivered' /\ Handled'
  BY DEF TypeOK, Placed, Delivered, Handled
<1>3. OneNode'
  <2>1. \A n \in Nodes : rust'[t][n] = "none" /\ node'[t] # n
    BY PageAssumption DEF TypeOK
  <2>2. \A u \in Tabs \ {t} : rust'[u] = rust[u] /\ node'[u] = node[u]
    BY DEF TypeOK
  <2> QED BY <2>1, <2>2 DEF OneNode
<1>4. CallsArrive'
  BY DEF CallsArrive
<1> QED BY <1>1, <1>2, <1>3, <1>4

LEMMA BootPInv ==
  ASSUME PInv, NEW t \in Tabs, Boot(t)
  PROVE  PInv'
<1> USE DEF PInv
<1>1. /\ arg' \in [Tabs -> Secrets \cup {None}]
      /\ faults' = {}
  BY SpawnCalled DEF Boot
<1>2. TypeOK'
  BY <1>1 DEF TypeOK, Boot, nodeVars
<1>3. Placed' /\ Delivered' /\ Handled'
  BY DEF TypeOK, Placed, Delivered, Handled, Boot, nodeVars
<1>4. OneNode' /\ CallsArrive'
  BY <1>1 DEF OneNode, CallsArrive, Boot, nodeVars
<1> QED BY <1>2, <1>3, <1>4

\* A second Node is never spawned while the page has one.
LEMMA SpawnDonePInv ==
  ASSUME PInv, NEW t \in Tabs, SpawnDone(t)
  PROVE  PInv'
<1> USE DEF PInv
<1>1. PICK s \in Secrets :
        /\ secret' = [secret EXCEPT ![t] = s]
        /\ stored' = [stored EXCEPT ![NS(path[t])] = s]
  BY DEF SpawnDone
<1>2. PICK n \in Nodes :
        /\ rust[t][n] = "none"
        /\ rust' = [rust EXCEPT ![t][n] = "live"]
        /\ node' = [node EXCEPT ![t] = n]
        /\ LET before == faults \cup Fault("string", \A view \in Views : ReturnsWhole(view)) IN
             \/ Subscribe(t, n, before)
             \/ faults' = before /\ UNCHANGED <<current, connected>>
  BY DEF SpawnDone
<1>3. faults \cup Fault("string", \A view \in Views : ReturnsWhole(view)) = {}
  BY ReturnedWhole DEF Fault, CallsArrive
<1>4. /\ faults' = {}
      /\ current' \in [Tabs -> {"null", "held", "freed"}]
      /\ connected' \subseteq Tabs
      /\ \A u \in Tabs : current'[u] # "freed"
  <2> DEFINE before == faults \cup Fault("string", \A view \in Views : ReturnsWhole(view))
  <2>1. before = {}
    BY <1>3
  <2>2. CASE Subscribe(t, n, before)
    <3>1. /\ current' = [current EXCEPT ![t] = "held"]
          /\ connected' = connected \cup {t}
          /\ faults' = {}
      BY <2>1, <2>2, Subscribed
    <3> QED BY <3>1 DEF TypeOK, Handled
  <2>3. CASE faults' = before /\ UNCHANGED <<current, connected>>
    BY <2>1, <2>3 DEF TypeOK, Handled
  <2> QED BY <1>2, <2>2, <2>3
<1>5. /\ pc[t] \in {"spawn", "respawn"}
      /\ pc' = [pc EXCEPT ![t] = "up"]
      /\ arg' = [arg EXCEPT ![t] = None]
      /\ UNCHANGED <<variant, path, response, busy>>
  BY DEF SpawnDone
<1>6. TypeOK'
  <2>1. stored' \in [Variants -> Secrets \cup {None}]
    BY <1>1, <1>5, OpenAddress DEF TypeOK
  <2>2. rust' \in [Tabs -> [Nodes -> {"none", "live", "lost"}]]
    BY <1>2 DEF TypeOK
  <2> QED BY <1>1, <1>2, <1>4, <1>5, <2>1, <2>2 DEF TypeOK
<1>7. Placed' /\ Delivered'
  BY <1>5 DEF TypeOK, Placed, Delivered
<1>8. Handled'
  BY <1>2, <1>4, <1>5, PageAssumption DEF TypeOK, Handled
<1>9. OneNode'
  <2>1. node[t] = None
    BY <1>5 DEF Handled
  <2>2. \A m \in Nodes : rust[t][m] # "live"
    BY <2>1, PageAssumption DEF OneNode
  <2> QED BY <1>2, <2>2 DEF TypeOK, OneNode
<1>10. CallsArrive'
  BY <1>4 DEF CallsArrive
<1> QED BY <1>6, <1>7, <1>8, <1>9, <1>10

LEMMA SpawnFailsPInv ==
  ASSUME PInv, NEW t \in Tabs, SpawnFails(t)
  PROVE  PInv'
<1> USE DEF PInv, SpawnFails
<1>1. TypeOK'
  BY DEF TypeOK, nodeVars
<1>2. Placed' /\ Delivered' /\ Handled' /\ OneNode' /\ CallsArrive'
  BY DEF TypeOK, Placed, Delivered, Handled, OneNode, CallsArrive, nodeVars
<1> QED BY <1>1, <1>2

\* connect, and the calls of set_threshold: a handle is there, the strings arrive.
LEMMA UsePInv ==
  ASSUME PInv, NEW t \in Tabs,
         Connect(t) \/ SetThreshold(t) \/ \E n \in Nodes : SetDone(t, n)
  PROVE  PInv'
<1> USE DEF PInv
<1>1. /\ UNCHANGED <<variant, pc, stored, loadVars, node, rust, secret>>
      /\ busy' \in [Tabs -> SUBSET Nodes]
      /\ current' \in [Tabs -> {"null", "held", "freed"}]
      /\ connected' \subseteq Tabs
      /\ \A u \in Tabs : current'[u] # "freed"
      /\ faults' = {}
  <2>1. CASE Connect(t)
    <3>1. node[t] \in Nodes
      BY <2>1 DEF TypeOK, Handled, Connect
    <3>2. /\ current' = [current EXCEPT ![t] = "held"]
          /\ connected' = connected \cup {t}
          /\ faults' = {}
      BY <2>1, <3>1, Subscribed DEF Connect, CallsArrive
    <3> QED BY <2>1, <3>2 DEF Connect, TypeOK, Handled
  <2>2. CASE SetThreshold(t)
    <3>1. node[t] \in Nodes /\ node[t] # None
      BY <2>2 DEF TypeOK, Handled, SetThreshold
    <3>2. PICK ticket \in Strings, key \in Strings, view \in Views :
            \E p \in passTwo(ticket, key, view) :
              faults' = faults \cup Fault("string", p.first /\ p.second)
                               \cup Fault("handle", node[t] # None)
      BY <2>2 DEF SetThreshold
    <3>3. ticket \in Seq(1 .. 3) /\ key \in Seq(1 .. 3)
      BY PageAssumption
    <3>4. \A p \in passTwo(ticket, key, view) : p.first /\ p.second
      BY <3>3, TwoPassedWhole
    <3>5. faults' = {}
      BY <3>1, <3>2, <3>4 DEF Fault, CallsArrive
    <3> QED BY <2>2, <3>1, <3>5 DEF SetThreshold, TypeOK, Handled
  <2>3. CASE \E n \in Nodes : SetDone(t, n)
    BY <2>3 DEF SetDone, TypeOK, Handled, CallsArrive
  <2> QED BY <2>1, <2>2, <2>3
<1>2. TypeOK'
  BY <1>1 DEF TypeOK, loadVars
<1>3. Placed' /\ Delivered' /\ Handled' /\ OneNode' /\ CallsArrive'
  BY <1>1 DEF Placed, Delivered, Handled, OneNode, CallsArrive, loadVars
<1> QED BY <1>2, <1>3

LEMMA ForegroundPInv ==
  ASSUME PInv, NEW t \in Tabs, Foreground(t)
  PROVE  PInv'
<1> USE DEF PInv
<1>1. /\ arg' \in [Tabs -> Secrets \cup {None}]
      /\ faults' = {}
  BY SpawnCalled DEF Foreground
<1>2. node[t] \in Nodes
  BY DEF Foreground, TypeOK, Handled
<1>3. PICK x \in {"none", "lost"} : rust' = [rust EXCEPT ![t][node[t]] = x]
  BY DEF Foreground, FreeNode
<1>4. TypeOK'
  <2>1. rust' \in [Tabs -> [Nodes -> {"none", "live", "lost"}]]
    BY <1>2, <1>3 DEF TypeOK
  <2> QED BY <1>1, <2>1 DEF TypeOK, Foreground
<1>5. Placed' /\ Delivered' /\ Handled'
  BY DEF TypeOK, Placed, Delivered, Handled, Foreground
<1>6. OneNode'
  <2>1. \A n \in Nodes : rust'[t][n] # "live" /\ node'[t] # n
    <3>1. node'[t] = None
      BY DEF TypeOK, Foreground
    <3>2. /\ rust'[t][node[t]] = x
          /\ \A n \in Nodes \ {node[t]} : rust'[t][n] = rust[t][n]
      BY <1>2, <1>3 DEF TypeOK
    <3>3. \A n \in Nodes \ {node[t]} : rust[t][n] # "live"
      BY DEF OneNode
    <3> QED BY <3>1, <3>2, <3>3, PageAssumption
  <2>2. \A u \in Tabs \ {t} : rust'[u] = rust[u] /\ node'[u] = node[u]
    BY <1>3 DEF TypeOK, Foreground
  <2> QED BY <2>1, <2>2 DEF OneNode
<1>7. CallsArrive'
  BY <1>1 DEF CallsArrive
<1> QED BY <1>4, <1>5, <1>6, <1>7

LEMMA NextPInv == PInv /\ [Next]_vars => PInv'
<1>1. PInv /\ UNCHANGED vars => PInv'
  BY DEF PInv, TypeOK, Placed, Delivered, Handled, OneNode, CallsArrive,
         vars, loadVars, nodeVars
<1> QED BY <1>1, LoadPInv, ClosePInv, BootPInv, SpawnDonePInv, SpawnFailsPInv, UsePInv,
           ForegroundPInv DEF Next

LEMMA PInvAlways == Spec => []PInv
BY InitPInv, NextPInv, PTL DEF Spec

-----------------------------------------------------------------------------
(* Identities.                                                             *)

\* Where a variant's identities are: stored under its namespace, on their way
\* into a Node of one of its pages, or in use there.
Has(v, s) ==
  \/ stored[v] = s
  \/ \E t \in Tabs : variant[t] = v /\ s \in {arg[t], secret[t]}

Apart == \A v, w \in Variants, s \in Secrets : Has(v, s) /\ Has(w, s) => v = w

\* A page that has had an identity finds one again whenever it asks; while it is
\* the only one of its variant that has, that is its own.
Remembered ==
  \A t \in Tabs : secret[t] # None =>
    /\ stored[variant[t]] # None
    /\ pc[t] \in {"spawn", "respawn"} => arg[t] # None
    /\ \/ stored[variant[t]] = secret[t] /\ arg[t] \in {None, secret[t]}
       \/ \E u \in Tabs \ {t} : variant[u] = variant[t] /\ secret[u] # None

IInv == Apart /\ Remembered

LEMMA InitIInv == Init => IInv
<1> SUFFICES ASSUME Init PROVE IInv
  OBVIOUS
<1>1. \A v \in Variants, s \in Secrets : ~Has(v, s)
  BY PageAssumption, NamespacesAreVariants DEF Init, Has
<1>2. Remembered
  BY DEF Init, Remembered
<1> QED BY <1>1, <1>2 DEF IInv, Apart

\* Nothing is new: a variant has at most what it had.
LEMMA NothingNew ==
  ASSUME Apart, \A v \in Variants, s \in Secrets : Has(v, s)' => Has(v, s)
  PROVE  Apart'
BY DEF Apart

\* Node.spawn is called: the page takes what is stored.
LEMMA CallIInv ==
  ASSUME PInv, IInv, NEW t \in Tabs, Boot(t) \/ Foreground(t)
  PROVE  IInv'
<1>1. /\ arg' = [arg EXCEPT ![t] = stored[variant[t]]]
      /\ UNCHANGED <<variant, stored, secret>>
      /\ \A u \in Tabs \ {t} : pc'[u] = pc[u]
      /\ arg \in [Tabs -> Secrets \cup {None}]
      /\ variant \in [Tabs -> Variants]
  BY SpawnCalled DEF Boot, Foreground, nodeVars, PInv, TypeOK
<1>2. Apart'
  <2>1. \A v \in Variants, s \in Secrets : Has(v, s)' => Has(v, s)
    BY <1>1 DEF Has
  <2> QED BY <2>1, NothingNew DEF IInv
<1>3. Remembered'
  BY <1>1 DEF IInv, Remembered
<1> QED BY <1>2, <1>3 DEF IInv

\* A call has no answer any more: what it carried is forgotten.
LEMMA ForgetIInv ==
  ASSUME PInv, IInv, NEW t \in Tabs, SpawnFails(t) \/ Close(t)
  PROVE  IInv'
<1>1. /\ arg' = [arg EXCEPT ![t] = None]
      /\ UNCHANGED <<variant, stored, secret>>
      /\ pc'[t] \notin {"spawn", "respawn"}
      /\ \A u \in Tabs \ {t} : pc'[u] = pc[u]
      /\ arg \in [Tabs -> Secrets \cup {None}]
      /\ variant \in [Tabs -> Variants]
  BY DEF SpawnFails, Close, nodeVars, PInv, TypeOK
<1>2. Apart'
  <2>1. \A v \in Variants, s \in Secrets : Has(v, s)' => Has(v, s)
    BY <1>1, PageAssumption DEF Has
  <2> QED BY <2>1, NothingNew DEF IInv
<1>3. Remembered'
  BY <1>1 DEF IInv, Remembered
<1> QED BY <1>2, <1>3 DEF IInv

\* The Node is there: with the identity that was found, or with a fresh one.
LEMMA SpawnedIdentity ==
  ASSUME PInv, NEW t \in Tabs, SpawnDone(t)
  PROVE  \E s \in Secrets :
           /\ secret' = [secret EXCEPT ![t] = s]
           /\ stored' = [stored EXCEPT ![variant[t]] = s]
           /\ arg' = [arg EXCEPT ![t] = None]
           /\ arg[t] # None => s = arg[t]
           /\ arg[t] = None => \A v \in Variants : ~Has(v, s)
<1>1. pc[t] # "closed"
  BY DEF SpawnDone
<1>2. NS(path[t]) = variant[t]
  BY <1>1, OpenAddress
<1> QED BY <1>2, NamespacesAreVariants DEF SpawnDone, Has

LEMMA SpawnDoneIInv ==
  ASSUME PInv, IInv, NEW t \in Tabs, SpawnDone(t)
  PROVE  IInv'
<1>1. /\ variant \in [Tabs -> Variants]
      /\ stored \in [Variants -> Secrets \cup {None}]
      /\ arg \in [Tabs -> Secrets \cup {None}]
      /\ secret \in [Tabs -> Secrets \cup {None}]
      /\ variant' = variant
      /\ pc' = [pc EXCEPT ![t] = "up"]
      /\ pc \in [Tabs -> {"closed", "import", "fetch", "stream", "bytes", "ready", "unloaded",
                          "spawn", "respawn", "up", "stopped"}]
  BY DEF SpawnDone, PInv, TypeOK
<1>2. PICK s \in Secrets :
           /\ secret' = [secret EXCEPT ![t] = s]
           /\ stored' = [stored EXCEPT ![variant[t]] = s]
           /\ arg' = [arg EXCEPT ![t] = None]
           /\ arg[t] # None => s = arg[t]
           /\ arg[t] = None => \A v \in Variants : ~Has(v, s)
  BY SpawnedIdentity
<1>3. Apart'
  <2>1. ASSUME NEW v \in Variants, NEW x \in Secrets, Has(v, x)'
        PROVE  Has(v, x) \/ (x = s /\ v = variant[t])
    BY <1>1, <1>2, <2>1, PageAssumption DEF Has
  <2>2. \A v \in Variants : Has(v, s) => v = variant[t]
    <3>1. CASE arg[t] = None
      BY <1>2, <3>1
    <3>2. CASE arg[t] # None
      BY <1>1, <1>2, <3>2 DEF Has, IInv, Apart
    <3> QED BY <3>1, <3>2
  <2> QED BY <2>1, <2>2 DEF IInv, Apart
<1>4. Remembered'
  <2>1. s # None
    BY PageAssumption
  <2>2. ASSUME NEW u \in Tabs, secret'[u] # None
        PROVE  /\ stored'[variant[u]] # None
               /\ pc'[u] \in {"spawn", "respawn"} => arg'[u] # None
               /\ \/ stored'[variant[u]] = secret'[u] /\ arg'[u] \in {None, secret'[u]}
                  \/ \E w \in Tabs \ {u} : variant[w] = variant[u] /\ secret'[w] # None
    <3>1. CASE u = t
      BY <1>1, <1>2, <2>1, <3>1
    <3>2. CASE u # t /\ variant[u] = variant[t]
      BY <1>1, <1>2, <2>1, <2>2, <3>2 DEF IInv, Remembered
    <3>3. CASE u # t /\ variant[u] # variant[t]
      BY <1>1, <1>2, <2>2, <3>3 DEF IInv, Remembered
    <3> QED BY <3>1, <3>2, <3>3
  <2> QED BY <1>1, <2>2 DEF Remembered
<1> QED BY <1>3, <1>4 DEF IInv

\* No other step knows of an identity.
LEMMA OtherIInv ==
  ASSUME IInv, UNCHANGED <<variant, stored, arg, secret>>,
         \A t \in Tabs : pc'[t] \in {"spawn", "respawn"} => pc[t] = pc'[t]
  PROVE  IInv'
<1>1. Apart'
  BY DEF IInv, Apart, Has
<1>2. Remembered'
  BY DEF IInv, Remembered
<1> QED BY <1>1, <1>2 DEF IInv

LEMMA NextIInv ==
  ASSUME PInv, IInv, [Next]_vars
  PROVE  IInv'
<1>1. ASSUME NEW t \in Tabs,
             \/ Open(t) \/ Import(t) \/ Fetch(t) \/ Stream(t) \/ Instantiate(t)
             \/ Connect(t) \/ SetThreshold(t) \/ \E n \in Nodes : SetDone(t, n)
      PROVE  IInv'
  BY <1>1, OtherIInv
     DEF PInv, TypeOK, Open, Import, Fetch, Stream, Instantiate, Connect, SetThreshold,
         SetDone, loadVars, nodeVars
<1>2. CASE UNCHANGED vars
  BY <1>2, OtherIInv DEF vars, loadVars, nodeVars
<1> QED BY <1>1, <1>2, CallIInv, ForgetIInv, SpawnDoneIInv DEF Next

LEMMA IInvAlways == Spec => []IInv
BY InitIInv, NextIInv, PInvAlways, PTL DEF Spec

-----------------------------------------------------------------------------
\* The variables of every tab keep their types, for any number of tabs, variants
\* and Nodes; what is stored is stored under the names of the variants.
THEOREM PageTypeOK == Spec => []TypeOK
<1>1. PInv => TypeOK
  BY DEF PInv
<1> QED BY <1>1, PInvAlways, PTL

\* A page whose wasm is delivered starts: the import finds the glue under every
\* address of the page, and init has an answer to a wrong MIME type.
THEOREM PageStartsIfServed == Spec => []StartsIfServed
<1>1. PInv => StartsIfServed
  BY PageAssumption DEF PInv, Delivered, StartsIfServed
<1> QED BY <1>1, PInvAlways, PTL

\* The page's Node is alive in Rust, and a freeze leaves none behind but the one
\* that a set_threshold is using: reconnectFresh frees the Node before it spawns
\* another one, and only what it frees can be left.
THEOREM PageTornDown == Spec => TornDown
<1> DEFINE Kept == \A t \in Tabs : node[t] # None => rust[t][node[t]] = "live"
           Left == \A t \in Tabs :
                     LeftBehind(t)' \subseteq LeftBehind(t) \cup (busy[t] \cap {node[t]})
<1>1. PInv => Kept
  BY DEF PInv, TypeOK, OneNode
<1>2. PInv /\ [Next]_vars => [Left]_vars
  <2> SUFFICES ASSUME PInv, Next PROVE Left
    OBVIOUS
  <2> USE DEF PInv
  <2>1. PICK t \in Tabs :
          \/ Open(t) \/ Import(t) \/ Fetch(t) \/ Stream(t) \/ Instantiate(t) \/ Close(t)
          \/ Boot(t) \/ SpawnDone(t) \/ SpawnFails(t)
          \/ Connect(t) \/ SetThreshold(t) \/ Foreground(t)
          \/ \E n \in Nodes : SetDone(t, n)
    BY DEF Next
  <2>2. CASE UNCHANGED <<rust, node>>
    BY <2>2 DEF LeftBehind
  <2>3. CASE Close(t)
    <3>1. \A u \in Tabs \ {t} : rust'[u] = rust[u] /\ node'[u] = node[u]
      BY <2>3 DEF Close, TypeOK
    <3>2. \A n \in Nodes : rust'[t][n] = "none"
      BY <2>3 DEF Close, TypeOK
    <3> QED BY <3>1, <3>2 DEF LeftBehind
  <2>4. CASE SpawnDone(t)
    <3>1. PICK n \in Nodes : /\ rust' = [rust EXCEPT ![t][n] = "live"]
                             /\ node' = [node EXCEPT ![t] = n]
      BY <2>4 DEF SpawnDone
    <3>2. \A u \in Tabs \ {t} : rust'[u] = rust[u] /\ node'[u] = node[u]
      BY <3>1 DEF TypeOK
    <3>3. node[t] = None
      BY <2>4 DEF SpawnDone, Handled
    <3>4. node'[t] = n /\ \A m \in Nodes \ {n} : rust'[t][m] = rust[t][m]
      BY <3>1 DEF TypeOK
    <3>5. LeftBehind(t)' \subseteq LeftBehind(t)
      BY <3>3, <3>4, PageAssumption DEF LeftBehind
    <3> QED BY <3>2, <3>5 DEF LeftBehind
  <2>5. CASE Foreground(t)
    <3>1. node[t] \in Nodes
      BY <2>5 DEF Foreground, TypeOK, Handled
    <3>2. \A u \in Tabs \ {t} : rust'[u] = rust[u] /\ node'[u] = node[u]
      BY <2>5 DEF Foreground, FreeNode, TypeOK
    <3>3. /\ rust'[t][node[t]] = IF node[t] \in busy[t] THEN "lost" ELSE "none"
          /\ \A m \in Nodes \ {node[t]} : rust'[t][m] = rust[t][m]
      BY <2>5, <3>1 DEF Foreground, FreeNode, TypeOK
    <3>4. LeftBehind(t)' \subseteq LeftBehind(t) \cup (busy[t] \cap {node[t]})
      BY <3>1, <3>3 DEF LeftBehind
    <3> QED BY <3>2, <3>4 DEF LeftBehind
  <2> QED BY <2>1, <2>2, <2>3, <2>4, <2>5
          DEF Open, Import, Fetch, Stream, Instantiate, Boot, SpawnFails, Connect, SetThreshold,
              SetDone, nodeVars
<1> QED BY <1>1, <1>2, PInvAlways, PTL DEF Spec, TornDown

\* Whatever strings of whatever lengths are typed, and wherever the memory of the
\* module grows, every string that crosses its border arrives whole, and no
\* method is called through a handle that is gone.
THEOREM PageCallsArrive == Spec => []CallsArrive
<1>1. PInv => CallsArrive
  BY DEF PInv
<1> QED BY <1>1, PInvAlways, PTL

\* The namespaces keep the identities of the variants of one site apart, however
\* many pages boot, reload and respawn at the same time.
THEOREM PageVariantsApart == Spec => []VariantsApart
<1>1. PInv /\ IInv => VariantsApart
  BY PageAssumption DEF PInv, TypeOK, IInv, Apart, Has, VariantsApart
<1> QED BY <1>1, PInvAlways, IInvAlways, PTL

\* A page that has had an identity is never given a new one, and keeps the one it
\* has unless another page of its variant has come up.
THEOREM PageSameIdentity == Spec => SameIdentity
<1> DEFINE Same ==
      \A t \in Tabs : secret[t] \notin {None, secret'[t]} =>
        /\ secret'[t] = arg[t]
        /\ \E u \in Tabs \ {t} : variant[u] = variant[t] /\ secret[u] # None
<1>1. PInv /\ IInv /\ [Next]_vars => [Same]_vars
  <2> SUFFICES ASSUME PInv, IInv, Next, NEW t \in Tabs, secret[t] \notin {None, secret'[t]}
               PROVE  /\ secret'[t] = arg[t]
                      /\ \E u \in Tabs \ {t} : variant[u] = variant[t] /\ secret[u] # None
    OBVIOUS
  <2>1. SpawnDone(t)
    <3>1. PICK u \in Tabs :
            \/ Open(u) \/ Import(u) \/ Fetch(u) \/ Stream(u) \/ Instantiate(u) \/ Close(u)
            \/ Boot(u) \/ SpawnDone(u) \/ SpawnFails(u)
            \/ Connect(u) \/ SetThreshold(u) \/ Foreground(u)
            \/ \E n \in Nodes : SetDone(u, n)
      BY DEF Next
    <3>2. SpawnDone(u)
      BY <3>1 DEF Open, Import, Fetch, Stream, Instantiate, Close, Boot, SpawnFails, Connect,
                  SetThreshold, Foreground, SetDone, nodeVars
    <3>3. \A x \in Tabs \ {u} : secret'[x] = secret[x]
      BY <3>2, SpawnedIdentity DEF PInv, TypeOK
    <3> QED BY <3>2, <3>3
  <2>2. arg[t] # None
    BY <2>1 DEF SpawnDone, IInv, Remembered
  <2>3. secret'[t] = arg[t]
    BY <2>1, <2>2, SpawnedIdentity DEF PInv, TypeOK
  <2> QED BY <2>2, <2>3 DEF IInv, Remembered
<1> QED BY <1>1, PInvAlways, IInvAlways, PTL DEF Spec, SameIdentity

=============================================================================
