------------------------------ MODULE Gui_proofs ------------------------------
(***************************************************************************)
(* Proofs about Gui: for any number of devices, poll loops and calls, only *)
(* the loop of the current subscription writes to the display, what it     *)
(* writes is the connected device, and the button is never left disabled   *)
(* when there is a device to connect to.                                   *)
(***************************************************************************)
EXTENDS Gui, TLAPS

\* A loop or a call that exists is about a device, a call carries a setpoint.
AboutDevices ==
  /\ \A i \in Loops : loops[i].pc # "gone" => loops[i].ticket \in Tickets
  /\ \A k \in Sets : sets[k].pc # "gone" => sets[k].ticket \in Tickets
                                            /\ sets[k].value \in Values

\* The loop of the current subscription was not cancelled, so that it does not
\* stop by itself; and a page that waits for Node.spawn has no node, so that it
\* has no subscription either and cannot be sent to wait a second time.
NotStopped ==
  /\ current # None => ~loops[current].cancelled
  /\ spawning # "none" => ~node

GInv == TypeOK /\ AboutDevices /\ NotStopped /\ OnePoller /\ ConnectAvailable

-----------------------------------------------------------------------------
LEMMA InitGInv == Init => GInv
<1> SUFFICES ASSUME Init PROVE GInv
  OBVIOUS
<1>1. NoLoop \in Loop /\ NoSet \in Set
  BY DEF NoLoop, Loop, NoSet, Set, Answer
<1>2. TypeOK
  BY <1>1 DEF Init, TypeOK
<1>3. AboutDevices /\ NotStopped /\ OnePoller /\ ConnectAvailable
  BY DEF Init, AboutDevices, NotStopped, OnePoller, ConnectAvailable, NoLoop, NoSet
<1> QED BY <1>2, <1>3 DEF GInv

\* connect cancels the loop of the subscription that it replaces, and takes a
\* loop that nobody has.
LEMMA SubscribeGInv ==
  ASSUME GInv, NEW i \in Loops, Subscribe(i), field # None,
         node', spawning' = "none", UNCHANGED <<threshold, field, sets, slider, focused>>
  PROVE  GInv'
<1> USE DEF GInv
<1>1. /\ loops' \in [Loops -> Loop]
      /\ loops'[i] = [NoLoop EXCEPT !.pc = "check", !.ticket = field]
      /\ \A j \in Loops \ {i} :
           loops'[j] = IF j = current THEN [loops[j] EXCEPT !.cancelled = TRUE]
                                      ELSE loops[j]
  BY DEF Subscribe, TypeOK, NoLoop, Loop, Answer
<1>2. /\ loops'[i].pc = "check"
      /\ loops'[i].ticket = field
      /\ ~loops'[i].cancelled
  BY <1>1 DEF NoLoop
<1>3. ASSUME NEW j \in Loops \ {i}
      PROVE  /\ loops'[j].pc = loops[j].pc
             /\ loops'[j].ticket = loops[j].ticket
             /\ loops'[j].cancelled <=> loops[j].cancelled \/ j = current
  BY <1>1 DEF TypeOK, Loop
<1>4. TypeOK'
  BY <1>1 DEF TypeOK, Subscribe
<1>5. AboutDevices'
  BY <1>2, <1>3 DEF AboutDevices, TypeOK
<1>6. NotStopped'
  BY <1>2 DEF NotStopped, Subscribe
<1>7. OnePoller'
  BY <1>2, <1>3, GuiAssumption DEF OnePoller, Subscribe
<1>8. ConnectAvailable'
  BY DEF ConnectAvailable, Subscribe
<1> QED BY <1>4, <1>5, <1>6, <1>7, <1>8

LEMMA ConnectGInv ==
  ASSUME GInv, ConnectWithNode,
         node', spawning' = "none", UNCHANGED <<threshold, field, sets, slider, focused>>,
         node \/ connectedTicket = None
  PROVE  GInv'
<1>1. CASE \E i \in Loops : Subscribe(i) /\ field # None
  BY <1>1, SubscribeGInv
<1>2. CASE /\ ~Offer(TRUE, field, connectedTicket)
           /\ UNCHANGED <<loops, current, connectedTicket, shown, deviceThreshold, offered>>
  BY <1>2 DEF GInv, TypeOK, AboutDevices, NotStopped, OnePoller, ConnectAvailable, Offer
<1> QED BY <1>1, <1>2 DEF ConnectWithNode, Offer

\* The page: its fields, connect and reconnectFresh.
LEMMA PageGInv ==
  ASSUME GInv,
         EditTicket \/ ClickConnect \/ BootDone \/ Foreground \/ ReconnectDone \/ SpawnFails
  PROVE  GInv'
<1>1. CASE EditTicket
  BY <1>1 DEF GInv, TypeOK, AboutDevices, NotStopped, OnePoller, ConnectAvailable,
              EditTicket, Offer, viewVars
<1>2. CASE ClickConnect
  <2>1. spawning = "none"
    BY <1>2 DEF GInv, TypeOK, NotStopped, ClickConnect
  <2> QED BY <1>2, <2>1, ConnectGInv DEF ClickConnect, GInv, TypeOK
<1>3. CASE BootDone
  <2>1. connectedTicket = None /\ current = None
    BY <1>3 DEF GInv, NotStopped, OnePoller, BootDone
  <2>2. CASE ConnectWithNode
    BY <1>3, <2>1, <2>2, ConnectGInv DEF BootDone
  <2>3. CASE /\ offered' = Offer(TRUE, field, connectedTicket)
             /\ UNCHANGED <<loops, current, connectedTicket, shown, deviceThreshold>>
    BY <1>3, <2>1, <2>3
       DEF GInv, TypeOK, AboutDevices, NotStopped, OnePoller, ConnectAvailable,
           BootDone, Offer
  <2> QED BY <1>3, <2>2, <2>3 DEF BootDone
<1>4. CASE Foreground
  <2>1. current \in Loops
    BY <1>4 DEF GInv, TypeOK, OnePoller, Foreground
  <2>2. /\ loops' \in [Loops -> Loop]
        /\ \A j \in Loops :
             /\ loops'[j].pc = loops[j].pc
             /\ loops'[j].ticket = loops[j].ticket
             /\ loops'[j].cancelled <=> loops[j].cancelled \/ j = current
    BY <1>4, <2>1 DEF GInv, TypeOK, Loop, Foreground
  <2>3. TypeOK'
    BY <1>4, <2>2 DEF GInv, TypeOK, Foreground, viewVars
  <2>4. AboutDevices' /\ NotStopped' /\ ConnectAvailable'
    BY <1>4, <2>2 DEF GInv, AboutDevices, NotStopped, ConnectAvailable, Foreground
  <2>5. OnePoller'
    BY <1>4, <2>2 DEF GInv, OnePoller, Foreground
  <2> QED BY <2>3, <2>4, <2>5 DEF GInv
<1>5. CASE ReconnectDone
  <2>1. connectedTicket = None
    BY <1>5 DEF GInv, NotStopped, OnePoller, ReconnectDone
  <2> QED BY <1>5, <2>1, ConnectGInv DEF ReconnectDone
<1>6. CASE SpawnFails
  BY <1>6 DEF GInv, TypeOK, AboutDevices, NotStopped, OnePoller, ConnectAvailable,
              SpawnFails, viewVars
<1> QED BY <1>1, <1>2, <1>3, <1>4, <1>5, <1>6

\* A poll loop only stops when it was cancelled, which the current one is not;
\* what it brings to the display is a setpoint.
LEMMA LoopGInv ==
  ASSUME GInv, NEW i \in Loops, LoopStep(i) \/ PollUseless(i)
  PROVE  GInv'
<1> USE DEF GInv
<1>1. /\ loops[i] \in Loop
      /\ loops[i].pc # "gone"
      /\ loops[i].ticket \in Tickets
  BY DEF TypeOK, AboutDevices, Loop, LoopStep, Poll, PollAnswered, PollSuperseded,
         PollShown, Tick, PollUseless
<1>2. threshold[loops[i].ticket] \in Answer
  BY <1>1 DEF TypeOK, Answer
<1>3. /\ loops' \in [Loops -> Loop]
      /\ \A j \in Loops \ {i} : loops'[j] = loops[j]
      /\ loops'[i].pc # "gone" => /\ loops'[i].ticket = loops[i].ticket
                                  /\ loops'[i].cancelled = loops[i].cancelled
      /\ loops'[i].pc = "gone" => loops[i].cancelled
  <2>1. NoLoop \in Loop /\ NoLoop.pc = "gone"
    BY DEF NoLoop, Loop, Answer
  <2>2. CASE Poll(i)
    BY <1>1, <2>1, <2>2 DEF Poll, TypeOK, Loop
  <2>3. CASE PollAnswered(i)
    BY <1>1, <1>2, <2>3 DEF PollAnswered, TypeOK, Loop
  <2>4. CASE PollUseless(i)
    BY <1>1, <2>4 DEF PollUseless, TypeOK, Loop
  <2>5. CASE PollSuperseded(i)
    BY <1>1, <2>1, <2>5 DEF PollSuperseded, TypeOK
  <2>6. CASE PollShown(i)
    BY <1>1, <2>6 DEF PollShown, TypeOK, Loop, Answer
  <2>7. CASE Tick(i)
    BY <1>1, <2>7 DEF Tick, TypeOK, Loop
  <2> QED BY <2>2, <2>3, <2>4, <2>5, <2>6, <2>7 DEF LoopStep
<1>4. /\ UNCHANGED <<threshold, pageVars, sets, focused>>
      /\ shown' \in Tickets \cup {None}
      /\ deviceThreshold' \in Values \cup {None}
      /\ slider' \in Values
  BY <1>1 DEF TypeOK, LoopStep, Poll, PollAnswered, PollSuperseded, PollShown, Tick,
              PollUseless, OnReading, viewVars
<1>5. TypeOK'
  BY <1>3, <1>4 DEF TypeOK, pageVars
<1>6. AboutDevices' /\ ConnectAvailable'
  BY <1>1, <1>3, <1>4 DEF AboutDevices, ConnectAvailable, pageVars
<1>7. current = i => loops'[i].pc # "gone"
  BY <1>3, GuiAssumption DEF NotStopped
<1>8. NotStopped'
  BY <1>3, <1>4, <1>7 DEF TypeOK, NotStopped, pageVars
<1>9. OnePoller'
  BY <1>1, <1>3, <1>4, <1>7 DEF TypeOK, OnePoller, pageVars
<1> QED BY <1>5, <1>6, <1>8, <1>9

\* A call goes to the device that was connected when the slider was released,
\* and carries the setpoint the slider showed then.
LEMMA SetGInv ==
  ASSUME GInv, NEW k \in Sets, Release(k) \/ SetStep(k)
  PROVE  GInv'
<1> USE DEF GInv
<1>1. /\ UNCHANGED <<pageVars, loops, focused>>
      /\ sets[k] \in Set
  BY DEF TypeOK, Release, SetStep, SetApplied, SetUnapplied, SetRefused, SetOk, SetStatus,
         SetShown, viewVars
<1>2. ASSUME sets[k].pc # "gone"
      PROVE  /\ sets[k].ticket \in Tickets
             /\ sets[k].value \in Values
             /\ threshold[sets[k].ticket] \in Values
  BY <1>2 DEF TypeOK, AboutDevices
<1>3. /\ sets' \in [Sets -> Set]
      /\ \A j \in Sets \ {k} : sets'[j] = sets[j]
      /\ sets'[k].pc # "gone" => sets'[k].ticket \in Tickets /\ sets'[k].value \in Values
  <2>1. NoSet \in Set /\ NoSet.pc = "gone"
    BY DEF NoSet, Set, Answer
  <2>2. CASE Release(k)
    <3>1. connectedTicket \in Tickets /\ slider \in Values
      BY <2>2 DEF TypeOK, Release
    <3> QED BY <1>1, <2>2, <3>1 DEF Release, TypeOK, Set, NoSet, Answer
  <2>3. CASE SetApplied(k)
    BY <1>1, <1>2, <2>3 DEF SetApplied, TypeOK, Set
  <2>4. CASE SetUnapplied(k)
    BY <1>1, <1>2, <2>4 DEF SetUnapplied, TypeOK, Set
  <2>5. CASE SetRefused(k)
    BY <2>1, <2>5 DEF SetRefused, TypeOK
  <2>6. CASE SetOk(k)
    BY <1>1, <1>2, <2>6 DEF SetOk, TypeOK, Set
  <2>7. CASE SetStatus(k)
    <3>1. PICK a \in Values \cup {None} :
            sets' = [sets EXCEPT ![k].pc = "reported", ![k].answer = a]
      BY <1>2, <2>7 DEF SetStatus
    <3>2. sets[k].pc # "gone"
      BY <2>7 DEF SetStatus
    <3> QED BY <1>1, <1>2, <3>1, <3>2 DEF TypeOK, Set, Answer
  <2>8. CASE SetShown(k)
    BY <2>1, <2>8 DEF SetShown, TypeOK
  <2> QED BY <2>2, <2>3, <2>4, <2>5, <2>6, <2>7, <2>8 DEF SetStep
<1>4. /\ threshold' \in [Tickets -> Values]
      /\ shown' \in Tickets \cup {None}
      /\ deviceThreshold' \in Values \cup {None}
      /\ slider' \in Values
  BY <1>1, <1>2 DEF TypeOK, Release, SetStep, SetApplied, SetUnapplied, SetRefused, SetOk,
                    SetStatus, SetShown, SnapBack, viewVars
<1>5. TypeOK'
  BY <1>1, <1>3, <1>4 DEF TypeOK, pageVars
<1>6. AboutDevices'
  BY <1>1, <1>3 DEF AboutDevices
<1>7. NotStopped' /\ OnePoller' /\ ConnectAvailable'
  BY <1>1 DEF NotStopped, OnePoller, ConnectAvailable, pageVars
<1> QED BY <1>5, <1>6, <1>7

\* The user at the slider, and the other clients of the device.
LEMMA ViewGInv ==
  ASSUME GInv, Drag \/ Blur \/ ReleaseUnconnected \/ OtherClientSets \/ UNCHANGED vars
  PROVE  GInv'
<1>1. threshold' \in [Tickets -> Values] /\ slider' \in Values /\ focused' \in BOOLEAN
  BY DEF GInv, TypeOK, Drag, Blur, ReleaseUnconnected, SnapBack, OtherClientSets,
         vars, pageVars, viewVars
<1>2. UNCHANGED <<pageVars, loops, sets, shown, deviceThreshold>>
  BY DEF Drag, Blur, ReleaseUnconnected, OtherClientSets, vars, viewVars
<1> QED BY <1>1, <1>2 DEF GInv, TypeOK, AboutDevices, NotStopped, OnePoller,
                          ConnectAvailable, pageVars

LEMMA StepGInv == GInv /\ [Next]_vars => GInv'
BY PageGInv, LoopGInv, SetGInv, ViewGInv DEF Next

LEMMA GInvAlways == Spec => []GInv
BY InitGInv, StepGInv, PTL DEF Spec

-----------------------------------------------------------------------------
\* Every variable of the page stays of its type, for any number of devices,
\* setpoints, poll loops and calls.
THEOREM GuiTypeOK == Spec => []TypeOK
<1>1. GInv => TypeOK
  BY DEF GInv
<1> QED BY <1>1, GInvAlways, PTL

\* connect and reconnectFresh cancel the loop they leave before there is another
\* one: at any time at most one poll loop may write to the display.
THEOREM GuiOnePoller == Spec => []OnePoller
<1>1. GInv => OnePoller
  BY DEF GInv
<1> QED BY <1>1, GInvAlways, PTL

\* refreshConnectButton is called wherever the node, the field or the connected
\* ticket changes so that a connection becomes possible.
THEOREM GuiConnectAvailable == Spec => []ConnectAvailable
<1>1. GInv => ConnectAvailable
  BY DEF GInv
<1> QED BY <1>1, GInvAlways, PTL

\* run looks at the flag after its await, and the flag is set by whoever ends
\* the subscription: a poll shows the device that is connected when it arrives.
THEOREM GuiPollsShowConnected == Spec => PollsShowConnected
<1> DEFINE Shows == shown' # shown /\ UNCHANGED sets => shown' \in {None, connectedTicket'}
<1>1. GInv /\ [Next]_vars => [Shows]_vars
  <2> SUFFICES ASSUME GInv, Next, shown' # shown, UNCHANGED sets
               PROVE  shown' \in {None, connectedTicket'}
    BY DEF vars, viewVars
  <2>1. CASE \E i \in Loops : LoopStep(i) \/ PollUseless(i)
    <3>1. PICK i \in Loops : LoopStep(i) \/ PollUseless(i)
      BY <2>1
    <3>2. PollShown(i) /\ shown' = loops[i].ticket
      BY <3>1 DEF LoopStep, Poll, PollAnswered, PollSuperseded, PollShown, Tick,
                  PollUseless, OnReading, viewVars
    <3> QED BY <3>2, GuiAssumption DEF GInv, OnePoller, PollShown, pageVars
  <2>2. CASE \E k \in Sets : Release(k) \/ SetStep(k)
    <3>1. PICK k \in Sets : Release(k) \/ SetStep(k)
      BY <2>2
    <3>2. SetShown(k)
      BY <3>1 DEF Release, SetStep, SetApplied, SetUnapplied, SetRefused, SetOk, SetStatus,
                  viewVars
    <3>3. sets[k].pc = "reported" /\ sets'[k].pc = "gone"
      BY <3>2 DEF SetShown, GInv, TypeOK, NoSet
    <3> QED BY <3>3
  <2>3. CASE EditTicket \/ ClickConnect \/ BootDone \/ Foreground \/ ReconnectDone
             \/ SpawnFails
    BY <2>3 DEF EditTicket, ClickConnect, BootDone, Foreground, ReconnectDone, SpawnFails,
                ConnectWithNode, Subscribe, viewVars
  <2>4. CASE Drag \/ Blur \/ ReleaseUnconnected \/ OtherClientSets
    BY <2>4 DEF Drag, Blur, ReleaseUnconnected, OtherClientSets, viewVars
  <2> QED BY <2>1, <2>2, <2>3, <2>4 DEF Next
<1> QED BY <1>1, GInvAlways, PTL DEF Spec, PollsShowConnected

=============================================================================
