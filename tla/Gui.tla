--------------------------------- MODULE Gui ---------------------------------
(***************************************************************************)
(* The browser page: public/main.js and the wasm Node it drives.  A step   *)
(* is what runs between two awaits: an event of the user or of the         *)
(* browser, an answer that comes in, a timer.  Devices are known by their  *)
(* tickets; of what a device reports only the setpoint is kept, the rest   *)
(* of the display travels with it.  The page is the variant with a slider  *)
(* and a secret: the others behave like this one when nobody drags.        *)
(***************************************************************************)
EXTENDS Naturals

CONSTANTS
  Tickets,                 \* tickets of devices
  Values,                  \* setpoints
  None,                    \* null, or an empty field
  Loops,                   \* bound: poll loops that exist at the same time
  Sets                     \* bound: set_threshold calls at the same time

ASSUME GuiAssumption == None \notin Tickets \cup Values \cup Loops

VARIABLES
  threshold,               \* threshold[t]: the setpoint of device t
  field,                   \* $ticket.value
  offered,                 \* the connect button is enabled
  node,                    \* node is not null
  spawning,                \* who awaits Node.spawn: "boot", "reconnect" or no one
  connectedTicket,         \* the ticket that current is polling
  current,                 \* the Subscription that is active
  loops,                   \* the poll loops, one for each Subscription
  sets,                    \* the calls of set_threshold
  shown,                   \* the device whose reading is displayed
  deviceThreshold,         \* the threshold the device last reported
  slider,                  \* $slider.value
  focused                  \* the slider is the document's activeElement

pageVars == <<field, offered, node, spawning, connectedTicket, current>>
viewVars == <<shown, deviceThreshold, slider, focused>>
vars     == <<threshold, pageVars, loops, sets, viewVars>>

Answer == Values \cup {None}         \* None: no reading yet, or an error
Loop   == [pc : {"gone", "check", "rpc", "answered", "sleep"},
           ticket : Tickets \cup {None}, cancelled : BOOLEAN, answer : Answer]
Set    == [pc : {"gone", "rpc", "ok", "refused", "failed", "status", "reported"},
           ticket : Tickets \cup {None}, value : Values \cup {None}, answer : Answer]

NoLoop == [pc |-> "gone", ticket |-> None, cancelled |-> FALSE, answer |-> None]
NoSet  == [pc |-> "gone", ticket |-> None, value |-> None, answer |-> None]

Init ==
  /\ threshold \in [Tickets -> Values]
  /\ field \in Tickets \cup {None}
  /\ offered = FALSE
  /\ node = FALSE
  /\ spawning = "boot"
  /\ connectedTicket = None
  /\ current = None
  /\ loops = [i \in Loops |-> NoLoop]
  /\ sets = [i \in Sets |-> NoSet]
  /\ shown = None
  /\ deviceThreshold = None
  /\ slider \in Values
  /\ focused = FALSE

-----------------------------------------------------------------------------
(* The page: its fields, connect and reconnectFresh.                       *)

\* refreshConnectButton
Offer(up, text, ticket) == up /\ text # None /\ text # ticket

\* The user types in the ticket field.
EditTicket ==
  /\ field' \in (Tickets \cup {None}) \ {field}
  /\ offered' = Offer(node, field', connectedTicket)
  /\ UNCHANGED <<threshold, node, spawning, connectedTicket, current,
                 loops, sets, viewVars>>

\* connect, past its early return: the previous loop is cancelled, the display
\* reset and a new loop spawned.
Subscribe(i) ==
  /\ loops[i].pc = "gone"
  /\ loops' = [j \in Loops |->
                 IF j = i THEN [NoLoop EXCEPT !.pc = "check", !.ticket = field]
                 ELSE IF j = current THEN [loops[j] EXCEPT !.cancelled = TRUE]
                 ELSE loops[j]]
  /\ current' = i
  /\ connectedTicket' = field
  /\ shown' = None
  /\ deviceThreshold' = None
  /\ offered' = FALSE

\* connect is called with a node: it returns early without a ticket.
ConnectWithNode ==
  \/ /\ Offer(TRUE, field, connectedTicket)
     /\ \E i \in Loops : Subscribe(i)
  \/ /\ ~Offer(TRUE, field, connectedTicket)
     /\ UNCHANGED <<loops, current, connectedTicket, shown, deviceThreshold, offered>>

\* The button or the enter key, while the button is enabled.  connect looks at
\* the node again.
ClickConnect ==
  /\ offered
  /\ node
  /\ ConnectWithNode
  /\ UNCHANGED <<threshold, field, node, spawning, sets, slider, focused>>

\* The endpoint is up.  Unless the ticket came with the URL, the user connects.
BootDone ==
  /\ spawning = "boot"
  /\ spawning' = "none"
  /\ node' = TRUE
  /\ \/ ConnectWithNode /\ field # None
     \/ /\ offered' = Offer(TRUE, field, connectedTicket)
        /\ UNCHANGED <<loops, current, connectedTicket, shown, deviceThreshold>>
  /\ UNCHANGED <<threshold, field, sets, slider, focused>>

\* Mutant: the page forgets its subscription and does not stop it.
ForegroundKeepsLoop ==
  /\ connectedTicket # None
  /\ current' = None
  /\ node' = FALSE
  /\ connectedTicket' = None
  /\ spawning' = "reconnect"
  /\ UNCHANGED <<threshold, field, offered, loops, sets, viewVars>>

\* The page returns to the foreground after more than five seconds while it
\* was connected: reconnectFresh up to its await.
Foreground ==
  /\ connectedTicket # None
  /\ loops' = [loops EXCEPT ![current].cancelled = TRUE]
  /\ current' = None
  /\ node' = FALSE
  /\ connectedTicket' = None
  /\ spawning' = "reconnect"
  /\ UNCHANGED <<threshold, field, offered, sets, viewVars>>

\* Mutant: nobody looks at the ticket again when the node is back.
ReconnectDoneNoConnect ==
  /\ spawning = "reconnect"
  /\ spawning' = "none"
  /\ node' = TRUE
  /\ UNCHANGED <<threshold, field, offered, connectedTicket, current, loops, sets, viewVars>>

\* ... and from there on: connect with what the field holds now.
ReconnectDone ==
  /\ spawning = "reconnect"
  /\ spawning' = "none"
  /\ node' = TRUE
  /\ ConnectWithNode
  /\ UNCHANGED <<threshold, field, sets, slider, focused>>

\* Node.spawn fails, at boot or in reconnectFresh: there is no second attempt.
SpawnFails ==
  /\ spawning # "none"
  /\ spawning' = "none"
  /\ UNCHANGED <<threshold, field, offered, node, connectedTicket, current,
                 loops, sets, viewVars>>

-----------------------------------------------------------------------------
(* onReading and snapBack.                                                 *)

\* Mutant: the slider is only set when the device reports something new.
OnReadingIfNew(ticket, value) ==
  /\ shown' = ticket
  /\ deviceThreshold' = value
  /\ slider' = IF ~focused /\ value # deviceThreshold THEN value ELSE slider

\* The slider follows the device, unless the user is at it.
OnReading(ticket, value) ==
  /\ shown' = ticket
  /\ deviceThreshold' = value
  /\ slider' = IF ~focused THEN value ELSE slider

\* Mutant: there is always a threshold to snap back to.
SnapToNull == slider' = deviceThreshold

SnapBack == slider' = IF deviceThreshold # None THEN deviceThreshold ELSE slider

-----------------------------------------------------------------------------
(* A poll loop: run in lib.rs.                                             *)

\* The top of the loop: stop if cancelled, else call the device.
Poll(i) ==
  /\ loops[i].pc = "check"
  /\ loops' = [loops EXCEPT ![i] = IF @.cancelled THEN NoLoop ELSE [@ EXCEPT !.pc = "rpc"]]
  /\ UNCHANGED <<threshold, pageVars, sets, viewVars>>

\* The device answers with its setpoint; the answer is on its way.
PollAnswered(i) ==
  /\ loops[i].pc = "rpc"
  /\ loops' = [loops EXCEPT ![i].pc = "answered",
                            ![i].answer = threshold[loops[i].ticket]]
  /\ UNCHANGED <<threshold, pageVars, sets, viewVars>>

\* The device has no reading yet, or the call fails.
PollUseless(i) ==
  /\ loops[i].pc = "rpc"
  /\ loops' = [loops EXCEPT ![i].pc = "answered"]
  /\ UNCHANGED <<threshold, pageVars, sets, viewVars>>

\* Mutant: the flag is not looked at again after the await.
PollShownAnyway(i) ==
  /\ loops[i].pc = "answered"
  /\ loops' = [loops EXCEPT ![i].pc = "sleep", ![i].answer = None]
  /\ IF loops[i].answer \in Values
     THEN OnReading(loops[i].ticket, loops[i].answer)
     ELSE UNCHANGED <<shown, deviceThreshold, slider>>
  /\ UNCHANGED <<threshold, pageVars, sets, focused>>

\* The answer is in, but the loop was cancelled while it waited for it.
PollSuperseded(i) ==
  /\ loops[i].pc = "answered"
  /\ loops[i].cancelled
  /\ loops' = [loops EXCEPT ![i] = NoLoop]
  /\ UNCHANGED <<threshold, pageVars, sets, viewVars>>

PollShown(i) ==
  /\ loops[i].pc = "answered"
  /\ ~loops[i].cancelled
  /\ loops' = [loops EXCEPT ![i].pc = "sleep", ![i].answer = None]
  /\ IF loops[i].answer \in Values
     THEN OnReading(loops[i].ticket, loops[i].answer)
     ELSE UNCHANGED <<shown, deviceThreshold, slider>>
  /\ UNCHANGED <<threshold, pageVars, sets, focused>>

\* POLL_INTERVAL_MS have passed.
Tick(i) ==
  /\ loops[i].pc = "sleep"
  /\ loops' = [loops EXCEPT ![i].pc = "check"]
  /\ UNCHANGED <<threshold, pageVars, sets, viewVars>>

-----------------------------------------------------------------------------
(* The slider: its change event and set_threshold in lib.rs.               *)

Drag ==
  /\ slider' \in Values
  /\ focused' = TRUE
  /\ UNCHANGED <<threshold, pageVars, loops, sets, shown, deviceThreshold>>

Blur ==
  /\ focused
  /\ focused' = FALSE
  /\ UNCHANGED <<threshold, pageVars, loops, sets, shown, deviceThreshold, slider>>

\* The slider is released while no device is connected.
ReleaseUnconnected ==
  /\ focused
  /\ connectedTicket = None
  /\ SnapBack
  /\ UNCHANGED <<threshold, pageVars, loops, sets, shown, deviceThreshold, focused>>

\* The slider is released: the call goes to the device that is connected now.
Release(k) ==
  /\ focused
  /\ connectedTicket # None
  /\ sets[k].pc = "gone"
  /\ sets' = [sets EXCEPT ![k] = [NoSet EXCEPT !.pc = "rpc", !.ticket = connectedTicket,
                                               !.value = slider]]
  /\ UNCHANGED <<threshold, pageVars, loops, viewVars>>

\* The device takes the setpoint; the answer may be lost on the way back.
SetApplied(k) ==
  /\ sets[k].pc = "rpc"
  /\ threshold' = [threshold EXCEPT ![sets[k].ticket] = sets[k].value]
  /\ \E p \in {"ok", "failed"} : sets' = [sets EXCEPT ![k].pc = p]
  /\ UNCHANGED <<pageVars, loops, viewVars>>

\* The device refuses, or the call does not get there.
SetUnapplied(k) ==
  /\ sets[k].pc = "rpc"
  /\ \E p \in {"refused", "failed"} : sets' = [sets EXCEPT ![k].pc = p]
  /\ UNCHANGED <<threshold, pageVars, loops, viewVars>>

SetRefused(k) ==
  /\ sets[k].pc \in {"refused", "failed"}
  /\ sets' = [sets EXCEPT ![k] = NoSet]
  /\ SnapBack
  /\ UNCHANGED <<threshold, pageVars, loops, shown, deviceThreshold, focused>>

\* Ok came in: the status is asked for on the same connection.
SetOk(k) ==
  /\ sets[k].pc = "ok"
  /\ sets' = [sets EXCEPT ![k].pc = "status"]
  /\ UNCHANGED <<threshold, pageVars, loops, viewVars>>

SetStatus(k) ==
  /\ sets[k].pc = "status"
  /\ \E a \in {threshold[sets[k].ticket], None} :
       sets' = [sets EXCEPT ![k].pc = "reported", ![k].answer = a]
  /\ UNCHANGED <<threshold, pageVars, loops, viewVars>>

\* The status goes to onReading and the value to deviceThreshold, whichever
\* device the page is connected to by now.
SetShown(k) ==
  /\ sets[k].pc = "reported"
  /\ sets' = [sets EXCEPT ![k] = NoSet]
  /\ deviceThreshold' = sets[k].value
  /\ IF sets[k].answer \in Values
     THEN /\ shown' = sets[k].ticket
          /\ slider' = IF focused THEN slider ELSE sets[k].answer
     ELSE UNCHANGED <<shown, slider>>
  /\ UNCHANGED <<threshold, pageVars, loops, focused>>

\* Another client changes the setpoint of a device.
OtherClientSets ==
  /\ \E t \in Tickets, v \in Values : threshold' = [threshold EXCEPT ![t] = v]
  /\ UNCHANGED <<pageVars, loops, sets, viewVars>>

LoopStep(i) == Poll(i) \/ PollAnswered(i) \/ PollSuperseded(i) \/ PollShown(i) \/ Tick(i)
SetStep(k)  == SetApplied(k) \/ SetUnapplied(k) \/ SetRefused(k) \/ SetOk(k)
                 \/ SetStatus(k) \/ SetShown(k)

Next ==
  \/ EditTicket \/ ClickConnect \/ BootDone \/ Foreground \/ ReconnectDone \/ SpawnFails
  \/ Drag \/ Blur \/ ReleaseUnconnected
  \/ OtherClientSets
  \/ \E i \in Loops : LoopStep(i) \/ PollUseless(i)
  \/ \E k \in Sets : Release(k) \/ SetStep(k)

\* The browser runs what is ready; a call that is made again and again gets
\* through in the end; the user promises nothing.
Spec == /\ Init /\ [][Next]_vars
        /\ WF_vars(BootDone) /\ WF_vars(ReconnectDone)
        /\ \A i \in Loops : WF_vars(LoopStep(i)) /\ SF_vars(PollAnswered(i))
        /\ \A k \in Sets : WF_vars(SetStep(k))

-----------------------------------------------------------------------------
TypeOK ==
  /\ threshold \in [Tickets -> Values]
  /\ field \in Tickets \cup {None}
  /\ offered \in BOOLEAN
  /\ node \in BOOLEAN
  /\ spawning \in {"boot", "reconnect", "none"}
  /\ connectedTicket \in Tickets \cup {None}
  /\ current \in Loops \cup {None}
  /\ loops \in [Loops -> Loop]
  /\ sets \in [Sets -> Set]
  /\ shown \in Tickets \cup {None}
  /\ deviceThreshold \in Values \cup {None}
  /\ slider \in Values
  /\ focused \in BOOLEAN

\* Every loop that was not cancelled is the one of the current subscription
\* and polls the ticket that the page takes for connected: two never write to
\* the display, whatever was clicked, frozen and spawned again in between.
OnePoller ==
  /\ \A i \in Loops : loops[i].pc # "gone" /\ ~loops[i].cancelled => i = current
  /\ current = None <=> connectedTicket = None
  /\ current # None => /\ node
                       /\ loops[current].ticket = connectedTicket
                       /\ loops[current].pc # "gone"

\* What a poll brings to the display is the device that is connected by then,
\* whichever device was asked.
PollsShowConnected ==
  [][ shown' # shown /\ UNCHANGED sets => shown' \in {None, connectedTicket'} ]_vars

\* The button is never left disabled when there is a device to connect to.
ConnectAvailable ==
  node /\ field # None /\ field # connectedTicket => offered

\* A display settles: once the page stays with a device, the setpoint of that
\* device stays as it is and the slider is let go, the page comes to show that
\* setpoint and keeps it, whatever late answers were still on their way.
DisplaySettles ==
  \A t \in Tickets, v \in Values :
    <>[](connectedTicket = t /\ threshold[t] = v /\ ~focused)
      => <>[](deviceThreshold = v /\ shown = t /\ slider = v)

-----------------------------------------------------------------------------
(* What a comment of the page says, and the page does not do.              *)

\* run: no late poll "can clobber the next subscription's display", and connect
\* resets "the display for the new device".  A late answer to set_threshold does.
DisplayOfConnected ==
  connectedTicket # None => shown \in {None, connectedTicket}

=============================================================================
