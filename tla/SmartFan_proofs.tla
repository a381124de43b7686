--------------------------- MODULE SmartFan_proofs ---------------------------
(***************************************************************************)
(* Proofs about SmartFan, for every set of temperatures, setpoints and     *)
(* connections, every range and every hysteresis band.                     *)
(***************************************************************************)
EXTENDS SmartFan, TLAPS

-----------------------------------------------------------------------------
(* Lemmas about the decision.                                              *)

\* The thermostat decides for one of the two states of the fan.
LEMMA DecideType ==
  ASSUME NEW fan, NEW temp, NEW threshold
  PROVE  Decide(fan, temp, threshold) \in Fan
BY DEF Decide, Fan

\* Deciding again on the same reading and setpoint changes nothing: what one
\* critical section publishes is settled, whatever the fan was before.
LEMMA DecideIdempotent ==
  ASSUME NEW fan \in Fan, NEW temp \in Int, NEW threshold \in Int
  PROVE  LET d == Decide(fan, temp, threshold)
         IN  Decide(d, temp, threshold) = d
BY FanAssumption DEF Decide, Fan

\* The fan is switched on at the setpoint and off below the band.
LEMMA DecideSwitch ==
  ASSUME NEW fan \in Fan, NEW temp \in Int, NEW threshold \in Int,
         Decide(fan, temp, threshold) # fan
  PROVE  IF Decide(fan, temp, threshold) = "on"
         THEN temp >= threshold
         ELSE temp < threshold - FAN_HYSTERESIS
BY FanAssumption DEF Decide, Fan

\* A setpoint that passes the verdict is a number inside the range.
LEMMA VerdictOk ==
  ASSUME NEW r \in Request, r.type = "SetThreshold", Verdict(r) = "Ok"
  PROVE  r.threshold \in THRESHOLD_MIN .. THRESHOLD_MAX
<1>1. r \in [type : {"SetThreshold"}, secret : Secrets, threshold : Setpoints]
  BY DEF Request
<1>2. r.threshold \in Setpoints
  BY <1>1
<1>3. r.threshold \in Int \cup {NaN}
  BY <1>2, FanAssumption
<1>4. InRange(r.threshold)
  BY DEF Verdict
<1> QED
  BY <1>3, <1>4, FanAssumption DEF InRange

\* Every request is answered with a value of its own response type.
LEMMA AnswerType ==
  ASSUME NEW s \in State, NEW r \in Request
  PROVE  Answer(s, r) \in Response
<1>1. r.type \in {"GetLatest", "GetStatus", "SetThreshold"}
  BY DEF Request
<1>2. CASE r.type = "GetLatest"
  BY <1>2 DEF Answer, Response, State
<1>3. CASE r.type = "GetStatus"
  <2>1. (IF s.reading = None THEN None ELSE s) \in Status \cup {None}
    BY DEF State, Status, Reading
  <2>2. Answer(s, r) = [type |-> "GetStatus",
                        status |-> IF s.reading = None THEN None ELSE s]
    BY <1>3 DEF Answer
  <2> QED
    BY <2>1, <2>2 DEF Response
<1>4. CASE r.type = "SetThreshold"
  BY <1>4 DEF Answer, Response, Verdict, SetThresholdResponse
<1> QED
  BY <1>1, <1>2, <1>3, <1>4

-----------------------------------------------------------------------------
(* The inductive invariant.                                                *)

\* What was sent is still there while the call is under way, and only a
\* SetThreshold that was accepted stands between its write and its message.
CallKept ==
  \A c \in Conns :
    /\ pc[c] \in {"called", "wrote", "replied"} => req[c] \in Request
    /\ pc[c] = "wrote" => req[c].type = "SetThreshold" /\ Verdict(req[c]) = "Ok"

\* The thread's own copy of the fan is the published one, and the pin follows
\* it except between the critical section and the write of the GPIO.
FanAgrees == fanOn = state.fan /\ (spc # "drive" => gpio = fanOn)

\* A reading that was taken is published by the next critical section.
ReadingPublished ==
  /\ last = None => state.reading = None
  /\ spc # "apply" => state.reading = last

\* The fan was switched on at the setpoint, or off below its band.
SwitchRecorded ==
  toggle # None =>
    IF state.fan = "on" THEN toggle.temp >= toggle.threshold
                        ELSE toggle.temp < toggle.threshold - FAN_HYSTERESIS

IInv == /\ TypeOK
        /\ SetpointInRange
        /\ CallKept
        /\ FanAgrees
        /\ ReadingPublished
        /\ NoLostWakeup
        /\ SwitchRecorded


-----------------------------------------------------------------------------
(* The steps of the sensor thread.                                         *)

LEMMA SensorTypeOK ==
  ASSUME TypeOK, SensorStep
  PROVE  TypeOK'
<1> USE FanAssumption DEF TypeOK, SensorPc, Reading, State
<1>1. CASE ReadSensor        BY <1>1 DEF ReadSensor, connVars
<1>2. CASE Apply
  <2> DEFINE fan == Decide(fanOn, last, state.threshold)
  <2>1. fan \in Fan
    BY DecideType
  <2>2. last \in Temps
    BY <1>2 DEF Apply
  <2>3. [temp |-> last, threshold |-> state.threshold] \in Toggle
    BY <2>2 DEF Toggle
  <2>4. fanOn' = fan /\ state' = [reading |-> last, fan |-> fan, threshold |-> state.threshold]
    BY <1>2 DEF Apply
  <2>5. toggle' \in Toggle \cup {None}
    BY <1>2, <2>3 DEF Apply
  <2>6. state' \in State
    BY <2>1, <2>2, <2>4
  <2> HIDE DEF fan
  <2> QED
    BY <1>2, <2>1, <2>4, <2>5, <2>6 DEF Apply, connVars
<1>3. CASE SkipApply         BY <1>3 DEF SkipApply, connVars
<1>4. CASE Drive             BY <1>4 DEF Drive, connVars
<1>5. CASE RecvConfig        BY <1>5 DEF RecvConfig, connVars
<1>6. CASE Drain             BY <1>6 DEF Drain, connVars
<1>7. CASE RecvTimeout       BY <1>7 DEF RecvTimeout, connVars
<1>8. CASE RecvDisconnected  BY <1>8 DEF RecvDisconnected, connVars
<1> QED
  BY <1>1, <1>2, <1>3, <1>4, <1>5, <1>6, <1>7, <1>8 DEF SensorStep

\* The only step that decides: what it publishes is settled.
LEMMA ApplyStep ==
  ASSUME IInv, Apply
  PROVE  /\ SetpointInRange'
         /\ Settled'
         /\ FanAgrees'
         /\ SwitchRecorded'
<1> DEFINE fan == Decide(fanOn, last, state.threshold)
<1>1. /\ fanOn \in Fan
      /\ last \in Temps
      /\ last \in Int
      /\ state \in State
      /\ state.threshold \in Int
  BY FanAssumption DEF IInv, TypeOK, Apply, State, Reading
<1>2. /\ fanOn' = fan
      /\ state' = [reading |-> last, fan |-> fan, threshold |-> state.threshold]
      /\ toggle' = IF fan = fanOn THEN toggle
                   ELSE [temp |-> last, threshold |-> state.threshold]
      /\ spc' = "drive"
  BY DEF Apply
<1>3. /\ state'.threshold = state.threshold
      /\ state'.reading = last
      /\ state'.fan = fan
  BY <1>1, <1>2 DEF State
<1>4. Decide(fan, last, state.threshold) = fan
  BY <1>1, DecideIdempotent
<1>5. fan \in Fan
  BY DecideType
<1>6. fan # fanOn => IF fan = "on" THEN last >= state.threshold
                                   ELSE last < state.threshold - FAN_HYSTERESIS
  BY <1>1, DecideSwitch
<1>7. fanOn = state.fan
  BY DEF IInv, FanAgrees
<1> HIDE DEF fan
<1>8. SetpointInRange'
  BY <1>3 DEF IInv, SetpointInRange
<1>9. Settled'
  BY <1>3, <1>4 DEF Settled
<1>10. FanAgrees'
  BY <1>2, <1>3 DEF FanAgrees
<1>11. SwitchRecorded'
  BY <1>1, <1>2, <1>3, <1>6, <1>7 DEF IInv, SwitchRecorded
<1> QED
  BY <1>8, <1>9, <1>10, <1>11

LEMMA SensorStepIInv ==
  ASSUME IInv, SensorStep
  PROVE  IInv'
<1> USE DEF IInv
<1>1. TypeOK'
  BY SensorTypeOK
<1>2. CallKept'
  BY DEF CallKept, SensorStep, ReadSensor, Apply, SkipApply, Drive, RecvConfig,
         Drain, RecvTimeout, RecvDisconnected, connVars
<1>3. ReadingPublished'
  <2>1. CASE ReadSensor
    BY <2>1, FanAssumption DEF ReadSensor, ReadingPublished
  <2>2. CASE Apply
    BY <2>2 DEF Apply, ReadingPublished
  <2> QED
    BY <2>1, <2>2 DEF SensorStep, SkipApply, Drive, RecvConfig, Drain,
       RecvTimeout, RecvDisconnected, ReadingPublished
<1>4. CASE Apply
  <2>1. NoLostWakeup'
    BY <1>4, ApplyStep DEF NoLostWakeup
  <2> QED
    BY <1>1, <1>2, <1>3, <1>4, <2>1, ApplyStep
<1>5. CASE ~Apply
  <2>1. UNCHANGED <<state, fanOn, toggle>>
    BY <1>5 DEF SensorStep, ReadSensor, SkipApply, Drive, RecvConfig, Drain,
                RecvTimeout, RecvDisconnected
  <2>2. SetpointInRange' /\ SwitchRecorded'
    BY <2>1 DEF SetpointInRange, SwitchRecorded
  <2>3. FanAgrees'
    BY <1>5, <2>1 DEF FanAgrees, SensorStep, ReadSensor, SkipApply, Drive,
                      RecvConfig, Drain, RecvTimeout, RecvDisconnected
  <2>4. Settled <=> Settled'
    BY <2>1 DEF Settled
  <2>5. NoLostWakeup'
    <3>1. CASE ReadSensor        BY <3>1 DEF ReadSensor, NoLostWakeup
    <3>2. CASE SkipApply
      BY <2>4, <3>2 DEF SkipApply, NoLostWakeup, ReadingPublished, Settled
    <3>3. CASE Drive
      BY <2>4, <3>3 DEF Drive, NoLostWakeup, RuntimeIdle, connVars
    <3>4. CASE RecvConfig        BY <3>4 DEF RecvConfig, NoLostWakeup
    <3>5. CASE Drain             BY <3>5 DEF Drain, NoLostWakeup
    <3>6. CASE RecvTimeout       BY <3>6 DEF RecvTimeout, NoLostWakeup
    <3>7. CASE RecvDisconnected  BY <3>7 DEF RecvDisconnected, NoLostWakeup
    <3> QED
      BY <1>5, <3>1, <3>2, <3>3, <3>4, <3>5, <3>6, <3>7 DEF SensorStep
  <2> QED
    BY <1>1, <1>2, <1>3, <2>2, <2>3, <2>5
<1> QED
  BY <1>4, <1>5


-----------------------------------------------------------------------------
(* The steps of the connections.                                           *)

\* What the steps of a connection leave alone, and that no other step of the
\* runtime is mixed with a handler that has not sent its message yet.
ConnFrame ==
  /\ UNCHANGED <<sensorVars, state>>
  /\ tokens' = tokens
  /\ RuntimeIdle' => RuntimeIdle

LEMMA FrameStep ==
  ASSUME TypeOK, NEW c \in Conns,
         \/ Accept(c) \/ GetLatest(c) \/ GetStatus(c) \/ RejectSet(c)
         \/ Client(c)
  PROVE  ConnFrame
<1>1. RuntimeIdle' => RuntimeIdle
  BY DEF TypeOK, RuntimeIdle, Accept, GetLatest, GetStatus, RejectSet, Client,
         Call, Return, CloseConn, Reply
<1> QED
  BY <1>1 DEF ConnFrame, Accept, GetLatest, GetStatus, RejectSet, Client, Call,
              Return, CloseConn

LEMMA FrameIInv ==
  ASSUME IInv, ConnFrame
  PROVE  /\ SetpointInRange'
         /\ FanAgrees'
         /\ ReadingPublished'
         /\ NoLostWakeup'
         /\ SwitchRecorded'
BY DEF IInv, ConnFrame, sensorVars, SetpointInRange, FanAgrees,
       ReadingPublished, NoLostWakeup, Settled, SwitchRecorded

LEMMA ReplyStep ==
  ASSUME TypeOK, CallKept, NEW c \in Conns, pc[c] \in {"called", "wrote"},
         Reply(c, Answer(state, req[c])), UNCHANGED <<state, sensorVars, serverUp>>,
         tokens' \in Nat
  PROVE  TypeOK' /\ CallKept'
<1>1. req[c] \in Request /\ state \in State
  BY DEF CallKept, TypeOK
<1>2. Answer(state, req[c]) \in Response
  BY <1>1, AnswerType
<1>3. TypeOK'
  BY <1>2 DEF TypeOK, Reply, ConnPc, sensorVars
<1>4. CallKept'
  BY DEF TypeOK, CallKept, Reply
<1> QED
  BY <1>3, <1>4

LEMMA FrameTypeOK ==
  ASSUME TypeOK, CallKept, NEW c \in Conns,
         \/ Accept(c) \/ GetLatest(c) \/ GetStatus(c) \/ RejectSet(c)
         \/ Client(c)
  PROVE  TypeOK' /\ CallKept'
<1>1. CASE Accept(c)
  BY <1>1 DEF TypeOK, CallKept, Accept, ConnPc, sensorVars
<1>2. CASE GetLatest(c) \/ GetStatus(c) \/ RejectSet(c)
  BY <1>2, ReplyStep DEF TypeOK, GetLatest, GetStatus, RejectSet
<1>3. CASE Return(c)
  BY <1>3 DEF TypeOK, CallKept, Return, ConnPc, sensorVars
<1>4. CASE CloseConn(c)
  BY <1>4 DEF TypeOK, CallKept, CloseConn, ConnPc, sensorVars
<1>5. CASE \E r \in Request : Call(c, r)
  BY <1>5 DEF TypeOK, CallKept, Call, ConnPc, sensorVars
<1> QED
  BY <1>1, <1>2, <1>3, <1>4, <1>5 DEF Client

\* The setpoint moves: the handler owes the sensor thread a message.
LEMMA AcceptSetIInv ==
  ASSUME IInv, NEW c \in Conns, AcceptSet(c)
  PROVE  IInv'
<1>1. /\ req[c] \in Request
      /\ req[c].type = "SetThreshold"
      /\ Verdict(req[c]) = "Ok"
      /\ state \in State
  BY DEF IInv, TypeOK, CallKept, AcceptSet
<1>2. req[c].threshold \in THRESHOLD_MIN .. THRESHOLD_MAX
  BY <1>1, VerdictOk
<1>3. /\ state' \in State
      /\ state'.threshold = req[c].threshold
      /\ state'.fan = state.fan
      /\ state'.reading = state.reading
  BY <1>1, <1>2, FanAssumption DEF AcceptSet, State
<1>4. pc' = [pc EXCEPT ![c] = "wrote"] /\ UNCHANGED <<sensorVars, tokens, serverUp, req, resp>>
  BY DEF AcceptSet
<1>5. TypeOK'
  BY <1>3, <1>4 DEF IInv, TypeOK, ConnPc, sensorVars
<1>6. CallKept'
  BY <1>1, <1>4 DEF IInv, TypeOK, CallKept
<1>7. SetpointInRange'
  BY <1>2, <1>3 DEF SetpointInRange
<1>8. ~RuntimeIdle'
  BY <1>4 DEF IInv, TypeOK, RuntimeIdle
<1>9. FanAgrees' /\ ReadingPublished' /\ SwitchRecorded'
  BY <1>3, <1>4 DEF IInv, FanAgrees, ReadingPublished, SwitchRecorded, sensorVars
<1> QED
  BY <1>5, <1>6, <1>7, <1>8, <1>9 DEF IInv, NoLostWakeup

\* ... and pays it.
LEMMA WakeSensorIInv ==
  ASSUME IInv, NEW c \in Conns, WakeSensor(c)
  PROVE  IInv'
<1>1. UNCHANGED <<state, sensorVars>> /\ tokens' \in Nat /\ tokens' > 0
  BY DEF IInv, TypeOK, WakeSensor
<1>2. TypeOK' /\ CallKept'
  BY <1>1, ReplyStep DEF IInv, WakeSensor
<1>3. SetpointInRange' /\ FanAgrees' /\ ReadingPublished' /\ SwitchRecorded'
  BY <1>1 DEF IInv, SetpointInRange, FanAgrees, ReadingPublished, SwitchRecorded, sensorVars
<1> QED
  BY <1>1, <1>2, <1>3 DEF IInv, NoLostWakeup

-----------------------------------------------------------------------------
(* The invariant holds.                                                    *)

LEMMA InitIInv == Init => IInv
<1> SUFFICES ASSUME Init PROVE IInv
  OBVIOUS
<1>1. TypeOK
  BY FanAssumption DEF Init, TypeOK, State, Reading, Fan, SensorPc, ConnPc
<1> QED
  BY <1>1, FanAssumption DEF Init, IInv, SetpointInRange, CallKept, FanAgrees,
     ReadingPublished, NoLostWakeup, SwitchRecorded

LEMMA NextIInv == IInv /\ [Next]_vars => IInv'
<1> SUFFICES ASSUME IInv, [Next]_vars PROVE IInv'
  OBVIOUS
<1>1. CASE SensorStep
  BY <1>1, SensorStepIInv
<1>2. ASSUME NEW c \in Conns,
             \/ Accept(c) \/ GetLatest(c) \/ GetStatus(c) \/ RejectSet(c)
             \/ Client(c)
      PROVE  IInv'
  BY <1>2, FrameStep, FrameTypeOK, FrameIInv DEF IInv
<1>3. ASSUME NEW c \in Conns, AcceptSet(c)  PROVE IInv'
  BY <1>3, AcceptSetIInv
<1>4. ASSUME NEW c \in Conns, WakeSensor(c) PROVE IInv'
  BY <1>4, WakeSensorIInv
<1>5. CASE RouterStops
  BY <1>5 DEF RouterStops, IInv, TypeOK, CallKept, SetpointInRange, FanAgrees,
              ReadingPublished, NoLostWakeup, Settled, RuntimeIdle,
              SwitchRecorded, sensorVars, connVars
<1>6. CASE UNCHANGED vars
  BY <1>6 DEF vars, IInv, TypeOK, CallKept, SetpointInRange, FanAgrees,
              ReadingPublished, NoLostWakeup, Settled, RuntimeIdle,
              SwitchRecorded, sensorVars, connVars
<1> QED
  BY <1>1, <1>2, <1>3, <1>4, <1>5, <1>6 DEF Next, Handler

\* The inductive invariant: every safety result below follows from it.
THEOREM Invariance == Spec => []IInv
BY InitIInv, NextIInv, PTL DEF Spec


-----------------------------------------------------------------------------
(* Safety of the firmware.                                                 *)

\* Every variable keeps its type.
THEOREM TypeCorrect == Spec => []TypeOK
BY Invariance, PTL DEF IInv

\* Whatever f32 the clients send, NaN included, the setpoint in force stays a
\* number between THRESHOLD_MIN and THRESHOLD_MAX.
THEOREM SetpointBounded == Spec => []SetpointInRange
BY Invariance, PTL DEF IInv

\* No interleaving of handlers, closed connections and the sensor thread
\* leaves a setpoint in force that nothing will apply.
THEOREM SetpointNotForgotten == Spec => []NoLostWakeup
BY Invariance, PTL DEF IInv

\* When all is quiet the pin, the published State, the last reading and the
\* setpoint in force agree.
THEOREM QuiescentAgreement == Spec => []QuiescentFanCorrect
<1>1. IInv => QuiescentFanCorrect
  <2> SUFFICES ASSUME IInv, spc = "wait", tokens = 0, RuntimeIdle
               PROVE  /\ state.reading = last
                      /\ state.fan = gpio
                      /\ last # None => gpio = Decide(gpio, last, state.threshold)
    BY DEF QuiescentFanCorrect
  <2>1. state.reading = last /\ state.fan = gpio
    BY DEF IInv, ReadingPublished, FanAgrees
  <2>2. Settled
    BY DEF IInv, NoLostWakeup, TypeOK
  <2> QED
    BY <2>1, <2>2 DEF Settled
<1> QED
  BY <1>1, Invariance, PTL

\* Two switches in a row under the same setpoint are more than the band apart.
THEOREM HysteresisHolds == Spec => NoChatter
<1> DEFINE Apart ==
      toggle # None /\ toggle'.threshold = toggle.threshold =>
        \/ toggle'.temp - toggle.temp > FAN_HYSTERESIS
        \/ toggle.temp - toggle'.temp > FAN_HYSTERESIS
<1>1. IInv /\ [Next]_vars => [Apart]_toggle
  <2> SUFFICES ASSUME IInv, [Next]_vars, toggle' # toggle, toggle # None,
                      toggle'.threshold = toggle.threshold
               PROVE  \/ toggle'.temp - toggle.temp > FAN_HYSTERESIS
                      \/ toggle.temp - toggle'.temp > FAN_HYSTERESIS
    OBVIOUS
  <2>1. Apply
    BY DEF Next, vars, sensorVars, SensorStep, ReadSensor, SkipApply, Drive,
           RecvConfig, Drain, RecvTimeout, RecvDisconnected, RouterStops,
           Handler, Client, Accept, Call, GetLatest, GetStatus, RejectSet,
           AcceptSet, WakeSensor, Return, CloseConn
  <2> DEFINE fan == Decide(fanOn, last, state.threshold)
  <2>2. /\ fan # fanOn
        /\ toggle' = [temp |-> last, threshold |-> state.threshold]
    BY <2>1 DEF Apply
  <2>3. /\ fanOn \in Fan
        /\ fanOn = state.fan
        /\ last \in Int
        /\ state.threshold \in Int
        /\ toggle \in [temp : Int, threshold : Int]
        /\ FAN_HYSTERESIS \in Int
    BY <2>1, FanAssumption
       DEF Apply, IInv, TypeOK, FanAgrees, State, Reading, Toggle
  <2>4. IF fan = "on" THEN last >= state.threshold
                      ELSE last < state.threshold - FAN_HYSTERESIS
    BY <2>2, <2>3, DecideSwitch
  <2>5. fan \in Fan
    BY DecideType
  <2>6. IF fanOn = "on" THEN toggle.temp >= toggle.threshold
                        ELSE toggle.temp < toggle.threshold - FAN_HYSTERESIS
    BY <2>3 DEF IInv, SwitchRecorded
  <2> HIDE DEF fan
  <2>7. (fan = "on" /\ fanOn = "off") \/ (fan = "off" /\ fanOn = "on")
    BY <2>2, <2>3, <2>5 DEF Fan
  <2> QED
    BY <2>2, <2>3, <2>4, <2>6, <2>7
<1> QED
  BY <1>1, Invariance, PTL DEF Spec, NoChatter

-----------------------------------------------------------------------------
(* The firmware implements the service, the liveness of the service apart. *)

LEMMA InitRefines == Init => Service!Init
BY DEF Init, Service!Init, CallPhase, AnswerDue

LEMMA SensorRefines ==
  ASSUME IInv, SensorStep
  PROVE  [Service!Next]_(Service!vars)
<1>1. CASE Apply
  <2>1. last \in Temps /\ fanOn = state.fan
    BY <1>1 DEF Apply, IInv, TypeOK, Reading, FanAgrees
  <2>2. Service!Control(last)
    BY <1>1, <2>1 DEF Apply, Service!Control, Service!Decide, Decide, connVars,
                      CallPhase, AnswerDue
  <2> QED
    BY <2>1, <2>2 DEF Service!Next
<1>2. CASE ~Apply
  <2>1. UNCHANGED <<state, connVars>>
    BY <1>2 DEF SensorStep, ReadSensor, SkipApply, Drive, RecvConfig, Drain,
                RecvTimeout, RecvDisconnected
  <2> QED
    BY <2>1 DEF Service!vars, connVars, CallPhase, AnswerDue
<1> QED
  BY <1>1, <1>2


\* A handler that answers from the State serves the call in one step.
LEMMA ReplyRefines ==
  ASSUME IInv, NEW c \in Conns,
         GetLatest(c) \/ GetStatus(c) \/ RejectSet(c)
  PROVE  Service!Serve(c)
<1>1. /\ pc \in [Conns -> ConnPc] /\ resp \in [Conns -> Response \cup {None}]
      /\ pc[c] = "called" /\ RuntimeIdle
      /\ Reply(c, Answer(state, req[c])) /\ UNCHANGED state
      /\ ~(req[c].type = "SetThreshold" /\ Verdict(req[c]) = "Ok")
  BY DEF IInv, TypeOK, GetLatest, GetStatus, RejectSet
<1>2. CallPhase[c] = "called"
  BY <1>1 DEF CallPhase
<1>3. CallPhase' = [CallPhase EXCEPT ![c] = "replied"]
  BY <1>1 DEF CallPhase, Reply
<1>4. AnswerDue' = [AnswerDue EXCEPT ![c] = Answer(state, req[c])]
  BY <1>1 DEF AnswerDue, Reply, RuntimeIdle
<1>5. Answer(state, req[c]) = Service!Answer(state, req[c])
  BY DEF Answer, Service!Answer, Verdict, Service!Verdict, InRange, Service!InRange
<1>6. Verdict(req[c]) = Service!Verdict(req[c])
  BY DEF Verdict, Service!Verdict, InRange, Service!InRange
<1> QED
  BY <1>1, <1>2, <1>3, <1>4, <1>5, <1>6 DEF Service!Serve, Reply

\* The write of the setpoint is the step at which the service serves the call.
LEMMA AcceptSetRefines ==
  ASSUME IInv, NEW c \in Conns, AcceptSet(c)
  PROVE  Service!Serve(c)
<1>1. /\ pc \in [Conns -> ConnPc] /\ resp \in [Conns -> Response \cup {None}]
      /\ pc[c] = "called" /\ RuntimeIdle
      /\ pc' = [pc EXCEPT ![c] = "wrote"] /\ UNCHANGED <<req, resp>>
      /\ req[c].type = "SetThreshold" /\ Verdict(req[c]) = "Ok"
      /\ state' = [state EXCEPT !.threshold = req[c].threshold]
  BY DEF IInv, TypeOK, AcceptSet
<1>2. CallPhase[c] = "called"
  BY <1>1 DEF CallPhase
<1>3. CallPhase' = [CallPhase EXCEPT ![c] = "replied"]
  BY <1>1 DEF CallPhase
<1>4. Verdict(req[c]) = Service!Verdict(req[c])
  BY DEF Verdict, Service!Verdict, InRange, Service!InRange
<1>5. Service!Answer(state, req[c]) = [type |-> "SetThreshold", result |-> "Ok"]
  BY <1>1, <1>4 DEF Service!Answer
<1>6. AnswerDue' = [AnswerDue EXCEPT ![c] = [type |-> "SetThreshold", result |-> "Ok"]]
  BY <1>1 DEF AnswerDue, RuntimeIdle
<1> QED
  BY <1>1, <1>2, <1>3, <1>4, <1>5, <1>6 DEF Service!Serve

\* The message to the sensor thread is invisible to the clients.
LEMMA WakeSensorRefines ==
  ASSUME IInv, NEW c \in Conns, WakeSensor(c)
  PROVE  UNCHANGED Service!vars
<1>1. /\ pc \in [Conns -> ConnPc] /\ resp \in [Conns -> Response \cup {None}]
      /\ pc[c] = "wrote"
      /\ Reply(c, Answer(state, req[c])) /\ UNCHANGED state
      /\ req[c].type = "SetThreshold" /\ Verdict(req[c]) = "Ok"
  BY DEF IInv, TypeOK, CallKept, WakeSensor
<1>2. Answer(state, req[c]) = [type |-> "SetThreshold", result |-> "Ok"]
  BY <1>1 DEF Answer
<1>3. CallPhase' = CallPhase
  BY <1>1 DEF CallPhase, Reply
<1>4. AnswerDue' = AnswerDue
  BY <1>1, <1>2 DEF AnswerDue, Reply
<1> QED
  BY <1>1, <1>3, <1>4 DEF Service!vars, Reply

\* Connections and clients do the same things to both.
LEMMA ClientRefines ==
  ASSUME IInv, NEW c \in Conns, Accept(c) \/ Client(c)
  PROVE  Service!Next
<1>1. pc \in [Conns -> ConnPc] /\ resp \in [Conns -> Response \cup {None}]
        /\ req \in [Conns -> Request \cup {None}]
  BY DEF IInv, TypeOK
<1> USE <1>1 DEF CallPhase, AnswerDue
<1>2. CASE Accept(c)
  <2>1. Service!Open(c)
    BY <1>2 DEF Accept, Service!Open
  <2> QED
    BY <2>1 DEF Service!Next
<1>3. CASE Return(c)
  <2>1. Service!Return(c)
    BY <1>3 DEF Return, Service!Return
  <2> QED
    BY <2>1 DEF Service!Next
<1>4. CASE CloseConn(c)
  <2>1. Service!Close({c})
    BY <1>4 DEF CloseConn, Service!Close
  <2> QED
    BY <2>1 DEF Service!Next
<1>5. ASSUME NEW r \in Request, Call(c, r) PROVE Service!Next
  <2>1. Service!Call(c, r)
    BY <1>5 DEF Call, Service!Call
  <2> QED
    BY <2>1 DEF Service!Next, Service!Request, Request
<1> QED
  BY <1>2, <1>3, <1>4, <1>5 DEF Client

LEMMA NextRefines == IInv /\ [Next]_vars => [Service!Next]_(Service!vars)
<1> SUFFICES ASSUME IInv, [Next]_vars PROVE [Service!Next]_(Service!vars)
  OBVIOUS
<1>1. CASE SensorStep
  BY <1>1, SensorRefines
<1>2. ASSUME NEW c \in Conns, Handler(c) PROVE Service!Next
  BY <1>2, ReplyRefines, AcceptSetRefines DEF Handler, Service!Next
<1>3. ASSUME NEW c \in Conns, WakeSensor(c) PROVE UNCHANGED Service!vars
  BY <1>3, WakeSensorRefines
<1>4. ASSUME NEW c \in Conns, Accept(c) \/ Client(c) PROVE Service!Next
  BY <1>4, ClientRefines
<1>5. CASE RouterStops
  BY <1>5 DEF RouterStops, Service!vars, connVars, CallPhase, AnswerDue
<1>6. CASE UNCHANGED vars
  BY <1>6 DEF vars, Service!vars, connVars, CallPhase, AnswerDue
<1> QED
  BY <1>1, <1>2, <1>3, <1>4, <1>5, <1>6 DEF Next

\* Every behaviour of the firmware, whatever its threads do, is one of the
\* atomic service's: its calls are linearizable, a SetThreshold at the write
\* of the setpoint.
THEOREM Refinement == Spec => AtomicService
BY InitRefines, NextRefines, Invariance, PTL DEF Spec, AtomicService

=============================================================================
