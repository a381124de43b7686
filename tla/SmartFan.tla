------------------------------ MODULE SmartFan ------------------------------
(***************************************************************************)
(* The firmware at work: the sensor thread (run_sensor), the RPC handlers  *)
(* (SensorServer::accept, one task per connection on a runtime that has    *)
(* one thread), the State they share behind a mutex and the channel that   *)
(* wakes the sensor thread when the setpoint has changed.                  *)
(*                                                                         *)
(* A step is one critical section of the mutex, one operation on the       *)
(* channel, one write of the GPIO or one message.  The two threads are     *)
(* preempted between any two steps; two handlers only change places where  *)
(* the code awaits.                                                        *)
(***************************************************************************)
EXTENDS FanTypes

CONSTANTS
  Conns,                   \* QUIC connections on SENSOR_ALPN
  MaxTokens                \* bound: no SetThreshold is sent while so many
                           \* wake-ups are queued

ASSUME BoundAssumption == MaxTokens \in Nat

VARIABLES
  state,                   \* Arc<Mutex<State>>
  spc,                     \* what the sensor thread does next
  last,                    \* run_sensor: last
  fanOn,                   \* run_sensor: fan_on
  gpio,                    \* the level of GPIO25
  tokens,                  \* messages queued in the config channel
  serverUp,                \* the router still holds a SensorServer: config_tx
  pc,                      \* pc[c]: how far the call on connection c has come
  req,                     \* req[c]: the request that was sent, or None
  resp,                    \* resp[c]: the answer on its way back, or None
  toggle                   \* history: reading and setpoint at the last switch

sensorVars == <<spc, last, fanOn, gpio, toggle>>
connVars   == <<pc, req, resp>>
vars       == <<state, sensorVars, tokens, serverUp, connVars>>

SensorPc == {"read", "apply", "drive", "wait", "drain"}
ConnPc   == {"closed", "idle", "called", "wrote", "replied"}
Toggle   == [temp : Temps, threshold : Int]

Init ==
  /\ state = [reading |-> None, fan |-> "off", threshold |-> DEFAULT_TEMP_THRESHOLD]
  /\ spc = "read"
  /\ last = None
  /\ fanOn = "off"
  /\ gpio = "off"
  /\ tokens = 0
  /\ serverUp = TRUE
  /\ pc   = [c \in Conns |-> "closed"]
  /\ req  = [c \in Conns |-> None]
  /\ resp = [c \in Conns |-> None]
  /\ toggle = None

-----------------------------------------------------------------------------
(* The sensor thread.                                                      *)

\* read_dht22_retry: a reading, or two failed attempts that leave last alone.
ReadSensor ==
  /\ spc = "read"
  /\ last' \in Temps \cup {last}
  /\ spc' = "apply"
  /\ UNCHANGED <<state, fanOn, gpio, toggle, tokens, serverUp, connVars>>

\* The critical section: decide against the setpoint in force and publish.
Apply ==
  /\ spc = "apply"
  /\ last # None
  /\ LET fan == Decide(fanOn, last, state.threshold) IN
       /\ fanOn' = fan
       /\ state' = [reading |-> last, fan |-> fan, threshold |-> state.threshold]
       /\ toggle' = IF fan = fanOn THEN toggle
                    ELSE [temp |-> last, threshold |-> state.threshold]
  /\ spc' = "drive"
  /\ UNCHANGED <<last, gpio, tokens, serverUp, connVars>>

\* No reading was ever taken: there is nothing to decide on.
SkipApply ==
  /\ spc = "apply"
  /\ last = None
  /\ spc' = "wait"
  /\ UNCHANGED <<state, last, fanOn, gpio, toggle, tokens, serverUp, connVars>>

\* The GPIO is driven after the lock has been released.
Drive ==
  /\ spc = "drive"
  /\ gpio' = fanOn
  /\ spc' = "wait"
  /\ UNCHANGED <<state, last, fanOn, toggle, tokens, serverUp, connVars>>

\* recv_timeout takes a wake-up from the channel.
RecvConfig ==
  /\ spc = "wait"
  /\ tokens > 0
  /\ tokens' = tokens - 1
  /\ spc' = "drain"
  /\ UNCHANGED <<state, last, fanOn, gpio, toggle, serverUp, connVars>>

\* Mutant: after the burst is coalesced the thread goes back to waiting.
DrainOnly ==
  /\ spc = "drain"
  /\ tokens' = 0
  /\ spc' = "wait"
  /\ UNCHANGED <<state, last, fanOn, gpio, toggle, serverUp, connVars>>

\* try_recv until it fails.  Only this thread takes from the channel, so the
\* loop is its last try_recv, at which the channel is empty.
Drain ==
  /\ spc = "drain"
  /\ tokens' = 0
  /\ spc' = "apply"
  /\ UNCHANGED <<state, last, fanOn, gpio, toggle, serverUp, connVars>>

\* recv_timeout: Timeout, two seconds passed and the channel stayed empty.
RecvTimeout ==
  /\ spc = "wait"
  /\ tokens = 0
  /\ serverUp
  /\ spc' = "read"
  /\ UNCHANGED <<state, last, fanOn, gpio, toggle, tokens, serverUp, connVars>>

\* Mutant: a lost server ends the wait over and over, without a reading.
RecvDisconnectedLoop ==
  /\ spc = "wait"
  /\ tokens = 0
  /\ ~serverUp
  /\ spc' = "apply"
  /\ UNCHANGED <<state, last, fanOn, gpio, toggle, tokens, serverUp, connVars>>

\* recv_timeout: Disconnected, fall back to sleeping between the readings.
RecvDisconnected ==
  /\ spc = "wait"
  /\ tokens = 0
  /\ ~serverUp
  /\ spc' = "read"
  /\ UNCHANGED <<state, last, fanOn, gpio, toggle, tokens, serverUp, connVars>>

SensorStep == \/ ReadSensor \/ Apply \/ SkipApply \/ Drive \/ RecvConfig
              \/ Drain \/ RecvTimeout \/ RecvDisconnected

-----------------------------------------------------------------------------
(* The RPC handlers.                                                       *)

\* The runtime has one thread and SetThreshold does not await between its
\* write of the State and its message to the sensor thread: while one handler
\* is there no other task of the runtime runs.
RuntimeIdle == \A c \in Conns : pc[c] # "wrote"

Reply(c, answer) ==
  /\ pc' = [pc EXCEPT ![c] = "replied"]
  /\ resp' = [resp EXCEPT ![c] = answer]
  /\ UNCHANGED req

\* The router hands a connection to SensorServer::accept.
Accept(c) ==
  /\ RuntimeIdle
  /\ serverUp
  /\ pc[c] = "closed"
  /\ pc' = [pc EXCEPT ![c] = "idle"]
  /\ UNCHANGED <<state, sensorVars, tokens, serverUp, req, resp>>

\* A client sends a request: not a step of the device.
Call(c, r) ==
  /\ pc[c] = "idle"
  /\ r.type = "SetThreshold" => tokens < MaxTokens
  /\ pc'  = [pc EXCEPT ![c] = "called"]
  /\ req' = [req EXCEPT ![c] = r]
  /\ UNCHANGED <<state, sensorVars, tokens, serverUp, resp>>

\* Mutant: a status is only answered once there is one.
GetStatusWaits(c) ==
  /\ RuntimeIdle
  /\ pc[c] = "called"
  /\ req[c].type = "GetStatus"
  /\ state.reading # None
  /\ Reply(c, Answer(state, req[c]))
  /\ UNCHANGED <<state, sensorVars, tokens, serverUp>>

\* GetLatest and GetStatus: one copy of the State under the lock.
GetLatest(c) ==
  /\ RuntimeIdle
  /\ pc[c] = "called"
  /\ req[c].type = "GetLatest"
  /\ Reply(c, Answer(state, req[c]))
  /\ UNCHANGED <<state, sensorVars, tokens, serverUp>>

GetStatus(c) ==
  /\ RuntimeIdle
  /\ pc[c] = "called"
  /\ req[c].type = "GetStatus"
  /\ Reply(c, Answer(state, req[c]))
  /\ UNCHANGED <<state, sensorVars, tokens, serverUp>>

\* SetThreshold with a bad secret or a bad value: the State is not touched.
RejectSet(c) ==
  /\ RuntimeIdle
  /\ pc[c] = "called"
  /\ req[c].type = "SetThreshold"
  /\ Verdict(req[c]) # "Ok"
  /\ Reply(c, Answer(state, req[c]))
  /\ UNCHANGED <<state, sensorVars, tokens, serverUp>>

\* Mutant: the setpoint is written before the secret is looked at.
WriteUnauthorized(c) ==
  /\ RuntimeIdle
  /\ pc[c] = "called"
  /\ req[c].type = "SetThreshold"
  /\ InRange(req[c].threshold)
  /\ state' = [state EXCEPT !.threshold = req[c].threshold]
  /\ pc' = [pc EXCEPT ![c] = "wrote"]
  /\ UNCHANGED <<sensorVars, tokens, serverUp, req, resp>>

\* SetThreshold accepted: the setpoint is written under the lock.
AcceptSet(c) ==
  /\ RuntimeIdle
  /\ pc[c] = "called"
  /\ req[c].type = "SetThreshold"
  /\ Verdict(req[c]) = "Ok"
  /\ state' = [state EXCEPT !.threshold = req[c].threshold]
  /\ pc' = [pc EXCEPT ![c] = "wrote"]
  /\ UNCHANGED <<sensorVars, tokens, serverUp, req, resp>>

\* The sensor thread is told, then the answer is sent.
WakeSensor(c) ==
  /\ pc[c] = "wrote"
  /\ tokens' = tokens + 1
  /\ Reply(c, Answer(state, req[c]))
  /\ UNCHANGED <<state, sensorVars, serverUp>>

\* The client has read the answer.
Return(c) ==
  /\ pc[c] = "replied"
  /\ pc'   = [pc EXCEPT ![c] = "idle"]
  /\ req'  = [req EXCEPT ![c] = None]
  /\ resp' = [resp EXCEPT ![c] = None]
  /\ UNCHANGED <<state, sensorVars, tokens, serverUp>>

\* Mutant: the handler can be cancelled between its write and its message.
CloseAnywhere(c) ==
  /\ pc[c] # "closed"
  /\ pc'   = [pc EXCEPT ![c] = "closed"]
  /\ req'  = [req EXCEPT ![c] = None]
  /\ resp' = [resp EXCEPT ![c] = None]
  /\ UNCHANGED <<state, sensorVars, tokens, serverUp>>

\* The connection is lost, and with it a request that was not read or an
\* answer that was not delivered.  read_request fails and the handler returns.
CloseConn(c) ==
  /\ pc[c] \notin {"closed", "wrote"}
  /\ pc'   = [pc EXCEPT ![c] = "closed"]
  /\ req'  = [req EXCEPT ![c] = None]
  /\ resp' = [resp EXCEPT ![c] = None]
  /\ UNCHANGED <<state, sensorVars, tokens, serverUp>>

\* The router is gone and every SensorServer with it.  main keeps it for ever:
\* the code calls this "shouldn't happen" and survives it all the same.
RouterStops ==
  /\ RuntimeIdle
  /\ serverUp
  /\ serverUp' = FALSE
  /\ pc   = [c \in Conns |-> "closed"]
  /\ UNCHANGED <<state, sensorVars, tokens, connVars>>

Handler(c) == GetLatest(c) \/ GetStatus(c) \/ RejectSet(c) \/ AcceptSet(c)

Client(c) == \/ Return(c)
             \/ CloseConn(c)
             \/ \E r \in Request : Call(c, r)

Next == \/ SensorStep
        \/ RouterStops
        \/ \E c \in Conns : Accept(c) \/ Handler(c) \/ WakeSensor(c) \/ Client(c)

Spec == Init /\ [][Next]_vars

\* The sensor thread keeps running, the handler that wrote goes on to its
\* message, and the runtime polls every task that stays ready (its queue is
\* first in, first out).  Clients promise nothing.
Fairness == /\ WF_vars(SensorStep)
            /\ \A c \in Conns : WF_vars(WakeSensor(c)) /\ SF_vars(Handler(c))

FairSpec == Spec /\ Fairness

-----------------------------------------------------------------------------
(* What the firmware keeps true.                                           *)

TypeOK ==
  /\ state \in State
  /\ spc \in SensorPc
  /\ last \in Reading
  /\ fanOn \in Fan
  /\ gpio \in Fan
  /\ tokens \in Nat
  /\ serverUp \in BOOLEAN
  /\ pc \in [Conns -> ConnPc]
  /\ req \in [Conns -> Request \cup {None}]
  /\ resp \in [Conns -> Response \cup {None}]
  /\ toggle \in Toggle \cup {None}

\* The setpoint in force is always a number inside the range, whatever f32 a
\* client sends: NaN would switch the fan off for good, every comparison with
\* it being false.
SetpointInRange == state.threshold \in THRESHOLD_MIN .. THRESHOLD_MAX

\* The published fan is the one that the published reading and the setpoint
\* in force ask for.
Settled == state.reading # None =>
             state.fan = Decide(state.fan, state.reading, state.threshold)

\* A setpoint is never forgotten: as long as the fan does not match it, the
\* sensor thread is on its way to decide again, a wake-up is in the channel,
\* or a handler is about to put one there.
NoLostWakeup ==
  Settled \/ spc \in {"read", "apply", "drain"}
          \/ tokens > 0
          \/ ~RuntimeIdle

\* When the sensor thread waits and nothing is on its way to wake it, the pin
\* of the fan, the State that clients are shown, the last reading and the
\* setpoint in force all agree.
QuiescentFanCorrect ==
  spc = "wait" /\ tokens = 0 /\ RuntimeIdle =>
    /\ state.reading = last
    /\ state.fan = gpio
    /\ last # None => gpio = Decide(gpio, last, state.threshold)

\* The fan does not chatter: it only switches back under the same setpoint
\* after the temperature has moved by more than the hysteresis band.  Any
\* number of readings, and of setpoints tried in between, may separate the two
\* switches.
NoChatter ==
  [][ toggle # None /\ toggle'.threshold = toggle.threshold =>
        \/ toggle'.temp - toggle.temp > FAN_HYSTERESIS
        \/ toggle.temp - toggle'.temp > FAN_HYSTERESIS ]_toggle

\* A SetThreshold has taken effect as soon as the setpoint is written: what is
\* left of its handler is only the way of the answer.
CallPhase == [c \in Conns |-> IF pc[c] = "wrote" THEN "replied" ELSE pc[c]]
AnswerDue == [c \in Conns |-> IF pc[c] = "wrote"
                              THEN [type |-> "SetThreshold", result |-> "Ok"]
                              ELSE resp[c]]

Service == INSTANCE FanService WITH pc <- CallPhase, resp <- AnswerDue

\* Every request is answered in one atomic step between its call and its
\* return, from one State: no answer mixes two States, and a refused
\* SetThreshold changes nothing.
AtomicService == Service!Init /\ [][Service!Next]_(Service!vars)

\* ... and the service decides again whenever the setpoint in force asks for
\* another fan: an accepted setpoint reaches the fan without a further call.
ImplementsService == Service!Spec

\* A request that has been sent is answered, or its connection is lost: a
\* sensor that fails for ever does not keep the API from answering.
EveryCallEnds ==
  \A c \in Conns : pc[c] = "called" ~> pc[c] # "called"

\* The sensor is read again and again once the clients stop changing the
\* setpoint, and also when the server is gone.
SamplingContinues == <>[]RuntimeIdle => []<>(spc = "read")

-----------------------------------------------------------------------------
(* What a comment of the repository says, and the firmware does not do.    *)

\* run_sensor: "read the DHT22 on GPIO26 every 2 s".  Every wake-up starts
\* the two seconds of recv_timeout again.
SampledForever == []<>(spc = "read")

=============================================================================
