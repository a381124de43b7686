----------------------------- MODULE FanService -----------------------------
(***************************************************************************)
(* What the device promises, without its threads: one State that every     *)
(* request is answered from in one atomic step, and a thermostat that      *)
(* decides on a reading and publishes both together.  Whenever the fan     *)
(* does not match the published reading and the setpoint in force, the     *)
(* thermostat eventually decides again.                                    *)
(***************************************************************************)
EXTENDS FanTypes

CONSTANT Conns             \* QUIC connections on SENSOR_ALPN

VARIABLES
  state,                   \* what GetLatest and GetStatus report
  pc,                      \* pc[c]: how far the call on connection c has come
  req,                     \* req[c]: the request that was sent, or None
  resp                     \* resp[c]: the answer on its way back, or None

vars == <<state, pc, req, resp>>

\* The fan that was published is the one the published reading and the
\* setpoint in force ask for.
Settled == state.reading # None =>
             state.fan = Decide(state.fan, state.reading, state.threshold)

Init ==
  /\ state = [reading |-> None, fan |-> "off", threshold |-> DEFAULT_TEMP_THRESHOLD]
  /\ pc   = [c \in Conns |-> "closed"]
  /\ req  = [c \in Conns |-> None]
  /\ resp = [c \in Conns |-> None]

Control(t) ==
  /\ state' = [reading   |-> t,
               fan       |-> Decide(state.fan, t, state.threshold),
               threshold |-> state.threshold]
  /\ UNCHANGED <<pc, req, resp>>

Open(c) ==
  /\ pc[c] = "closed"
  /\ pc' = [pc EXCEPT ![c] = "idle"]
  /\ UNCHANGED <<state, req, resp>>

Call(c, r) ==
  /\ pc[c] = "idle"
  /\ pc'  = [pc EXCEPT ![c] = "called"]
  /\ req' = [req EXCEPT ![c] = r]
  /\ UNCHANGED <<state, resp>>

\* The whole effect of a request takes place between its call and its return.
Serve(c) ==
  /\ pc[c] = "called"
  /\ pc'   = [pc EXCEPT ![c] = "replied"]
  /\ resp' = [resp EXCEPT ![c] = Answer(state, req[c])]
  /\ state' = IF req[c].type = "SetThreshold" /\ Verdict(req[c]) = "Ok"
              THEN [state EXCEPT !.threshold = req[c].threshold]
              ELSE state
  /\ UNCHANGED req

Return(c) ==
  /\ pc[c] = "replied"
  /\ pc'   = [pc EXCEPT ![c] = "idle"]
  /\ req'  = [req EXCEPT ![c] = None]
  /\ resp' = [resp EXCEPT ![c] = None]
  /\ UNCHANGED state

\* Any set of connections may go away, whatever their calls have come to.
Close(C) ==
  /\ pc'   = [c \in Conns |-> IF c \in C THEN "closed" ELSE pc[c]]
  /\ req'  = [c \in Conns |-> IF c \in C THEN None ELSE req[c]]
  /\ resp' = [c \in Conns |-> IF c \in C THEN None ELSE resp[c]]
  /\ UNCHANGED state

Next ==
  \/ \E t \in Temps : Control(t)
  \/ \E c \in Conns :
       Open(c) \/ Serve(c) \/ Return(c) \/ \E r \in Request : Call(c, r)
  \/ \E C \in SUBSET Conns : Close(C)

\* Only the thermostat settles what a new setpoint has unsettled, so this is
\* what weak fairness of its deciding while ~Settled comes to.
Spec == Init /\ [][Next]_vars /\ []<>Settled
=============================================================================
