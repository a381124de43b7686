------------------------------ MODULE FanTypes ------------------------------
(***************************************************************************)
(* The values that the firmware, the wire protocol and the clients share,  *)
(* and the three decisions that are taken on them: is a requested setpoint *)
(* acceptable, does the fan run, what does a request get for an answer.    *)
(*                                                                         *)
(* Temperatures and setpoints are integers in tenths of a degree, the      *)
(* resolution of the DHT22.  A Reading stands for its temperature: nothing *)
(* depends on the humidity, which always travels with it.                  *)
(***************************************************************************)
EXTENDS Integers

CONSTANTS
  Temps,                   \* temperatures the sensor may report
  Setpoints,               \* f32 values a client may put in a SetThreshold
  Secrets,                 \* strings a client may put in a SetThreshold
  FanSecret,               \* the device's own secret
  NaN,                     \* the f32 that no comparison holds of
  None,                    \* an absent Option
  THRESHOLD_MIN,
  THRESHOLD_MAX,
  DEFAULT_TEMP_THRESHOLD,
  FAN_HYSTERESIS

ASSUME FanAssumption ==
  /\ Temps \subseteq Int
  /\ Setpoints \subseteq Int \cup {NaN}
  /\ NaN \notin Int
  /\ None \notin Int
  /\ THRESHOLD_MIN \in Int
  /\ THRESHOLD_MAX \in Int
  /\ DEFAULT_TEMP_THRESHOLD \in THRESHOLD_MIN .. THRESHOLD_MAX
  /\ FAN_HYSTERESIS \in Nat
  /\ FanSecret \in Secrets

-----------------------------------------------------------------------------
Reading == Temps \cup {None}
Fan     == {"on", "off"}

State  == [reading : Reading, fan : Fan, threshold : Int]
Status == [reading : Temps, fan : Fan, threshold : Int]

Request == [type : {"GetLatest", "GetStatus"}]
             \cup [type : {"SetThreshold"}, secret : Secrets, threshold : Setpoints]

SetThresholdResponse == {"Ok", "Unauthorized", "OutOfRange"}

Response == [type : {"GetLatest"}, reading : Reading]
              \cup [type : {"GetStatus"}, status : Status \cup {None}]
              \cup [type : {"SetThreshold"}, result : SetThresholdResponse]

-----------------------------------------------------------------------------
\* Mutant: reject what is below or above the range, which lets NaN through.
InRangeNegated(t) == \/ t = NaN
                     \/ ~(t < THRESHOLD_MIN \/ t > THRESHOLD_MAX)

\* (THRESHOLD_MIN..=THRESHOLD_MAX).contains(&threshold): NaN is in no range.
InRange(t) == /\ t # NaN
              /\ THRESHOLD_MIN <= t
              /\ t <= THRESHOLD_MAX

\* Mutant: one band serves both directions, there is no hysteresis left.
DecideNoBand(fan, temp, threshold) ==
  IF temp >= threshold THEN "on" ELSE "off"

\* The hysteresis rule: a running fan keeps running until the temperature is
\* a band below the setpoint, a resting one starts at the setpoint.
Decide(fan, temp, threshold) ==
  LET bar == IF fan = "on" THEN threshold - FAN_HYSTERESIS ELSE threshold
  IN  IF temp >= bar THEN "on" ELSE "off"

\* Mutant: with the right secret every value is taken.
VerdictOfSecret(r) == IF r.secret # FanSecret THEN "Unauthorized" ELSE "Ok"

\* The verdict on a SetThreshold: the secret is looked at before the value.
Verdict(r) == IF r.secret # FanSecret     THEN "Unauthorized"
              ELSE IF ~InRange(r.threshold) THEN "OutOfRange"
              ELSE "Ok"

\* The projection of the device state that a request asks for.
Answer(s, r) ==
  CASE r.type = "GetLatest"    -> [type |-> "GetLatest", reading |-> s.reading]
    [] r.type = "GetStatus"    -> [type |-> "GetStatus",
                                   status |-> IF s.reading = None THEN None ELSE s]
    [] r.type = "SetThreshold" -> [type |-> "SetThreshold", result |-> Verdict(r)]
=============================================================================
