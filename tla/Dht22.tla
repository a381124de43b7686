-------------------------------- MODULE Dht22 --------------------------------
(***************************************************************************)
(* read_dht22 and read_dht22_retry: the sensor thread decodes the frame of *)
(* a DHT22 by watching one line against the clock, while WiFi and QUIC may *)
(* preempt it anywhere.  Time passes in ticks of 25 microseconds; a tick   *)
(* that passes although the thread could go on is a preemption.            *)
(*                                                                         *)
(* The sensor is not under src/: its half of the protocol, and how long    *)
(* its levels last, are the ones that the comments of read_dht22 give.     *)
(***************************************************************************)
EXTENDS Integers, Sequences, FiniteSets

CONSTANTS
  Width,                   \* bits in a byte: 8
  Measurements,            \* what the DHT22 measures, in tenths
  Timeout,                 \* DHT_EDGE_TIMEOUT_US, in ticks: 120
  MaxLate                  \* bound: ticks of preemption in one read

NBits == 5 * Width
Bits  == 0 .. NBits - 1

ASSUME WidthAssumption == Width \in Nat \ {0}

\* 1 << n
Shifted[n \in 0 .. Width] == IF n = 0 THEN 1 ELSE 2 * Shifted[n - 1]

Byte == Shifted[Width]
Sign == Shifted[Width - 1]

ASSUME DhtAssumption ==
  /\ Measurements \subseteq [humidity : 0 .. Byte * Byte - 1,
                             temperature : 1 - Sign * Byte .. Sign * Byte - 1]
  /\ Timeout \in Nat /\ Timeout >= 3
  /\ MaxLate \in Nat

VARIABLES
  measured,                \* what the sensor sends
  frame,                   \* ... and the bits it sends for it
  line,                    \* the sensor drives the line, or it is stuck
  seg,                     \* the level that the sensor is at, counted from its
                           \* response: the even ones are low
  left,                    \* ticks until the next level
  pc,                      \* what the thread does next
  i,                       \* read_dht22: i
  waited,                  \* wait_for: micros() - start, in ticks
  high,                    \* read_dht22: micros() - t, in ticks
  data,                    \* read_dht22: data, bit by bit
  attempt,                 \* read_dht22_retry: the first or the second read
  result,                  \* what read_dht22_retry returns: "ok" is Decode(data)
  late,                    \* history: ticks of preemption in this read
  slipped                  \* history: a bit was taken for one before it

sensorVars == <<measured, frame, line, seg, left>>
threadVars == <<pc, i, waited, high, data, attempt, result>>
vars       == <<sensorVars, threadVars, late, slipped>>

-----------------------------------------------------------------------------
(* Frames.                                                                 *)

\* Byte k of a frame, the most significant bit first.
ByteAt(f, k) ==
  LET value[j \in 0 .. Width] ==
        IF j = 0 THEN 0 ELSE 2 * value[j - 1] + f[k * Width + j - 1]
  IN  value[Width]

\* Mutant: the last data byte is left out.
ChecksumOfThree(f) == ByteAt(f, 4) = (ByteAt(f, 0) + ByteAt(f, 1) + ByteAt(f, 2)) % Byte

\* The sum of the first four bytes, truncated.
ChecksumOk(f) ==
  ByteAt(f, 4) = (ByteAt(f, 0) + ByteAt(f, 1) + ByteAt(f, 2) + ByteAt(f, 3)) % Byte

\* The temperature comes as a sign and a magnitude.
Decode(f) ==
  LET raw == (ByteAt(f, 2) % Sign) * Byte + ByteAt(f, 3)
  IN  [humidity    |-> ByteAt(f, 0) * Byte + ByteAt(f, 1),
       temperature |-> IF ByteAt(f, 2) >= Sign THEN -raw ELSE raw]

\* The bytes of a measurement: the sensor's side of Decode.
BytesOf(m) ==
  LET size == IF m.temperature < 0 THEN -m.temperature ELSE m.temperature
      sign == IF m.temperature < 0 THEN Sign ELSE 0
      four == <<m.humidity \div Byte, m.humidity % Byte, sign + (size \div Byte), size % Byte>>
  IN  Append(four, (four[1] + four[2] + four[3] + four[4]) % Byte)

Encode(m) ==
  [b \in Bits |-> (BytesOf(m)[(b \div Width) + 1] \div Shifted[Width - 1 - (b % Width)]) % 2]

-----------------------------------------------------------------------------
(* The sensor and the clock.                                               *)

\* The response is 80 us low and 80 us high; a bit is 50 us low and 26-28 us
\* or 70 us high; after the last one the line is released.
Released == 2 * NBits + 3
UpOf(b)  == 2 * b + 3

Lasts(s) == IF s < 2 THEN 3
            ELSE IF s % 2 = 0 THEN 2
            ELSE IF frame[(s - 3) \div 2] = 0 THEN 1 ELSE 3

Level == CASE line = "driven" -> IF seg % 2 = 0 THEN "low" ELSE "high"
           [] OTHER           -> line

\* What wait_for waits for, at each of its calls.
Wanted == [resp1 |-> "low", resp2 |-> "high", resp3 |-> "low", up |-> "high", down |-> "low"]
Waiting == pc \in DOMAIN Wanted
Blocked == Waiting /\ Level # Wanted[pc] /\ waited <= Timeout

Tick ==
  /\ pc \notin {"settle", "done"}
  /\ Blocked \/ late < MaxLate
  /\ IF seg = Released THEN UNCHANGED <<seg, left>>
     ELSE IF left > 1 THEN left' = left - 1 /\ UNCHANGED seg
     ELSE seg' = seg + 1 /\ left' = IF seg' = Released THEN 0 ELSE Lasts(seg')
  /\ waited' = IF waited > Timeout THEN waited ELSE waited + 1
  /\ high' = IF high > 1 THEN high ELSE high + 1
  /\ late' = IF Blocked THEN late ELSE late + 1
  /\ UNCHANGED <<measured, frame, line, pc, i, data, attempt, result, slipped>>

\* A loose cable: the pull-up or a short circuit decides.
Breaks ==
  /\ line = "driven"
  /\ pc \notin {"settle", "done"}
  /\ line' \in {"low", "high"}
  /\ UNCHANGED <<measured, frame, seg, left, threadVars, late, slipped>>

-----------------------------------------------------------------------------
(* The thread.                                                             *)

\* The start signal: a sensor that is there answers it with a new frame.
Begin(n) ==
  /\ measured' \in Measurements
  /\ frame' = Encode(measured')
  /\ line' \in {"driven", "low", "high"}
  /\ seg' = 0
  /\ left' = 3
  /\ pc' = "resp1"
  /\ i' = 0
  /\ waited' = 0
  /\ high' = 0
  /\ data' = [b \in Bits |-> 0]
  /\ attempt' = n
  /\ result' = "none"
  /\ late' = 0
  /\ slipped' = FALSE

\* wait_for looks at the level before it looks at the clock.
SawLevel ==
  /\ Waiting
  /\ Level = Wanted[pc]
  /\ pc' = CASE pc = "resp1" -> "resp2"
             [] pc = "resp2" -> "resp3"
             [] pc = "resp3" -> "up"
             [] pc = "up"    -> "stamp"
             [] pc = "down"  -> "judge"
  /\ waited' = 0
  /\ slipped' = (slipped \/ (pc = "up" /\ seg # UpOf(i)))
  /\ UNCHANGED <<sensorVars, i, high, data, attempt, result, late>>

\* read_dht22 returns an error: read_dht22_retry reads once more.
Fail ==
  /\ pc' = IF attempt = 1 THEN "settle" ELSE "done"
  /\ result' = IF attempt = 1 THEN result ELSE "error"
  /\ UNCHANGED <<sensorVars, i, waited, high, data, attempt, late, slipped>>

\* Mutant: wait_for gives up without an error.
TimedOutGoesOn ==
  /\ Waiting
  /\ Level # Wanted[pc]
  /\ waited > Timeout
  /\ pc' = IF pc = "up" THEN "stamp" ELSE IF pc = "down" THEN "judge" ELSE "up"
  /\ waited' = 0
  /\ UNCHANGED <<sensorVars, i, high, data, attempt, result, late, slipped>>

TimedOut ==
  /\ Waiting
  /\ Level # Wanted[pc]
  /\ waited > Timeout
  /\ Fail

\* t = micros()
Stamp ==
  /\ pc = "stamp"
  /\ pc' = "down"
  /\ high' = 0
  /\ waited' = 0
  /\ UNCHANGED <<sensorVars, i, data, attempt, result, late, slipped>>

\* Mutant: any high that can be measured is a one.
JudgeTooSoon ==
  /\ pc = "judge"
  /\ data' = [data EXCEPT ![i] = IF 25 * high > 20 THEN 1 ELSE 0]
  /\ i' = i + 1
  /\ pc' = IF i' \in Bits THEN "up" ELSE "check"
  /\ waited' = 0
  /\ UNCHANGED <<sensorVars, high, attempt, result, late, slipped>>

\* Mutant: one more bit is read.
JudgeOneMore ==
  /\ pc = "judge"
  /\ data' = [data EXCEPT ![i] = IF 25 * high > 40 THEN 1 ELSE 0]
  /\ i' = i + 1
  /\ pc' = IF i' <= NBits THEN "up" ELSE "check"
  /\ waited' = 0
  /\ UNCHANGED <<sensorVars, high, attempt, result, late, slipped>>

\* A high of more than 40 us is a one.
Judge ==
  /\ pc = "judge"
  /\ data' = [data EXCEPT ![i] = IF 25 * high > 40 THEN 1 ELSE 0]
  /\ i' = i + 1
  /\ pc' = IF i' \in Bits THEN "up" ELSE "check"
  /\ waited' = 0
  /\ UNCHANGED <<sensorVars, high, attempt, result, late, slipped>>

Check ==
  /\ pc = "check"
  /\ IF ChecksumOk(data)
     THEN /\ pc' = "done"
          /\ result' = "ok"
          /\ UNCHANGED <<sensorVars, i, waited, high, data, attempt, late, slipped>>
     ELSE Fail

\* Mutant: the second read is retried as well.
RetryForEver == pc = "settle" /\ Begin(1)

\* The line has settled: the second and last read.
Retry == pc = "settle" /\ Begin(2)

\* The next round of run_sensor.
Again == pc = "done" /\ Begin(1)

Thread == SawLevel \/ TimedOut \/ Stamp \/ Judge \/ Check \/ Retry

Init ==
  /\ measured \in Measurements
  /\ frame = Encode(measured)
  /\ line \in {"driven", "low", "high"}
  /\ seg = 0 /\ left = 3
  /\ pc = "resp1"
  /\ i = 0 /\ waited = 0 /\ high = 0
  /\ data = [b \in Bits |-> 0]
  /\ attempt = 1
  /\ result = "none"
  /\ late = 0 /\ slipped = FALSE

Next == Tick \/ Breaks \/ Thread \/ Again

\* Time passes, and a thread that is preempted comes back.
Spec == Init /\ [][Next]_vars /\ WF_vars(Tick) /\ WF_vars(Thread)

-----------------------------------------------------------------------------
TypeOK ==
  /\ measured \in Measurements
  /\ frame \in [Bits -> {0, 1}]
  /\ line \in {"driven", "low", "high"}
  /\ seg \in 0 .. Released
  /\ left \in 0 .. 3
  /\ pc \in {"resp1", "resp2", "resp3", "up", "stamp", "down", "judge",
             "check", "settle", "done"}
  /\ i \in 0 .. NBits
  /\ waited \in 0 .. Timeout + 1
  /\ high \in 0 .. 2
  /\ data \in [Bits -> {0, 1}]
  /\ attempt \in {1, 2}
  /\ result \in {"none", "ok", "error"}
  /\ late \in 0 .. MaxLate
  /\ slipped \in BOOLEAN

\* A read that is not preempted, of a sensor that is there, succeeds, and what
\* it returns is what was measured, below zero too.
UndisturbedReadExact ==
  pc \in {"settle", "done"} /\ line = "driven" /\ late = 0 =>
    result = "ok" /\ Decode(data) = measured

\* However long the thread was preempted, a missed level never shifts the bits
\* of a reading: it fails, as a frame has no level too many.  Only a line that
\* is shorted just then could supply the one that is missing.
NoSlippedReading == slipped /\ line # "low" => result # "ok"

\* Whatever is preempted, no reading that is returned has just one bit wrong.
OneWrongBitCaught ==
  result = "ok" => Cardinality({b \in Bits : data[b] # frame[b]}) # 1

\* Every read ends, with a reading or an error, whatever the line does: the
\* sensor thread always comes back to the fan.
EveryReadEnds == pc # "done" ~> pc = "done"
=============================================================================
