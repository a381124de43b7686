----------------------------- MODULE Boot_proofs -----------------------------
(***************************************************************************)
(* Proofs about Boot: what the device serves it will find again, for every *)
(* set of keys and wherever the power is lost.                             *)
(***************************************************************************)
EXTENDS Boot, TLAPS

\* The secrets that this start of the device has resolved so far.
Resolved == IF phase = "serve" THEN Slot
            ELSE IF slot = "fan_api_secret" THEN {"iroh_secret"} ELSE {}

BootType ==
  /\ build \in Secrets
  /\ nvs \in Secrets
  /\ secret \in Secrets
  /\ phase \in Phase
  /\ slot \in Slot
  /\ served \subseteq [slot : Slot, build : Keys \cup {None}, secret : Keys \cup {None}]

\* The flash memory is only touched by someone else while the chip is off, and
\* then main has resolved nothing.
OffIsFresh ==
  /\ pc = "off" => phase = "wifi"
  /\ phase \in {"wifi", "sntp"} => slot = "iroh_secret"

\* What has been resolved is built in or stored; what was drawn is neither.
ResolvedIsKept ==
  /\ \A s \in Resolved :
       /\ secret[s] = IF build[s] # None THEN build[s] ELSE nvs[s]
       /\ secret[s] # None
  /\ phase = "persist" => build[slot] = None /\ secret[slot] # None

BInv == BootType /\ OffIsFresh /\ ResolvedIsKept

-----------------------------------------------------------------------------
\* Where Advance leads to, and what has been resolved then.
LEMMA AdvanceType ==
  ASSUME BootType, NEW sec \in Secrets, Advance(sec)
  PROVE  /\ phase' \in {"read", "serve"}
         /\ slot' \in Slot
         /\ served' \subseteq [slot : Slot, build : Keys \cup {None}, secret : Keys \cup {None}]
BY DEF Advance, BootType, Slot, Secrets

LEMMA AdvanceResolved ==
  ASSUME BootType, phase \in {"read", "persist"}, NEW sec, Advance(sec)
  PROVE  Resolved' = Resolved \cup {slot}
BY DEF Advance, BootType, Slot, Resolved

LEMMA LinkKeepsOff == Net!Link /\ pc' = "off" => pc = "off"
BY DEF Net!Link, Net!ApChanges, Net!Associate, Net!AssociateFails, Net!Lose,
       Net!Connected, Net!NetifUp, Net!Restart, Net!Subscribe, Net!Reconnect,
       Net!EventUnheard

LEMMA InitBInv == Init => BInv
BY BootAssumption DEF Init, BInv, BootType, OffIsFresh, ResolvedIsKept, Resolved, Secrets,
       Slot, Phase, Missing

\* A secret that is resolved in one step is resolved to what is kept.
LEMMA ReadBInv ==
  ASSUME BInv, BuiltIn \/ Stored
  PROVE  BInv'
<1> USE DEF BInv
<1>1. /\ phase = "read"
      /\ slot \in Slot
      /\ UNCHANGED <<linkVars, build, nvs, retries>>
      /\ Advance(secret')
  BY DEF BuiltIn, Stored, BootType
<1>2. PICK k \in Keys :
        /\ secret' = [secret EXCEPT ![slot] = k]
        /\ k = IF build[slot] # None THEN build[slot] ELSE nvs[slot]
  BY DEF BuiltIn, Stored, BootType, Secrets
<1>3. secret' \in Secrets
  BY <1>2 DEF BootType, Secrets
<1>4. BootType'
  BY <1>1, <1>3, AdvanceType DEF BootType, Phase
<1>5. OffIsFresh'
  BY <1>1, <1>4, AdvanceType, <1>3 DEF OffIsFresh, linkVars
<1>6. Resolved' = Resolved \cup {slot}
  BY <1>1, AdvanceResolved
<1>7. ResolvedIsKept'
  <2>1. ASSUME NEW s \in Resolved'
        PROVE  /\ secret'[s] = IF build[s] # None THEN build[s] ELSE nvs[s]
               /\ secret'[s] # None
    <3>1. s \in Slot
      BY <1>6, <1>1 DEF Resolved, Slot
    <3> QED
      BY <1>2, <1>6, <2>1, <3>1, BootAssumption DEF BootType, Secrets, ResolvedIsKept
  <2>2. phase' # "persist"
    BY <1>1, <1>3, AdvanceType
  <2> QED
    BY <1>1, <2>1, <2>2 DEF ResolvedIsKept
<1> QED
  BY <1>4, <1>5, <1>7

LEMMA PersistBInv ==
  ASSUME BInv, Persist
  PROVE  BInv'
<1> USE DEF BInv
<1>1. /\ phase = "persist"
      /\ slot \in Slot
      /\ UNCHANGED <<linkVars, build, secret, retries>>
      /\ nvs' = [nvs EXCEPT ![slot] = secret[slot]]
      /\ Advance(secret)
      /\ build[slot] = None /\ secret[slot] # None
  BY DEF Persist, BootType, ResolvedIsKept
<1>2. BootType'
  BY <1>1, AdvanceType DEF BootType, Phase, Secrets
<1>3. OffIsFresh'
  BY <1>1, AdvanceType DEF OffIsFresh, linkVars, BootType
<1>4. Resolved' = Resolved \cup {slot}
  BY <1>1, AdvanceResolved
<1>5. ResolvedIsKept'
  <2>1. ASSUME NEW s \in Resolved'
        PROVE  /\ secret[s] = IF build[s] # None THEN build[s] ELSE nvs'[s]
               /\ secret[s] # None
    <3>1. s \in Slot
      BY <1>4, <1>1 DEF Resolved, Slot
    <3> QED
      BY <1>1, <1>4, <2>1, <3>1 DEF BootType, Secrets, ResolvedIsKept
  <2>2. phase' # "persist"
    BY <1>1, AdvanceType DEF BootType
  <2> QED
    BY <1>1, <2>1, <2>2 DEF ResolvedIsKept
<1> QED
  BY <1>2, <1>3, <1>5

\* The other steps resolve nothing: they start over, go on to the first
\* secret, draw one, or leave main alone.
LEMMA OtherBInv ==
  ASSUME BInv, \/ PowerOn \/ Stops \/ Reflash \/ EraseFlash
               \/ WifiDone \/ Synced \/ NotSynced \/ Draw
               \/ Net!Link /\ UNCHANGED bootVars
               \/ UNCHANGED vars
  PROVE  BInv'
<1> USE DEF BInv
<1>1. CASE PowerOn \/ (Net!Link /\ UNCHANGED bootVars) \/ UNCHANGED vars
  <2>1. UNCHANGED bootVars /\ (pc' = "off" => pc = "off")
    BY <1>1, LinkKeepsOff DEF PowerOn, Net!Start, vars, linkVars
  <2> QED
    BY <2>1 DEF bootVars, BootType, OffIsFresh, ResolvedIsKept, Resolved
<1>2. CASE Stops
  <2>1. BootType'
    BY <1>2 DEF Stops, BootType, Secrets, Missing, Slot, Phase
  <2>2. Resolved' = {} /\ OffIsFresh' /\ phase' # "persist"
    BY <1>2 DEF Stops, OffIsFresh, Resolved
  <2> QED
    BY <2>1, <2>2 DEF ResolvedIsKept
<1>3. CASE Reflash
  BY <1>3 DEF Reflash, BootType, OffIsFresh, ResolvedIsKept, Resolved, Slot, linkVars
<1>4. CASE EraseFlash
  BY <1>4 DEF EraseFlash, BootType, OffIsFresh, ResolvedIsKept, Resolved, Slot, linkVars,
              Missing, Secrets
<1>5. CASE WifiDone \/ Synced \/ NotSynced
  BY <1>5 DEF WifiDone, Synced, NotSynced, BootType, OffIsFresh, ResolvedIsKept,
              Resolved, Phase, linkVars
<1>6. CASE Draw
  <2>1. PICK k \in Keys : secret' = [secret EXCEPT ![slot] = k]
    BY <1>6 DEF Draw
  <2>2. BootType'
    BY <1>6, <2>1 DEF Draw, BootType, Secrets, Phase
  <2>3. OffIsFresh'
    BY <1>6 DEF Draw, OffIsFresh, linkVars
  <2>4. ResolvedIsKept'
    BY <1>6, <2>1, BootAssumption
       DEF Draw, BootType, ResolvedIsKept, Resolved, Slot, Secrets
  <2> QED
    BY <2>2, <2>3, <2>4
<1> HIDE DEF BInv
<1> QED
  BY <1>1, <1>2, <1>3, <1>4, <1>5, <1>6

LEMMA NextBInv == BInv /\ [Next]_vars => BInv'
BY ReadBInv, PersistBInv, OtherBInv DEF Next, Resolve

LEMMA BootInvariant == Spec => []BInv
BY InitBInv, NextBInv, PTL DEF Spec

\* Whatever moment the power was lost at, no secret is served that is not
\* built in or stored.
THEOREM NothingUnkeptIsServed == Spec => []ServedIsKept
<1>1. BInv => ServedIsKept
  BY DEF BInv, ResolvedIsKept, Resolved, ServedIsKept
<1> QED
  BY <1>1, BootInvariant, PTL

-----------------------------------------------------------------------------
(* The identity, when NVS reads do not fail.                               *)

\* What has ever been served is built in, or still stored; a secret is only
\* drawn where none is stored.
RecordIsKept ==
  /\ \A r \in served :
       IF r.build # None THEN r.secret = r.build
                         ELSE r.secret = nvs[r.slot] /\ nvs[r.slot] # None
  /\ phase = "persist" => nvs[slot] = None

LEMMA InitRecord == Init => RecordIsKept
BY DEF Init, RecordIsKept

\* A record that is added tells of secrets that are kept.
LEMMA AdvanceRecord ==
  ASSUME BInv, BInv', NEW sec, Advance(sec), secret' = sec, build' = build,
         \A r \in served : IF r.build # None THEN r.secret = r.build
                                   ELSE r.secret = nvs'[r.slot] /\ nvs'[r.slot] # None
  PROVE  RecordIsKept'
<1>1. CASE slot = "iroh_secret"
  BY <1>1 DEF Advance, RecordIsKept
<1>2. CASE slot # "iroh_secret"
  <2>1. phase' = "serve"
    BY <1>2 DEF Advance
  <2>2. ASSUME NEW s \in Slot
        PROVE  /\ sec[s] = IF build[s] # None THEN build[s] ELSE nvs'[s]
               /\ sec[s] # None
    BY <2>1 DEF BInv, ResolvedIsKept, Resolved
  <2>3. ASSUME NEW r \in served'
        PROVE  IF r.build # None THEN r.secret = r.build
                                 ELSE r.secret = nvs'[r.slot] /\ nvs'[r.slot] # None
    <3>1. CASE r \in served
      BY <3>1
    <3>2. ASSUME NEW s \in Slot, r = [slot |-> s, build |-> build[s], secret |-> sec[s]]
          PROVE  IF r.build # None THEN r.secret = r.build
                                   ELSE r.secret = nvs'[r.slot] /\ nvs'[r.slot] # None
      BY <2>2, <3>2
    <3> QED
      BY <1>2, <3>1, <3>2 DEF Advance
  <2> QED
    BY <2>1, <2>3 DEF RecordIsKept
<1> QED
  BY <1>1, <1>2

LEMMA NextRecord ==
  ASSUME ~ReadErrors, BInv, BInv', RecordIsKept, [Next]_vars
  PROVE  RecordIsKept'
<1>1. CASE BuiltIn \/ Stored
  BY <1>1, AdvanceRecord DEF BuiltIn, Stored, RecordIsKept
<1>2. CASE Persist
  <2>1. /\ slot \in Slot /\ nvs \in Secrets /\ nvs[slot] = None
        /\ nvs' = [nvs EXCEPT ![slot] = secret[slot]]
        /\ served \subseteq [slot : Slot, build : Keys \cup {None}, secret : Keys \cup {None}]
    BY <1>2 DEF Persist, BInv, BootType, RecordIsKept
  <2>2. ASSUME NEW r \in served
        PROVE  IF r.build # None THEN r.secret = r.build
                                 ELSE r.secret = nvs'[r.slot] /\ nvs'[r.slot] # None
    <3>1. r.slot \in Slot
      BY <2>1
    <3> QED
      BY <2>1, <2>2, <3>1 DEF RecordIsKept, Secrets
  <2> QED
    BY <1>2, <2>2, AdvanceRecord DEF Persist
<1>3. CASE EraseFlash
  BY <1>3 DEF EraseFlash, RecordIsKept, BInv, OffIsFresh, linkVars
<1>4. CASE Draw
  BY <1>4 DEF Draw, RecordIsKept
<1>5. CASE \/ PowerOn \/ Stops \/ Reflash \/ WifiDone \/ Synced \/ NotSynced
           \/ Net!Link /\ UNCHANGED bootVars
           \/ UNCHANGED vars
  BY <1>5 DEF PowerOn, Stops, Reflash, WifiDone, Synced, NotSynced, bootVars,
              vars, RecordIsKept
<1> QED
  BY <1>1, <1>2, <1>3, <1>4, <1>5 DEF Next, Resolve

\* As long as get_blob does not fail on what is stored, a device that is not
\* erased serves one identity and one API secret for ever, through any number
\* of power losses at any moment and of other images.
THEOREM IdentityIsStable ==
  ASSUME ~ReadErrors
  PROVE  Spec => []IdentityStable
<1>1. RecordIsKept => IdentityStable
  BY DEF RecordIsKept, IdentityStable
<1>2. BInv /\ BInv' /\ RecordIsKept /\ [Next]_vars => RecordIsKept'
  BY NextRecord
<1> QED
  BY <1>1, <1>2, InitRecord, BootInvariant, PTL DEF Spec

-----------------------------------------------------------------------------
(* Type correctness: the seconds that main waits for the time server are   *)
(* bounded, and no record tells of a secret that was not there.            *)

RetriesLeft ==
  /\ retries \in 0 .. SntpRetries + 1
  /\ phase \in {"wifi", "sntp"} => retries <= SntpRetries

TInv == Net!TypeOK /\ RetriesLeft /\ \A r \in served : r.secret \in Keys

LEMMA LinkType ==
  ASSUME Net!TypeOK, Net!Link \/ Net!Start \/ Net!Halt
  PROVE  Net!TypeOK'
<1> USE DEF Net!Link, Net!ApChanges, Net!Associate, Net!AssociateFails, Net!Lose,
            Net!Connected, Net!NetifUp, Net!Restart, Net!Subscribe, Net!Reconnect,
            Net!EventUnheard, Net!Start, Net!Halt
<1>1. events' \in Nat
  BY DEF Net!TypeOK
<1>2. pc' \in {"off", "connect", "netif", "subscribe", "run"}
  BY DEF Net!TypeOK
<1>3. sta' \in {"down", "connecting", "up"}
  BY DEF Net!TypeOK
<1>4. subscribed' \in BOOLEAN
  BY DEF Net!TypeOK
<1>5. ap' \in BOOLEAN
  BY DEF Net!TypeOK
<1> QED
  BY <1>1, <1>2, <1>3, <1>4, <1>5 DEF Net!TypeOK

LEMMA InitTInv == Init => TInv
<1>1. Init => Net!TypeOK
  <2>1. Init => events \in Nat
    BY DEF Init, Net!Init
  <2> QED
    BY <2>1 DEF Init, Net!Init, Net!TypeOK
<1>2. Init => RetriesLeft
  BY BootAssumption DEF Init, RetriesLeft
<1> QED
  BY <1>1, <1>2 DEF Init, TInv

\* What is recorded has been resolved.
LEMMA AdvanceServed ==
  ASSUME BInv, BInv', NEW sec, Advance(sec), secret' = sec,
         \A r \in served : r.secret \in Keys
  PROVE  \A r \in served' : r.secret \in Keys
<1>1. CASE slot = "iroh_secret"
  BY <1>1 DEF Advance
<1>2. CASE slot # "iroh_secret"
  <2>1. phase' = "serve"
    BY <1>2 DEF Advance
  <2>2. \A s \in Slot : sec[s] \in Keys
    BY <2>1 DEF BInv, BootType, ResolvedIsKept, Resolved, Secrets
  <2>3. ASSUME NEW s \in Slot, NEW r, r = [slot |-> s, build |-> build[s], secret |-> sec[s]]
        PROVE  r.secret \in Keys
    BY <2>2, <2>3
  <2> QED
    BY <1>2, <2>3 DEF Advance
<1> QED
  BY <1>1, <1>2

LEMMA NextTInv ==
  ASSUME BInv, BInv', TInv, [Next]_vars
  PROVE  TInv'
<1> USE DEF TInv
<1>1. Net!TypeOK'
  <2>1. CASE UNCHANGED linkVars
    BY <2>1 DEF Net!TypeOK, linkVars
  <2>2. CASE Net!Link \/ Net!Start \/ Net!Halt
    BY <2>2, LinkType
  <2> QED
    BY <2>1, <2>2
       DEF Next, PowerOn, Stops, Reflash, EraseFlash, WifiDone, Synced, NotSynced,
           Resolve, BuiltIn, Stored, Draw, Persist, vars
<1>2. RetriesLeft'
  <2>1. CASE NotSynced
    BY <2>1, BootAssumption DEF NotSynced, RetriesLeft
  <2>2. CASE Stops
    BY <2>2, BootAssumption DEF Stops, RetriesLeft
  <2>3. CASE \/ PowerOn \/ Reflash \/ EraseFlash \/ WifiDone \/ Synced
             \/ Net!Link /\ UNCHANGED bootVars
             \/ UNCHANGED vars
    BY <2>3 DEF PowerOn, Reflash, EraseFlash, WifiDone, Synced, bootVars, vars, RetriesLeft
  <2>4. CASE Resolve
    BY <2>4 DEF Resolve, BuiltIn, Stored, Draw, Persist, Advance, RetriesLeft
  <2> QED
    BY <2>1, <2>2, <2>3, <2>4 DEF Next
<1>3. \A r \in served' : r.secret \in Keys
  <2>1. CASE BuiltIn \/ Stored \/ Persist
    BY <2>1, AdvanceServed DEF BuiltIn, Stored, Persist
  <2>2. CASE served' \subseteq served
    BY <2>2
  <2> QED
    BY <2>1, <2>2
       DEF Next, PowerOn, Stops, Reflash, EraseFlash, WifiDone, Synced, NotSynced,
           Resolve, Draw, bootVars, vars
<1> QED
  BY <1>1, <1>2, <1>3

\* The variables of main keep their types for any set of keys and any number of
\* retries; main never waits for more than SntpRetries + 1 seconds, and what is
\* served is a secret.
THEOREM BootTypeOK == Spec => []TypeOK
<1>1. BInv /\ TInv => TypeOK
  BY DEF BInv, BootType, TInv, RetriesLeft, TypeOK
<1>2. BInv /\ BInv' /\ TInv /\ [Next]_vars => TInv'
  BY NextTInv
<1> QED
  BY <1>1, <1>2, InitTInv, BootInvariant, PTL DEF Spec

-----------------------------------------------------------------------------
(* The link, when it is not lost between wait_netif_up and the handler.    *)

\* The handler is there exactly while main runs; until it is, the station is
\* watched by main itself; and from then on a station that is down has its
\* event ahead of it.
LinkWatched ==
  /\ subscribed <=> pc = "run"
  /\ pc = "subscribe" => sta = "up"
  /\ pc = "run" /\ sta = "down" => events > 0

LInv == Net!TypeOK /\ LinkWatched

LEMMA InitLInv == Init => LInv
BY InitTInv DEF TInv, Init, Net!Init, LInv, LinkWatched

LEMMA LinkLInv ==
  ASSUME ~WindowLoss, LInv, Net!Link \/ Net!Start \/ Net!Halt
  PROVE  LInv'
<1>1. Net!TypeOK /\ Net!TypeOK'
  BY LinkType DEF LInv
<1>2. LinkWatched'
  <2>1. CASE Net!Associate \/ Net!AssociateFails \/ Net!Lose \/ Net!ApChanges
    BY <1>1, <2>1 DEF LInv, LinkWatched, Net!TypeOK, Net!Associate, Net!AssociateFails,
                      Net!Lose, Net!ApChanges
  <2>2. CASE Net!Connected \/ Net!NetifUp \/ Net!Restart \/ Net!Subscribe
    BY <1>1, <2>2 DEF LInv, LinkWatched, Net!TypeOK, Net!Connected, Net!NetifUp,
                      Net!Restart, Net!Subscribe
  <2>3. CASE Net!Reconnect \/ Net!EventUnheard
    BY <1>1, <2>3 DEF LInv, LinkWatched, Net!TypeOK, Net!Reconnect, Net!EventUnheard
  <2>4. CASE Net!Start \/ Net!Halt
    BY <1>1, <2>4 DEF LInv, LinkWatched, Net!TypeOK, Net!Start, Net!Halt
  <2> QED
    BY <2>1, <2>2, <2>3, <2>4 DEF Net!Link
<1> QED
  BY <1>1, <1>2 DEF LInv

LEMMA NextLInv ==
  ASSUME ~WindowLoss, LInv, [Next]_vars
  PROVE  LInv'
<1>1. CASE UNCHANGED linkVars
  BY <1>1 DEF LInv, LinkWatched, Net!TypeOK, linkVars
<1>2. CASE Net!Link \/ Net!Start \/ Net!Halt
  BY <1>2, LinkLInv
<1> QED
  BY <1>1, <1>2
     DEF Next, PowerOn, Stops, Reflash, EraseFlash, WifiDone, Synced, NotSynced,
         Resolve, BuiltIn, Stored, Draw, Persist, vars

\* If the link holds while main goes from wait_netif_up to the subscription, a
\* running device whose station is down always has a disconnect on its way to
\* the handler, however many losses and failed attempts there were.
THEOREM ReconnectIsOnItsWay ==
  ASSUME ~WindowLoss
  PROVE  Spec => []ReconnectOnItsWay
<1>1. LInv => ReconnectOnItsWay
  BY DEF LInv, LinkWatched, ReconnectOnItsWay, Net!ReconnectOnItsWay
<1>2. LInv /\ [Next]_vars => LInv'
  BY NextLInv
<1> QED
  BY <1>1, <1>2, InitLInv, PTL DEF Spec

=============================================================================
