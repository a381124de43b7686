-------------------------------- MODULE Boot --------------------------------
(***************************************************************************)
(* main of the firmware, from power-on to the running router: connect_wifi *)
(* (module Wifi), sync_time_sntp, and the two secrets that are built in,   *)
(* read from NVS, or drawn and stored there.  The chip may lose its power  *)
(* between any two steps, and be flashed or erased while it has none.      *)
(***************************************************************************)
EXTENDS Naturals

CONSTANTS
  Keys,                    \* values of a secret
  None,                    \* no value
  SntpRetries,             \* seconds that sync_time_sntp waits: 30
  WindowLoss,              \* see Wifi
  ReadErrors               \* may get_blob fail on a secret that is stored

ASSUME BootAssumption ==
  /\ None \notin Keys
  /\ SntpRetries \in Nat
  /\ WindowLoss \in BOOLEAN
  /\ ReadErrors \in BOOLEAN

VARIABLES
  pc, subscribed, sta, ap, events,    \* see Wifi
  build,                   \* the secrets that the flashed image was built with
  nvs,                     \* the secrets that are stored
  phase,                   \* what main does next
  slot,                    \* the secret that main resolves, or resolves first
  secret,                  \* the secrets that main has resolved
  retries,                 \* sync_time_sntp: retries
  served                   \* history: what was served since the last erase

linkVars == <<pc, subscribed, sta, ap, events>>
bootVars == <<build, nvs, phase, slot, secret, retries, served>>
vars     == <<linkVars, bootVars>>

Net == INSTANCE Wifi

Slot    == {"iroh_secret", "fan_api_secret"}
Secrets == [Slot -> Keys \cup {None}]
Missing == [s \in Slot |-> None]
Phase   == {"wifi", "sntp", "read", "persist", "serve"}

\* The identity is resolved first, the API secret after it, then main serves.
\* What it serves is recorded together with what was built in.
Advance(sec) ==
  IF slot = "iroh_secret"
  THEN phase' = "read" /\ slot' = "fan_api_secret" /\ UNCHANGED served
  ELSE /\ phase' = "serve" /\ UNCHANGED slot
       /\ served' = served \cup
                      {[slot |-> s, build |-> build[s], secret |-> sec[s]] : s \in Slot}

Init ==
  /\ Net!Init
  /\ build \in Secrets
  /\ nvs = Missing
  /\ phase = "wifi"
  /\ slot = "iroh_secret"
  /\ secret = Missing
  /\ retries = 0
  /\ served = {}

-----------------------------------------------------------------------------
(* Power, flash and panics.                                                *)

PowerOn ==
  /\ Net!Start
  /\ UNCHANGED bootVars

\* Everything but the flash memory is lost.
Stops ==
  /\ Net!Halt
  /\ phase' = "wifi"
  /\ slot' = "iroh_secret"
  /\ secret' = Missing
  /\ retries' = 0
  /\ UNCHANGED <<build, nvs, served>>

\* Another image, with or without built-in secrets; NVS keeps what it has.
Reflash ==
  /\ pc = "off"
  /\ build' \in Secrets \ {build}
  /\ UNCHANGED <<linkVars, nvs, phase, slot, secret, retries, served>>

\* espflash erase-flash
EraseFlash ==
  /\ pc = "off"
  /\ nvs' = Missing
  /\ served' = {}
  /\ UNCHANGED <<linkVars, build, phase, slot, secret, retries>>

-----------------------------------------------------------------------------
(* main                                                                    *)

\* connect_wifi has returned.
WifiDone ==
  /\ pc = "run"
  /\ phase = "wifi"
  /\ phase' = "sntp"
  /\ UNCHANGED <<linkVars, build, nvs, slot, secret, retries, served>>

Synced ==
  /\ phase = "sntp"
  /\ phase' = "read"
  /\ UNCHANGED <<linkVars, build, nvs, slot, secret, retries, served>>

\* Mutant: the limit is looked at before the retry is counted.
NotSyncedOffByOne ==
  /\ phase = "sntp"
  /\ retries' = retries + 1
  /\ phase' = IF retries > SntpRetries THEN "read" ELSE "sntp"
  /\ UNCHANGED <<linkVars, build, nvs, slot, secret, served>>

\* Mutant: the retries are counted and never looked at.
SntpWaitsForEver ==
  /\ phase = "sntp"
  /\ retries' = (retries + 1) % (SntpRetries + 2)
  /\ UNCHANGED <<linkVars, build, nvs, phase, slot, secret, served>>

\* One more second without an answer; after the last one main goes on.
NotSynced ==
  /\ phase = "sntp"
  /\ retries' = retries + 1
  /\ phase' = IF retries' > SntpRetries THEN "read" ELSE "sntp"
  /\ UNCHANGED <<linkVars, build, nvs, slot, secret, served>>

\* Mutant: a built-in secret is stored as well.
BuiltInIsStored ==
  /\ phase = "read"
  /\ build[slot] # None
  /\ secret' = [secret EXCEPT ![slot] = build[slot]]
  /\ nvs' = [nvs EXCEPT ![slot] = build[slot]]
  /\ Advance(secret')
  /\ UNCHANGED <<linkVars, build, retries>>

\* A built-in secret wins; NVS is not touched.
BuiltIn ==
  /\ phase = "read"
  /\ build[slot] # None
  /\ secret' = [secret EXCEPT ![slot] = build[slot]]
  /\ Advance(secret')
  /\ UNCHANGED <<linkVars, build, nvs, retries>>

\* get_blob returns Ok(Some(_)).
Stored ==
  /\ phase = "read"
  /\ build[slot] = None
  /\ nvs[slot] # None
  /\ secret' = [secret EXCEPT ![slot] = nvs[slot]]
  /\ Advance(secret')
  /\ UNCHANGED <<linkVars, build, nvs, retries>>

\* get_blob returns Ok(None), or an error: a new secret is drawn.
Draw ==
  /\ phase = "read"
  /\ build[slot] = None
  /\ nvs[slot] = None \/ ReadErrors
  /\ \E k \in Keys : secret' = [secret EXCEPT ![slot] = k]
  /\ phase' = "persist"
  /\ UNCHANGED <<linkVars, build, nvs, slot, retries, served>>

\* Mutant: an error of set_blob is ignored.
PersistOrNot ==
  /\ phase = "persist"
  /\ nvs' \in {nvs, [nvs EXCEPT ![slot] = secret[slot]]}
  /\ Advance(secret)
  /\ UNCHANGED <<linkVars, build, secret, retries>>

\* set_blob: an error panics (Stops), so main goes on with what is stored.
Persist ==
  /\ phase = "persist"
  /\ nvs' = [nvs EXCEPT ![slot] = secret[slot]]
  /\ Advance(secret)
  /\ UNCHANGED <<linkVars, build, secret, retries>>

Resolve == BuiltIn \/ Stored \/ Draw \/ Persist

Next ==
  \/ PowerOn \/ Stops \/ Reflash \/ EraseFlash
  \/ WifiDone \/ Synced \/ NotSynced
  \/ Resolve
  \/ Net!Link /\ UNCHANGED bootVars

\* main goes on, the time server may stay silent for ever; nothing is promised
\* of the power.
Spec == /\ Init /\ [][Next]_vars
        /\ Net!Fairness
        /\ WF_vars(WifiDone) /\ WF_vars(NotSynced) /\ WF_vars(Resolve)

-----------------------------------------------------------------------------
TypeOK ==
  /\ Net!TypeOK
  /\ build \in Secrets
  /\ nvs \in Secrets
  /\ phase \in Phase
  /\ slot \in Slot
  /\ secret \in Secrets
  /\ retries \in 0 .. SntpRetries + 1
  /\ \A r \in served : r.slot \in Slot /\ r.build \in Keys \cup {None} /\ r.secret \in Keys

\* What the running device serves, under which tickets and secrets are handed
\* out, is what its next start will find: whatever moment the power was lost
\* at, no secret is in use that is not built in or stored.
ServedIsKept ==
  phase = "serve" =>
    \A s \in Slot : secret[s] = IF build[s] # None THEN build[s] ELSE nvs[s]

\* Between two erasures the same image, or any two without a built-in secret,
\* always serve the same endpoint identity and the same API secret.
IdentityStable ==
  \A r1, r2 \in served :
    r1.slot = r2.slot /\ r1.build = r2.build => r1.secret = r2.secret

\* The station of a running device that is down has a disconnect on its way
\* to the handler: nothing else would ever bring it up again.
ReconnectOnItsWay == Net!ReconnectOnItsWay

\* Whenever the access point is back for good the device is back on the
\* network, however often the link was lost or failed to come up before.
ComesBack == Net!ComesBack

\* A device that keeps its power and can reach the access point serves in the
\* end, also when no time server ever answers.
Serves == <>[](ap /\ pc # "off") => <>(phase = "serve")
=============================================================================
