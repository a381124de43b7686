-------------------------------- MODULE Wifi --------------------------------
(***************************************************************************)
(* connect_wifi and what keeps the link up afterwards: the main thread     *)
(* associates, waits for an address and subscribes to WifiEvent; from then *)
(* on the handler that runs on the system event loop associates again at   *)
(* every StaDisconnected.                                                  *)
(*                                                                         *)
(* The WiFi driver, the event loop and the access point are not under src/ *)
(* and are modelled from how connect_wifi uses them.  The driver posts a    *)
(* StaDisconnected when an association is lost and when it could not be    *)
(* made, and makes one only after esp_wifi_connect.                        *)
(***************************************************************************)
EXTENDS Naturals

CONSTANT
  WindowLoss               \* may the link be lost between the return of
                           \* wait_netif_up and the subscription

VARIABLES
  pc,                      \* how far the main thread has come
  subscribed,              \* the EspSubscription is alive
  sta,                     \* the driver's station
  ap,                      \* the access point answers
  events                   \* StaDisconnected events not yet dispatched

vars == <<pc, subscribed, sta, ap, events>>

Init ==
  /\ pc = "off"
  /\ subscribed = FALSE
  /\ sta = "down"
  /\ ap \in BOOLEAN
  /\ events = 0

\* The chip loses its power, or a panic stops it.
Halt ==
  /\ pc # "off"
  /\ pc' = "off"
  /\ subscribed' = FALSE
  /\ sta' = "down"
  /\ events' = 0
  /\ UNCHANGED ap

\* main starts the driver and calls wifi.connect.
Start ==
  /\ pc = "off"
  /\ pc' = "connect"
  /\ sta' = "connecting"
  /\ UNCHANGED <<subscribed, ap, events>>

-----------------------------------------------------------------------------
(* The driver and the access point.                                        *)

ApChanges ==
  /\ ap' = ~ap
  /\ UNCHANGED <<pc, subscribed, sta, events>>

Associate ==
  /\ sta = "connecting"
  /\ ap
  /\ sta' = "up"
  /\ UNCHANGED <<pc, subscribed, ap, events>>

AssociateFails ==
  /\ sta = "connecting"
  /\ ~ap
  /\ sta' = "down"
  /\ events' = events + 1
  /\ UNCHANGED <<pc, subscribed, ap>>

\* Beacons stop, or the access point sends the station away.
Lose ==
  /\ sta = "up"
  /\ pc = "subscribe" => WindowLoss
  /\ sta' = "down"
  /\ events' = events + 1
  /\ UNCHANGED <<pc, subscribed, ap>>

-----------------------------------------------------------------------------
(* The main thread.                                                        *)

\* wifi.connect returns once the station is associated.
Connected ==
  /\ pc = "connect"
  /\ sta = "up"
  /\ pc' = "netif"
  /\ UNCHANGED <<subscribed, sta, ap, events>>

\* wifi.wait_netif_up returns with the address that main puts in the ticket.
NetifUp ==
  /\ pc = "netif"
  /\ sta = "up"
  /\ pc' = "subscribe"
  /\ UNCHANGED <<subscribed, sta, ap, events>>

\* connect or wait_netif_up times out; expect panics, which restarts the chip.
Restart ==
  /\ pc \in {"connect", "netif"}
  /\ sta # "up"
  /\ pc' = "connect"
  /\ sta' = "connecting"
  /\ events' = 0
  /\ UNCHANGED <<subscribed, ap>>

\* Mutant: main does not keep the subscription that connect_wifi returns.
SubscribeAndDrop ==
  /\ pc = "subscribe"
  /\ pc' = "run"
  /\ subscribed' = FALSE
  /\ UNCHANGED <<sta, ap, events>>

\* The handler is installed, and lives as long as main does.
Subscribe ==
  /\ pc = "subscribe"
  /\ pc' = "run"
  /\ subscribed' = TRUE
  /\ UNCHANGED <<sta, ap, events>>

-----------------------------------------------------------------------------
(* The event loop dispatches a StaDisconnected to whoever is subscribed.   *)

\* Mutant: the handler leaves a station alone that it has to wait for.
ReconnectIfApUp ==
  /\ events > 0
  /\ subscribed
  /\ events' = events - 1
  /\ sta' = IF ap THEN "connecting" ELSE sta
  /\ UNCHANGED <<pc, subscribed, ap>>

\* The handler calls esp_wifi_connect.
Reconnect ==
  /\ events > 0
  /\ subscribed
  /\ events' = events - 1
  /\ sta' = "connecting"
  /\ UNCHANGED <<pc, subscribed, ap>>

\* Nobody is subscribed yet: the event is gone.
EventUnheard ==
  /\ events > 0
  /\ ~subscribed
  /\ events' = events - 1
  /\ UNCHANGED <<pc, subscribed, sta, ap>>

Link == \/ ApChanges \/ Associate \/ AssociateFails \/ Lose
        \/ Connected \/ NetifUp \/ Restart \/ Subscribe
        \/ Reconnect \/ EventUnheard

\* The driver ends every association one way or the other and the event loop
\* dispatches what was posted.  The time-outs of connect and wait_netif_up are
\* longer than an association takes, so one that can be made again and again
\* is made.  The access point, and its losing the station, are free.
Fairness == /\ SF_vars(Associate) /\ WF_vars(AssociateFails)
            /\ SF_vars(Connected) /\ SF_vars(NetifUp) /\ WF_vars(Restart)
            /\ WF_vars(Subscribe) /\ WF_vars(Reconnect) /\ WF_vars(EventUnheard)

-----------------------------------------------------------------------------
TypeOK ==
  /\ pc \in {"off", "connect", "netif", "subscribe", "run"}
  /\ subscribed \in BOOLEAN
  /\ sta \in {"down", "connecting", "up"}
  /\ ap \in BOOLEAN
  /\ events \in Nat

\* Once main runs, a station that is down has a disconnect event on its way to
\* the handler: nothing else would ever bring it up again.
ReconnectOnItsWay == pc = "run" /\ sta = "down" => events > 0 /\ subscribed

\* Whenever the access point is back for good the device is back on the
\* network, however often the link was lost or failed to come up before.
ComesBack == <>[](ap /\ pc # "off") => []<>(sta = "up")
=============================================================================
