----------------------------- MODULE Connection -----------------------------
(***************************************************************************)
(* internal/broker/paho.go and internal/app/app.go (Connected,             *)
(* Reconnected, dispatch, ready): the callbacks of the MQTT library, and   *)
(* what they make of the readiness, the gauge mqtt2prom_mqtt_connected,    *)
(* the counter of reconnects and the subscriptions the broker holds.       *)
(*                                                                         *)
(* The library is external: it connects, tries again for ever when it      *)
(* cannot, and calls back.  On which goroutine it calls is not said here;  *)
(* what the callbacks change is atomic, so every call is taken to run on a *)
(* goroutine of its own, at any pace.  Log lines are left out, those for a *)
(* failed or refused subscription among them.                              *)
(***************************************************************************)
EXTENDS Naturals, FiniteSets

CONSTANTS
  Filter,           \* topic filters
  Subs,             \* those of Router.Subscriptions
  MaxConnections    \* bound: connections made

ASSUME ConnectionAssumption ==
  /\ Subs \subseteq Filter /\ Subs # {}
  /\ MaxConnections \in Nat

VARIABLES
  link,         \* there is a connection
  made,         \* how many were made
  granted,      \* what the broker's session subscribes to
  run,          \* the goroutine of Paho.Run, once it has dialled
  up,           \* the call of onConnectionUp for each connection
  down,         \* the call of onClientError for each, and at 0 onConnectError
  connected,    \* App.connected
  seen,         \* App.seen
  gauge,        \* mqtt2prom_mqtt_connected is 1
  connections,  \* Paho.connections
  reconnects,   \* mqtt2prom_mqtt_reconnects_total
  late          \* history: a loss was reported during this connection

ctxDone == run # "waiting"

library  == <<link, made, granted>>
observed == <<connected, gauge>>
counted  == <<connections, reconnects>>
vars     == <<library, run, up, down, observed, late, seen, counted>>

Connection == 1 .. MaxConnections

(***************************************************************************)
(* The broker may still hold what an earlier process subscribed to, with   *)
(* another configuration.                                                  *)
(***************************************************************************)
Init ==
  /\ link = FALSE /\ made = 0 /\ granted \in SUBSET Filter
  /\ run = "waiting"
  /\ up = [n \in Connection |-> "none"]
  /\ down = [n \in 0 .. MaxConnections |-> "none"]
  /\ connected = FALSE /\ seen = FALSE /\ gauge = FALSE /\ late = FALSE
  /\ connections = 0 /\ reconnects = 0

-----------------------------------------------------------------------------
(***************************************************************************)
(* The library.  Each connection finds the broker's session as it was, or  *)
(* emptied: the first by CleanStartOnInitialConnection, any because the    *)
(* broker lost it or it expired.                                           *)
(***************************************************************************)
Connect ==
  /\ ~link /\ ~ctxDone /\ made < MaxConnections
  /\ link' = TRUE /\ made' = made + 1 /\ late' = FALSE
  /\ granted' \in {granted, {}}
  /\ up' = [up EXCEPT ![made'] = "flag"]
  /\ UNCHANGED <<run, down, observed, seen, counted>>

\* Mutant: OnConnectError is not set.
ConnectFailsQuietly ==
  /\ ~link /\ ~ctxDone /\ down[0] = "none"
  /\ UNCHANGED vars

ConnectFails ==
  /\ ~link /\ ~ctxDone /\ down[0] = "none"
  /\ down' = [down EXCEPT ![0] = "flag"]
  /\ UNCHANGED <<library, run, up, observed, late, seen, counted>>

(***************************************************************************)
(* A connection breaks, which is an error of the client, or the broker     *)
(* closes it: OnServerDisconnect is not set, and nobody is told.           *)
(***************************************************************************)
Breaks ==
  /\ link
  /\ link' = FALSE /\ down' = [down EXCEPT ![made] = "flag"]
  /\ UNCHANGED <<made, granted, run, up, observed, late, seen, counted>>

Closes ==
  /\ link
  /\ link' = FALSE
  /\ UNCHANGED <<made, granted, run, up, down, observed, late, seen, counted>>

(***************************************************************************)
(* A message of anything the session subscribes to: publishHandler gives   *)
(* it to App.dispatch; what Router.Dispatch does with it is Router's.      *)
(***************************************************************************)
Dispatch ==
  /\ link /\ granted # {}
  /\ seen' = TRUE
  /\ UNCHANGED <<library, run, up, down, observed, late, counted>>

-----------------------------------------------------------------------------
(***************************************************************************)
(* App.Connected: first the flag, then the gauge.                          *)
(***************************************************************************)
storeFlag(value) ==
  /\ connected' = value
  /\ UNCHANGED <<gauge, seen>>

storeGauge(value) ==
  /\ gauge' = value
  /\ UNCHANGED <<connected, seen>>

ready == connected /\ seen

(***************************************************************************)
(* onConnectError and onClientError.                                       *)
(***************************************************************************)
Down(n) ==
  /\ \/ down[n] = "flag" /\ storeFlag(FALSE) /\ down' = [down EXCEPT ![n] = "gauge"]
     \/ down[n] = "gauge" /\ storeGauge(FALSE) /\ down' = [down EXCEPT ![n] = "none"]
  /\ late' = (late \/ link)
  /\ UNCHANGED <<library, run, up, counted>>

(***************************************************************************)
(* onConnectionUp.                                                         *)
(***************************************************************************)
goes(n, to) == up' = [up EXCEPT ![n] = to]

UpConnected(n) ==
  /\ \/ up[n] = "flag" /\ storeFlag(TRUE) /\ goes(n, "gauge")
     \/ up[n] = "gauge" /\ storeGauge(TRUE) /\ goes(n, "count")
  /\ UNCHANGED <<library, run, down, late, counted>>

\* Mutant: counted by the comparison, and once more.
UpCountsTwice(n) ==
  /\ up[n] = "count"
  /\ connections' = connections + 2
  /\ goes(n, IF connections' > 2 THEN "again" ELSE "subscribe")
  /\ UNCHANGED <<library, run, down, observed, late, seen, reconnects>>

\* Mutant: a connection counts as another one when the flag was already up.
UpCountsFlag(n) ==
  /\ up[n] = "count"
  /\ connections' = connections + 1
  /\ goes(n, IF connected /\ n > 1 THEN "again" ELSE "subscribe")
  /\ UNCHANGED <<library, run, down, observed, late, seen, reconnects>>

UpCounts(n) ==
  /\ up[n] = "count"
  /\ connections' = connections + 1
  /\ goes(n, IF connections' > 1 THEN "again" ELSE "subscribe")
  /\ UNCHANGED <<library, run, down, observed, late, seen, reconnects>>

\* Mutant: what was subscribed to on the first connection is taken to last.
UpReconnectedOnly(n) ==
  /\ up[n] = "again"
  /\ reconnects' = reconnects + 1
  /\ goes(n, "done")
  /\ UNCHANGED <<library, run, down, observed, late, seen, connections>>

UpReconnected(n) ==
  /\ up[n] = "again"
  /\ reconnects' = reconnects + 1
  /\ goes(n, "subscribe")
  /\ UNCHANGED <<library, run, down, observed, late, seen, connections>>

(***************************************************************************)
(* Subscribe asks on whatever connection there is.  It fails, perhaps with *)
(* some of the filters granted, when there is none, when no answer comes,  *)
(* or when a reason code is above maxGrantedQoS.                           *)
(***************************************************************************)
UpSubscribes(n) ==
  /\ up[n] = "subscribe"
  /\ \/ link /\ granted' = granted \cup Subs /\ goes(n, "done")
     \/ /\ \E some \in SUBSET Subs :
             granted' = IF link THEN granted \cup some ELSE granted
        /\ goes(n, "failed")
  /\ UNCHANGED <<link, made, run, down, observed, late, seen, counted>>

-----------------------------------------------------------------------------
(***************************************************************************)
(* Paho.Run when its context is done: Connected(false), then Disconnect,   *)
(* which waits for the library no longer than disconnectGracePeriod.  The  *)
(* library drops the connection and makes no other.                        *)
(***************************************************************************)
CtxDone ==
  /\ run = "waiting" /\ run' = "flag"
  /\ UNCHANGED <<library, up, down, observed, late, seen, counted>>

RunEnds ==
  /\ \/ run = "flag" /\ run' = "gauge" /\ connected' = FALSE /\ UNCHANGED gauge
     \/ run = "gauge" /\ run' = "disconnecting" /\ gauge' = FALSE /\ UNCHANGED connected
  /\ UNCHANGED <<library, up, down, late, seen, counted>>

Leave ==
  /\ ctxDone /\ link
  /\ link' = FALSE
  /\ UNCHANGED <<made, granted, run, up, down, observed, late, seen, counted>>

-----------------------------------------------------------------------------
UpStep(n) == UpConnected(n) \/ UpCounts(n) \/ UpReconnected(n) \/ UpSubscribes(n)

Next ==
  \/ Connect \/ ConnectFails \/ Breaks \/ Closes \/ Dispatch \/ Leave
  \/ \E n \in 0 .. MaxConnections : Down(n)
  \/ \E n \in Connection : UpStep(n)
  \/ CtxDone \/ RunEnds

(***************************************************************************)
(* A call that was begun goes on, the library goes on trying to connect,   *)
(* successfully or not, and it drops its connection when told to.  No      *)
(* connection need be made or lost, and no message come.                   *)
(***************************************************************************)
Fairness ==
  /\ \A n \in 0 .. MaxConnections : WF_vars(Down(n))
  /\ \A n \in Connection : WF_vars(UpStep(n))
  /\ WF_vars(Connect \/ ConnectFails) /\ WF_vars(RunEnds) /\ WF_vars(Leave)

Spec == Init /\ [][Next]_vars /\ Fairness

-----------------------------------------------------------------------------
TypeOK ==
  /\ link \in BOOLEAN
  /\ made \in 0 .. MaxConnections
  /\ granted \in SUBSET Filter
  /\ run \in {"waiting", "flag", "gauge", "disconnecting"}
  /\ up \in [Connection ->
       {"none", "flag", "gauge", "count", "again", "subscribe", "done", "failed"}]
  /\ down \in [0 .. MaxConnections -> {"none", "flag", "gauge"}]
  /\ connected \in BOOLEAN /\ seen \in BOOLEAN /\ gauge \in BOOLEAN /\ late \in BOOLEAN
  /\ connections \in 0 .. made /\ reconnects \in 0 .. made

(***************************************************************************)
(* mqtt2prom_mqtt_reconnects_total, "Number of times the MQTT connection   *)
(* was re-established": once the calls have counted, it is one less than   *)
(* the connections made, in whatever order and however much at a time the  *)
(* calls ran, and whether or not the flag was up in between.               *)
(***************************************************************************)
ReconnectsAreUps ==
  (\A n \in Connection : up[n] \in {"none", "subscribe", "done", "failed"}) =>
    reconnects = IF made = 0 THEN 0 ELSE made - 1

(***************************************************************************)
(* A connection that lasts is subscribed to everything, though the broker  *)
(* may have lost its session and earlier calls may still be running,       *)
(* unless a subscription failed or was refused on that very connection:    *)
(* nothing tries again until the next one.                                 *)
(***************************************************************************)
SubscribedAgain ==
  <>[]link =>
    <>[](Subs \subseteq granted \/ \E n \in Connection : n = made /\ up[n] = "failed")

(***************************************************************************)
(* A connection that lasts shows: the gauge is 1, and the application is   *)
(* ready as soon as a message has come.  What may hide it is a report of   *)
(* an earlier connection's end, or of a failed attempt, that comes late.   *)
(* The lasting loss of the connection shows as well, even when the broker  *)
(* closed it, of which the code is not told, and however late the calls    *)
(* for the connections before it run: the next attempts fail.              *)
(***************************************************************************)
LinkIsNoticed ==
  /\ <>[]link => <>[](gauge /\ ready = seen) \/ <>[]late
  /\ <>[](~link /\ ~ctxDone) => <>[](~gauge /\ ~ready)
=============================================================================
