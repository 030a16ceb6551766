----------------------------- MODULE Lifecycle -----------------------------
(***************************************************************************)
(* cmd/mqtt2prometheus/main.go, internal/app/app.go (Run, runComponents),  *)
(* internal/app/http.go (serve) and internal/broker/paho.go (Run): how the *)
(* process starts its two components, the HTTP server and the MQTT client, *)
(* and how it ends.                                                        *)
(*                                                                         *)
(* The goroutines: main, which runs App.Run; the one that waits for the    *)
(* signal in main.run; one per component; the one in serve that runs       *)
(* ListenAndServe; and the consumers of the router, here all in one (see   *)
(* Router).  net/http and the MQTT library are external.                   *)
(***************************************************************************)
EXTENDS Naturals, Sequences

CONSTANT MaxRequests      \* bound: HTTP requests open at a time

ASSUME LifecycleAssumption == MaxRequests \in Nat

NoError      == "nil"
Error        == {"config", "register", "listen", "deadline", "client"}
Result       == Error \cup {NoError}
errsCapacity == 2         \* of the channel errs in runComponents

VARIABLES
  main,       \* how far main.run and App.Run have come
  err,        \* what App.Run is about to return
  signalled,  \* the context given to App.Run has ended with a signal
  caught,     \* signals are caught: stop() has not been called
  cancelled,  \* cancel() of the components' context has been called
  errs,       \* the channel errs of runComponents
  server,     \* the goroutine of the HTTP component, in serve
  served,     \* what serve is about to return
  listener,   \* the goroutine in serve that runs ListenAndServe
  heard,      \* the channel errs of serve
  requests,   \* HTTP requests being answered
  client,     \* the goroutine of the MQTT component, in Paho.Run
  dialled,    \* what Paho.Run is about to return
  consumers,  \* the consumers of the router
  reports     \* history: what the components returned, in order

http    == <<server, served, listener, heard, requests>>
mqtt    == <<client, dialled>>
process == <<main, err, signalled, caught, cancelled>>
vars    == <<process, errs, http, mqtt, consumers, reports>>

Init ==
  /\ main = "load" /\ err = NoError
  /\ signalled = FALSE /\ caught = TRUE /\ cancelled = FALSE
  /\ errs = <<>> /\ reports = <<>>
  /\ server = "off" /\ served = NoError
  /\ listener = "off" /\ heard = <<>> /\ requests = 0
  /\ client = "off" /\ dialled = NoError
  /\ consumers = "none"

alive == main \notin {"exited", "killed"}

(***************************************************************************)
(* The context of the components is a child of the signal's.               *)
(***************************************************************************)
componentsDone == signalled \/ cancelled

-----------------------------------------------------------------------------
(***************************************************************************)
(* main.run: the first signal ends the context, which lets a goroutine     *)
(* call stop(); from then on a signal kills the process.                   *)
(***************************************************************************)
Signal ==
  /\ alive /\ ~signalled
  /\ signalled' = TRUE
  /\ UNCHANGED <<main, err, caught, cancelled, errs, http, mqtt, consumers, reports>>

Restore ==
  /\ alive /\ signalled /\ caught
  /\ caught' = FALSE
  /\ UNCHANGED <<main, err, signalled, cancelled, errs, http, mqtt, consumers, reports>>

SecondSignal ==
  /\ alive /\ ~caught
  /\ main' = "killed"
  /\ UNCHANGED <<err, signalled, caught, cancelled, errs, http, mqtt, consumers, reports>>

-----------------------------------------------------------------------------
(***************************************************************************)
(* App.Run up to the start of the components: a configuration that cannot  *)
(* be loaded, or a metric that cannot be registered, ends it before        *)
(* anything runs.                                                          *)
(***************************************************************************)
StartFails(problem) ==
  /\ main = "load" /\ problem \in {"config", "register"}
  /\ main' = "exited" /\ err' = problem
  /\ UNCHANGED <<signalled, caught, cancelled, errs, http, mqtt, consumers, reports>>

StartComponents ==
  /\ main = "load"
  /\ main' = "first"
  /\ consumers' = "running" /\ server' = "select" /\ listener' = "starting"
  /\ client' = "dialling"
  /\ UNCHANGED <<err, signalled, caught, cancelled, errs, served, heard, requests,
                 dialled, reports>>

\* Mutant: the first error does not cancel the other component.
FirstReturnsOnly ==
  /\ main = "first" /\ errs # <<>>
  /\ main' = "wait" /\ err' = Head(errs) /\ errs' = Tail(errs)
  /\ UNCHANGED <<signalled, caught, cancelled, http, mqtt, consumers, reports>>

\* Mutant: an error is returned without waiting for the other component.
FirstErrorReturns ==
  /\ main = "first" /\ errs # <<>>
  /\ main' = IF Head(errs) = NoError THEN "wait" ELSE "stop"
  /\ err' = Head(errs) /\ errs' = Tail(errs)
  /\ cancelled' = TRUE
  /\ UNCHANGED <<signalled, caught, http, mqtt, consumers, reports>>

(***************************************************************************)
(* runComponents: the first result cancels the other component; both are   *)
(* waited for; the second result counts if the first was no error.         *)
(***************************************************************************)
FirstReturns ==
  /\ main = "first" /\ errs # <<>>
  /\ main' = "wait" /\ err' = Head(errs) /\ errs' = Tail(errs)
  /\ cancelled' = TRUE
  /\ UNCHANGED <<signalled, caught, http, mqtt, consumers, reports>>

Wait ==
  /\ main = "wait" /\ server = "returned" /\ client = "returned"
  /\ main' = "second"
  /\ UNCHANGED <<err, signalled, caught, cancelled, errs, http, mqtt, consumers, reports>>

\* Mutant: the second result replaces the first.
SecondReplaces ==
  /\ main = "second" /\ errs # <<>>
  /\ main' = "stop" /\ errs' = Tail(errs)
  /\ err' = Head(errs)
  /\ UNCHANGED <<signalled, caught, cancelled, http, mqtt, consumers, reports>>

SecondReturns ==
  /\ main = "second" /\ errs # <<>>
  /\ main' = "stop" /\ errs' = Tail(errs)
  /\ err' = IF err = NoError THEN Head(errs) ELSE err
  /\ UNCHANGED <<signalled, caught, cancelled, http, mqtt, consumers, reports>>

(***************************************************************************)
(* The deferred Router.Stop: it cancels the consumers and waits for them.  *)
(* The consumers' context is a child of the signal's too.                  *)
(***************************************************************************)
StopRouter ==
  /\ main = "stop"
  /\ main' = "stopping"
  /\ UNCHANGED <<err, signalled, caught, cancelled, errs, http, mqtt, consumers, reports>>

ConsumersReturn ==
  /\ alive /\ consumers = "running"
  /\ signalled \/ main = "stopping"
  /\ consumers' = "gone"
  /\ UNCHANGED <<process, errs, http, mqtt, reports>>

RunReturns ==
  /\ main = "stopping" /\ consumers = "gone"
  /\ main' = "exited"
  /\ UNCHANGED <<err, signalled, caught, cancelled, errs, http, mqtt, consumers, reports>>

exitCode == IF err = NoError THEN 0 ELSE 1

-----------------------------------------------------------------------------
(***************************************************************************)
(* ListenAndServe: it fails to listen, fails while it serves, or returns   *)
(* because Shutdown was called, at once if it was called before.           *)
(***************************************************************************)
shutDown ==
  server = "shutdown" \/ (server \in {"report", "returned"} /\ served # "listen")

\* Mutant: the return after sending the error is missing.
ListenFailsTwice ==
  /\ alive
  /\ listener = "starting" \/ (listener = "listening" /\ ~shutDown)
  /\ listener' = "returned" /\ heard' = <<"listen", NoError>>
  /\ UNCHANGED <<process, errs, server, served, requests, mqtt, consumers, reports>>

ListenFails ==
  /\ alive
  /\ listener = "starting" \/ (listener = "listening" /\ ~shutDown)
  /\ listener' = "returned" /\ heard' = <<"listen">>
  /\ UNCHANGED <<process, errs, server, served, requests, mqtt, consumers, reports>>

Listens ==
  /\ alive /\ listener = "starting" /\ ~shutDown
  /\ listener' = "listening"
  /\ UNCHANGED <<process, errs, server, served, heard, requests, mqtt, consumers, reports>>

ListenerCloses ==
  /\ alive /\ listener \in {"starting", "listening"} /\ shutDown
  /\ listener' = "returned" /\ heard' = <<NoError>>
  /\ UNCHANGED <<process, errs, server, served, requests, mqtt, consumers, reports>>

RequestBegins ==
  /\ alive /\ listener = "listening" /\ ~shutDown /\ requests < MaxRequests
  /\ requests' = requests + 1
  /\ UNCHANGED <<process, errs, server, served, listener, heard, mqtt, consumers, reports>>

RequestEnds ==
  /\ alive /\ requests > 0
  /\ requests' = requests - 1
  /\ UNCHANGED <<process, errs, server, served, listener, heard, mqtt, consumers, reports>>

\* Mutant: what ListenAndServe returned is not passed on.
ServeSwallows ==
  /\ alive /\ server = "select" /\ heard # <<>>
  /\ server' = "report" /\ served' = NoError /\ heard' = Tail(heard)
  /\ UNCHANGED <<process, errs, listener, requests, mqtt, consumers, reports>>

(***************************************************************************)
(* serve: when the listener has failed and the context has ended, select   *)
(* takes either.                                                           *)
(***************************************************************************)
ServeHears ==
  /\ alive /\ server = "select" /\ heard # <<>>
  /\ server' = "report" /\ served' = Head(heard) /\ heard' = Tail(heard)
  /\ UNCHANGED <<process, errs, listener, requests, mqtt, consumers, reports>>

ServeEnds ==
  /\ alive /\ server = "select" /\ componentsDone
  /\ server' = "shutdown"
  /\ UNCHANGED <<process, errs, served, listener, heard, requests, mqtt, consumers, reports>>

(***************************************************************************)
(* Server.Shutdown waits for the open requests, for shutdownTimeout.       *)
(***************************************************************************)
ShutdownDone ==
  /\ alive /\ server = "shutdown" /\ requests = 0
  /\ server' = "report" /\ served' = NoError
  /\ UNCHANGED <<process, errs, listener, heard, requests, mqtt, consumers, reports>>

ShutdownTimesOut ==
  /\ alive /\ server = "shutdown" /\ requests > 0
  /\ server' = "report" /\ served' = "deadline"
  /\ UNCHANGED <<process, errs, listener, heard, requests, mqtt, consumers, reports>>

ServerReports ==
  /\ alive /\ server = "report" /\ Len(errs) < errsCapacity
  /\ server' = "returned"
  /\ errs' = Append(errs, served) /\ reports' = Append(reports, served)
  /\ UNCHANGED <<process, served, listener, heard, requests, mqtt, consumers>>

-----------------------------------------------------------------------------
(***************************************************************************)
(* Paho.Run: a broker URL that does not parse, or a connection manager     *)
(* that cannot be made, is an error.  Otherwise the client waits for its   *)
(* context, connected or trying to connect, disconnects for at most        *)
(* disconnectGracePeriod, and returns nil whether or not that went well.   *)
(***************************************************************************)
DialFails ==
  /\ alive /\ client = "dialling"
  /\ client' = "report" /\ dialled' = "client"
  /\ UNCHANGED <<process, errs, http, consumers, reports>>

Dials ==
  /\ alive /\ client = "dialling"
  /\ client' = "up"
  /\ UNCHANGED <<process, errs, http, dialled, consumers, reports>>

ClientEnds ==
  /\ alive /\ client = "up" /\ componentsDone
  /\ client' = "disconnecting"
  /\ UNCHANGED <<process, errs, http, dialled, consumers, reports>>

Disconnected ==
  /\ alive /\ client = "disconnecting"
  /\ client' = "report"
  /\ UNCHANGED <<process, errs, http, dialled, consumers, reports>>

ClientReports ==
  /\ alive /\ client = "report" /\ Len(errs) < errsCapacity
  /\ client' = "returned"
  /\ errs' = Append(errs, dialled) /\ reports' = Append(reports, dialled)
  /\ UNCHANGED <<process, http, dialled, consumers>>

-----------------------------------------------------------------------------
MainStep ==
  StartComponents \/ FirstReturns \/ Wait \/ SecondReturns \/ StopRouter \/ RunReturns

ListenerStep == Listens \/ ListenerCloses

ServerStep ==
  ServeHears \/ ServeEnds \/ ShutdownDone \/ ShutdownTimesOut \/ ServerReports

ClientStep == Dials \/ ClientEnds \/ Disconnected \/ ClientReports

Next ==
  \/ Signal \/ Restore \/ SecondSignal
  \/ \E problem \in Error : StartFails(problem)
  \/ MainStep \/ ConsumersReturn
  \/ ListenFails \/ ListenerStep \/ RequestBegins \/ RequestEnds \/ ServerStep
  \/ DialFails \/ ClientStep

Spec == Init /\ [][Next]_vars

(***************************************************************************)
(* A goroutine that can take a step takes one, timeouts expire, and a      *)
(* consumer told to stop returns (Router, CallsReturn).  No request need   *)
(* ever end, and no signal come.                                           *)
(***************************************************************************)
FairSpec ==
  /\ Spec
  /\ WF_vars(MainStep) /\ WF_vars(ConsumersReturn)
  /\ WF_vars(ListenerStep) /\ WF_vars(ServerStep) /\ WF_vars(ClientStep)

-----------------------------------------------------------------------------
(***************************************************************************)
(* Every variable has its type, and no channel holds more than it can      *)
(* without blocking the goroutine that sends.                              *)
(***************************************************************************)
TypeOK ==
  /\ main \in {"load", "first", "wait", "second", "stop", "stopping", "exited", "killed"}
  /\ err \in Result
  /\ signalled \in BOOLEAN /\ caught \in BOOLEAN /\ cancelled \in BOOLEAN
  /\ errs \in Seq(Result) /\ Len(errs) <= errsCapacity
  /\ reports \in Seq(Result)
  /\ server \in {"off", "select", "shutdown", "report", "returned"}
  /\ served \in {NoError, "listen", "deadline"}
  /\ listener \in {"off", "starting", "listening", "returned"}
  /\ heard \in Seq({NoError, "listen"}) /\ Len(heard) <= 1
  /\ requests \in 0 .. MaxRequests
  /\ client \in {"off", "dialling", "up", "disconnecting", "report", "returned"}
  /\ dialled \in {NoError, "client"}
  /\ consumers \in {"none", "running", "gone"}

(***************************************************************************)
(* When Run has returned, so have both components it started and the       *)
(* consumers: neither the server, nor the client, nor a write to the store *)
(* is cut off by the end of the process.  The goroutine in serve that      *)
(* listens, and open requests, are not part of it: serve waits for neither *)
(* (http.go:61-80), and both may still be there when main exits.           *)
(***************************************************************************)
NothingOutlivesRun ==
  main = "exited" =>
    \/ server = "off" /\ client = "off" /\ consumers = "none"
    \/ server = "returned" /\ client = "returned" /\ consumers = "gone"

(***************************************************************************)
(* The error Run returns is that of the component that failed first, and   *)
(* nil if none failed.                                                     *)
(***************************************************************************)
firstFailed(i) ==
  reports[i] # NoError /\ \A j \in 1 .. i - 1 : reports[j] = NoError

FirstFailureWins ==
  main = "exited" /\ client # "off" =>
    \/ err = NoError /\ \A i \in DOMAIN reports : reports[i] = NoError
    \/ \E i \in DOMAIN reports : firstFailed(i) /\ err = reports[i]

(***************************************************************************)
(* The process reports success only if it was told to end: it never stops  *)
(* on its own accord with exit code 0, which a supervisor would take for a *)
(* regular end.                                                            *)
(***************************************************************************)
ZeroOnlyOnSignal == main = "exited" /\ exitCode = 0 => signalled

(***************************************************************************)
(* The process reports success only if no request was cut off; together: a *)
(* regular end was asked for, and nobody was left without an answer.       *)
(***************************************************************************)
ZeroOnlyWhenServed == main = "exited" /\ exitCode = 0 => requests = 0

ZeroMeansWell == ZeroOnlyOnSignal /\ ZeroOnlyWhenServed

(***************************************************************************)
(* A signal ends the process, even with requests that never end and a      *)
(* broker that does not answer; so does a component that fails, though the *)
(* other one would run for ever.                                           *)
(***************************************************************************)
ended == ~alive

ProcessEnds ==
  /\ signalled ~> ended
  /\ (heard = <<"listen">> \/ dialled # NoError) ~> ended
=============================================================================
