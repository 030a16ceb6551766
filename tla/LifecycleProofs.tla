-------------------------- MODULE LifecycleProofs --------------------------
(***************************************************************************)
(* Theorems about Lifecycle, for any number of open requests.              *)
(***************************************************************************)
EXTENDS Lifecycle, TLAPS

(***************************************************************************)
(* A result sent makes the channel longer by one.                          *)
(***************************************************************************)
LEMMA AppendLength ==
  ASSUME NEW q \in Seq(Result), NEW r \in Result
  PROVE  Len(Append(q, r)) = Len(q) + 1
  OBVIOUS

LEMMA TypeStep ==
  ASSUME TypeOK, [Next]_vars
  PROVE  TypeOK'
<1> USE LifecycleAssumption DEF Result, Error, NoError, errsCapacity
<1>1. CASE Signal \/ SecondSignal \/
            \E problem \in Error : StartFails(problem)
  BY <1>1 DEF Signal, SecondSignal, StartFails, process, http, mqtt, TypeOK
<1>2. CASE Restore
  <2>1. caught' \in BOOLEAN
    BY <1>2 DEF Restore
  <2>2. UNCHANGED <<main, err, signalled, cancelled, errs, http, mqtt,
      consumers, reports>>
    BY <1>2 DEF Restore
  <2> QED BY <2>1, <2>2 DEF http, mqtt, TypeOK
<1>3. CASE StartComponents \/ FirstReturns \/ Wait \/ SecondReturns \/
    StopRouter \/ RunReturns
  <2>1. CASE StartComponents
    BY <2>1 DEF StartComponents, process, http, mqtt, TypeOK
  <2>2. CASE FirstReturns
    BY <2>2 DEF FirstReturns, process, http, mqtt, TypeOK
  <2>3. CASE Wait
    BY <2>3 DEF Wait, process, http, mqtt, TypeOK
  <2>4. CASE SecondReturns
    BY <2>4 DEF SecondReturns, process, http, mqtt, TypeOK
  <2>5. CASE StopRouter
    BY <2>5 DEF StopRouter, process, http, mqtt, TypeOK
  <2>6. CASE RunReturns
    BY <2>6 DEF RunReturns, process, http, mqtt, TypeOK
  <2> QED BY <1>3, <2>1, <2>2, <2>3, <2>4, <2>5, <2>6
<1>4. CASE ConsumersReturn
  BY <1>4 DEF ConsumersReturn, process, http, mqtt, TypeOK
<1>5. CASE ListenFails \/ Listens \/ ListenerCloses \/ RequestBegins \/
    RequestEnds
  <2>1. CASE ListenFails
    BY <2>1 DEF ListenFails, process, http, mqtt, TypeOK
  <2>2. CASE Listens
    BY <2>2 DEF Listens, process, http, mqtt, TypeOK
  <2>3. CASE ListenerCloses
    BY <2>3 DEF ListenerCloses, process, http, mqtt, TypeOK
  <2>4. CASE RequestBegins
    BY <2>4 DEF RequestBegins, process, http, mqtt, TypeOK
  <2>5. CASE RequestEnds
    BY <2>5 DEF RequestEnds, process, http, mqtt, TypeOK
  <2> QED BY <1>5, <2>1, <2>2, <2>3, <2>4, <2>5
<1>6. CASE ServeHears \/ ServeEnds \/ ShutdownDone \/ ShutdownTimesOut \/
    ServerReports
  <2>1. CASE ServeHears
    BY <2>1 DEF ServeHears, process, http, mqtt, TypeOK
  <2>2. CASE ServeEnds
    BY <2>2 DEF ServeEnds, process, http, mqtt, TypeOK
  <2>3. CASE ShutdownDone
    BY <2>3 DEF ShutdownDone, process, http, mqtt, TypeOK
  <2>4. CASE ShutdownTimesOut
    BY <2>4 DEF ShutdownTimesOut, process, http, mqtt, TypeOK
  <2>5. CASE ServerReports
    BY <2>5 DEF ServerReports, process, http, mqtt, TypeOK
  <2> QED BY <1>6, <2>1, <2>2, <2>3, <2>4, <2>5
<1>7. CASE DialFails \/ Dials \/ ClientEnds \/ Disconnected \/ ClientReports
  <2>1. CASE DialFails
    BY <2>1 DEF DialFails, process, http, mqtt, TypeOK
  <2>2. CASE Dials
    BY <2>2 DEF Dials, process, http, mqtt, TypeOK
  <2>3. CASE ClientEnds
    BY <2>3 DEF ClientEnds, process, http, mqtt, TypeOK
  <2>4. CASE Disconnected
    BY <2>4 DEF Disconnected, process, http, mqtt, TypeOK
  <2>5. CASE ClientReports
    BY <2>5 DEF ClientReports, process, http, mqtt, TypeOK
  <2> QED BY <1>7, <2>1, <2>2, <2>3, <2>4, <2>5
<1>8. CASE UNCHANGED vars
  BY <1>8 DEF vars, process, http, mqtt, TypeOK
<1> QED BY <1>1, <1>2, <1>3, <1>4, <1>5, <1>6, <1>7, <1>8
        DEF Next, MainStep, ListenerStep, ServerStep, ClientStep

(***************************************************************************)
(* The state machine keeps its types and never fills a channel beyond what *)
(* its senders were promised.                                              *)
(***************************************************************************)
THEOREM TypeCorrect == Spec => []TypeOK
<1>1. Init => TypeOK
  <2> SUFFICES ASSUME Init PROVE TypeOK
    OBVIOUS
  <2>1. <<>> \in Seq(Result) /\ <<>> \in Seq({NoError, "listen"})
      /\ Len(<<>>) = 0
    OBVIOUS
  <2>2. 0 \in 0 .. MaxRequests
    BY LifecycleAssumption
  <2>3. signalled \in BOOLEAN /\ caught \in BOOLEAN /\ cancelled \in BOOLEAN
    BY DEF Init
  <2> QED BY <2>1, <2>2, <2>3 DEF Init, TypeOK, Result, NoError, errsCapacity
<1>2. TypeOK /\ [Next]_vars => TypeOK'
  BY TypeStep
<1> QED BY <1>1, <1>2, PTL DEF Spec

-----------------------------------------------------------------------------
(***************************************************************************)
(* Run is past its two receives only when both components have returned.   *)
(***************************************************************************)
BothReturned ==
  /\ main = "load" => server = "off" /\ client = "off" /\ consumers = "none"
  /\ main \in {"second", "stop", "stopping"} =>
       server = "returned" /\ client = "returned"
  /\ NothingOutlivesRun

LEMMA BothReturnedStep ==
  ASSUME BothReturned, [Next]_vars
  PROVE  BothReturned'
<1>1. CASE Signal \/ Restore \/ SecondSignal \/
            \E problem \in Error : StartFails(problem)
  BY <1>1 DEF Signal, Restore, SecondSignal, StartFails, process, http, mqtt,
      BothReturned, NothingOutlivesRun, alive
<1>2. CASE StartComponents \/ FirstReturns \/ Wait \/ SecondReturns \/
    StopRouter \/ RunReturns
  BY <1>2 DEF StartComponents, FirstReturns, Wait, SecondReturns, StopRouter,
      RunReturns, process, http, mqtt, BothReturned, NothingOutlivesRun, alive
<1>3. CASE ConsumersReturn
  BY <1>3 DEF ConsumersReturn, process, http, mqtt, BothReturned,
      NothingOutlivesRun, alive
<1>4. CASE ListenFails \/ Listens \/ ListenerCloses \/ RequestBegins \/
    RequestEnds
  BY <1>4 DEF ListenFails, Listens, ListenerCloses, RequestBegins,
      RequestEnds, process, http, mqtt, BothReturned, NothingOutlivesRun,
      alive
<1>5. CASE ServeHears \/ ServeEnds \/ ShutdownDone \/ ShutdownTimesOut \/
    ServerReports
  BY <1>5 DEF ServeHears, ServeEnds, ShutdownDone, ShutdownTimesOut,
      ServerReports, process, http, mqtt, BothReturned, NothingOutlivesRun,
      alive
<1>6. CASE DialFails \/ Dials \/ ClientEnds \/ Disconnected \/ ClientReports
  BY <1>6 DEF DialFails, Dials, ClientEnds, Disconnected, ClientReports,
      process, http, mqtt, BothReturned, NothingOutlivesRun, alive
<1>7. CASE UNCHANGED vars
  BY <1>7 DEF vars, process, http, mqtt, BothReturned, NothingOutlivesRun,
      alive
<1> QED BY <1>1, <1>2, <1>3, <1>4, <1>5, <1>6, <1>7
        DEF Next, MainStep, ListenerStep, ServerStep, ClientStep

(***************************************************************************)
(* When Run has returned, the server, the client and the consumers have.   *)
(***************************************************************************)
THEOREM RunIsLast == Spec => []NothingOutlivesRun
<1>1. Init => BothReturned
  BY DEF Init, BothReturned, NothingOutlivesRun
<1>2. BothReturned /\ [Next]_vars => BothReturned'
  BY BothReturnedStep
<1>3. BothReturned => NothingOutlivesRun
  BY DEF BothReturned
<1> QED BY <1>1, <1>2, <1>3, PTL DEF Spec

-----------------------------------------------------------------------------
(***************************************************************************)
(* A component returns no error only when its context has ended, and until *)
(* Run has received a result only a signal ends it.                        *)
(***************************************************************************)
NilNeedsEnd ==
  /\ server = "shutdown" => componentsDone
  /\ server \in {"report", "returned"} /\ served # "listen" => componentsDone
  /\ server \in {"off", "select"} => \A i \in DOMAIN heard : heard[i] #
      NoError
  /\ client = "disconnecting" => componentsDone
  /\ client \in {"report", "returned"} /\ dialled = NoError => componentsDone
  /\ \A i \in DOMAIN errs : errs[i] = NoError => componentsDone

SuccessNeedsSignal ==
  /\ ~caught => signalled
  /\ main \in {"load", "first"} => ~cancelled
  /\ main \notin {"load", "first"} /\ err = NoError => signalled

LEMMA NilStep ==
  ASSUME TypeOK, BothReturned, NilNeedsEnd, [Next]_vars
  PROVE  NilNeedsEnd'
<1> USE DEF TypeOK, BothReturned, NilNeedsEnd, componentsDone, shutDown,
    alive, NoError
<1>1. CASE Signal \/ Restore \/ SecondSignal \/
            \E problem \in Error : StartFails(problem)
  BY <1>1 DEF Signal, Restore, SecondSignal, StartFails, process, http, mqtt
<1>2. CASE StartComponents \/ FirstReturns \/ Wait \/ SecondReturns \/
    StopRouter \/ RunReturns
  <2>1. CASE StartComponents
    BY <2>1 DEF StartComponents, process, http, mqtt
  <2>2. CASE FirstReturns
    BY <2>2 DEF FirstReturns, process, http, mqtt
  <2>3. CASE Wait
    BY <2>3 DEF Wait, process, http, mqtt
  <2>4. CASE SecondReturns
    BY <2>4 DEF SecondReturns, process, http, mqtt
  <2>5. CASE StopRouter
    BY <2>5 DEF StopRouter, process, http, mqtt
  <2>6. CASE RunReturns
    BY <2>6 DEF RunReturns, process, http, mqtt
  <2> QED BY <1>2, <2>1, <2>2, <2>3, <2>4, <2>5, <2>6
<1>3. CASE ConsumersReturn
  BY <1>3 DEF ConsumersReturn, process, http, mqtt
<1>4. CASE ListenFails \/ Listens \/ ListenerCloses \/ RequestBegins \/
    RequestEnds
  BY <1>4 DEF ListenFails, Listens, ListenerCloses, RequestBegins,
      RequestEnds, process, http, mqtt
<1>5. CASE ServeHears \/ ServeEnds \/ ShutdownDone \/ ShutdownTimesOut \/
    ServerReports
  <2>1. CASE ServeHears
    BY <2>1 DEF ServeHears, process, http, mqtt
  <2>2. CASE ServeEnds
    BY <2>2 DEF ServeEnds, process, http, mqtt
  <2>3. CASE ShutdownDone
    BY <2>3 DEF ShutdownDone, process, http, mqtt
  <2>4. CASE ShutdownTimesOut
    BY <2>4 DEF ShutdownTimesOut, process, http, mqtt
  <2>5. CASE ServerReports
    BY <2>5 DEF ServerReports, process, http, mqtt
  <2> QED BY <1>5, <2>1, <2>2, <2>3, <2>4, <2>5
<1>6. CASE DialFails \/ Dials \/ ClientEnds \/ Disconnected \/ ClientReports
  <2>1. CASE DialFails
    BY <2>1 DEF DialFails, process, http, mqtt
  <2>2. CASE Dials
    BY <2>2 DEF Dials, process, http, mqtt
  <2>3. CASE ClientEnds
    BY <2>3 DEF ClientEnds, process, http, mqtt
  <2>4. CASE Disconnected
    BY <2>4 DEF Disconnected, process, http, mqtt
  <2>5. CASE ClientReports
    BY <2>5 DEF ClientReports, process, http, mqtt
  <2> QED BY <1>6, <2>1, <2>2, <2>3, <2>4, <2>5
<1>7. CASE UNCHANGED vars
  BY <1>7 DEF vars, process, http, mqtt
<1> QED BY <1>1, <1>2, <1>3, <1>4, <1>5, <1>6, <1>7
        DEF Next, MainStep, ListenerStep, ServerStep, ClientStep

LEMMA SignalStep ==
  ASSUME TypeOK, NilNeedsEnd, SuccessNeedsSignal, [Next]_vars
  PROVE  SuccessNeedsSignal'
<1>0. /\ errs # <<>> => Head(errs) = errs[1] /\ 1 \in DOMAIN errs
      /\ main = "first" /\ errs # <<>> /\ Head(errs) = NoError => signalled
  BY DEF TypeOK, NilNeedsEnd, SuccessNeedsSignal, componentsDone
<1>1. CASE Signal \/ Restore \/ SecondSignal \/
            \E problem \in Error : StartFails(problem)
  BY <1>1, <1>0 DEF Signal, Restore, SecondSignal, StartFails, process, http,
      mqtt, SuccessNeedsSignal, alive, Error, NoError
<1>2. CASE StartComponents \/ FirstReturns \/ Wait \/ SecondReturns \/
    StopRouter \/ RunReturns
  BY <1>2, <1>0 DEF StartComponents, FirstReturns, Wait, SecondReturns,
      StopRouter, RunReturns, process, http, mqtt, SuccessNeedsSignal, alive,
      Error, NoError
<1>3. CASE ConsumersReturn
  BY <1>3, <1>0 DEF ConsumersReturn, process, http, mqtt, SuccessNeedsSignal,
      alive, Error, NoError
<1>4. CASE ListenFails \/ Listens \/ ListenerCloses \/ RequestBegins \/
    RequestEnds
  BY <1>4, <1>0 DEF ListenFails, Listens, ListenerCloses, RequestBegins,
      RequestEnds, process, http, mqtt, SuccessNeedsSignal, alive, Error,
      NoError
<1>5. CASE ServeHears \/ ServeEnds \/ ShutdownDone \/ ShutdownTimesOut \/
    ServerReports
  BY <1>5, <1>0 DEF ServeHears, ServeEnds, ShutdownDone, ShutdownTimesOut,
      ServerReports, process, http, mqtt, SuccessNeedsSignal, alive, Error,
      NoError
<1>6. CASE DialFails \/ Dials \/ ClientEnds \/ Disconnected \/ ClientReports
  BY <1>6, <1>0 DEF DialFails, Dials, ClientEnds, Disconnected, ClientReports,
      process, http, mqtt, SuccessNeedsSignal, alive, Error, NoError
<1>7. CASE UNCHANGED vars
  BY <1>7 DEF vars, process, http, mqtt, SuccessNeedsSignal, alive, Error,
      NoError
<1> QED BY <1>1, <1>2, <1>3, <1>4, <1>5, <1>6, <1>7
        DEF Next, MainStep, ListenerStep, ServerStep, ClientStep

(***************************************************************************)
(* Exit code 0 means that the process was told to end.                     *)
(***************************************************************************)
THEOREM SuccessIsSignalled == Spec => []ZeroOnlyOnSignal
<1>1. Init => BothReturned /\ NilNeedsEnd /\ SuccessNeedsSignal
  BY DEF Init, BothReturned, NothingOutlivesRun, NilNeedsEnd,
      SuccessNeedsSignal, NoError
<1>2. TypeOK /\ BothReturned /\ NilNeedsEnd /\ [Next]_vars => NilNeedsEnd'
  BY NilStep
<1>3. TypeOK /\ NilNeedsEnd /\ SuccessNeedsSignal /\ [Next]_vars
        => SuccessNeedsSignal'
  BY SignalStep
<1>4. SuccessNeedsSignal => ZeroOnlyOnSignal
  BY DEF SuccessNeedsSignal, ZeroOnlyOnSignal, exitCode
<1>5. BothReturned /\ [Next]_vars => BothReturned'
  BY BothReturnedStep
<1> QED BY <1>1, <1>2, <1>3, <1>4, <1>5, TypeCorrect, PTL DEF Spec

-----------------------------------------------------------------------------
(***************************************************************************)
(* Every result is received once: a component that has returned has left   *)
(* its result in errs until Run takes it.                                  *)
(***************************************************************************)
Returned(c) == IF c = "returned" THEN 1 ELSE 0

ResultsAreReceived ==
  /\ main \in {"load", "first"} =>
       err = NoError /\ Len(errs) = Returned(server) + Returned(client)
  /\ main \in {"wait", "second"} =>
       Len(errs) + 1 = Returned(server) + Returned(client)
  /\ main \in {"stop", "stopping"} => errs = <<>>

(***************************************************************************)
(* A server that was shut down without an error has no request left, and   *)
(* an error of the server reaches Run.                                     *)
(***************************************************************************)
ServerErrorCounts ==
  /\ server \in {"report", "returned"} /\ served = NoError => requests = 0
  /\ server = "returned" /\ served # NoError
     /\ main \notin {"exited", "killed"} =>
       err # NoError \/ \E i \in DOMAIN errs : errs[i] # NoError

LEMMA ResultsStep ==
  ASSUME TypeOK, BothReturned, ResultsAreReceived, [Next]_vars
  PROVE  ResultsAreReceived'
<1> USE DEF TypeOK, BothReturned, ResultsAreReceived, Returned, alive
<1>1. CASE Signal \/ Restore \/ SecondSignal \/
            \E problem \in Error : StartFails(problem)
  BY <1>1 DEF Signal, Restore, SecondSignal, StartFails, process, http, mqtt
<1>2. CASE StartComponents \/ FirstReturns \/ Wait \/ SecondReturns \/
    StopRouter \/ RunReturns
  BY <1>2 DEF StartComponents, FirstReturns, Wait, SecondReturns, StopRouter,
      RunReturns, process, http, mqtt
<1>3. CASE ConsumersReturn
  BY <1>3 DEF ConsumersReturn, process, http, mqtt
<1>4. CASE ListenFails \/ Listens \/ ListenerCloses \/ RequestBegins \/
    RequestEnds
  BY <1>4 DEF ListenFails, Listens, ListenerCloses, RequestBegins,
      RequestEnds, process, http, mqtt
<1>5. CASE ServeHears \/ ServeEnds \/ ShutdownDone \/ ShutdownTimesOut
  BY <1>5 DEF ServeHears, ServeEnds, ShutdownDone, ShutdownTimesOut, process,
      http, mqtt
<1>6. CASE ServerReports
  <2>1. /\ errs' = Append(errs, served) /\ server = "report" /\ server' = "returned"
        /\ main' = main /\ err' = err /\ client' = client
    BY <1>6 DEF ServerReports, process, http, mqtt
  <2>2. Len(errs') = Len(errs) + 1
    <3>1. errs \in Seq(Result) /\ served \in Result /\ dialled \in Result
      BY DEF Result, Error, NoError
    <3> QED BY <2>1, <3>1, AppendLength
  <2>3. Returned(server) = 0 /\ Returned(server') = 1 /\ Len(errs) \in Nat
    BY <2>1
  <2>4. main \notin {"stop", "stopping"}
    BY <2>1
  <2>5. Returned(client) \in Nat
    OBVIOUS
  <2> HIDE DEF Returned, TypeOK, BothReturned
  <2> QED BY <2>1, <2>2, <2>3, <2>4, <2>5
<1>7. CASE DialFails \/ Dials \/ ClientEnds \/ Disconnected
  BY <1>7 DEF DialFails, Dials, ClientEnds, Disconnected, process, http, mqtt
<1>8. CASE ClientReports
  <2>1. /\ errs' = Append(errs, dialled) /\ client = "report" /\ client' = "returned"
        /\ main' = main /\ err' = err /\ server' = server
    BY <1>8 DEF ClientReports, process, http, mqtt
  <2>2. Len(errs') = Len(errs) + 1
    <3>1. errs \in Seq(Result) /\ served \in Result /\ dialled \in Result
      BY DEF Result, Error, NoError
    <3> QED BY <2>1, <3>1, AppendLength
  <2>3. Returned(client) = 0 /\ Returned(client') = 1 /\ Len(errs) \in Nat
    BY <2>1
  <2>4. main \notin {"stop", "stopping"}
    BY <2>1
  <2>5. Returned(server) \in Nat
    OBVIOUS
  <2> HIDE DEF Returned, TypeOK, BothReturned
  <2> QED BY <2>1, <2>2, <2>3, <2>4, <2>5
<1>9. CASE UNCHANGED vars
  BY <1>9 DEF vars, process, http, mqtt
<1> QED BY <1>1, <1>2, <1>3, <1>4, <1>5, <1>6, <1>7, <1>8, <1>9
        DEF Next, MainStep, ListenerStep, ServerStep, ClientStep

LEMMA OneResultLeft ==
  ASSUME TypeOK, BothReturned, ResultsAreReceived, main = "second"
  PROVE  Len(errs) = 1
<1>1. errs \in Seq(Result) /\ Len(errs) + 1 = Returned(server) + Returned(client)
  BY DEF TypeOK, ResultsAreReceived
<1>2. server = "returned" /\ client = "returned"
  BY DEF BothReturned
<1>3. Returned(server) + Returned(client) = 2
  BY <1>2 DEF Returned
<1>4. Len(errs) + 1 = 2
  BY <1>1, <1>3
<1>5. Len(errs) \in Nat
  BY <1>1
<1> QED BY <1>4, <1>5

LEMMA ServerErrorStep ==
  ASSUME TypeOK, BothReturned, NilNeedsEnd, ResultsAreReceived,
      ServerErrorCounts,
         [Next]_vars
  PROVE  ServerErrorCounts'
<1> USE DEF TypeOK, BothReturned, ResultsAreReceived, ServerErrorCounts, alive
<1>1. CASE Signal \/ Restore \/ SecondSignal \/
            \E problem \in Error : StartFails(problem)
  BY <1>1 DEF Signal, Restore, SecondSignal, StartFails, process, http, mqtt
<1>2. CASE Wait \/ StopRouter \/ RunReturns
  BY <1>2 DEF Wait, StopRouter, RunReturns, process, http, mqtt
<1>3. CASE StartComponents
  BY <1>3 DEF StartComponents, process, http, mqtt
<1>4. CASE FirstReturns
  <2>1. errs # <<>> /\ err' = Head(errs) /\ errs' = Tail(errs) /\ UNCHANGED
      <<server, served, requests>>
    BY <1>4 DEF FirstReturns, http
  <2>2. ASSUME NEW i \in DOMAIN errs, errs[i] # NoError
        PROVE  err' # NoError \/ \E j \in DOMAIN errs' : errs'[j] # NoError
    <3>1. CASE i = 1
      BY <2>1, <2>2, <3>1
    <3>2. CASE i # 1
      <4>1. i - 1 \in DOMAIN errs' /\ errs'[i - 1] = errs[i]
        BY <2>1, <3>2
      <4> QED BY <2>2, <4>1
    <3> QED BY <3>1, <3>2
  <2>3. err = NoError
    BY <1>4 DEF FirstReturns
  <2> QED BY <2>1, <2>2, <2>3, <1>4 DEF FirstReturns
<1>5. CASE SecondReturns
  <2>1. /\ errs # <<>> /\ err' = (IF err = NoError THEN Head(errs) ELSE err)
        /\ UNCHANGED <<server, served, requests>>
    BY <1>5 DEF SecondReturns, http
  <2>2. Len(errs) = 1
    <3>1. main = "second"
      BY <1>5 DEF SecondReturns
    <3> QED BY <3>1, OneResultLeft
  <2>3. ASSUME NEW i \in DOMAIN errs, errs[i] # NoError
        PROVE  err' # NoError
    BY <2>1, <2>2, <2>3
  <2> QED BY <2>1, <2>3, <1>5 DEF SecondReturns
<1>6. CASE ConsumersReturn
  BY <1>6 DEF ConsumersReturn, process, http, mqtt
<1>7. CASE ListenFails \/ Listens \/ ListenerCloses \/ RequestEnds
  BY <1>7 DEF ListenFails, Listens, ListenerCloses, RequestEnds, process,
      http, mqtt
<1>8. CASE RequestBegins
  BY <1>8 DEF RequestBegins, process, http, mqtt, shutDown, NoError
<1>9. CASE ServeEnds \/ ServerReports
  <2>1. CASE ServeEnds
    BY <2>1 DEF ServeEnds, process, http, mqtt
  <2>2. CASE ServerReports
    <3>1. /\ server = "report" /\ server' = "returned"
          /\ errs' = Append(errs, served)
          /\ UNCHANGED <<main, err, served, requests>>
      BY <2>2 DEF ServerReports, process
    <3>2. Len(errs) + 1 \in DOMAIN errs' /\ errs'[Len(errs) + 1] = served
      BY <3>1 DEF Result, Error
    <3> HIDE DEF TypeOK, BothReturned, ResultsAreReceived
    <3> QED BY <3>1, <3>2
  <2> QED BY <1>9, <2>1, <2>2
<1>10. CASE ServeHears
  BY <1>10 DEF ServeHears, process, http, mqtt, NilNeedsEnd
<1>11. CASE ShutdownDone
  BY <1>11 DEF ShutdownDone, process, http, mqtt, NoError
<1>12. CASE ShutdownTimesOut
  BY <1>12 DEF ShutdownTimesOut, process, http, mqtt, NoError
<1>13. CASE DialFails \/ Dials \/ ClientEnds \/ Disconnected \/ ClientReports
  <2>1. CASE DialFails
    BY <2>1 DEF DialFails, process, http, mqtt
  <2>2. CASE Dials
    BY <2>2 DEF Dials, process, http, mqtt
  <2>3. CASE ClientEnds
    BY <2>3 DEF ClientEnds, process, http, mqtt
  <2>4. CASE Disconnected
    BY <2>4 DEF Disconnected, process, http, mqtt
  <2>5. CASE ClientReports
    <3>1. /\ errs' = Append(errs, dialled)
          /\ UNCHANGED <<main, err, server, served, requests>>
      BY <2>5 DEF ClientReports, process, http
    <3>2. ASSUME NEW i \in DOMAIN errs, errs[i] # NoError
          PROVE  i \in DOMAIN errs' /\ errs'[i] # NoError
      BY <3>1, <3>2 DEF Result, Error
    <3>3. (\E i \in DOMAIN errs : errs[i] # NoError) =>
            \E i \in DOMAIN errs' : errs'[i] # NoError
      BY <3>2
    <3> HIDE DEF TypeOK, BothReturned, ResultsAreReceived
    <3> QED BY <3>1, <3>3
  <2> QED BY <1>13, <2>1, <2>2, <2>3, <2>4, <2>5
<1>14. CASE UNCHANGED vars
  BY <1>14 DEF vars, process, http, mqtt
<1> QED BY <1>1, <1>2, <1>3, <1>4, <1>5, <1>6, <1>7, <1>8, <1>9, <1>10, <1>11,
    <1>12, <1>13, <1>14
        DEF Next, MainStep, ListenerStep, ServerStep, ClientStep

(***************************************************************************)
(* Nothing happens after the process has exited, and it exits in two ways. *)
(***************************************************************************)
LEMMA ExitedStands ==
  ASSUME main = "exited", [Next]_vars
  PROVE  UNCHANGED vars
  BY DEF Next, MainStep, ListenerStep, ServerStep, ClientStep, Signal,
         Restore, SecondSignal, StartFails, StartComponents, FirstReturns,
         Wait, SecondReturns, StopRouter, RunReturns, ConsumersReturn,
         ListenFails, Listens, ListenerCloses, RequestBegins, RequestEnds,
         ServeHears, ServeEnds, ShutdownDone, ShutdownTimesOut, ServerReports,
         DialFails, Dials, ClientEnds, Disconnected, ClientReports, alive,
         vars, process

LEMMA ExitSteps ==
  ASSUME main # "exited", main' = "exited", [Next]_vars
  PROVE  RunReturns \/ \E problem \in Error : StartFails(problem)
  BY DEF Next, MainStep, ListenerStep, ServerStep, ClientStep, Signal,
         Restore, SecondSignal, StartFails, StartComponents, FirstReturns,
         Wait, SecondReturns, StopRouter, RunReturns, ConsumersReturn,
         ListenFails, Listens, ListenerCloses, RequestBegins, RequestEnds,
         ServeHears, ServeEnds, ShutdownDone, ShutdownTimesOut, ServerReports,
         DialFails, Dials, ClientEnds, Disconnected, ClientReports, alive,
         vars, process

(***************************************************************************)
(* At the end of Run the server has returned and its result been received. *)
(***************************************************************************)
LEMMA ServedStep ==
  ASSUME TypeOK, BothReturned, ResultsAreReceived, ServerErrorCounts,
         ZeroOnlyWhenServed, [Next]_vars
  PROVE  ZeroOnlyWhenServed'
<1> SUFFICES ASSUME main' = "exited", err' = NoError
             PROVE  requests' = 0
  BY DEF ZeroOnlyWhenServed, exitCode
<1>1. CASE main = "exited"
  <2>1. UNCHANGED vars
    BY <1>1, ExitedStands
  <2> QED BY <1>1, <2>1 DEF vars, process, http, ZeroOnlyWhenServed, exitCode
<1>2. CASE main # "exited"
  <2>1. RunReturns \/ \E problem \in Error : StartFails(problem)
    BY <1>2, ExitSteps
  <2>2. ~(\E problem \in Error : StartFails(problem))
    BY DEF StartFails, NoError
  <2>3. main = "stopping" /\ err = NoError /\ requests' = requests
    BY <2>1, <2>2 DEF RunReturns, http
  <2>4. server = "returned" /\ errs = <<>>
    BY <2>3 DEF BothReturned, ResultsAreReceived
  <2> QED BY <2>3, <2>4 DEF ServerErrorCounts
<1> QED BY <1>1, <1>2

(***************************************************************************)
(* Exit code 0 means that no open request was cut off.                     *)
(***************************************************************************)
THEOREM SuccessIsServed == Spec => []ZeroOnlyWhenServed
<1> DEFINE Inv == ResultsAreReceived /\ ServerErrorCounts /\ ZeroOnlyWhenServed
<1>1. Init => BothReturned /\ NilNeedsEnd /\ Inv
  <2>1. Init => BothReturned /\ NilNeedsEnd
    BY DEF Init, BothReturned, NothingOutlivesRun, NilNeedsEnd, NoError
  <2>2. Init => Inv
    BY DEF Init, ResultsAreReceived, Returned, ServerErrorCounts, ZeroOnlyWhenServed
  <2> QED BY <2>1, <2>2
<1>2. TypeOK /\ BothReturned /\ [Next]_vars => BothReturned'
  BY BothReturnedStep
<1>3. TypeOK /\ BothReturned /\ NilNeedsEnd /\ [Next]_vars => NilNeedsEnd'
  BY NilStep
<1>4. TypeOK /\ BothReturned /\ NilNeedsEnd /\ Inv /\ [Next]_vars => Inv'
  BY ResultsStep, ServerErrorStep, ServedStep
<1> QED BY <1>1, <1>2, <1>3, <1>4, TypeCorrect, PTL DEF Spec

(***************************************************************************)
(* Together: exit code 0 means that an end was asked for, and that nobody  *)
(* was left without an answer.                                             *)
(***************************************************************************)
THEOREM SuccessMeansWell == Spec => []ZeroMeansWell
<1>1. ZeroOnlyOnSignal /\ ZeroOnlyWhenServed => ZeroMeansWell
  BY DEF ZeroMeansWell
<1> QED BY <1>1, SuccessIsSignalled, SuccessIsServed, PTL

-----------------------------------------------------------------------------
(***************************************************************************)
(* What errs holds is the end of reports; what Run has taken from it is    *)
(* the beginning: one result in err, and at last both.                     *)
(***************************************************************************)
ErrIsFirst ==
  \/ err = NoError /\ \A i \in DOMAIN reports : reports[i] = NoError
  \/ \E i \in DOMAIN reports : firstFailed(i) /\ err = reports[i]

ErrsAreReports ==
  /\ main \in {"load", "first"} => errs = reports
  /\ main \in {"wait", "second"} =>
       /\ Len(reports) = Len(errs) + 1 /\ reports[1] = err
       /\ \A i \in DOMAIN errs : reports[i + 1] = errs[i]
  /\ main \in {"stop", "stopping"} => ErrIsFirst
  /\ FirstFailureWins

LEMMA AppendKeeps ==
  ASSUME NEW S, NEW s \in Seq(S), NEW e \in S
  PROVE  /\ Append(s, e) \in Seq(S) /\ Len(Append(s, e)) = Len(s) + 1
         /\ Append(s, e)[Len(s) + 1] = e
         /\ \A i \in DOMAIN s : Append(s, e)[i] = s[i]
         /\ DOMAIN Append(s, e) = 1 .. Len(s) + 1
  OBVIOUS

(***************************************************************************)
(* A component reports: errs and reports grow alike.                       *)
(***************************************************************************)
LEMMA ReportKeeps ==
  ASSUME TypeOK, BothReturned, ErrsAreReports, NEW r \in Result,
         alive, server # "returned" \/ client # "returned", UNCHANGED <<main, err>>,
         errs' = Append(errs, r), reports' = Append(reports, r)
  PROVE  ErrsAreReports'
<1>1. main \notin {"second", "stop", "stopping", "exited"}
  BY DEF BothReturned, alive
<1>2. errs \in Seq(Result) /\ reports \in Seq(Result)
  BY DEF TypeOK
<1>3. CASE main = "wait"
  <2>1. /\ Len(reports) = Len(errs) + 1 /\ reports[1] = err
        /\ \A i \in DOMAIN errs : reports[i + 1] = errs[i]
    BY <1>3 DEF ErrsAreReports
  <2>2. Len(reports') = Len(errs') + 1 /\ reports'[1] = err'
    BY <1>2, <2>1, AppendKeeps
  <2>3. ASSUME NEW i \in DOMAIN errs'
        PROVE  reports'[i + 1] = errs'[i]
    <3>1. CASE i = Len(errs) + 1
      BY <1>2, <2>1, <3>1, AppendKeeps
    <3>2. CASE i # Len(errs) + 1
      <4>1. i \in DOMAIN errs /\ i + 1 \in DOMAIN reports
        BY <1>2, <2>1, <2>3, <3>2, AppendKeeps
      <4> QED BY <1>2, <2>1, <4>1, AppendKeeps
    <3> QED BY <3>1, <3>2
  <2> QED BY <1>3, <2>2, <2>3 DEF ErrsAreReports, FirstFailureWins
<1>4. CASE main \in {"load", "first"}
  BY <1>4 DEF ErrsAreReports, FirstFailureWins
<1>5. CASE main = "killed"
  BY <1>5 DEF ErrsAreReports, FirstFailureWins
<1> QED BY <1>1, <1>3, <1>4, <1>5 DEF TypeOK

(***************************************************************************)
(* Run takes the first result, and the second one.                         *)
(***************************************************************************)
LEMMA FirstTaken ==
  ASSUME TypeOK, ErrsAreReports, FirstReturns
  PROVE  ErrsAreReports'
<1>1. /\ errs = reports /\ errs # <<>> /\ main' = "wait" /\ reports' = reports
      /\ err' = Head(errs) /\ errs' = Tail(errs)
  BY DEF FirstReturns, ErrsAreReports
<1>2. errs \in Seq(Result)
  BY DEF TypeOK
<1>3. /\ Len(reports') = Len(errs') + 1 /\ reports'[1] = err'
      /\ \A i \in DOMAIN errs' : reports'[i + 1] = errs'[i]
  BY <1>1, <1>2
<1> QED BY <1>1, <1>3 DEF ErrsAreReports, FirstFailureWins

LEMMA SecondTaken ==
  ASSUME TypeOK, BothReturned, ResultsAreReceived, ErrsAreReports, SecondReturns
  PROVE  ErrsAreReports'
<1>1. /\ main = "second" /\ main' = "stop" /\ reports' = reports
      /\ err' = IF err = NoError THEN Head(errs) ELSE err
  BY DEF SecondReturns
<1>2. /\ Len(reports) = 2 /\ reports[1] = err /\ reports[2] = Head(errs)
      /\ DOMAIN reports = {1, 2}
  <2>1. errs \in Seq(Result) /\ reports \in Seq(Result) /\ Len(errs) = 1
    BY <1>1, OneResultLeft DEF TypeOK
  <2>2. /\ Len(reports) = Len(errs) + 1 /\ reports[1] = err
        /\ \A i \in DOMAIN errs : reports[i + 1] = errs[i]
    BY <1>1 DEF ErrsAreReports
  <2>3. reports[1 + 1] = errs[1]
    BY <2>1, <2>2
  <2> QED BY <2>1, <2>2, <2>3
<1>3. CASE err # NoError
  <2>1. firstFailed(1) /\ 1 \in DOMAIN reports /\ err' = reports[1]
    BY <1>1, <1>2, <1>3 DEF firstFailed
  <2>2. ErrIsFirst'
    BY <1>1, <2>1 DEF ErrIsFirst, firstFailed
  <2> QED BY <1>1, <2>2 DEF ErrsAreReports, FirstFailureWins
<1>4. CASE err = NoError /\ Head(errs) # NoError
  <2>1. firstFailed(2) /\ 2 \in DOMAIN reports /\ err' = reports[2]
    BY <1>1, <1>2, <1>4 DEF firstFailed
  <2>2. ErrIsFirst'
    BY <1>1, <2>1 DEF ErrIsFirst, firstFailed
  <2> QED BY <1>1, <2>2 DEF ErrsAreReports, FirstFailureWins
<1>5. CASE err = NoError /\ Head(errs) = NoError
  <2>1. ErrIsFirst'
    BY <1>1, <1>2, <1>5 DEF ErrIsFirst
  <2> QED BY <1>1, <2>1 DEF ErrsAreReports, FirstFailureWins
<1> QED BY <1>3, <1>4, <1>5

LEMMA ErrsStep ==
  ASSUME TypeOK, BothReturned, ResultsAreReceived, ErrsAreReports, [Next]_vars
  PROVE  ErrsAreReports'
<1>1. CASE UNCHANGED <<main, err, errs, reports, client>>
  BY <1>1 DEF ErrsAreReports, ErrIsFirst, FirstFailureWins, firstFailed
<1>2. CASE StartComponents \/ Wait \/ SecondSignal \/ StopRouter
  BY <1>2 DEF StartComponents, Wait, SecondSignal, StopRouter, mqtt,
              ErrsAreReports, ErrIsFirst, FirstFailureWins, firstFailed, alive
<1>3. ASSUME NEW problem \in Error, StartFails(problem)
      PROVE  ErrsAreReports'
  BY <1>3 DEF StartFails, mqtt, BothReturned, ErrsAreReports, FirstFailureWins
<1>4. CASE RunReturns
  BY <1>4 DEF RunReturns, mqtt, ErrsAreReports, ErrIsFirst, FirstFailureWins, firstFailed
<1>5. CASE FirstReturns \/ SecondReturns
  BY <1>5, FirstTaken, SecondTaken
<1>6. CASE ServerReports
  <2>1. served \in Result
    BY DEF TypeOK, Result, Error
  <2> QED BY <1>6, <2>1, ReportKeeps DEF ServerReports, process
<1>7. CASE ClientReports
  <2>1. dialled \in Result
    BY DEF TypeOK, Result, Error
  <2> QED BY <1>7, <2>1, ReportKeeps DEF ClientReports, process
<1>8. CASE DialFails \/ Dials \/ ClientEnds \/ Disconnected
  BY <1>8 DEF DialFails, Dials, ClientEnds, Disconnected, process, alive,
              ErrsAreReports, ErrIsFirst, FirstFailureWins, firstFailed
<1>9. CASE Signal \/ Restore \/ ConsumersReturn
  BY <1>1, <1>9 DEF Signal, Restore, ConsumersReturn, process, mqtt
<1>10. CASE ListenFails \/ Listens \/ ListenerCloses \/ RequestBegins \/ RequestEnds
  BY <1>1, <1>10 DEF ListenFails, Listens, ListenerCloses, RequestBegins, RequestEnds,
                     process, mqtt
<1>11. CASE ServeHears \/ ServeEnds \/ ShutdownDone \/ ShutdownTimesOut
  BY <1>1, <1>11 DEF ServeHears, ServeEnds, ShutdownDone, ShutdownTimesOut, process, mqtt
<1>12. CASE UNCHANGED vars
  BY <1>1, <1>12 DEF vars, process, mqtt
<1> QED BY <1>2, <1>3, <1>4, <1>5, <1>6, <1>7, <1>8, <1>9, <1>10, <1>11, <1>12
        DEF Next, MainStep, ListenerStep, ServerStep, ClientStep

(***************************************************************************)
(* Run returns the error of the component that failed first, whatever the  *)
(* other one returns when it is cancelled.                                 *)
(***************************************************************************)
THEOREM FirstFailureReturned == Spec => []FirstFailureWins
<1>1. Init => BothReturned /\ ResultsAreReceived /\ ErrsAreReports
  BY DEF Init, BothReturned, NothingOutlivesRun, ResultsAreReceived, Returned,
         ErrsAreReports, FirstFailureWins
<1>2. ErrsAreReports => FirstFailureWins
  BY DEF ErrsAreReports
<1> QED BY <1>1, <1>2, TypeCorrect, BothReturnedStep, ResultsStep, ErrsStep, PTL DEF Spec
=============================================================================
