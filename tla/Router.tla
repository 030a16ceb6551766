------------------------------- MODULE Router -------------------------------
(***************************************************************************)
(* internal/app/router.go and internal/app/source.go: the way of a message *)
(* from the MQTT client to the sample store.                               *)
(*                                                                         *)
(* The goroutines: the one paho calls back (Dispatch), one consumer per    *)
(* source (consume, handle, apply), and the one that runs App.Run (Start,  *)
(* Stop).  They share the feeds under Router.mu, a read-write mutex, the   *)
(* buffered channel of each feed, the store, whose methods are atomic, and *)
(* the counters.  What a rule makes of a message is a function of the two  *)
(* and is a constant here; topics and payloads are not taken apart.        *)
(***************************************************************************)
EXTENDS Series, Sequences, FiniteSets

CONSTANTS
  Source,         \* names of the sources
  SourceList,     \* the sources in the order of their feeds
  Metric,         \* metric names
  Labels,         \* label sets, functions from label names to values
  NoLabels,       \* Go's nil map
  Message,        \* messages, as far as sources and rules tell them apart
  Owned,          \* Owned[s]: the messages whose topic has the prefix of s
  Rules,          \* Rules[s]: the compiled rules of s, in order
  Apply,          \* Apply[s][k][m]: what the k-th rule of s makes of m
  SourceBeat,     \* source.lastUpdatedMetric, NoMetric when there is none
  Resolve,        \* Resolve[s][m]: the source's labels for m
  HeartbeatHelp,  \* config.HeartbeatHelp
  sourceBuffer,   \* capacity of a feed's channel
  MaxArrivals     \* bound: messages the broker delivers

NoMetric == ""
NoError  == "nil"
Error    == {"ErrBadJSON", "ErrRegexNoMatch", "ErrNotNumeric", "ErrNotALabel"}
Reason   == {"json", "regex", "not_numeric", "other"}
Rule     == [metric : Metric, kind : Kind, help : Help, beat : Metric \cup {NoMetric}]
Outcome  == [hit : BOOLEAN, err : Error \cup {NoError},
             labels : Labels \cup {NoLabels}, value : Float]
Resolved == [err : Error \cup {NoError}, present : BOOLEAN, labels : Labels]

ASSUME RouterAssumption ==
  /\ SourceList \in Seq(Source)
  /\ \A i, j \in DOMAIN SourceList : SourceList[i] = SourceList[j] => i = j
  /\ Source = {SourceList[i] : i \in DOMAIN SourceList}
  /\ NoMetric \notin Metric
  /\ NoLabels \notin Labels
  /\ Owned \in [Source -> SUBSET Message]
  /\ Rules \in [Source -> Seq(Rule)]
  /\ \A s \in Source : Apply[s] \in [DOMAIN Rules[s] -> [Message -> Outcome]]
  /\ SourceBeat \in [Source -> Metric \cup {NoMetric}]
  /\ Resolve \in [Source -> [Message -> Resolved]]
  /\ HeartbeatHelp \in Help
  /\ sourceBuffer \in Nat \ {0}
  /\ MaxArrivals \in Nat

Id == Metric \X Labels

VARIABLES
  life,       \* how far Start and Stop have come
  ctxDone,    \* the context given to Start is done
  feeds,      \* Router.feeds, by the name of their source
  chan,       \* the messages in the channel of each feed
  call,       \* the Dispatch under way
  worker,     \* the consumer of each source
  series,     \* Store.series
  clock,      \* what time.Now returns next
  received, dropped, errors,  \* the counters of exporter.Self
  arrivals,   \* history: the messages given to Dispatch, in order
  taken,      \* history: per source what its consumer took, and when
  refused,    \* history: per source what found its buffer full
  fresh       \* history: per series the time of the latest value written

hist == <<arrivals, taken, refused, fresh>>
self == <<received, dropped, errors>>
vars == <<life, ctxDone, feeds, chan, call, worker, series, clock, self, hist>>

(***************************************************************************)
(* A message is known by its number in arrivals.                           *)
(***************************************************************************)
NoCall == [pc |-> "idle", at |-> 0]
AtSelect(pc) ==
  [pc |-> pc, n |-> 0, now |-> 0, at |-> 0, matched |-> FALSE, problems |-> <<>>]

Init ==
  /\ life = "new" /\ ctxDone = FALSE
  /\ feeds = <<>> /\ call = NoCall
  /\ chan = [s \in Source |-> <<>>]
  /\ worker = [s \in Source |-> AtSelect("none")]
  /\ series = EmptyMap /\ clock = 1
  /\ received = [s \in Source |-> 0] /\ dropped = 0
  /\ errors = [s \in Source |-> [r \in Reason |-> 0]]
  /\ arrivals = <<>> /\ fresh = EmptyMap
  /\ taken = [s \in Source |-> <<>>] /\ refused = [s \in Source |-> <<>>]

-----------------------------------------------------------------------------
(***************************************************************************)
(* Start and Stop, called once each by App.Run, one after the other, with  *)
(* App.connect, and so every Dispatch, begun in between.  Stop on a router *)
(* that was not started returns at once and is no step.  The consumers are *)
(* told to stop by their own context, a child of the one given to Start.   *)
(***************************************************************************)
cancelled == ctxDone \/ life \in {"waiting", "stopped"}

CtxDone ==
  /\ ~ctxDone
  /\ ctxDone' = TRUE
  /\ UNCHANGED <<life, feeds, chan, call, worker, series, clock, self, hist>>

Start ==
  /\ life = "new"
  /\ life' = "running"
  /\ feeds' = SourceList
  /\ worker' = [s \in Source |-> AtSelect("select")]
  /\ UNCHANGED <<ctxDone, chan, call, series, clock, self, hist>>

(***************************************************************************)
(* Stop asks for the write lock: a waiting writer keeps new readers out.   *)
(***************************************************************************)
StopCall ==
  /\ life = "running"
  /\ life' = "locking"
  /\ UNCHANGED <<ctxDone, feeds, chan, call, worker, series, clock, self, hist>>

StopSwap ==
  /\ life = "locking"
  /\ call.pc = "idle"
  /\ life' = "swapped"
  /\ feeds' = <<>>
  /\ UNCHANGED <<ctxDone, chan, call, worker, series, clock, self, hist>>

StopCancel ==
  /\ life = "swapped"
  /\ life' = "waiting"
  /\ UNCHANGED <<ctxDone, feeds, chan, call, worker, series, clock, self, hist>>

\* Mutant: Stop does not wait for the consumers.
StopWithoutWait ==
  /\ life = "waiting"
  /\ life' = "stopped"
  /\ UNCHANGED <<ctxDone, feeds, chan, call, worker, series, clock, self, hist>>

StopWait ==
  /\ life = "waiting"
  /\ \A s \in Source : worker[s].pc = "exited"
  /\ life' = "stopped"
  /\ UNCHANGED <<ctxDone, feeds, chan, call, worker, series, clock, self, hist>>

-----------------------------------------------------------------------------
(***************************************************************************)
(* Dispatch: under the read lock, one step per feed.  The callbacks of one *)
(* connection come one after the other, so there is one call at a time.    *)
(***************************************************************************)
owns(s, n) == arrivals[n].body \in Owned[s]

Current == Len(arrivals)

atFeed == call.pc = "loop" /\ call.at <= Len(feeds)

DispatchBegin(m) ==
  /\ life \notin {"new", "locking"}
  /\ call.pc = "idle"
  /\ Len(arrivals) < MaxArrivals
  /\ arrivals' = Append(arrivals, [body |-> m, live |-> feeds # <<>>])
  /\ call' = [pc |-> "loop", at |-> 1]
  /\ UNCHANGED <<life, ctxDone, feeds, chan, worker, series, clock, self,
                 taken, refused, fresh>>

DispatchSkip ==
  /\ atFeed /\ ~owns(feeds[call.at], Current)
  /\ call' = [call EXCEPT !.at = @ + 1]
  /\ UNCHANGED <<life, ctxDone, feeds, chan, worker, series, clock, self, hist>>

DispatchSend ==
  /\ atFeed
  /\ LET s == feeds[call.at] IN
       /\ owns(s, Current) /\ Len(chan[s]) < sourceBuffer
       /\ chan' = [chan EXCEPT ![s] = Append(@, Current)]
  /\ call' = [call EXCEPT !.pc = "sent"]
  /\ UNCHANGED <<life, ctxDone, feeds, worker, series, clock, self, hist>>

DispatchCount ==
  /\ call.pc = "sent"
  /\ received' = [received EXCEPT ![feeds[call.at]] = @ + 1]
  /\ call' = [pc |-> "loop", at |-> call.at + 1]
  /\ UNCHANGED <<life, ctxDone, feeds, chan, worker, series, clock,
                 dropped, errors, hist>>

\* Mutant: a full buffer ends the loop over the feeds.
DispatchDropReturns ==
  /\ atFeed
  /\ LET s == feeds[call.at] IN
       /\ owns(s, Current) /\ Len(chan[s]) >= sourceBuffer
       /\ refused' = [refused EXCEPT ![s] = Append(@, Current)]
  /\ dropped' = dropped + 1
  /\ call' = [call EXCEPT !.at = Len(feeds) + 1]
  /\ UNCHANGED <<life, ctxDone, feeds, chan, worker, series, clock,
                 received, errors, arrivals, taken, fresh>>

\* Mutant: received is counted behind the select, for dropped messages too.
DispatchDropCounts ==
  /\ atFeed
  /\ LET s == feeds[call.at] IN
       /\ owns(s, Current) /\ Len(chan[s]) >= sourceBuffer
       /\ refused' = [refused EXCEPT ![s] = Append(@, Current)]
       /\ received' = [received EXCEPT ![s] = @ + 1]
  /\ dropped' = dropped + 1
  /\ call' = [call EXCEPT !.at = @ + 1]
  /\ UNCHANGED <<life, ctxDone, feeds, chan, worker, series, clock,
                 errors, arrivals, taken, fresh>>

\* Mutant: no default case, a full buffer blocks Dispatch.
DispatchBlocks == FALSE /\ UNCHANGED vars

DispatchDrop ==
  /\ atFeed
  /\ LET s == feeds[call.at] IN
       /\ owns(s, Current) /\ Len(chan[s]) >= sourceBuffer
       /\ refused' = [refused EXCEPT ![s] = Append(@, Current)]
  /\ dropped' = dropped + 1
  /\ call' = [call EXCEPT !.at = @ + 1]
  /\ UNCHANGED <<life, ctxDone, feeds, chan, worker, series, clock,
                 received, errors, arrivals, taken, fresh>>

DispatchEnd ==
  /\ call.pc = "loop" /\ call.at > Len(feeds)
  /\ call' = NoCall
  /\ UNCHANGED <<life, ctxDone, feeds, chan, worker, series, clock, self, hist>>

-----------------------------------------------------------------------------
(***************************************************************************)
(* A consumer: select, then handle, whose first act is to read the clock.  *)
(* When the context is done and a message waits, select takes either.      *)
(***************************************************************************)
Take(s) ==
  /\ worker[s].pc = "select" /\ chan[s] # <<>>
  /\ worker' = [worker EXCEPT ![s] =
       [worker[s] EXCEPT !.pc = "rules", !.n = Head(chan[s]), !.now = clock, !.at = 1]]
  /\ chan' = [chan EXCEPT ![s] = Tail(@)]
  /\ clock' = clock + 1
  /\ taken' = [taken EXCEPT ![s] = Append(@, [n |-> Head(chan[s]), now |-> clock])]
  /\ UNCHANGED <<life, ctxDone, feeds, call, series, self, arrivals, refused, fresh>>

Exit(s) ==
  /\ worker[s].pc = "select" /\ cancelled
  /\ worker' = [worker EXCEPT ![s].pc = "exited"]
  /\ UNCHANGED <<life, ctxDone, feeds, chan, call, series, clock, self, hist>>

(***************************************************************************)
(* source.apply: the loop over the rules, one step per call of Store.Set.  *)
(***************************************************************************)
body(s)    == arrivals[worker[s].n].body
rule(s)    == Rules[s][worker[s].at]
outcome(s) == Apply[s][worker[s].at][body(s)]
atRule(s)  == worker[s].pc = "rules" /\ worker[s].at <= Len(Rules[s])

RuleMisses(s) ==
  /\ atRule(s) /\ ~outcome(s).hit
  /\ worker' = [worker EXCEPT ![s].at = @ + 1]
  /\ UNCHANGED <<life, ctxDone, feeds, chan, call, series, clock, self, hist>>

\* Mutant: a rule that fails ends the loop over the rules.
RuleFailsAndBreaks(s) ==
  /\ atRule(s) /\ outcome(s).hit /\ outcome(s).err # NoError
  /\ worker' = [worker EXCEPT ![s] =
       [worker[s] EXCEPT !.at = Len(Rules[s]) + 1, !.matched = TRUE,
                 !.problems = Append(@, outcome(s).err)]]
  /\ UNCHANGED <<life, ctxDone, feeds, chan, call, series, clock, self, hist>>

RuleFails(s) ==
  /\ atRule(s) /\ outcome(s).hit /\ outcome(s).err # NoError
  /\ worker' = [worker EXCEPT ![s] =
       [worker[s] EXCEPT !.at = @ + 1, !.matched = TRUE,
                 !.problems = Append(@, outcome(s).err)]]
  /\ UNCHANGED <<life, ctxDone, feeds, chan, call, series, clock, self, hist>>

RuleYieldsNothing(s) ==
  /\ atRule(s) /\ outcome(s).hit
  /\ outcome(s).err = NoError /\ outcome(s).labels = NoLabels
  /\ worker' = [worker EXCEPT ![s] = [worker[s] EXCEPT !.at = @ + 1, !.matched = TRUE]]
  /\ UNCHANGED <<life, ctxDone, feeds, chan, call, series, clock, self, hist>>

\* Mutant: the heartbeat is set without asking whether the rule has one.
RuleWritesAndBeats(s) ==
  /\ atRule(s) /\ outcome(s).hit
  /\ outcome(s).err = NoError /\ outcome(s).labels # NoLabels
  /\ LET id == <<rule(s).metric, outcome(s).labels>> IN
       /\ series' = SetSeries(series, id, rule(s).kind, rule(s).help, outcome(s).value)
       /\ fresh' = IF id \in DOMAIN fresh /\ fresh[id] > worker[s].now
                   THEN fresh ELSE Extend(fresh, id, worker[s].now)
  /\ worker' = [worker EXCEPT ![s] = [worker[s] EXCEPT !.pc = "beat", !.matched = TRUE]]
  /\ UNCHANGED <<life, ctxDone, feeds, chan, call, clock, self,
                 arrivals, taken, refused>>

RuleWrites(s) ==
  /\ atRule(s) /\ outcome(s).hit
  /\ outcome(s).err = NoError /\ outcome(s).labels # NoLabels
  /\ LET id == <<rule(s).metric, outcome(s).labels>> IN
       /\ series' = SetSeries(series, id, rule(s).kind, rule(s).help, outcome(s).value)
       /\ fresh' = IF id \in DOMAIN fresh /\ fresh[id] > worker[s].now
                   THEN fresh ELSE Extend(fresh, id, worker[s].now)
  /\ worker' = [worker EXCEPT ![s] =
       IF rule(s).beat # NoMetric
       THEN [worker[s] EXCEPT !.pc = "beat", !.matched = TRUE]
       ELSE [worker[s] EXCEPT !.at = @ + 1, !.matched = TRUE]]
  /\ UNCHANGED <<life, ctxDone, feeds, chan, call, clock, self,
                 arrivals, taken, refused>>

\* Mutant: the heartbeat reads the clock again.
RuleBeatsLater(s) ==
  /\ worker[s].pc = "beat"
  /\ series' = SetSeries(series, <<rule(s).beat, outcome(s).labels>>,
                         Gauge, HeartbeatHelp, clock)
  /\ worker' = [worker EXCEPT ![s] = [worker[s] EXCEPT !.pc = "rules", !.at = @ + 1]]
  /\ UNCHANGED <<life, ctxDone, feeds, chan, call, clock, self, hist>>

RuleBeats(s) ==
  /\ worker[s].pc = "beat"
  /\ series' = SetSeries(series, <<rule(s).beat, outcome(s).labels>>,
                         Gauge, HeartbeatHelp, worker[s].now)
  /\ worker' = [worker EXCEPT ![s] = [worker[s] EXCEPT !.pc = "rules", !.at = @ + 1]]
  /\ UNCHANGED <<life, ctxDone, feeds, chan, call, clock, self, hist>>

(***************************************************************************)
(* The source's own heartbeat, after the last rule.                        *)
(***************************************************************************)
afterRules(s) == worker[s].pc = "rules" /\ worker[s].at > Len(Rules[s])
beats(s) == worker[s].matched /\ SourceBeat[s] # NoMetric

NoSourceBeat(s) ==
  /\ afterRules(s)
  /\ beats(s) => LET r == Resolve[s][body(s)] IN r.err = NoError /\ ~r.present
  /\ worker' = [worker EXCEPT ![s].pc = "report"]
  /\ UNCHANGED <<life, ctxDone, feeds, chan, call, series, clock, self, hist>>

SourceBeatFails(s) ==
  /\ afterRules(s) /\ beats(s)
  /\ Resolve[s][body(s)].err # NoError
  /\ worker' = [worker EXCEPT ![s] =
       [worker[s] EXCEPT !.pc = "report", !.problems = Append(@, Resolve[s][body(s)].err)]]
  /\ UNCHANGED <<life, ctxDone, feeds, chan, call, series, clock, self, hist>>

SourceBeats(s) ==
  /\ afterRules(s) /\ beats(s)
  /\ LET r == Resolve[s][body(s)] IN
       /\ r.err = NoError /\ r.present
       /\ series' = SetSeries(series, <<SourceBeat[s], r.labels>>,
                              Gauge, HeartbeatHelp, worker[s].now)
  /\ worker' = [worker EXCEPT ![s].pc = "report"]
  /\ UNCHANGED <<life, ctxDone, feeds, chan, call, clock, self, hist>>

(***************************************************************************)
(* The rest of handle: one count per problem.                              *)
(***************************************************************************)
reasonOf(err) ==
  CASE err = "ErrBadJSON"      -> "json"
    [] err = "ErrRegexNoMatch" -> "regex"
    [] err = "ErrNotNumeric"   -> "not_numeric"
    [] OTHER                   -> "other"

\* Mutant: a consumer that met a problem returns.
ReportAndReturn(s) ==
  /\ worker[s].pc = "report"
  /\ LET problems == worker[s].problems IN
       errors' = [errors EXCEPT ![s] = [r \in Reason |->
         @[r] + Cardinality({i \in DOMAIN problems : reasonOf(problems[i]) = r})]]
  /\ worker' = [worker EXCEPT ![s] =
       AtSelect(IF @.problems = <<>> THEN "select" ELSE "exited")]
  /\ UNCHANGED <<life, ctxDone, feeds, chan, call, series, clock,
                 received, dropped, hist>>

Report(s) ==
  /\ worker[s].pc = "report"
  /\ LET problems == worker[s].problems IN
       errors' = [errors EXCEPT ![s] = [r \in Reason |->
         @[r] + Cardinality({i \in DOMAIN problems : reasonOf(problems[i]) = r})]]
  /\ worker' = [worker EXCEPT ![s] = AtSelect("select")]
  /\ UNCHANGED <<life, ctxDone, feeds, chan, call, series, clock,
                 received, dropped, hist>>

-----------------------------------------------------------------------------
DispatchStep ==
  DispatchSkip \/ DispatchSend \/ DispatchCount \/ DispatchDrop \/ DispatchEnd

StopStep == StopSwap \/ StopCancel \/ StopWait

HandleStep(s) ==
  \/ RuleMisses(s) \/ RuleFails(s) \/ RuleYieldsNothing(s)
  \/ RuleWrites(s) \/ RuleBeats(s)
  \/ NoSourceBeat(s) \/ SourceBeatFails(s) \/ SourceBeats(s)
  \/ Report(s)

ConsumerStep(s) == Take(s) \/ Exit(s) \/ HandleStep(s)

Next ==
  \/ CtxDone \/ Start \/ StopCall \/ StopStep
  \/ \E m \in Message : DispatchBegin(m)
  \/ DispatchStep
  \/ \E s \in Source : ConsumerStep(s)

Spec == Init /\ [][Next]_vars

(***************************************************************************)
(* A goroutine that can take a step takes one; nothing obliges the broker  *)
(* to send, the context to end or App.Run to stop the router.              *)
(***************************************************************************)
Fairness ==
  /\ WF_vars(DispatchStep)
  /\ WF_vars(StopStep)
  /\ \A s \in Source : WF_vars(ConsumerStep(s))

FairSpec == Spec /\ Fairness

-----------------------------------------------------------------------------
Ran(seq) == {seq[i] : i \in DOMAIN seq}

Arrival == [body : Message, live : BOOLEAN]
Taking  == [n : 1 .. Len(arrivals), now : Nat]
WorkerType ==
  [pc : {"none", "select", "rules", "beat", "report", "exited"},
   n : 0 .. Len(arrivals), now : Nat, at : Nat, matched : BOOLEAN,
   problems : Seq(Error)]

(***************************************************************************)
(* Every variable has the type of the Go value it stands for, a message    *)
(* number is the number of a message, and a consumer that is inside apply  *)
(* stands at a rule or just behind the last one, between value and         *)
(* heartbeat only if it has written the value and the rule has a heartbeat *)
(* (source.go:97): no series is ever written under an empty name.          *)
(***************************************************************************)
LifeOK ==
  /\ life \in {"new", "running", "locking", "swapped", "waiting", "stopped"}
  /\ ctxDone \in BOOLEAN
  /\ feeds = IF life \in {"running", "locking"} THEN SourceList ELSE <<>>

ArrivalsOK == arrivals \in Seq(Arrival)

CallOK ==
  /\ call \in [pc : {"idle", "loop", "sent"}, at : Nat]
  /\ call.pc # "idle" => call.at >= 1 /\ Len(arrivals) >= 1
  /\ call.pc = "sent" => call.at <= Len(feeds)

WorkerOK ==
  /\ worker \in [Source -> WorkerType]
  /\ \A s \in Source :
       worker[s].pc \in {"rules", "beat"} => worker[s].n >= 1 /\ worker[s].at >= 1
  /\ \A s \in Source :
       worker[s].pc = "beat" =>
         /\ worker[s].at <= Len(Rules[s])
         /\ rule(s).beat # NoMetric /\ outcome(s).labels # NoLabels

StoreOK ==
  /\ IsPartialMap(series, Id, Entry) /\ IsPartialMap(fresh, Id, Nat)
  /\ clock \in Nat

SelfOK ==
  /\ received \in [Source -> Nat] /\ dropped \in Nat
  /\ errors \in [Source -> [Reason -> Nat]]

QueuesOK ==
  /\ chan \in [Source -> Seq(1 .. Len(arrivals))]
  /\ taken \in [Source -> Seq(Taking)]
  /\ refused \in [Source -> Seq(1 .. Len(arrivals))]

TypeOK ==
  LifeOK /\ ArrivalsOK /\ CallOK /\ WorkerOK /\ StoreOK /\ SelfOK /\ QueuesOK

(***************************************************************************)
(* What Dispatch has given each consumer: a message that arrived while the *)
(* feeds were published and that the source owns is accepted or counted as *)
(* dropped, exactly once, and accepted messages are taken in the order in  *)
(* which they arrived; a full buffer of one source costs no other source   *)
(* anything.                                                               *)
(***************************************************************************)
Arrived(s) == {n \in DOMAIN arrivals : arrivals[n].live /\ owns(s, n)}

Undecided(s) ==
  IF \E i \in DOMAIN feeds :
       /\ feeds[i] = s
       /\ \/ call.pc = "loop" /\ i >= call.at
          \/ call.pc = "sent" /\ i > call.at
  THEN {Current} ELSE {}

Accepted(s) == [i \in DOMAIN taken[s] |-> taken[s][i].n] \o chan[s]

EachOnce ==
  \A s \in Source :
    /\ \A i, j \in DOMAIN Accepted(s) : i < j => Accepted(s)[i] < Accepted(s)[j]
    /\ Ran(Accepted(s)) \cap Ran(refused[s]) = {}
    /\ Ran(Accepted(s)) \cup Ran(refused[s]) = Arrived(s) \ Undecided(s)

(***************************************************************************)
(* mqtt2prom_messages_received_total, "MQTT messages handed to a source":  *)
(* the count is behind by the one message that was sent and not yet        *)
(* counted, and equals what was put into the channel as soon as Dispatch   *)
(* has returned, whatever the consumers do meanwhile.                      *)
(***************************************************************************)
Uncounted(s) == IF call.pc = "sent" /\ feeds[call.at] = s THEN 1 ELSE 0

ReceivedIsHanded ==
  \A s \in Source : received[s] + Uncounted(s) = Len(taken[s]) + Len(chan[s])

(***************************************************************************)
(* A rule's heartbeat never vouches for a value that is not there: at any  *)
(* moment, for every label set, one of the metrics it stands for was       *)
(* written from a message at least as late as the heartbeat says.  This is *)
(* about names that are nothing else: validateMetricConsistency lets a     *)
(* gauge with the help text of a heartbeat, or the heartbeat of a source,  *)
(* have the name of a rule's heartbeat, and then it holds other values.    *)
(***************************************************************************)
AllRules      == UNION {Ran(Rules[s]) : s \in Source}
RuleBeatNames == {r.beat : r \in AllRules} \
  ({r.metric : r \in AllRules} \cup {SourceBeat[s] : s \in Source} \cup {NoMetric})

BeatNeverAhead ==
  \A id \in DOMAIN series : id[1] \in RuleBeatNames =>
    \E s \in Source : \E k \in DOMAIN Rules[s] :
      LET metric == Rules[s][k].metric IN
        /\ Rules[s][k].beat = id[1]
        /\ <<metric, id[2]>> \in DOMAIN fresh
        /\ fresh[<<metric, id[2]>>] >= series[id].last

(***************************************************************************)
(* Once Stop has returned nothing writes a series or counts an error, so   *)
(* App.Run may return and the process exit.                                *)
(***************************************************************************)
StoppedIsQuiet == [][life = "stopped" => UNCHANGED <<series, errors, received>>]_vars

(***************************************************************************)
(* An accepted message is handled to the end, unless the consumers are     *)
(* told to stop.                                                           *)
(***************************************************************************)
HandledAfter(s, n) == worker[s].n # n /\ n \in {e.n : e \in Ran(taken[s])}

AcceptedIsHandled ==
  \A s \in Source : \A n \in 1 .. MaxArrivals :
    n \in Ran(chan[s]) ~> (HandledAfter(s, n) \/ cancelled)

(***************************************************************************)
(* Dispatch returns to paho however full the buffers are and whatever has  *)
(* become of the consumers, and Stop returns whatever Dispatch and the     *)
(* consumers were doing: neither waits for the other for ever.             *)
(***************************************************************************)
CallsReturn ==
  /\ call.pc # "idle" ~> call.pc = "idle"
  /\ life = "locking" ~> life = "stopped"
=============================================================================
