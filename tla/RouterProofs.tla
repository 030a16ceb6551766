---------------------------- MODULE RouterProofs ----------------------------
(***************************************************************************)
(* Theorems about Router for any sources, rules, messages and any buffer   *)
(* size.                                                                   *)
(***************************************************************************)
EXTENDS RouterReplay, FiniteSetTheorems, SequenceTheorems, TLAPS

(***************************************************************************)
(* A write to the map of series, or to fresh, keeps it such a map.         *)
(***************************************************************************)
LEMMA ExtendType ==
  ASSUME NEW S, NEW T, NEW map, IsPartialMap(map, S, T),
         NEW id \in S, NEW value \in T
  PROVE  IsPartialMap(Extend(map, id, value), S, T)
  BY DEF Extend, IsPartialMap

(***************************************************************************)
(* The entry Store.Set leaves holds the reading of the call.               *)
(***************************************************************************)
LEMMA SetEntryType ==
  ASSUME NEW S, NEW map, IsPartialMap(map, S, Entry), NEW id,
         NEW kind \in Kind, NEW help \in Help, NEW value \in Float
  PROVE  /\ SetEntry(map, id, kind, help, value) \in Entry
         /\ SetEntry(map, id, kind, help, value).last = value
<1> DEFINE e    == existing(map, id, kind, help)
           f(o) == [e EXCEPT !.offset = o, !.last = value, !.seen = TRUE]
<1>1. e \in Entry
  <2>1. id \in DOMAIN map => map[id] \in Entry
    BY DEF IsPartialMap
  <2>2. CASE id \in DOMAIN map
    BY <2>1, <2>2 DEF existing, Entry
  <2>3. CASE id \notin DOMAIN map
    BY <2>3 DEF existing, Entry, Float
  <2> QED BY <2>2, <2>3
<1>2. Plus(e.offset, e.last) \in Float
  BY <1>1, FloatAssumption DEF Plus, Float, Entry
<1>3. ASSUME NEW o \in Float
      PROVE  f(o) \in Entry /\ f(o).last = value
  <2> HIDE DEF e
  <2> QED BY <1>1 DEF Entry
<1>4. [e EXCEPT !.last = value, !.seen = TRUE] = f(e.offset)
  <2> HIDE DEF e
  <2> QED BY <1>1 DEF Entry
<1>5. e.offset \in Float
  BY <1>1 DEF Entry
<1>6. \E o \in Float : SetEntry(map, id, kind, help, value) = f(o)
  <2>1. SetEntry(map, id, kind, help, value) =
          IF kind = Counter THEN observeCounter(e, value) ELSE observeGauge(e, value)
    BY DEF SetEntry
  <2> HIDE DEF e
  <2> QED BY <2>1, <1>2, <1>4, <1>5 DEF observeCounter, observeGauge
<1> HIDE DEF e, f
<1> QED BY <1>3, <1>6

(***************************************************************************)
(* Store.Set keeps the map of series a map of series, changes one of them  *)
(* and leaves the reading there.                                           *)
(***************************************************************************)
LEMMA SetSeriesType ==
  ASSUME NEW S, NEW map, IsPartialMap(map, S, Entry), NEW id \in S,
         NEW kind \in Kind, NEW help \in Help, NEW value \in Float
  PROVE  IsPartialMap(SetSeries(map, id, kind, help, value), S, Entry)
  BY SetEntryType, ExtendType DEF SetSeries

(***************************************************************************)
(* A consumer inside apply stands at a rule, and what that rule makes of   *)
(* the message in hand is an outcome of the configuration.                 *)
(***************************************************************************)
LEMMA AtRuleTypes ==
  ASSUME TypeOK, NEW s \in Source,
         atRule(s) \/ worker[s].pc = "beat"
  PROVE  /\ worker[s].at \in DOMAIN Rules[s]
         /\ body(s) \in Message
         /\ rule(s) \in Rule
         /\ outcome(s) \in Outcome
<1>1. worker[s] \in WorkerType /\ Rules[s] \in Seq(Rule)
  BY RouterAssumption DEF TypeOK, WorkerOK
<1>2. worker[s].pc \in {"rules", "beat"}
  BY DEF atRule
<1>3. worker[s].n \in 1 .. Len(arrivals) /\ worker[s].at \in Nat /\ worker[s].at >= 1
  BY <1>1, <1>2 DEF TypeOK, WorkerOK, WorkerType
<1>4. worker[s].at <= Len(Rules[s])
  BY DEF TypeOK, WorkerOK, atRule
<1>5. worker[s].at \in DOMAIN Rules[s]
  BY <1>1, <1>3, <1>4
<1>6. arrivals[worker[s].n] \in Arrival
  BY <1>3 DEF TypeOK, ArrivalsOK
<1>7. body(s) \in Message
  BY <1>6 DEF body, Arrival
<1>8. Apply[s] \in [DOMAIN Rules[s] -> [Message -> Outcome]]
  BY RouterAssumption
<1>9. outcome(s) \in Outcome
  BY <1>5, <1>7, <1>8 DEF outcome
<1>10. rule(s) \in Rule
  BY <1>1, <1>5 DEF rule
<1> QED BY <1>5, <1>7, <1>9, <1>10

(***************************************************************************)
(* Behind the last rule the message in hand is still a message.            *)
(***************************************************************************)
LEMMA AfterRulesTypes ==
  ASSUME TypeOK, NEW s \in Source, afterRules(s)
  PROVE  body(s) \in Message /\ Resolve[s][body(s)] \in Resolved
<1>1. worker[s] \in WorkerType /\ worker[s].n >= 1
  BY DEF TypeOK, WorkerOK, afterRules
<1>2. worker[s].n \in 1 .. Len(arrivals)
  BY <1>1 DEF WorkerType
<1>3. arrivals[worker[s].n] \in Arrival
  BY <1>2 DEF TypeOK, ArrivalsOK
<1>4. body(s) \in Message
  BY <1>3 DEF body, Arrival
<1> QED BY <1>4, RouterAssumption

(***************************************************************************)
(* A time is a float64.                                                    *)
(***************************************************************************)
LEMMA TimeIsFloat == Nat \subseteq Float
  BY DEF Float

-----------------------------------------------------------------------------
(***************************************************************************)
(* The feed Dispatch stands at is that of a source.                        *)
(***************************************************************************)
LEMMA FeedIsSource ==
  ASSUME TypeOK, atFeed \/ call.pc = "sent"
  PROVE  call.at \in DOMAIN feeds /\ feeds[call.at] \in Source
<1>1. call.at \in Nat /\ call.at >= 1 /\ call.at <= Len(feeds)
  BY DEF TypeOK, CallOK, atFeed
<1>2. feeds \in Seq(Source)
  BY RouterAssumption DEF TypeOK, LifeOK
<1> QED BY <1>1, <1>2

(***************************************************************************)
(* While Dispatch runs, there is a message it runs for.                    *)
(***************************************************************************)
LEMMA CurrentIsMessage ==
  ASSUME TypeOK, call.pc # "idle"
  PROVE  Current \in 1 .. Len(arrivals)
  BY DEF TypeOK, CallOK, ArrivalsOK, Current

(***************************************************************************)
(* A sequence over a set is one over every larger set.                     *)
(***************************************************************************)
LEMMA SeqOfLarger ==
  ASSUME NEW S, NEW T, S \subseteq T, NEW q \in Seq(S)
  PROVE  q \in Seq(T)
  OBVIOUS

(***************************************************************************)
(* The parts of TypeOK a step leaves alone.                                *)
(***************************************************************************)
LEMMA Same ==
  ASSUME TypeOK
  PROVE  /\ UNCHANGED <<life, ctxDone, feeds>> => LifeOK'
         /\ UNCHANGED arrivals => ArrivalsOK'
         /\ UNCHANGED <<call, arrivals, feeds>> => CallOK'
         /\ UNCHANGED <<worker, arrivals>> => WorkerOK'
         /\ UNCHANGED <<series, fresh, clock>> => StoreOK'
         /\ UNCHANGED <<received, dropped, errors>> => SelfOK'
         /\ UNCHANGED <<chan, taken, refused, arrivals>> => QueuesOK'
<1> USE DEF TypeOK
<1>1. UNCHANGED <<life, ctxDone, feeds>> => LifeOK'
  BY DEF LifeOK
<1>2. UNCHANGED arrivals => ArrivalsOK'
  BY DEF ArrivalsOK
<1>3. UNCHANGED <<call, arrivals, feeds>> => CallOK'
  BY DEF CallOK
<1>4. UNCHANGED <<worker, arrivals>> => WorkerOK'
  BY DEF WorkerOK, WorkerType, rule, outcome, body
<1>5. UNCHANGED <<series, fresh, clock>> => StoreOK'
  BY DEF StoreOK
<1>6. UNCHANGED <<received, dropped, errors>> => SelfOK'
  BY DEF SelfOK
<1>7. UNCHANGED <<chan, taken, refused, arrivals>> => QueuesOK'
  BY DEF QueuesOK, Taking
<1> QED BY <1>1, <1>2, <1>3, <1>4, <1>5, <1>6, <1>7

(***************************************************************************)
(* A step of one consumer that leaves it in a sound state.                 *)
(***************************************************************************)
SoundWorker(s, w) ==
  /\ w \in WorkerType
  /\ w.pc \in {"rules", "beat"} => w.n >= 1 /\ w.at >= 1
  /\ w.pc = "beat" => /\ w.at <= Len(Rules[s])
                      /\ Rules[s][w.at].beat # NoMetric
                      /\ Apply[s][w.at][arrivals[w.n].body].labels # NoLabels

LEMMA WorkerUpdate ==
  ASSUME TypeOK, NEW s \in Source, NEW w, SoundWorker(s, w),
         worker' = [worker EXCEPT ![s] = w], UNCHANGED arrivals
  PROVE  WorkerOK'
<1>1. worker \in [Source -> WorkerType]
  BY DEF TypeOK, WorkerOK
<1>2. worker' \in [Source -> WorkerType]
  BY <1>1 DEF SoundWorker
<1>3. WorkerType' = WorkerType
  BY DEF WorkerType
<1>4. worker'[s] = w /\ \A t \in Source : t # s => worker'[t] = worker[t]
  BY <1>1
<1>5. \A t \in Source :
        worker'[t].pc \in {"rules", "beat"} => worker'[t].n >= 1 /\ worker'[t].at >= 1
  BY <1>4 DEF TypeOK, WorkerOK, SoundWorker
<1>6. \A t \in Source :
        worker'[t].pc = "beat" =>
          /\ worker'[t].at <= Len(Rules[t])
          /\ Rules[t][worker'[t].at].beat # NoMetric
          /\ Apply[t][worker'[t].at][arrivals[worker'[t].n].body].labels # NoLabels
  BY <1>4 DEF TypeOK, WorkerOK, SoundWorker, rule, outcome, body
<1> QED BY <1>2, <1>3, <1>5, <1>6 DEF WorkerOK, rule, outcome, body

(***************************************************************************)
(* Consumers between two messages are in a sound state.                    *)
(***************************************************************************)
LEMMA AtSelectIsSound ==
  ASSUME TypeOK, NEW pc \in {"none", "select", "exited"}
  PROVE  AtSelect(pc) \in WorkerType /\ AtSelect(pc).pc = pc
<1>1. 0 \in 0 .. Len(arrivals)
  BY DEF TypeOK, ArrivalsOK
<1> QED BY <1>1 DEF AtSelect, WorkerType

-----------------------------------------------------------------------------
(***************************************************************************)
(* Every step keeps every variable in its type.                            *)
(***************************************************************************)
LEMMA TypeStep == TypeOK /\ [Next]_vars => TypeOK'
<1> SUFFICES ASSUME TypeOK, [Next]_vars PROVE TypeOK'
  OBVIOUS
<1> USE DEF TypeOK
<1>1. CASE CtxDone
  <2>1. LifeOK'
    BY <1>1 DEF CtxDone, LifeOK
  <2> QED BY <1>1, <2>1, Same DEF CtxDone, self, hist
<1>2. CASE Start
  <2>1. LifeOK'
    BY <1>2 DEF Start, LifeOK
  <2>2. CallOK'
    <3>1. feeds = <<>> /\ Len(feeds) = 0
      BY <1>2 DEF Start, LifeOK
    <3>2. call.pc # "sent"
      BY <3>1 DEF CallOK
    <3> QED BY <1>2, <3>2 DEF Start, CallOK, hist
  <2>3. WorkerOK'
    <3>1. AtSelect("select") \in WorkerType /\ AtSelect("select").pc = "select"
      BY AtSelectIsSound
    <3>2. worker' = [s \in Source |-> AtSelect("select")] /\ WorkerType' = WorkerType
      BY <1>2 DEF Start, WorkerType, hist
    <3>3. worker' \in [Source -> WorkerType'] /\ \A s \in Source : worker'[s].pc = "select"
      BY <3>1, <3>2
    <3> QED BY <3>3 DEF WorkerOK
  <2> QED BY <1>2, <2>1, <2>2, <2>3, Same DEF Start, self, hist
<1>3. CASE StopCall
  <2>1. LifeOK'
    BY <1>3 DEF StopCall, LifeOK
  <2> QED BY <1>3, <2>1, Same DEF StopCall, self, hist
<1>4. CASE StopSwap
  <2>1. LifeOK'
    BY <1>4 DEF StopSwap, LifeOK
  <2>2. CallOK'
    BY <1>4 DEF StopSwap, CallOK, hist
  <2> QED BY <1>4, <2>1, <2>2, Same DEF StopSwap, self, hist
<1>5. CASE StopCancel
  <2>1. LifeOK'
    BY <1>5 DEF StopCancel, LifeOK
  <2> QED BY <1>5, <2>1, Same DEF StopCancel, self, hist
<1>6. CASE StopWait
  <2>1. LifeOK'
    BY <1>6 DEF StopWait, LifeOK
  <2> QED BY <1>6, <2>1, Same DEF StopWait, self, hist
<1>7. ASSUME NEW m \in Message, DispatchBegin(m)
      PROVE  TypeOK'
  <2>1. ArrivalsOK'
    <3>1. [body |-> m, live |-> feeds # <<>>] \in Arrival
      BY DEF Arrival
    <3>2. arrivals' = Append(arrivals, [body |-> m, live |-> feeds # <<>>])
      BY <1>7 DEF DispatchBegin
    <3> QED BY <3>1, <3>2, AppendProperties DEF ArrivalsOK
  <2>2. /\ Len(arrivals') = Len(arrivals) + 1 /\ Len(arrivals) \in Nat
        /\ \A i \in 1 .. Len(arrivals) : arrivals'[i] = arrivals[i]
    BY <1>7 DEF DispatchBegin, ArrivalsOK
  <2>3. CallOK'
    BY <1>7, <2>2 DEF DispatchBegin, CallOK
  <2>4. WorkerOK'
    <3>1. worker' = worker /\ WorkerType \subseteq WorkerType'
      BY <1>7, <2>2 DEF DispatchBegin, WorkerType
    <3>2. worker' \in [Source -> WorkerType']
      BY <3>1 DEF WorkerOK
    <3>3. ASSUME NEW s \in Source, worker[s].pc = "beat"
          PROVE  arrivals'[worker[s].n] = arrivals[worker[s].n]
      BY <2>2, <3>3 DEF WorkerOK, WorkerType
    <3> QED BY <3>1, <3>2, <3>3 DEF WorkerOK, rule, outcome, body
  <2>5. QueuesOK'
    <3>1. 1 .. Len(arrivals) \subseteq 1 .. Len(arrivals') /\ Taking \subseteq Taking'
      BY <2>2 DEF Taking
    <3>2. UNCHANGED <<chan, taken, refused>>
      BY <1>7 DEF DispatchBegin
    <3>3. /\ Seq(1 .. Len(arrivals)) \subseteq Seq(1 .. Len(arrivals'))
          /\ Seq(Taking) \subseteq Seq(Taking')
      BY <3>1, SeqOfLarger
    <3> QED BY <3>2, <3>3 DEF QueuesOK
  <2> QED BY <1>7, <2>1, <2>2, <2>3, <2>4, <2>5, Same DEF DispatchBegin, self, hist
<1>8. CASE DispatchSkip
  <2>1. CallOK'
    BY <1>8, FeedIsSource DEF DispatchSkip, CallOK, LifeOK, hist, atFeed
  <2> QED BY <1>8, <2>1, Same DEF DispatchSkip, self, hist
<1>9. CASE DispatchSend
  <2>1. CallOK'
    BY <1>9, FeedIsSource DEF DispatchSend, CallOK, hist, atFeed
  <2>2. QueuesOK'
    <3>1. feeds[call.at] \in Source /\ Current \in 1 .. Len(arrivals)
      BY <1>9, FeedIsSource, CurrentIsMessage DEF DispatchSend, atFeed
    <3>2. Append(chan[feeds[call.at]], Current) \in Seq(1 .. Len(arrivals))
      BY <3>1, AppendProperties DEF QueuesOK
    <3>3. chan' \in [Source -> Seq(1 .. Len(arrivals))]
      BY <1>9, <3>1, <3>2 DEF DispatchSend, QueuesOK
    <3> QED BY <1>9, <3>3 DEF DispatchSend, QueuesOK, Taking, hist
  <2> QED BY <1>9, <2>1, <2>2, Same DEF DispatchSend, self, hist
<1>10. CASE DispatchCount
  <2>1. CallOK'
    BY <1>10 DEF DispatchCount, CallOK, hist
  <2>2. SelfOK'
    <3>1. feeds[call.at] \in Source
      BY <1>10, FeedIsSource DEF DispatchCount
    <3> QED BY <1>10, <3>1 DEF DispatchCount, SelfOK
  <2> QED BY <1>10, <2>1, <2>2, Same DEF DispatchCount, self, hist
<1>11. CASE DispatchDrop
  <2>1. CallOK'
    BY <1>11, FeedIsSource DEF DispatchDrop, CallOK, atFeed
  <2>2. SelfOK'
    BY <1>11 DEF DispatchDrop, SelfOK
  <2>3. QueuesOK'
    <3>1. feeds[call.at] \in Source /\ Current \in 1 .. Len(arrivals)
      BY <1>11, FeedIsSource, CurrentIsMessage DEF DispatchDrop, atFeed
    <3>2. Append(refused[feeds[call.at]], Current) \in Seq(1 .. Len(arrivals))
      BY <3>1, AppendProperties DEF QueuesOK
    <3>3. refused' \in [Source -> Seq(1 .. Len(arrivals))]
      BY <1>11, <3>1, <3>2 DEF DispatchDrop, QueuesOK
    <3> QED BY <1>11, <3>3 DEF DispatchDrop, QueuesOK, Taking
  <2> QED BY <1>11, <2>1, <2>2, <2>3, Same DEF DispatchDrop, self, hist
<1>12. CASE DispatchEnd
  <2>1. CallOK'
    BY <1>12 DEF DispatchEnd, NoCall, CallOK, hist
  <2> QED BY <1>12, <2>1, Same DEF DispatchEnd, self, hist
<1>13. ASSUME NEW s \in Source, Take(s)
      PROVE  TypeOK'
  <2>1. /\ worker[s] \in WorkerType /\ chan[s] \in Seq(1 .. Len(arrivals)) /\ chan[s] # <<>>
        /\ clock \in Nat
    BY <1>13 DEF Take, WorkerOK, QueuesOK, StoreOK
  <2>2. Head(chan[s]) \in 1 .. Len(arrivals) /\ Tail(chan[s]) \in Seq(1 .. Len(arrivals))
    BY <2>1, HeadTailProperties
  <2>3. WorkerOK'
    <3> DEFINE w == [worker[s] EXCEPT !.pc = "rules", !.n = Head(chan[s]),
                                      !.now = clock, !.at = 1]
    <3>4. Head(chan[s]) \in 0 .. Len(arrivals) /\ Head(chan[s]) >= 1
      BY <2>2
    <3>5. w \in WorkerType
      BY <2>1, <3>4 DEF WorkerType
    <3>6. w.pc = "rules" /\ w.n = Head(chan[s]) /\ w.at = 1
      BY <2>1 DEF WorkerType
    <3>1. w \in WorkerType /\ w.pc = "rules" /\ w.n >= 1 /\ w.at >= 1
      <4> HIDE DEF w
      <4> QED BY <3>4, <3>5, <3>6
    <3>2. worker' = [worker EXCEPT ![s] = w] /\ UNCHANGED arrivals
      BY <1>13 DEF Take
    <3> HIDE DEF w
    <3> QED BY <3>1, <3>2, WorkerUpdate DEF SoundWorker
  <2>4. StoreOK'
    BY <1>13 DEF Take, StoreOK
  <2>5. QueuesOK'
    <3>1. [n |-> Head(chan[s]), now |-> clock] \in Taking
      BY <2>1, <2>2 DEF Taking
    <3>2. Append(taken[s], [n |-> Head(chan[s]), now |-> clock]) \in Seq(Taking)
      BY <3>1, AppendProperties DEF QueuesOK
    <3>3. taken' \in [Source -> Seq(Taking)]
      BY <1>13, <3>2 DEF Take, QueuesOK
    <3>4. chan' \in [Source -> Seq(1 .. Len(arrivals))]
      BY <1>13, <2>2 DEF Take, QueuesOK
    <3>5. Taking' = Taking /\ UNCHANGED <<arrivals, refused>>
      BY <1>13 DEF Take, Taking
    <3> QED BY <3>3, <3>4, <3>5 DEF QueuesOK
  <2> QED BY <1>13, <2>1, <2>2, <2>3, <2>4, <2>5, Same DEF Take, self, hist
<1>14. ASSUME NEW s \in Source, Exit(s)
      PROVE  TypeOK'
  <2>1. worker[s] \in WorkerType
    BY DEF WorkerOK
  <2>2. WorkerOK'
    <3> DEFINE w == [worker[s] EXCEPT !.pc = "exited"]
    <3>1. w \in WorkerType /\ w.pc \notin {"rules", "beat"}
      BY <2>1 DEF WorkerType
    <3>2. worker' = [worker EXCEPT ![s] = w] /\ UNCHANGED arrivals
      BY <1>14 DEF Exit, hist
    <3> HIDE DEF w
    <3> QED BY <3>1, <3>2, WorkerUpdate DEF SoundWorker
  <2> QED BY <1>14, <2>1, <2>2, Same DEF Exit, self, hist
<1>15. ASSUME NEW s \in Source, RuleMisses(s)
      PROVE  TypeOK'
  <2>1. worker[s] \in WorkerType
    BY DEF WorkerOK
  <2>2. WorkerOK'
    <3> DEFINE w == [worker[s] EXCEPT !.at = @ + 1]
    <3>6. worker[s].pc = "rules" /\ worker[s].n >= 1 /\ worker[s].at >= 1
      BY <1>15 DEF RuleMisses, atRule, WorkerOK
    <3>9. worker[s].at + 1 \in Nat
      BY <2>1 DEF WorkerType
    <3>10. [worker[s] EXCEPT !.at = worker[s].at + 1] \in WorkerType
      BY <2>1, <3>9 DEF WorkerType
    <3>7. w \in WorkerType
      BY <2>1, <3>6, <3>9, <3>10 DEF WorkerType
    <3>8. w.pc = "rules" /\ w.n = worker[s].n /\ w.at = worker[s].at + 1
      BY <2>1, <3>6 DEF WorkerType
    <3>1. w \in WorkerType /\ w.pc = "rules" /\ w.n >= 1 /\ w.at >= 1
      <4> HIDE DEF w
      <4> QED BY <2>1, <3>6, <3>7, <3>8 DEF WorkerType
    <3>2. worker' = [worker EXCEPT ![s] = w] /\ UNCHANGED arrivals
      BY <1>15 DEF RuleMisses, hist
    <3> HIDE DEF w
    <3> QED BY <3>1, <3>2, WorkerUpdate DEF SoundWorker
  <2> QED BY <1>15, <2>1, <2>2, Same DEF RuleMisses, self, hist
<1>16. ASSUME NEW s \in Source, RuleFails(s)
      PROVE  TypeOK'
  <2>1. worker[s] \in WorkerType
    BY DEF WorkerOK
  <2>2. WorkerOK'
    <3> DEFINE w == [worker[s] EXCEPT !.at = @ + 1, !.matched = TRUE,
                                      !.problems = Append(@, outcome(s).err)]
    <3>3. outcome(s).err \in Error
      BY <1>16, AtRuleTypes DEF RuleFails, Outcome
    <3>4. Append(worker[s].problems, outcome(s).err) \in Seq(Error)
      BY <2>1, <3>3, AppendProperties DEF WorkerType
    <3>6. worker[s].pc = "rules" /\ worker[s].n >= 1 /\ worker[s].at >= 1
      BY <1>16 DEF RuleFails, atRule, WorkerOK
    <3>9. worker[s].at + 1 \in Nat
      BY <2>1 DEF WorkerType
    <3>10. [worker[s] EXCEPT !.at = worker[s].at + 1] \in WorkerType
      BY <2>1, <3>9 DEF WorkerType
    <3>7. w \in WorkerType
      BY <2>1, <3>4, <3>6, <3>9, <3>10 DEF WorkerType
    <3>8. w.pc = "rules" /\ w.n = worker[s].n /\ w.at = worker[s].at + 1
      BY <2>1, <3>6 DEF WorkerType
    <3>1. w \in WorkerType /\ w.pc = "rules" /\ w.n >= 1 /\ w.at >= 1
      <4> HIDE DEF w
      <4> QED BY <2>1, <3>6, <3>7, <3>8 DEF WorkerType
    <3>2. worker' = [worker EXCEPT ![s] = w] /\ UNCHANGED arrivals
      BY <1>16 DEF RuleFails, hist
    <3> HIDE DEF w
    <3> QED BY <3>1, <3>2, WorkerUpdate DEF SoundWorker
  <2> QED BY <1>16, <2>1, <2>2, Same DEF RuleFails, self, hist
<1>17. ASSUME NEW s \in Source, RuleYieldsNothing(s)
      PROVE  TypeOK'
  <2>1. worker[s] \in WorkerType
    BY DEF WorkerOK
  <2>2. WorkerOK'
    <3> DEFINE w == [worker[s] EXCEPT !.at = @ + 1, !.matched = TRUE]
    <3>6. worker[s].pc = "rules" /\ worker[s].n >= 1 /\ worker[s].at >= 1
      BY <1>17 DEF RuleYieldsNothing, atRule, WorkerOK
    <3>9. worker[s].at + 1 \in Nat
      BY <2>1 DEF WorkerType
    <3>10. [worker[s] EXCEPT !.at = worker[s].at + 1] \in WorkerType
      BY <2>1, <3>9 DEF WorkerType
    <3>7. w \in WorkerType
      BY <2>1, <3>6, <3>9, <3>10 DEF WorkerType
    <3>8. w.pc = "rules" /\ w.n = worker[s].n /\ w.at = worker[s].at + 1
      BY <2>1, <3>6 DEF WorkerType
    <3>1. w \in WorkerType /\ w.pc = "rules" /\ w.n >= 1 /\ w.at >= 1
      <4> HIDE DEF w
      <4> QED BY <2>1, <3>6, <3>7, <3>8 DEF WorkerType
    <3>2. worker' = [worker EXCEPT ![s] = w] /\ UNCHANGED arrivals
      BY <1>17 DEF RuleYieldsNothing, hist
    <3> HIDE DEF w
    <3> QED BY <3>1, <3>2, WorkerUpdate DEF SoundWorker
  <2> QED BY <1>17, <2>1, <2>2, Same DEF RuleYieldsNothing, self, hist
<1>18. ASSUME NEW s \in Source, RuleWrites(s)
      PROVE  TypeOK'
  <2>1. worker[s] \in WorkerType
    BY DEF WorkerOK
  <2>2. /\ worker[s].pc = "rules" /\ worker[s].n >= 1 /\ worker[s].at >= 1
        /\ worker[s].at <= Len(Rules[s]) /\ outcome(s).labels # NoLabels
    BY <1>18 DEF RuleWrites, atRule, WorkerOK
  <2>3. ASSUME rule(s).beat # NoMetric PROVE WorkerOK'
    <3> DEFINE w == [worker[s] EXCEPT !.pc = "beat", !.matched = TRUE]
    <3>1. w \in WorkerType
      BY <2>1 DEF WorkerType
    <3>2. w.pc = "beat" /\ w.at = worker[s].at /\ w.n = worker[s].n
      BY <2>1 DEF WorkerType
    <3>3. worker' = [worker EXCEPT ![s] = w] /\ UNCHANGED arrivals
      BY <1>18, <2>3 DEF RuleWrites
    <3> HIDE DEF w
    <3>4. Rules[s][w.at].beat # NoMetric
      BY <2>3, <3>2 DEF rule
    <3>5. Apply[s][w.at][arrivals[w.n].body].labels # NoLabels
      BY <2>2, <3>2 DEF outcome, body
    <3>6. SoundWorker(s, w)
      BY <2>2, <3>1, <3>2, <3>4, <3>5 DEF SoundWorker
    <3> QED BY <3>3, <3>6, WorkerUpdate
  <2>4. ASSUME rule(s).beat = NoMetric PROVE WorkerOK'
    <3> DEFINE w == [worker[s] EXCEPT !.at = @ + 1, !.matched = TRUE]
    <3>5. [worker[s] EXCEPT !.at = worker[s].at + 1] \in WorkerType
      BY <2>1 DEF WorkerType
    <3>1. w \in WorkerType
      BY <2>1, <3>5 DEF WorkerType
    <3>2. w.pc = "rules" /\ w.at = worker[s].at + 1 /\ w.n = worker[s].n
      BY <2>1, <2>2 DEF WorkerType
    <3>3. worker' = [worker EXCEPT ![s] = w] /\ UNCHANGED arrivals
      BY <1>18, <2>4 DEF RuleWrites
    <3> HIDE DEF w
    <3>4. w.pc = "rules" /\ w.n >= 1 /\ w.at >= 1
      BY <2>1, <2>2, <3>2 DEF WorkerType
    <3>6. SoundWorker(s, w)
      BY <3>1, <3>4 DEF SoundWorker
    <3> QED BY <3>3, <3>6, WorkerUpdate
  <2>5. WorkerOK'
    BY <2>3, <2>4
  <2>6. StoreOK'
    <3> DEFINE id == <<rule(s).metric, outcome(s).labels>>
    <3>1. /\ rule(s) \in Rule /\ outcome(s) \in Outcome
          /\ outcome(s).labels # NoLabels /\ worker[s].now \in Nat
      BY <1>18, <2>1, AtRuleTypes DEF RuleWrites, WorkerType
    <3>2. /\ id \in Id /\ rule(s).kind \in Kind /\ rule(s).help \in Help
          /\ outcome(s).value \in Float
      BY <3>1 DEF Id, Rule, Outcome
    <3> HIDE DEF id
    <3>3. IsPartialMap(SetSeries(series, id, rule(s).kind, rule(s).help,
                                 outcome(s).value), Id, Entry)
      BY <3>2, SetSeriesType DEF StoreOK
    <3>4. IsPartialMap(Extend(fresh, id, worker[s].now), Id, Nat)
      BY <3>1, <3>2, ExtendType DEF StoreOK
    <3>5. /\ series' = SetSeries(series, id, rule(s).kind, rule(s).help, outcome(s).value)
          /\ fresh' = fresh \/ fresh' = Extend(fresh, id, worker[s].now)
          /\ clock' = clock
      BY <1>18 DEF RuleWrites, id
    <3> QED BY <3>3, <3>4, <3>5 DEF StoreOK
  <2> QED BY <1>18, <2>1, <2>2, <2>3, <2>4, <2>5, <2>6, Same DEF RuleWrites, self, hist
<1>19. ASSUME NEW s \in Source, RuleBeats(s)
      PROVE  TypeOK'
  <2>1. worker[s] \in WorkerType
    BY DEF WorkerOK
  <2>2. WorkerOK'
    <3> DEFINE w == [worker[s] EXCEPT !.pc = "rules", !.at = @ + 1]
    <3>6. worker[s].pc \in {"rules", "beat"} /\ worker[s].n >= 1 /\ worker[s].at >= 1
      BY <1>19 DEF RuleBeats, atRule, WorkerOK
    <3>9. worker[s].at + 1 \in Nat
      BY <2>1 DEF WorkerType
    <3>10. [worker[s] EXCEPT !.at = worker[s].at + 1] \in WorkerType
      BY <2>1, <3>9 DEF WorkerType
    <3>7. w \in WorkerType
      BY <2>1, <3>6, <3>9, <3>10 DEF WorkerType
    <3>8. w.pc = "rules" /\ w.n = worker[s].n /\ w.at = worker[s].at + 1
      BY <2>1, <3>6 DEF WorkerType
    <3>1. w \in WorkerType /\ w.pc = "rules" /\ w.n >= 1 /\ w.at >= 1
      <4> HIDE DEF w
      <4> QED BY <2>1, <3>6, <3>7, <3>8 DEF WorkerType
    <3>2. worker' = [worker EXCEPT ![s] = w] /\ UNCHANGED arrivals
      BY <1>19 DEF RuleBeats, hist
    <3> HIDE DEF w
    <3> QED BY <3>1, <3>2, WorkerUpdate DEF SoundWorker
  <2>3. StoreOK'
    <3> DEFINE id == <<rule(s).beat, outcome(s).labels>>
    <3>5. /\ rule(s) \in Rule /\ outcome(s) \in Outcome
          /\ rule(s).beat # NoMetric /\ outcome(s).labels # NoLabels
      BY <1>19, AtRuleTypes DEF RuleBeats, WorkerOK
    <3>1. id \in Id
      BY <3>5 DEF Id, Rule, Outcome
    <3>2. worker[s].now \in Float /\ Gauge \in Kind /\ HeartbeatHelp \in Help
      BY <2>1, TimeIsFloat, RouterAssumption DEF WorkerType, Kind
    <3> HIDE DEF id
    <3>3. IsPartialMap(SetSeries(series, id, Gauge, HeartbeatHelp, worker[s].now), Id, Entry)
      BY <3>1, <3>2, SetSeriesType DEF StoreOK
    <3>4. /\ series' = SetSeries(series, id, Gauge, HeartbeatHelp, worker[s].now)
          /\ UNCHANGED <<fresh, clock>>
      BY <1>19 DEF RuleBeats, id, hist
    <3> QED BY <3>3, <3>4 DEF StoreOK
  <2> QED BY <1>19, <2>1, <2>2, <2>3, Same DEF RuleBeats, self, hist
<1>20. ASSUME NEW s \in Source, NoSourceBeat(s)
      PROVE  TypeOK'
  <2>1. worker[s] \in WorkerType
    BY DEF WorkerOK
  <2>2. WorkerOK'
    <3> DEFINE w == [worker[s] EXCEPT !.pc = "report"]
    <3>1. w \in WorkerType /\ w.pc \notin {"rules", "beat"}
      BY <2>1 DEF WorkerType
    <3>2. worker' = [worker EXCEPT ![s] = w] /\ UNCHANGED arrivals
      BY <1>20 DEF NoSourceBeat, hist
    <3> HIDE DEF w
    <3> QED BY <3>1, <3>2, WorkerUpdate DEF SoundWorker
  <2> QED BY <1>20, <2>1, <2>2, Same DEF NoSourceBeat, self, hist
<1>21. ASSUME NEW s \in Source, SourceBeatFails(s)
      PROVE  TypeOK'
  <2>1. worker[s] \in WorkerType
    BY DEF WorkerOK
  <2>2. WorkerOK'
    <3> DEFINE w == [worker[s] EXCEPT !.pc = "report",
                                      !.problems = Append(@, Resolve[s][body(s)].err)]
    <3>3. Resolve[s][body(s)].err \in Error
      BY <1>21, AfterRulesTypes DEF SourceBeatFails, Resolved
    <3>4. Append(worker[s].problems, Resolve[s][body(s)].err) \in Seq(Error)
      BY <2>1, <3>3, AppendProperties DEF WorkerType
    <3>1. w \in WorkerType /\ w.pc \notin {"rules", "beat"}
      BY <2>1, <3>4 DEF WorkerType
    <3>2. worker' = [worker EXCEPT ![s] = w] /\ UNCHANGED arrivals
      BY <1>21 DEF SourceBeatFails, hist
    <3> HIDE DEF w
    <3> QED BY <3>1, <3>2, WorkerUpdate DEF SoundWorker
  <2> QED BY <1>21, <2>1, <2>2, Same DEF SourceBeatFails, self, hist
<1>22. ASSUME NEW s \in Source, SourceBeats(s)
      PROVE  TypeOK'
  <2>1. worker[s] \in WorkerType
    BY DEF WorkerOK
  <2>2. WorkerOK'
    <3> DEFINE w == [worker[s] EXCEPT !.pc = "report"]
    <3>1. w \in WorkerType /\ w.pc \notin {"rules", "beat"}
      BY <2>1 DEF WorkerType
    <3>2. worker' = [worker EXCEPT ![s] = w] /\ UNCHANGED arrivals
      BY <1>22 DEF SourceBeats, hist
    <3> HIDE DEF w
    <3> QED BY <3>1, <3>2, WorkerUpdate DEF SoundWorker
  <2>3. StoreOK'
    <3> DEFINE id == <<SourceBeat[s], Resolve[s][body(s)].labels>>
    <3>5. Resolve[s][body(s)] \in Resolved /\ SourceBeat[s] \in Metric
      BY <1>22, AfterRulesTypes, RouterAssumption DEF SourceBeats, beats
    <3>1. id \in Id
      BY <3>5 DEF Id, Resolved
    <3>2. worker[s].now \in Float /\ Gauge \in Kind /\ HeartbeatHelp \in Help
      BY <2>1, TimeIsFloat, RouterAssumption DEF WorkerType, Kind
    <3> HIDE DEF id
    <3>3. IsPartialMap(SetSeries(series, id, Gauge, HeartbeatHelp, worker[s].now), Id, Entry)
      BY <3>1, <3>2, SetSeriesType DEF StoreOK
    <3>4. /\ series' = SetSeries(series, id, Gauge, HeartbeatHelp, worker[s].now)
          /\ UNCHANGED <<fresh, clock>>
      BY <1>22 DEF SourceBeats, id, hist
    <3> QED BY <3>3, <3>4 DEF StoreOK
  <2> QED BY <1>22, <2>1, <2>2, <2>3, Same DEF SourceBeats, self, hist
<1>23. ASSUME NEW s \in Source, Report(s)
      PROVE  TypeOK'
  <2>1. worker[s] \in WorkerType
    BY DEF WorkerOK
  <2>2. WorkerOK'
    <3> DEFINE w == AtSelect("select")
    <3>1. w \in WorkerType /\ w.pc = "select"
      BY AtSelectIsSound
    <3>2. worker' = [worker EXCEPT ![s] = w] /\ UNCHANGED arrivals
      BY <1>23 DEF Report, hist
    <3> HIDE DEF w
    <3> QED BY <3>1, <3>2, WorkerUpdate DEF SoundWorker
  <2>3. SelfOK'
    <3> DEFINE count(r) == Cardinality({i \in DOMAIN worker[s].problems :
                                        reasonOf(worker[s].problems[i]) = r})
    <3>1. \A r \in Reason : count(r) \in Nat
      <4>1. IsFiniteSet(DOMAIN worker[s].problems)
        BY <2>1, FS_Interval DEF WorkerType
      <4> QED BY <4>1, FS_Subset, FS_CardinalityType
    <3>2. errors' = [errors EXCEPT ![s] = [r \in Reason |-> errors[s][r] + count(r)]]
      BY <1>23 DEF Report
    <3> HIDE DEF count
    <3>3. [r \in Reason |-> errors[s][r] + count(r)] \in [Reason -> Nat]
      BY <3>1 DEF SelfOK
    <3>4. UNCHANGED <<received, dropped>>
      BY <1>23 DEF Report
    <3> QED BY <3>2, <3>3, <3>4 DEF SelfOK
  <2> QED BY <1>23, <2>1, <2>2, <2>3, Same DEF Report, self, hist
<1>24. CASE UNCHANGED vars
  BY <1>24, Same DEF vars, self, hist
<1> QED BY <1>1, <1>2, <1>3, <1>4, <1>5, <1>6, <1>7, <1>8, <1>9, <1>10, <1>11, <1>12, <1>13, <1>14, <1>15, <1>16, <1>17, <1>18, <1>19, <1>20, <1>21, <1>22, <1>23, <1>24
        DEF Next, StopStep, DispatchStep, ConsumerStep, HandleStep

(***************************************************************************)
(* At first every variable is in its type.                                 *)
(***************************************************************************)
LEMMA InitType ==
  ASSUME Init
  PROVE  TypeOK
<1>1. arrivals = <<>> /\ Len(arrivals) = 0 /\ 0 \in 0 .. Len(arrivals)
  BY DEF Init
<1>2. LifeOK
  BY DEF Init, LifeOK
<1>3. ArrivalsOK
  BY DEF Init, ArrivalsOK
<1>4. CallOK
  BY DEF Init, CallOK, NoCall
<1>5. LifeOK /\ ArrivalsOK /\ CallOK
  BY <1>2, <1>3, <1>4
<1>6. AtSelect("none") \in WorkerType /\ AtSelect("none").pc = "none"
  BY <1>1 DEF AtSelect, WorkerType
<1>7. worker = [s \in Source |-> AtSelect("none")]
  BY DEF Init
<1>8. WorkerOK
  BY <1>6, <1>7 DEF WorkerOK
<1>9. StoreOK /\ SelfOK /\ QueuesOK
  BY DEF Init, StoreOK, SelfOK, QueuesOK, IsPartialMap, EmptyMap
<1> QED BY <1>5, <1>8, <1>9 DEF TypeOK

(***************************************************************************)
(* The type invariant, for any configuration.                              *)
(***************************************************************************)
THEOREM TypeCorrect == Spec => []TypeOK
<1>1. Init => TypeOK
  BY InitType
<1>2. TypeOK /\ [Next]_vars => TypeOK'
  BY TypeStep
<1> QED BY <1>1, <1>2, PTL DEF Spec

-----------------------------------------------------------------------------
(***************************************************************************)
(* Stop has waited for every consumer.                                     *)
(***************************************************************************)
AllExited == life = "stopped" => \A s \in Source : worker[s].pc = "exited"

(***************************************************************************)
(* A consumer that has returned takes no step.                             *)
(***************************************************************************)
LEMMA ExitedTakesNoStep ==
  ASSUME NEW s \in Source, worker[s].pc = "exited"
  PROVE  ~ConsumerStep(s)
<1>1. ~Take(s) /\ ~Exit(s)
  BY DEF Take, Exit
<1>2. ~RuleMisses(s) /\ ~RuleFails(s) /\ ~RuleYieldsNothing(s) /\ ~RuleWrites(s)
  BY DEF RuleMisses, RuleFails, RuleYieldsNothing, RuleWrites, atRule
<1>3. ~RuleBeats(s) /\ ~Report(s)
  BY DEF RuleBeats, Report
<1>4. ~NoSourceBeat(s) /\ ~SourceBeatFails(s) /\ ~SourceBeats(s)
  BY DEF NoSourceBeat, SourceBeatFails, SourceBeats, afterRules
<1> QED BY <1>1, <1>2, <1>3, <1>4 DEF ConsumerStep, HandleStep

(***************************************************************************)
(* A consumer's step is none of Start and Stop.                            *)
(***************************************************************************)
LEMMA ConsumerKeepsLife ==
  ASSUME NEW s \in Source, ConsumerStep(s)
  PROVE  UNCHANGED <<life, feeds, call, received>>
  BY DEF ConsumerStep, HandleStep, Take, Exit, RuleMisses, RuleFails,
         RuleYieldsNothing, RuleWrites, RuleBeats, NoSourceBeat, SourceBeatFails,
         SourceBeats, Report, self

(***************************************************************************)
(* A step of Dispatch leaves consumers and store alone.                    *)
(***************************************************************************)
LEMMA DispatchKeeps ==
  ASSUME DispatchStep \/ \E m \in Message : DispatchBegin(m)
  PROVE  UNCHANGED <<life, worker, series, errors, feeds, taken>>
  BY DEF DispatchStep, DispatchBegin, DispatchSkip, DispatchSend, DispatchCount,
         DispatchDrop, DispatchEnd, self, hist

LEMMA AllExitedStep ==
  ASSUME AllExited, [Next]_vars
  PROVE  AllExited'
<1>1. CASE CtxDone \/ Start \/ StopCall \/ StopStep
  BY <1>1 DEF CtxDone, Start, StopCall, StopStep, StopSwap, StopCancel, StopWait,
              AllExited
<1>2. CASE DispatchStep \/ \E m \in Message : DispatchBegin(m)
  BY <1>2, DispatchKeeps DEF AllExited
<1>3. ASSUME NEW s \in Source, ConsumerStep(s)
      PROVE  AllExited'
  BY <1>3, ExitedTakesNoStep, ConsumerKeepsLife DEF AllExited
<1>4. CASE UNCHANGED vars
  BY <1>4 DEF vars, AllExited
<1> QED BY <1>1, <1>2, <1>3, <1>4 DEF Next

(***************************************************************************)
(* Once Stop has returned nothing writes a series or counts: the consumers *)
(* are gone, and a late Dispatch finds no feed.                            *)
(***************************************************************************)
THEOREM StopIsFinal == Spec => StoppedIsQuiet
<1>1. Init => AllExited
  BY DEF Init, AllExited
<1>2. AllExited /\ [Next]_vars => AllExited'
  BY AllExitedStep
<1>3. TypeOK /\ AllExited /\ [Next]_vars
        => [life = "stopped" => UNCHANGED <<series, errors, received>>]_vars
  <2> SUFFICES ASSUME TypeOK, AllExited, [Next]_vars, life = "stopped"
               PROVE  UNCHANGED <<series, errors, received>>
    OBVIOUS
  <2>1. CASE CtxDone \/ Start \/ StopCall \/ StopStep
    BY <2>1 DEF CtxDone, Start, StopCall, StopStep, StopSwap, StopCancel, StopWait,
                self
  <2>2. CASE DispatchStep \/ \E m \in Message : DispatchBegin(m)
    <3>1. feeds = <<>> /\ call.pc # "sent"
      BY DEF TypeOK, LifeOK, CallOK
    <3>2. UNCHANGED received
      BY <2>2, <3>1 DEF DispatchStep, DispatchBegin, DispatchSkip, DispatchSend,
                        DispatchCount, DispatchDrop, DispatchEnd, self
    <3> QED BY <2>2, <3>2, DispatchKeeps
  <2>3. CASE \E s \in Source : ConsumerStep(s)
    BY <2>3, ExitedTakesNoStep DEF AllExited
  <2>4. CASE UNCHANGED vars
    BY <2>4 DEF vars, self
  <2> QED BY <2>1, <2>2, <2>3, <2>4 DEF Next
<1> QED BY <1>1, <1>2, <1>3, TypeCorrect, PTL DEF Spec, StoppedIsQuiet

-----------------------------------------------------------------------------
(***************************************************************************)
(* Lengths, as the step that counts needs them.                            *)
(***************************************************************************)
LEMMA LengthsAreNumbers ==
  ASSUME TypeOK, NEW s \in Source
  PROVE  /\ Len(chan[s]) \in Nat /\ Len(taken[s]) \in Nat /\ received[s] \in Nat
         /\ chan[s] \in Seq(1 .. Len(arrivals)) /\ taken[s] \in Seq(Taking)
  BY DEF TypeOK, QueuesOK, SelfOK

LEMMA ReceivedStep ==
  ASSUME TypeOK, ReceivedIsHanded, [Next]_vars
  PROVE  ReceivedIsHanded'
<1>0. /\ chan \in [Source -> Seq(1 .. Len(arrivals))] /\ taken \in [Source -> Seq(Taking)]
      /\ chan' \in [Source -> Seq(1 .. Len(arrivals'))] /\ taken' \in [Source -> Seq(Taking')]
  BY TypeStep DEF TypeOK, QueuesOK
<1>1. ASSUME UNCHANGED <<received, chan, taken>>,
             \A s \in Source : Uncounted(s)' = Uncounted(s)
      PROVE  ReceivedIsHanded'
  BY <1>1 DEF ReceivedIsHanded
<1>2. CASE CtxDone \/ StopCall \/ StopCancel \/ StopWait
  BY <1>1, <1>2 DEF CtxDone, StopCall, StopCancel, StopWait, Uncounted, self, hist
<1>3. CASE Start
  <2>1. Len(feeds) = 0 /\ call.pc # "sent"
    BY <1>3 DEF Start, TypeOK, LifeOK, CallOK
  <2> QED BY <1>1, <1>3, <2>1 DEF Start, Uncounted, self, hist
<1>4. CASE StopSwap
  BY <1>1, <1>4 DEF StopSwap, Uncounted, self, hist
<1>5. CASE DispatchSkip \/ DispatchDrop
  <2>1. call.pc = "loop" /\ call'.pc = "loop"
    BY <1>5 DEF DispatchSkip, DispatchDrop, atFeed, TypeOK, CallOK
  <2>2. UNCHANGED <<received, chan, taken>>
    BY <1>5 DEF DispatchSkip, DispatchDrop, self, hist
  <2> QED BY <1>1, <2>1, <2>2 DEF Uncounted
<1>6. CASE DispatchEnd \/ \E m \in Message : DispatchBegin(m)
  <2>1. call.pc # "sent" /\ call'.pc # "sent"
    <3>1. CASE DispatchEnd
      BY <3>1 DEF DispatchEnd, NoCall
    <3>2. CASE \E m \in Message : DispatchBegin(m)
      BY <3>2 DEF DispatchBegin
    <3> QED BY <1>6, <3>1, <3>2
  <2>2. UNCHANGED <<received, chan, taken>>
    BY <1>6 DEF DispatchEnd, DispatchBegin, self, hist
  <2> QED BY <1>1, <2>1, <2>2 DEF Uncounted
<1>7. CASE DispatchSend
  <2> DEFINE f == feeds[call.at]
  <2>1. f \in Source
    BY <1>7, FeedIsSource DEF DispatchSend
  <2>2. chan' = [chan EXCEPT ![f] = Append(@, Current)] /\ UNCHANGED <<received, taken>>
    BY <1>7 DEF DispatchSend, self, hist
  <2>3. chan \in [Source -> Seq(1 .. Len(arrivals))] /\ Current \in 1 .. Len(arrivals)
    BY <1>7, CurrentIsMessage DEF TypeOK, QueuesOK, DispatchSend, atFeed
  <2>4. Len(chan'[f]) = Len(chan[f]) + 1
        /\ \A s \in Source : s # f => chan'[s] = chan[s]
    BY <2>1, <2>2, <2>3, AppendProperties
  <2>5. \A s \in Source : Uncounted(s) = 0 /\ Uncounted(s)' = IF f = s THEN 1 ELSE 0
    BY <1>7 DEF DispatchSend, atFeed, Uncounted, TypeOK, CallOK
  <2> HIDE DEF f
  <2> SUFFICES ASSUME NEW t \in Source
               PROVE  received'[t] + Uncounted(t)' = Len(taken'[t]) + Len(chan'[t])
    BY DEF ReceivedIsHanded
  <2>9. received[t] + Uncounted(t) = Len(taken[t]) + Len(chan[t])
    BY DEF ReceivedIsHanded
  <2>10. Len(chan[t]) \in Nat /\ Len(taken[t]) \in Nat /\ received[t] \in Nat
    BY LengthsAreNumbers
  <2>11. CASE t = f
    <3>1. Uncounted(t) = 0 /\ Uncounted(t)' = 1
      BY <2>5, <2>11
    <3>2. Len(chan'[t]) = Len(chan[t]) + 1
      BY <2>4, <2>11
    <3>3. received'[t] = received[t] /\ taken'[t] = taken[t]
      BY <2>2
    <3> QED BY <1>0, <2>9, <2>10, <3>1, <3>2, <3>3
  <2>12. CASE t # f
    BY <1>0, <2>1, <2>2, <2>4, <2>5, <2>9, <2>10, <2>12
  <2> QED BY <2>11, <2>12
<1>8. CASE DispatchCount
  <2> DEFINE f == feeds[call.at]
  <2>1. f \in Source
    BY <1>8, FeedIsSource DEF DispatchCount
  <2>2. received' = [received EXCEPT ![f] = @ + 1] /\ UNCHANGED <<chan, taken>>
    BY <1>8 DEF DispatchCount, hist
  <2>3. received'[f] = received[f] + 1
        /\ \A s \in Source : s # f => received'[s] = received[s]
    BY <2>1, <2>2 DEF TypeOK, SelfOK
  <2>4. \A s \in Source : Uncounted(s)' = 0 /\ Uncounted(s) = IF f = s THEN 1 ELSE 0
    BY <1>8 DEF DispatchCount, Uncounted
  <2> HIDE DEF f
  <2> SUFFICES ASSUME NEW t \in Source
               PROVE  received'[t] + Uncounted(t)' = Len(taken'[t]) + Len(chan'[t])
    BY DEF ReceivedIsHanded
  <2>9. received[t] + Uncounted(t) = Len(taken[t]) + Len(chan[t])
    BY DEF ReceivedIsHanded
  <2>10. Len(chan[t]) \in Nat /\ Len(taken[t]) \in Nat /\ received[t] \in Nat
    BY LengthsAreNumbers
  <2>11. CASE t = f
    <3>1. Uncounted(t) = 1 /\ Uncounted(t)' = 0
      BY <2>4, <2>11
    <3>2. received'[t] = received[t] + 1
      BY <2>3, <2>11
    <3>3. chan'[t] = chan[t] /\ taken'[t] = taken[t]
      BY <2>2
    <3> QED BY <1>0, <2>9, <2>10, <3>1, <3>2, <3>3
  <2>12. CASE t # f
    BY <1>0, <2>1, <2>2, <2>3, <2>4, <2>9, <2>10, <2>12
  <2> QED BY <2>11, <2>12
<1>9. ASSUME NEW s \in Source, ConsumerStep(s)
      PROVE  ReceivedIsHanded'
  <2>1. \A t \in Source : Uncounted(t)' = Uncounted(t)
    BY <1>9, ConsumerKeepsLife DEF Uncounted
  <2>2. CASE Take(s)
    <3>1. /\ chan' = [chan EXCEPT ![s] = Tail(@)] /\ chan[s] # <<>>
          /\ taken' = [taken EXCEPT ![s] = Append(@, [n |-> Head(chan[s]), now |-> clock])]
          /\ UNCHANGED received
      BY <2>2 DEF Take, self
    <3>2. /\ chan \in [Source -> Seq(1 .. Len(arrivals))]
          /\ taken \in [Source -> Seq(Taking)] /\ clock \in Nat
      BY DEF TypeOK, QueuesOK, StoreOK
    <3>3. Len(Tail(chan[s])) = Len(chan[s]) - 1 /\ Head(chan[s]) \in 1 .. Len(arrivals)
      BY <3>1, <3>2, HeadTailProperties
    <3>4. [n |-> Head(chan[s]), now |-> clock] \in Taking
      BY <3>2, <3>3 DEF Taking
    <3>5. Len(Append(taken[s], [n |-> Head(chan[s]), now |-> clock])) = Len(taken[s]) + 1
      BY <3>2, <3>4, AppendProperties
    <3>6. /\ Len(chan'[s]) = Len(chan[s]) - 1 /\ Len(taken'[s]) = Len(taken[s]) + 1
          /\ \A t \in Source : t # s => chan'[t] = chan[t] /\ taken'[t] = taken[t]
      BY <3>1, <3>2, <3>3, <3>5
    <3> SUFFICES ASSUME NEW t \in Source
                 PROVE  received'[t] + Uncounted(t)' = Len(taken'[t]) + Len(chan'[t])
      BY DEF ReceivedIsHanded
    <3>9. received[t] + Uncounted(t) = Len(taken[t]) + Len(chan[t])
      BY DEF ReceivedIsHanded
    <3>10. Len(chan[t]) \in Nat /\ Len(taken[t]) \in Nat /\ received[t] \in Nat
      BY LengthsAreNumbers
    <3>11. Uncounted(t) \in Nat
      BY DEF Uncounted
    <3>12. CASE t = s
      <4>1. Len(chan'[t]) = Len(chan[t]) - 1 /\ Len(taken'[t]) = Len(taken[t]) + 1
        BY <3>6, <3>12
      <4>2. received'[t] = received[t] /\ Uncounted(t)' = Uncounted(t)
        BY <2>1, <3>1
      <4> QED BY <1>0, <3>9, <3>10, <3>11, <4>1, <4>2
    <3>13. CASE t # s
      BY <1>0, <2>1, <3>1, <3>6, <3>9, <3>10, <3>11, <3>13
    <3> QED BY <3>12, <3>13
  <2>3. CASE Exit(s) \/ HandleStep(s)
    <3>1. UNCHANGED <<received, chan, taken>>
      BY <2>3 DEF Exit, HandleStep, RuleMisses, RuleFails, RuleYieldsNothing,
                  RuleWrites, RuleBeats, NoSourceBeat, SourceBeatFails,
                  SourceBeats, Report, self, hist
    <3> QED BY <1>1, <2>1, <3>1
  <2> QED BY <1>9, <2>2, <2>3 DEF ConsumerStep
<1>10. CASE UNCHANGED vars
  BY <1>1, <1>10 DEF vars, self, hist, Uncounted
<1> QED BY <1>2, <1>3, <1>4, <1>5, <1>6, <1>7, <1>8, <1>9, <1>10
        DEF Next, StopStep, DispatchStep

(***************************************************************************)
(* messages_received_total counts exactly what was put into the channels,  *)
(* up to the one message whose count is still to come.                     *)
(***************************************************************************)
THEOREM ReceivedCounts == Spec => []ReceivedIsHanded
<1>1. Init => ReceivedIsHanded
  BY DEF Init, ReceivedIsHanded, Uncounted, NoCall
<1>2. TypeOK /\ ReceivedIsHanded /\ [Next]_vars => ReceivedIsHanded'
  BY ReceivedStep
<1> QED BY <1>1, <1>2, TypeCorrect, PTL DEF Spec

-----------------------------------------------------------------------------
(***************************************************************************)
(* EachOnce, source by source: what was accepted, a, and what was refused, *)
(* r, are together what is due, and apart.                                 *)
(***************************************************************************)
HandedOnce(a, r, due) ==
  /\ \A i, j \in DOMAIN a : i < j => a[i] < a[j]
  /\ Ran(a) \cap Ran(r) = {}
  /\ Ran(a) \cup Ran(r) = due

Due(s) == Arrived(s) \ Undecided(s)

(***************************************************************************)
(* The message Dispatch runs for came while feeds were published exactly   *)
(* if the feeds it goes through are some: they are not replaced meanwhile. *)
(***************************************************************************)
CallIsLive ==
  /\ life = "new" => call.pc = "idle"
  /\ call.pc # "idle" => arrivals[Current].live = (feeds # <<>>)

LEMMA CallIsLiveStep ==
  ASSUME TypeOK, CallIsLive, [Next]_vars
  PROVE  CallIsLive'
<1> USE DEF CallIsLive, Current
<1>1. CASE CtxDone \/ Start \/ StopCall \/ StopStep
  BY <1>1 DEF CtxDone, Start, StopCall, StopStep, StopSwap, StopCancel, StopWait, hist
<1>2. ASSUME NEW m \in Message, DispatchBegin(m)
      PROVE  CallIsLive'
  <2>1. /\ arrivals' = Append(arrivals, [body |-> m, live |-> feeds # <<>>])
        /\ life # "new" /\ UNCHANGED <<life, feeds>>
    BY <1>2 DEF DispatchBegin
  <2>2. arrivals \in Seq(Arrival) /\ [body |-> m, live |-> feeds # <<>>] \in Arrival
    BY DEF TypeOK, ArrivalsOK, Arrival
  <2>3. arrivals'[Len(arrivals')] = [body |-> m, live |-> feeds # <<>>]
    BY <2>1, <2>2
  <2> QED BY <2>1, <2>3
<1>3. CASE DispatchStep
  BY <1>3 DEF DispatchStep, DispatchSkip, DispatchSend, DispatchCount, DispatchDrop,
              DispatchEnd, NoCall, hist, atFeed
<1>4. ASSUME NEW s \in Source, ConsumerStep(s)
      PROVE  UNCHANGED <<life, call, feeds, arrivals>>
  BY <1>4 DEF ConsumerStep, HandleStep, Take, Exit, RuleMisses, RuleFails,
       RuleYieldsNothing, RuleWrites, RuleBeats, NoSourceBeat, SourceBeatFails,
       SourceBeats, Report, hist
<1>5. CASE UNCHANGED vars
  BY <1>5 DEF vars, hist
<1> QED BY <1>1, <1>2, <1>3, <1>4, <1>5 DEF Next

(***************************************************************************)
(* A message that is the latest is due at the end of what was accepted.    *)
(***************************************************************************)
LEMMA AppendHanded ==
  ASSUME NEW n \in Nat, NEW a \in Seq(1 .. n), NEW r \in Seq(1 .. n), NEW due,
         n \notin due, HandedOnce(a, r, due)
  PROVE  /\ HandedOnce(Append(a, n), r, due \cup {n})
         /\ HandedOnce(a, Append(r, n), due \cup {n})
<1>1. /\ n \notin Ran(a) /\ n \notin Ran(r)
      /\ \A i \in DOMAIN a : a[i] < n
  BY DEF HandedOnce, Ran
<1>2. ASSUME NEW q \in Seq(1 .. n)
      PROVE  Ran(Append(q, n)) = Ran(q) \cup {n}
  <2>1. DOMAIN Append(q, n) = DOMAIN q \cup {Len(q) + 1}
    OBVIOUS
  <2>2. Append(q, n)[Len(q) + 1] = n /\ \A i \in DOMAIN q : Append(q, n)[i] = q[i]
    OBVIOUS
  <2> QED BY <2>1, <2>2 DEF Ran
<1>3. ASSUME NEW i \in DOMAIN Append(a, n), NEW j \in DOMAIN Append(a, n), i < j
      PROVE  Append(a, n)[i] < Append(a, n)[j]
  <2>1. i \in DOMAIN a /\ Append(a, n)[i] = a[i]
    BY <1>3
  <2>2. CASE j \in DOMAIN a
    BY <1>3, <2>1, <2>2 DEF HandedOnce
  <2>3. CASE j = Len(a) + 1
    BY <1>1, <2>1, <2>3
  <2> QED BY <2>2, <2>3
<1> QED BY <1>1, <1>2, <1>3 DEF HandedOnce

(***************************************************************************)
(* What Accepted(s) is made of: the taken messages, then the waiting ones. *)
(***************************************************************************)
Numbers(t) == [i \in DOMAIN t |-> t[i].n]

LEMMA NumbersType ==
  ASSUME NEW n \in Nat, NEW t \in Seq([n : 1 .. n, now : Nat])
  PROVE  /\ Numbers(t) \in Seq(1 .. n) /\ Len(Numbers(t)) = Len(t)
         /\ DOMAIN Numbers(t) = 1 .. Len(t) /\ \A i \in 1 .. Len(t) : Numbers(t)[i] = t[i].n
<1> DEFINE T == [n : 1 .. n, now : Nat]
<1>1. Len(t) \in Nat /\ DOMAIN t = 1 .. Len(t) /\ \A i \in 1 .. Len(t) : t[i] \in T
  <2> HIDE DEF T
  <2>1. t \in Seq(T)
    BY DEF T
  <2> QED BY <2>1, LenProperties
<1>2. \A i \in 1 .. Len(t) : t[i].n \in 1 .. n
  BY <1>1
<1>3. Numbers(t) \in [1 .. Len(t) -> 1 .. n]
  BY <1>1, <1>2 DEF Numbers
<1>4. Numbers(t) \in Seq(1 .. n)
  <2>1. \A S : \A m \in Nat : [1 .. m -> S] \subseteq Seq(S)
    BY SeqDef
  <2> QED BY <1>1, <1>3, <2>1
<1>5. Len(Numbers(t)) = Len(t)
  BY <1>1, <1>3, <1>4
<1> QED BY <1>1, <1>3, <1>4, <1>5 DEF Numbers

LEMMA SendAppends ==
  ASSUME NEW S, NEW p \in Seq(S), NEW c \in Seq(S), NEW x \in S
  PROVE  p \o Append(c, x) = Append(p \o c, x)
  OBVIOUS

LEMMA TakeMoves ==
  ASSUME NEW n \in Nat, NEW t \in Seq([n : 1 .. n, now : Nat]), NEW c \in Seq(1 .. n),
         c # <<>>, NEW now \in Nat
  PROVE  Numbers(Append(t, [n |-> Head(c), now |-> now])) \o Tail(c) = Numbers(t) \o c
<1> DEFINE T == [n : 1 .. n, now : Nat]
           e == [n |-> Head(c), now |-> now]
<1>1. Head(c) \in 1 .. n /\ e \in T /\ Append(t, e) \in Seq(T)
  OBVIOUS
<1>2. Numbers(Append(t, e)) = Append(Numbers(t), Head(c))
  <2>1. /\ Numbers(t) \in Seq(1 .. n) /\ Len(Numbers(t)) = Len(t) /\ Len(t) \in Nat
        /\ \A i \in 1 .. Len(t) : Numbers(t)[i] = t[i].n
    <3>1. Len(t) \in Nat
      OBVIOUS
    <3> QED BY <3>1, NumbersType
  <2>2. /\ Len(Append(t, e)) = Len(t) + 1 /\ Append(t, e)[Len(t) + 1] = e
        /\ \A i \in 1 .. Len(t) : Append(t, e)[i] = t[i]
    <3> HIDE DEF T, e
    <3> QED BY <1>1, AppendProperties DEF T
  <2>3. /\ Numbers(Append(t, e)) \in Seq(1 .. n)
        /\ Len(Numbers(Append(t, e))) = Len(t) + 1
        /\ \A i \in 1 .. Len(t) + 1 : Numbers(Append(t, e))[i] = Append(t, e)[i].n
    <3> HIDE DEF e
    <3> QED BY <1>1, <2>2, NumbersType
  <2>4. /\ Append(Numbers(t), Head(c)) \in Seq(1 .. n)
        /\ Len(Append(Numbers(t), Head(c))) = Len(t) + 1
        /\ Append(Numbers(t), Head(c))[Len(t) + 1] = Head(c)
        /\ \A i \in 1 .. Len(t) : Append(Numbers(t), Head(c))[i] = Numbers(t)[i]
    BY <1>1, <2>1, AppendProperties
  <2>0. e.n = Head(c)
    OBVIOUS
  <2> HIDE DEF e
  <2>5. ASSUME NEW i \in 1 .. Len(t) + 1
        PROVE  Numbers(Append(t, e))[i] = Append(Numbers(t), Head(c))[i]
    <3>1. CASE i = Len(t) + 1
      BY <2>0, <2>1, <2>2, <2>3, <2>4, <3>1
    <3>2. CASE i \in 1 .. Len(t)
      BY <2>1, <2>2, <2>3, <2>4, <3>2
    <3> QED BY <2>1, <3>1, <3>2
  <2> QED BY <2>3, <2>4, <2>5, SeqEqual
<1>3. Append(Numbers(t), Head(c)) \o Tail(c) = Numbers(t) \o c
  <2>1. Numbers(t) \in Seq(1 .. n)
    BY NumbersType
  <2> QED BY <2>1
<1> QED BY <1>2, <1>3

-----------------------------------------------------------------------------
LEMMA AcceptedType ==
  ASSUME TypeOK, NEW s \in Source
  PROVE  /\ Current \in Nat
         /\ Accepted(s) = Numbers(taken[s]) \o chan[s]
         /\ Accepted(s) \in Seq(1 .. Current) /\ refused[s] \in Seq(1 .. Current)
         /\ chan[s] \in Seq(1 .. Current)
         /\ taken[s] \in Seq([n : 1 .. Current, now : Nat])
<1>1. Current \in Nat
  BY DEF TypeOK, ArrivalsOK, Current
<1>2. /\ chan[s] \in Seq(1 .. Current) /\ refused[s] \in Seq(1 .. Current)
      /\ taken[s] \in Seq([n : 1 .. Current, now : Nat])
  BY DEF TypeOK, QueuesOK, Taking, Current
<1>3. Accepted(s) = Numbers(taken[s]) \o chan[s]
  BY DEF Accepted, Numbers
<1>4. Numbers(taken[s]) \in Seq(1 .. Current)
  BY <1>1, <1>2, NumbersType
<1>5. Accepted(s) \in Seq(1 .. Current)
  BY <1>2, <1>3, <1>4, ConcatProperties
<1> QED BY <1>1, <1>2, <1>3, <1>5

(***************************************************************************)
(* The message Dispatch runs for is undecided for the source it looks at,  *)
(* and decided for it afterwards, since no source has two feeds.           *)
(***************************************************************************)
LEMMA AtFeedIsUndecided ==
  ASSUME TypeOK, atFeed, NEW f \in Source, f = feeds[call.at]
  PROVE  Undecided(f) = {Current}
<1>1. call.at \in DOMAIN feeds
  BY FeedIsSource
<1> QED BY <1>1 DEF Undecided, atFeed, TypeOK, CallOK

LEMMA PassedIsDecided ==
  ASSUME TypeOK, atFeed, UNCHANGED <<feeds, arrivals>>,
         \/ call' = [call EXCEPT !.pc = "sent"]
         \/ call' = [call EXCEPT !.at = @ + 1],
         NEW f \in Source, f = feeds[call.at]
  PROVE  /\ Undecided(f)' = {}
         /\ \A s \in Source : s # f => Undecided(s)' = Undecided(s)
<1>1. /\ call.at \in DOMAIN feeds /\ call.at \in Nat /\ DOMAIN feeds \subseteq Nat
      /\ feeds = SourceList
  <2>1. call.at \in DOMAIN feeds
    BY FeedIsSource
  <2>2. feeds = SourceList
    BY <2>1 DEF TypeOK, LifeOK
  <2> QED BY <2>1, <2>2, RouterAssumption DEF TypeOK, CallOK
<1>2. /\ call.pc = "loop" /\ call'.pc \in {"loop", "sent"}
      /\ call'.pc = "sent" => call'.at = call.at
      /\ call'.pc = "loop" => call'.at = call.at + 1
  BY DEF atFeed, TypeOK, CallOK
<1>3. \A i \in DOMAIN feeds : feeds[i] = f => i = call.at
  BY <1>1, RouterAssumption
<1>4. \A i \in DOMAIN feeds :
        (call'.pc = "loop" /\ i >= call'.at) \/ (call'.pc = "sent" /\ i > call'.at)
          <=> i > call.at
  BY <1>1, <1>2
<1>5. Undecided(f)' = {}
  BY <1>1, <1>3, <1>4 DEF Undecided
<1>6. ASSUME NEW s \in Source, s # f
      PROVE  Undecided(s)' = Undecided(s)
  <2>1. \A i \in DOMAIN feeds : feeds[i] = s => (i > call.at <=> i >= call.at)
    BY <1>1, <1>6
  <2> QED BY <1>1, <1>2, <1>4, <2>1 DEF Undecided, Current
<1> QED BY <1>5, <1>6

(***************************************************************************)
(* A step that decides nothing.                                            *)
(***************************************************************************)
LEMMA DueStays ==
  ASSUME EachOnce, UNCHANGED <<chan, taken, refused>>, \A s \in Source : Due(s)' = Due(s)
  PROVE  EachOnce'
  BY DEF EachOnce, Due, Accepted

LEMMA BeginIsUndecided ==
  ASSUME TypeOK, EachOnce, NEW m \in Message, DispatchBegin(m)
  PROVE  EachOnce'
<1> DEFINE new == [body |-> m, live |-> feeds # <<>>]
<1>1. /\ arrivals' = Append(arrivals, new) /\ call.pc = "idle"
      /\ call' = [pc |-> "loop", at |-> 1]
      /\ UNCHANGED <<feeds, chan, taken, refused>>
  BY DEF DispatchBegin
<1>2. arrivals \in Seq(Arrival) /\ new \in Arrival
  BY DEF TypeOK, ArrivalsOK, Arrival
<1>3. /\ DOMAIN arrivals' = DOMAIN arrivals \cup {Current'} /\ Current' = Len(arrivals) + 1
      /\ arrivals'[Current'] = new /\ Current' \notin DOMAIN arrivals
      /\ \A n \in DOMAIN arrivals : arrivals'[n] = arrivals[n]
  BY <1>1, <1>2 DEF Current
<1>4. ASSUME NEW s \in Source
      PROVE  Due(s)' = Due(s)
  <2>1. Undecided(s) = {}
    BY <1>1 DEF Undecided
  <2>2. Arrived(s)' \ {Current'} = Arrived(s)
    BY <1>3 DEF Arrived, owns
  <2>3. CASE feeds # <<>>
    <3>1. \E i \in DOMAIN feeds : feeds[i] = s /\ i >= 1
      BY <2>3, RouterAssumption DEF TypeOK, LifeOK
    <3>2. Undecided(s)' = {Current'}
      BY <1>1, <3>1 DEF Undecided
    <3> QED BY <2>1, <2>2, <3>2 DEF Due
  <2>4. CASE feeds = <<>>
    <3>1. ~arrivals'[Current'].live
      <4>1. ~new.live
        BY <2>4
      <4> QED BY <1>3, <4>1
    <3>2. Current' \notin Arrived(s)'
      BY <3>1 DEF Arrived
    <3>3. Undecided(s)' = {}
      BY <1>1, <2>4 DEF Undecided
    <3> QED BY <2>1, <2>2, <3>2, <3>3 DEF Due
  <2> QED BY <2>3, <2>4
<1> QED BY <1>1, <1>4, DueStays

(***************************************************************************)
(* The message is sent, or refused: in both cases it was due and last.     *)
(***************************************************************************)
LEMMA Decided ==
  ASSUME TypeOK, CallIsLive, EachOnce, DispatchSend \/ DispatchDrop
  PROVE  EachOnce'
<1>0. PICK f \in Source : f = feeds[call.at]
  BY FeedIsSource DEF DispatchSend, DispatchDrop
<1>1. /\ atFeed /\ owns(f, Current) /\ UNCHANGED <<feeds, arrivals, taken>>
      /\ \/ call' = [call EXCEPT !.pc = "sent"]
         \/ call' = [call EXCEPT !.at = @ + 1]
      /\ \/ /\ chan' = [chan EXCEPT ![f] = Append(@, Current)] /\ UNCHANGED refused
         \/ /\ refused' = [refused EXCEPT ![f] = Append(@, Current)] /\ UNCHANGED chan
  BY <1>0 DEF DispatchSend, DispatchDrop, hist
<1>2. f \in Source /\ call.at \in DOMAIN feeds
  BY <1>0, <1>1, FeedIsSource
<1>3. Undecided(f) = {Current} /\ Undecided(f)' = {}
  BY <1>0, <1>1, AtFeedIsUndecided, PassedIsDecided
<1>4. \A s \in Source : s # f => Undecided(s)' = Undecided(s)
  BY <1>0, <1>1, PassedIsDecided
<1>5. \A s \in Source : Arrived(s)' = Arrived(s)
  BY <1>1 DEF Arrived, owns
<1>6. Current \in Arrived(f)
  <2>1. Current \in DOMAIN arrivals /\ arrivals[Current].live
    <3>1. feeds # <<>> /\ call.pc # "idle"
      BY <1>1, <1>2 DEF atFeed
    <3>2. Current \in DOMAIN arrivals
      BY <3>1, CurrentIsMessage DEF TypeOK, ArrivalsOK
    <3> QED BY <3>1, <3>2 DEF CallIsLive
  <2> QED BY <1>1, <2>1 DEF Arrived
<1>7. Due(f)' = Due(f) \cup {Current} /\ Current \notin Due(f)
  BY <1>3, <1>5, <1>6, <1>2 DEF Due
<1>8. /\ chan \in [Source -> Seq(1 .. Len(arrivals))]
      /\ refused \in [Source -> Seq(1 .. Len(arrivals))]
  BY DEF TypeOK, QueuesOK
<1>9. ASSUME NEW s \in Source
      PROVE  HandedOnce(Accepted(s)', refused'[s], Due(s)')
  <2>1. HandedOnce(Accepted(s), refused[s], Due(s))
    BY DEF EachOnce, HandedOnce, Due
  <2>2. CASE s # f
    <3>1. chan'[s] = chan[s] /\ refused'[s] = refused[s] /\ taken'[s] = taken[s]
      BY <1>1, <1>8, <2>2
    <3>2. Due(s)' = Due(s)
      BY <1>4, <1>5, <2>2 DEF Due
    <3>3. Accepted(s)' = Accepted(s)
      BY <3>1 DEF Accepted
    <3> QED BY <2>1, <3>1, <3>2, <3>3
  <2>3. CASE s = f
    <3>1. /\ Current \in Nat /\ Current \notin Due(s) /\ Current \in 1 .. Current
          /\ Accepted(s) \in Seq(1 .. Current) /\ refused[s] \in Seq(1 .. Current)
      <4>1. Current \in 1 .. Len(arrivals)
        BY <1>1, CurrentIsMessage DEF atFeed
      <4> QED BY <1>7, <2>3, <4>1, AcceptedType DEF Current
    <3>2. /\ HandedOnce(Append(Accepted(s), Current), refused[s], Due(s)')
          /\ HandedOnce(Accepted(s), Append(refused[s], Current), Due(s)')
      BY <1>7, <2>1, <2>3, <3>1, AppendHanded
    <3>3. CASE chan' = [chan EXCEPT ![f] = Append(@, Current)] /\ UNCHANGED refused
      <4>1. Accepted(s)' = Numbers(taken[s]) \o Append(chan[s], Current)
        BY <1>1, <1>8, <2>3, <3>3 DEF Accepted, Numbers
      <4>2. /\ Numbers(taken[s]) \in Seq(1 .. Current)
            /\ chan[s] \in Seq(1 .. Current)
            /\ Accepted(s) = Numbers(taken[s]) \o chan[s]
        BY AcceptedType, NumbersType
      <4>3. Numbers(taken[s]) \o Append(chan[s], Current)
              = Append(Numbers(taken[s]) \o chan[s], Current)
        <5> DEFINE p == Numbers(taken[s])
                   c == chan[s]
        <5>1. p \in Seq(1 .. Current) /\ c \in Seq(1 .. Current)
          BY <4>2
        <5> HIDE DEF p, c
        <5>2. p \o Append(c, Current) = Append(p \o c, Current)
          BY <3>1, <5>1, SendAppends
        <5> QED BY <5>2 DEF p, c
      <4> QED BY <3>2, <3>3, <4>1, <4>2, <4>3
    <3>4. CASE refused' = [refused EXCEPT ![f] = Append(@, Current)] /\ UNCHANGED chan
      <4>1. refused'[s] = Append(refused[s], Current)
        BY <1>8, <2>3, <3>4
      <4>2. Accepted(s)' = Accepted(s)
        BY <1>1, <3>4 DEF Accepted
      <4> QED BY <3>2, <4>1, <4>2
    <3> QED BY <1>1, <3>3, <3>4
  <2> QED BY <2>2, <2>3
<1> QED BY <1>9 DEF EachOnce, HandedOnce, Due

(***************************************************************************)
(* A consumer takes the message that waits longest.                        *)
(***************************************************************************)
LEMMA TakeKeeps ==
  ASSUME TypeOK, EachOnce, NEW s \in Source, Take(s)
  PROVE  EachOnce'
<1>1. /\ chan' = [chan EXCEPT ![s] = Tail(@)] /\ chan[s] # <<>>
      /\ taken' = [taken EXCEPT ![s] = Append(@, [n |-> Head(chan[s]), now |-> clock])]
      /\ UNCHANGED <<feeds, call, arrivals, refused>>
  BY DEF Take
<1>2. /\ chan \in [Source -> Seq(1 .. Len(arrivals))]
      /\ taken \in [Source -> Seq(Taking)] /\ clock \in Nat
  BY DEF TypeOK, QueuesOK, StoreOK
<1>3. ASSUME NEW t \in Source
      PROVE  Due(t)' = Due(t)
  BY <1>1 DEF Due, Arrived, owns, Undecided, Current
<1>4. ASSUME NEW t \in Source
      PROVE  Accepted(t)' = Accepted(t)
  <2>1. CASE t # s
    BY <1>1, <1>2, <2>1 DEF Accepted
  <2>2. CASE t = s
    <3>1. Accepted(s)' = Numbers(Append(taken[s], [n |-> Head(chan[s]), now |-> clock]))
                           \o Tail(chan[s])
      BY <1>1, <1>2 DEF Accepted, Numbers
    <3>2. Accepted(s) = Numbers(taken[s]) \o chan[s]
      BY AcceptedType
    <3>3. Accepted(s)' = Accepted(s)
      BY <1>1, <1>2, <3>1, <3>2, AcceptedType, TakeMoves
    <3> QED BY <2>2, <3>3
  <2> QED BY <2>1, <2>2
<1> QED BY <1>1, <1>3, <1>4 DEF EachOnce, Due

LEMMA EachOnceStep ==
  ASSUME TypeOK, CallIsLive, EachOnce, [Next]_vars
  PROVE  EachOnce'
<1>1. ASSUME UNCHANGED <<feeds, call, chan, arrivals, taken, refused>>
      PROVE  EachOnce'
  BY <1>1, DueStays DEF Due, Arrived, owns, Undecided, Current
<1>2. CASE CtxDone \/ StopCall \/ StopCancel \/ StopWait
  BY <1>1, <1>2 DEF CtxDone, StopCall, StopCancel, StopWait, hist
<1>3. CASE Start \/ StopSwap
  <2>1. call.pc = "idle" /\ UNCHANGED <<call, chan, arrivals, taken, refused>>
    BY <1>3 DEF Start, StopSwap, CallIsLive, hist
  <2> QED BY <2>1, DueStays DEF Due, Arrived, owns, Undecided
<1>4. CASE DispatchSkip
  <2>1. /\ atFeed /\ call' = [call EXCEPT !.at = @ + 1]
        /\ UNCHANGED <<feeds, chan, arrivals, taken, refused>>
    BY <1>4 DEF DispatchSkip, hist
  <2>2. PICK f \in Source : f = feeds[call.at] /\ ~owns(f, Current)
    BY <1>4, FeedIsSource DEF DispatchSkip
  <2>3. /\ Undecided(f) = {Current} /\ Undecided(f)' = {}
        /\ \A s \in Source : s # f => Undecided(s)' = Undecided(s)
    BY <2>1, <2>2, AtFeedIsUndecided, PassedIsDecided
  <2>4. Current \notin Arrived(f)
    BY <2>2 DEF Arrived
  <2>5. \A s \in Source : Arrived(s)' = Arrived(s)
    BY <2>1 DEF Arrived, owns
  <2>6. ASSUME NEW s \in Source
        PROVE  Due(s)' = Due(s)
    <3>1. CASE s = f
      BY <2>3, <2>4, <2>5, <3>1 DEF Due
    <3>2. CASE s # f
      BY <2>3, <2>5, <3>2 DEF Due
    <3> QED BY <3>1, <3>2
  <2> QED BY <2>1, <2>6, DueStays
<1>5. CASE DispatchCount
  <2>1. /\ call.pc = "sent" /\ call' = [pc |-> "loop", at |-> call.at + 1]
        /\ UNCHANGED <<feeds, chan, arrivals, taken, refused>>
    BY <1>5 DEF DispatchCount, hist
  <2>2. call.at \in Nat /\ DOMAIN feeds \subseteq Nat
    BY RouterAssumption DEF TypeOK, CallOK, LifeOK
  <2>3. \A i \in DOMAIN feeds : i > call.at <=> i >= call.at + 1
    BY <2>2
  <2>4. \A s \in Source : Due(s)' = Due(s)
    BY <2>1, <2>3 DEF Due, Arrived, owns, Undecided, Current
  <2> QED BY <2>1, <2>4, DueStays
<1>6. CASE DispatchEnd
  <2>1. /\ call.pc = "loop" /\ call.at > Len(feeds) /\ call' = NoCall
        /\ UNCHANGED <<feeds, chan, arrivals, taken, refused>>
    BY <1>6 DEF DispatchEnd, hist
  <2>2. call.at \in Nat /\ feeds \in Seq(Source)
    BY RouterAssumption DEF TypeOK, CallOK, LifeOK
  <2>3. \A i \in DOMAIN feeds : ~(i >= call.at)
    BY <2>1, <2>2
  <2>4. \A s \in Source : Due(s)' = Due(s)
    BY <2>1, <2>3 DEF Due, Arrived, owns, Undecided, NoCall
  <2> QED BY <2>1, <2>4, DueStays
<1>7. CASE DispatchSend \/ DispatchDrop
  BY <1>7, Decided
<1>8. CASE \E m \in Message : DispatchBegin(m)
  BY <1>8, BeginIsUndecided
<1>9. ASSUME NEW s \in Source, ConsumerStep(s)
      PROVE  EachOnce'
  <2>1. CASE Take(s)
    BY <2>1, TakeKeeps
  <2>2. CASE Exit(s) \/ HandleStep(s)
    BY <1>1, <2>2 DEF Exit, HandleStep, RuleMisses, RuleFails, RuleYieldsNothing,
         RuleWrites, RuleBeats, NoSourceBeat, SourceBeatFails, SourceBeats, Report, hist
  <2> QED BY <1>9, <2>1, <2>2 DEF ConsumerStep
<1>10. CASE UNCHANGED vars
  BY <1>1, <1>10 DEF vars, hist
<1> QED BY <1>2, <1>3, <1>4, <1>5, <1>6, <1>7, <1>8, <1>9, <1>10
        DEF Next, StopStep, DispatchStep

(***************************************************************************)
(* Every message that came while the feeds were published is accepted or   *)
(* counted as dropped by each source that owns it, exactly once, and the   *)
(* accepted ones are taken in their order.                                 *)
(***************************************************************************)
THEOREM HandedExactlyOnce == Spec => []EachOnce
<1>1. Init => CallIsLive
  BY DEF Init, CallIsLive, NoCall
<1>2. ASSUME Init
      PROVE  EachOnce
  <2>1. \A s \in Source : Accepted(s) = <<>> /\ refused[s] = <<>> /\ Arrived(s) = {}
    BY <1>2 DEF Init, Accepted, Arrived
  <2> QED BY <2>1 DEF EachOnce, Ran
<1> QED BY <1>1, <1>2, TypeCorrect, CallIsLiveStep, EachOnceStep, PTL DEF Spec

-----------------------------------------------------------------------------
(***************************************************************************)
(* Where the store and the history of values change, and that a consumer   *)
(* comes to a heartbeat by the value before it only.                       *)
(***************************************************************************)
LEMMA OnlyTheseWrite ==
  ASSUME TypeOK, [Next]_vars
  PROVE  \/ \E s \in Source : RuleWrites(s) \/ RuleBeats(s) \/ SourceBeats(s)
         \/ /\ UNCHANGED <<series, fresh>>
            /\ \A s \in Source : worker'[s].pc = "beat" => worker'[s] = worker[s]
<1> DEFINE Quiet == /\ UNCHANGED <<series, fresh>>
                    /\ \A s \in Source : worker'[s].pc = "beat" => worker'[s] = worker[s]
<1>0. worker \in [Source -> WorkerType]
  BY DEF TypeOK, WorkerOK
<1>1. CASE \/ CtxDone \/ StopCall \/ StopStep \/ DispatchStep \/ UNCHANGED vars
           \/ \E m \in Message : DispatchBegin(m)
  BY <1>1 DEF CtxDone, StopCall, StopStep, StopSwap, StopCancel, StopWait,
              DispatchStep, DispatchSkip, DispatchSend, DispatchCount, DispatchDrop,
              DispatchEnd, DispatchBegin, vars, hist
<1>2. CASE Start
  BY <1>2 DEF Start, hist, AtSelect
<1>3. ASSUME NEW s \in Source,
             \/ Take(s) \/ Exit(s) \/ RuleMisses(s) \/ RuleFails(s) \/ RuleYieldsNothing(s)
             \/ NoSourceBeat(s) \/ SourceBeatFails(s) \/ Report(s)
      PROVE  Quiet
  <2>1. worker'[s].pc # "beat" /\ \A q \in Source \ {s} : worker'[q] = worker[q]
    <3>0. worker[s] \in WorkerType
      BY <1>0
    <3>1. CASE Take(s) \/ Exit(s)
      BY <1>0, <3>0, <3>1 DEF Take, Exit, WorkerType
    <3>2. CASE RuleMisses(s)
      BY <1>0, <3>0, <3>2 DEF RuleMisses, atRule, WorkerType
    <3>6. CASE RuleYieldsNothing(s)
      BY <1>0, <3>0, <3>6 DEF RuleYieldsNothing, atRule, WorkerType
    <3>3. CASE RuleFails(s)
      BY <1>0, <3>0, <3>3 DEF RuleFails, atRule, WorkerType
    <3>4. CASE NoSourceBeat(s) \/ SourceBeatFails(s)
      BY <1>0, <3>0, <3>4 DEF NoSourceBeat, SourceBeatFails, WorkerType
    <3>5. CASE Report(s)
      BY <3>5 DEF Report, AtSelect
    <3> QED BY <1>3, <3>1, <3>2, <3>3, <3>4, <3>5, <3>6
  <2>2. UNCHANGED <<series, fresh>>
    BY <1>3 DEF Take, Exit, RuleMisses, RuleFails, RuleYieldsNothing, NoSourceBeat,
                SourceBeatFails, Report, hist
  <2> QED BY <1>0, <2>1, <2>2
<1> QED BY <1>1, <1>2, <1>3 DEF Next, ConsumerStep, HandleStep

(***************************************************************************)
(* Between the value and its heartbeat: the value is there, and as late as *)
(* the heartbeat will say.                                                 *)
(***************************************************************************)
BeatIsDue ==
  \A s \in Source : worker[s].pc = "beat" =>
    LET id == <<rule(s).metric, outcome(s).labels>>
    IN  id \in DOMAIN fresh /\ fresh[id] >= worker[s].now

(***************************************************************************)
(* A message, once it is taken, is the same for ever.                      *)
(***************************************************************************)
LEMMA ArrivalsGrow ==
  ASSUME TypeOK, [Next]_vars
  PROVE  \A n \in 1 .. Len(arrivals) : arrivals'[n] = arrivals[n]
<1>1. arrivals \in Seq(Arrival)
  BY DEF TypeOK, ArrivalsOK
<1>2. arrivals' = arrivals \/ \E m \in Message :
        arrivals' = Append(arrivals, [body |-> m, live |-> feeds # <<>>])
  BY DEF Next, vars, hist, CtxDone, Start, StopCall, StopStep, StopSwap, StopCancel,
         StopWait, DispatchBegin, DispatchStep, DispatchSkip, DispatchSend,
         DispatchCount, DispatchDrop, DispatchEnd, ConsumerStep, HandleStep, Take, Exit,
         RuleMisses, RuleFails, RuleYieldsNothing, RuleWrites, RuleBeats, NoSourceBeat,
         SourceBeatFails, SourceBeats, Report
<1>3. CASE arrivals' = arrivals
  BY <1>3
<1>4. ASSUME NEW a, arrivals' = Append(arrivals, a)
      PROVE  \A n \in 1 .. Len(arrivals) : arrivals'[n] = arrivals[n]
  BY <1>1, <1>4
<1> QED BY <1>2, <1>3, <1>4

(***************************************************************************)
(* A message keeps its number, so what a rule makes of it stays the same.  *)
(***************************************************************************)
LEMMA SameMessage ==
  ASSUME TypeOK, [Next]_vars, NEW s \in Source,
         worker[s].pc \in {"rules", "beat"}, worker'[s].n = worker[s].n
  PROVE  body(s)' = body(s)
<1>1. worker[s].n \in 1 .. Len(arrivals)
  BY DEF TypeOK, WorkerOK, WorkerType
<1> QED BY <1>1, ArrivalsGrow DEF body

(***************************************************************************)
(* The time of the latest value of a series never goes back.               *)
(***************************************************************************)
LEMMA FreshGrows ==
  ASSUME TypeOK, NEW s \in Source, RuleWrites(s)
  PROVE  LET id == <<rule(s).metric, outcome(s).labels>>
         IN  /\ \A i \in DOMAIN fresh : i \in DOMAIN fresh' /\ fresh'[i] >= fresh[i]
             /\ id \in DOMAIN fresh' /\ fresh'[id] >= worker[s].now
<1> DEFINE id == <<rule(s).metric, outcome(s).labels>>
<1>1. \A i \in DOMAIN fresh : fresh[i] \in Nat
  BY DEF TypeOK, StoreOK, IsPartialMap
<1>2. worker[s].now \in Nat
  BY DEF TypeOK, WorkerOK, WorkerType
<1>3. fresh' = IF id \in DOMAIN fresh /\ fresh[id] > worker[s].now
               THEN fresh ELSE Extend(fresh, id, worker[s].now)
  BY DEF RuleWrites
<1> HIDE DEF id
<1>4. CASE id \in DOMAIN fresh /\ fresh[id] > worker[s].now
  BY <1>1, <1>2, <1>3, <1>4 DEF id
<1>5. CASE ~(id \in DOMAIN fresh /\ fresh[id] > worker[s].now)
  <2>1. fresh' = Extend(fresh, id, worker[s].now)
    BY <1>3, <1>5
  <2>2. /\ DOMAIN fresh' = DOMAIN fresh \cup {id}
        /\ \A i \in DOMAIN fresh' : fresh'[i] = IF i = id THEN worker[s].now ELSE fresh[i]
    BY <2>1 DEF Extend
  <2>3. ASSUME NEW i \in DOMAIN fresh
        PROVE  i \in DOMAIN fresh' /\ fresh'[i] >= fresh[i]
    BY <1>1, <1>2, <1>5, <2>2, <2>3
  <2>4. id \in DOMAIN fresh' /\ fresh'[id] >= worker[s].now
    BY <1>2, <2>2
  <2> QED BY <2>3, <2>4 DEF id
<1> QED BY <1>4, <1>5

LEMMA BeatIsDueStep ==
  ASSUME TypeOK, BeatIsDue, [Next]_vars
  PROVE  BeatIsDue'
<1>0. TypeOK' /\ worker \in [Source -> WorkerType]
  BY TypeStep DEF TypeOK, WorkerOK
<1> SUFFICES ASSUME NEW q \in Source, worker'[q].pc = "beat"
             PROVE  /\ <<rule(q)'.metric, outcome(q)'.labels>> \in DOMAIN fresh'
                    /\ fresh'[<<rule(q)'.metric, outcome(q)'.labels>>] >= worker'[q].now
  BY DEF BeatIsDue
<1>1. ASSUME worker'[q] = worker[q],
             \A i \in DOMAIN fresh : i \in DOMAIN fresh' /\ fresh'[i] >= fresh[i]
      PROVE  /\ <<rule(q)'.metric, outcome(q)'.labels>> \in DOMAIN fresh'
             /\ fresh'[<<rule(q)'.metric, outcome(q)'.labels>>] >= worker'[q].now
  <2>1. body(q)' = body(q)
    BY <1>1, SameMessage
  <2>2. rule(q)' = rule(q) /\ outcome(q)' = outcome(q)
    BY <1>1, <2>1 DEF rule, outcome
  <2> DEFINE id == <<rule(q).metric, outcome(q).labels>>
  <2>3. id \in DOMAIN fresh /\ fresh[id] >= worker[q].now
    BY <1>1 DEF BeatIsDue
  <2>4. fresh[id] \in Nat /\ worker[q].now \in Nat
    BY <1>0, <2>3 DEF TypeOK, StoreOK, IsPartialMap, WorkerType
  <2> HIDE DEF id
  <2>6. id \in DOMAIN fresh' /\ fresh'[id] >= fresh[id]
    BY <1>1, <2>3
  <2>7. fresh'[id] \in Nat
    BY <1>0, <2>6 DEF TypeOK, StoreOK, IsPartialMap
  <2>8. fresh'[id] >= worker'[q].now
    BY <1>1, <2>3, <2>4, <2>6, <2>7
  <2> QED BY <2>2, <2>6, <2>8 DEF id
<1>2. CASE UNCHANGED <<series, fresh>> /\ \A s \in Source : worker'[s].pc = "beat" => worker'[s] = worker[s]
  <2>1. \A i \in DOMAIN fresh : fresh[i] \in Nat
    BY DEF TypeOK, StoreOK, IsPartialMap
  <2> QED BY <1>1, <1>2, <2>1
<1>3. ASSUME NEW s \in Source, RuleWrites(s)
      PROVE  /\ <<rule(q)'.metric, outcome(q)'.labels>> \in DOMAIN fresh'
             /\ fresh'[<<rule(q)'.metric, outcome(q)'.labels>>] >= worker'[q].now
  <2>1. CASE q # s
    <3>1. worker'[q] = worker[q]
      BY <1>0, <1>3, <2>1 DEF RuleWrites
    <3> QED BY <1>1, <1>3, <3>1, FreshGrows
  <2>2. CASE q = s
    <3>0. worker[s] \in WorkerType /\ worker[s].pc = "rules"
      BY <1>0, <1>3 DEF RuleWrites, atRule
    <3>1. worker'[s].n = worker[s].n /\ worker'[s].at = worker[s].at /\ worker'[s].now = worker[s].now
      <4>1. CASE rule(s).beat # NoMetric
        BY <1>0, <1>3, <3>0, <4>1 DEF RuleWrites, WorkerType
      <4>2. CASE rule(s).beat = NoMetric
        <5>1. worker'[s] = [worker[s] EXCEPT !.at = @ + 1, !.matched = TRUE]
          BY <1>0, <1>3, <4>2 DEF RuleWrites
        <5>2. worker'[s].pc = "rules"
          BY <3>0, <5>1 DEF WorkerType
        <5> QED BY <2>2, <5>2
      <4> QED BY <4>1, <4>2
    <3>2. body(s)' = body(s)
      BY <3>0, <3>1, SameMessage
    <3>3. rule(s)' = rule(s) /\ outcome(s)' = outcome(s)
      BY <3>1, <3>2 DEF rule, outcome
    <3> QED BY <1>3, <2>2, <3>1, <3>3, FreshGrows
  <2> QED BY <2>1, <2>2
<1>4. ASSUME NEW s \in Source, RuleBeats(s) \/ SourceBeats(s)
      PROVE  /\ <<rule(q)'.metric, outcome(q)'.labels>> \in DOMAIN fresh'
             /\ fresh'[<<rule(q)'.metric, outcome(q)'.labels>>] >= worker'[q].now
  <2>1. worker'[s].pc # "beat" /\ (q # s => worker'[q] = worker[q]) /\ fresh' = fresh
    <3>0. worker[s] \in WorkerType
      BY <1>0
    <3>1. CASE RuleBeats(s)
      BY <1>0, <3>0, <3>1 DEF RuleBeats, WorkerType, hist
    <3>2. CASE SourceBeats(s)
      BY <1>0, <3>0, <3>2 DEF SourceBeats, WorkerType, hist
    <3> QED BY <1>4, <3>1, <3>2
  <2>2. \A i \in DOMAIN fresh : fresh[i] \in Nat
    BY DEF TypeOK, StoreOK, IsPartialMap
  <2> QED BY <1>1, <2>1, <2>2
<1> QED BY <1>2, <1>3, <1>4, OnlyTheseWrite

(***************************************************************************)
(* Store.Set in one step: one series changes and has the reading of the    *)
(* call.                                                                   *)
(***************************************************************************)
LEMMA SetSeriesValue ==
  ASSUME TypeOK, NEW id, NEW kind \in Kind, NEW help \in Help, NEW value \in Float,
         series' = SetSeries(series, id, kind, help, value)
  PROVE  /\ DOMAIN series' = DOMAIN series \cup {id}
         /\ series'[id].last = value
         /\ \A i \in DOMAIN series : i # id => series'[i] = series[i]
<1> DEFINE e == SetEntry(series, id, kind, help, value)
<1>1. e.last = value
  BY SetEntryType DEF TypeOK, StoreOK
<1>2. series' = Extend(series, id, e)
  BY DEF SetSeries
<1> HIDE DEF e
<1> QED BY <1>1, <1>2 DEF Extend

(***************************************************************************)
(* Among the times of the latest values there is one for a heartbeat that  *)
(* is t or later.                                                          *)
(***************************************************************************)
Vouched(times, beat, l, t) ==
  \E s \in Source : \E k \in DOMAIN Rules[s] :
    LET metric == Rules[s][k].metric IN
      /\ Rules[s][k].beat = beat
      /\ <<metric, l>> \in DOMAIN times
      /\ times[<<metric, l>>] >= t

LEMMA VouchedStays ==
  ASSUME TypeOK, [Next]_vars, NEW beat, NEW l, NEW t \in Nat, Vouched(fresh, beat, l, t)
  PROVE  Vouched(fresh', beat, l, t)
<1>0. PICK s \in Source : \E k \in DOMAIN Rules[s] :
        /\ Rules[s][k].beat = beat
        /\ <<Rules[s][k].metric, l>> \in DOMAIN fresh
        /\ fresh[<<Rules[s][k].metric, l>>] >= t
  BY DEF Vouched
<1>1. PICK k \in DOMAIN Rules[s] :
        /\ Rules[s][k].beat = beat
        /\ <<Rules[s][k].metric, l>> \in DOMAIN fresh
        /\ fresh[<<Rules[s][k].metric, l>>] >= t
  BY <1>0
<1>2. \A i \in DOMAIN fresh : i \in DOMAIN fresh' /\ fresh'[i] >= fresh[i]
  <2>1. \A i \in DOMAIN fresh : fresh[i] \in Nat
    BY DEF TypeOK, StoreOK, IsPartialMap
  <2>2. CASE fresh' = fresh
    BY <2>1, <2>2
  <2>3. ASSUME NEW q \in Source, RuleWrites(q)
        PROVE  \A i \in DOMAIN fresh : i \in DOMAIN fresh' /\ fresh'[i] >= fresh[i]
    BY <2>3, FreshGrows
  <2>4. ASSUME NEW q \in Source, RuleBeats(q) \/ SourceBeats(q)
        PROVE  fresh' = fresh
    BY <2>4 DEF RuleBeats, SourceBeats, hist
  <2> QED BY <2>2, <2>3, <2>4, OnlyTheseWrite
<1> DEFINE id == <<Rules[s][k].metric, l>>
<1>3. /\ id \in DOMAIN fresh /\ fresh[id] >= t
      /\ id \in DOMAIN fresh' /\ fresh'[id] >= fresh[id]
  BY <1>1, <1>2
<1>4. fresh[id] \in Nat /\ fresh'[id] \in Nat
  BY <1>3, TypeStep DEF TypeOK, StoreOK, IsPartialMap
<1>5. fresh'[id] >= t
  <2> HIDE DEF id
  <2> QED BY <1>3, <1>4
<1> QED BY <1>1, <1>3, <1>5 DEF Vouched

(***************************************************************************)
(* A heartbeat's reading is a time, and vouched for.                       *)
(***************************************************************************)
BeatVouched ==
  \A id \in DOMAIN series : id[1] \in RuleBeatNames =>
    series[id].last \in Nat /\ Vouched(fresh, id[1], id[2], series[id].last)

LEMMA BeatVouchedStep ==
  ASSUME TypeOK, BeatIsDue, BeatVouched, [Next]_vars
  PROVE  BeatVouched'
<1> SUFFICES ASSUME NEW id \in DOMAIN series', id[1] \in RuleBeatNames
             PROVE  series'[id].last \in Nat /\ Vouched(fresh', id[1], id[2], series'[id].last)
  BY DEF BeatVouched
<1>1. ASSUME id \in DOMAIN series, series'[id] = series[id]
      PROVE  series'[id].last \in Nat /\ Vouched(fresh', id[1], id[2], series'[id].last)
  <2>1. series[id].last \in Nat /\ Vouched(fresh, id[1], id[2], series[id].last)
    BY <1>1 DEF BeatVouched
  <2>2. Vouched(fresh', id[1], id[2], series[id].last)
    BY <2>1, VouchedStays
  <2> QED BY <1>1, <2>1, <2>2
<1>2. ASSUME NEW name, NEW l, NEW kind \in Kind, NEW help \in Help, NEW value \in Float,
             series' = SetSeries(series, <<name, l>>, kind, help, value),
             name \notin RuleBeatNames
      PROVE  series'[id].last \in Nat /\ Vouched(fresh', id[1], id[2], series'[id].last)
  <2> DEFINE w == <<name, l>>
  <2>1. w[1] = name
    OBVIOUS
  <2> HIDE DEF w
  <2>2. id # w
    BY <1>2, <2>1
  <2>3. /\ DOMAIN series' = DOMAIN series \cup {w}
        /\ \A i \in DOMAIN series : i # w => series'[i] = series[i]
    BY <1>2, SetSeriesValue DEF w
  <2> QED BY <1>1, <2>2, <2>3
<1>3. ASSUME NEW s \in Source, RuleWrites(s)
      PROVE  series'[id].last \in Nat /\ Vouched(fresh', id[1], id[2], series'[id].last)
  <2>1. atRule(s)
    BY <1>3 DEF RuleWrites
  <2>2. rule(s) \in Rule /\ outcome(s) \in Outcome /\ worker[s].at \in DOMAIN Rules[s]
    BY <2>1, AtRuleTypes
  <2>3. rule(s).metric \notin RuleBeatNames
    BY <2>2 DEF RuleBeatNames, AllRules, Ran, rule
  <2>4. rule(s).kind \in Kind /\ rule(s).help \in Help /\ outcome(s).value \in Float
    BY <2>2 DEF Rule, Outcome
  <2> QED BY <1>2, <1>3, <2>3, <2>4 DEF RuleWrites
<1>4. ASSUME NEW s \in Source, SourceBeats(s)
      PROVE  series'[id].last \in Nat /\ Vouched(fresh', id[1], id[2], series'[id].last)
  <2>1. SourceBeat[s] \notin RuleBeatNames
    BY DEF RuleBeatNames
  <2>2. Gauge \in Kind /\ HeartbeatHelp \in Help /\ worker[s].now \in Float
    BY TimeIsFloat, RouterAssumption DEF Kind, TypeOK, WorkerOK, WorkerType
  <2> QED BY <1>2, <1>4, <2>1, <2>2 DEF SourceBeats
<1>5. ASSUME NEW s \in Source, RuleBeats(s)
      PROVE  series'[id].last \in Nat /\ Vouched(fresh', id[1], id[2], series'[id].last)
  <2> DEFINE w   == <<rule(s).beat, outcome(s).labels>>
             now == worker[s].now
  <2>1. worker[s].pc = "beat"
    BY <1>5 DEF RuleBeats
  <2>2. Gauge \in Kind /\ HeartbeatHelp \in Help /\ now \in Float /\ now \in Nat
    BY TimeIsFloat, RouterAssumption DEF Kind, TypeOK, WorkerOK, WorkerType
  <2>3. series' = SetSeries(series, w, Gauge, HeartbeatHelp, now)
    BY <1>5 DEF RuleBeats
  <2>4. /\ DOMAIN series' = DOMAIN series \cup {w}
        /\ series'[w].last = now
        /\ \A i \in DOMAIN series : i # w => series'[i] = series[i]
    BY <2>2, <2>3, SetSeriesValue
  <2>5. CASE id # w
    BY <1>1, <2>4, <2>5
  <2>6. CASE id = w
    <3>1. id[1] = rule(s).beat /\ id[2] = outcome(s).labels
      BY <2>6
    <3>2. worker[s].at \in DOMAIN Rules[s]
      BY <2>1, AtRuleTypes
    <3>3. Vouched(fresh, id[1], id[2], now)
      BY <2>1, <3>1, <3>2 DEF BeatIsDue, Vouched, rule
    <3>4. Vouched(fresh', id[1], id[2], now)
      BY <2>2, <3>3, VouchedStays
    <3> QED BY <2>2, <2>4, <2>6, <3>4
  <2> QED BY <2>5, <2>6
<1>6. CASE UNCHANGED series
  BY <1>1, <1>6
<1> QED BY <1>3, <1>4, <1>5, <1>6, OnlyTheseWrite

(***************************************************************************)
(* A rule's heartbeat never vouches for a value that is not there: value   *)
(* and heartbeat are two calls of Store.Set, and in whatever order the     *)
(* consumers of several sources make theirs, the value was there first.    *)
(***************************************************************************)
THEOREM BeatAfterValue == Spec => []BeatNeverAhead
<1>1. Init => BeatIsDue /\ BeatVouched
  BY DEF Init, BeatIsDue, BeatVouched, AtSelect, EmptyMap
<1>2. TypeOK /\ BeatIsDue /\ BeatVouched /\ [Next]_vars => BeatIsDue' /\ BeatVouched'
  BY BeatIsDueStep, BeatVouchedStep
<1>3. BeatVouched => BeatNeverAhead
  BY DEF BeatVouched, BeatNeverAhead, Vouched
<1> QED BY <1>1, <1>2, <1>3, TypeCorrect, PTL DEF Spec
-----------------------------------------------------------------------------
(***************************************************************************)
(* A set of numbers that is not empty has a least element: induction, in   *)
(* the form in which the proofs below use it.                              *)
(***************************************************************************)
LEMMA Least ==
  ASSUME NEW T, T \subseteq Nat, T # {}
  PROVE  \E n \in T : \A m \in T : n <= m
<1> DEFINE R == OpToRel(<, Nat)
<1>1. IsWellFoundedOn(R, Nat)
  BY NatLessThanWellFounded, Zenon
<1>2. \A x, y \in Nat : <<x, y>> \in R <=> x < y
  BY Zenon DEF OpToRel
<1> HIDE DEF R
<1>3. PICK x \in T : \A y \in T : ~(<<y, x>> \in R)
  BY <1>1, WFMin
<1>4. ASSUME NEW m \in T
      PROVE  x <= m
  <2>1. m \in Nat /\ x \in Nat
    OBVIOUS
  <2>2. ~(m < x)
    BY <1>2, <1>3, <2>1
  <2> QED BY <2>1, <2>2
<1> QED BY <1>4

(***************************************************************************)
(* What RulesDone defines: the map before, and then rule after rule.       *)
(***************************************************************************)
LEMMA RulesUnfold ==
  ASSUME NEW map, NEW s \in Source, NEW message, NEW now
  PROVE  /\ RulesDone(map, s, message, now)[0] = map
         /\ \A k \in 1 .. Len(Rules[s]) :
              RulesDone(map, s, message, now)[k] =
                RuleDone(RulesDone(map, s, message, now)[k - 1], s, k, message, now)
<1> DEFINE N       == Len(Rules[s])
           next(f, k) == IF k = 0 THEN map ELSE RuleDone(f[k - 1], s, k, message, now)
           T       == {n \in 0 .. N : ~ \E f : f = [k \in 0 .. n |-> next(f, k)]}
<1>1. N \in Nat
  BY RouterAssumption
<1>2. T = {}
  <2> SUFFICES ASSUME T # {} PROVE FALSE
    OBVIOUS
  <2>1. T \subseteq Nat
    BY <1>1
  <2>2. PICK n \in T : \A m \in T : n <= m
    <3> HIDE DEF T
    <3> QED BY <2>1, Least
  <2>3. n \in 0 .. N
    OBVIOUS
  <2>4. CASE n = 0
    <3> DEFINE g == [k \in 0 .. 0 |-> map]
    <3>1. g = [k \in 0 .. 0 |-> next(g, k)]
      OBVIOUS
    <3> QED BY <2>4, <3>1
  <2>5. CASE n # 0
    <3>1. n - 1 \in 0 .. N /\ n - 1 \notin T
      BY <1>1, <2>2, <2>3, <2>5
    <3>2. PICK f : f = [k \in 0 .. n - 1 |-> next(f, k)]
      BY <3>1
    <3> DEFINE g == [k \in 0 .. n |-> next(f, k)]
    <3>3. \A k \in 0 .. n - 1 : f[k] = next(f, k)
      BY <3>2
    <3>4. \A k \in 0 .. n : k # 0 => k - 1 \in 0 .. n - 1 /\ g[k - 1] = f[k - 1]
      <4> HIDE DEF next
      <4> QED BY <1>1, <2>3, <2>5, <3>3
    <3>5. \A k \in 0 .. n : next(f, k) = next(g, k)
      BY <3>4
    <3>6. g = [k \in 0 .. n |-> next(g, k)]
      BY <3>5
    <3> QED BY <3>6
  <2> QED BY <2>4, <2>5
<1>3. \E f : f = [k \in 0 .. N |-> next(f, k)]
  BY <1>1, <1>2
<1> DEFINE d == CHOOSE f : f = [k \in 0 .. N |-> next(f, k)]
<1>4. d = [k \in 0 .. N |-> next(d, k)]
  BY <1>3
<1>5. RulesDone(map, s, message, now) = d
  BY DEF RulesDone
<1> HIDE DEF d
<1>6. d[0] = map /\ \A k \in 1 .. N : d[k] = RuleDone(d[k - 1], s, k, message, now)
  <2>1. 0 \in 0 .. N /\ \A k \in 1 .. N : k \in 0 .. N /\ k # 0
    BY <1>1
  <2> QED BY <1>4, <2>1
<1> QED BY <1>5, <1>6
(***************************************************************************)
(* What Replay defines: nothing at first, and then message after message.  *)
(***************************************************************************)
IsReplay(f, s, inputs) ==
  f = [n \in 0 .. Len(inputs) |->
         IF n = 0 THEN EmptyMap
         ELSE MessageDone(f[n - 1], s, inputs[n].body, inputs[n].now)]

LEMMA ReplayExists ==
  ASSUME NEW s, NEW S, NEW inputs \in Seq(S)
  PROVE  \E f : IsReplay(f, s, inputs) /\ Replay(s, inputs) = f[Len(inputs)]
<1> DEFINE N       == Len(inputs)
           next(f, n) == IF n = 0 THEN EmptyMap
                         ELSE MessageDone(f[n - 1], s, inputs[n].body, inputs[n].now)
           T       == {n \in 0 .. N : ~ \E f : f = [k \in 0 .. n |-> next(f, k)]}
<1>1. N \in Nat
  OBVIOUS
<1>2. T = {}
  <2> SUFFICES ASSUME T # {} PROVE FALSE
    OBVIOUS
  <2>1. T \subseteq Nat
    BY <1>1
  <2>2. PICK n \in T : \A m \in T : n <= m
    <3> HIDE DEF T
    <3> QED BY <2>1, Least
  <2>3. n \in 0 .. N
    OBVIOUS
  <2>4. CASE n = 0
    <3> DEFINE g == [k \in 0 .. 0 |-> EmptyMap]
    <3>1. g = [k \in 0 .. 0 |-> next(g, k)]
      OBVIOUS
    <3> QED BY <2>4, <3>1
  <2>5. CASE n # 0
    <3>1. n - 1 \in 0 .. N /\ n - 1 \notin T
      <4> HIDE DEF T, N
      <4>1. n - 1 \in 0 .. N /\ ~(n <= n - 1)
        BY <1>1, <2>3, <2>5
      <4> QED BY <2>2, <4>1
    <3>2. PICK f : f = [k \in 0 .. n - 1 |-> next(f, k)]
      BY <3>1
    <3> DEFINE g == [k \in 0 .. n |-> next(f, k)]
    <3>3. \A k \in 0 .. n - 1 : f[k] = next(f, k)
      BY <3>2
    <3>4. \A k \in 0 .. n : k # 0 => k - 1 \in 0 .. n - 1 /\ g[k - 1] = f[k - 1]
      <4> HIDE DEF next
      <4> QED BY <1>1, <2>3, <2>5, <3>3
    <3>5. \A k \in 0 .. n : next(f, k) = next(g, k)
      BY <3>4
    <3>6. g = [k \in 0 .. n |-> next(g, k)]
      BY <3>5
    <3> QED BY <3>6
  <2> QED BY <2>4, <2>5
<1>3. \E f : f = [k \in 0 .. N |-> next(f, k)]
  BY <1>1, <1>2
<1> DEFINE d == CHOOSE f : f = [k \in 0 .. N |-> next(f, k)]
<1>4. d = [k \in 0 .. N |-> next(d, k)]
  BY <1>3
<1>5. Replay(s, inputs) = d[N]
  BY DEF Replay
<1> HIDE DEF d
<1>6. IsReplay(d, s, inputs)
  BY <1>4 DEF IsReplay
<1> QED BY <1>5, <1>6

LEMMA ReplayUnfold ==
  ASSUME NEW s, NEW S, NEW inputs \in Seq(S), NEW x \in S
  PROVE  /\ Replay(s, <<>>) = EmptyMap
         /\ Replay(s, Append(inputs, x)) = MessageDone(Replay(s, inputs), s, x.body, x.now)
<1> DEFINE N    == Len(inputs)
           more == Append(inputs, x)
<1>0. /\ N \in Nat /\ more \in Seq(S) /\ Len(more) = N + 1
      /\ \A n \in 1 .. N : more[n] = inputs[n]
      /\ more[N + 1] = x
  OBVIOUS
<1>1. Replay(s, <<>>) = EmptyMap
  <2>1. <<>> \in Seq(S) /\ Len(<<>>) = 0
    OBVIOUS
  <2>2. PICK f : IsReplay(f, s, <<>>) /\ Replay(s, <<>>) = f[0]
    BY <2>1, ReplayExists
  <2> QED BY <2>1, <2>2 DEF IsReplay
<1>2. PICK f : IsReplay(f, s, inputs) /\ Replay(s, inputs) = f[N]
  BY ReplayExists
<1>3. PICK g : IsReplay(g, s, more) /\ Replay(s, more) = g[N + 1]
  <2> HIDE DEF more
  <2> QED BY <1>0, ReplayExists
<1>4. /\ f[0] = EmptyMap
      /\ \A n \in 1 .. N : f[n] = MessageDone(f[n - 1], s, inputs[n].body, inputs[n].now)
  <2>1. \A n \in 0 .. N : f[n] = IF n = 0 THEN EmptyMap
                          ELSE MessageDone(f[n - 1], s, inputs[n].body, inputs[n].now)
    BY <1>2 DEF IsReplay
  <2> QED BY <1>0, <2>1
<1>5. /\ g[0] = EmptyMap
      /\ \A n \in 1 .. N + 1 : g[n] = MessageDone(g[n - 1], s, more[n].body, more[n].now)
  <2> HIDE DEF more
  <2>1. \A n \in 0 .. N + 1 : g[n] = IF n = 0 THEN EmptyMap
                              ELSE MessageDone(g[n - 1], s, more[n].body, more[n].now)
    BY <1>0, <1>3 DEF IsReplay
  <2> QED BY <1>0, <2>1
<1> HIDE DEF more
<1>6. f[N] = g[N]
  <2> DEFINE T == {n \in 0 .. N : f[n] # g[n]}
  <2> SUFFICES ASSUME T # {} PROVE FALSE
    BY <1>0
  <2>1. T \subseteq Nat
    BY <1>0
  <2>2. PICK n \in T : \A m \in T : n <= m
    <3> HIDE DEF T
    <3> QED BY <2>1, Least
  <2>3. n \in 1 .. N
    BY <1>0, <1>4, <1>5
  <2>4. n - 1 \in 0 .. N /\ f[n - 1] = g[n - 1]
    BY <1>0, <2>2, <2>3
  <2>5. f[n] = MessageDone(f[n - 1], s, inputs[n].body, inputs[n].now)
    BY <1>4, <2>3
  <2>6. g[n] = MessageDone(g[n - 1], s, inputs[n].body, inputs[n].now)
    <3>1. n \in 1 .. N + 1 /\ more[n] = inputs[n]
      BY <1>0, <2>3
    <3> QED BY <1>5, <3>1
  <2> QED BY <2>4, <2>5, <2>6
<1>7. Replay(s, more) = MessageDone(g[N], s, x.body, x.now)
  BY <1>0, <1>3, <1>5
<1> QED BY <1>1, <1>2, <1>6, <1>7 DEF more

-----------------------------------------------------------------------------
(***************************************************************************)
(* A write to a metric of s is a write to the series of s, and a write to  *)
(* any other metric leaves them alone.                                     *)
(***************************************************************************)
LEMMA OwnWrite ==
  ASSUME NEW s, NEW map, NEW name \in metricNames(s), NEW l,
         NEW kind, NEW help, NEW value
  PROVE  Own(s, SetSeries(map, <<name, l>>, kind, help, value)) =
           SetSeries(Own(s, map), <<name, l>>, kind, help, value)
<1> DEFINE id   == <<name, l>>
           e(m) == SetEntry(m, id, kind, help, value)
<1>1. /\ DOMAIN Own(s, map) = {i \in DOMAIN map : i[1] \in metricNames(s)}
      /\ \A i \in DOMAIN Own(s, map) : Own(s, map)[i] = map[i]
  BY DEF Own
<1>2. id[1] = name
  OBVIOUS
<1> HIDE DEF id
<1>3. e(map) = e(Own(s, map))
  <2>1. id \in DOMAIN map <=> id \in DOMAIN Own(s, map)
    BY <1>1, <1>2
  <2>2. id \in DOMAIN map => Own(s, map)[id] = map[id]
    BY <1>1, <2>1
  <2>3. existing(map, id, kind, help) = existing(Own(s, map), id, kind, help)
    BY <2>1, <2>2 DEF existing
  <2> QED BY <2>3 DEF SetEntry
<1> HIDE DEF e
<1>4. ASSUME NEW v
      PROVE  Own(s, Extend(map, id, v)) = Extend(Own(s, map), id, v)
  <2> DEFINE D == {i \in DOMAIN map \cup {id} : i[1] \in metricNames(s)}
  <2>1. Own(s, Extend(map, id, v)) = [i \in D |-> IF i = id THEN v ELSE map[i]]
    BY DEF Own, Extend
  <2>2. DOMAIN Own(s, map) \cup {id} = D
    BY <1>1, <1>2
  <2>3. Extend(Own(s, map), id, v) = [i \in D |-> IF i = id THEN v ELSE Own(s, map)[i]]
    BY <2>2 DEF Extend
  <2>4. \A i \in D : i # id => Own(s, map)[i] = map[i]
    BY <1>1
  <2> QED BY <2>1, <2>3, <2>4
<1> QED BY <1>3, <1>4 DEF SetSeries, id, e

LEMMA OwnKept ==
  ASSUME NEW s, NEW map, NEW name, name \notin metricNames(s), NEW l,
         NEW kind, NEW help, NEW value
  PROVE  Own(s, SetSeries(map, <<name, l>>, kind, help, value)) = Own(s, map)
<1> DEFINE id == <<name, l>>
           v  == SetEntry(map, id, kind, help, value)
           D  == {i \in DOMAIN map : i[1] \in metricNames(s)}
<1>1. id[1] = name
  OBVIOUS
<1> HIDE DEF id, v
<1>2. {i \in DOMAIN map \cup {id} : i[1] \in metricNames(s)} = D
  BY <1>1
<1>3. Own(s, Extend(map, id, v)) = [i \in D |-> IF i = id THEN v ELSE map[i]]
  BY <1>2 DEF Own, Extend
<1>4. \A i \in D : i # id
  BY <1>1
<1>5. Own(s, Extend(map, id, v)) = Own(s, map)
  BY <1>3, <1>4 DEF Own
<1> QED BY <1>5 DEF SetSeries, id, v
-----------------------------------------------------------------------------
(***************************************************************************)
(* Where the consumer of s is in the replay: the series of s are those of  *)
(* the messages before the one in hand, and of the rules before the one    *)
(* the consumer stands at.                                                 *)
(***************************************************************************)
Input == [body : Message, now : Nat]

InHand(s) == [body |-> body(s), now |-> worker[s].now]

SoFar(s, earlier) ==
  RulesDone(Replay(s, earlier), s, body(s), worker[s].now)[worker[s].at - 1]

HitBefore(s) == \E k \in 1 .. worker[s].at - 1 : Apply[s][k][body(s)].hit

AtPlace(s, earlier) ==
  /\ Inputs(s) = Append(earlier, InHand(s))
  /\ Own(s, series) = IF worker[s].pc = "beat"
                      THEN ValueSet(SoFar(s, earlier), s, worker[s].at, body(s))
                      ELSE SoFar(s, earlier)

Follows(s) ==
  /\ worker[s].pc \in {"none", "select", "exited", "report"} =>
       Own(s, series) = Replay(s, Inputs(s))
  /\ worker[s].pc \in {"none", "select"} => ~worker[s].matched
  /\ worker[s].pc \in {"rules", "beat"} =>
       /\ worker[s].at <= Len(Rules[s]) + 1
       /\ \E earlier \in Seq(Input) : AtPlace(s, earlier)
  /\ worker[s].pc = "rules" => (worker[s].matched <=> HitBefore(s))
  /\ worker[s].pc = "beat" => writes(outcome(s)) /\ worker[s].matched

LEMMA InputsType ==
  ASSUME TypeOK, NEW s \in Source
  PROVE  /\ Inputs(s) \in Seq(Input) /\ Len(Inputs(s)) = Len(taken[s])
         /\ \A i \in 1 .. Len(taken[s]) :
              Inputs(s)[i] = [body |-> arrivals[taken[s][i].n].body, now |-> taken[s][i].now]
<1> DEFINE t == taken[s]
<1>1. t \in Seq(Taking)
  BY DEF TypeOK, QueuesOK
<1>2. \A i \in 1 .. Len(t) : t[i].n \in 1 .. Len(arrivals) /\ t[i].now \in Nat
  <2>1. \A i \in 1 .. Len(t) : t[i] \in Taking
    <3> HIDE DEF t
    <3> QED BY <1>1
  <2> QED BY <2>1 DEF Taking
<1>3. \A i \in 1 .. Len(t) : arrivals[t[i].n].body \in Message
  <2>1. \A n \in 1 .. Len(arrivals) : arrivals[n] \in Arrival
    BY DEF TypeOK, ArrivalsOK
  <2> QED BY <1>2, <2>1 DEF Arrival
<1>4. Inputs(s) = [i \in 1 .. Len(t) |-> [body |-> arrivals[t[i].n].body, now |-> t[i].now]]
  BY <1>1 DEF Inputs
<1>5. \A i \in 1 .. Len(t) : [body |-> arrivals[t[i].n].body, now |-> t[i].now] \in Input
  BY <1>2, <1>3 DEF Input
<1>6. Len(t) \in Nat
  BY <1>1
<1> HIDE DEF t
<1>7. Inputs(s) \in [1 .. Len(t) -> Input]
  BY <1>4, <1>5
<1>8. Inputs(s) \in Seq(Input) /\ Len(Inputs(s)) = Len(t)
  BY <1>6, <1>7
<1> QED BY <1>4, <1>8 DEF t

LEMMA InputsStay ==
  ASSUME TypeOK, [Next]_vars, NEW s \in Source, taken'[s] = taken[s]
  PROVE  Inputs(s)' = Inputs(s)
<1>1. taken[s] \in Seq(Taking)
  BY DEF TypeOK, QueuesOK
<1>2. \A i \in DOMAIN taken[s] : taken[s][i].n \in 1 .. Len(arrivals)
  <2>1. \A i \in DOMAIN taken[s] : taken[s][i] \in Taking
    BY <1>1
  <2> QED BY <2>1 DEF Taking
<1>3. \A i \in DOMAIN taken[s] : arrivals'[taken[s][i].n] = arrivals[taken[s][i].n]
  BY <1>2, ArrivalsGrow
<1> QED BY <1>3 DEF Inputs

LEMMA InputsTake ==
  ASSUME TypeOK, NEW s \in Source, Take(s)
  PROVE  Inputs(s)' = Append(Inputs(s), InHand(s)')
<1> DEFINE t    == taken[s]
           new  == [n |-> Head(chan[s]), now |-> clock]
           x    == [body |-> arrivals[Head(chan[s])].body, now |-> clock]
<1>1. TypeOK' /\ arrivals' = arrivals
  BY TypeStep DEF Next, ConsumerStep, Take
<1>2. t \in Seq(Taking) /\ Len(t) \in Nat
  BY DEF TypeOK, QueuesOK
<1>3. taken'[s] = Append(t, new)
  BY DEF Take, TypeOK, QueuesOK
<1>4. /\ Len(taken'[s]) = Len(t) + 1 /\ taken'[s][Len(t) + 1] = new
      /\ \A i \in 1 .. Len(t) : taken'[s][i] = t[i]
  <2> HIDE DEF new, t
  <2> QED BY <1>2, <1>3
<1>5. worker'[s].n = Head(chan[s]) /\ worker'[s].now = clock
  <2>1. worker \in [Source -> WorkerType] /\ worker[s] \in WorkerType
    BY DEF TypeOK, WorkerOK
  <2> QED BY <2>1 DEF Take, WorkerType
<1>6. InHand(s)' = x
  BY <1>1, <1>5 DEF InHand, body
<1>7. /\ Inputs(s) \in Seq(Input) /\ Len(Inputs(s)) = Len(t)
      /\ \A i \in 1 .. Len(t) :
           Inputs(s)[i] = [body |-> arrivals[t[i].n].body, now |-> t[i].now]
  BY InputsType
<1>8. DOMAIN taken'[s] = 1 .. Len(t) + 1
  <2>1. taken'[s] \in Seq(Taking')
    BY <1>1 DEF TypeOK, QueuesOK
  <2> HIDE DEF t
  <2> QED BY <1>4, <2>1
<1>9. Inputs(s)' = [i \in 1 .. Len(t) + 1 |-> IF i = Len(t) + 1 THEN x ELSE Inputs(s)[i]]
  <2> DEFINE in(a) == [body |-> arrivals[a.n].body, now |-> a.now]
  <2>1. Inputs(s)' = [i \in 1 .. Len(t) + 1 |-> in(taken'[s][i])]
    BY <1>1, <1>8 DEF Inputs
  <2>2. \A i \in 1 .. Len(t) : in(taken'[s][i]) = Inputs(s)[i]
    BY <1>4, <1>7
  <2>3. in(taken'[s][Len(t) + 1]) = x
    BY <1>4
  <2> HIDE DEF in, x, t
  <2>4. \A i \in 1 .. Len(t) + 1 : i = Len(t) + 1 \/ i \in 1 .. Len(t)
    BY <1>2
  <2> QED BY <2>1, <2>2, <2>3, <2>4
<1> HIDE DEF x, t
<1>10. Append(Inputs(s), x) =
         [i \in 1 .. Len(t) + 1 |-> IF i = Len(t) + 1 THEN x ELSE Inputs(s)[i]]
  <2> DEFINE X == Input \cup {x}
             q == Inputs(s)
  <2>1. q \in Seq(X) /\ x \in X /\ Len(q) = Len(t)
    BY <1>7
  <2> HIDE DEF X, q
  <2>2. /\ DOMAIN Append(q, x) = 1 .. Len(q) + 1 /\ Append(q, x) \in Seq(X)
        /\ \A i \in 1 .. Len(q) : Append(q, x)[i] = q[i]
        /\ Append(q, x)[Len(q) + 1] = x
    BY <2>1
  <2>3. Append(q, x) = [i \in 1 .. Len(q) + 1 |-> Append(q, x)[i]]
    <3> DEFINE a == Append(q, x)
               N == Len(q) + 1
    <3>1. a \in [1 .. N -> X]
      <4>1. a \in Seq(X) /\ Len(a) = N
        BY <2>1, AppendProperties
      <4> HIDE DEF a, N
      <4> QED BY <4>1, LenProperties
    <3> HIDE DEF a, N
    <3>2. a = [i \in 1 .. N |-> a[i]]
      BY <3>1
    <3> QED BY <3>2 DEF a, N
  <2>4. \A i \in 1 .. Len(q) + 1 : i # Len(q) + 1 => i \in 1 .. Len(q)
    BY <2>1
  <2> QED BY <2>1, <2>2, <2>3, <2>4 DEF q
<1> QED BY <1>6, <1>9, <1>10
(***************************************************************************)
(* A step that is none of the consumer of s, and writes no series of s,    *)
(* leaves it where it is.                                                  *)
(***************************************************************************)
LEMMA FollowsStays ==
  ASSUME TypeOK, [Next]_vars, NEW s \in Source, Follows(s),
         worker'[s] = worker[s], taken'[s] = taken[s], Own(s, series') = Own(s, series)
  PROVE  Follows(s)'
<1>1. Inputs(s)' = Inputs(s)
  BY InputsStay
<1>2. CASE worker[s].pc \in {"rules", "beat"}
  <2>1. body(s)' = body(s)
    BY <1>2, SameMessage
  <2>2. /\ InHand(s)' = InHand(s) /\ outcome(s)' = outcome(s)
        /\ HitBefore(s)' <=> HitBefore(s)
    BY <2>1 DEF InHand, outcome, HitBefore
  <2>3. ASSUME NEW earlier \in Seq(Input), AtPlace(s, earlier)
        PROVE  AtPlace(s, earlier)'
    <3>1. SoFar(s, earlier)' = SoFar(s, earlier)
      BY <2>1 DEF SoFar
    <3> QED BY <1>1, <2>1, <2>2, <2>3, <3>1 DEF AtPlace
  <2> QED BY <1>2, <2>2, <2>3 DEF Follows
<1>3. CASE worker[s].pc \notin {"rules", "beat"}
  BY <1>1, <1>3 DEF Follows
<1> QED BY <1>2, <1>3

(***************************************************************************)
(* Nor does a step of the consumer of s that only tells where it is, when  *)
(* it is between two messages.                                             *)
(***************************************************************************)
LEMMA FollowsBetween ==
  ASSUME TypeOK, [Next]_vars, NEW s \in Source,
         Own(s, series) = Replay(s, Inputs(s)),
         worker'[s].pc \in {"none", "select", "exited", "report"},
         worker'[s].pc \in {"none", "select"} => ~worker'[s].matched,
         taken'[s] = taken[s], series' = series
  PROVE  Follows(s)'
  BY InputsStay DEF Follows

(***************************************************************************)
(* One rule further: its writes are those of RuleDone.                     *)
(***************************************************************************)
LEMMA FollowsRule ==
  ASSUME TypeOK, [Next]_vars, NEW s \in Source, worker[s].pc \in {"rules", "beat"},
         worker[s].at \in 1 .. Len(Rules[s]),
         NEW earlier \in Seq(Input), Inputs(s) = Append(earlier, InHand(s)),
         taken'[s] = taken[s],
         worker'[s].pc = "rules", worker'[s].at = worker[s].at + 1,
         worker'[s].n = worker[s].n, worker'[s].now = worker[s].now,
         worker'[s].matched <=> HitBefore(s) \/ outcome(s).hit,
         Own(s, series') =
           RuleDone(SoFar(s, earlier), s, worker[s].at, body(s), worker[s].now)
  PROVE  Follows(s)'
<1>1. body(s)' = body(s) /\ Inputs(s)' = Inputs(s)
  BY SameMessage, InputsStay
<1>2. InHand(s)' = InHand(s)
  BY <1>1 DEF InHand
<1>3. worker'[s].at - 1 = worker[s].at /\ Len(Rules[s]) \in Nat
  <2>1. Rules[s] \in Seq(Rule)
    BY RouterAssumption
  <2>2. Len(Rules[s]) \in Nat
    BY <2>1
  <2>3. worker[s].at \in Int
    BY <2>2
  <2> QED BY <2>2, <2>3
<1>4. SoFar(s, earlier)' =
        RuleDone(SoFar(s, earlier), s, worker[s].at, body(s), worker[s].now)
  <2> DEFINE map == Replay(s, earlier)
  <2>1. RulesDone(map, s, body(s), worker[s].now)[worker[s].at] =
          RuleDone(RulesDone(map, s, body(s), worker[s].now)[worker[s].at - 1],
                   s, worker[s].at, body(s), worker[s].now)
    BY RulesUnfold
  <2> QED BY <1>1, <1>3, <2>1 DEF SoFar
<1>5. AtPlace(s, earlier)'
  BY <1>1, <1>2, <1>4 DEF AtPlace
<1>6. HitBefore(s)' <=> HitBefore(s) \/ outcome(s).hit
  <2>1. \A k : k \in 1 .. worker[s].at <=> k \in 1 .. worker[s].at - 1 \/ k = worker[s].at
    OBVIOUS
  <2> QED BY <1>1, <1>3, <2>1 DEF HitBefore, outcome
<1> QED BY <1>3, <1>5, <1>6 DEF Follows

LEMMA BeatIsOwn ==
  ASSUME NEW s \in Source, SourceBeat[s] # NoMetric
  PROVE  SourceBeat[s] \in metricNames(s)
  BY DEF metricNames

(***************************************************************************)
(* The end of apply: MessageDone has been done.                            *)
(***************************************************************************)
LEMMA FollowsEnd ==
  ASSUME TypeOK, [Next]_vars, NEW s \in Source, Follows(s),
         NoSourceBeat(s) \/ SourceBeatFails(s) \/ SourceBeats(s)
  PROVE  Follows(s)'
<1>1. worker[s].pc = "rules" /\ worker[s].at > Len(Rules[s])
  BY DEF NoSourceBeat, SourceBeatFails, SourceBeats, afterRules
<1>2. worker \in [Source -> WorkerType] /\ worker[s] \in WorkerType
  BY DEF TypeOK, WorkerOK
<1>3. worker[s].at - 1 = Len(Rules[s]) /\ Len(Rules[s]) \in Nat
  <2>1. Rules[s] \in Seq(Rule)
    BY RouterAssumption
  <2>2. Len(Rules[s]) \in Nat
    BY <2>1
  <2>3. worker[s].at \in Nat
    BY <1>2 DEF WorkerType
  <2>4. worker[s].at <= Len(Rules[s]) + 1
    BY <1>1 DEF Follows
  <2> QED BY <1>1, <2>2, <2>3, <2>4
<1>4. PICK earlier \in Seq(Input) :
        Inputs(s) = Append(earlier, InHand(s)) /\ Own(s, series) = SoFar(s, earlier)
  BY <1>1 DEF Follows, AtPlace
<1>5. InHand(s) \in Input
  BY <1>1, <1>2, AfterRulesTypes DEF InHand, Input, WorkerType, afterRules
<1>6. Replay(s, Inputs(s)) = MessageDone(Replay(s, earlier), s, body(s), worker[s].now)
  <2>1. Replay(s, Append(earlier, InHand(s))) =
          MessageDone(Replay(s, earlier), s, InHand(s).body, InHand(s).now)
    BY <1>5, ReplayUnfold
  <2> QED BY <1>4, <2>1 DEF InHand
<1> DEFINE r == Resolve[s][body(s)]
           due == SourceBeat[s] # NoMetric /\ worker[s].matched /\ r.err = NoError /\ r.present
<1>7. worker[s].matched <=> \E k \in DOMAIN Rules[s] : Apply[s][k][body(s)].hit
  <2>1. DOMAIN Rules[s] = 1 .. worker[s].at - 1
    BY <1>3, RouterAssumption
  <2> QED BY <1>1, <2>1 DEF Follows, HitBefore
<1>8. Replay(s, Inputs(s)) =
        IF due THEN SetSeries(Own(s, series), <<SourceBeat[s], r.labels>>,
                              Gauge, HeartbeatHelp, worker[s].now)
        ELSE Own(s, series)
  BY <1>3, <1>4, <1>6, <1>7 DEF MessageDone, SoFar
<1>9. worker'[s].pc = "report" /\ taken'[s] = taken[s]
  <2>1. CASE NoSourceBeat(s)
    BY <1>2, <2>1 DEF NoSourceBeat, WorkerType, hist
  <2>2. CASE SourceBeatFails(s)
    BY <1>2, <2>2 DEF SourceBeatFails, WorkerType, hist
  <2>3. CASE SourceBeats(s)
    BY <1>2, <2>3 DEF SourceBeats, WorkerType, hist
  <2> QED BY <2>1, <2>2, <2>3
<1>10. CASE SourceBeats(s)
  <2>1. due /\ series' = SetSeries(series, <<SourceBeat[s], r.labels>>,
                                   Gauge, HeartbeatHelp, worker[s].now)
    BY <1>10 DEF SourceBeats, beats
  <2>2. SourceBeat[s] \in metricNames(s)
    <3>1. SourceBeat[s] # NoMetric
      BY <2>1
    <3> QED BY <3>1, BeatIsOwn
  <2>3. Own(s, series') = SetSeries(Own(s, series), <<SourceBeat[s], r.labels>>,
                                    Gauge, HeartbeatHelp, worker[s].now)
    BY <2>1, <2>2, OwnWrite
  <2>4. Own(s, series') = Replay(s, Inputs(s))
    BY <1>8, <2>1, <2>3
  <2> QED BY <1>9, <2>4, InputsStay DEF Follows
<1>11. CASE NoSourceBeat(s) \/ SourceBeatFails(s)
  <2>1. ~due
    <3> USE DEF beats
    <3>1. r \in Resolved
      BY <1>1, AfterRulesTypes DEF afterRules
    <3> QED BY <1>11, <3>1 DEF NoSourceBeat, SourceBeatFails, Resolved
  <2>2. series' = series
    BY <1>11 DEF NoSourceBeat, SourceBeatFails
  <2> HIDE DEF due
  <2>3. Own(s, series') = Replay(s, Inputs(s))
    BY <1>8, <2>1, <2>2
  <2> QED BY <1>9, <2>3, InputsStay DEF Follows
<1> QED BY <1>10, <1>11

(***************************************************************************)
(* What a consumer writes has a name of its source.                        *)
(***************************************************************************)
LEMMA OwnNames ==
  ASSUME TypeOK, NEW s \in Source, atRule(s) \/ worker[s].pc = "beat"
  PROVE  /\ rule(s).metric \in metricNames(s)
         /\ rule(s).beat # NoMetric => rule(s).beat \in metricNames(s)
<1>1. worker[s].at \in DOMAIN Rules[s] /\ rule(s) \in Rule
  BY AtRuleTypes
<1>2. rule(s).metric # NoMetric
  BY <1>1, RouterAssumption DEF Rule
<1>3. rule(s) \in Ran(Rules[s])
  BY <1>1 DEF rule, Ran
<1>4. {rule(s).metric, rule(s).beat} \subseteq UNION {{r.metric, r.beat} : r \in Ran(Rules[s])}
  BY <1>3
<1> QED BY <1>2, <1>4 DEF metricNames

(***************************************************************************)
(* The steps of the loop over the rules.                                   *)
(***************************************************************************)
LEMMA FollowsLoop ==
  ASSUME TypeOK, [Next]_vars, NEW s \in Source, Follows(s),
         \/ RuleMisses(s) \/ RuleFails(s) \/ RuleYieldsNothing(s)
         \/ RuleWrites(s) \/ RuleBeats(s)
  PROVE  Follows(s)'
<1>0. /\ worker \in [Source -> WorkerType] /\ worker[s] \in WorkerType
      /\ atRule(s) \/ worker[s].pc = "beat"
      /\ worker[s].pc \in {"rules", "beat"}
  BY DEF TypeOK, WorkerOK, RuleMisses, RuleFails, RuleYieldsNothing, RuleWrites, RuleBeats,
         atRule
<1>1. /\ worker[s].at \in 1 .. Len(Rules[s]) /\ worker[s].at \in Nat
      /\ body(s) \in Message /\ rule(s) \in Rule /\ outcome(s) \in Outcome
  <2>1. Rules[s] \in Seq(Rule)
    BY RouterAssumption
  <2>2. DOMAIN Rules[s] = 1 .. Len(Rules[s])
    BY <2>1
  <2> QED BY <1>0, <2>2, AtRuleTypes DEF WorkerType
<1>2. PICK earlier \in Seq(Input) : AtPlace(s, earlier)
  BY <1>0 DEF Follows
<1> DEFINE map  == SoFar(s, earlier)
           o    == outcome(s)
           done == RuleDone(map, s, worker[s].at, body(s), worker[s].now)
<1>3. /\ o = Apply[s][worker[s].at][body(s)] /\ rule(s) = Rules[s][worker[s].at]
      /\ ~writes(o) => done = map
      /\ writes(o) /\ rule(s).beat = NoMetric =>
           done = ValueSet(map, s, worker[s].at, body(s))
      /\ writes(o) /\ rule(s).beat # NoMetric =>
           done = BeatSet(ValueSet(map, s, worker[s].at, body(s)), s, worker[s].at,
                          body(s), worker[s].now)
  BY DEF outcome, rule, RuleDone
<1>4. taken'[s] = taken[s]
  BY DEF RuleMisses, RuleFails, RuleYieldsNothing, RuleWrites, RuleBeats, hist
<1>5. Inputs(s) = Append(earlier, InHand(s))
  BY <1>2 DEF AtPlace
<1> HIDE DEF map, done
<1>6. ASSUME atRule(s), series' = series, ~writes(o),
             worker'[s].pc = "rules", worker'[s].at = worker[s].at + 1,
             worker'[s].n = worker[s].n, worker'[s].now = worker[s].now,
             worker'[s].matched <=> worker[s].matched \/ o.hit
      PROVE  Follows(s)'
  <2>1. worker[s].pc = "rules"
    BY <1>6 DEF atRule
  <2>2. Own(s, series') = done
    BY <1>2, <1>3, <1>6, <2>1 DEF AtPlace, map
  <2>3. worker'[s].matched <=> HitBefore(s) \/ o.hit
    BY <1>6, <2>1 DEF Follows
  <2> QED BY <1>0, <1>1, <1>4, <1>5, <1>6, <2>2, <2>3, FollowsRule DEF done, map
<1>7. CASE RuleMisses(s)
  <2>1. /\ atRule(s) /\ series' = series /\ ~o.hit
        /\ worker'[s] = [worker[s] EXCEPT !.at = @ + 1]
    BY <1>0, <1>7 DEF RuleMisses
  <2>2. /\ worker'[s].pc = "rules" /\ worker'[s].at = worker[s].at + 1
        /\ worker'[s].n = worker[s].n /\ worker'[s].now = worker[s].now
        /\ worker'[s].matched = worker[s].matched
    BY <1>0, <2>1 DEF WorkerType, atRule
  <2>3. ~writes(o)
    BY <2>1 DEF writes
  <2> QED BY <1>6, <2>1, <2>2, <2>3
<1>8. CASE RuleFails(s)
  <2>1. /\ atRule(s) /\ series' = series /\ o.hit /\ o.err # NoError
        /\ worker'[s] = [worker[s] EXCEPT !.at = @ + 1, !.matched = TRUE,
                                          !.problems = Append(@, o.err)]
    BY <1>0, <1>8 DEF RuleFails
  <2>2. /\ worker'[s].pc = "rules" /\ worker'[s].at = worker[s].at + 1
        /\ worker'[s].n = worker[s].n /\ worker'[s].now = worker[s].now
        /\ worker'[s].matched = TRUE
    BY <1>0, <2>1 DEF WorkerType, atRule
  <2>3. ~writes(o)
    BY <2>1 DEF writes
  <2> QED BY <1>6, <2>1, <2>2, <2>3
<1>9. CASE RuleYieldsNothing(s)
  <2>1. /\ atRule(s) /\ series' = series /\ o.hit /\ o.labels = NoLabels
        /\ worker'[s] = [worker[s] EXCEPT !.at = @ + 1, !.matched = TRUE]
    BY <1>0, <1>9 DEF RuleYieldsNothing
  <2>2. /\ worker'[s].pc = "rules" /\ worker'[s].at = worker[s].at + 1
        /\ worker'[s].n = worker[s].n /\ worker'[s].now = worker[s].now
        /\ worker'[s].matched = TRUE
    BY <1>0, <2>1 DEF WorkerType, atRule
  <2>3. ~writes(o)
    BY <2>1 DEF writes
  <2> QED BY <1>6, <2>1, <2>2, <2>3
<1>10. CASE RuleWrites(s)
  <2>1. /\ atRule(s) /\ worker[s].pc = "rules" /\ writes(o) /\ o.hit
        /\ series' = SetSeries(series, <<rule(s).metric, o.labels>>, rule(s).kind,
                               rule(s).help, o.value)
    BY <1>10 DEF RuleWrites, writes, atRule
  <2>2. Own(s, series) = map
    BY <1>2, <2>1 DEF AtPlace, map
  <2>3. Own(s, series') = ValueSet(map, s, worker[s].at, body(s))
    <3>1. Own(s, series') = SetSeries(Own(s, series), <<rule(s).metric, o.labels>>,
                                      rule(s).kind, rule(s).help, o.value)
      BY <2>1, OwnNames, OwnWrite
    <3> QED BY <1>3, <2>2, <3>1 DEF ValueSet
  <2>4. CASE rule(s).beat = NoMetric
    <3>1. worker'[s] = [worker[s] EXCEPT !.at = @ + 1, !.matched = TRUE]
      BY <1>0, <1>10, <2>4 DEF RuleWrites
    <3>2. /\ worker'[s].pc = "rules" /\ worker'[s].at = worker[s].at + 1
          /\ worker'[s].n = worker[s].n /\ worker'[s].now = worker[s].now
          /\ worker'[s].matched = TRUE
      BY <1>0, <2>1, <3>1 DEF WorkerType
    <3>3. Own(s, series') = done
      BY <1>3, <2>1, <2>3, <2>4
    <3> QED BY <1>0, <1>1, <1>4, <1>5, <2>1, <3>2, <3>3, FollowsRule DEF done, map
  <2>5. CASE rule(s).beat # NoMetric
    <3>1. worker'[s] = [worker[s] EXCEPT !.pc = "beat", !.matched = TRUE]
      BY <1>0, <1>10, <2>5 DEF RuleWrites
    <3>2. /\ worker'[s].pc = "beat" /\ worker'[s].at = worker[s].at
          /\ worker'[s].n = worker[s].n /\ worker'[s].now = worker[s].now
          /\ worker'[s].matched = TRUE
      BY <1>0, <3>1 DEF WorkerType
    <3>3. body(s)' = body(s) /\ Inputs(s)' = Inputs(s)
      BY <1>0, <1>4, <3>2, SameMessage, InputsStay
    <3>4. InHand(s)' = InHand(s) /\ SoFar(s, earlier)' = map /\ outcome(s)' = o
      BY <3>2, <3>3 DEF InHand, SoFar, map, outcome
    <3>5. AtPlace(s, earlier)'
      BY <1>5, <2>3, <3>2, <3>3, <3>4 DEF AtPlace
    <3>6. worker'[s].at <= Len(Rules[s]) + 1
      <4>1. Rules[s] \in Seq(Rule)
        BY RouterAssumption
      <4>2. Len(Rules[s]) \in Nat
        BY <4>1
      <4> QED BY <1>1, <3>2, <4>2
    <3> HIDE DEF o
    <3> QED BY <2>1, <3>2, <3>4, <3>5, <3>6 DEF Follows
  <2> QED BY <2>4, <2>5
<1>11. CASE RuleBeats(s)
  <2>1. /\ worker[s].pc = "beat" /\ rule(s).beat # NoMetric
        /\ series' = SetSeries(series, <<rule(s).beat, o.labels>>, Gauge,
                               HeartbeatHelp, worker[s].now)
        /\ worker'[s] = [worker[s] EXCEPT !.pc = "rules", !.at = @ + 1]
    BY <1>0, <1>11 DEF RuleBeats, TypeOK, WorkerOK
  <2>2. /\ worker'[s].pc = "rules" /\ worker'[s].at = worker[s].at + 1
        /\ worker'[s].n = worker[s].n /\ worker'[s].now = worker[s].now
        /\ worker'[s].matched = worker[s].matched
    BY <1>0, <2>1 DEF WorkerType
  <2>3. writes(o) /\ worker[s].matched /\ o.hit
    BY <2>1 DEF Follows, writes
  <2>4. Own(s, series) = ValueSet(map, s, worker[s].at, body(s))
    BY <1>2, <2>1 DEF AtPlace, map
  <2>5. Own(s, series') = done
    <3>1. Own(s, series') = SetSeries(Own(s, series), <<rule(s).beat, o.labels>>,
                                      Gauge, HeartbeatHelp, worker[s].now)
      BY <2>1, OwnNames, OwnWrite
    <3> QED BY <1>3, <2>1, <2>3, <2>4, <3>1 DEF BeatSet
  <2> QED BY <1>0, <1>1, <1>4, <1>5, <2>1, <2>2, <2>3, <2>5, FollowsRule DEF done, map
<1> QED BY <1>7, <1>8, <1>9, <1>10, <1>11

(***************************************************************************)
(* The steps between two messages, and the first of handle.                *)
(***************************************************************************)
LEMMA FollowsTake ==
  ASSUME TypeOK, [Next]_vars, NEW s \in Source, Follows(s), Take(s)
  PROVE  Follows(s)'
<1>1. worker \in [Source -> WorkerType] /\ worker[s] \in WorkerType
  BY DEF TypeOK, WorkerOK
<1>2. /\ worker[s].pc = "select" /\ series' = series
      /\ worker'[s].pc = "rules" /\ worker'[s].at = 1
      /\ worker'[s].matched = worker[s].matched
  BY <1>1 DEF Take, WorkerType
<1>3. PICK earlier \in Seq(Input) : earlier = Inputs(s)
  BY InputsType
<1>4. Inputs(s)' = Append(earlier, InHand(s)')
  BY <1>3, InputsTake
<1>5. SoFar(s, earlier)' = Replay(s, earlier)
  <2>1. RulesDone(Replay(s, earlier), s, body(s)', worker'[s].now)[0] = Replay(s, earlier)
    BY RulesUnfold
  <2> QED BY <1>2, <2>1 DEF SoFar
<1>6. Own(s, series') = Replay(s, earlier) /\ ~worker'[s].matched
  BY <1>2, <1>3 DEF Follows
<1>7. AtPlace(s, earlier)'
  BY <1>2, <1>4, <1>5, <1>6 DEF AtPlace
<1>8. ~HitBefore(s)'
  BY <1>2 DEF HitBefore
<1>9. worker'[s].at <= Len(Rules[s]) + 1
  <2>1. Rules[s] \in Seq(Rule)
    BY RouterAssumption
  <2>2. Len(Rules[s]) \in Nat
    BY <2>1
  <2> QED BY <1>2, <2>2
<1> QED BY <1>2, <1>6, <1>7, <1>8, <1>9 DEF Follows

LEMMA FollowsOwn ==
  ASSUME TypeOK, [Next]_vars, NEW s \in Source, Follows(s), ConsumerStep(s)
  PROVE  Follows(s)'
<1>0. worker \in [Source -> WorkerType] /\ worker[s] \in WorkerType
  BY DEF TypeOK, WorkerOK
<1>1. CASE Take(s)
  BY <1>1, FollowsTake
<1>2. CASE Exit(s)
  <2>1. /\ worker[s].pc = "select" /\ worker'[s].pc = "exited"
        /\ taken' = taken /\ series' = series
    BY <1>0, <1>2 DEF Exit, WorkerType, hist
  <2>2. Own(s, series) = Replay(s, Inputs(s))
    BY <2>1 DEF Follows
  <2> QED BY <2>1, <2>2, FollowsBetween
<1>3. CASE Report(s)
  <2>1. /\ worker[s].pc = "report" /\ worker'[s] = AtSelect("select")
        /\ taken' = taken /\ series' = series
    BY <1>0, <1>3 DEF Report, hist
  <2>2. Own(s, series) = Replay(s, Inputs(s))
    BY <2>1 DEF Follows
  <2> QED BY <2>1, <2>2, FollowsBetween DEF AtSelect
<1>4. CASE \/ RuleMisses(s) \/ RuleFails(s) \/ RuleYieldsNothing(s)
           \/ RuleWrites(s) \/ RuleBeats(s)
  BY <1>4, FollowsLoop
<1>5. CASE NoSourceBeat(s) \/ SourceBeatFails(s) \/ SourceBeats(s)
  BY <1>5, FollowsEnd
<1> QED BY <1>1, <1>2, <1>3, <1>4, <1>5 DEF ConsumerStep, HandleStep

(***************************************************************************)
(* The steps of another consumer: what it writes has a name of its source, *)
(* and so none of s.                                                       *)
(***************************************************************************)
LEMMA FollowsOther ==
  ASSUME TypeOK, [Next]_vars, NEW s \in Source, Follows(s), Alone(s),
         NEW q \in Source, q # s, ConsumerStep(q)
  PROVE  Follows(s)'
<1>0. /\ worker \in [Source -> WorkerType] /\ taken \in [Source -> Seq(Taking)]
  BY DEF TypeOK, WorkerOK, QueuesOK
<1>1. worker'[s] = worker[s] /\ taken'[s] = taken[s]
  <2>1. CASE Take(q) \/ Exit(q)
    BY <1>0, <2>1 DEF Take, Exit, hist
  <2>2. CASE RuleMisses(q) \/ RuleFails(q) \/ RuleYieldsNothing(q)
    BY <1>0, <2>2 DEF RuleMisses, RuleFails, RuleYieldsNothing, hist
  <2>3. CASE RuleWrites(q) \/ RuleBeats(q)
    BY <1>0, <2>3 DEF RuleWrites, RuleBeats, hist
  <2>4. CASE NoSourceBeat(q) \/ SourceBeatFails(q) \/ SourceBeats(q)
    BY <1>0, <2>4 DEF NoSourceBeat, SourceBeatFails, SourceBeats, hist
  <2>5. CASE Report(q)
    BY <1>0, <2>5 DEF Report, hist
  <2> QED BY <2>1, <2>2, <2>3, <2>4, <2>5 DEF ConsumerStep, HandleStep
<1>2. \A name \in metricNames(q) : name \notin metricNames(s)
  BY DEF Alone
<1>3. Own(s, series') = Own(s, series)
  <2>1. CASE RuleWrites(q)
    <3>1. rule(q).metric \in metricNames(q)
      BY <2>1, OwnNames DEF RuleWrites
    <3> QED BY <1>2, <2>1, <3>1, OwnKept DEF RuleWrites
  <2>2. CASE RuleBeats(q)
    <3>1. rule(q).beat \in metricNames(q)
      BY <2>2, OwnNames DEF RuleBeats, TypeOK, WorkerOK
    <3> QED BY <1>2, <2>2, <3>1, OwnKept DEF RuleBeats
  <2>3. CASE SourceBeats(q)
    <3>1. SourceBeat[q] \in metricNames(q)
      BY <2>3, BeatIsOwn DEF SourceBeats, beats
    <3> QED BY <1>2, <2>3, <3>1, OwnKept DEF SourceBeats
  <2>4. CASE ~(RuleWrites(q) \/ RuleBeats(q) \/ SourceBeats(q))
    <3>1. series' = series
      BY <2>4 DEF ConsumerStep, HandleStep, Take, Exit, RuleMisses, RuleFails,
                  RuleYieldsNothing, NoSourceBeat, SourceBeatFails, Report
    <3> QED BY <3>1
  <2> QED BY <2>1, <2>2, <2>3, <2>4
<1> QED BY <1>1, <1>3, FollowsStays

-----------------------------------------------------------------------------
NotStarted == life = "new" => \A s \in Source : worker[s].pc = "none"

LEMMA NotStartedStep ==
  ASSUME TypeOK, NotStarted, [Next]_vars
  PROVE  NotStarted'
<1> SUFFICES ASSUME life' = "new" PROVE \A s \in Source : worker'[s].pc = "none"
  BY DEF NotStarted
<1>1. CASE \E q \in Source : ConsumerStep(q)
  <2>1. PICK q \in Source : ConsumerStep(q)
    BY <1>1
  <2>2. life = "new" /\ worker[q].pc # "none"
    BY <2>1 DEF ConsumerStep, HandleStep, Take, Exit, RuleMisses, RuleFails,
                RuleYieldsNothing, RuleWrites, RuleBeats, NoSourceBeat, SourceBeatFails,
                SourceBeats, Report, atRule, afterRules
  <2> QED BY <2>2 DEF NotStarted
<1>2. CASE Start \/ StopCall \/ StopStep
  BY <1>2 DEF Start, StopCall, StopStep, StopSwap, StopCancel, StopWait
<1>3. CASE \/ CtxDone \/ DispatchStep \/ UNCHANGED vars
           \/ \E m \in Message : DispatchBegin(m)
  <2>1. life' = life /\ worker' = worker
    BY <1>3 DEF CtxDone, DispatchStep, DispatchSkip, DispatchSend, DispatchCount,
                DispatchDrop, DispatchEnd, DispatchBegin, vars
  <2> QED BY <2>1 DEF NotStarted
<1> QED BY <1>1, <1>2, <1>3 DEF Next

Following == \A s \in Source : Alone(s) => Follows(s)

LEMMA FollowingStep ==
  ASSUME TypeOK, NotStarted, Following, [Next]_vars
  PROVE  Following'
<1> SUFFICES ASSUME NEW s \in Source, Alone(s), Follows(s) PROVE Follows(s)'
  BY DEF Following, Alone, metricNames
<1>1. ASSUME NEW q \in Source, ConsumerStep(q)
      PROVE  Follows(s)'
  BY <1>1, FollowsOwn, FollowsOther
<1>2. CASE Start
  <2>1. /\ worker[s].pc = "none" /\ worker'[s] = AtSelect("select")
        /\ taken' = taken /\ series' = series
    BY <1>2 DEF Start, NotStarted, hist
  <2>2. Own(s, series) = Replay(s, Inputs(s))
    BY <2>1 DEF Follows
  <2> QED BY <2>1, <2>2, FollowsBetween DEF AtSelect
<1>3. CASE \/ CtxDone \/ StopCall \/ StopStep \/ DispatchStep \/ UNCHANGED vars
           \/ \E m \in Message : DispatchBegin(m)
  <2>1. worker' = worker /\ taken' = taken /\ series' = series
    BY <1>3 DEF CtxDone, StopCall, StopStep, StopSwap, StopCancel, StopWait,
                DispatchStep, DispatchSkip, DispatchSend, DispatchCount, DispatchDrop,
                DispatchEnd, DispatchBegin, vars, hist
  <2> QED BY <2>1, FollowsStays
<1> QED BY <1>1, <1>2, <1>3 DEF Next

(***************************************************************************)
(* A source that shares no metric with another is not disturbed: between   *)
(* two messages its series are what source.apply makes of the messages its *)
(* consumer took, one after the other, however the steps of the consumers, *)
(* of Dispatch and of Stop fell together.                                  *)
(***************************************************************************)
THEOREM EachSourceAlone == Spec => []SameAsSequential
<1>1. Init => NotStarted /\ Following
  <2> SUFFICES ASSUME Init PROVE NotStarted /\ Following
    OBVIOUS
  <2>1. NotStarted
    BY DEF Init, NotStarted, AtSelect
  <2>2. ASSUME NEW s \in Source
        PROVE  Follows(s)
    <3>1. worker[s].pc = "none" /\ ~worker[s].matched
      BY DEF Init, AtSelect
    <3>2. Inputs(s) = <<>>
      <4>1. taken[s] = <<>>
        BY DEF Init
      <4>2. TypeOK
        BY InitType
      <4>3. Inputs(s) \in Seq(Input) /\ Len(Inputs(s)) = 0
        BY <4>1, <4>2, InputsType
      <4> QED BY <4>3
    <3>3. Replay(s, <<>>) = EmptyMap
      <4>1. <<>> \in Seq({0}) /\ 0 \in {0}
        OBVIOUS
      <4> QED BY <4>1, ReplayUnfold
    <3>4. Own(s, series) = EmptyMap
      <4>1. series = <<>>
        BY DEF Init, EmptyMap
      <4> QED BY <4>1 DEF Own, EmptyMap
    <3> QED BY <3>1, <3>2, <3>3, <3>4 DEF Follows
  <2> QED BY <2>1, <2>2 DEF Following
<1>2. TypeOK /\ NotStarted /\ Following /\ [Next]_vars => NotStarted' /\ Following'
  BY NotStartedStep, FollowingStep
<1>3. Following => SameAsSequential
  BY DEF Following, Follows, SameAsSequential
<1> QED BY <1>1, <1>2, <1>3, TypeCorrect, PTL DEF Spec
=============================================================================
