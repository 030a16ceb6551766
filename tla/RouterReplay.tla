---------------------------- MODULE RouterReplay ----------------------------
(***************************************************************************)
(* What the pipeline of Router should amount to for each source alone: the *)
(* messages its consumer took, applied one after the other to an empty     *)
(* store, each as one uninterrupted call of source.apply.                  *)
(***************************************************************************)
EXTENDS Router

(***************************************************************************)
(* The k-th rule of s on a message: value, then heartbeat.                 *)
(***************************************************************************)
writes(o) == o.hit /\ o.err = NoError /\ o.labels # NoLabels

ValueSet(map, s, k, message) ==
  LET r == Rules[s][k]
      o == Apply[s][k][message]
  IN  SetSeries(map, <<r.metric, o.labels>>, r.kind, r.help, o.value)

BeatSet(map, s, k, message, now) ==
  SetSeries(map, <<Rules[s][k].beat, Apply[s][k][message].labels>>,
            Gauge, HeartbeatHelp, now)

RuleDone(map, s, k, message, now) ==
  IF ~writes(Apply[s][k][message]) THEN map
  ELSE IF Rules[s][k].beat = NoMetric THEN ValueSet(map, s, k, message)
  ELSE BeatSet(ValueSet(map, s, k, message), s, k, message, now)

(***************************************************************************)
(* All of them in order, and then the heartbeat of the source.             *)
(***************************************************************************)
RulesDone(map, s, message, now) ==
  LET done[k \in 0 .. Len(Rules[s])] ==
        IF k = 0 THEN map ELSE RuleDone(done[k - 1], s, k, message, now)
  IN  done

MessageDone(map, s, message, now) ==
  LET done == RulesDone(map, s, message, now)[Len(Rules[s])]
      r    == Resolve[s][message]
  IN  IF /\ SourceBeat[s] # NoMetric
         /\ \E k \in DOMAIN Rules[s] : Apply[s][k][message].hit
         /\ r.err = NoError /\ r.present
      THEN SetSeries(done, <<SourceBeat[s], r.labels>>, Gauge, HeartbeatHelp, now)
      ELSE done

(***************************************************************************)
(* The messages a consumer took, and what they amount to.                  *)
(***************************************************************************)
Inputs(s) ==
  [i \in DOMAIN taken[s] |->
     [body |-> arrivals[taken[s][i].n].body, now |-> taken[s][i].now]]

Replay(s, inputs) ==
  LET after[n \in 0 .. Len(inputs)] ==
        IF n = 0 THEN EmptyMap
        ELSE MessageDone(after[n - 1], s, inputs[n].body, inputs[n].now)
  IN  after[Len(inputs)]

(***************************************************************************)
(* source.metricNames.                                                     *)
(***************************************************************************)
metricNames(s) ==
  ({SourceBeat[s]} \cup UNION {{r.metric, r.beat} : r \in Ran(Rules[s])}) \ {NoMetric}

Alone(s) == \A q \in Source \ {s} : metricNames(s) \cap metricNames(q) = {}

Own(s, map) == [id \in {i \in DOMAIN map : i[1] \in metricNames(s)} |-> map[id]]

(***************************************************************************)
(* A source that shares no metric with another is not disturbed: whenever  *)
(* the consumer of s is between two messages, the series of s are those    *)
(* that the messages it took give one after the other, whatever the other  *)
(* consumers have written to the same store in between, and whichever      *)
(* messages were dropped.                                                  *)
(***************************************************************************)
SameAsSequential ==
  \A s \in Source :
    Alone(s) /\ worker[s].pc \in {"none", "select", "exited"} =>
      Own(s, series) = Replay(s, Inputs(s))
=============================================================================
