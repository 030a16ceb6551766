------------------------------ MODULE MCRouter ------------------------------
(***************************************************************************)
(* Two sources, three kinds of message.  The meter has a counter with a    *)
(* heartbeat, a gauge without one and a heartbeat of its own; the room has *)
(* one gauge with a heartbeat.                                             *)
(***************************************************************************)
EXTENDS RouterReplay

MCSourceList == <<"meter", "room">>
MCLabels     == {"L"}
MCMessage    == {"high", "low", "broken"}

MCMetric == {"energy", "energy_seen", "power", "meter_seen", "temp", "temp_seen"}

MCRules == [meter |-> <<[metric |-> "energy", kind |-> Counter, help |-> "help",
                         beat |-> "energy_seen"],
                        [metric |-> "power", kind |-> Gauge, help |-> "help",
                         beat |-> NoMetric]>>,
            room  |-> <<[metric |-> "temp", kind |-> Gauge, help |-> "help",
                         beat |-> "temp_seen"]>>]

MCOwned == [meter |-> {"high", "low", "broken"}, room |-> {"low"}]

Value(v)    == [hit |-> TRUE, err |-> NoError, labels |-> "L", value |-> v]
Problem(e)  == [hit |-> TRUE, err |-> e, labels |-> NoLabels, value |-> 0]
Nothing     == [hit |-> TRUE, err |-> NoError, labels |-> NoLabels, value |-> 0]
Miss        == [hit |-> FALSE, err |-> NoError, labels |-> NoLabels, value |-> 0]

MCApply ==
  [meter |-> <<[high |-> Value(5), low |-> Value(2), broken |-> Problem("ErrBadJSON")],
               [high |-> Nothing, low |-> Miss, broken |-> Value(7)]>>,
   room  |-> <<[high |-> Miss, low |-> Value(3), broken |-> Miss]>>]

MCSourceBeat == [meter |-> "meter_seen", room |-> NoMetric]

Present == [err |-> NoError, present |-> TRUE, labels |-> "L"]
Absent  == [err |-> NoError, present |-> FALSE, labels |-> "L"]
Broken  == [err |-> "ErrBadJSON", present |-> FALSE, labels |-> "L"]

MCResolve ==
  [s \in {"meter", "room"} |-> [high |-> Absent, low |-> Present, broken |-> Broken]]
=============================================================================
