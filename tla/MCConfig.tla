------------------------------ MODULE MCConfig ------------------------------
(***************************************************************************)
(* A set of source files for Config: two metrics, two label names, labels  *)
(* that are constant or refer to a capture group, rules that agree and     *)
(* disagree with each other, and one source of each malformed kind.        *)
(***************************************************************************)
EXTENDS Config

static   == [refs |-> {}, malformed |-> FALSE]
template == [refs |-> {"c"}, malformed |-> FALSE]

none == [name \in {} |-> static]
only(name, label) == [n \in {name} |-> label]

rule(metric, kind, heartbeat, captures, labels) ==
  [metric |-> metric, kind |-> kind, help |-> "help", heartbeat |-> heartbeat,
   captures |-> captures, labels |-> labels, badMatch |-> FALSE, malformed |-> FALSE]

source(name, labels, heartbeat, rules) ==
  [name |-> name, labels |-> labels, heartbeat |-> heartbeat, rules |-> rules,
   malformed |-> FALSE]

captureRules(metric, kind, heartbeat) ==
  {rule(metric, kind, heartbeat, {}, none),
   rule(metric, kind, heartbeat, {"c"}, none),
   rule(metric, kind, heartbeat, {"c"}, only("l", template)),
   rule(metric, kind, heartbeat, {}, only("l", template)),
   rule(metric, kind, heartbeat, {}, only("l", static)),
   rule(metric, kind, heartbeat, {"c"}, only("c", static))}

someRules ==
  captureRules("m", "gauge", NoName) \cup captureRules("m", "gauge", "h")
    \cup captureRules("m", "counter", NoName)
    \cup {rule("h", "gauge", NoName, {"c"}, none), rule("m", "gauge", "m", {}, none),
          [rule("m", "gauge", NoName, {}, none) EXCEPT !.help = "other"]}

sourceLabels == {none, only("l", static), only("c", static), only("l", template)}

goodRule == rule("m", "gauge", NoName, {}, none)

MCSource ==
  {source(name, labels, heartbeat, {r}) :
     name \in {"s", "t"}, labels \in sourceLabels, heartbeat \in {NoName, "h"},
     r \in someRules}
    \cup
  {source("u", none, NoName, {r, goodRule}) : r \in someRules}
    \cup
  {source(NoName, none, NoName, {goodRule}),
   source("v", none, NoName, {}),
   source("v", none, NoName, {[goodRule EXCEPT !.badMatch = TRUE]}),
   source("v", none, NoName, {[goodRule EXCEPT !.malformed = TRUE]}),
   source("v", none, NoName, {rule(NoName, "gauge", NoName, {}, none)}),
   source("w", none, NoName, {rule("mqtt2prom_series", "gauge", NoName, {}, none)})}

(***************************************************************************)
(* NewSelf in internal/exporter/self.go.                                   *)
(***************************************************************************)
MCOwn ==
  {Shape("mqtt2prom_mqtt_connected", {}, "connected", "gauge"),
   Shape("mqtt2prom_series", {}, "series", "gauge"),
   Shape("mqtt2prom_messages_received_total", {"source"}, "received", "counter")}
=============================================================================
