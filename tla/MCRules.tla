------------------------------ MODULE MCRules ------------------------------
(***************************************************************************)
(* Payloads of every kind for Rules (a number, a word, JSON with a value   *)
(* that is a number, a word, an object or null, labels that are there or   *)
(* not), and values and labels with every setting the configuration has.   *)
(***************************************************************************)
EXTENDS Rules

CONSTANTS r1

MCText == {"", "7", "ON", "7 s", "null", "v7", "vON", "vnull", "vobj", "lobj"}

number(n)   == [type |-> "number", content |-> n]
string(s)   == [type |-> "string", content |-> s]
truth(b)    == [type |-> "bool", content |-> b]
object(f)   == [type |-> "object", content |-> f]

MCDecode ==
  [t \in MCText |->
     CASE t = "7"     -> number(7)
       [] t = "null"  -> Null
       [] t = "v7"    -> object([v |-> number(7), l |-> string("ON")])
       [] t = "vON"   -> object([v |-> string("ON")])
       [] t = "vnull" -> object([v |-> Null, l |-> truth(TRUE)])
       [] t = "vobj"  -> object([v |-> object([v |-> truth(TRUE)]), l |-> number(7)])
       [] t = "lobj"  -> object([v |-> string("7 s"), l |-> [type |-> "array"]])
       [] OTHER       -> BadJSON]

(***************************************************************************)
(* What the texts decode to, and what is in that.                          *)
(***************************************************************************)
within(documents) ==
  documents \cup
  UNION {{d.content[f] : f \in DOMAIN d.content} :
           d \in {o \in documents : o.type = "object"}}

MCDocument == within(within({MCDecode[t] : t \in MCText} \ {BadJSON}))

MCParse == [t \in MCText |-> IF t = "7" THEN 7 ELSE NotNumeric]

MCFormat(v) ==
  IF v.type = "bool" THEN (IF v.content THEN "true" ELSE "false") ELSE "7"

MCTimes(a, b) == a * b

MCGroup(regex, s) == IF s = "7 s" THEN "7" ELSE NoMatch

MCExpand(value, captured) ==
  IF value = "{c}" THEN IF "c" \in DOMAIN captured THEN captured["c"] ELSE ""
  ELSE value

MCNameOrder == <<"c", "k", "l">>

-----------------------------------------------------------------------------
raw          == [fromJSON |-> FALSE, regex |-> Nothing, map |-> Nothing, scale |-> Nothing]
json(path)   == [fromJSON |-> TRUE, path |-> path, regex |-> Nothing, map |-> Nothing,
                 scale |-> Nothing]
numberMap    == [t \in {"ON"} |-> 1]

values ==
  {raw, [raw EXCEPT !.regex = r1], [raw EXCEPT !.map = numberMap, !.scale = 3],
   json(<<"v">>), json(<<"v", "v">>), [json(<<"v">>) EXCEPT !.scale = 3],
   [json(<<"v">>) EXCEPT !.map = numberMap], [json(<<"v">>) EXCEPT !.regex = r1],
   [json(<<"v">>) EXCEPT !.regex = r1, !.map = [t \in {"7"} |-> 2]]}

static(value) == [fromJSON |-> FALSE, value |-> value, map |-> Nothing,
                  refs |-> IF value = "{c}" THEN {"c"} ELSE {}]
fromJSON      == [fromJSON |-> TRUE, path |-> <<"l">>, map |-> Nothing, refs |-> {}]
mapped        == [fromJSON EXCEPT !.map = [t \in {"ON", "true"} |-> "on"]]

only(name, label) == [n \in {name} |-> label]

rule(value, captures, labels) ==
  [value |-> value, captures |-> captures, labels |-> labels]

rules ==
  {rule(value, {}, labels) :
     value \in values,
     labels \in {none, only("l", static("x")), only("l", fromJSON), only("l", mapped)}}
    \cup
  {rule(value, {"c"}, labels) :
     value \in {raw, json(<<"v">>)}, labels \in {none, only("l", static("{c}"))}}

MCSource ==
  {[labels |-> labels, rules |-> rules] :
     labels \in {none, only("l", static("y")), only("k", fromJSON),
                 only("l", mapped) @@ only("k", static("y"))}}
=============================================================================
