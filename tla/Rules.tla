------------------------------- MODULE Rules -------------------------------
(***************************************************************************)
(* internal/rules: what a rule makes of a message, and what the labels of  *)
(* a source resolve to.  A source applies its rules to one Payload one     *)
(* after the other; the first that needs the document parses it, and the   *)
(* Payload keeps the document, or the error, for the others.               *)
(*                                                                         *)
(* External, and given by constants: decoding JSON, reading a number,      *)
(* writing a scalar, regular expressions, the product of two numbers.      *)
(***************************************************************************)
EXTENDS Naturals, Sequences, SequencesExt, Labels

CONSTANTS
  Text,          \* payloads, and the strings that occur
  Document,      \* values of JSON, and what is in them
  Decode,        \* json.Unmarshal: from texts to documents or BadJSON
  BadJSON,
  Parse,         \* strconv.ParseFloat of a trimmed text, or NotNumeric
  NotNumeric,
  Format(_),     \* a number or a truth value of a document as a text
  Times(_, _),   \* the product of two numbers
  Group(_, _),   \* group 1 of a regular expression in a text, or NoMatch
  NoMatch,
  Expand(_, _),  \* a static label with the capture groups filled in
  Nothing,       \* a setting that is not there: no regex, no map, no scale
  NameOrder,     \* the label names in alphabetical order
  Source         \* sources: a record of their labels and their rules

(***************************************************************************)
(* A document of JSON is a record of its type and, but for null and for    *)
(* arrays, its content; that of an object is a function.                   *)
(***************************************************************************)
Null   == [type |-> "null"]
Absent == [type |-> "absent"]

ASSUME DocumentAssumption ==
  /\ \A d \in Document :
       /\ d.type \in {"null", "number", "bool", "string", "object", "array"}
       /\ d.type = "null" => d = Null
       /\ d.type = "string" => d.content \in Text
       /\ d.type = "object" =>
            \A segment \in DOMAIN d.content : d.content[segment] \in Document
  /\ \A t \in Text : Decode[t] \in Document \cup {BadJSON}
  /\ BadJSON \notin Document
  /\ NoMatch \notin Text

(***************************************************************************)
(* What Validate lets through of paths, and of the labels of a source.     *)
(***************************************************************************)
hasPath(setting) == setting.fromJSON => setting.path \in Seq(ToSet(setting.path))

labelsOK(labels) ==
  /\ DOMAIN labels \subseteq ToSet(NameOrder)
  /\ \A name \in DOMAIN labels : hasPath(labels[name])

ASSUME SourceAssumption ==
  /\ NameOrder \in Seq(ToSet(NameOrder))
  /\ \A src \in Source :
       /\ labelsOK(src.labels) /\ Consumed(src.labels) = {}
       /\ \A rule \in src.rules :
            /\ labelsOK(rule.labels) /\ hasPath(rule.value)
            /\ rule.captures \subseteq ToSet(NameOrder)

VARIABLES
  source,   \* the source that applies its rules
  payload,  \* to this message
  last      \* the call made last: what was applied and what came of it

vars == <<source, payload, last>>

-----------------------------------------------------------------------------
(***************************************************************************)
(* Payload: the raw text, and the document once it has been parsed.        *)
(***************************************************************************)
NewPayload(raw) == [raw |-> raw, parsed |-> FALSE, document |-> Null, bad |-> FALSE]

\* Mutant: the error is returned once, and not kept for the next rule.
parseOnce(p) ==
  IF p.parsed THEN [p EXCEPT !.bad = FALSE]
  ELSE IF Decode[p.raw] = BadJSON THEN [p EXCEPT !.parsed = TRUE, !.bad = TRUE]
  ELSE [p EXCEPT !.parsed = TRUE, !.document = Decode[p.raw]]

parse(p) ==
  IF p.parsed THEN p
  ELSE IF Decode[p.raw] = BadJSON THEN [p EXCEPT !.parsed = TRUE, !.bad = TRUE]
  ELSE [p EXCEPT !.parsed = TRUE, !.document = Decode[p.raw]]

field(document, segment) ==
  IF document.type = "object" /\ segment \in DOMAIN document.content
  THEN document.content[segment]
  ELSE Absent

(***************************************************************************)
(* walk, once the payload is parsed: the value at a path, if there is one  *)
(* and it is not null.                                                     *)
(***************************************************************************)
walk(document, path) ==
  LET at[n \in 0 .. Len(path)] ==
        IF n = 0 THEN document ELSE field(at[n - 1], path[n])
  IN  IF at[Len(path)] = Null THEN Absent ELSE at[Len(path)]

-----------------------------------------------------------------------------
(***************************************************************************)
(* Results: skip stands for reading.skip, for a label that is not present  *)
(* and for a Match without labels.                                         *)
(***************************************************************************)
fails(reason) == [result |-> "error", reason |-> reason]
skip          == [result |-> "skip"]
gives(value)  == [result |-> "value", value |-> value]

(***************************************************************************)
(* The regex takes part of the text; the map says what that means, and     *)
(* only without a map is it read as a number.                              *)
(***************************************************************************)
fromString(e, s) ==
  LET taken == IF e.regex = Nothing THEN s ELSE Group(e.regex, s)
  IN  CASE taken = NoMatch -> fails("regex")
        [] taken # NoMatch /\ e.map # Nothing ->
             IF taken \in DOMAIN e.map THEN gives(e.map[taken]) ELSE skip
        [] OTHER -> IF Parse[taken] = NotNumeric THEN fails("not_numeric")
                    ELSE gives(Parse[taken])

toNumber(e, v) ==
  CASE v.type = "number" -> gives(v.content)
    [] v.type = "bool"   -> gives(IF v.content THEN 1 ELSE 0)
    [] v.type = "string" -> fromString(e, v.content)
    [] OTHER             -> fails("not_numeric")

scaled(e, reading) ==
  IF reading.result = "value" /\ e.scale # Nothing
  THEN gives(Times(reading.value, e.scale))
  ELSE reading

extract(e, p) ==
  IF ~e.fromJSON THEN scaled(e, fromString(e, p.raw))
  ELSE IF parse(p).bad THEN fails("json")
  ELSE LET v == walk(parse(p).document, e.path)
       IN  IF v = Absent THEN skip ELSE scaled(e, toNumber(e, v))

-----------------------------------------------------------------------------
asLabel(v) ==
  CASE v.type = "string"            -> gives(v.content)
    [] v.type \in {"number", "bool"} -> gives(Format(v))
    [] OTHER                        -> fails("other")

read(label, captured, p) ==
  IF ~label.fromJSON THEN gives(Expand(label.value, captured))
  ELSE IF parse(p).bad THEN fails("json")
  ELSE LET v == walk(parse(p).document, label.path)
       IN  IF v = Absent THEN skip ELSE asLabel(v)

resolve(label, captured, p) ==
  LET value == read(label, captured, p)
  IN  IF value.result # "value" \/ label.map = Nothing THEN value
      ELSE IF value.value \in DOMAIN label.map THEN gives(label.map[value.value])
      ELSE skip

labelOf(name, labels, captured, p) ==
  IF name \in DOMAIN labels THEN resolve(labels[name], captured, p)
  ELSE gives(captured[name])

(***************************************************************************)
(* The places, in alphabetical order, of the names whose label is an error *)
(* or not present.                                                         *)
(***************************************************************************)
stopsAt(names, labels, captured, p) ==
  {i \in DOMAIN NameOrder :
     /\ NameOrder[i] \in names
     /\ labelOf(NameOrder[i], labels, captured, p).result # "value"}

(***************************************************************************)
(* resolveLabels and Labels.Resolve: name by name in that order, until one *)
(* stops them.                                                             *)
(***************************************************************************)
resolveLabels(names, labels, captured, p) ==
  LET stops == stopsAt(names, labels, captured, p)
  IN  IF stops # {} THEN labelOf(NameOrder[Min(stops)], labels, captured, p)
      ELSE gives([name \in names |-> labelOf(name, labels, captured, p).value])

(***************************************************************************)
(* Whether they came to a label that needs the document.                   *)
(***************************************************************************)
labelsParse(names, labels, captured, p) ==
  \E i \in DOMAIN NameOrder :
    /\ \A j \in stopsAt(names, labels, captured, p) : i <= j
    /\ NameOrder[i] \in names \cap DOMAIN labels /\ labels[NameOrder[i]].fromJSON

-----------------------------------------------------------------------------
(***************************************************************************)
(* Compile: the labels of a rule and of its source, and the names that     *)
(* samples of the rule carry.                                              *)
(***************************************************************************)
declared(src, rule) == Merge(rule.labels, src.labels)

autoLabels(src, rule) == LabelNames(rule.captures, {declared(src, rule)})

\* Mutant: the labels are resolved before the value is extracted.
ApplyLabelsFirst(src, rule, captured, p) ==
  LET value  == extract(rule.value, p)
      labels == resolveLabels(autoLabels(src, rule), declared(src, rule), captured, p)
  IN  IF labels.result # "value" THEN labels
      ELSE IF value.result # "value" THEN value
      ELSE gives([labels |-> labels.value, number |-> value.value])

(***************************************************************************)
(* Apply, for a topic that match matches with the capture groups captured. *)
(***************************************************************************)
Apply(src, rule, captured, p) ==
  LET value  == extract(rule.value, p)
      labels == resolveLabels(autoLabels(src, rule), declared(src, rule), captured, p)
  IN  IF value.result # "value" THEN value
      ELSE IF labels.result # "value" THEN labels
      ELSE gives([labels |-> labels.value, number |-> value.value])

applyParses(src, rule, captured, p) ==
  \/ rule.value.fromJSON
  \/ /\ extract(rule.value, p).result = "value"
     /\ labelsParse(autoLabels(src, rule), declared(src, rule), captured, p)

-----------------------------------------------------------------------------
Init ==
  /\ source \in Source
  /\ payload \in {NewPayload(raw) : raw \in Text}
  /\ last = [call |-> "none"]

ApplyRule(rule, captured) ==
  /\ last' = [call |-> "apply", rule |-> rule, captured |-> captured,
              outcome |-> Apply(source, rule, captured, payload)]
  /\ payload' = IF applyParses(source, rule, captured, payload) THEN parse(payload)
                ELSE payload
  /\ UNCHANGED source

none == [name \in {} |-> Nothing]

Resolve ==
  LET names == DOMAIN source.labels
  IN  /\ last' = [call |-> "resolve",
                  outcome |-> resolveLabels(names, source.labels, none, payload)]
      /\ payload' = IF labelsParse(names, source.labels, none, payload)
                    THEN parse(payload)
                    ELSE payload
      /\ UNCHANGED source

Next ==
  \/ \E rule \in source.rules : \E captured \in [rule.captures -> Text] :
       ApplyRule(rule, captured)
  \/ Resolve

Spec == Init /\ [][Next]_vars

-----------------------------------------------------------------------------
(***************************************************************************)
(* What docs/configuration.md says of values and labels.                   *)
(***************************************************************************)
isJSON == Decode[payload.raw] # BadJSON

valuesAt(path) ==
  LET at[n \in 0 .. Len(path)] ==
        IF n = 0 THEN {Decode[payload.raw]}
        ELSE {v.content[path[n]] : v \in {w \in at[n - 1] :
                w.type = "object" /\ path[n] \in DOMAIN w.content}}
  IN  at[Len(path)]

missing(setting) ==
  setting.fromJSON /\ isJSON /\ valuesAt(setting.path) \subseteq {Null}

unreadable(setting) == setting.fromJSON /\ ~isJSON

present(setting) == IF setting.fromJSON /\ isJSON THEN valuesAt(setting.path) ELSE {}

compound(setting) == \E v \in present(setting) : v.type \in {"object", "array"}

textsTaken(value) ==
  LET texts == IF value.fromJSON
               THEN {v.content : v \in {w \in present(value) : w.type = "string"}}
               ELSE {payload.raw}
  IN  IF value.regex = Nothing THEN texts ELSE {Group(value.regex, s) : s \in texts}

valueSkipped(value) ==
  \/ missing(value)
  \/ value.map # Nothing /\ ~(textsTaken(value) \subseteq DOMAIN value.map \cup {NoMatch})

valueWrong(value) ==
  \/ unreadable(value) \/ compound(value) \/ NoMatch \in textsTaken(value)
  \/ value.map = Nothing /\ \E s \in textsTaken(value) : Parse[s] = NotNumeric

labelTexts(label, captured) ==
  IF ~label.fromJSON THEN {Expand(label.value, captured)}
  ELSE {asLabel(v).value : v \in {w \in present(label) : asLabel(w).result = "value"}}

labelSkipped(label, captured) ==
  \/ missing(label)
  \/ label.map # Nothing /\ ~(labelTexts(label, captured) \subseteq DOMAIN label.map)

labelWrong(label) == unreadable(label) \/ compound(label)

-----------------------------------------------------------------------------
(***************************************************************************)
(* What a Payload keeps is what its text decodes to.                       *)
(***************************************************************************)
TypeOK ==
  /\ source \in Source
  /\ payload.raw \in Text /\ payload.parsed \in BOOLEAN
  /\ payload.parsed => (payload.bad <=> ~isJSON)
  /\ payload.parsed /\ ~payload.bad => payload.document = Decode[payload.raw]
  /\ last.call \in {"none", "apply", "resolve"}

(***************************************************************************)
(* What a rule makes of a message does not depend on the rules that were   *)
(* applied to it before: the document, or the error, that the payload      *)
(* keeps is as good as a new one.                                          *)
(***************************************************************************)
OrderDoesNotMatter ==
  last.call = "apply" =>
    last.outcome = Apply(source, last.rule, last.captured, NewPayload(payload.raw))

(***************************************************************************)
(* A sample carries exactly the labels for which Validate compared its     *)
(* metric with the others, and is only made when the value and every label *)
(* is there: an absent one would change the series it belongs to.          *)
(***************************************************************************)
SampleIsWhole ==
  last.call = "apply" /\ last.outcome.result = "value" =>
    LET rule   == last.rule
        labels == declared(source, rule)
    IN  /\ DOMAIN last.outcome.value.labels =
             LabelNames(rule.captures, {rule.labels, source.labels})
        /\ ~valueSkipped(rule.value) /\ ~valueWrong(rule.value)
        /\ \A name \in DOMAIN labels :
             ~labelSkipped(labels[name], last.captured) /\ ~labelWrong(labels[name])

(***************************************************************************)
(* A message is skipped quietly when its value is not there, whatever its  *)
(* labels are, and otherwise only because a label is not.                  *)
(***************************************************************************)
SkippedQuietly ==
  last.call = "apply" =>
    LET rule   == last.rule
        labels == declared(source, rule)
    IN  /\ valueSkipped(rule.value) => last.outcome = skip
        /\ last.outcome = skip =>
             \/ valueSkipped(rule.value)
             \/ \E name \in DOMAIN labels : labelSkipped(labels[name], last.captured)

(***************************************************************************)
(* What is counted as an error is one: the payload is no JSON, the regex   *)
(* does not match, the value is not numeric, or an object or an array is   *)
(* to be a value or a label; and the reason says which.                    *)
(***************************************************************************)
ErrorsAreErrors ==
  last.call = "apply" =>
    LET rule   == last.rule
        labels == declared(source, rule)
    IN  /\ valueWrong(rule.value) => last.outcome.result = "error"
        /\ last.outcome = fails("json") => ~isJSON
        /\ last.outcome = fails("regex") => NoMatch \in textsTaken(rule.value)
        /\ last.outcome = fails("not_numeric") => valueWrong(rule.value)
        /\ last.outcome = fails("other") =>
             isJSON /\ \E name \in DOMAIN labels : compound(labels[name])

(***************************************************************************)
(* The heartbeat of a source carries all of its labels, or is left out:    *)
(* quietly if one is absent, as an error if one cannot be read.            *)
(***************************************************************************)
SourceLabelsAreWhole ==
  last.call = "resolve" =>
    LET labels == source.labels
    IN  CASE last.outcome.result = "value" ->
               /\ DOMAIN last.outcome.value = DOMAIN labels
               /\ \A name \in DOMAIN labels :
                    ~labelSkipped(labels[name], none) /\ ~labelWrong(labels[name])
          [] last.outcome.result = "skip" ->
               \E name \in DOMAIN labels : labelSkipped(labels[name], none)
          [] OTHER -> \E name \in DOMAIN labels : labelWrong(labels[name])

(***************************************************************************)
(* What a message is made into is a whole sample, nothing or an error, and *)
(* which of them is decided by what is in the message alone.               *)
(***************************************************************************)
OutcomesAreRight ==
  SampleIsWhole /\ SkippedQuietly /\ ErrorsAreErrors /\ SourceLabelsAreWhole
=============================================================================
