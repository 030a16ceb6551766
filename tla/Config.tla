------------------------------- MODULE Config -------------------------------
(***************************************************************************)
(* internal/config/validate.go: which configurations are accepted, and     *)
(* internal/rules/rule.go (Compile), internal/app/source.go (apply): what  *)
(* an accepted one may write to the store.  The question is whether a      *)
(* metric family can ever disagree with itself, which would make every     *)
(* scrape fail.                                                            *)
(*                                                                         *)
(* Validate goes through the sources one by one, with a memory of names    *)
(* and shapes.  What is wrong with a field on its own (an empty name, a    *)
(* type or a quality of service that does not exist) makes a source        *)
(* malformed; which field, and how the problem is worded, is left out.     *)
(***************************************************************************)
EXTENDS Naturals, FiniteSets, Labels

CONSTANTS
  Source,        \* the source files that could be there
  MaxSources,    \* bound: how many there are
  NoName,        \* a field that is not set
  HeartbeatHelp,
  Own            \* the shapes of the exporter's own metrics, NewSelf

ASSUME ConfigAssumption == MaxSources \in Nat

(***************************************************************************)
(* A source has a name, labels, rules and a heartbeat, the name of its     *)
(* last_updated_metric.  A rule has a metric, a kind, a help, a heartbeat, *)
(* captures, the names of the groups of match, and labels.  badMatch says  *)
(* that match is missing or no regular expression, malformed that some     *)
(* other field of a source, rule or label is wrong on its own.             *)
(***************************************************************************)
VARIABLES
  sources,    \* the sources validated so far,
  files,      \* and how many there were
  problems,   \* Validate has found something
  seenSource, \* the names of the sources
  shapes      \* what each metric looked like when it was first seen

vars == <<sources, files, problems, seenSource, shapes>>

Init ==
  /\ sources = {} /\ files = 0 /\ problems = FALSE
  /\ seenSource = {}
  /\ shapes = [name \in {} |-> {}]

Shape(name, labels, help, kind) ==
  [name |-> name, labels |-> labels, help |-> help, kind |-> kind]

heartbeatShape(name, labels) == Shape(name, labels, HeartbeatHelp, "gauge")

-----------------------------------------------------------------------------
\* Mutant: templates are not checked against the capture groups.
badLabelsUnchecked(captures, labels) ==
  \E name \in DOMAIN labels : labels[name].malformed \/ name \in captures

(***************************************************************************)
(* validateLabels.                                                         *)
(***************************************************************************)
badLabels(captures, labels) ==
  \E name \in DOMAIN labels :
    \/ labels[name].malformed
    \/ name \in captures
    \/ labels[name].refs \ captures # {}

groups(rule) == IF rule.badMatch THEN {} ELSE rule.captures

badRule(rule) ==
  \/ rule.metric = NoName \/ rule.badMatch \/ rule.malformed
  \/ badLabels(groups(rule), rule.labels)

badSource(src) ==
  \/ src.name = NoName \/ src.malformed \/ src.rules = {}
  \/ badLabels({}, src.labels)
  \/ \E rule \in src.rules : badRule(rule)

-----------------------------------------------------------------------------
(***************************************************************************)
(* validateMetricConsistency: the shapes of a rule and of the heartbeats.  *)
(***************************************************************************)
\* Mutant: the labels of the source are forgotten.
ruleShapesAlone(src, rule) ==
  LET labels == LabelNames(rule.captures, {rule.labels})
  IN  IF rule.metric = NoName \/ rule.badMatch THEN {}
      ELSE {Shape(rule.metric, labels, rule.help, rule.kind)}
             \cup {heartbeatShape(beat, labels) : beat \in {rule.heartbeat} \ {NoName}}

\* Mutant: the heartbeat of a rule is not recorded.
ruleShapesNoBeat(src, rule) ==
  LET labels == LabelNames(rule.captures, {rule.labels, src.labels})
  IN  IF rule.metric = NoName \/ rule.badMatch THEN {}
      ELSE {Shape(rule.metric, labels, rule.help, rule.kind)}

ruleShapes(src, rule) ==
  LET labels == LabelNames(rule.captures, {rule.labels, src.labels})
  IN  IF rule.metric = NoName \/ rule.badMatch THEN {}
      ELSE {Shape(rule.metric, labels, rule.help, rule.kind)}
             \cup {heartbeatShape(beat, labels) : beat \in {rule.heartbeat} \ {NoName}}

shapesOf(src) ==
  UNION {ruleShapes(src, rule) : rule \in src.rules}
    \cup {heartbeatShape(beat, LabelNames({}, {src.labels})) :
            beat \in {src.heartbeat} \ {NoName}}

(***************************************************************************)
(* record, for all the shapes of a source: the first shape of a name is    *)
(* remembered, and every other one must be the same.                       *)
(***************************************************************************)
recorded(new) ==
  [name \in DOMAIN shapes \cup {shape.name : shape \in new} |->
     IF name \in DOMAIN shapes THEN shapes[name]
     ELSE CHOOSE shape \in new : shape.name = name]

differ(new) == \E shape \in new : recorded(new)[shape.name] # shape

\* Mutant: the names of the sources are not remembered.
ValidateForgetful(src) ==
  /\ files < MaxSources
  /\ problems' = (problems \/ badSource(src) \/ src.name \in seenSource
                   \/ differ(shapesOf(src)))
  /\ shapes' = recorded(shapesOf(src))
  /\ sources' = sources \cup {src} /\ files' = files + 1
  /\ UNCHANGED seenSource

Validate(src) ==
  /\ files < MaxSources
  /\ problems' = (problems \/ badSource(src) \/ src.name \in seenSource
                   \/ differ(shapesOf(src)))
  /\ seenSource' = seenSource \cup ({src.name} \ {NoName})
  /\ shapes' = recorded(shapesOf(src))
  /\ sources' = sources \cup {src} /\ files' = files + 1

Next == \E src \in Source : Validate(src)

Spec == Init /\ [][Next]_vars

accepted == files > 0 /\ ~problems

-----------------------------------------------------------------------------
(***************************************************************************)
(* What the running exporter may write to the store: Compile gives a rule  *)
(* the labels of its source where it has none of its own, apply writes the *)
(* sample and the heartbeat with the labels of the rule, and the heartbeat *)
(* of the source with the labels of the source.                            *)
(***************************************************************************)
autoLabels(src, rule) ==
  LabelNames(rule.captures, {Merge(rule.labels, src.labels)})

ruleWrites(src, rule) ==
  {Shape(rule.metric, autoLabels(src, rule), rule.help, rule.kind)}
    \cup {heartbeatShape(beat, autoLabels(src, rule)) :
            beat \in {rule.heartbeat} \ {NoName}}

writes(src) ==
  UNION {ruleWrites(src, rule) : rule \in src.rules}
    \cup {heartbeatShape(beat, DOMAIN src.labels) : beat \in {src.heartbeat} \ {NoName}}

allWrites == UNION {writes(src) : src \in sources}

-----------------------------------------------------------------------------
(***************************************************************************)
(* What Validate remembers is about the sources it has seen.               *)
(***************************************************************************)
TypeOK ==
  /\ sources \in SUBSET Source
  /\ files \in 0 .. MaxSources
  /\ problems \in BOOLEAN
  /\ seenSource = {src.name : src \in sources} \ {NoName}
  /\ DOMAIN shapes = {shape.name : shape \in UNION {shapesOf(src) : src \in sources}}
  /\ \A name \in DOMAIN shapes : shapes[name].name = name

(***************************************************************************)
(* Whatever messages come, the samples of one metric that an accepted      *)
(* configuration writes agree on label names, help and kind, though they   *)
(* come from several rules, heartbeats and files.                          *)
(***************************************************************************)
FamiliesAgree ==
  accepted => \A a, b \in allWrites : a.name = b.name => a = b

(***************************************************************************)
(* No label of an accepted configuration is expanded with a capture group  *)
(* that is not there, which would silently give it an empty value; the     *)
(* labels of a source are also expanded for its heartbeat, without any     *)
(* capture group.                                                          *)
(***************************************************************************)
TemplatesResolve ==
  accepted =>
    \A src \in sources :
      /\ Consumed(src.labels) = {}
      /\ \A rule \in src.rules :
           Consumed(Merge(rule.labels, src.labels)) \subseteq rule.captures

(***************************************************************************)
(* Exactly what could not be exported is refused: a configuration with a   *)
(* malformed source, a name twice, under which messages and errors would   *)
(* be counted together, or a metric that would disagree with itself.  The  *)
(* order of the files makes no difference.                                 *)
(***************************************************************************)
RefusedExactly ==
  problems <=>
    \/ \E src \in sources : badSource(src)
    \/ Cardinality({src.name : src \in sources}) < files
    \/ \E a, b \in allWrites : a.name = b.name /\ a # b

(***************************************************************************)
(* docs/configuration.md: verify refuses a configuration with which a      *)
(* metric family would disagree with itself; the exporter's own metrics    *)
(* are gathered in the same scrape.                                        *)
(***************************************************************************)
OwnMetricsAgree ==
  accepted => \A a \in allWrites, own \in Own : a.name = own.name => a = own
=============================================================================
