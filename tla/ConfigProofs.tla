---------------------------- MODULE ConfigProofs ----------------------------
(***************************************************************************)
(* Theorems about Config, for any set of source files, label names, metric *)
(* names and rules.                                                        *)
(***************************************************************************)
EXTENDS Config, FiniteSetTheorems, TLAPS

(***************************************************************************)
(* Labels of a source that refer to no capture group leave the names the   *)
(* same, whether the two sets of labels are merged before their names are  *)
(* taken, as Compile does, or after, as Validate does.                     *)
(***************************************************************************)
LEMMA MergeKeepsNames ==
  ASSUME NEW captures, NEW rl, NEW sl,
         Consumed(sl) = {}
  PROVE  LabelNames(captures, {Merge(rl, sl)}) = LabelNames(captures, {rl, sl})
<1>1. DOMAIN Merge(rl, sl) = DOMAIN rl \cup DOMAIN sl
  BY DEF Merge
<1>2. \A name \in DOMAIN sl : sl[name].refs \subseteq Consumed(sl)
  BY DEF Consumed
<1>3. Consumed(Merge(rl, sl)) = Consumed(rl)
  <2>1. ASSUME NEW c \in Consumed(Merge(rl, sl))
        PROVE  c \in Consumed(rl)
    <3>1. PICK name \in DOMAIN Merge(rl, sl) : c \in Merge(rl, sl)[name].refs
      BY <2>1 DEF Consumed
    <3>2. CASE name \in DOMAIN rl
      BY <3>1, <3>2 DEF Merge, Consumed
    <3>3. CASE name \notin DOMAIN rl
      <4>1. name \in DOMAIN sl /\ c \in sl[name].refs
        BY <1>1, <3>1, <3>3 DEF Merge
      <4> QED BY <4>1, <1>2
    <3> QED BY <3>2, <3>3
  <2>2. ASSUME NEW c \in Consumed(rl)
        PROVE  c \in Consumed(Merge(rl, sl))
    <3>1. PICK name \in DOMAIN rl : c \in rl[name].refs
      BY <2>2 DEF Consumed
    <3>2. name \in DOMAIN Merge(rl, sl) /\ Merge(rl, sl)[name] = rl[name]
      BY DEF Merge
    <3> QED BY <3>1, <3>2 DEF Consumed
  <2> QED BY <2>1, <2>2
<1>4. UNION {DOMAIN l : l \in {rl, sl}} = DOMAIN rl \cup DOMAIN sl
  OBVIOUS
<1>5. UNION {DOMAIN l : l \in {Merge(rl, sl)}} = DOMAIN Merge(rl, sl)
  OBVIOUS
<1>6. UNION {Consumed(l) : l \in {rl, sl}} = Consumed(rl)
  <2>1. UNION {Consumed(l) : l \in {rl, sl}} = Consumed(rl) \cup Consumed(sl)
    OBVIOUS
  <2> QED BY <2>1
<1>7. UNION {Consumed(l) : l \in {Merge(rl, sl)}} = Consumed(Merge(rl, sl))
  OBVIOUS
<1> QED BY <1>1, <1>3, <1>4, <1>5, <1>6, <1>7 DEF LabelNames

(***************************************************************************)
(* A source whose labels refer to no capture group carries exactly the     *)
(* declared ones on its heartbeat.                                         *)
(***************************************************************************)
LEMMA HeartbeatNames ==
  ASSUME NEW sl
  PROVE  LabelNames({}, {sl}) = DOMAIN sl
<1>1. UNION {DOMAIN l : l \in {sl}} = DOMAIN sl
  OBVIOUS
<1> QED BY <1>1 DEF LabelNames

(***************************************************************************)
(* Validate checks a well-formed source by what it will write.             *)
(***************************************************************************)
LEMMA CheckedIsWritten ==
  ASSUME NEW src, ~badSource(src)
  PROVE  writes(src) = shapesOf(src)
<1>1. Consumed(src.labels) = {}
  <2>1. \A name \in DOMAIN src.labels : src.labels[name].refs \ {} = {}
    BY DEF badSource, badLabels
  <2> QED BY <2>1 DEF Consumed
<1>2. ASSUME NEW rule \in src.rules
      PROVE  ruleWrites(src, rule) = ruleShapes(src, rule)
  <2>1. rule.metric # NoName /\ ~rule.badMatch
    BY DEF badSource, badRule
  <2>2. autoLabels(src, rule) =
          LabelNames(rule.captures, {rule.labels, src.labels})
    BY <1>1, MergeKeepsNames DEF autoLabels
  <2> QED BY <2>1, <2>2 DEF ruleWrites, ruleShapes
<1>3. UNION {ruleWrites(src, rule) : rule \in src.rules} =
        UNION {ruleShapes(src, rule) : rule \in src.rules}
  BY <1>2
<1> QED BY <1>3, HeartbeatNames DEF writes, shapesOf

-----------------------------------------------------------------------------
(***************************************************************************)
(* As long as there is no problem, every source is well-formed and the     *)
(* shapes remembered are the shapes of every one of its metrics.           *)
(***************************************************************************)
Remembered ==
  ~problems =>
    \A src \in sources :
      /\ ~badSource(src)
      /\ \A shape \in shapesOf(src) :
           shape.name \in DOMAIN shapes /\ shapes[shape.name] = shape

LEMMA RememberedStep ==
  ASSUME Remembered, [Next]_vars
  PROVE  Remembered'
<1>1. CASE UNCHANGED vars
  BY <1>1 DEF vars, Remembered
<1>2. ASSUME NEW new \in Source, Validate(new)
      PROVE  Remembered'
  <2> DEFINE kept == recorded(shapesOf(new))
  <2>1. /\ sources' = sources \cup {new} /\ shapes' = kept
        /\ problems' = (problems \/ badSource(new) \/ new.name \in seenSource
                        \/ differ(shapesOf(new)))
    BY <1>2 DEF Validate
  <2>2. DOMAIN kept = DOMAIN shapes \cup {shape.name : shape \in shapesOf(new)}
    BY DEF recorded
  <2>3. \A name \in DOMAIN shapes : kept[name] = shapes[name]
    BY DEF recorded
  <2> SUFFICES ASSUME ~problems', NEW src \in sources'
               PROVE  /\ ~badSource(src)
                      /\ \A shape \in shapesOf(src) :
                           /\ shape.name \in DOMAIN kept
                           /\ kept[shape.name] = shape
    BY <2>1 DEF Remembered
  <2>4. ~problems /\ ~badSource(new) /\ ~differ(shapesOf(new))
    BY <2>1
  <2>5. CASE src = new
    BY <2>2, <2>4, <2>5 DEF differ
  <2>6. CASE src \in sources
    <3>1. /\ ~badSource(src)
          /\ \A shape \in shapesOf(src) :
               shape.name \in DOMAIN shapes /\ shapes[shape.name] = shape
      BY <2>4, <2>6 DEF Remembered
    <3> QED BY <3>1, <2>2, <2>3
  <2> QED BY <2>1, <2>5, <2>6
<1> QED BY <1>1, <1>2 DEF Next

LEMMA RememberedAlways == Spec => []Remembered
<1>1. Init => Remembered
  BY DEF Init, Remembered
<1> QED BY <1>1, RememberedStep, PTL DEF Spec

(***************************************************************************)
(* Whatever messages come, the samples of one metric that an accepted      *)
(* configuration writes agree on label names, help and kind.               *)
(***************************************************************************)
THEOREM Consistent == Spec => []FamiliesAgree
<1>1. ASSUME Remembered
      PROVE  FamiliesAgree
  <2> SUFFICES ASSUME ~problems, NEW a \in allWrites, NEW b \in allWrites,
                      a.name = b.name
               PROVE  a = b
    BY DEF FamiliesAgree, accepted
  <2>1. ASSUME NEW shape \in allWrites
        PROVE  shapes[shape.name] = shape
    <3>1. PICK src \in sources : shape \in writes(src)
      BY DEF allWrites
    <3>2. shape \in shapesOf(src)
      BY <1>1, <3>1, CheckedIsWritten DEF Remembered
    <3> QED BY <1>1, <3>2 DEF Remembered
  <2>2. shapes[a.name] = a /\ shapes[b.name] = b
    BY <2>1
  <2> QED BY <2>2
<1> QED BY <1>1, RememberedAlways, PTL

(***************************************************************************)
(* In an accepted configuration no template refers to a capture group that *)
(* is not there when it is expanded.                                       *)
(***************************************************************************)
THEOREM NoEmptyTemplate == Spec => []TemplatesResolve
<1>1. ASSUME Remembered
      PROVE  TemplatesResolve
  <2> SUFFICES ASSUME ~problems, NEW src \in sources
               PROVE  /\ Consumed(src.labels) = {}
                      /\ \A rule \in src.rules :
                           Consumed(Merge(rule.labels, src.labels))
                             \subseteq rule.captures
    BY DEF TemplatesResolve, accepted
  <2>1. ~badSource(src)
    BY <1>1 DEF Remembered
  <2>2. \A name \in DOMAIN src.labels : src.labels[name].refs \ {} = {}
    BY <2>1 DEF badSource, badLabels
  <2>3. ASSUME NEW rule \in src.rules, NEW name \in DOMAIN rule.labels
        PROVE  rule.labels[name].refs \subseteq rule.captures
    <3>1. ~rule.badMatch /\ rule.labels[name].refs \ groups(rule) = {}
      BY <2>1 DEF badSource, badRule, badLabels
    <3> QED BY <3>1 DEF groups
  <2>4. ASSUME NEW rule \in src.rules,
               NEW c \in Consumed(Merge(rule.labels, src.labels))
        PROVE  c \in rule.captures
    <3> DEFINE merged == Merge(rule.labels, src.labels)
    <3>1. PICK name \in DOMAIN merged : c \in merged[name].refs
      BY <2>4 DEF Consumed
    <3>2. CASE name \in DOMAIN rule.labels
      BY <2>3, <3>1, <3>2 DEF Merge
    <3>3. CASE name \notin DOMAIN rule.labels
      <4>1. name \in DOMAIN src.labels /\ c \in src.labels[name].refs
        BY <3>1, <3>3 DEF Merge
      <4> QED BY <2>2, <4>1
    <3> QED BY <3>2, <3>3
  <2>5. Consumed(src.labels) = {}
    BY <2>2 DEF Consumed
  <2> QED BY <2>4, <2>5
<1> QED BY <1>1, RememberedAlways, PTL

-----------------------------------------------------------------------------
(***************************************************************************)
(* One more source: what is remembered afterwards.                         *)
(***************************************************************************)
Names == {src.name : src \in sources}

Shapes == UNION {shapesOf(src) : src \in sources}

LEMMA ValidateEffect ==
  ASSUME NEW new \in Source, Validate(new)
  PROVE  /\ sources' = sources \cup {new} /\ files' = files + 1
         /\ Names' = Names \cup {new.name} /\ Shapes' = Shapes \cup shapesOf(new)
         /\ shapes' = recorded(shapesOf(new))
         /\ seenSource' = seenSource \cup ({new.name} \ {NoName})
         /\ problems' = (problems \/ badSource(new) \/ new.name \in seenSource
                          \/ differ(shapesOf(new)))
  BY DEF Validate, Names, Shapes

LEMMA RecordedIs ==
  ASSUME NEW new, \A name \in DOMAIN shapes : shapes[name].name = name
  PROVE  /\ DOMAIN recorded(new) = DOMAIN shapes \cup {shape.name : shape \in new}
         /\ \A name \in DOMAIN shapes : recorded(new)[name] = shapes[name]
         /\ \A name \in DOMAIN recorded(new) :
              /\ recorded(new)[name].name = name
              /\ name \notin DOMAIN shapes => recorded(new)[name] \in new
<1>1. \A name \in {shape.name : shape \in new} :
        /\ (CHOOSE shape \in new : shape.name = name) \in new
        /\ (CHOOSE shape \in new : shape.name = name).name = name
  OBVIOUS
<1> QED BY <1>1 DEF recorded

(***************************************************************************)
(* Validate remembers the names and shapes of the sources it has seen.     *)
(***************************************************************************)
THEOREM TypeCorrect == Spec => []TypeOK
<1>1. ASSUME Init
      PROVE  TypeOK
  <2>1. sources \in SUBSET Source /\ problems \in BOOLEAN
    BY <1>1 DEF Init
  <2>2. files \in 0 .. MaxSources
    <3>1. files = 0
      BY <1>1 DEF Init
    <3> QED BY <3>1, ConfigAssumption
  <2>3. seenSource = {src.name : src \in sources} \ {NoName}
    BY <1>1 DEF Init
  <2>4. DOMAIN shapes = {} /\ Shapes = {}
    BY <1>1 DEF Init, Shapes
  <2>5. DOMAIN shapes = {shape.name : shape \in Shapes}
    BY <2>4
  <2> QED BY <2>1, <2>2, <2>3, <2>4, <2>5 DEF TypeOK, Shapes
<1>2. ASSUME TypeOK, [Next]_vars
      PROVE  TypeOK'
  <2>1. CASE UNCHANGED vars
    BY <1>2, <2>1 DEF TypeOK, vars
  <2>2. ASSUME NEW new \in Source, Validate(new)
        PROVE  TypeOK'
    <3>1. sources' \in SUBSET Source /\ problems' \in BOOLEAN
      BY <1>2, <2>2, ValidateEffect DEF TypeOK
    <3>2. files' \in 0 .. MaxSources
      BY <1>2, <2>2, ConfigAssumption DEF TypeOK, Validate
    <3>3. seenSource' = {src.name : src \in sources'} \ {NoName}
      BY <1>2, <2>2, ValidateEffect DEF TypeOK, Names
    <3>4. /\ DOMAIN shapes = {shape.name : shape \in Shapes}
          /\ \A name \in DOMAIN shapes : shapes[name].name = name
      BY <1>2 DEF TypeOK, Shapes
    <3> DEFINE kept == recorded(shapesOf(new))
    <3>5. /\ shapes' = kept /\ Shapes' = Shapes \cup shapesOf(new)
      BY <2>2, ValidateEffect
    <3>6. /\ DOMAIN kept = DOMAIN shapes \cup {shape.name : shape \in shapesOf(new)}
          /\ \A name \in DOMAIN kept : kept[name].name = name
      BY <3>4, RecordedIs
    <3> HIDE DEF kept
    <3>7. DOMAIN shapes' = {shape.name : shape \in Shapes'}
      BY <3>4, <3>5, <3>6
    <3>8. \A name \in DOMAIN shapes' : shapes'[name].name = name
      BY <3>5, <3>6
    <3> QED BY <3>1, <3>2, <3>3, <3>7, <3>8 DEF TypeOK, Shapes
  <2> QED BY <1>2, <2>1, <2>2 DEF Next
<1> QED BY <1>1, <1>2, PTL DEF Spec

-----------------------------------------------------------------------------
(***************************************************************************)
(* What there is to refuse, and what the memory says of it: files is more  *)
(* than the names once one came twice, and what is remembered of a metric  *)
(* is the shape that some source gives it.                                 *)
(***************************************************************************)
Wrong ==
  \/ \E src \in sources : badSource(src)
  \/ Cardinality(Names) < files
  \/ \E a, b \in allWrites : a.name = b.name /\ a # b

Justified ==
  /\ files \in Nat /\ IsFiniteSet(Names) /\ Cardinality(Names) <= files
  /\ ~problems => Cardinality(Names) = files
  /\ \A name \in DOMAIN shapes : shapes[name] \in Shapes
  /\ problems => Wrong

LEMMA NamesGrow ==
  ASSUME Justified, NEW new \in Source, Validate(new)
  PROVE  /\ IsFiniteSet(Names') /\ Cardinality(Names') \in Nat /\ Cardinality(Names) \in Nat
         /\ files' = files + 1
         /\ new.name \in Names => Cardinality(Names') = Cardinality(Names)
         /\ new.name \notin Names => Cardinality(Names') = Cardinality(Names) + 1
<1>1. Names' = Names \cup {new.name} /\ files' = files + 1
  BY ValidateEffect
<1>2. IsFiniteSet(Names)
  BY DEF Justified
<1>3. /\ IsFiniteSet(Names \cup {new.name})
      /\ Cardinality(Names \cup {new.name}) =
           IF new.name \in Names THEN Cardinality(Names) ELSE Cardinality(Names) + 1
  BY <1>2, FS_AddElement
<1>4. Cardinality(Names) \in Nat
  BY <1>2, FS_CardinalityType
<1> HIDE DEF Names
<1>5. IsFiniteSet(Names') /\ Cardinality(Names') = Cardinality(Names \cup {new.name})
  BY <1>1, <1>3
<1>6. Cardinality(Names') \in Nat
  BY <1>3, <1>4, <1>5
<1> QED BY <1>1, <1>3, <1>4, <1>5, <1>6

LEMMA JustifiedStep ==
  ASSUME TypeOK, Remembered, Justified, [Next]_vars
  PROVE  Justified'
<1>1. CASE UNCHANGED vars
  BY <1>1 DEF vars, Justified, Names, Shapes, Wrong, allWrites
<1>2. ASSUME NEW new \in Source, Validate(new)
      PROVE  Justified'
  <2> DEFINE kept == recorded(shapesOf(new))
  <2>1. /\ sources' = sources \cup {new} /\ shapes' = kept
        /\ Names' = Names \cup {new.name} /\ Shapes' = Shapes \cup shapesOf(new)
        /\ problems' = (problems \/ badSource(new) \/ new.name \in seenSource
                        \/ differ(shapesOf(new)))
    BY <1>2, ValidateEffect
  <2>2. /\ IsFiniteSet(Names') /\ Cardinality(Names') \in Nat /\ Cardinality(Names) \in Nat
        /\ files' = files + 1 /\ files \in Nat /\ Cardinality(Names) <= files
        /\ new.name \in Names => Cardinality(Names') = Cardinality(Names)
        /\ new.name \notin Names => Cardinality(Names') = Cardinality(Names) + 1
    BY <1>2, NamesGrow DEF Justified
  <2>3. seenSource = Names \ {NoName}
    BY DEF TypeOK, Names
  <2>4. /\ DOMAIN kept = DOMAIN shapes \cup {shape.name : shape \in shapesOf(new)}
        /\ \A name \in DOMAIN kept : kept[name] \in Shapes' /\ kept[name].name = name
    <3>1. \A name \in DOMAIN shapes : shapes[name].name = name
      BY DEF TypeOK
    <3> QED BY <2>1, <3>1, RecordedIs DEF Justified
  <2>5. ~problems' => Cardinality(Names') = files'
    <3> SUFFICES ASSUME ~problems'
                 PROVE  Cardinality(Names') = files'
      OBVIOUS
    <3>1. ~problems /\ ~badSource(new) /\ new.name \notin seenSource
      BY <2>1
    <3>2. new.name # NoName
      BY <3>1 DEF badSource
    <3>3. new.name \notin Names /\ Cardinality(Names) = files
      BY <2>3, <3>1, <3>2 DEF Justified
    <3> QED BY <2>2, <3>3
  <2>6. Wrong => Wrong'
    <3>1. allWrites \subseteq allWrites'
      BY <2>1 DEF allWrites
    <3>2. Cardinality(Names) < files => Cardinality(Names') < files'
      BY <2>2
    <3> QED BY <2>1, <3>1, <3>2 DEF Wrong
  <2>7. badSource(new) => Wrong'
    BY <2>1 DEF Wrong
  <2>8. new.name \in seenSource => Wrong'
    BY <2>2, <2>3 DEF Wrong
  <2>9. ASSUME differ(shapesOf(new)), \A src \in sources' : ~badSource(src)
        PROVE  Wrong'
    <3>1. allWrites' = Shapes'
      BY <2>9, CheckedIsWritten DEF allWrites, Shapes
    <3>2. PICK shape \in shapesOf(new) : kept[shape.name] # shape
      BY <2>9 DEF differ
    <3>3. /\ shape \in Shapes' /\ kept[shape.name] \in Shapes'
          /\ kept[shape.name].name = shape.name
      BY <2>1, <2>4
    <3> HIDE DEF kept
    <3> QED BY <3>1, <3>2, <3>3 DEF Wrong
  <2>10. problems' => Wrong'
    <3>1. (\E src \in sources' : badSource(src)) => Wrong'
      BY DEF Wrong
    <3> QED BY <2>1, <2>6, <2>7, <2>8, <2>9, <3>1 DEF Justified
  <2> HIDE DEF kept
  <2> QED BY <2>1, <2>2, <2>4, <2>5, <2>10 DEF Justified
<1> QED BY <1>1, <1>2 DEF Next

(***************************************************************************)
(* Exactly the configurations that could not be exported are refused.      *)
(***************************************************************************)
THEOREM OnlyTheWrongRefused == Spec => []RefusedExactly
<1>1. ASSUME Init
      PROVE  Justified
  <2>1. Names = {} /\ Shapes = {}
    BY <1>1 DEF Init, Names, Shapes
  <2>2. IsFiniteSet(Names) /\ Cardinality(Names) = 0
    BY <2>1, FS_EmptySet
  <2> QED BY <1>1, <2>2 DEF Init, Justified
<1>2. ASSUME Remembered, FamiliesAgree, Justified
      PROVE  RefusedExactly
  <2>1. ASSUME ~problems
        PROVE  ~Wrong
    <3>1. \A src \in sources : ~badSource(src)
      BY <1>2, <2>1 DEF Remembered
    <3>2. ~(Cardinality(Names) < files)
      BY <1>2, <2>1 DEF Justified
    <3>3. \A a, b \in allWrites : a.name = b.name => a = b
      <4>1. CASE files > 0
        BY <1>2, <2>1, <4>1 DEF FamiliesAgree, accepted
      <4>2. CASE ~(files > 0)
        <5>1. Cardinality(Names) = 0 /\ IsFiniteSet(Names)
          BY <1>2, <2>1, <4>2 DEF Justified
        <5>2. Names = {}
          BY <5>1, FS_EmptySet
        <5>3. sources = {}
          BY <5>2 DEF Names
        <5> QED BY <5>3 DEF allWrites
      <4> QED BY <4>1, <4>2
    <3> QED BY <3>1, <3>2, <3>3 DEF Wrong
  <2> QED BY <1>2, <2>1 DEF Justified, RefusedExactly, Wrong, Names
<1> QED BY <1>1, <1>2, JustifiedStep, TypeCorrect, RememberedAlways, Consistent, PTL DEF Spec
=============================================================================
