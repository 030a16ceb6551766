---------------------------- MODULE RulesProofs ----------------------------
(***************************************************************************)
(* Theorems about Rules, for any texts, decoder, regular expressions,      *)
(* sources and rules.                                                      *)
(***************************************************************************)
EXTENDS Rules, NaturalsInduction, WellFoundedInduction, TLAPS

(***************************************************************************)
(* A payload is new, or as the first rule that needed the document left    *)
(* it: nothing else ever happens to it.                                    *)
(***************************************************************************)
Cached == payload = NewPayload(payload.raw) \/ payload = parse(NewPayload(payload.raw))

LEMMA NewFields ==
  ASSUME NEW raw
  PROVE  /\ NewPayload(raw).raw = raw /\ ~NewPayload(raw).parsed
         /\ ~NewPayload(raw).bad
  BY DEF NewPayload

LEMMA ParseFields ==
  ASSUME NEW raw
  PROVE  LET p == parse(NewPayload(raw))
         IN  /\ p.raw = raw /\ p.parsed = TRUE
             /\ p.bad = (Decode[raw] = BadJSON)
             /\ Decode[raw] # BadJSON => p.document = Decode[raw]
  BY DEF parse, NewPayload

(***************************************************************************)
(* Parsing keeps the text, and parsing what was parsed changes nothing.    *)
(***************************************************************************)
LEMMA ParseOnce ==
  ASSUME Cached
  PROVE  /\ parse(payload) = parse(NewPayload(payload.raw))
         /\ parse(payload).raw = payload.raw
<1>1. CASE payload = NewPayload(payload.raw)
  BY <1>1, ParseFields
<1>2. CASE payload = parse(NewPayload(payload.raw))
  <2> DEFINE p == parse(NewPayload(payload.raw))
  <2>1. p.parsed = TRUE /\ p.raw = payload.raw
    BY ParseFields
  <2>2. payload = p
    BY <1>2
  <2> HIDE DEF p
  <2>3. parse(payload) = payload
    BY <2>1, <2>2 DEF parse
  <2> QED BY <2>2, <2>3 DEF p
<1> QED BY <1>1, <1>2 DEF Cached

-----------------------------------------------------------------------------
(***************************************************************************)
(* Two payloads with one text that parse to the same are interchangeable:  *)
(* no operator looks at anything else of a payload.                        *)
(***************************************************************************)
LEMMA SameLabels ==
  ASSUME NEW p, NEW q, p.raw = q.raw, parse(p) = parse(q),
         NEW names, NEW labels, NEW captured
  PROVE  resolveLabels(names, labels, captured, p) =
           resolveLabels(names, labels, captured, q)
<1>1. ASSUME NEW label
      PROVE  read(label, captured, p) = read(label, captured, q)
  BY DEF read
<1>2. ASSUME NEW name
      PROVE  labelOf(name, labels, captured, p) = labelOf(name, labels, captured, q)
  BY <1>1 DEF labelOf, resolve
<1>3. stopsAt(names, labels, captured, p) = stopsAt(names, labels, captured, q)
  BY <1>2 DEF stopsAt
<1>4. [name \in names |-> labelOf(name, labels, captured, p).value] =
      [name \in names |-> labelOf(name, labels, captured, q).value]
  BY <1>2
<1> QED BY <1>2, <1>3, <1>4 DEF resolveLabels

LEMMA SameResult ==
  ASSUME NEW p, NEW q, p.raw = q.raw, parse(p) = parse(q),
         NEW src, NEW rule, NEW captured
  PROVE  Apply(src, rule, captured, p) = Apply(src, rule, captured, q)
<1>1. extract(rule.value, p) = extract(rule.value, q)
  BY DEF extract
<1>2. resolveLabels(autoLabels(src, rule), declared(src, rule), captured, p) =
      resolveLabels(autoLabels(src, rule), declared(src, rule), captured, q)
  BY SameLabels
<1> QED BY <1>1, <1>2 DEF Apply

-----------------------------------------------------------------------------
LEMMA CachedStep ==
  ASSUME Cached, [Next]_vars
  PROVE  Cached' /\ payload'.raw = payload.raw
<1>1. CASE payload' = payload
  BY <1>1 DEF Cached
<1>2. CASE payload' = parse(payload)
  BY <1>2, ParseOnce DEF Cached
<1>3. payload' = payload \/ payload' = parse(payload)
  BY DEF Next, ApplyRule, Resolve, vars
<1> QED BY <1>1, <1>2, <1>3

LEMMA CachedAlways == Spec => []Cached
<1>1. Init => Cached
  BY NewFields DEF Init, Cached
<1> QED BY <1>1, CachedStep, PTL DEF Spec

(***************************************************************************)
(* What a Payload keeps is what its text decodes to.                       *)
(***************************************************************************)
THEOREM TypeCorrect == Spec => []TypeOK
<1> DEFINE Typed == /\ source \in Source /\ payload.raw \in Text
                    /\ last.call \in {"none", "apply", "resolve"}
<1>1. Init => Typed
  BY NewFields DEF Init
<1>2. Typed /\ Cached /\ [Next]_vars => Typed'
  <2> SUFFICES ASSUME Typed, Cached, [Next]_vars
               PROVE  Typed'
    OBVIOUS
  <2>1. payload'.raw \in Text
    BY CachedStep
  <2>2. source' \in Source
    BY DEF Next, ApplyRule, Resolve, vars
  <2>3. last'.call \in {"none", "apply", "resolve"}
    BY DEF Next, ApplyRule, Resolve, vars
  <2> QED BY <2>1, <2>2, <2>3
<1>3. Typed /\ Cached => TypeOK
  <2> SUFFICES ASSUME Typed, Cached
               PROVE  TypeOK
    OBVIOUS
  <2>1. CASE payload = NewPayload(payload.raw)
    <3>1. payload.parsed = FALSE
      BY <2>1 DEF NewPayload
    <3> QED BY <3>1 DEF TypeOK
  <2>2. CASE payload = parse(NewPayload(payload.raw))
    <3> DEFINE raw == payload.raw
               p   == parse(NewPayload(raw))
    <3>1. /\ p.parsed = TRUE /\ p.bad = (Decode[raw] = BadJSON)
          /\ Decode[raw] # BadJSON => p.document = Decode[raw]
      BY ParseFields
    <3>2. payload = p
      BY <2>2
    <3> HIDE DEF raw, p
    <3>3. /\ payload.parsed = TRUE /\ payload.bad = (Decode[raw] = BadJSON)
          /\ Decode[raw] # BadJSON => payload.document = Decode[raw]
      BY <3>1, <3>2
    <3> QED BY <3>3 DEF raw, TypeOK, isJSON
  <2> QED BY <2>1, <2>2 DEF Cached
<1> QED BY <1>1, <1>2, <1>3, CachedAlways, PTL DEF Spec

(***************************************************************************)
(* What a rule makes of a message does not depend on the rules that were   *)
(* applied to it before.                                                   *)
(***************************************************************************)
THEOREM CacheIsTransparent == Spec => []OrderDoesNotMatter
<1>1. Init => OrderDoesNotMatter
  BY DEF Init, OrderDoesNotMatter
<1>2. OrderDoesNotMatter /\ Cached /\ [Next]_vars => OrderDoesNotMatter'
  <2> SUFFICES ASSUME OrderDoesNotMatter, Cached, [Next]_vars
               PROVE  OrderDoesNotMatter'
    OBVIOUS
  <2>1. ASSUME NEW rule, NEW captured, ApplyRule(rule, captured)
        PROVE  OrderDoesNotMatter'
    <3> DEFINE fresh == NewPayload(payload.raw)
    <3>1. payload.raw = fresh.raw /\ parse(payload) = parse(fresh)
      BY NewFields, ParseOnce
    <3>2. Apply(source, rule, captured, payload) = Apply(source, rule, captured, fresh)
      BY <3>1, SameResult
    <3>3. source' = source /\ payload'.raw = payload.raw
      BY <2>1, CachedStep DEF ApplyRule
    <3>4. /\ last'.rule = rule /\ last'.captured = captured
          /\ last'.outcome = Apply(source, rule, captured, payload)
      BY <2>1 DEF ApplyRule
    <3> QED BY <3>2, <3>3, <3>4 DEF OrderDoesNotMatter
  <2>2. CASE Resolve
    <3>1. last'.call = "resolve"
      BY <2>2 DEF Resolve
    <3> QED BY <3>1 DEF OrderDoesNotMatter
  <2>3. CASE UNCHANGED vars
    BY <2>3 DEF vars, OrderDoesNotMatter
  <2> QED BY <2>1, <2>2, <2>3 DEF Next
<1> QED BY <1>1, <1>2, CachedAlways, PTL DEF Spec

-----------------------------------------------------------------------------
(***************************************************************************)
(* A set of numbers that is not empty has a least element: induction, in   *)
(* the form in which the proofs below use it.                              *)
(***************************************************************************)
LEMMA Least ==
  ASSUME NEW T, T \subseteq Nat, T # {}
  PROVE  \E n \in T : \A m \in T : n <= m
<1> DEFINE R == OpToRel(<, Nat)
<1>1. IsWellFoundedOn(R, Nat)
  BY NatLessThanWellFounded, Zenon
<1>2. \A x, y \in Nat : <<x, y>> \in R <=> x < y
  BY Zenon DEF OpToRel
<1> HIDE DEF R
<1>3. PICK x \in T : \A y \in T : ~(<<y, x>> \in R)
  BY <1>1, WFMin
<1>4. ASSUME NEW m \in T
      PROVE  x <= m
  <2>1. m \in Nat /\ x \in Nat
    OBVIOUS
  <2>2. ~(m < x)
    BY <1>2, <1>3, <2>1
  <2> QED BY <2>1, <2>2
<1> QED BY <1>4

(***************************************************************************)
(* What walk defines: the document, and then field after field.            *)
(***************************************************************************)
IsWalk(f, document, path) ==
  f = [n \in 0 .. Len(path) |-> IF n = 0 THEN document ELSE field(f[n - 1], path[n])]

LEMMA WalkExists ==
  ASSUME NEW document, NEW S, NEW path \in Seq(S)
  PROVE  \E f : /\ IsWalk(f, document, path)
               /\ walk(document, path) =
                    IF f[Len(path)] = Null THEN Absent ELSE f[Len(path)]
<1> DEFINE N          == Len(path)
           next(f, n) == IF n = 0 THEN document ELSE field(f[n - 1], path[n])
           T          == {n \in 0 .. N : ~ \E f : f = [k \in 0 .. n |-> next(f, k)]}
<1>1. N \in Nat
  OBVIOUS
<1>2. T = {}
  <2> SUFFICES ASSUME T # {} PROVE FALSE
    OBVIOUS
  <2>1. T \subseteq Nat
    BY <1>1
  <2>2. PICK n \in T : \A m \in T : n <= m
    <3> HIDE DEF T
    <3> QED BY <2>1, Least
  <2>3. n \in 0 .. N
    OBVIOUS
  <2>4. CASE n = 0
    <3> DEFINE g == [k \in 0 .. 0 |-> next(<<>>, 0)]
    <3>1. g = [k \in 0 .. 0 |-> next(g, k)]
      OBVIOUS
    <3> QED BY <2>4, <3>1
  <2>5. CASE n # 0
    <3>1. n - 1 \in 0 .. N /\ n - 1 \notin T
      <4> HIDE DEF T, N
      <4>1. n - 1 \in 0 .. N /\ ~(n <= n - 1)
        BY <1>1, <2>3, <2>5
      <4> QED BY <2>2, <4>1
    <3>2. PICK f : f = [k \in 0 .. n - 1 |-> next(f, k)]
      BY <3>1
    <3> DEFINE g == [k \in 0 .. n |-> next(f, k)]
    <3>3. \A k \in 0 .. n - 1 : f[k] = next(f, k)
      BY <3>2
    <3>4. \A k \in 0 .. n : k # 0 => k - 1 \in 0 .. n - 1 /\ g[k - 1] = f[k - 1]
      <4> HIDE DEF next
      <4> QED BY <1>1, <2>3, <2>5, <3>3
    <3>5. \A k \in 0 .. n : next(f, k) = next(g, k)
      BY <3>4
    <3>6. g = [k \in 0 .. n |-> next(g, k)]
      BY <3>5
    <3> QED BY <3>6
  <2> QED BY <2>4, <2>5
<1>3. \E f : f = [k \in 0 .. N |-> next(f, k)]
  BY <1>1, <1>2
<1> DEFINE d == CHOOSE f : f = [k \in 0 .. N |-> next(f, k)]
<1>4. d = [k \in 0 .. N |-> next(d, k)]
  BY <1>3
<1>5. walk(document, path) = IF d[N] = Null THEN Absent ELSE d[N]
  BY DEF walk
<1> HIDE DEF d
<1>6. IsWalk(d, document, path)
  BY <1>4 DEF IsWalk
<1> QED BY <1>5, <1>6

(***************************************************************************)
(* What valuesAt defines.                                                  *)
(***************************************************************************)
fieldsOf(values, segment) ==
  {v.content[segment] : v \in {w \in values :
     w.type = "object" /\ segment \in DOMAIN w.content}}

IsTrail(f, path) ==
  f = [n \in 0 .. Len(path) |->
         IF n = 0 THEN {Decode[payload.raw]} ELSE fieldsOf(f[n - 1], path[n])]

LEMMA TrailExists ==
  ASSUME NEW S, NEW path \in Seq(S)
  PROVE  \E f : IsTrail(f, path) /\ valuesAt(path) = f[Len(path)]
<1> DEFINE N          == Len(path)
           next(f, n) == IF n = 0 THEN {Decode[payload.raw]}
                         ELSE fieldsOf(f[n - 1], path[n])
           T          == {n \in 0 .. N : ~ \E f : f = [k \in 0 .. n |-> next(f, k)]}
<1>1. N \in Nat
  OBVIOUS
<1>2. T = {}
  <2> SUFFICES ASSUME T # {} PROVE FALSE
    OBVIOUS
  <2>1. T \subseteq Nat
    BY <1>1
  <2>2. PICK n \in T : \A m \in T : n <= m
    <3> HIDE DEF T
    <3> QED BY <2>1, Least
  <2>3. n \in 0 .. N
    OBVIOUS
  <2>4. CASE n = 0
    <3> DEFINE g == [k \in 0 .. 0 |-> next(<<>>, 0)]
    <3>1. g = [k \in 0 .. 0 |-> next(g, k)]
      OBVIOUS
    <3> QED BY <2>4, <3>1
  <2>5. CASE n # 0
    <3>1. n - 1 \in 0 .. N /\ n - 1 \notin T
      <4> HIDE DEF T, N
      <4>1. n - 1 \in 0 .. N /\ ~(n <= n - 1)
        BY <1>1, <2>3, <2>5
      <4> QED BY <2>2, <4>1
    <3>2. PICK f : f = [k \in 0 .. n - 1 |-> next(f, k)]
      BY <3>1
    <3> DEFINE g == [k \in 0 .. n |-> next(f, k)]
    <3>3. \A k \in 0 .. n - 1 : f[k] = next(f, k)
      BY <3>2
    <3>4. \A k \in 0 .. n : k # 0 => k - 1 \in 0 .. n - 1 /\ g[k - 1] = f[k - 1]
      <4> HIDE DEF next
      <4> QED BY <1>1, <2>3, <2>5, <3>3
    <3>5. \A k \in 0 .. n : next(f, k) = next(g, k)
      BY <3>4
    <3>6. g = [k \in 0 .. n |-> next(g, k)]
      BY <3>5
    <3> QED BY <3>6
  <2> QED BY <2>4, <2>5
<1>3. \E f : f = [k \in 0 .. N |-> next(f, k)]
  BY <1>1, <1>2
<1> DEFINE d == CHOOSE f : f = [k \in 0 .. N |-> next(f, k)]
<1>4. d = [k \in 0 .. N |-> next(d, k)]
  BY <1>3
<1>5. valuesAt(path) = d[N]
  BY DEF valuesAt, fieldsOf
<1> HIDE DEF d
<1>6. IsTrail(d, path)
  BY <1>4 DEF IsTrail
<1> QED BY <1>5, <1>6

(***************************************************************************)
(* walk comes to the one value that the path leads to, unless there is     *)
(* none or it is null.                                                     *)
(***************************************************************************)
LEMMA FieldOfOne ==
  ASSUME NEW d, NEW values, NEW segment,
         \/ d \in Document /\ values = {d}
         \/ d = Absent /\ values = {}
  PROVE  LET v == field(d, segment) IN
           \/ v \in Document /\ fieldsOf(values, segment) = {v}
           \/ v = Absent /\ fieldsOf(values, segment) = {}
<1>1. CASE d \in Document /\ values = {d}
  <2>1. CASE d.type = "object" /\ segment \in DOMAIN d.content
    <3>1. d.content[segment] \in Document
      BY <1>1, <2>1, DocumentAssumption
    <3>2. fieldsOf(values, segment) = {d.content[segment]}
      BY <1>1, <2>1 DEF fieldsOf
    <3> QED BY <2>1, <3>1, <3>2 DEF field
  <2>2. CASE ~(d.type = "object" /\ segment \in DOMAIN d.content)
    <3>1. fieldsOf(values, segment) = {}
      BY <1>1, <2>2 DEF fieldsOf
    <3> QED BY <2>2, <3>1 DEF field
  <2> QED BY <2>1, <2>2
<1>2. CASE d = Absent /\ values = {}
  <2>1. d.type # "object"
    BY <1>2 DEF Absent
  <2>2. fieldsOf(values, segment) = {}
    BY <1>2 DEF fieldsOf
  <2> QED BY <2>1, <2>2 DEF field
<1> QED BY <1>1, <1>2

LEMMA Walked ==
  ASSUME payload.raw \in Text, isJSON, NEW S, NEW path \in Seq(S)
  PROVE  \/ /\ walk(Decode[payload.raw], path) = Absent
            /\ valuesAt(path) \subseteq {Null}
         \/ /\ walk(Decode[payload.raw], path) \in Document
            /\ walk(Decode[payload.raw], path).type # "null"
            /\ valuesAt(path) = {walk(Decode[payload.raw], path)}
<1> DEFINE N == Len(path)
           D == Decode[payload.raw]
<1>1. N \in Nat
  OBVIOUS
<1>2. D \in Document
  BY DocumentAssumption DEF isJSON
<1>3. PICK f : /\ IsWalk(f, D, path)
               /\ walk(D, path) = IF f[N] = Null THEN Absent ELSE f[N]
  BY WalkExists
<1>4. PICK g : IsTrail(g, path) /\ valuesAt(path) = g[N]
  BY TrailExists
<1>5. /\ f[0] = D
      /\ \A n \in 1 .. N : f[n] = field(f[n - 1], path[n])
  <2>1. \A n \in 0 .. N : f[n] = IF n = 0 THEN D ELSE field(f[n - 1], path[n])
    BY <1>3 DEF IsWalk
  <2> QED BY <1>1, <2>1
<1>6. /\ g[0] = {D}
      /\ \A n \in 1 .. N : g[n] = fieldsOf(g[n - 1], path[n])
  <2>1. \A n \in 0 .. N : g[n] = IF n = 0 THEN {D} ELSE fieldsOf(g[n - 1], path[n])
    BY <1>4 DEF IsTrail
  <2> QED BY <1>1, <2>1
<1> DEFINE one(n) == \/ f[n] \in Document /\ g[n] = {f[n]}
                     \/ f[n] = Absent /\ g[n] = {}
           T      == {n \in 0 .. N : ~one(n)}
<1>7. T = {}
  <2> SUFFICES ASSUME T # {} PROVE FALSE
    OBVIOUS
  <2>1. T \subseteq Nat
    BY <1>1
  <2>2. PICK n \in T : \A m \in T : n <= m
    <3> HIDE DEF T
    <3> QED BY <2>1, Least
  <2>3. n \in 0 .. N /\ ~one(n)
    OBVIOUS
  <2>4. one(0)
    BY <1>2, <1>5, <1>6
  <2>5. n \in 1 .. N
    <3> HIDE DEF one
    <3> QED BY <1>1, <2>3, <2>4
  <2>6. n - 1 \in 0 .. N /\ n - 1 \notin T
    <3> HIDE DEF T
    <3>1. n - 1 \in 0 .. N /\ ~(n <= n - 1)
      BY <1>1, <2>5
    <3> QED BY <2>2, <3>1
  <2>7. one(n - 1)
    BY <2>6
  <2>8. one(n)
    <3>1. f[n] = field(f[n - 1], path[n]) /\ g[n] = fieldsOf(g[n - 1], path[n])
      BY <1>5, <1>6, <2>5
    <3> QED BY <2>7, <3>1, FieldOfOne
  <2> QED BY <2>3, <2>8
<1>8. one(N)
  BY <1>1, <1>7
<1>9. CASE f[N] \in Document /\ g[N] = {f[N]}
  <2>1. CASE f[N] = Null
    BY <1>3, <1>4, <1>9, <2>1
  <2>2. CASE f[N] # Null
    <3>1. f[N].type # "null"
      BY <1>9, <2>2, DocumentAssumption
    <3> QED BY <1>3, <1>4, <1>9, <2>2, <3>1
  <2> QED BY <2>1, <2>2
<1>10. CASE f[N] = Absent /\ g[N] = {}
  <2>1. Absent # Null
    BY DEF Absent, Null
  <2> QED BY <1>3, <1>4, <1>10, <2>1
<1> QED BY <1>8, <1>9, <1>10

-----------------------------------------------------------------------------
(***************************************************************************)
(* The three kinds of result are told apart by their field.                *)
(***************************************************************************)
LEMMA Results ==
  /\ \A r : fails(r).result = "error" /\ fails(r).reason = r
  /\ skip.result = "skip"
  /\ \A v : gives(v).result = "value" /\ gives(v).value = v
  BY DEF fails, skip, gives

NewOne == NewPayload(payload.raw)

LEMMA NewOneParsed ==
  /\ NewOne.raw = payload.raw
  /\ parse(NewOne).bad <=> ~isJSON
  /\ isJSON => parse(NewOne).document = Decode[payload.raw]
  BY NewFields, ParseFields DEF NewOne, isJSON

(***************************************************************************)
(* What extract should come to: a number when the value is there and is    *)
(* one, nothing when it is not there, else an error that says why.         *)
(***************************************************************************)
RightReason(e, reason) ==
  /\ reason \in {"json", "regex", "not_numeric"}
  /\ reason = "json" => ~isJSON
  /\ reason = "regex" => NoMatch \in textsTaken(e)

RightValue(e, x) ==
  \/ x.result = "value" /\ ~valueSkipped(e) /\ ~valueWrong(e)
  \/ x = skip /\ valueSkipped(e) /\ ~valueWrong(e)
  \/ /\ \E reason : x = fails(reason) /\ RightReason(e, reason)
     /\ valueWrong(e) /\ ~valueSkipped(e)

LEMMA ScaledKeeps ==
  ASSUME NEW e, NEW x, RightValue(e, x)
  PROVE  RightValue(e, scaled(e, x))
<1>1. CASE x.result = "value" /\ ~valueSkipped(e) /\ ~valueWrong(e)
  <2>1. scaled(e, x).result = "value"
    BY <1>1, Results DEF scaled
  <2> QED BY <1>1, <2>1 DEF RightValue
<1>2. CASE x.result # "value"
  <2>1. scaled(e, x) = x
    BY <1>2 DEF scaled
  <2> QED BY <2>1
<1> QED BY <1>1, <1>2, Results DEF RightValue

(***************************************************************************)
(* A text: the payload itself, or a string of the document.                *)
(***************************************************************************)
LEMMA TextIsRight ==
  ASSUME NEW e, NEW s \in Text,
         textsTaken(e) = {IF e.regex = Nothing THEN s ELSE Group(e.regex, s)},
         ~missing(e), ~unreadable(e), ~compound(e)
  PROVE  RightValue(e, fromString(e, s))
<1> DEFINE t == IF e.regex = Nothing THEN s ELSE Group(e.regex, s)
<1>1. textsTaken(e) = {t}
  OBVIOUS
<1>2. /\ t = NoMatch => fromString(e, s) = fails("regex")
      /\ t # NoMatch /\ e.map # Nothing =>
           fromString(e, s) = IF t \in DOMAIN e.map THEN gives(e.map[t]) ELSE skip
      /\ t # NoMatch /\ e.map = Nothing =>
           fromString(e, s) = IF Parse[t] = NotNumeric THEN fails("not_numeric")
                              ELSE gives(Parse[t])
  BY DEF fromString
<1> HIDE DEF t
<1>3. valueSkipped(e) <=> e.map # Nothing /\ t \notin DOMAIN e.map /\ t # NoMatch
  <2>1. textsTaken(e) \subseteq DOMAIN e.map \cup {NoMatch} <=>
          t \in DOMAIN e.map \/ t = NoMatch
    BY <1>1
  <2> QED BY <2>1 DEF valueSkipped
<1>4. valueWrong(e) <=> t = NoMatch \/ (e.map = Nothing /\ Parse[t] = NotNumeric)
  <2>1. NoMatch \in textsTaken(e) <=> t = NoMatch
    BY <1>1
  <2>2. (\E x \in textsTaken(e) : Parse[x] = NotNumeric) <=> Parse[t] = NotNumeric
    BY <1>1
  <2> QED BY <2>1, <2>2 DEF valueWrong
<1>5. CASE t = NoMatch
  <2>1. RightReason(e, "regex")
    BY <1>1, <1>5 DEF RightReason
  <2>2. valueWrong(e) /\ ~valueSkipped(e)
    BY <1>3, <1>4, <1>5
  <2> QED BY <1>2, <1>5, <2>1, <2>2 DEF RightValue
<1>6. CASE t # NoMatch /\ e.map # Nothing
  BY <1>2, <1>3, <1>4, <1>6, Results DEF RightValue
<1>7. CASE t # NoMatch /\ e.map = Nothing
  <2>1. RightReason(e, "not_numeric")
    BY DEF RightReason
  <2> QED BY <1>2, <1>3, <1>4, <1>7, <2>1, Results DEF RightValue
<1> QED BY <1>6, <1>7, <1>5

LEMMA ValueIsRight ==
  ASSUME payload.raw \in Text, NEW e, hasPath(e)
  PROVE  RightValue(e, extract(e, NewOne))
<1>1. CASE ~e.fromJSON
  <2>1. extract(e, NewOne) = scaled(e, fromString(e, payload.raw))
    BY <1>1, NewOneParsed DEF extract
  <2>2. ~missing(e) /\ ~unreadable(e) /\ ~compound(e)
    BY <1>1 DEF missing, unreadable, compound, present
  <2>3. textsTaken(e) =
          {IF e.regex = Nothing THEN payload.raw ELSE Group(e.regex, payload.raw)}
    BY <1>1 DEF textsTaken
  <2> QED BY <2>1, <2>2, <2>3, TextIsRight, ScaledKeeps
<1>2. CASE e.fromJSON /\ ~isJSON
  <2>1. extract(e, NewOne) = fails("json")
    BY <1>2, NewOneParsed DEF extract
  <2>2. textsTaken(e) = {}
    BY <1>2 DEF textsTaken, present
  <2>3. ~valueSkipped(e) /\ valueWrong(e)
    BY <1>2, <2>2 DEF valueSkipped, valueWrong, missing, unreadable
  <2>4. RightReason(e, "json")
    BY <1>2 DEF RightReason
  <2> QED BY <2>1, <2>3, <2>4 DEF RightValue
<1>3. CASE e.fromJSON /\ isJSON
  <2> DEFINE v == walk(Decode[payload.raw], e.path)
  <2>0. /\ present(e) = valuesAt(e.path) /\ ~unreadable(e)
        /\ missing(e) <=> valuesAt(e.path) \subseteq {Null}
    BY <1>3 DEF present, unreadable, missing
  <2>1. extract(e, NewOne) = IF v = Absent THEN skip ELSE scaled(e, toNumber(e, v))
    BY <1>3, NewOneParsed DEF extract
  <2>2. \/ v = Absent /\ valuesAt(e.path) \subseteq {Null}
        \/ v \in Document /\ v.type # "null" /\ valuesAt(e.path) = {v}
    BY <1>3, Walked DEF hasPath
  <2> HIDE DEF v
  <2>3. CASE v = Absent /\ valuesAt(e.path) \subseteq {Null}
    <3>1. Null.type = "null"
      BY DEF Null
    <3>2. ~compound(e)
      BY <2>0, <2>3, <3>1 DEF compound
    <3>3. textsTaken(e) = {}
      BY <1>3, <2>0, <2>3, <3>1 DEF textsTaken
    <3>4. valueSkipped(e) /\ ~valueWrong(e)
      BY <2>0, <2>3, <3>2, <3>3 DEF valueSkipped, valueWrong
    <3> QED BY <2>1, <2>3, <3>4 DEF RightValue
  <2>4. CASE v \in Document /\ v.type # "null" /\ valuesAt(e.path) = {v}
    <3>1. v # Absent /\ v # Null
      BY <2>4, DocumentAssumption DEF Absent, Null
    <3>2. ~missing(e) /\ (compound(e) <=> v.type \in {"object", "array"})
      BY <2>0, <2>4, <3>1 DEF compound
    <3>3. v.type \in {"number", "bool", "string", "object", "array"}
      BY <2>4, DocumentAssumption
    <3>4. CASE v.type = "string"
      <4>1. toNumber(e, v) = fromString(e, v.content)
        BY <3>4 DEF toNumber
      <4>2. v.content \in Text
        BY <2>4, <3>4, DocumentAssumption
      <4>3. textsTaken(e) =
              {IF e.regex = Nothing THEN v.content ELSE Group(e.regex, v.content)}
        BY <1>3, <2>0, <2>4, <3>4 DEF textsTaken
      <4>4. RightValue(e, toNumber(e, v))
        BY <2>0, <3>2, <3>4, <4>1, <4>2, <4>3, TextIsRight
      <4> QED BY <2>1, <3>1, <4>4, ScaledKeeps
    <3>5. CASE v.type # "string"
      <4>1. textsTaken(e) = {}
        BY <1>3, <2>0, <2>4, <3>5 DEF textsTaken
      <4>2. ~valueSkipped(e) /\ (valueWrong(e) <=> v.type \in {"object", "array"})
        BY <2>0, <3>2, <4>1 DEF valueSkipped, valueWrong
      <4>3. RightValue(e, toNumber(e, v))
        <5>1. CASE v.type = "number"
          BY <4>2, <5>1, Results DEF toNumber, RightValue
        <5>2. CASE v.type = "bool"
          BY <4>2, <5>2, Results DEF toNumber, RightValue
        <5>3. CASE v.type \in {"object", "array"}
          <6>1. toNumber(e, v) = fails("not_numeric")
            BY <5>3 DEF toNumber
          <6>2. RightReason(e, "not_numeric")
            BY DEF RightReason
          <6> QED BY <4>2, <5>3, <6>1, <6>2 DEF RightValue
        <5> QED BY <3>3, <3>5, <5>1, <5>2, <5>3
      <4> QED BY <2>1, <3>1, <4>3, ScaledKeeps
    <3> QED BY <3>4, <3>5
  <2> QED BY <2>2, <2>3, <2>4
<1> QED BY <1>1, <1>2, <1>3

(***************************************************************************)
(* What a label should come to.                                            *)
(***************************************************************************)
RightLabelReason(label, reason) ==
  /\ reason \in {"json", "other"}
  /\ reason = "json" => ~isJSON
  /\ reason = "other" => isJSON /\ compound(label)

RightLabel(label, captured, y) ==
  \/ y.result = "value" /\ ~labelSkipped(label, captured) /\ ~labelWrong(label)
  \/ y = skip /\ labelSkipped(label, captured)
  \/ /\ \E reason : y = fails(reason) /\ RightLabelReason(label, reason)
     /\ labelWrong(label)

LEMMA LabelTextIsRight ==
  ASSUME NEW label, NEW captured, NEW s,
         read(label, captured, NewOne) = gives(s),
         labelTexts(label, captured) = {s},
         ~missing(label), ~labelWrong(label)
  PROVE  RightLabel(label, captured, resolve(label, captured, NewOne))
<1>1. labelSkipped(label, captured) <=> label.map # Nothing /\ s \notin DOMAIN label.map
  BY DEF labelSkipped
<1>2. resolve(label, captured, NewOne) =
        IF label.map = Nothing THEN gives(s)
        ELSE IF s \in DOMAIN label.map THEN gives(label.map[s])
        ELSE skip
  BY Results DEF resolve
<1> QED BY <1>1, <1>2, Results DEF RightLabel

LEMMA LabelIsRight ==
  ASSUME payload.raw \in Text, NEW label, hasPath(label), NEW captured
  PROVE  RightLabel(label, captured, resolve(label, captured, NewOne))
<1> DEFINE y == read(label, captured, NewOne)
<1>0. y.result # "value" => resolve(label, captured, NewOne) = y
  BY DEF resolve
<1>1. CASE ~label.fromJSON
  <2>1. y = gives(Expand(label.value, captured))
    BY <1>1 DEF read
  <2>2. labelTexts(label, captured) = {Expand(label.value, captured)}
    BY <1>1 DEF labelTexts
  <2>3. ~missing(label) /\ ~labelWrong(label)
    BY <1>1 DEF missing, labelWrong, unreadable, compound, present
  <2> QED BY <2>1, <2>2, <2>3, LabelTextIsRight
<1>2. CASE label.fromJSON /\ ~isJSON
  <2>1. y = fails("json")
    BY <1>2, NewOneParsed DEF read
  <2>2. labelWrong(label) /\ RightLabelReason(label, "json")
    BY <1>2 DEF labelWrong, unreadable, RightLabelReason
  <2> QED BY <1>0, <2>1, <2>2, Results DEF RightLabel
<1>3. CASE label.fromJSON /\ isJSON
  <2> DEFINE v == walk(Decode[payload.raw], label.path)
  <2>0. /\ present(label) = valuesAt(label.path) /\ ~unreadable(label)
        /\ missing(label) <=> valuesAt(label.path) \subseteq {Null}
    BY <1>3 DEF present, unreadable, missing
  <2>1. y = IF v = Absent THEN skip ELSE asLabel(v)
    BY <1>3, NewOneParsed DEF read
  <2>2. \/ v = Absent /\ valuesAt(label.path) \subseteq {Null}
        \/ v \in Document /\ v.type # "null" /\ valuesAt(label.path) = {v}
    BY <1>3, Walked DEF hasPath
  <2> HIDE DEF v
  <2>3. CASE v = Absent /\ valuesAt(label.path) \subseteq {Null}
    <3>1. y = skip /\ labelSkipped(label, captured)
      BY <2>0, <2>1, <2>3 DEF labelSkipped
    <3> QED BY <1>0, <3>1, Results DEF RightLabel
  <2>4. CASE v \in Document /\ v.type # "null" /\ valuesAt(label.path) = {v}
    <3>1. v # Absent /\ v # Null
      BY <2>4, DocumentAssumption DEF Absent, Null
    <3>2. /\ y = asLabel(v) /\ ~missing(label)
          /\ compound(label) <=> v.type \in {"object", "array"}
          /\ labelWrong(label) <=> v.type \in {"object", "array"}
      BY <2>0, <2>1, <2>4, <3>1 DEF compound, labelWrong
    <3>3. v.type \in {"number", "bool", "string", "object", "array"}
      BY <2>4, DocumentAssumption
    <3>4. CASE v.type \in {"number", "bool", "string"}
      <4>1. PICK s : asLabel(v) = gives(s)
        BY <3>4 DEF asLabel
      <4>2. labelTexts(label, captured) = {s}
        BY <1>3, <2>0, <2>4, <4>1, Results DEF labelTexts
      <4> QED BY <3>2, <3>4, <4>1, <4>2, LabelTextIsRight
    <3>5. CASE v.type \in {"object", "array"}
      <4>1. asLabel(v) = fails("other")
        BY <3>5 DEF asLabel
      <4>2. RightLabelReason(label, "other")
        BY <1>3, <3>2, <3>5 DEF RightLabelReason
      <4> QED BY <1>0, <3>2, <3>5, <4>1, <4>2, Results DEF RightLabel
    <3> QED BY <3>3, <3>4, <3>5
  <2> QED BY <2>2, <2>3, <2>4
<1> QED BY <1>1, <1>2, <1>3

-----------------------------------------------------------------------------
(***************************************************************************)
(* resolveLabels comes to all labels, or to what the first that is not     *)
(* there, or is wrong, comes to.                                           *)
(***************************************************************************)
RightLabels(names, labels, captured, z) ==
  \/ /\ z.result = "value" /\ DOMAIN z.value = names
     /\ \A name \in DOMAIN labels :
          ~labelSkipped(labels[name], captured) /\ ~labelWrong(labels[name])
  \/ z = skip /\ \E name \in DOMAIN labels : labelSkipped(labels[name], captured)
  \/ \E name \in DOMAIN labels :
       /\ \E reason : z = fails(reason) /\ RightLabelReason(labels[name], reason)
       /\ labelWrong(labels[name])

LEMMA LabelsAreRight ==
  ASSUME payload.raw \in Text, NEW labels, labelsOK(labels), NEW captured,
         NEW names, DOMAIN labels \subseteq names, names \subseteq ToSet(NameOrder)
  PROVE  RightLabels(names, labels, captured,
                     resolveLabels(names, labels, captured, NewOne))
<1> DEFINE of(name) == labelOf(name, labels, captured, NewOne)
           stops    == stopsAt(names, labels, captured, NewOne)
           z        == resolveLabels(names, labels, captured, NewOne)
<1>1. \A name \in DOMAIN labels : RightLabel(labels[name], captured, of(name))
  BY LabelIsRight DEF labelsOK, labelOf
<1>2. ASSUME NEW name, name \notin DOMAIN labels
      PROVE  of(name).result = "value"
  BY <1>2, Results DEF labelOf
<1>3. CASE stops = {}
  <2>1. \A name \in names : of(name).result = "value"
    <3>1. \A name \in names : \E i \in DOMAIN NameOrder : NameOrder[i] = name
      BY DEF ToSet
    <3> QED BY <1>3, <3>1 DEF stopsAt
  <2>2. z = gives([name \in names |-> of(name).value])
    BY <1>3 DEF resolveLabels
  <2> HIDE DEF of, z
  <2>3. z.result = "value" /\ DOMAIN z.value = names
    BY <2>2, Results
  <2>4. ASSUME NEW name \in DOMAIN labels
        PROVE  ~labelSkipped(labels[name], captured) /\ ~labelWrong(labels[name])
    <3>1. of(name).result = "value" /\ RightLabel(labels[name], captured, of(name))
      BY <1>1, <2>1
    <3> QED BY <3>1, Results DEF RightLabel
  <2>5. RightLabels(names, labels, captured, z)
    BY <2>3, <2>4 DEF RightLabels
  <2> QED BY <2>5 DEF z
<1>4. CASE stops # {}
  <2>1. stops \subseteq Nat
    <3>1. NameOrder \in Seq(ToSet(NameOrder))
      BY SourceAssumption
    <3>2. DOMAIN NameOrder \subseteq Nat
      BY <3>1
    <3> QED BY <3>2 DEF stopsAt
  <2>2. Min(stops) \in stops
    <3> HIDE DEF stops
    <3>1. \E i \in stops : \A j \in stops : i <= j
      BY <1>4, <2>1, Least
    <3> QED BY <3>1 DEF Min
  <2> DEFINE name == NameOrder[Min(stops)]
  <2>3. of(name).result # "value"
    BY <2>2 DEF stopsAt
  <2>4. z = of(name)
    BY <1>4 DEF resolveLabels
  <2> HIDE DEF of, z, name
  <2>5. name \in DOMAIN labels
    BY <1>2, <2>3
  <2>6. RightLabel(labels[name], captured, z)
    BY <1>1, <2>4, <2>5
  <2>7. RightLabels(names, labels, captured, z)
    BY <2>3, <2>4, <2>5, <2>6 DEF RightLabel, RightLabels
  <2> QED BY <2>7 DEF z
<1> QED BY <1>3, <1>4

(***************************************************************************)
(* The names for which Validate compared a metric with the others are      *)
(* those that Compile gives its samples.                                   *)
(***************************************************************************)
LEMMA ComparedIsCarried ==
  ASSUME NEW src, NEW rule, Consumed(src.labels) = {}
  PROVE  /\ autoLabels(src, rule) = LabelNames(rule.captures, {rule.labels, src.labels})
         /\ autoLabels(src, rule) \subseteq
              rule.captures \cup DOMAIN rule.labels \cup DOMAIN src.labels
         /\ DOMAIN declared(src, rule) = DOMAIN rule.labels \cup DOMAIN src.labels
         /\ DOMAIN declared(src, rule) \subseteq autoLabels(src, rule)
<1> DEFINE rl     == rule.labels
           sl     == src.labels
           merged == Merge(rl, sl)
<1>1. DOMAIN merged = DOMAIN rl \cup DOMAIN sl
  BY DEF Merge
<1>2. \A name \in DOMAIN merged :
        merged[name] = IF name \in DOMAIN rl THEN rl[name] ELSE sl[name]
  BY DEF Merge
<1>3. \A name \in DOMAIN sl : \A c : c \notin sl[name].refs
  BY DEF Consumed
<1> HIDE DEF merged, rl, sl
<1>4. Consumed(merged) = Consumed(rl)
  <2>1. ASSUME NEW c PROVE c \in Consumed(merged) <=> c \in Consumed(rl)
    <3>1. c \in Consumed(merged) <=> \E name \in DOMAIN merged : c \in merged[name].refs
      BY DEF Consumed
    <3>2. c \in Consumed(rl) <=> \E name \in DOMAIN rl : c \in rl[name].refs
      BY DEF Consumed
    <3> QED BY <1>1, <1>2, <1>3, <3>1, <3>2
  <2> QED BY <2>1
<1>5. /\ LabelNames(rule.captures, {merged}) =
           (rule.captures \ Consumed(merged)) \cup DOMAIN merged
      /\ LabelNames(rule.captures, {rl, sl}) =
           (rule.captures \ (Consumed(rl) \cup Consumed(sl))) \cup (DOMAIN rl \cup DOMAIN sl)
  BY DEF LabelNames
<1>6. autoLabels(src, rule) = LabelNames(rule.captures, {merged})
  BY DEF autoLabels, declared, merged, rl, sl
<1>7. Consumed(sl) = {}
  BY DEF sl
<1>8. declared(src, rule) = merged
  BY DEF declared, merged, rl, sl
<1> QED BY <1>1, <1>4, <1>5, <1>6, <1>7, <1>8 DEF rl, sl

LEMMA DeclaredOK ==
  ASSUME NEW src \in Source, NEW rule \in src.rules
  PROVE  /\ labelsOK(declared(src, rule)) /\ hasPath(rule.value)
         /\ autoLabels(src, rule) \subseteq ToSet(NameOrder)
         /\ Consumed(src.labels) = {}
<1>1. /\ labelsOK(src.labels) /\ Consumed(src.labels) = {}
      /\ labelsOK(rule.labels) /\ hasPath(rule.value)
      /\ rule.captures \subseteq ToSet(NameOrder)
  BY SourceAssumption
<1>2. /\ autoLabels(src, rule) \subseteq
           rule.captures \cup DOMAIN rule.labels \cup DOMAIN src.labels
      /\ DOMAIN declared(src, rule) = DOMAIN rule.labels \cup DOMAIN src.labels
  BY <1>1, ComparedIsCarried
<1>3. \A name \in DOMAIN declared(src, rule) :
        \/ name \in DOMAIN rule.labels /\ declared(src, rule)[name] = rule.labels[name]
        \/ name \in DOMAIN src.labels /\ declared(src, rule)[name] = src.labels[name]
  BY <1>2 DEF declared, Merge
<1>4. labelsOK(declared(src, rule))
  BY <1>1, <1>2, <1>3 DEF labelsOK
<1> QED BY <1>1, <1>2, <1>4 DEF labelsOK

(***************************************************************************)
(* The three parts of OutcomesAreRight that are about rules, of a rule on  *)
(* a new payload.                                                          *)
(***************************************************************************)
LEMMA ApplyIsRight ==
  ASSUME payload.raw \in Text, NEW src \in Source, NEW rule \in src.rules,
         NEW captured, NEW a, a = Apply(src, rule, captured, NewOne),
         NEW labels, labels = declared(src, rule)
  PROVE  /\ a.result = "value" =>
              /\ DOMAIN a.value.labels = LabelNames(rule.captures, {rule.labels, src.labels})
              /\ ~valueSkipped(rule.value) /\ ~valueWrong(rule.value)
              /\ \A name \in DOMAIN labels :
                   ~labelSkipped(labels[name], captured) /\ ~labelWrong(labels[name])
         /\ valueSkipped(rule.value) => a = skip
         /\ a = skip =>
              \/ valueSkipped(rule.value)
              \/ \E name \in DOMAIN labels : labelSkipped(labels[name], captured)
         /\ valueWrong(rule.value) => a.result = "error"
         /\ a = fails("json") => ~isJSON
         /\ a = fails("regex") => NoMatch \in textsTaken(rule.value)
         /\ a = fails("not_numeric") => valueWrong(rule.value)
         /\ a = fails("other") =>
              isJSON /\ \E name \in DOMAIN labels : compound(labels[name])
<1> DEFINE names == autoLabels(src, rule)
           x     == extract(rule.value, NewOne)
           z     == resolveLabels(names, labels, captured, NewOne)
<1>1. /\ labelsOK(labels) /\ hasPath(rule.value) /\ names \subseteq ToSet(NameOrder)
      /\ DOMAIN labels \subseteq names
      /\ names = LabelNames(rule.captures, {rule.labels, src.labels})
  BY DeclaredOK, ComparedIsCarried
<1>2. RightValue(rule.value, x)
  BY <1>1, ValueIsRight
<1>3. RightLabels(names, labels, captured, z)
  BY <1>1, LabelsAreRight
<1>4. /\ x.result # "value" => a = x
      /\ x.result = "value" /\ z.result # "value" => a = z
      /\ x.result = "value" /\ z.result = "value" =>
           a = gives([labels |-> z.value, number |-> x.value])
  BY DEF Apply
<1> HIDE DEF names, x, z
<1>5. CASE x.result # "value"
  <2>1. CASE x = skip
    BY <1>2, <1>4, <1>5, <2>1, Results DEF RightValue
  <2>2. CASE x # skip
    <3>1. /\ valueWrong(rule.value) /\ ~valueSkipped(rule.value)
          /\ \E reason : x = fails(reason) /\ RightReason(rule.value, reason)
      BY <1>2, <1>5, <2>2 DEF RightValue
    <3>2. PICK reason : x = fails(reason) /\ RightReason(rule.value, reason)
      BY <3>1
    <3>3. a.result = "error" /\ a.reason = reason
      BY <1>4, <1>5, <3>2, Results
    <3>4. a # skip /\ a.result # "value" /\ \A r : a = fails(r) => r = reason
      BY <3>3, Results
    <3> QED BY <3>1, <3>2, <3>3, <3>4 DEF RightReason
  <2> QED BY <2>1, <2>2
<1>6. CASE x.result = "value"
  <2>1. ~valueSkipped(rule.value) /\ ~valueWrong(rule.value)
    BY <1>2, <1>6, Results DEF RightValue
  <2>2. CASE z.result = "value"
    <3>1. a = gives([labels |-> z.value, number |-> x.value])
      BY <1>4, <1>6, <2>2
    <3>2. a.result = "value" /\ a.value.labels = z.value
      BY <3>1, Results
    <3>3. a # skip /\ \A r : a # fails(r)
      BY <3>2, Results
    <3>4. /\ DOMAIN z.value = names
          /\ \A name \in DOMAIN labels :
               ~labelSkipped(labels[name], captured) /\ ~labelWrong(labels[name])
      BY <1>3, <2>2, Results DEF RightLabels
    <3> QED BY <1>1, <2>1, <3>2, <3>3, <3>4
  <2>3. CASE z = skip
    <3>1. a = skip /\ \E name \in DOMAIN labels : labelSkipped(labels[name], captured)
      BY <1>3, <1>4, <1>6, <2>3, Results DEF RightLabels
    <3> QED BY <2>1, <3>1, Results
  <2>4. CASE z.result # "value" /\ z # skip
    <3>1. PICK name \in DOMAIN labels :
            /\ \E reason : z = fails(reason) /\ RightLabelReason(labels[name], reason)
            /\ labelWrong(labels[name])
      BY <1>3, <2>4 DEF RightLabels
    <3>2. PICK reason : z = fails(reason) /\ RightLabelReason(labels[name], reason)
      BY <3>1
    <3>3. a.result = "error" /\ a.reason = reason
      BY <1>4, <1>6, <2>4, <3>2, Results
    <3>4. a # skip /\ a.result # "value" /\ \A r : a = fails(r) => r = reason
      BY <3>3, Results
    <3> QED BY <2>1, <3>2, <3>3, <3>4 DEF RightLabelReason
  <2> QED BY <2>2, <2>3, <2>4
<1> QED BY <1>5, <1>6

LEMMA ResolveIsRight ==
  ASSUME payload.raw \in Text, NEW src \in Source,
         NEW z, z = resolveLabels(DOMAIN src.labels, src.labels, none, NewOne)
  PROVE  RightLabels(DOMAIN src.labels, src.labels, none, z)
<1>1. labelsOK(src.labels)
  BY SourceAssumption
<1>2. DOMAIN src.labels \subseteq ToSet(NameOrder)
  BY <1>1 DEF labelsOK
<1> QED BY <1>1, <1>2, LabelsAreRight

(***************************************************************************)
(* What the call made last has come to is what it comes to on a new        *)
(* payload.                                                                *)
(***************************************************************************)
LastIsFresh ==
  /\ last.call = "apply" =>
       /\ last.rule \in source.rules
       /\ last.outcome = Apply(source, last.rule, last.captured, NewOne)
  /\ last.call = "resolve" =>
       last.outcome = resolveLabels(DOMAIN source.labels, source.labels, none, NewOne)

LEMMA LastIsFreshStep ==
  ASSUME LastIsFresh, Cached, [Next]_vars
  PROVE  LastIsFresh'
<1>1. NewOne' = NewOne /\ source' = source
  BY CachedStep DEF NewOne, Next, ApplyRule, Resolve, vars
<1>2. payload.raw = NewOne.raw /\ parse(payload) = parse(NewOne)
  BY NewFields, ParseOnce DEF NewOne
<1>3. ASSUME NEW rule \in source.rules, NEW captured, ApplyRule(rule, captured)
      PROVE  LastIsFresh'
  <2>1. Apply(source, rule, captured, payload) = Apply(source, rule, captured, NewOne)
    BY <1>2, SameResult
  <2>2. /\ last'.call = "apply" /\ last'.rule = rule /\ last'.captured = captured
        /\ last'.outcome = Apply(source, rule, captured, payload)
    BY <1>3 DEF ApplyRule
  <2> QED BY <1>1, <2>1, <2>2 DEF LastIsFresh
<1>4. CASE Resolve
  <2>1. resolveLabels(DOMAIN source.labels, source.labels, none, payload) =
          resolveLabels(DOMAIN source.labels, source.labels, none, NewOne)
    BY <1>2, SameLabels
  <2>2. /\ last'.call = "resolve"
        /\ last'.outcome = resolveLabels(DOMAIN source.labels, source.labels, none, payload)
    BY <1>4 DEF Resolve
  <2> QED BY <1>1, <2>1, <2>2 DEF LastIsFresh
<1>5. CASE UNCHANGED vars
  BY <1>1, <1>5 DEF vars, LastIsFresh
<1> QED BY <1>3, <1>4, <1>5 DEF Next

(***************************************************************************)
(* Whole samples, nothing or the right error: whatever the message, the    *)
(* rules and the labels, and however many rules saw the payload before.    *)
(***************************************************************************)
THEOREM MessagesAreReadRight == Spec => []OutcomesAreRight
<1>1. Init => LastIsFresh
  BY DEF Init, LastIsFresh
<1>2. LastIsFresh /\ Cached /\ [Next]_vars => LastIsFresh'
  BY LastIsFreshStep
<1>3. TypeOK /\ LastIsFresh => OutcomesAreRight
  <2> SUFFICES ASSUME TypeOK, LastIsFresh PROVE OutcomesAreRight
    OBVIOUS
  <2>1. payload.raw \in Text /\ source \in Source
    BY DEF TypeOK
  <2>2. ASSUME last.call = "apply"
        PROVE  SampleIsWhole /\ SkippedQuietly /\ ErrorsAreErrors
    <3>1. /\ last.rule \in source.rules
          /\ last.outcome = Apply(source, last.rule, last.captured, NewOne)
      BY <2>2 DEF LastIsFresh
    <3> DEFINE labels == declared(source, last.rule)
               a      == last.outcome
               rule   == last.rule
    <3>2. /\ a.result = "value" =>
               /\ DOMAIN a.value.labels =
                    LabelNames(rule.captures, {rule.labels, source.labels})
               /\ ~valueSkipped(rule.value) /\ ~valueWrong(rule.value)
               /\ \A name \in DOMAIN labels :
                    /\ ~labelSkipped(labels[name], last.captured)
                    /\ ~labelWrong(labels[name])
          /\ valueSkipped(rule.value) => a = skip
          /\ a = skip =>
               \/ valueSkipped(rule.value)
               \/ \E name \in DOMAIN labels : labelSkipped(labels[name], last.captured)
          /\ valueWrong(rule.value) => a.result = "error"
          /\ a = fails("json") => ~isJSON
          /\ a = fails("regex") => NoMatch \in textsTaken(rule.value)
          /\ a = fails("not_numeric") => valueWrong(rule.value)
          /\ a = fails("other") =>
               isJSON /\ \E name \in DOMAIN labels : compound(labels[name])
      BY <2>1, <3>1, ApplyIsRight
    <3> QED BY <3>2 DEF SampleIsWhole, SkippedQuietly, ErrorsAreErrors
  <2>3. ASSUME last.call # "apply"
        PROVE  SampleIsWhole /\ SkippedQuietly /\ ErrorsAreErrors
    BY <2>3 DEF SampleIsWhole, SkippedQuietly, ErrorsAreErrors
  <2>4. SourceLabelsAreWhole
    <3> SUFFICES ASSUME last.call = "resolve" PROVE SourceLabelsAreWhole
      BY DEF SourceLabelsAreWhole
    <3> DEFINE z == last.outcome
    <3>1. RightLabels(DOMAIN source.labels, source.labels, none, z)
      BY <2>1, ResolveIsRight DEF LastIsFresh
    <3>2. CASE z.result = "value"
      BY <3>1, <3>2, Results DEF RightLabels, SourceLabelsAreWhole
    <3>3. CASE z = skip
      BY <3>1, <3>3, Results DEF RightLabels, SourceLabelsAreWhole
    <3>4. CASE z.result # "value" /\ z # skip
      <4>1. PICK name \in DOMAIN source.labels :
              /\ \E reason : z = fails(reason)
              /\ labelWrong(source.labels[name])
        BY <3>1, <3>4 DEF RightLabels
      <4>2. z.result = "error"
        BY <4>1, Results
      <4> QED BY <4>1, <4>2 DEF SourceLabelsAreWhole
    <3> QED BY <3>2, <3>3, <3>4
  <2> QED BY <2>2, <2>3, <2>4 DEF OutcomesAreRight
<1> QED BY <1>1, <1>2, <1>3, CachedAlways, TypeCorrect, PTL DEF Spec
=============================================================================
