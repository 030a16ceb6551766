------------------------------- MODULE Topics -------------------------------
(***************************************************************************)
(* The functions on topics in internal/app: topicPrefix and owns of        *)
(* source.go, prefixOf of discover.go, topicFilter of listen.go; and, as   *)
(* the reference they are compared with, which topics a filter of MQTT     *)
(* matches.  A text is a sequence of characters, and the head of a shared  *)
(* subscription, "$share/" and the name of its group, is one character.    *)
(***************************************************************************)
EXTENDS Naturals, FiniteSetsExt, SequencesExt

Shared == "$share/group/"

(***************************************************************************)
(* What may be published on, and what a broker takes for a filter: a       *)
(* wildcard is a level of its own, and "#" the last one.                   *)
(***************************************************************************)
isText(text) == text \in Seq(STRING) /\ text # <<>>

isTopic(text) ==
  isText(text) /\ \A i \in DOMAIN text : text[i] \notin {"+", "#", Shared}

isFilter(text) ==
  /\ isText(text) /\ text # <<Shared>>
  /\ \A i \in DOMAIN text :
       /\ text[i] = Shared => i = 1
       /\ text[i] \in {"+", "#"} =>
            /\ i = 1 \/ text[i - 1] \in {"/", Shared}
            /\ i = Len(text) \/ (text[i] = "+" /\ text[i + 1] = "/")

-----------------------------------------------------------------------------
\* Mutant: only "#" ends the prefix.
topicPrefixHash(filter) ==
  LET wild == {i \in DOMAIN filter : filter[i] = "#"}
  IN  IF wild = {} THEN filter ELSE SubSeq(filter, 1, Min(wild) - 1)

(***************************************************************************)
(* What a source owns: the topics that begin with its filter, up to the    *)
(* first wildcard.                                                         *)
(***************************************************************************)
topicPrefix(filter) ==
  LET wild == {i \in DOMAIN filter : filter[i] \in {"+", "#"}}
  IN  IF wild = {} THEN filter ELSE SubSeq(filter, 1, Min(wild) - 1)

owns(filter, topic) == IsPrefix(topicPrefix(filter), topic)

-----------------------------------------------------------------------------
slashes(text) == {i \in DOMAIN text : text[i] = "/"}

levels(text) == Cardinality(slashes(text)) + 1

\* Where level k of a text ends, that is before its k-th slash.
end(text, k) ==
  IF k = 0 THEN 0
  ELSE IF k >= levels(text) THEN Len(text) + 1
  ELSE CHOOSE i \in slashes(text) : Cardinality({j \in slashes(text) : j <= i}) = k

(***************************************************************************)
(* The first levels of a topic, which discover prints.                     *)
(***************************************************************************)
prefixOf(topic, depth) ==
  IF levels(topic) <= depth THEN topic ELSE SubSeq(topic, 1, end(topic, depth) - 1)

\* Mutant: one level only.
topicFilterOneLevel(prefix) ==
  IF prefix = <<>> THEN <<"#">>
  ELSE (IF Last(prefix) = "/" THEN Front(prefix) ELSE prefix) \o <<"/", "+">>

(***************************************************************************)
(* The filter discover subscribes to for what was typed.                   *)
(***************************************************************************)
topicFilter(prefix) ==
  IF prefix = <<>> THEN <<"#">>
  ELSE (IF Last(prefix) = "/" THEN Front(prefix) ELSE prefix) \o <<"/", "#">>

-----------------------------------------------------------------------------
(***************************************************************************)
(* The broker: "+" is any one level, "#" any number of them, none as well. *)
(***************************************************************************)
level(text, k) == SubSeq(text, end(text, k - 1) + 1, end(text, k) - 1)

isShared(filter) == filter # <<>> /\ Head(filter) = Shared

matchesUnshared(filter, topic) ==
  LET n == levels(filter)
      open == level(filter, n) = <<"#">>
      fixed == IF open THEN n - 1 ELSE n
  IN  /\ IF open THEN levels(topic) >= fixed ELSE levels(topic) = fixed
      /\ \A k \in 1 .. fixed : level(filter, k) \in {<<"+">>, level(topic, k)}

Matches(filter, topic) ==
  matchesUnshared(IF isShared(filter) THEN Tail(filter) ELSE filter, topic)

-----------------------------------------------------------------------------
(***************************************************************************)
(* A message is handed to the source that subscribed to it, but for two    *)
(* kinds of filter: with a/#, the broker also sends what is published on a *)
(* itself, and a shared filter is not how the topics begin.                *)
(***************************************************************************)
HandedToItsSource(filter, topic) ==
  Matches(filter, topic) =>
    (owns(filter, topic) <=> ~isShared(filter) /\ filter # topic \o <<"/", "#">>)

(***************************************************************************)
(* What discover prints leads back to the topics it stands for: typed      *)
(* again it subscribes to the topic it was found by, and, unless its last  *)
(* level is empty, to no topic that begins otherwise.                      *)
(***************************************************************************)
LeadsBack(topic, depth, topics) ==
  LET prefix == prefixOf(topic, depth)
      filter == topicFilter(prefix)
  IN  /\ Matches(filter, topic)
      /\ level(prefix, levels(prefix)) # <<>> =>
           \A other \in topics :
             Matches(filter, other) => prefixOf(other, levels(prefix)) = prefix
=============================================================================
