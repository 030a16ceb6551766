------------------------------- MODULE Series -------------------------------
(***************************************************************************)
(* internal/store/store.go: what one Set does to the map of series, and    *)
(* what a Snapshot makes of it.  Every method of Store holds its mutex     *)
(* from the first access of the map to the last, so each is one step of    *)
(* whoever calls it; this module holds the functions, Store the component  *)
(* and Router the pipeline that calls it.                                  *)
(*                                                                         *)
(* A series is known by its identity (name and labels).  The map is a      *)
(* function whose domain is the set of identities seen so far.             *)
(***************************************************************************)
EXTENDS Float64

CONSTANT Help        \* the help texts of the configuration

Gauge   == "gauge"
Counter == "counter"
Kind    == {Gauge, Counter}

Entry == [kind : Kind, help : Help, last : Float, offset : Float, seen : BOOLEAN]

(***************************************************************************)
(* map takes some of the identities in S to values in T.                   *)
(***************************************************************************)
IsPartialMap(map, S, T) == DOMAIN map \subseteq S /\ map \in [DOMAIN map -> T]

EmptyMap == [i \in {} |-> 0]

Extend(map, id, value) ==
  [i \in DOMAIN map \cup {id} |-> IF i = id THEN value ELSE map[i]]

\* Mutant: the offset is forgotten.
observeCounterNoOffset(c, value) == [c EXCEPT !.last = value, !.seen = TRUE]

\* Mutant: a reading equal to the previous one counts as a restart.
observeCounterOnEqual(c, value) ==
  [c EXCEPT !.offset = IF c.seen /\ ~Less(c.last, value) THEN Plus(@, c.last) ELSE @,
            !.last   = value,
            !.seen   = TRUE]

(***************************************************************************)
(* series.observeCounter: a reading below the previous one is a restart of *)
(* the device, and what was counted before it moves into the offset.       *)
(***************************************************************************)
observeCounter(c, value) ==
  [c EXCEPT !.offset = IF c.seen /\ Less(value, c.last) THEN Plus(@, c.last) ELSE @,
            !.last   = value,
            !.seen   = TRUE]

observeGauge(c, value) == [c EXCEPT !.last = value, !.seen = TRUE]

\* Mutant: Set leaves the kind at its zero value, which is Gauge.
existingNoKind(map, id, kind, help) ==
  IF id \in DOMAIN map
  THEN [map[id] EXCEPT !.help = help]
  ELSE [kind |-> Gauge, help |-> help, last |-> 0, offset |-> 0, seen |-> FALSE]

(***************************************************************************)
(* Store.Set on an entry and on the map.  An unknown identity starts from  *)
(* Go's zero value; kind and help are overwritten in any case.             *)
(***************************************************************************)
existing(map, id, kind, help) ==
  IF id \in DOMAIN map
  THEN [map[id] EXCEPT !.kind = kind, !.help = help]
  ELSE [kind |-> kind, help |-> help, last |-> 0, offset |-> 0, seen |-> FALSE]

SetEntry(map, id, kind, help, value) ==
  IF kind = Counter
  THEN observeCounter(existing(map, id, kind, help), value)
  ELSE observeGauge(existing(map, id, kind, help), value)

SetSeries(map, id, kind, help, value) ==
  Extend(map, id, SetEntry(map, id, kind, help, value))

(***************************************************************************)
(* Store.Snapshot: the value a scrape is shown for every series.           *)
(***************************************************************************)
Shown(entry) == Plus(entry.last, entry.offset)
=============================================================================
