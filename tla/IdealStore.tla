----------------------------- MODULE IdealStore -----------------------------
(***************************************************************************)
(* What the sample store promises to whoever scrapes it, without the       *)
(* bookkeeping that keeps the promise (docs/configuration.md, "Values"):   *)
(* a gauge shows its latest reading, and a counter grows by exactly what   *)
(* the device counted, where a reading below the previous one means that   *)
(* the device restarted from zero.                                         *)
(***************************************************************************)
EXTENDS Integers

CONSTANTS Id, CounterIds, Readings   \* Readings[id]: what a device can send

VARIABLES
  shown,        \* the value a scrape is shown, for every series known
  previous      \* the latest reading of every series known

vars == <<shown, previous>>

Put(map, id, value) ==
  [i \in DOMAIN map \cup {id} |-> IF i = id THEN value ELSE map[i]]

(***************************************************************************)
(* What a device counted between its previous reading and this one.        *)
(***************************************************************************)
Increase(id, reading) ==
  IF reading < previous[id] THEN reading ELSE reading - previous[id]

Init == shown = [i \in {} |-> 0] /\ previous = [i \in {} |-> 0]

Observe(id, reading) ==
  /\ previous' = Put(previous, id, reading)
  /\ shown' = Put(shown, id,
                  IF id \in CounterIds /\ id \in DOMAIN shown
                  THEN shown[id] + Increase(id, reading)
                  ELSE reading)

Next == \E id \in Id : \E reading \in Readings[id] : Observe(id, reading)

Spec == Init /\ [][Next]_vars
=============================================================================
