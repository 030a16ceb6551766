------------------------------- MODULE Store -------------------------------
(***************************************************************************)
(* internal/store/store.go as a component: any caller may Set any series   *)
(* to any reading at any time.  The kind and help of a series are those    *)
(* of its metric: config.Validate refuses a name with two of either.       *)
(***************************************************************************)
EXTENDS Series

CONSTANTS
  Id,           \* identities: a metric name with its labels
  KindOf,       \* the kind of each series
  HelpOf,       \* its help text
  Reading,      \* the values a rule can extract for each series
  MaxOffset     \* bound: a series is left alone once its offset is above it

ASSUME StoreAssumption ==
  /\ KindOf \in [Id -> Kind]
  /\ HelpOf \in [Id -> Help]
  /\ Reading \in [Id -> SUBSET Float]
  /\ MaxOffset \in Nat

VARIABLES
  series,       \* Store.series
  peak          \* history: the highest number each series has shown

vars == <<series, peak>>

CounterIds == {id \in Id : KindOf[id] = Counter}

(***************************************************************************)
(* The series whose device only ever sends numbers.                        *)
(***************************************************************************)
Numeric == {id \in Id : Reading[id] \subseteq Int}

Init == series = EmptyMap /\ peak = EmptyMap

(***************************************************************************)
(* The history variable: numbers only, NaN and the infinities are not      *)
(* compared.                                                               *)
(***************************************************************************)
NewPeak(id, shown) ==
  IF shown \notin Int THEN peak
  ELSE IF id \in DOMAIN peak /\ peak[id] > shown THEN peak
  ELSE Extend(peak, id, shown)

Set(id, value) ==
  /\ id \in DOMAIN series /\ series[id].offset \in Int => series[id].offset <= MaxOffset
  /\ series' = SetSeries(series, id, KindOf[id], HelpOf[id], value)
  /\ peak' = NewPeak(id, Shown(series'[id]))

Next == \E id \in Id : \E value \in Reading[id] : Set(id, value)

Spec == Init /\ [][Next]_vars

-----------------------------------------------------------------------------

(***************************************************************************)
(* What Set leaves in an entry: the kind and help of the metric, which is  *)
(* what a scrape is told of the series; the mark that there was a reading, *)
(* without which the next restart would be missed; and an offset only in a *)
(* counter.                                                                *)
(***************************************************************************)
EntryOK(id) ==
  /\ series[id].kind = KindOf[id] /\ series[id].help = HelpOf[id]
  /\ series[id].seen = TRUE
  /\ id \notin CounterIds => series[id].offset = 0

(***************************************************************************)
(* The map takes identities to entries as Set leaves them, whatever was    *)
(* set before (store.go:50-83).                                            *)
(***************************************************************************)
TypeOK ==
  /\ IsPartialMap(series, Id, Entry)
  /\ \A id \in DOMAIN series : EntryOK(id)
  /\ IsPartialMap(peak, Id, Int)

(***************************************************************************)
(* The promise of the store: for the series whose readings are numbers,    *)
(* every Set is a step of IdealStore, and the readings of the others are   *)
(* none of it.  In particular the offset that observeCounter carries adds  *)
(* up to what the devices really counted over any sequence of restarts, on *)
(* every series separately.                                                *)
(***************************************************************************)
Ideal == INSTANCE IdealStore WITH
  Id       <- Numeric,
  Readings <- Reading,
  shown    <- [id \in DOMAIN series \cap Numeric |-> Shown(series[id])],
  previous <- [id \in DOMAIN series \cap Numeric |-> series[id].last]

ImplementsIdeal == Ideal!Spec

(***************************************************************************)
(* A counter whose readings fall is carried by its offset: what it shows   *)
(* is at least everything it showed before, so a scraper never takes the   *)
(* exporter for restarted.  The readings may come in any order, late and   *)
(* repeated ones included; one that is not a number may hide a restart,    *)
(* so this is about devices that send numbers only.                        *)
(***************************************************************************)
NeverBelowPeak ==
  \A id \in DOMAIN peak :
    id \in CounterIds /\ Reading[id] \subseteq Nat => Shown(series[id]) >= peak[id]

(***************************************************************************)
(* A bad reading passes: however strange the readings before it, a series  *)
(* whose latest reading is a number shows a number.  What must not happen  *)
(* is that a bad reading gets into the offset, which nothing ever resets.  *)
(***************************************************************************)
BadReadingPasses ==
  \A id \in DOMAIN series :
    series[id].last \in Int => Shown(series[id]) \in Int
=============================================================================
