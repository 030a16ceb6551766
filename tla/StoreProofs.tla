---------------------------- MODULE StoreProofs ----------------------------
(***************************************************************************)
(* What the runs show of Store on a few series and small readings, for any *)
(* set of series and every reading: the type invariant, the refinement of  *)
(* IdealStore by the series whose readings are numbers, that counters      *)
(* never fall when they are natural numbers, and that NaN does no lasting  *)
(* damage.                                                                 *)
(***************************************************************************)
EXTENDS Store, TLAPS

(***************************************************************************)
(* The sum of two float64 is a float64: what c.offset += c.last stores.    *)
(***************************************************************************)
LEMMA PlusType ==
  ASSUME NEW a \in Float, NEW b \in Float
  PROVE  Plus(a, b) \in Float
  BY FloatAssumption DEF Plus, Float

(***************************************************************************)
(* On numbers, float64 addition is addition.                               *)
(***************************************************************************)
LEMMA PlusOfNumbers ==
  ASSUME NEW a \in Int, NEW b \in Int
  PROVE  Plus(a, b) = a + b
  BY FloatAssumption DEF Plus

(***************************************************************************)
(* On numbers, float64 comparison is comparison.                           *)
(***************************************************************************)
LEMMA LessOnNumbers ==
  ASSUME NEW a \in Int, NEW b \in Int
  PROVE  Less(a, b) <=> a < b
  BY FloatAssumption DEF Less

(***************************************************************************)
(* A write to the map of series keeps it a map of series.                  *)
(***************************************************************************)
LEMMA ExtendType ==
  ASSUME NEW S, NEW T, NEW map, IsPartialMap(map, S, T),
         NEW id \in S, NEW value \in T
  PROVE  IsPartialMap(Extend(map, id, value), S, T)
  BY DEF Extend, IsPartialMap

(***************************************************************************)
(* The offset Store.Set leaves: only a counter that was seen before with a *)
(* larger reading moves it.                                                *)
(***************************************************************************)
OffsetAfter(map, id, kind, value) ==
  IF id \notin DOMAIN map THEN 0
  ELSE IF kind = Counter /\ map[id].seen /\ Less(value, map[id].last)
       THEN Plus(map[id].offset, map[id].last)
       ELSE map[id].offset

(***************************************************************************)
(* The offset is a float64.                                                *)
(***************************************************************************)
LEMMA OffsetAfterType ==
  ASSUME NEW S, NEW map, IsPartialMap(map, S, Entry), NEW id, NEW kind, NEW value
  PROVE  OffsetAfter(map, id, kind, value) \in Float
<1>1. CASE id \in DOMAIN map
  <2>1. map[id] \in Entry
    BY <1>1 DEF IsPartialMap
  <2>2. map[id].offset \in Float /\ map[id].last \in Float
    BY <2>1 DEF Entry
  <2>3. Plus(map[id].offset, map[id].last) \in Float
    BY <2>2, PlusType
  <2> QED BY <1>1, <2>2, <2>3 DEF OffsetAfter
<1>2. CASE id \notin DOMAIN map
  BY <1>2 DEF OffsetAfter, Float
<1> QED BY <1>1, <1>2

(***************************************************************************)
(* The entry Store.Set leaves: kind, help and reading of the call, and the *)
(* offset above, whether the series was known or not.                      *)
(***************************************************************************)
LEMMA SetEntryIs ==
  ASSUME NEW S, NEW map, IsPartialMap(map, S, Entry), NEW id,
         NEW kind \in Kind, NEW help \in Help, NEW value \in Float
  PROVE  SetEntry(map, id, kind, help, value) =
           [kind |-> kind, help |-> help, last |-> value,
            offset |-> OffsetAfter(map, id, kind, value), seen |-> TRUE]
<1>1. CASE id \in DOMAIN map
  <2>1. map[id] \in Entry
    BY <1>1 DEF IsPartialMap
  <2>2. CASE kind = Counter
    BY <1>1, <2>1, <2>2 DEF SetEntry, existing, observeCounter, Entry, OffsetAfter
  <2>3. CASE kind # Counter
    BY <1>1, <2>1, <2>3 DEF SetEntry, existing, observeGauge, Entry, OffsetAfter
  <2> QED BY <2>2, <2>3
<1>2. CASE id \notin DOMAIN map
  BY <1>2 DEF SetEntry, existing, observeCounter, observeGauge, OffsetAfter
<1> QED BY <1>1, <1>2

(***************************************************************************)
(* Store.Set keeps the map of series a map of series.                      *)
(***************************************************************************)
LEMMA SetSeriesType ==
  ASSUME NEW S, NEW map, IsPartialMap(map, S, Entry), NEW id \in S,
         NEW kind \in Kind, NEW help \in Help, NEW value \in Float
  PROVE  IsPartialMap(SetSeries(map, id, kind, help, value), S, Entry)
<1>1. OffsetAfter(map, id, kind, value) \in Float
  BY OffsetAfterType
<1>2. SetEntry(map, id, kind, help, value) =
        [kind |-> kind, help |-> help, last |-> value,
         offset |-> OffsetAfter(map, id, kind, value), seen |-> TRUE]
  BY SetEntryIs
<1>3. SetEntry(map, id, kind, help, value) \in Entry
  BY <1>1, <1>2 DEF Entry
<1> QED BY <1>3, ExtendType DEF SetSeries

-----------------------------------------------------------------------------
(***************************************************************************)
(* What one Set does: the entry written has the reading and the offset of  *)
(* observeCounter, every other entry is as before.                         *)
(***************************************************************************)
LEMMA SetEffect ==
  ASSUME TypeOK, NEW id \in Id, NEW value \in Reading[id], Set(id, value)
  PROVE  /\ DOMAIN series' = DOMAIN series \cup {id}
         /\ \A i \in DOMAIN series : i # id => series'[i] = series[i]
         /\ series'[id] \in Entry
         /\ series'[id].kind = KindOf[id] /\ series'[id].help = HelpOf[id]
         /\ series'[id].last = value /\ series'[id].seen = TRUE
         /\ id \notin DOMAIN series => series'[id].offset = 0
         /\ id \in DOMAIN series =>
              series'[id].offset =
                IF id \in CounterIds /\ series[id].seen /\ Less(value, series[id].last)
                THEN Plus(series[id].offset, series[id].last)
                ELSE series[id].offset
<1> DEFINE o == OffsetAfter(series, id, KindOf[id], value)
           e == [kind |-> KindOf[id], help |-> HelpOf[id], last |-> value,
                 offset |-> o, seen |-> TRUE]
<1>1. /\ IsPartialMap(series, Id, Entry)
      /\ KindOf[id] \in Kind /\ HelpOf[id] \in Help /\ value \in Float
  BY StoreAssumption DEF TypeOK
<1>2. SetEntry(series, id, KindOf[id], HelpOf[id], value) = e
  BY <1>1, SetEntryIs
<1>3. o \in Float
  BY <1>1, OffsetAfterType
<1>4. series' = Extend(series, id, e)
  BY <1>2 DEF Set, SetSeries
<1>5. /\ DOMAIN series' = DOMAIN series \cup {id}
      /\ series'[id] = e
      /\ \A i \in DOMAIN series : i # id => series'[i] = series[i]
  <2> HIDE DEF e
  <2> QED BY <1>4 DEF Extend
<1>6. o = IF id \notin DOMAIN series THEN 0
          ELSE IF id \in CounterIds /\ series[id].seen /\ Less(value, series[id].last)
               THEN Plus(series[id].offset, series[id].last)
               ELSE series[id].offset
  BY DEF OffsetAfter, CounterIds
<1>7. e \in Entry
  BY <1>1, <1>3 DEF Entry
<1> HIDE DEF o
<1>8. /\ e.kind = KindOf[id] /\ e.help = HelpOf[id]
      /\ e.last = value /\ e.seen = TRUE /\ e.offset = o
  OBVIOUS
<1> HIDE DEF e
<1>9. series'[id].offset = o
  BY <1>5, <1>8
<1> QED BY <1>5, <1>6, <1>7, <1>8, <1>9

(***************************************************************************)
(* Set keeps the series a map of entries and the peaks a map of numbers,   *)
(* whatever the readings; every entry has the kind and help of its metric  *)
(* and was seen, and no gauge has an offset.                               *)
(***************************************************************************)
THEOREM TypeCorrect == Spec => []TypeOK
<1>1. Init => TypeOK
  BY DEF Init, TypeOK, IsPartialMap, EmptyMap
<1>2. TypeOK /\ [Next]_vars => TypeOK'
  <2> SUFFICES ASSUME TypeOK, [Next]_vars PROVE TypeOK'
    OBVIOUS
  <2>1. CASE UNCHANGED vars
    BY <2>1 DEF TypeOK, IsPartialMap, EntryOK, vars
  <2>2. ASSUME NEW id \in Id, NEW value \in Reading[id], Set(id, value)
        PROVE  TypeOK'
    <3>1. IsPartialMap(series', Id, Entry)
      BY <2>2, SetSeriesType, StoreAssumption DEF TypeOK, Set
    <3>2. IsPartialMap(peak', Id, Int)
      <4>1. peak' = NewPeak(id, Shown(series'[id])) /\ IsPartialMap(peak, Id, Int)
        BY <2>2 DEF Set, TypeOK
      <4>2. CASE peak' = peak
        BY <4>1, <4>2
      <4>3. CASE peak' # peak
        <5>1. Shown(series'[id]) \in Int /\ peak' = Extend(peak, id, Shown(series'[id]))
          BY <4>1, <4>3 DEF NewPeak
        <5> QED BY <4>1, <5>1, ExtendType
      <4> QED BY <4>2, <4>3
    <3>3. \A i \in DOMAIN series' : EntryOK(i)'
      <4>1. /\ DOMAIN series' = DOMAIN series \cup {id}
            /\ \A i \in DOMAIN series : i # id => series'[i] = series[i]
            /\ series'[id].kind = KindOf[id] /\ series'[id].help = HelpOf[id]
            /\ series'[id].seen = TRUE
            /\ id \notin DOMAIN series => series'[id].offset = 0
            /\ id \in DOMAIN series =>
                 series'[id].offset =
                   IF id \in CounterIds /\ series[id].seen /\ Less(value, series[id].last)
                   THEN Plus(series[id].offset, series[id].last)
                   ELSE series[id].offset
        BY <2>2, SetEffect
      <4>2. \A i \in DOMAIN series : EntryOK(i)
        BY DEF TypeOK
      <4>3. EntryOK(id)'
        BY <4>1, <4>2 DEF EntryOK
      <4>4. ASSUME NEW i \in DOMAIN series, i # id
            PROVE  EntryOK(i)'
        BY <4>1, <4>2, <4>4 DEF EntryOK
      <4> QED BY <4>1, <4>3, <4>4
    <3> QED BY <3>1, <3>2, <3>3 DEF TypeOK
  <2> QED BY <2>1, <2>2 DEF Next
<1> QED BY <1>1, <1>2, PTL DEF Spec

-----------------------------------------------------------------------------
(***************************************************************************)
(* With numbers for readings, what a series holds are numbers.             *)
(***************************************************************************)
NumbersInv ==
  \A id \in DOMAIN series \cap Numeric :
    series[id].last \in Int /\ series[id].offset \in Int

(***************************************************************************)
(* Set keeps NumbersInv: the readings of such a series are numbers.        *)
(***************************************************************************)
LEMMA NumbersStep ==
  ASSUME TypeOK, NumbersInv, [Next]_vars
  PROVE  NumbersInv'
<1>1. CASE UNCHANGED vars
  BY <1>1 DEF NumbersInv, vars
<1>2. ASSUME NEW id \in Id, NEW value \in Reading[id], Set(id, value)
      PROVE  NumbersInv'
  <2>1. /\ DOMAIN series' = DOMAIN series \cup {id}
        /\ \A i \in DOMAIN series : i # id => series'[i] = series[i]
        /\ series'[id].last = value /\ series'[id].seen = TRUE
        /\ id \notin DOMAIN series => series'[id].offset = 0
        /\ id \in DOMAIN series =>
             series'[id].offset =
               IF id \in CounterIds /\ series[id].seen /\ Less(value, series[id].last)
               THEN Plus(series[id].offset, series[id].last)
               ELSE series[id].offset
    BY <1>2, SetEffect
  <2>2. id \in DOMAIN series \cap Numeric =>
          Plus(series[id].offset, series[id].last) = series[id].offset + series[id].last
    BY PlusOfNumbers DEF NumbersInv
  <2>3. id \in Numeric => value \in Int
    BY DEF Numeric
  <2> QED BY <2>1, <2>2, <2>3 DEF NumbersInv
<1> QED BY <1>1, <1>2 DEF Next

(***************************************************************************)
(* The refinement: for a series whose readings are numbers every Set is    *)
(* exactly a step of IdealStore, so what a counter shows is the sum of     *)
(* what its device counted, over any sequence of restarts; for every other *)
(* series it is a stuttering step.                                         *)
(***************************************************************************)
THEOREM Refinement == Spec => ImplementsIdeal
<1>1. Init => NumbersInv /\ Ideal!Init
  BY DEF Init, NumbersInv, EmptyMap, Ideal!Init
<1>2. TypeOK /\ NumbersInv /\ [Next]_vars => NumbersInv'
  BY NumbersStep
<1>3. TypeOK /\ NumbersInv /\ NumbersInv' /\ [Next]_vars => [Ideal!Next]_(Ideal!vars)
  <2> SUFFICES ASSUME TypeOK, NumbersInv, NumbersInv', [Next]_vars
               PROVE  [Ideal!Next]_(Ideal!vars)
    OBVIOUS
  <2> DEFINE shown == [i \in DOMAIN series \cap Numeric |-> Shown(series[i])]
             previous == [i \in DOMAIN series \cap Numeric |-> series[i].last]
  <2>1. CASE UNCHANGED vars
    BY <2>1 DEF vars, Ideal!vars
  <2>2. ASSUME NEW id \in Id, NEW value \in Reading[id], Set(id, value), id \notin Numeric
        PROVE  UNCHANGED Ideal!vars
    <3>1. /\ DOMAIN series' = DOMAIN series \cup {id}
          /\ \A i \in DOMAIN series : i # id => series'[i] = series[i]
      BY <2>2, SetEffect
    <3>2. shown' = shown
      BY <2>2, <3>1
    <3>3. previous' = previous
      BY <2>2, <3>1
    <3> QED BY <3>2, <3>3 DEF Ideal!vars
  <2>3. ASSUME NEW id \in Numeric, NEW value \in Reading[id], Set(id, value)
        PROVE  Ideal!Observe(id, value)
    <3>0. id \in Id /\ value \in Int
      BY DEF Numeric
    <3>1. /\ DOMAIN series' = DOMAIN series \cup {id}
          /\ \A i \in DOMAIN series : i # id => series'[i] = series[i]
          /\ series'[id].last = value /\ series'[id].seen = TRUE
          /\ id \notin DOMAIN series => series'[id].offset = 0
          /\ id \in DOMAIN series =>
               series'[id].offset =
                 IF id \in CounterIds /\ series[id].seen /\ Less(value, series[id].last)
                 THEN Plus(series[id].offset, series[id].last)
                 ELSE series[id].offset
      BY <2>3, <3>0, SetEffect
    <3>2. /\ id \in DOMAIN series => Shown(series[id]) = series[id].last + series[id].offset
          /\ Shown(series'[id]) = series'[id].last + series'[id].offset
      BY <3>1, PlusOfNumbers DEF Shown, NumbersInv
    <3>3. id \in DOMAIN series =>
            /\ Plus(series[id].offset, series[id].last) = series[id].offset + series[id].last
            /\ Less(value, series[id].last) <=> value < series[id].last
      <4> SUFFICES ASSUME id \in DOMAIN series
                   PROVE  /\ Plus(series[id].offset, series[id].last)
                                = series[id].offset + series[id].last
                          /\ Less(value, series[id].last) <=> value < series[id].last
        OBVIOUS
      <4>1. series[id].last \in Int /\ series[id].offset \in Int
        BY DEF NumbersInv
      <4> QED BY <3>0, <4>1, PlusOfNumbers, LessOnNumbers
    <3>4. previous' = Ideal!Put(previous, id, value)
      BY <3>1 DEF Ideal!Put
    <3>5. Shown(series'[id]) =
            IF id \in CounterIds /\ id \in DOMAIN series
            THEN Shown(series[id])
                 + (IF value < series[id].last THEN value ELSE value - series[id].last)
            ELSE value
      <4>1. id \in DOMAIN series =>
              /\ series[id].seen = TRUE
              /\ series[id].last \in Int /\ series[id].offset \in Int
              /\ id \notin CounterIds => series[id].offset = 0
        BY DEF TypeOK, EntryOK, NumbersInv
      <4> QED BY <3>0, <3>1, <3>2, <3>3, <4>1
    <3>6. shown' = Ideal!Put(shown, id, Shown(series'[id]))
      BY <3>1 DEF Ideal!Put
    <3>7. Shown(series'[id]) =
            IF id \in Numeric \cap CounterIds /\ id \in DOMAIN shown
            THEN shown[id] + Ideal!Increase(id, value)
            ELSE value
      BY <3>5 DEF Ideal!Increase
    <3> QED BY <3>4, <3>6, <3>7 DEF Ideal!Observe
  <2>4. ASSUME NEW id \in Id, NEW value \in Reading[id], Set(id, value)
        PROVE  [Ideal!Next]_(Ideal!vars)
    BY <2>2, <2>3, <2>4 DEF Ideal!Next
  <2> QED BY <2>1, <2>4 DEF Next
<1> QED BY <1>1, <1>2, <1>3, TypeCorrect, PTL DEF Spec, ImplementsIdeal, Ideal!Spec

-----------------------------------------------------------------------------
(***************************************************************************)
(* NeverBelowPeak is inductive once the peak is known to be a number a     *)
(* known series has shown, and the readings are natural.                   *)
(***************************************************************************)
Natural == {id \in CounterIds : Reading[id] \subseteq Nat}

PeakInv ==
  /\ DOMAIN peak \subseteq DOMAIN series
  /\ \A id \in DOMAIN series \cap Natural :
       /\ series[id].last \in Nat
       /\ id \in DOMAIN peak => Shown(series[id]) >= peak[id]

(***************************************************************************)
(* Natural readings are numbers, so what a counter with such readings      *)
(* shows is the sum of its latest reading and its offset.                  *)
(***************************************************************************)
LEMMA NaturalShown ==
  ASSUME TypeOK, NumbersInv, NEW id \in DOMAIN series \cap Natural
  PROVE  /\ series[id].seen = TRUE
         /\ series[id].last \in Int /\ series[id].offset \in Int
         /\ Shown(series[id]) = series[id].last + series[id].offset
         /\ Shown(series[id]) \in Int
<1>1. id \in Numeric
  BY DEF Natural, Numeric, CounterIds
<1>2. series[id].seen = TRUE /\ series[id].last \in Int /\ series[id].offset \in Int
  BY <1>1 DEF TypeOK, EntryOK, NumbersInv
<1>3. Shown(series[id]) = series[id].last + series[id].offset
  BY <1>2, PlusOfNumbers DEF Shown
<1> QED BY <1>2, <1>3

(***************************************************************************)
(* What a counter with natural readings shows does not fall.               *)
(***************************************************************************)
LEMMA NaturalGrows ==
  ASSUME TypeOK, NumbersInv, NumbersInv', PeakInv,
         NEW id \in Natural, NEW value \in Reading[id], Set(id, value)
  PROVE  /\ Shown(series'[id]) \in Int
         /\ id \in DOMAIN series => Shown(series'[id]) >= Shown(series[id])
<1>1. id \in Id /\ id \in CounterIds /\ value \in Nat
  BY DEF Natural, CounterIds
<1>2. /\ DOMAIN series' = DOMAIN series \cup {id}
      /\ series'[id].last = value
      /\ id \in DOMAIN series =>
           series'[id].offset =
             IF id \in CounterIds /\ series[id].seen /\ Less(value, series[id].last)
             THEN Plus(series[id].offset, series[id].last)
             ELSE series[id].offset
  BY <1>1, SetEffect
<1>3. /\ series'[id].offset \in Int
      /\ Shown(series'[id]) = series'[id].last + series'[id].offset
      /\ Shown(series'[id]) \in Int
  <2>1. id \in Numeric
    BY <1>1 DEF Natural, Numeric
  <2>2. series'[id].last \in Int /\ series'[id].offset \in Int
    BY <1>2, <2>1 DEF NumbersInv
  <2>3. Shown(series'[id]) = series'[id].last + series'[id].offset
    BY <2>2, PlusOfNumbers DEF Shown
  <2> QED BY <2>2, <2>3
<1>4. ASSUME id \in DOMAIN series
      PROVE  Shown(series'[id]) >= Shown(series[id])
  <2>1. /\ series[id].seen = TRUE
        /\ series[id].last \in Int /\ series[id].offset \in Int
        /\ Shown(series[id]) = series[id].last + series[id].offset
    BY <1>4, NaturalShown
  <2>2. /\ Plus(series[id].offset, series[id].last) = series[id].offset + series[id].last
        /\ Less(value, series[id].last) <=> value < series[id].last
    <3>1. value \in Int /\ series[id].last \in Int /\ series[id].offset \in Int
      BY <1>1, <2>1
    <3> QED BY <3>1, PlusOfNumbers, LessOnNumbers
  <2>3. series'[id].offset = IF value < series[id].last
                             THEN series[id].offset + series[id].last
                             ELSE series[id].offset
    BY <1>1, <1>2, <1>4, <2>1, <2>2
  <2>4. CASE value < series[id].last
    <3>1. series'[id].offset = series[id].offset + series[id].last
      BY <2>3, <2>4
    <3> QED BY <1>1, <1>2, <1>3, <2>1, <3>1
  <2>5. CASE ~(value < series[id].last)
    <3>1. series'[id].offset = series[id].offset
      BY <2>3, <2>5
    <3> QED BY <1>1, <1>2, <1>3, <2>1, <2>5, <3>1
  <2> QED BY <2>4, <2>5
<1> QED BY <1>3, <1>4

(***************************************************************************)
(* A counter with natural readings never shows less than it showed before, *)
(* however often its device restarts and in whatever order its readings    *)
(* come.                                                                   *)
(***************************************************************************)
THEOREM CountersNeverFall == Spec => []NeverBelowPeak
<1>1. Init => NumbersInv /\ PeakInv
  BY DEF Init, NumbersInv, PeakInv, EmptyMap
<1>2. TypeOK /\ NumbersInv /\ [Next]_vars => NumbersInv'
  BY NumbersStep
<1>3. TypeOK /\ NumbersInv /\ NumbersInv' /\ PeakInv /\ [Next]_vars => PeakInv'
  <2> SUFFICES ASSUME TypeOK, NumbersInv, NumbersInv', PeakInv, [Next]_vars
               PROVE  PeakInv'
    OBVIOUS
  <2>1. CASE UNCHANGED vars
    BY <2>1 DEF PeakInv, vars
  <2>2. ASSUME NEW id \in Id, NEW value \in Reading[id], Set(id, value)
        PROVE  PeakInv'
    <3> DEFINE now == Shown(series'[id])
    <3>1. /\ DOMAIN series' = DOMAIN series \cup {id}
          /\ \A i \in DOMAIN series : i # id => series'[i] = series[i]
          /\ series'[id].last = value
      BY <2>2, SetEffect
    <3>2. id \in Natural =>
            /\ value \in Nat /\ now \in Int
            /\ id \in DOMAIN series => now >= Shown(series[id])
      BY <2>2, NaturalGrows DEF Natural
    <3>3. id \in Natural /\ id \in DOMAIN series => Shown(series[id]) \in Int
      BY NaturalShown
    <3>4. peak \in [DOMAIN peak -> Int] /\ peak' = NewPeak(id, now)
      BY <2>2 DEF TypeOK, IsPartialMap, Set
    <3> HIDE DEF now
    <3>5. /\ DOMAIN peak' \subseteq DOMAIN peak \cup {id}
          /\ \A i \in DOMAIN peak : i # id => i \in DOMAIN peak' /\ peak'[i] = peak[i]
          /\ \A i \in DOMAIN peak' : i # id => i \in DOMAIN peak
          /\ id \in DOMAIN peak' /\ id \in Natural => now >= peak'[id]
      <4>1. CASE now \notin Int
        BY <3>2, <3>4, <4>1 DEF NewPeak
      <4>2. CASE now \in Int /\ id \in DOMAIN peak /\ peak[id] > now
        <5>1. peak' = peak
          BY <3>4, <4>2 DEF NewPeak
        <5>2. id \in Natural => now >= peak[id]
          <6> SUFFICES ASSUME id \in Natural PROVE now >= peak[id]
            OBVIOUS
          <6>1. id \in DOMAIN series /\ Shown(series[id]) >= peak[id]
            BY <4>2 DEF PeakInv
          <6> QED BY <3>2, <3>3, <3>4, <4>2, <6>1
        <5> QED BY <5>1, <5>2
      <4>3. CASE now \in Int /\ ~(id \in DOMAIN peak /\ peak[id] > now)
        <5>1. peak' = Extend(peak, id, now)
          BY <3>4, <4>3 DEF NewPeak
        <5> QED BY <4>3, <5>1 DEF Extend
      <4> QED BY <4>1, <4>2, <4>3
    <3>6. DOMAIN peak' \subseteq DOMAIN series'
      BY <3>1, <3>5 DEF PeakInv
    <3>7. ASSUME NEW i \in DOMAIN series', i \in Natural
          PROVE  /\ series'[i].last \in Nat
                 /\ i \in DOMAIN peak' => Shown(series'[i]) >= peak'[i]
      <4>1. CASE i = id
        BY <3>1, <3>2, <3>5, <3>7, <4>1 DEF now
      <4>2. CASE i # id
        <5>1. i \in DOMAIN series /\ series'[i] = series[i]
          BY <3>1, <4>2
        <5>2. /\ series[i].last \in Nat
              /\ i \in DOMAIN peak => Shown(series[i]) >= peak[i]
          BY <3>7, <5>1 DEF PeakInv
        <5> QED BY <3>5, <4>2, <5>1, <5>2
      <4> QED BY <4>1, <4>2
    <3> QED BY <3>6, <3>7 DEF PeakInv
  <2> QED BY <2>1, <2>2 DEF Next
<1>4. PeakInv => NeverBelowPeak
  BY DEF PeakInv, NeverBelowPeak, Natural
<1> QED BY <1>1, <1>2, <1>3, <1>4, TypeCorrect, PTL DEF Spec

-----------------------------------------------------------------------------
(***************************************************************************)
(* With NaN among the readings the offset still stays a number: a          *)
(* comparison with NaN is false, so neither the NaN nor the reading after  *)
(* it moves the offset.                                                    *)
(***************************************************************************)
OffsetInv ==
  \A id \in DOMAIN series :
    series[id].last \in Int \cup {NaN} /\ series[id].offset \in Int

(***************************************************************************)
(* NaN readings do no lasting damage: the next number is shown as one.     *)
(***************************************************************************)
THEOREM NaNPasses ==
  ASSUME \A id \in Id : Reading[id] \subseteq Int \cup {NaN}
  PROVE  Spec => []BadReadingPasses
<1>1. Init => OffsetInv
  BY DEF Init, OffsetInv, EmptyMap
<1>2. TypeOK /\ OffsetInv /\ [Next]_vars => OffsetInv'
  <2> SUFFICES ASSUME TypeOK, OffsetInv, [Next]_vars PROVE OffsetInv'
    OBVIOUS
  <2>1. CASE UNCHANGED vars
    BY <2>1 DEF OffsetInv, vars
  <2>2. ASSUME NEW id \in Id, NEW value \in Reading[id], Set(id, value)
        PROVE  OffsetInv'
    <3>1. /\ DOMAIN series' = DOMAIN series \cup {id}
          /\ \A i \in DOMAIN series : i # id => series'[i] = series[i]
          /\ series'[id].last = value
          /\ id \notin DOMAIN series => series'[id].offset = 0
          /\ id \in DOMAIN series =>
               series'[id].offset =
                 IF id \in CounterIds /\ series[id].seen /\ Less(value, series[id].last)
                 THEN Plus(series[id].offset, series[id].last)
                 ELSE series[id].offset
      BY <2>2, SetEffect
    <3>2. id \in DOMAIN series /\ Less(value, series[id].last) =>
            /\ series[id].last \in Int /\ series[id].offset \in Int
            /\ Plus(series[id].offset, series[id].last) = series[id].offset + series[id].last
      BY PlusOfNumbers DEF Less, OffsetInv
    <3>3. value \in Int \cup {NaN}
      OBVIOUS
    <3> QED BY <3>1, <3>2, <3>3 DEF OffsetInv
  <2> QED BY <2>1, <2>2 DEF Next
<1>3. OffsetInv => BadReadingPasses
  <2> SUFFICES ASSUME OffsetInv, NEW id \in DOMAIN series, series[id].last \in Int
               PROVE  Plus(series[id].last, series[id].offset) \in Int
    BY DEF BadReadingPasses, Shown
  <2>1. series[id].offset \in Int
    BY DEF OffsetInv
  <2>2. Plus(series[id].last, series[id].offset) = series[id].last + series[id].offset
    BY <2>1, PlusOfNumbers
  <2> QED BY <2>1, <2>2
<1> QED BY <1>1, <1>2, <1>3, TypeCorrect, PTL DEF Spec
=============================================================================
