-------------------------- MODULE ConnectionProofs --------------------------
(***************************************************************************)
(* Proofs about module Connection, for any number of connections and any   *)
(* filters: its types, and that the counter of reconnects is right however *)
(* the calls of the library interleave.                                    *)
(*                                                                         *)
(* ReconnectsAreUps speaks of moments at which every call has counted.  In *)
(* between, the calls that have counted their connection are as many as    *)
(* connections says, and those among them that have yet to report it are   *)
(* what reconnects is behind.                                              *)
(***************************************************************************)
EXTENDS Connection, FiniteSetTheorems, TLAPS

Counted == {n \in Connection : up[n] \in {"again", "subscribe", "done", "failed"}}
Again   == {n \in Connection : up[n] = "again"}

Begun == \A n \in Connection : up[n] = "none" <=> n > made

\* What of TypeOK does not follow from the counting.
Typed ==
  /\ link \in BOOLEAN
  /\ made \in 0 .. MaxConnections
  /\ granted \in SUBSET Filter
  /\ run \in {"waiting", "flag", "gauge", "disconnecting"}
  /\ up \in [Connection ->
       {"none", "flag", "gauge", "count", "again", "subscribe", "done", "failed"}]
  /\ down \in [0 .. MaxConnections -> {"none", "flag", "gauge"}]
  /\ connected \in BOOLEAN /\ seen \in BOOLEAN /\ gauge \in BOOLEAN /\ late \in BOOLEAN
  /\ connections \in Nat /\ reconnects \in Nat

expected == IF connections = 0 THEN 0 ELSE connections - 1

Counts ==
  /\ connections = Cardinality(Counted)
  /\ reconnects + Cardinality(Again) = expected

-----------------------------------------------------------------------------
(***************************************************************************)
(* Types.                                                                  *)
(***************************************************************************)
LEMMA InitTyped == Init => Typed /\ Begun
<1> SUFFICES ASSUME Init PROVE Typed /\ Begun
  OBVIOUS
<1>1. made \in 0 .. MaxConnections /\ connections \in Nat /\ reconnects \in Nat
  BY ConnectionAssumption DEF Init
<1>2. Begun
  BY ConnectionAssumption DEF Init, Begun, Connection
<1>3. /\ link \in BOOLEAN /\ granted \in SUBSET Filter
      /\ connected \in BOOLEAN /\ seen \in BOOLEAN /\ gauge \in BOOLEAN /\ late \in BOOLEAN
  BY DEF Init
<1>4. /\ run \in {"waiting", "flag", "gauge", "disconnecting"}
      /\ down \in [0 .. MaxConnections -> {"none", "flag", "gauge"}]
      /\ up \in [Connection ->
           {"none", "flag", "gauge", "count", "again", "subscribe", "done", "failed"}]
  BY DEF Init
<1> QED BY <1>1, <1>2, <1>3, <1>4 DEF Typed

LEMMA CallTyped ==
  ASSUME Typed, NEW n \in Connection, UpStep(n)
  PROVE  Typed'
<1>1. CASE UpConnected(n)
  <2>1. connected' \in BOOLEAN /\ gauge' \in BOOLEAN /\ seen' \in BOOLEAN
    BY <1>1 DEF UpConnected, Typed, storeFlag, storeGauge
  <2>2. goes(n, "gauge") \/ goes(n, "count")
    BY <1>1 DEF UpConnected
  <2>3. UNCHANGED <<library, run, down, late, counted>>
    BY <1>1 DEF UpConnected
  <2> QED BY <2>1, <2>2, <2>3 DEF Typed, goes, library, counted
<1>2. CASE UpCounts(n)
  BY <1>2 DEF UpCounts, Typed, goes, library, observed
<1>3. CASE UpReconnected(n)
  BY <1>3 DEF UpReconnected, Typed, goes, library, observed
<1>4. CASE UpSubscribes(n)
  <2>1. granted' \in SUBSET Filter
    BY <1>4, ConnectionAssumption DEF UpSubscribes, Typed
  <2> QED BY <1>4, <2>1 DEF UpSubscribes, Typed, goes, observed, counted
<1> QED BY <1>1, <1>2, <1>3, <1>4 DEF UpStep

LEMMA DownTyped ==
  ASSUME Typed, NEW n \in 0 .. MaxConnections, Down(n)
  PROVE  Typed'
<1>1. late' \in BOOLEAN
  BY DEF Down, Typed
<1> QED BY <1>1 DEF Down, Typed, storeFlag, storeGauge, library, counted

LEMMA LibraryTyped ==
  ASSUME Typed, Connect \/ ConnectFails \/ Breaks \/ Closes \/ Dispatch \/ Leave
  PROVE  Typed'
<1>1. CASE Connect
  <2>1. made' \in 0 .. MaxConnections /\ made' = made + 1
    BY <1>1, ConnectionAssumption DEF Connect, Typed
  <2> QED BY <1>1, <2>1 DEF Connect, Typed, observed, counted
<1>2. CASE ConnectFails
  BY <1>2 DEF ConnectFails, Typed, library, observed, counted
<1>3. CASE Breaks
  BY <1>3 DEF Breaks, Typed, observed, counted
<1>4. CASE Closes
  BY <1>4 DEF Closes, Typed, observed, counted
<1>5. CASE Dispatch
  BY <1>5 DEF Dispatch, Typed, library, observed, counted
<1>6. CASE Leave
  BY <1>6 DEF Leave, Typed, observed, counted
<1> QED BY <1>1, <1>2, <1>3, <1>4, <1>5, <1>6

LEMMA TypedStep == Typed /\ [Next]_vars => Typed'
<1> SUFFICES ASSUME Typed, [Next]_vars PROVE Typed'
  OBVIOUS
<1>1. CASE \E n \in Connection : UpStep(n)
  BY <1>1, CallTyped
<1>2. CASE \E n \in 0 .. MaxConnections : Down(n)
  BY <1>2, DownTyped
<1>3. CASE Connect \/ ConnectFails \/ Breaks \/ Closes \/ Dispatch \/ Leave
  BY <1>3, LibraryTyped
<1>4. CASE CtxDone
  BY <1>4 DEF CtxDone, Typed, library, observed, counted
<1>5. CASE RunEnds
  BY <1>5 DEF RunEnds, Typed, library, counted
<1>6. CASE UNCHANGED vars
  BY <1>6 DEF vars, Typed, library, observed, counted
<1> QED BY <1>1, <1>2, <1>3, <1>4, <1>5, <1>6 DEF Next

-----------------------------------------------------------------------------
(***************************************************************************)
(* A call has been made for every connection, and for no other.            *)
(***************************************************************************)
UpUnchanged == UNCHANGED <<made, up, counted>>

LEMMA QuietSteps ==
  ASSUME [Next]_vars
  PROVE  UpUnchanged \/ Connect \/ \E n \in Connection : UpStep(n)
<1>1. CASE ConnectFails \/ Breaks \/ Closes \/ Dispatch \/ Leave
  BY <1>1 DEF UpUnchanged, ConnectFails, Breaks, Closes, Dispatch, Leave, library
<1>2. CASE \E n \in 0 .. MaxConnections : Down(n)
  BY <1>2 DEF UpUnchanged, Down, library
<1>3. CASE CtxDone \/ RunEnds
  BY <1>3 DEF UpUnchanged, CtxDone, RunEnds, library
<1>4. CASE UNCHANGED vars
  BY <1>4 DEF UpUnchanged, vars, library
<1> QED BY <1>1, <1>2, <1>3, <1>4 DEF Next

LEMMA BegunStep == Typed /\ Begun /\ [Next]_vars => Begun'
<1> SUFFICES ASSUME Typed, Begun, [Next]_vars PROVE Begun'
  OBVIOUS
<1>1. CASE UpUnchanged
  BY <1>1 DEF UpUnchanged, Begun
<1>2. CASE Connect
  BY <1>2, ConnectionAssumption DEF Connect, Typed, Begun, Connection
<1>3. ASSUME NEW n \in Connection, UpStep(n)
      PROVE  Begun'
  <2>1. made' = made /\ up[n] # "none"
    BY <1>3 DEF UpStep, UpConnected, UpCounts, UpReconnected, UpSubscribes, library
  <2>2. \E to \in {"gauge", "count", "again", "subscribe", "done", "failed"} : goes(n, to)
    BY <1>3 DEF UpStep, UpConnected, UpCounts, UpReconnected, UpSubscribes
  <2> QED BY <2>1, <2>2 DEF goes, Typed, Begun
<1> QED BY <1>1, <1>2, <1>3, QuietSteps

-----------------------------------------------------------------------------
(***************************************************************************)
(* The counting.                                                           *)
(***************************************************************************)
LEMMA FiniteSets ==
  /\ IsFiniteSet(Connection)
  /\ IsFiniteSet(Counted) /\ Cardinality(Counted) \in Nat
  /\ IsFiniteSet(Again) /\ Cardinality(Again) \in Nat
<1>1. IsFiniteSet(Connection)
  BY FS_Interval, ConnectionAssumption DEF Connection
<1>2. Counted \in SUBSET Connection /\ Again \in SUBSET Connection
  BY DEF Counted, Again
<1> QED BY <1>1, <1>2, FS_Subset, FS_CardinalityType

LEMMA InitCounts == Init => Counts
<1> SUFFICES ASSUME Init PROVE Counts
  OBVIOUS
<1>1. Counted = {} /\ Again = {}
  BY DEF Init, Counted, Again
<1> QED BY <1>1, FS_EmptySet DEF Init, Counts, expected

LEMMA SameCounts ==
  ASSUME Counts, Counted' = Counted, Again' = Again, UNCHANGED counted
  PROVE  Counts'
BY DEF Counts, expected, counted

LEMMA CountStep ==
  ASSUME Typed, Counts, NEW n \in Connection, UpCounts(n)
  PROVE  Counts'
<1>1. n \notin Counted /\ n \notin Again
  BY DEF UpCounts, Counted, Again
<1>2. Counted' = Counted \cup {n}
  BY DEF UpCounts, goes, Typed, Counted
<1>3. Cardinality(Counted') = Cardinality(Counted) + 1
  BY <1>1, <1>2, FiniteSets, FS_AddElement
<1>4. connections' = connections + 1 /\ reconnects' = reconnects
  BY DEF UpCounts
<1>5. CASE connections = 0
  <2>1. Again' = Again
    BY <1>4, <1>5 DEF UpCounts, goes, Typed, Again
  <2> QED BY <1>3, <1>4, <1>5, <2>1, FiniteSets DEF Counts, expected, Typed
<1>6. CASE connections # 0
  <2>1. connections' > 1
    BY <1>4, <1>6 DEF Typed
  <2>2. Again' = Again \cup {n}
    BY <2>1 DEF UpCounts, goes, Typed, Again
  <2>3. Cardinality(Again') = Cardinality(Again) + 1
    BY <1>1, <2>2, FiniteSets, FS_AddElement
  <2> QED BY <1>3, <1>4, <1>6, <2>3, FiniteSets DEF Counts, expected, Typed
<1> QED BY <1>5, <1>6

LEMMA ReportStep ==
  ASSUME Typed, Counts, NEW n \in Connection, UpReconnected(n)
  PROVE  Counts'
<1>1. n \in Again /\ Again' = Again \ {n}
  BY DEF UpReconnected, goes, Typed, Again
<1>2. Cardinality(Again') = Cardinality(Again) - 1
  BY <1>1, FiniteSets, FS_RemoveElement
<1>3. Counted' = Counted
  BY DEF UpReconnected, goes, Typed, Counted
<1>4. reconnects' = reconnects + 1 /\ connections' = connections
  BY DEF UpReconnected
<1> QED BY <1>2, <1>3, <1>4, FiniteSets DEF Counts, expected, Typed

LEMMA CountsStep == Typed /\ Begun /\ Counts /\ [Next]_vars => Counts'
<1> SUFFICES ASSUME Typed, Begun, Counts, [Next]_vars PROVE Counts'
  OBVIOUS
<1>1. CASE UpUnchanged
  <2>1. Counted' = Counted /\ Again' = Again
    BY <1>1 DEF UpUnchanged, Counted, Again
  <2> QED BY <1>1, <2>1, SameCounts DEF UpUnchanged
<1>2. CASE Connect
  <2>1. made + 1 \in Connection /\ up[made + 1] = "none"
    BY <1>2, ConnectionAssumption DEF Connect, Typed, Begun, Connection
  <2>2. Counted' = Counted /\ Again' = Again
    BY <1>2, <2>1 DEF Connect, Typed, Counted, Again
  <2> QED BY <1>2, <2>2, SameCounts DEF Connect
<1>3. ASSUME NEW n \in Connection, UpConnected(n) \/ UpSubscribes(n)
      PROVE  Counts'
  <2>1. Counted' = Counted /\ Again' = Again
    BY <1>3 DEF UpConnected, UpSubscribes, goes, Typed, Counted, Again
  <2>2. UNCHANGED counted
    BY <1>3 DEF UpConnected, UpSubscribes
  <2> QED BY <2>1, <2>2, SameCounts
<1> QED BY <1>1, <1>2, <1>3, QuietSteps, CountStep, ReportStep DEF UpStep

-----------------------------------------------------------------------------
(***************************************************************************)
(* No more is counted than there were connections.                         *)
(***************************************************************************)
LEMMA CountsBounded ==
  ASSUME Typed, Begun, Counts
  PROVE  TypeOK
<1>1. Counted \in SUBSET (1 .. made)
  BY ConnectionAssumption DEF Typed, Begun, Counted, Connection
<1>2. IsFiniteSet(1 .. made) /\ Cardinality(1 .. made) = made
  BY FS_Interval DEF Typed
<1>3. connections <= made
  BY <1>1, <1>2, FS_Subset DEF Counts
<1>4. reconnects <= made
  BY <1>3, FiniteSets DEF Counts, expected, Typed
<1>5. connections \in 0 .. made /\ reconnects \in 0 .. made
  BY <1>3, <1>4 DEF Typed
<1> QED BY <1>5 DEF Typed, TypeOK

LEMMA CountsAreUps ==
  ASSUME Typed, Begun, Counts
  PROVE  ReconnectsAreUps
<1> SUFFICES ASSUME \A n \in Connection : up[n] \in {"none", "subscribe", "done", "failed"}
             PROVE  reconnects = IF made = 0 THEN 0 ELSE made - 1
  BY DEF ReconnectsAreUps
<1>1. Again = {} /\ Cardinality(Again) = 0
  BY FS_EmptySet DEF Again
<1>2. Counted = 1 .. made
  BY ConnectionAssumption DEF Typed, Begun, Counted, Connection
<1>3. Cardinality(1 .. made) = made
  BY FS_Interval DEF Typed
<1> QED BY <1>1, <1>2, <1>3 DEF Counts, expected, Typed

(***************************************************************************)
(* The types of Connection, for any number of connections.                 *)
(***************************************************************************)
THEOREM TypeCorrect == Spec => []TypeOK
<1> QED BY InitTyped, InitCounts, TypedStep, BegunStep, CountsStep, CountsBounded, PTL
        DEF Spec

(***************************************************************************)
(* mqtt2prom_mqtt_reconnects_total is one less than the connections made,  *)
(* as soon as their calls have counted, however they interleave.           *)
(***************************************************************************)
THEOREM CountIsRight == Spec => []ReconnectsAreUps
<1> QED BY InitTyped, InitCounts, TypedStep, BegunStep, CountsStep, CountsAreUps, PTL
        DEF Spec
=============================================================================
