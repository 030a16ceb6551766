------------------------------ MODULE MCStore ------------------------------
(***************************************************************************)
(* Small instances of Store.                                               *)
(***************************************************************************)
EXTENDS Store

MCKindOf == [id \in Id |-> IF id = "temp" THEN Gauge ELSE Counter]
MCHelpOf == [id \in Id |-> "help"]

(***************************************************************************)
(* Two devices that send numbers, and one counter whose readings are now   *)
(* and then not a number, or infinite.                                     *)
(***************************************************************************)
Readings(odd) == [id \in Id |-> IF id = "odd" THEN 0 .. 2 \cup {odd} ELSE 0 .. 3]

WithNaN == Readings(NaN)
WithInf == Readings(PosInf)
=============================================================================
