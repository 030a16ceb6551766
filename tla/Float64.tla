------------------------------ MODULE Float64 ------------------------------
(***************************************************************************)
(* The part of Go's float64 the sample store depends on: an ordered set of *)
(* numbers, the two infinities and the value that is not a number.         *)
(* Rounding is left out: the numbers are the integers.                     *)
(*                                                                         *)
(* The special values do reach the store: strconv.ParseFloat, with which   *)
(* internal/rules/value.go reads a payload, accepts "NaN" and "Inf".       *)
(***************************************************************************)
EXTENDS Integers

CONSTANTS NaN, PosInf, NegInf

ASSUME FloatAssumption ==
  /\ NaN \notin Int /\ PosInf \notin Int /\ NegInf \notin Int
  /\ NaN # PosInf /\ NaN # NegInf /\ PosInf # NegInf

Float == Int \cup {NaN, PosInf, NegInf}

(***************************************************************************)
(* a < b: false as soon as one side is NaN.                                *)
(***************************************************************************)
Less(a, b) ==
  /\ NaN \notin {a, b}
  /\ \/ a = NegInf /\ b # NegInf
     \/ b = PosInf /\ a # PosInf
     \/ a \in Int /\ b \in Int /\ a < b

(***************************************************************************)
(* a + b: NaN absorbs, opposite infinities cancel to NaN, one infinity     *)
(* absorbs every number.                                                   *)
(***************************************************************************)
Plus(a, b) ==
  IF NaN \in {a, b} \/ {a, b} = {PosInf, NegInf} THEN NaN
  ELSE IF PosInf \in {a, b} THEN PosInf
  ELSE IF NegInf \in {a, b} THEN NegInf
  ELSE a + b
=============================================================================
