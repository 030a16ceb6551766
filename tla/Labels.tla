------------------------------- MODULE Labels -------------------------------
(***************************************************************************)
(* internal/config/labels.go: which labels the samples of a rule carry.    *)
(*                                                                         *)
(* A declared label is a record whose field refs holds the names that its  *)
(* template refers to ({name} in a static value); labels are functions     *)
(* from names to such records.                                             *)
(***************************************************************************)

(***************************************************************************)
(* The labels of a rule win over those of its source.                      *)
(***************************************************************************)
Merge(ruleLabels, sourceLabels) ==
  [name \in DOMAIN ruleLabels \cup DOMAIN sourceLabels |->
     IF name \in DOMAIN ruleLabels THEN ruleLabels[name] ELSE sourceLabels[name]]

Consumed(labels) == UNION {labels[name].refs : name \in DOMAIN labels}

(***************************************************************************)
(* Every declared label, and every capture group no template refers to.    *)
(***************************************************************************)
LabelNames(captures, labelSets) ==
  (captures \ UNION {Consumed(labels) : labels \in labelSets})
    \cup UNION {DOMAIN labels : labels \in labelSets}
=============================================================================
