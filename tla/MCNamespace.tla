---------------------------- MODULE MCNamespace ----------------------------
(* Small instances of Namespace for TLC.                                   *)
EXTENDS Namespace, TLC

CONSTANTS a, b, p1, p2, p3

SomeModes == {[i \in {a} |-> "Stream"], [i \in {b} |-> "Stream"],
              [i \in {a, b} |-> "Batch"]}
BothModes == {a :> "Stream" @@ b :> "Batch"}
OneStream == {[i \in {a} |-> "Stream"]}
=============================================================================
