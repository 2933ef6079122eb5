---------------------------- MODULE MC_Pipeline ----------------------------
(***************************************************************************)
(* A graph driven by one user thread:                                      *)
(*   A, B --> X --> C        A --> W --> C                                 *)
(* X joins A and B; C has two producers, X and W, and completes through    *)
(* producerFinished; A completes when its expectedSize (2) is reached or   *)
(* when the driver calls setCompleted.  S, a plain AppDROP, streams A and  *)
(* C.  X's run() writes C once; W's run() writes nothing.                  *)
(***************************************************************************)
EXTENDS DropExecution

CONSTANTS A, B, C, X, W, S, main

MCDrops   == {A, B, C}
MCApps    == {X, W}
MCDrivers == {main}
MCInputs  == [a \in MCApps |-> IF a = X THEN {A, B} ELSE {A}]
MCOutputs == [a \in MCApps |-> {C}]
MCStreamApps == {S}
MCStreamingConsumers == [d \in MCDrops |-> IF d \in {A, C} THEN {S} ELSE {}]
MCExpectedSize == [d \in MCDrops |-> IF d = A THEN 2 ELSE -1]
MCRunWrites == [a \in MCApps |-> IF a = X THEN 1 ELSE 0]
=============================================================================
