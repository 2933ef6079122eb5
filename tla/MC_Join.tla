------------------------------ MODULE MC_Join ------------------------------
(***************************************************************************)
(* Two branches joined by a barrier, their outputs completed on the two    *)
(* execute threads of X and Y:                                             *)
(*   A --> X --> C,   B --> Y --> E,   C, E --> Z --> F                    *)
(***************************************************************************)
EXTENDS DropExecution

CONSTANTS A, B, C, E, F, X, Y, Z, main

MCDrops   == {A, B, C, E, F}
MCApps    == {X, Y, Z}
MCDrivers == {main}
MCInputs  == [a \in MCApps |-> CASE a = X -> {A} [] a = Y -> {B} [] a = Z -> {C, E}]
MCOutputs == [a \in MCApps |-> CASE a = X -> {C} [] a = Y -> {E} [] a = Z -> {F}]
MCStreamApps == {}
MCStreamingConsumers == [d \in MCDrops |-> {}]
MCExpectedSize == [d \in MCDrops |-> -1]
MCRunWrites == [a \in MCApps |-> 0]
=============================================================================
