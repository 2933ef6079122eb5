--------------------------- MODULE MC_TwoDrivers ---------------------------
(***************************************************************************)
(* Two user threads share the sources of a barrier: one writes A while the *)
(* other may call setCompleted on it, as the setCompleted docstring allows *)
(* ("when not all the expected data has arrived").                         *)
(*   A, B --> X --> C                                                      *)
(* S, a plain AppDROP, is a streaming consumer of A.                       *)
(***************************************************************************)
EXTENDS DropExecution

CONSTANTS A, B, C, X, S, writer, completer

MCDrops   == {A, B, C}
MCApps    == {X}
MCDrivers == {writer, completer}
MCInputs  == [a \in MCApps |-> {A, B}]
MCOutputs == [a \in MCApps |-> {C}]
MCStreamApps == {S}
MCStreamingConsumers == [d \in MCDrops |-> IF d = A THEN {S} ELSE {}]
MCExpectedSize == [d \in MCDrops |-> -1]
MCRunWrites == [a \in MCApps |-> 0]
=============================================================================
