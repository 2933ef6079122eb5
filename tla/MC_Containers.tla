--------------------------- MODULE MC_Containers ---------------------------
(***************************************************************************)
(* Three ContainerDROPs k1, k2, k3 (the fewest that close a cycle past    *)
(* addChild's direct-parent check), a DirectoryContainer d whose directory *)
(* holds the file of f2 (not that of f1), and two FileDROPs f1 and f2.     *)
(***************************************************************************)
EXTENDS Containers

CONSTANTS k1, k2, k3, d, f1, f2

MCContainers == {k1, k2, k3, d}
MCDirs       == {d}
MCFiles      == {f1, f2}
MCPathUnder  == [k \in MCDirs |-> {f2}]
=============================================================================
