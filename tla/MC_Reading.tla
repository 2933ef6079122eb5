---------------------------- MODULE MC_Reading ----------------------------
(***************************************************************************)
(* Readers on one DROP that a writer thread writes (or only completes) and *)
(* user threads that set its size and checksum.                            *)
(***************************************************************************)
EXTENDS DropReading

CONSTANTS r1, r2, r3, w1, c1, s1, s2, s3, userChecksum

MCSetterAttr == [s \in {s1, s2, s3} |-> CASE s = s1 -> "size" [] s = s2 -> "checksum" [] OTHER -> "checksumType"]
=============================================================================
