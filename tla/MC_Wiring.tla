----------------------------- MODULE MC_Wiring -----------------------------
(***************************************************************************)
(* Two data DROPs, one of them EXTERNAL, a BarrierAppDROP b and a plain    *)
(* AppDROP p; the builder makes any sequence of wiring calls among them.   *)
(***************************************************************************)
EXTENDS DropWiring

CONSTANTS d1, d2, b, p

MCDrops    == {d1, d2}
MCApps     == {b, p}
MCBarriers == {b}
MCExternal == {d2}
=============================================================================
