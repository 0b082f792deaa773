---------------------------- MODULE MC_RamMarket ----------------------------
(***************************************************************************)
(* Model-checking instance of RamMarket.  One tick is one penalty period   *)
(* (a day), so the punitive fee can apply seven ticks after a warning.     *)
(***************************************************************************)
EXTENDS RamMarket, TLC

CONSTANTS a1, a2, besioRam, besioRamfee

MCInitBalance == (a1 :> 500) @@ (a2 :> 0)
====
