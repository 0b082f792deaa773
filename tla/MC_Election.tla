----------------------------- MODULE MC_Election -----------------------------
(***************************************************************************)
(* Model-checking instance of Platform for the election: three candidates *)
(* and two schedule seats, so that the size hysteresis of                  *)
(* update_elected_producers keeps a schedule of two while only one         *)
(* producer is eligible.  One voter funds every vote.                     *)
(***************************************************************************)
EXTENDS Platform, TLC

CONSTANTS a1, a2, a3, besioStake, besioRpay, besio

(* a1 stakes four tokens in two delegations and votes one for each         *)
(* candidate; the others hold nothing.                                     *)
MCElectionBalance == (a1 :> 4) @@ (a2 :> 0) @@ (a3 :> 0)
=============================================================================
