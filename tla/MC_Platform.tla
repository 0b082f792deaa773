----------------------------- MODULE MC_Platform -----------------------------
(***************************************************************************)
(* Model-checking instance of Platform.  Durations are given in ticks by  *)
(* the .cfg files, scaled down so that refunds, claims, distributions and *)
(* commission changes all fall within MaxTime; where voteage matters,      *)
(* voteage_basis is 2 ticks so that a vote can sit between two voteage     *)
(* boundaries and the flooring of elapsed time shows.                      *)
(***************************************************************************)
EXTENDS Platform, TLC

CONSTANTS a1, a2, besioStake, besioRpay, besio

(* Both accounts can stake one net and one cpu token.                      *)
MCRewardBalance == (a1 :> 2) @@ (a2 :> 2)
(* a1 stakes two tokens, votes one, and keeps one to delegate to a2.     *)
MCStakerBalance == (a1 :> 3) @@ (a2 :> 0)

(* a1 alone, with one token: it stakes it, registers, votes for itself.   *)
MCSoloBalance == (a1 :> 1) @@ (a2 :> 0)

(* a1 alone stakes: two tokens, one vote for each of two producers.      *)
MCTwoProducerBalance == (a1 :> 2) @@ (a2 :> 0)

(* a1 stakes four tokens, so that it can vote two and lower the vote to   *)
(* one with stake still free.                                              *)
MCLatchBalance == (a1 :> 4) @@ (a2 :> 0)
=============================================================================
