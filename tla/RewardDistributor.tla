-------------------------- MODULE RewardDistributor --------------------------
(***************************************************************************)
(* Reward emission and claims of besio.platform (producer_pay.cpp):       *)
(* distribute_rewards, which mints into besio.rpay and splits the per-    *)
(* block and per-vote buckets over the active producers, and              *)
(* claimrewards, by which a producer takes its own balance and a voter    *)
(* takes a voteage-weighted share of a producer's voter balance.          *)
(*                                                                         *)
(* The code computes the per-vote pay and the voter share in double; the   *)
(* model uses exact integer division, i.e. the truncation the casts to     *)
(* int64_t perform on the exact quotient.                                  *)
(***************************************************************************)
EXTENDS ResourceLedger

(* new_tokens for an elapsed time: continuous_rate * supply * elapsed /    *)
(* useconds_per_year.  The supply is read from the token contract and the  *)
(* reward transfer from besio does not change it, so emission is linear    *)
(* in the elapsed time.                                                     *)
NewTokens(elapsed) == MintPerTick * elapsed

(* distribute_rewards_task (lines 125-132): onblock distributes only once *)
(* distribute_rewards_preiod has passed since the last fill, and not      *)
(* before the first fill has started the presses.                          *)
DistributeRewardsTask(g, t) == t - g.lastFill >= DistributePeriod /\ g.lastFill > 0

(* distribute_rewards would not abort: the chain is activated and the     *)
(* transfer of new tokens from besio to besio.rpay succeeds.               *)
DistributeOK(b, g, t) ==
  /\ g.tav >= MinActivatedVotes
  /\ g.lastFill > 0 => CanTransfer(b, SysAcct, NewTokens(t - g.lastFill))

(* The producer row after it is paid (lines 200-206): unpaid blocks      *)
(* cleared, the voters' share and the producer's remainder credited.       *)
PayProducerKeepUnpaid(row, all, toVoters) ==
  [row EXCEPT !.votersBal = @ + toVoters, !.prodBal = @ + all - toVoters]
PayProducerWhole(row, all, toVoters) ==
  [row EXCEPT !.unpaid = 0, !.votersBal = @ + toVoters, !.prodBal = @ + all]
PayProducer(row, all, toVoters) ==
  [row EXCEPT !.unpaid = 0, !.votersBal = @ + toVoters,
              !.prodBal = @ + all - toVoters]

(* A producer's pay from a bucket (lines 179-186): its part of the whole, *)
(* truncated, so the remainder stays in the bucket; nothing when the       *)
(* whole is 0 (per_block_pay with no unpaid blocks).                       *)
ShareRoundedUp(bucket, part, whole) ==
  IF whole > 0 THEN (bucket * part + whole - 1) \div whole ELSE 0
Share(bucket, part, whole) ==
  IF whole > 0 THEN (bucket * part) \div whole ELSE 0

(* platform_contract::distribute_rewards (lines 134-220) applied to token  *)
(* balances b, producer rows pr and global state g at time t; returns the  *)
(* new balances, producer rows and global state.                           *)
Distribute(b, pr, g, t) ==
  LET new  == NewTokens(t - g.lastFill)
      pb   == g.perblock + new \div 2
      pv   == g.pervote + (new - new \div 2)
      act  == {p \in producers : pr[p].active}
      BlockPay(p) == Share(pb, pr[p].unpaid, g.unpaid)
      VotePay(p)  == Share(pv, pr[p].votes, g.tav)
      AllPay(p)   == BlockPay(p) + VotePay(p)
      ToVoters(p) == (AllPay(p) * pr[p].rate) \div 10000
      Paid(p) == PayProducer(pr[p], AllPay(p), ToVoters(p))
  IN IF g.lastFill = 0
     THEN [bal |-> b, prod |-> pr, gs |-> g]
     ELSE [bal  |-> Transfer(b, SysAcct, RPayAcct, new),
           prod |-> [p \in Accounts |-> IF p \in act THEN Paid(p) ELSE pr[p]],
           gs   |-> [g EXCEPT
                       !.perblock = pb - Sum(act, BlockPay),
                       !.pervote  = pv - Sum(act, VotePay),
                       !.unpaid   = @ - Sum(act, LAMBDA p : pr[p].unpaid),
                       !.lastFill = t]]

(* Up-to-date voteage of a vote row and of a producer (lines 97-98).       *)
NewestVoteage(v, p) == votes[v][p].voteage + Accrued(votes[v][p].num, votes[v][p].upd)
NewestTotalVoteage(p) == prod[p].voteage + Accrued(prod[p].votes, prod[p].upd)

ClaimAllowed(owner, p) ==
  /\ p \in producers
  /\ owner \in voters
  /\ Activated
  /\ now - lastClaim[owner] >= ClaimPeriod

(* claimrewards by the producer itself (lines 80-92): takes its whole      *)
(* producer balance; with a zero balance nothing happens.                  *)
ClaimProducerRewards(p) ==
  /\ ClaimAllowed(p, p)
  /\ prod[p].prodBal > 0
  /\ CanTransfer(balance, RPayAcct, prod[p].prodBal)
  /\ balance' = Transfer(balance, RPayAcct, p, prod[p].prodBal)
  /\ prod' = [prod EXCEPT ![p].prodBal = 0]
  /\ lastClaim' = [lastClaim EXCEPT ![p] = now]
  /\ UNCHANGED <<now, stakeVars, voters, staked, votes, producers, gs, schedule>>

(* claimrewards by a voter of p (lines 93-122): the share                  *)
(* votersBal * voteage / total voteage, after which the voter's voteage    *)
(* is consumed from the producer's total.                                  *)
ClaimVoterRewards(owner, p) ==
  LET vv     == NewestVoteage(owner, p)
      tv     == NewestTotalVoteage(p)
      reward == (prod[p].votersBal * vv) \div tv
  IN /\ ClaimAllowed(owner, p)
     /\ owner # p
     /\ votes[owner][p].num > 0
     /\ tv > 0
     /\ 0 <= reward /\ reward <= prod[p].votersBal
     /\ CanTransfer(balance, RPayAcct, reward)
     /\ balance' = Transfer(balance, RPayAcct, owner, reward)
     /\ lastClaim' = [lastClaim EXCEPT ![owner] = now]
     /\ votes' = [votes EXCEPT ![owner][p].voteage = 0, ![owner][p].upd = now]
     /\ prod' = [prod EXCEPT ![p].votersBal = @ - reward,
                             ![p].voteage = tv - vv,
                             ![p].upd = now]
     /\ UNCHANGED <<now, stakeVars, voters, staked, producers, gs, schedule>>
=============================================================================
