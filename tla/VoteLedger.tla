----------------------------- MODULE VoteLedger -----------------------------
(***************************************************************************)
(* Producer registry and voting of besio.platform (voting.cpp):           *)
(* regproducer, unregprod and voteproducer with voteage accrual.           *)
(*                                                                         *)
(* regproducer's url, key and location are abstracted away: an oversized *)
(* url or a default key only makes the action abort, and a registered     *)
(* producer always has a non-default key until unregprod clears it        *)
(* together with is_active.                                                *)
(***************************************************************************)
EXTENDS RewardDistributor

(* The decrease check of regproducer (lines 54-58).  adjustment_rate is    *)
(* (commission_rate - prod->commission_rate) / prod->commission_rate with  *)
(* the subtraction done in uint32_t, so a decrease wraps to                *)
(* new - old + 2^32.  The check 10000 * wrapped <= 5 * old is evaluated    *)
(* as r >= 10000 * 2^32 with r = 5 * old + 10000 * (old - new), in steps  *)
(* that stay below 2^31.                                                    *)
CommissionDecreaseAllowed(old, new) ==
  LET r == 5 * old + 10000 * (old - new)
  IN (r \div 10000) \div 4 >= 2^30

(* regproducer of an account without a producer row (lines 80-91); the    *)
(* int128 total_voteage is left uninitialised by the constructor.          *)
RegisterProducer(p, rate) ==
  /\ p \notin producers
  /\ \E tv \in UninitVoteage :
       prod' = [prod EXCEPT ![p] = [NoProducer EXCEPT !.active = TRUE,
                                       !.rate = rate, !.lastAdj = now,
                                       !.voteage = tv, !.upd = now]]
  /\ producers' = producers \cup {p}
  /\ UNCHANGED <<now, balance, stakeVars, voterVars, gs, schedule>>

(* regproducer of a producer keeping its commission rate (lines 71-78).   *)
UpdateProducer(p) ==
  /\ p \in producers
  /\ prod' = [prod EXCEPT ![p].active = TRUE]
  /\ UNCHANGED <<now, balance, stakeVars, voterVars, producers, gs, schedule>>

(* regproducer of a producer changing its commission rate (lines 49-70):  *)
(* at most once per adjustment period, decreases rate-limited, rewards     *)
(* distributed first at the old rate.                                      *)
ChangeCommissionRateFirst(p, rate) ==
  /\ p \in producers
  /\ rate # prod[p].rate
  /\ now - prod[p].lastAdj > CommissionPeriod
  /\ prod[p].rate > rate => CommissionDecreaseAllowed(prod[p].rate, rate)
  /\ DistributeOK(balance, gs, now)
  /\ LET d == Distribute(balance, [prod EXCEPT ![p].rate = rate], gs, now)
     IN /\ balance' = d.bal
        /\ gs' = d.gs
        /\ prod' = [d.prod EXCEPT ![p].active = TRUE, ![p].lastAdj = now]
  /\ UNCHANGED <<now, stakeVars, voterVars, producers, schedule>>
ChangeCommission(p, rate) ==
  /\ p \in producers
  /\ rate # prod[p].rate
  /\ now - prod[p].lastAdj > CommissionPeriod
  /\ prod[p].rate > rate => CommissionDecreaseAllowed(prod[p].rate, rate)
  /\ DistributeOK(balance, gs, now)
  /\ LET d == Distribute(balance, prod, gs, now)
     IN /\ balance' = d.bal
        /\ gs' = d.gs
        /\ prod' = [d.prod EXCEPT ![p].active = TRUE, ![p].rate = rate,
                                  ![p].lastAdj = now]
  /\ UNCHANGED <<now, stakeVars, voterVars, producers, schedule>>

(* platform_contract::unregprod (lines 94-106).                            *)
UnregProd(p) ==
  /\ p \in producers
  /\ DistributeOK(balance, gs, now)
  /\ LET d == Distribute(balance, prod, gs, now)
     IN /\ balance' = d.bal
        /\ gs' = d.gs
        /\ prod' = [d.prod EXCEPT ![p].active = FALSE]
  /\ UNCHANGED <<now, stakeVars, voterVars, producers, schedule>>

(* change_votes of voteproducer (lines 154-168): the whole vote for a new *)
(* row, the difference for an existing one.                                *)
VoteChangeWhole(v, p, n) == n
VoteChange(v, p, n) ==
  IF votes[v][p].num = 0 THEN n ELSE n - votes[v][p].num

(* The two staked-balance checks of voteproducer (lines 149 and 168).     *)
VoteFundedIfChanged(v, p, n) ==
  votes[v][p].num > 0 => VoteChange(v, p, n) <= staked[v]
VoteFunded(v, p, n) ==
  /\ n <= staked[v]
  /\ votes[v][p].num > 0 => VoteChange(v, p, n) <= staked[v]

(* platform_contract::voteproducer (lines 140-193): sets the vote of v for *)
(* p to n, moving the difference between staked balance and vote, and     *)
(* accrues the voteage of the vote row and of the producer first.          *)
VoteProducer(v, p, n) ==
  LET old    == votes[v][p]
      change == VoteChange(v, p, n)
      tav    == gs.tav + change
  IN /\ v \in voters
     /\ VoteFunded(v, p, n)
     /\ p \in producers
     /\ votes' = [votes EXCEPT ![v][p] =
                    [num |-> n, upd |-> now,
                     voteage |-> IF old.num = 0 THEN 0
                                 ELSE old.voteage + Accrued(old.num, old.upd)]]
     /\ staked' = [staked EXCEPT ![v] = @ - change]
     /\ prod' = [prod EXCEPT ![p].voteage = @ + Accrued(prod[p].votes, prod[p].upd),
                             ![p].upd = now,
                             ![p].votes = @ + change]
     /\ gs' = [gs EXCEPT !.tav = tav,
                         !.thresh = IF tav >= MinActivatedVotes /\ @ = 0
                                    THEN now ELSE @]
     /\ UNCHANGED <<now, balance, stakeVars, voters, lastClaim, producers,
                    schedule>>
=============================================================================
