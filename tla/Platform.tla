------------------------------ MODULE Platform ------------------------------
(***************************************************************************)
(* The besio.platform contract: staking, voting, rewards and election     *)
(* composed with the per-block hook onblock.  Every action is one whole   *)
(* contract action; an action that aborts (a failed besio_assert or a      *)
(* failed inline transfer) is a step that does not happen.                 *)
(***************************************************************************)
EXTENDS VoteLedger, ElectionScheduler

(* platform_contract::onblock (producer_pay.cpp 20-68) for a block of      *)
(* producer p.  due: the block is more than 120 slots after the last      *)
(* schedule update (the slot arithmetic is abstracted to a choice);        *)
(* top and accepted: the outcome of update_elected_producers.  The        *)
(* name-auction close at the end of onblock only touches namebids and      *)
(* last_name_close, which no other modelled action reads; bidname is not   *)
(* part of the source, so that branch is not modelled.                     *)
OnBlock(p, due, top, accepted) ==
  LET g1  == [gs EXCEPT !.lastFill = IF @ = 0 THEN now ELSE @,
                        !.unpaid = IF p \in producers THEN @ + 1 ELSE @]
      pr1 == IF p \in producers THEN [prod EXCEPT ![p].unpaid = @ + 1]
                                ELSE prod
      task == due /\ DistributeRewardsTask(g1, now)
      d    == IF task THEN Distribute(balance, pr1, g1, now)
                      ELSE [bal |-> balance, prod |-> pr1, gs |-> g1]
      e    == IF due THEN Elect(d.gs, top, accepted)
                     ELSE [gs |-> d.gs, sched |-> schedule]
  IN /\ Activated
     /\ p \in producers => gs.unpaid < MaxUnpaidBlocks
     /\ task => DistributeOK(balance, g1, now)
     /\ balance' = d.bal
     /\ prod' = d.prod
     /\ gs' = e.gs
     /\ schedule' = e.sched
     /\ UNCHANGED <<now, stakeVars, voterVars, producers>>

(* Accounts that produce blocks: any account, and besio itself, the      *)
(* initial producer that has no producer row (lines 33-36).                *)
BlockProducers == Accounts \cup {SysAcct}

Init == InitState

Next ==
  \/ \E f, r \in Accounts, net, cpu \in StakeAmounts, t \in BOOLEAN :
       DelegateBW(f, r, net, cpu, t)
  \/ \E f, r \in Accounts, net, cpu \in StakeAmounts : UndelegateBW(f, r, net, cpu)
  \/ \E a \in Accounts : Refund(a)
  \/ \E a \in Accounts : DeferredRefund(a)
  \/ \E p \in Candidates, rate \in CommissionRates : RegisterProducer(p, rate)
  \/ \E p \in Accounts : UpdateProducer(p)
  \/ \E p \in Accounts, rate \in CommissionRates : ChangeCommission(p, rate)
  \/ \E p \in Accounts : UnregProd(p)
  \/ \E v, p \in Accounts, n \in VoteAmounts : VoteProducer(v, p, n)
  \/ \E p \in Accounts : ClaimProducerRewards(p)
  \/ \E v, p \in Accounts : ClaimVoterRewards(v, p)
  \/ \E p \in BlockProducers : OnBlock(p, FALSE, {}, FALSE)
  \/ \E p \in BlockProducers, top \in TopProducers, accepted \in BOOLEAN :
       OnBlock(p, TRUE, top, accepted)
  \/ Tick

Spec == Init /\ [][Next]_vars

(* The host applies onblock at the start of every block, and every 120    *)
(* slots the election is due; set_proposed_producers accepts a proposal   *)
(* once no earlier one is pending.  An election that is possible again and *)
(* again (it is disabled while the chain is not activated) therefore       *)
(* eventually happens and is accepted: strong fairness.                    *)
FairSpec ==
  Spec /\ SF_vars(\E p \in BlockProducers, top \in TopProducers :
                      OnBlock(p, TRUE, top, TRUE))

-----------------------------------------------------------------------------
(* Every account, pool and table has the shape the code gives it.          *)
TypeOK ==
  /\ now \in 1..MaxTime
  /\ balance \in [Accounts \cup SystemAccounts -> Nat]
  /\ delband \in [Accounts -> [Accounts -> [net : Nat, cpu : Nat]]]
  /\ userres \in [Accounts -> [net : Nat, cpu : Nat]]
  /\ refunds \in [Accounts -> [net : Nat, cpu : Nat, time : Nat]]
  /\ deferred \in [Accounts -> Nat]
  /\ voters \subseteq Accounts /\ producers \subseteq Accounts
  /\ staked \in [Accounts -> Int] /\ lastClaim \in [Accounts -> Nat]
  /\ votes \in [Accounts -> [Accounts -> [num : Nat, voteage : Int, upd : Nat]]]
  /\ \A p \in Accounts : prod[p].active \in BOOLEAN
  /\ schedule \subseteq Accounts

(* Staked tokens are held by besio.stake: its balance is exactly the sum  *)
(* of all delegated net/cpu weights and all open refund requests, however *)
(* changebw drew refunds down, merged them, or created them.               *)
StakePoolBacked ==
  balance[StakeAcct] =
      Sum(Accounts \X Accounts, LAMBDA x : delband[x[1]][x[2]].net + delband[x[1]][x[2]].cpu)
    + Sum(Accounts, LAMBDA a : refunds[a].net + refunds[a].cpu)

(* The per-account totals in userres equal the sum of the delband rows     *)
(* delegated to that account, for net and for cpu (spec: stake             *)
(* conservation), whatever mix of transfer and undelegation happened.      *)
DelegationTotalsAgree ==
  \A r \in Accounts :
    /\ userres[r].net = Sum(Accounts, LAMBDA o : delband[o][r].net)
    /\ userres[r].cpu = Sum(Accounts, LAMBDA o : delband[o][r].cpu)

(* Every vote is backed by stake: the staked_balance left for voting plus  *)
(* the votes cast by an account equal what that account has delegated, and *)
(* the balance left is never negative, so undelegatebw never frees stake   *)
(* that backs a vote.                                                      *)
VotesBackedByStake ==
  \A v \in Accounts :
    /\ staked[v] >= 0
    /\ staked[v] + Sum(Accounts, LAMBDA p : votes[v][p].num)
         = Sum(Accounts, LAMBDA r : delband[v][r].net + delband[v][r].cpu)

(* total_activated_votes, the producers' total_votes and the vote rows     *)
(* count the same votes.                                                   *)
VoteTallyConsistent ==
  /\ \A p \in Accounts : prod[p].votes = Sum(Accounts, LAMBDA v : votes[v][p].num)
  /\ gs.tav = Sum(Accounts, LAMBDA p : prod[p].votes)

(* besio.rpay holds exactly the undistributed buckets plus the producer    *)
(* and voter balances not yet claimed, and none of them is negative:       *)
(* rounding dust of distribute_rewards stays in a bucket and claims never  *)
(* pay more than was credited.                                             *)
RewardPoolSolvent ==
  /\ gs.perblock >= 0 /\ gs.pervote >= 0
  /\ \A p \in Accounts : prod[p].prodBal >= 0 /\ prod[p].votersBal >= 0
  /\ balance[RPayAcct] = gs.perblock + gs.pervote
                         + Sum(Accounts, LAMBDA p : prod[p].prodBal + prod[p].votersBal)

(* total_unpaid_blocks counts exactly the unpaid blocks of the producers,  *)
(* including the inactive producers distribute_rewards skips.              *)
UnpaidBlocksAccounted ==
  gs.unpaid = Sum(Accounts, LAMBDA p : prod[p].unpaid)

(* A commission change first distributes at the rate in force (regproducer *)
(* calls distribute_rewards before it modifies the row, voting.cpp 60-69): *)
(* in the step that changes a producer's rate, the rewards credited to it  *)
(* are split between voters and producer at the old rate.                 *)
CommissionChangeSplitsAtOldRate ==
  [][\A p \in producers :
       prod'[p].rate # prod[p].rate =>
         LET paid == (prod'[p].votersBal + prod'[p].prodBal)
                       - (prod[p].votersBal + prod[p].prodBal)
         IN prod'[p].votersBal - prod[p].votersBal = (paid * prod[p].rate) \div 10000]_vars

(* Election hysteresis (voting.cpp 120-122) keeps the last schedule only  *)
(* while fewer producers are eligible than it had: once enough are        *)
(* eligible, a producer that unregistered leaves the proposed schedule,   *)
(* unless it registers again or eligibility drops first.                  *)
UnregisteredLeavesSchedule ==
  \A p \in Accounts :
    (p \in schedule /\ ~prod[p].active /\ Cardinality(Eligible) >= gs.schedSize)
      ~> (p \notin schedule \/ prod[p].active \/ Cardinality(Eligible) < gs.schedSize)

(* The staking tables seen as the abstract stake ledger: an account's     *)
(* bonded tokens are its delband rows (whoever paid for them), its         *)
(* unbonding tokens and wait are its refund row, its liquid tokens its     *)
(* token balance.                                                          *)
Ledger == INSTANCE StakeLedger WITH
  Holders   <- Accounts,
  Delay     <- RefundDelay,
  liquid    <- [a \in Accounts |-> balance[a]],
  bonded    <- [a \in Accounts |-> Sum(Accounts, LAMBDA r : delband[a][r].net + delband[a][r].cpu)],
  unbonding <- [a \in Accounts |-> refunds[a].net + refunds[a].cpu],
  since     <- [a \in Accounts |-> refunds[a].time],
  clock     <- now

(* changebw, refund and the deferred refund together implement the stake  *)
(* ledger: every step of the contract is a stake, an unstake that restarts *)
(* the owner's wait, a withdrawal of everything unbonding once the wait    *)
(* is over, a reward, or changes none of it.  In particular a stake reuses *)
(* unbonding tokens only of its payer, and a refund row is never paid out  *)
(* by a request time an unstake should have moved.                         *)
StakeLedgerRefined == Ledger!Spec

-----------------------------------------------------------------------------
(* Properties the code is found to violate (see the violation runs).       *)

(* Every open refund request has its deferred refund transaction pending,  *)
(* as the undelegatebw documentation promises.                             *)
RefundAlwaysScheduled ==
  \A a \in Accounts : HasRefund(a) => deferred[a] # NoTrx

(* Producer and vote voteage are never negative (spec section 8).          *)
VoteageNonNegative ==
  /\ \A p \in producers : prod[p].voteage >= 0
  /\ \A v, p \in Accounts : votes[v][p].voteage >= 0

(* A voter can always lower an existing vote to a smaller positive amount  *)
(* (spec 4.3: a changed vote moves only the delta).                         *)
VoteCanBeLowered ==
  \A v, p \in Accounts, n \in VoteAmounts :
    0 < n /\ n < votes[v][p].num => ENABLED VoteProducer(v, p, n)

(* Once total_activated_votes has crossed the threshold and the          *)
(* activation time thresh_activated_votes_time is latched (voteproducer,   *)
(* voting.cpp 188-191), undelegation stays unlocked: an unstake that        *)
(* changebw would accept is never refused by undelegatebw (spec 4.3: the  *)
(* latched timestamp gates undelegation).                                   *)
UndelegationStaysUnlocked ==
  gs.thresh > 0 =>
    \A f, r \in Accounts, net, cpu \in StakeAmounts :
      (net + cpu > 0 /\ ENABLED ChangeBW(f, r, -net, -cpu, FALSE))
        => ENABLED UndelegateBW(f, r, net, cpu)

(* Once the adjustment period has passed and distribute_rewards can run, a *)
(* producer can lower its commission rate by the smallest step (spec 9:    *)
(* the decrease check never blocks).                                       *)
CommissionCanDecrease ==
  \A p \in producers, rate \in CommissionRates :
    (rate < prod[p].rate /\ now - prod[p].lastAdj > CommissionPeriod
       /\ DistributeOK(balance, gs, now))
      => ENABLED ChangeCommission(p, rate)
=============================================================================
