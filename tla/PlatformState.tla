--------------------------- MODULE PlatformState ---------------------------
(***************************************************************************)
(* State of the besio.platform system contract and of the collaborators   *)
(* it calls (token contract balances, deferred-transaction scheduler,     *)
(* block clock, proposed producer schedule).                              *)
(*                                                                         *)
(* Amounts are whole tokens (10000 base units of CORE_SYMBOL): voting only *)
(* accepts multiples of 10000, so the sub-token part of a stake never      *)
(* takes part in voting or in voteage.  Time is counted in ticks; every    *)
(* duration of the contract is a CONSTANT given in ticks by the MC module. *)
(* The component modules EXTEND this module and define the actions.       *)
(***************************************************************************)
EXTENDS Integers, FiniteSets, FiniteSetsExt

CONSTANTS
  Accounts,          \* user accounts: stakers, voters, block producers
  Candidates,        \* accounts that call regproducer (a subset of Accounts)
  StakeAcct,         \* besio.stake: pool holding staked and refunding tokens
  RPayAcct,          \* besio.rpay: pool holding undistributed rewards
  SysAcct,           \* besio: the system account that funds the reward pool
  InitBalance,       \* liquid tokens of each account of Accounts at genesis
  SysReserve,        \* liquid tokens of the system account at genesis
  StakeAmounts,      \* amounts one delegatebw/undelegatebw moves per resource
  VoteAmounts,       \* vote_num values of voteproducer (whole tokens, > 0)
  CommissionRates,   \* commission_rate values of regproducer, in 1..10000
  RefundDelay,       \* refund_delay (3 days)
  VoteageBasis,      \* voteage_basis (claim_rewards_preiod / 10)
  ClaimPeriod,       \* claim_rewards_preiod (7 days)
  DistributePeriod,  \* distribute_rewards_preiod (3 days)
  CommissionPeriod,  \* min_commission_adjustment_period (7 days)
  MinActivatedVotes, \* min_activated_votes
  MintPerTick,       \* continuous_rate * token supply, per tick
  SuperNodes,        \* SUPER_NODES_NUM: size of the elected schedule
  UninitVoteage,     \* values the uninitialised int128 total_voteage can take
  MaxTime,           \* last tick of the clock
  MaxUnpaidBlocks    \* bound on total_unpaid_blocks

SystemAccounts == {StakeAcct, RPayAcct, SysAcct}

ASSUME /\ Accounts \cap SystemAccounts = {} /\ Candidates \subseteq Accounts
       /\ StakeAmounts \subseteq Nat /\ VoteAmounts \subseteq Nat \ {0}
       /\ CommissionRates \subseteq 1..10000
       /\ \A d \in {RefundDelay, VoteageBasis, ClaimPeriod, DistributePeriod,
                    CommissionPeriod} : d \in Nat \ {0}
       /\ MinActivatedVotes \in Nat \ {0}
       /\ UninitVoteage \subseteq Int

VARIABLES
  now,        \* current_time() of the block being applied, in ticks
  balance,    \* token contract balances of users and system accounts
  delband,    \* del_bandwidth_table: delband[from][to], zero = no row
  userres,    \* user_resources_table net/cpu totals, zero = no row
  refunds,    \* refunds_table, net = cpu = 0 = no row
  deferred,   \* tick at which the deferred refund of an account runs, NoTrx = none
  voters,     \* accounts with a voters_table row
  staked,     \* voter_info.staked_balance: stake not yet used for votes
  lastClaim,  \* voter_info.last_claim_time
  votes,      \* votes_table: votes[voter][producer], num = 0 = no row
  producers,  \* accounts with a producers_table row
  prod,       \* producer_info of each account (meaningful for producers)
  gs,         \* besio_global_state fields the contract uses
  schedule    \* producer set last accepted by set_proposed_producers

stakeVars    == <<delband, userres, refunds, deferred>>
voterVars    == <<voters, staked, lastClaim, votes>>
producerVars == <<producers, prod>>
vars == <<now, balance, stakeVars, voterVars, producerVars, gs, schedule>>

NoTrx == 0           \* deferred[a] = NoTrx: no deferred refund transaction

ZeroBw     == [net |-> 0, cpu |-> 0]
NoRefund   == [net |-> 0, cpu |-> 0, time |-> 0]
NoVote     == [num |-> 0, voteage |-> 0, upd |-> 0]
NoProducer == [votes |-> 0, active |-> FALSE, rate |-> 0, lastAdj |-> 0,
               voteage |-> 0, upd |-> 0, prodBal |-> 0, votersBal |-> 0,
               unpaid |-> 0]

Abs(x) == IF x < 0 THEN -x ELSE x

HasRefund(a) == refunds[a].net + refunds[a].cpu > 0

(* Token contract transfer: positive quantity, no overdrawn balance.       *)
CanTransfer(b, from, amt) == amt > 0 /\ b[from] >= amt
Transfer(b, from, to, amt) ==
  [b EXCEPT ![from] = @ - amt, ![to] = @ + amt]

(* Voteage accrued by a weight w since time t: w * floor(elapsed/basis).  *)
Accrued(w, t) == w * ((now - t) \div VoteageBasis)

Activated == gs.tav >= MinActivatedVotes

Sum(S, f(_)) == MapThenSumSet(f, S)

InitState ==
  /\ now = 1
  /\ balance = [a \in Accounts \cup SystemAccounts |->
                  CASE a \in Accounts -> InitBalance[a]
                    [] a = SysAcct    -> SysReserve
                    [] OTHER          -> 0]
  /\ delband = [o \in Accounts |-> [r \in Accounts |-> ZeroBw]]
  /\ userres = [r \in Accounts |-> ZeroBw]
  /\ refunds = [a \in Accounts |-> NoRefund]
  /\ deferred = [a \in Accounts |-> NoTrx]
  /\ voters = {}
  /\ staked = [a \in Accounts |-> 0]
  /\ lastClaim = [a \in Accounts |-> 0]
  /\ votes = [v \in Accounts |-> [p \in Accounts |-> NoVote]]
  /\ producers = {}
  /\ prod = [p \in Accounts |-> NoProducer]
  /\ gs = [tav |-> 0, thresh |-> 0, lastFill |-> 0, perblock |-> 0,
           pervote |-> 0, unpaid |-> 0, schedSize |-> 0]
  /\ schedule = {}

(* The block clock advances; every action runs at the current tick.        *)
Tick ==
  /\ now < MaxTime
  /\ now' = now + 1
  /\ UNCHANGED <<balance, stakeVars, voterVars, producerVars, gs, schedule>>
=============================================================================
