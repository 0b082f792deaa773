# TLA+ models of the besio system contract and transaction fee manager

This directory holds TLA+ models of `src/contracts/besio.platform`, the chain's
system contract, and of `src/libraries/chain/txfee_manager.cpp`. It also holds
the TLC configurations that check them. `PROJECT.json` records three things:

- which definition models which source lines;
- what each run checks;
- the hazards the runs are aimed at.

## The system

The system contract is a set of actions. Each action runs atomically, one at a
time. A failed `besio_assert` or a failed inline token transfer discards the
whole action. The contract's parts are:

| Part | Source | Operations |
|---|---|---|
| GlobalState | `besio.platform.hpp` | singleton of running totals read and written by every action |
| ResourceLedger | `delegate_bandwidth.cpp` 207-420 | `delegatebw`, `undelegatebw`, `refund`; `changebw` keeps `delband`, `userres`, `refunds`, the voter's `staked_balance` and a deferred refund transaction |
| RamMarket | `delegate_bandwidth.cpp` 75-205, 422-521 | `buyram`, `buyrambytes`, `sellram`, `upramusage`, the usage-dependent trading fee |
| VoteLedger | `voting.cpp` 37-193 | `regproducer`, `unregprod`, `voteproducer` with voteage accrual |
| ElectionScheduler | `voting.cpp` 108-138 | `update_elected_producers`, called from `onblock` |
| RewardDistributor | `producer_pay.cpp` | `onblock`, `distribute_rewards`, `claimrewards` |

**How the parts interact:**

- Staking feeds the voter's `staked_balance`.
- Voting moves stake into votes and counts `total_activated_votes`.
- Once that count passes the activation threshold:
  - `onblock` counts unpaid blocks;
  - at most once per throttle window, `onblock` distributes rewards and runs the election;
  - `undelegatebw` is allowed.
- `regproducer` (on a rate change) and `unregprod` call `distribute_rewards` first.

The RAM market shares only the `user_resources` row and the global singleton
with the rest. No staking, voting or reward action reads the RAM fields, so
the RAM market is a separate module.

`txfee_manager` is chain code, not contract code. It holds a fee table, and
its two functions are called by the controller, which is not in the source:

- `check_transaction` checks that one actor signs every authorization;
- `get_required_fee` sums the table's fees over the transaction's actions.

## Modules

| Module | Models | State | Actions |
|---|---|---|---|
| `PlatformState` | shared constants, variables, token transfer, voteage accrual | `now`, `balance`, `delband`, `userres`, `refunds`, `deferred`, `voters`, `staked`, `lastClaim`, `votes`, `producers`, `prod`, `gs`, `schedule` | `Tick` |
| `ResourceLedger` | `changebw`, `delegatebw`, `undelegatebw`, `refund`, deferred refund | (extends `PlatformState`) | `DelegateBW`, `UndelegateBW`, `Refund`, `DeferredRefund` |
| `RewardDistributor` | `distribute_rewards`, `claimrewards` | | `ClaimProducerRewards`, `ClaimVoterRewards` |
| `VoteLedger` | `regproducer`, `unregprod`, `voteproducer` | | `RegisterProducer`, `UpdateProducer`, `ChangeCommission`, `UnregProd`, `VoteProducer` |
| `ElectionScheduler` | `update_elected_producers` | | (operators used by `OnBlock`) |
| `Platform` | `onblock`, and the composition | | `OnBlock`, `Next`, `Spec` and the properties |
| `RamMarket` | RAM market and fee | `now`, `balance`, `ramBytes`, `usage`, `warnTime`, `market`, `ramgs`, `trades` | `BuyRam`, `BuyRamBytes`, `SellRam`, `UseRam`, `Tick` |
| `StakeLedger` | what staking promises, per account, with no tables | `liquid`, `bonded`, `unbonding`, `since`, `clock` | `Bond`, `Unbond`, `Withdraw`, `Earn`, `Tick` |
| `RamLedger` | what the RAM market promises, with no curve or fee controller | `tokens`, `owned`, `free`, `stake` | `Buy`, `Sell` |
| `TxFee` | `txfee_manager` | `trx`, `checked`, `fee` | `Submit`, `CheckTrx`, `ChargeFee` |
| `MC_Platform`, `MC_RamMarket`, `MC_TxFee` | model values and small constant functions for TLC | | |

The platform modules form an `EXTENDS` chain:
`PlatformState` ← `ResourceLedger` ← `RewardDistributor` ← `VoteLedger` ←
`Platform`. `Platform` also extends `ElectionScheduler`. The chain follows the
calls in the code: `changebw` updates the voter row, `regproducer` and
`unregprod` call `distribute_rewards`, and `onblock` calls both the
distribution and the election.

**Correspondence with the code:**

- Each action is one whole contract action.
  - Its guard conjoins every assert and early return on the path.
  - Its primed variables are every table and singleton write, including the inline transfers (`Transfer`).
- The parts of `changebw` are operators that `ChangeBW` composes in the code's order:
  - `DelbandAfter`, `TotalsAfter` and `RefundChange`;
  - `Drawn`, the per-resource draw-down of a refund row at lines 293-306.
- `deferred[a]` is the tick at which the deferred refund of `a` runs.
  - `changebw` cancels it and sends it again, with `refund_delay`.
  - `DeferredRefund` is that transaction firing: it runs `refund` or fails without effect.
- `OnBlock(p, due, top, accepted)` takes three nondeterministic inputs:
  - `due`: the slot throttle;
  - `top`: the election result among `TopProducers`, any tie-break;
  - `accepted`: whether the host accepted the proposed schedule.
- When the election is due, `OnBlock` runs `distribute_rewards_task` (`DistributeRewardsTask`). That task distributes only once `distribute_rewards_preiod` has passed since the last bucket fill, and only after the first fill.
- `OnBlock`'s producer ranges over `BlockProducers`, the accounts and `besio` itself. `besio` is the initial producer, which has no producer row (lines 33-36).
- The election uses the `prototalvote` index. That index orders active producers first, by votes. So the loop's stop at the first inactive producer selects the active producers with votes (`Eligible`).

**Abstract specification and refinement.** `StakeLedger` states what bandwidth
staking promises, per account:

- tokens are liquid, bonded (delegated) or unbonding (refunding);
- a stake bonds liquid tokens of any payer, or the owner's own unbonding tokens;
- an unstake moves bonded tokens to unbonding and restarts the wait;
- unbonding tokens become liquid all at once, `Delay` after the last unstake.

`Platform` defines `Ledger == INSTANCE StakeLedger WITH` a refinement mapping:

- `liquid` is the token balance;
- `bonded` is the sum of the account's `delband` rows;
- `unbonding` and `since` come from its `refunds` row;
- `clock` is `now`.

Rewards, voting, producer actions and `onblock` map to `Earn` or to
stuttering steps. The ledger run checks `StakeLedgerRefined == Ledger!Spec`.

`RamLedger` states what the RAM market promises: a fixed capacity of bytes,
each free or owned by an account.

- A buy takes free bytes for a receiver. The payer pays a price into `besio.ram`, where it is staked, and a fee of at most that price to `besio.ramfee`. This is the 50% cap of spec §8.
- A sale returns bytes to the free pool. The seller is paid out of the stake, never more than is staked, and passes at most half of it on as a fee.
- Host usage changes and time move nothing.

`RamMarket` defines `Abstract == INSTANCE RamLedger WITH` a mapping: `tokens` is `balance`, `owned` is `ramBytes`, `free` is the market's RAM connector and `stake` is `total_ram_stake`. The `ram_market` run checks `RamLedgerRefined == Abstract!Spec`. A step's amounts in `RamLedger` are the changes the step makes, so `RamLedger` is used only as a property, never run on its own.

**Data abstractions:**

- **Amounts.** Staking amounts are whole tokens: votes must be multiples of 10000 base units.
- **Time.** Time is in ticks, and the durations are CONSTANTs in ticks.
- **Exact integer arithmetic.** `distribute_rewards` and `claimrewards` compute in `double` and truncate. The model uses exact integer division, which is the same truncation.
- **Uninitialised voteage.** The uninitialised `int128 total_voteage` of a new producer row is a choice from `UninitVoteage`. The MC module sets it to `{0}`.
- **Commission check.** The `uint32_t` subtraction in the commission check keeps its wrap-around (`CommissionDecreaseAllowed`).
- **RAM:**
  - RAM amounts are base units and bytes.
  - The Bancor `convert` is a constant-product exchange (`BytesFor` and `TokensFor`). It is modelled from its specification because `exchange_state` is not in the source.
  - The fee rate is in basis points.
  - `exp` is a RECURSIVE Taylor series (`ExpSeries`) in fixed point.
- **Host state.** The host's RAM usage of an account is a variable that `UseRam` changes between actions, as `get_ram_usage` reads it.
- **TxFee loops.** The loops of `txfee_manager` are RECURSIVE operators (`ActionsMatch`/`PermsMatch` and `FeeLoop`) in the order the code runs them.
- **The UB read.** The read of `actions[0].authorization[0]` when the first action has no authorization is undefined behaviour. The model makes it a choice of any signer or an unrelated value (`FirstActors`).

## Runs

Each run is listed in `PROJECT.json`. Each passing run's properties come with
mutants: plausible bugs in a mapped definition that TLC finds.

**Passing runs**

- **`ledger`** (`MC_Ledger.cfg`, 43k states)
  - Setup: two accounts, one candidate, stake amounts 0 and 1, `MaxTime` 2.
  - Checks: `TypeOK`, `StakePoolBacked`, `DelegationTotalsAgree` and `VotesBackedByStake`, and the refinement `StakeLedgerRefined`.
  - Shows: whatever the order of staking, transfers, undelegation, manual and deferred refunds and voting, the stake pool holds exactly the delegations and open refunds.
  - Shows: every step implements a step of `StakeLedger`. So tokens leave stake only by a matured refund, and an unstake always restarts the refund wait.
  - Mutant: keeping the old `request_time` on an unstake breaks the refinement.
- **`rewards`** (`MC_Rewards.cfg`, 47k states)
  - Setup: two candidates, emission 3 per tick, `ClaimPeriod` 1, and up to two unpaid blocks.
    - `a1` stakes two tokens and votes one for each producer; `a2` only produces blocks.
    - So a bucket split between two producers leaves a remainder.
    - A producer that unregistered keeps its unpaid blocks in `total_unpaid_blocks`, which shrinks the other producer's per-block share (both cases were confirmed reachable).
  - Checks: `VoteTallyConsistent`, `RewardPoolSolvent` and `UnpaidBlocksAccounted`.
  - Shows: through these distributions, producer claims and voteage-weighted voter claims, `besio.rpay` holds exactly the buckets plus unclaimed balances, and no balance is negative.
  - Mutant: a pay share rounded up instead of truncated (`ShareRoundedUp`) pays out more than a bucket holds. Only a run with two paid producers can see this.
- **`commission`** (`MC_Commission.cfg`, 31k states)
  - Setup: one account and two commission rates over 3 ticks, so that `ChangeCommission` fires.
  - Checks `CommissionChangeSplitsAtOldRate`, an action property. In the step that changes a producer's rate, the rewards credited to it are split at the old rate, because `regproducer` distributes before it modifies the row (`voting.cpp:60-69`).
  - Mutant: changing the rate before distributing splits those rewards at the new rate.
- **`election`** (module `MC_Election`, `MC_Election.cfg`, 119k states, about 2 minutes)
  - Setup: three candidates and two schedule seats, `MaxTime` 2. `a1` stakes four tokens in two delegations and can vote one for each candidate.
  - Bounds: `MinActivatedVotes` 4, so that the chain activates only once `a1` has voted all four tokens. This cuts the states in which only some of the votes are cast, which otherwise multiply the producer rows' `votes`, `upd` and `lastAdj` past what TLC finishes. `MaxUnpaidBlocks` 0 lets only `besio` produce blocks. The refund, claim, distribution and voteage periods are 9 ticks, past `MaxTime`, because none of them bears on the election.
  - Checks: `UnregisteredLeavesSchedule`, a liveness property under `FairSpec`. A producer that unregistered while in the proposed schedule eventually leaves it, once at least as many producers are eligible as the schedule has seats. The only escapes are that it registers again or that eligibility drops first.
  - Shows: with two seats, TLC reaches the state the hysteresis of `update_elected_producers` (`voting.cpp:120`) creates. The schedule keeps two producers, one of them inactive, while only one producer is eligible. Once a second producer becomes eligible again, the election replaces the inactive one.
  - Mutant: a hysteresis that also keeps the schedule at equal size leaves the producer in for ever.
- **`ram_market`** (`MC_RamMarket.cfg`, 1.4M states, 2-3 minutes)
  - Setup: two accounts, up to 4 trades over 9 ticks, `PenaltyPeriod` 1, so that the 7-period warning elapses.
  - Checks: `RamReserveConserved` (spec §8), `RamStakeBacked` and `SellNeverOverdraws`.
  - Shows: any sale the contract accepts is paid from `total_ram_stake` without overdraw.
  - Checks the refinement `RamLedgerRefined`. It shows that through warnings and punitive rates, no fee exceeds the cap, and tokens move only with bytes.
  - Mutant: an exponent that lost its minus sign (`exp(+10/…)`) gives rates above the maximum, so a sale's fee exceeds half of what it paid.
- **`txfee`** (`MC_TxFee.cfg`)
  - Setup: all transactions of up to two actions, with up to two authorizations each, over two signers and three names (one absent from the table).
  - Checks: both functions against set-based references (`FeeSum`, `KnownNames`, `SingleSigner`).

**Violation runs (findings)**

- **`refund_cancel`** (`RefundAlwaysScheduled`)
  - `changebw` calls `cancel_deferred(from)` whenever a delegation does not touch the refund row (`delegate_bandwidth.cpp:344`).
  - So a delegation to another account leaves an open refund with no settlement task.
- **`voteage`** (`VoteageNonNegative`)
  - Votes and producers floor voteage from different update times.
  - So a voter claim drives `total_voteage` negative (`producer_pay.cpp:119`).
- **`lower_vote`** (`VoteCanBeLowered`)
  - `vote_num <= staked_balance` compares the new total with the free stake (`voting.cpp:149`).
  - So a voter who voted everything can never lower a vote.
- **`commission_decrease`** (`CommissionCanDecrease`)
  - The `uint32_t` wrap rejects every commission decrease (`voting.cpp:55`).
  - Spec §9 expects the opposite: that the check never blocks a decrease.
- **`ram_full`** (`BuyRamWhenFull`)
  - The fee computation asserts unused RAM (`delegate_bandwidth.cpp:459`).
  - So an account using all its RAM cannot be sold more.
- **`activation_latch`** (`UndelegationStaysUnlocked`)
  - `voteproducer` latches `thresh_activated_votes_time` the first time `total_activated_votes` reaches the threshold (`voting.cpp:189`).
  - `undelegatebw` checks the current total instead (`delegate_bandwidth.cpp:398`).
  - Scenario (6 steps): `a1` stakes four tokens, votes two (activating the chain), then lowers the vote to one. After that, every unstake aborts, for every account, although the activation time stays latched. Spec §4.3 says the latched timestamp gates undelegation.
  - `claimrewards` and `distribute_rewards` check the live total in the same way (`producer_pay.cpp:77, 135`).

The fee truncation at `delegate_bandwidth.cpp:101` has no run. The comment at line 99 says the fee cannot be 0, but a purchase under 200 base units at the basis rate pays none. This is a one-step arithmetic fact that a unit test reaches, and it is listed as a hazard.

**Bounds and why they are enough:**

- **Two accounts.** Two accounts are the fewest for which delegation to another account, the transfer flag, voting for another producer and the voter-claim branch all happen.
- **Stake amounts.** `StakeAmounts {0,1}` gives single-resource and two-resource changes, and `MCStakerBalance` leaves a liquid token after staking. Together these let a refund be drawn down, merged and created.
- **Voteage.** `VoteageBasis` is 2 ticks where voteage matters, so that a vote can sit between two period boundaries: the flooring the `voteage` finding needs.
- **Emission.** In the `rewards` run, `MintPerTick` 3 makes the buckets odd. So the split between two producers leaves a remainder, which is the case `RewardPoolSolvent` is about. In the `commission` run, `MintPerTick` 4 gives both buckets a share in every distribution.
- **RAM trades.** `MaxTrades` bounds repeated buy/sell cycles, which would otherwise grow without end. Four trades over two accounts cover: buy, buy-for-another, buy-by-bytes, sell, and a sale after usage changed.
- **Depth of the bugs.** The bugs found by the mutants need at most 3-4 steps, well within these bounds.

**Fairness.** Only the `election` run assumes fairness. `FairSpec` adds
strong fairness of an `onblock` that runs the election and whose proposal the
host accepts. The code justifies this:

- the host applies `onblock` at the start of every block;
- the throttle window of 120 slots comes round again and again;
- `set_proposed_producers` accepts a proposal once no earlier one is pending.

Such a step is disabled while the chain is not activated, or while the
distribution inside it would abort. So the fairness is strong, not weak: it
applies only if the step is enabled again and again. No fairness is assumed
for any user action. The run gives `besio` enough reserve to fund every
distribution. When the reserve is exhausted, `onblock` aborts before the
election and elections stop (the hazard at `producer_pay.cpp:153`).

Deadlock is checked in every run, and none is reported: when `Tick` stops at
`MaxTime`, some action is still enabled. In the platform runs that is an
action of the contract; in the RAM runs it is `UseRam`; in the TxFee run it is
`Submit`.

## Not modelled

- **The name auction.** `bidname` is declared but not defined in the source. Only the auction close inside `onblock` is present, and it touches only the name bid table.
- **Admin actions.** `setram`, `setparams`, `setpriv`, `rmvproducer` and `onramusage` are declared only.
- **Host-side support.** The host's resource-limit calls (`set_resource_limits`) and the key, url and location of producers (these only add aborts) are left out.
- **Other source.** `besiolib`, the example and test contracts, the ABI and chain-id code, utilities, plugins and programs are data layout, I/O or test code with no protocol state.

## Plan for later sittings

1. A property that `unregprod` is always possible, which would be violated when `new_tokens` is 0.
2. The round trip through the curve is not stated as a property. It depends only on `exchange_state::convert`, which is not part of the source and is modelled from the spec.
