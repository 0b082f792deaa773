\* Two producers sharing odd emissions: a1 stakes and votes for both, a2 only produces; the ledger invariants of the rewards.
CONSTANTS
  a1 = a1
  a2 = a2
  besioStake = besioStake
  besioRpay = besioRpay
  besio = besio
  Accounts = {a1, a2}
  Candidates = {a1, a2}
  StakeAcct = besioStake
  RPayAcct = besioRpay
  SysAcct = besio
  InitBalance <- MCTwoProducerBalance
  SysReserve = 20
  StakeAmounts = {1}
  VoteAmounts = {1}
  CommissionRates = {5000}
  RefundDelay = 1
  VoteageBasis = 1
  ClaimPeriod = 1
  DistributePeriod = 1
  CommissionPeriod = 1
  MinActivatedVotes = 1
  MintPerTick = 3
  SuperNodes = 1
  UninitVoteage = {0}
  MaxTime = 2
  MaxUnpaidBlocks = 2
SPECIFICATION Spec

INVARIANT VoteTallyConsistent
INVARIANT RewardPoolSolvent
INVARIANT UnpaidBlocksAccounted
