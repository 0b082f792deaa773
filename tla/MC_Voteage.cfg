\* Voter and producer voteage floored at different times: a voter claim
\* can leave the producer total voteage negative.
CONSTANTS
  a1 = a1
  a2 = a2
  besioStake = besioStake
  besioRpay = besioRpay
  besio = besio
  Accounts = {a1, a2}
  Candidates = {a1}
  StakeAcct = besioStake
  RPayAcct = besioRpay
  SysAcct = besio
  InitBalance <- MCRewardBalance
  SysReserve = 20
  StakeAmounts = {1}
  VoteAmounts = {1, 2}
  CommissionRates = {5000}
  RefundDelay = 1
  VoteageBasis = 2
  ClaimPeriod = 1
  DistributePeriod = 1
  CommissionPeriod = 1
  MinActivatedVotes = 1
  MintPerTick = 4
  SuperNodes = 1
  UninitVoteage = {0}
  MaxTime = 5
  MaxUnpaidBlocks = 1
SPECIFICATION Spec

INVARIANT VoteageNonNegative
