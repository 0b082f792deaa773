\* A voter that voted all its staked balance tries to lower the vote.
CONSTANTS
  a1 = a1
  a2 = a2
  besioStake = besioStake
  besioRpay = besioRpay
  besio = besio
  Accounts = {a1}
  Candidates = {a1}
  StakeAcct = besioStake
  RPayAcct = besioRpay
  SysAcct = besio
  InitBalance <- MCStakerBalance
  SysReserve = 20
  StakeAmounts = {1}
  VoteAmounts = {1, 2}
  CommissionRates = {5000}
  RefundDelay = 1
  VoteageBasis = 1
  ClaimPeriod = 1
  DistributePeriod = 1
  CommissionPeriod = 1
  MinActivatedVotes = 1
  MintPerTick = 0
  SuperNodes = 1
  UninitVoteage = {0}
  MaxTime = 1
  MaxUnpaidBlocks = 0
SPECIFICATION Spec

INVARIANT VoteCanBeLowered
