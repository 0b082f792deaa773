\* A producer lowers its commission rate after the adjustment period.
CONSTANTS
  a1 = a1
  a2 = a2
  besioStake = besioStake
  besioRpay = besioRpay
  besio = besio
  Accounts = {a1}
  Candidates = {a1}
  StakeAcct = besioStake
  RPayAcct = besioRpay
  SysAcct = besio
  InitBalance <- MCSoloBalance
  SysReserve = 20
  StakeAmounts = {0, 1}
  VoteAmounts = {1}
  CommissionRates = {5000, 10000}
  RefundDelay = 1
  VoteageBasis = 1
  ClaimPeriod = 1
  DistributePeriod = 1
  CommissionPeriod = 1
  MinActivatedVotes = 1
  MintPerTick = 4
  SuperNodes = 1
  UninitVoteage = {0}
  MaxTime = 3
  MaxUnpaidBlocks = 1
SPECIFICATION Spec

INVARIANT CommissionCanDecrease
