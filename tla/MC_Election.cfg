\* Three candidates, two schedule seats: an election that must replace a producer that unregistered.
CONSTANTS
  a1 = a1
  a2 = a2
  a3 = a3
  besioStake = besioStake
  besioRpay = besioRpay
  besio = besio
  Accounts = {a1, a2, a3}
  Candidates = {a1, a2, a3}
  StakeAcct = besioStake
  RPayAcct = besioRpay
  SysAcct = besio
  InitBalance <- MCElectionBalance
  SysReserve = 20
  StakeAmounts = {1}
  VoteAmounts = {1}
  CommissionRates = {5000}
  RefundDelay = 9
  VoteageBasis = 9
  ClaimPeriod = 9
  DistributePeriod = 9
  CommissionPeriod = 1
  MinActivatedVotes = 4
  MintPerTick = 1
  SuperNodes = 2
  UninitVoteage = {0}
  MaxTime = 2
  MaxUnpaidBlocks = 0
SPECIFICATION FairSpec

PROPERTY UnregisteredLeavesSchedule
