\* Staking, voting and rewards: the ledger invariants of the contract.
CONSTANTS
  a1 = a1
  a2 = a2
  besioStake = besioStake
  besioRpay = besioRpay
  besio = besio
  Accounts = {a1, a2}
  Candidates = {a1}
  StakeAcct = besioStake
  RPayAcct = besioRpay
  SysAcct = besio
  InitBalance <- MCStakerBalance
  SysReserve = 20
  StakeAmounts = {0, 1}
  VoteAmounts = {1}
  CommissionRates = {5000}
  RefundDelay = 1
  VoteageBasis = 2
  ClaimPeriod = 9
  DistributePeriod = 1
  CommissionPeriod = 1
  MinActivatedVotes = 1
  MintPerTick = 0
  SuperNodes = 1
  UninitVoteage = {0}
  MaxTime = 2
  MaxUnpaidBlocks = 0
SPECIFICATION Spec

INVARIANT TypeOK
INVARIANT StakePoolBacked
INVARIANT DelegationTotalsAgree
INVARIANT VotesBackedByStake
PROPERTY StakeLedgerRefined
