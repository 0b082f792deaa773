\* Trades of two accounts against a small market over nine days: RAM and stake conservation, and the fee warning timer.
CONSTANTS
  a1 = a1
  a2 = a2
  besioRam = besioRam
  besioRamfee = besioRamfee
  Accounts = {a1, a2}
  RamAcct = besioRam
  RamFeeAcct = besioRamfee
  InitBalance <- MCInitBalance
  MaxRam = 100
  InitTokenReserve = 1000
  BuyAmounts = {100, 400}
  BuyByteAmounts = {10}
  SellAmounts = {5, 20}
  UsageAmounts = {0, 1}
  PenaltyPeriod = 1
  MaxTrades = 4
  MaxTime = 9
SPECIFICATION Spec

INVARIANT RamReserveConserved
INVARIANT RamStakeBacked
INVARIANT SellNeverOverdraws
PROPERTY RamLedgerRefined
