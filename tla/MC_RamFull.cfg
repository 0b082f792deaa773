\* An account that has used all its RAM tries to buy more.
CONSTANTS
  a1 = a1
  a2 = a2
  besioRam = besioRam
  besioRamfee = besioRamfee
  Accounts = {a1}
  RamAcct = besioRam
  RamFeeAcct = besioRamfee
  InitBalance <- MCInitBalance
  MaxRam = 100
  InitTokenReserve = 1000
  BuyAmounts = {100, 400}
  BuyByteAmounts = {10}
  SellAmounts = {5, 20}
  UsageAmounts = {0, 1}
  PenaltyPeriod = 1
  MaxTrades = 2
  MaxTime = 1
SPECIFICATION Spec

INVARIANT BuyRamWhenFull
