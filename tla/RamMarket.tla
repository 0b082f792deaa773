------------------------------ MODULE RamMarket ------------------------------
(***************************************************************************)
(* RAM market of besio.platform (delegate_bandwidth.cpp 75-205, 422-521): *)
(* buyram, buyrambytes and sellram against the RAMCORE bonding curve, the  *)
(* usage-dependent trading fee and its warning timer.                      *)
(*                                                                         *)
(* Amounts are base units of CORE_SYMBOL (the fee is a fraction of an     *)
(* amount, so whole tokens would not do).  The market never reads the     *)
(* net/cpu weights: a user_resources row with no RAM gets the basis fee    *)
(* with or without a row, so the module is independent of ResourceLedger. *)
(* The host intrinsic get_ram_usage is not part of the source: its owned   *)
(* bytes are the quota set_resource_limits last set, i.e. ramBytes, and    *)
(* its used bytes are host state (usage) that other contracts' storage     *)
(* changes.  exchange_state::convert is not part of the source either and  *)
(* follows the specification: a constant-product curve.                    *)
(***************************************************************************)
EXTENDS Integers, FiniteSets, FiniteSetsExt

CONSTANTS
  Accounts,        \* user accounts buying and selling RAM
  RamAcct,         \* besio.ram: holds the tokens paid into the market
  RamFeeAcct,      \* besio.ramfee: collects trading fees
  InitBalance,     \* liquid base units of each account at genesis
  MaxRam,          \* max_ram_size: the RAM connector of the market at genesis
  InitTokenReserve,\* token connector of the market at genesis
  BuyAmounts,      \* quant values of buyram (base units)
  BuyByteAmounts,  \* bytes values of buyrambytes
  SellAmounts,     \* bytes values of sellram
  UsageAmounts,    \* RAM usage levels the host can report (besides "all")
  PenaltyPeriod,   \* ram_trade_punitive_fee_preiod (1 day), in ticks
  MaxTrades,       \* bound on the number of trades in a behaviour
  MaxTime

ASSUME /\ Accounts \cap {RamAcct, RamFeeAcct} = {}
       /\ MaxRam \in Nat \ {0} /\ InitTokenReserve \in Nat \ {0}
       /\ PenaltyPeriod \in Nat \ {0}

VARIABLES
  now,       \* current_time(), in ticks
  balance,   \* token balances, base units
  ramBytes,  \* user_resources.ram_bytes (and the host RAM quota)
  usage,     \* RAM the host reports as used by the account
  warnTime,  \* user_resources.ram_last_warning_time, 0 = no warning
  market,    \* RAMCORE exchange state: [tok |-> connector, ram |-> connector]
  ramgs,     \* [reserved |-> total_ram_bytes_reserved, stake |-> total_ram_stake]
  trades     \* number of trades so far (bounded by MaxTrades)

vars == <<now, balance, ramBytes, usage, warnTime, market, ramgs, trades>>

(* Fee rates of besio.platform.hpp 147-149, in hundredths of a percent    *)
(* (the unit ram_trading_fee_rate is stored in).                          *)
BasisFeeRate == 50
MaxFeeRate   == 5000
WarningPeriods == 7          \* ram_trade_punitive_fee_warning_period

Sum(S, f(_)) == MapThenSumSet(f, S)

(* Token contract transfer: positive quantity, no overdrawn balance.       *)
CanTransfer(b, from, amt) == amt > 0 /\ b[from] >= amt
Transfer(b, from, to, amt) == [b EXCEPT ![from] = @ - amt, ![to] = @ + amt]

(* e^(xn/xd) scaled by ExpScale, summing the Taylor series until its terms *)
(* vanish; each term is the previous one times x / n.                      *)
ExpScale == 1000
RECURSIVE ExpSeries(_, _, _, _)
ExpSeries(xn, xd, n, term) ==
  IF term = 0 THEN 0
  ELSE term + ExpSeries(xn, xd, n + 1, (term * xn) \div (xd * (n + 1)))
ExpScaled(xn, xd) == ExpSeries(xn, xd, 0, ExpScale)

(* ram_trade_max_fee_rate * exp(-10 / (unuse_rate * periods)) with        *)
(* unuse_rate = unuse / own, in hundredths of a percent.                  *)
PunitiveRateSignFlip(unuse, own, k) == (MaxFeeRate * ExpScaled(10 * own, unuse * k)) \div ExpScale
PunitiveRate(unuse, own, k) == (MaxFeeRate * ExpScale) \div ExpScaled(10 * own, unuse * k)

(* cal_ram_real_time_trad_fee_rate (lines 446-500) for an account owning   *)
(* own bytes of which used are used, with warning time warn: whether it    *)
(* passes its "insufficient ram" assert, the fee rate, and the new        *)
(* warning time.  Unused above 50% starts (or keeps) a warning; after     *)
(* WarningPeriods whole periods the punitive curve applies; a healthy      *)
(* ratio clears the warning.                                               *)
(* The warning has lasted ram_trade_punitive_fee_warning_period whole     *)
(* periods (line 472).                                                     *)
PunitiveDue(warn) == (now - warn) \div PenaltyPeriod >= WarningPeriods

FeeCalc(own, used, warn) ==
  LET unuse == own - used
      high  == own # 0 /\ 2 * unuse > own
      k     == (now - warn) \div PenaltyPeriod
      punit == PunitiveRate(unuse, own, k)
  IN [ok   |-> own = 0 \/ unuse > 0,
      rate |-> CASE ~high      -> BasisFeeRate
                 [] warn = 0   -> BasisFeeRate
                 [] PunitiveDue(warn) ->
                      IF punit < BasisFeeRate THEN BasisFeeRate ELSE punit
                 [] OTHER      -> BasisFeeRate,
      warn |-> CASE ~high    -> 0
                 [] warn = 0 -> now
                 [] OTHER    -> warn]

(* get_ram_trad_fee_rate (lines 502-521): evaluated on a copy of the row,  *)
(* so only the rate is used; no row and a row without RAM both give the    *)
(* basis rate.                                                             *)
FeeRate(a) == FeeCalc(ramBytes[a], usage[a], warnTime[a])

(* exchange_state::convert of the constant-product curve.                  *)
BytesForCeil(m, tokens) == (m.ram * tokens + m.tok + tokens - 1) \div (m.tok + tokens)
BytesFor(m, tokens) == (m.ram * tokens) \div (m.tok + tokens)
TokensFor(m, bytes) == (m.tok * bytes) \div (m.ram + bytes)

Fee(amount, rate) == (amount * rate) \div 10000

(* total_ram_bytes_reserved and total_ram_stake after a trade moving       *)
(* dbytes bytes and dtokens tokens between the market and a user.          *)
RamTotalsAfterStakeBytes(g, dbytes, dtokens) ==
  [reserved |-> g.reserved + dbytes, stake |-> g.stake + dbytes]
RamTotalsAfterReserveGrows(g, dbytes, dtokens) ==
  [reserved |-> IF dbytes < 0 THEN g.reserved - dbytes ELSE g.reserved + dbytes,
   stake |-> g.stake + dtokens]
RamTotalsAfter(g, dbytes, dtokens) ==
  [reserved |-> g.reserved + dbytes, stake |-> g.stake + dtokens]

(* upramuseage (lines 422-444) of an account now owning own bytes: aborts *)
(* on the "insufficient ram" assert, else stores the new warning time.    *)
(* The host also rejects the transaction if usage exceeds the new quota.   *)
UpRamUsage(a, own) ==
  LET c == FeeCalc(own, usage[a], warnTime[a])
  IN /\ c.ok
     /\ usage[a] <= own
     /\ warnTime' = [warnTime EXCEPT ![a] = c.warn]

(* platform_contract::buyram (lines 92-146): the fee is taken at the       *)
(* receiver's rate before conversion, payer pays quant_after_fee to        *)
(* besio.ram and the fee to besio.ramfee, the receiver gets the bytes.     *)
BuyRam(payer, receiver, quant) ==
  LET f     == FeeRate(receiver)
      fee   == Fee(quant, f.rate)
      after == quant - fee
      bytes == BytesFor(market, after)
      b1    == Transfer(balance, payer, RamAcct, after)
  IN /\ quant > 0
     /\ f.ok
     /\ CanTransfer(balance, payer, after)
     /\ fee > 0 => CanTransfer(b1, payer, fee)
     /\ bytes > 0
     /\ balance' = IF fee > 0 THEN Transfer(b1, payer, RamFeeAcct, fee) ELSE b1
     /\ market' = [tok |-> market.tok + after, ram |-> market.ram - bytes]
     /\ ramgs' = RamTotalsAfter(ramgs, bytes, after)
     /\ ramBytes' = [ramBytes EXCEPT ![receiver] = @ + bytes]
     /\ UpRamUsage(receiver, ramBytes[receiver] + bytes)
     /\ UNCHANGED <<now, usage>>

(* platform_contract::buyrambytes (lines 75-81): prices the bytes on a    *)
(* copy of the market in the RAM -> token direction and buys that much.   *)
BuyRamBytes(payer, receiver, bytes) ==
  BuyRam(payer, receiver, TokensFor(market, bytes))

(* The checks of sellram before its stake assert (lines 158-178).          *)
SellChecksPass(a, bytes) ==
  /\ FeeRate(a).ok
  /\ bytes > 0
  /\ ramBytes[a] >= bytes
  /\ TokensFor(market, bytes) > 1

(* platform_contract::sellram (lines 155-205): the fee is taken at the     *)
(* rate computed before the sale, from the tokens received.                *)
SellRam(a, bytes) ==
  LET out == TokensFor(market, bytes)
      fee == Fee(out, FeeRate(a).rate)
      g   == RamTotalsAfter(ramgs, -bytes, -out)
      b1  == Transfer(balance, RamAcct, a, out)
  IN /\ SellChecksPass(a, bytes)
     /\ g.stake >= 0
     /\ CanTransfer(balance, RamAcct, out)
     /\ balance' = IF fee > 0 THEN Transfer(b1, a, RamFeeAcct, fee) ELSE b1
     /\ market' = [tok |-> market.tok - out, ram |-> market.ram + bytes]
     /\ ramgs' = g
     /\ ramBytes' = [ramBytes EXCEPT ![a] = @ - bytes]
     /\ UpRamUsage(a, ramBytes[a] - bytes)
     /\ UNCHANGED <<now, usage>>

(* Other contracts store or free data billed to a: the host keeps its     *)
(* usage within the quota.                                                 *)
UseRam(a, u) ==
  /\ u <= ramBytes[a]
  /\ usage' = [usage EXCEPT ![a] = u]
  /\ UNCHANGED <<now, balance, ramBytes, warnTime, market, ramgs, trades>>

Tick ==
  /\ now < MaxTime
  /\ now' = now + 1
  /\ UNCHANGED <<balance, ramBytes, usage, warnTime, market, ramgs, trades>>

Init ==
  /\ now = 1
  /\ balance = [a \in Accounts \cup {RamAcct, RamFeeAcct} |->
                  IF a \in Accounts THEN InitBalance[a] ELSE 0]
  /\ ramBytes = [a \in Accounts |-> 0]
  /\ usage = [a \in Accounts |-> 0]
  /\ warnTime = [a \in Accounts |-> 0]
  /\ market = [tok |-> InitTokenReserve, ram |-> MaxRam]
  /\ ramgs = [reserved |-> 0, stake |-> 0]
  /\ trades = 0

(* A buy or sell, within the trade bound.                                  *)
Trade(A) == trades < MaxTrades /\ A /\ trades' = trades + 1

Next ==
  \/ \E p, r \in Accounts, q \in BuyAmounts : Trade(BuyRam(p, r, q))
  \/ \E p, r \in Accounts, n \in BuyByteAmounts : Trade(BuyRamBytes(p, r, n))
  \/ \E a \in Accounts, n \in SellAmounts : Trade(SellRam(a, n))
  \/ \E a \in Accounts : \E u \in UsageAmounts \cup {ramBytes[a]} : UseRam(a, u)
  \/ Tick

Spec == Init /\ [][Next]_vars

-----------------------------------------------------------------------------
(* RAM reserve conservation (spec section 8): total_ram_bytes_reserved is *)
(* the sum of all accounts' ram_bytes, and with the market's RAM connector *)
(* it makes up max_ram_size, so reserved RAM never exceeds max_ram_size.   *)
RamReserveConserved ==
  /\ ramgs.reserved = Sum(Accounts, LAMBDA a : ramBytes[a])
  /\ ramgs.reserved + market.ram = MaxRam

(* besio.ram holds exactly total_ram_stake, and the market's token         *)
(* connector grew by exactly that much: buyram stakes the tokens after     *)
(* fee, sellram pays out of the stake, and fees go elsewhere.              *)
RamStakeBacked ==
  /\ balance[RamAcct] = ramgs.stake
  /\ market.tok = InitTokenReserve + ramgs.stake

(* The "attempt to unstake more tokens than previously staked" assert of   *)
(* sellram never fires: whenever an account sells RAM it owns and the sale *)
(* passes the earlier checks, the curve pays out no more than              *)
(* total_ram_stake, however the earlier trades were rounded.               *)
SellNeverOverdraws ==
  \A a \in Accounts, n \in SellAmounts :
    n <= ramBytes[a] /\ SellChecksPass(a, n) => TokensFor(market, n) <= ramgs.stake

(* The abstract RAM ledger: balances are the token balances, owned bytes  *)
(* are the ram_bytes of user_resources, the free pool is the RAM connector *)
(* of the market and the stake is total_ram_stake.                         *)
Abstract == INSTANCE RamLedger WITH
  Holders <- Accounts, Pool <- RamAcct, FeeHolder <- RamFeeAcct,
  Capacity <- MaxRam,
  tokens <- balance, owned <- ramBytes, free <- market.ram, stake <- ramgs.stake

(* buyram, buyrambytes and sellram implement the RAM ledger: every trade   *)
(* moves bytes between the market and one account against tokens staked   *)
(* or unstaked in total_ram_stake, the fee of a buy is at most the price   *)
(* that enters the curve and the fee of a sale at most half the tokens out *)
(* (the fee-rate cap of spec 8), and host usage changes move nothing.      *)
RamLedgerRefined == Abstract!Spec

-----------------------------------------------------------------------------
(* Properties the code is found to violate (see the violation runs).       *)

(* An account that has used all the RAM it owns, and can pay, can buy more *)
(* RAM (spec 4.2 lists no such error for buying).                          *)
BuyRamWhenFull ==
  \A a \in Accounts :
    (ramBytes[a] > 0 /\ usage[a] = ramBytes[a]
       /\ \A q \in BuyAmounts : balance[a] >= q)
      => \E q \in BuyAmounts : ENABLED BuyRam(a, a, q)
====
