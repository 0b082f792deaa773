----------------------------- MODULE RamLedger -----------------------------
(***************************************************************************)
(* What the RAM market promises (spec 4.2 and 8), with no curve, fee       *)
(* controller or host usage: RAM is a fixed Capacity of bytes, each free   *)
(* or owned by an account, and tokens move only with bytes:               *)
(*   - a buy takes bytes from the free pool for a receiver; the payer pays *)
(*     their price into the Pool, where it is staked, and a fee of at most *)
(*     the maximum fee rate (50%) to the FeeHolder;                        *)
(*   - a sale returns an account's bytes to the pool; the Pool pays the    *)
(*     seller out of the stake, never more than is staked, and the seller  *)
(*     passes at most half of what it received on as a fee.                *)
(* The amounts of a step are the changes the step makes: the stake for the *)
(* price, the FeeHolder's balance for the fee and the pool for the bytes.  *)
(***************************************************************************)
EXTENDS Integers

CONSTANTS Holders, Pool, FeeHolder, Capacity

VARIABLES tokens, owned, free, stake

vars == <<tokens, owned, free, stake>>

Init ==
  /\ tokens \in [Holders \cup {Pool, FeeHolder} -> Nat]
  /\ tokens[Pool] = 0 /\ tokens[FeeHolder] = 0
  /\ owned = [a \in Holders |-> 0]
  /\ free = Capacity
  /\ stake = 0

Buy(payer, receiver, price, fee, bytes) ==
  /\ price > 0 /\ 0 <= fee /\ fee <= price
  /\ price + fee <= tokens[payer]
  /\ 0 < bytes /\ bytes <= free
  /\ tokens' = [tokens EXCEPT ![payer] = @ - price - fee,
                              ![Pool] = @ + price,
                              ![FeeHolder] = @ + fee]
  /\ owned' = [owned EXCEPT ![receiver] = @ + bytes]
  /\ free' = free - bytes
  /\ stake' = stake + price

Sell(seller, bytes, out, fee) ==
  /\ 0 < bytes /\ bytes <= owned[seller]
  /\ 0 < out /\ out <= stake
  /\ 0 <= fee /\ 2 * fee <= out
  /\ tokens' = [tokens EXCEPT ![Pool] = @ - out,
                              ![seller] = @ + out - fee,
                              ![FeeHolder] = @ + fee]
  /\ owned' = [owned EXCEPT ![seller] = @ - bytes]
  /\ free' = free + bytes
  /\ stake' = stake - out

FeeMoved == tokens'[FeeHolder] - tokens[FeeHolder]

Next ==
  \/ \E p, r \in Holders : Buy(p, r, stake' - stake, FeeMoved, free - free')
  \/ \E a \in Holders : Sell(a, owned[a] - owned'[a], stake - stake', FeeMoved)

Spec == Init /\ [][Next]_vars
=============================================================================
