---------------------------- MODULE StakeLedger ----------------------------
(***************************************************************************)
(* What bandwidth staking promises, per account, with no tables, resources *)
(* or deferred transactions: tokens are liquid, bonded (delegated, owned by *)
(* the account) or unbonding (waiting for their delay), and move only      *)
(*   - liquid -> bonded: a stake, paid by any account for any owner;       *)
(*   - unbonding -> bonded: a stake by the owner itself, which may reuse   *)
(*     its own unbonding tokens; when none are left the wait is over;      *)
(*   - bonded -> unbonding: an unstake, which restarts the owner's wait;   *)
(*   - unbonding -> liquid: all at once, Delay after the last unstake.     *)
(* Liquid tokens may also arrive from outside staking (rewards).          *)
(***************************************************************************)
EXTENDS Naturals

CONSTANTS Holders, Delay

VARIABLES liquid, bonded, unbonding, since, clock

vars == <<liquid, bonded, unbonding, since, clock>>

Init ==
  /\ liquid \in [Holders -> Nat]
  /\ bonded = [a \in Holders |-> 0]
  /\ unbonding = [a \in Holders |-> 0]
  /\ since = [a \in Holders |-> 0]
  /\ clock \in Nat

Bond(payer, owner, fromLiquid, fromUnbonding) ==
  /\ fromLiquid + fromUnbonding > 0
  /\ fromLiquid <= liquid[payer]
  /\ fromUnbonding <= unbonding[owner]
  /\ fromUnbonding > 0 => payer = owner
  /\ liquid' = [liquid EXCEPT ![payer] = @ - fromLiquid]
  /\ bonded' = [bonded EXCEPT ![owner] = @ + fromLiquid + fromUnbonding]
  /\ unbonding' = [unbonding EXCEPT ![owner] = @ - fromUnbonding]
  /\ since' = [since EXCEPT ![owner] = IF unbonding'[owner] = 0 THEN 0 ELSE @]
  /\ UNCHANGED clock

Unbond(owner, n) ==
  /\ 0 < n /\ n <= bonded[owner]
  /\ bonded' = [bonded EXCEPT ![owner] = @ - n]
  /\ unbonding' = [unbonding EXCEPT ![owner] = @ + n]
  /\ since' = [since EXCEPT ![owner] = clock]
  /\ UNCHANGED <<liquid, clock>>

Withdraw(a) ==
  /\ unbonding[a] > 0
  /\ since[a] + Delay <= clock
  /\ liquid' = [liquid EXCEPT ![a] = @ + unbonding[a]]
  /\ unbonding' = [unbonding EXCEPT ![a] = 0]
  /\ since' = [since EXCEPT ![a] = 0]
  /\ UNCHANGED <<bonded, clock>>

Earn(a) ==
  /\ liquid' \in [Holders -> Nat]
  /\ liquid'[a] > liquid[a]
  /\ \A b \in Holders \ {a} : liquid'[b] = liquid[b]
  /\ UNCHANGED <<bonded, unbonding, since, clock>>

Tick ==
  /\ clock' = clock + 1
  /\ UNCHANGED <<liquid, bonded, unbonding, since>>

Next ==
  \/ \E p, o \in Holders :
       \E l \in 0..liquid[p], u \in 0..unbonding[o] : Bond(p, o, l, u)
  \/ \E o \in Holders : \E n \in 1..bonded[o] : Unbond(o, n)
  \/ \E a \in Holders : Withdraw(a) \/ Earn(a)
  \/ Tick

Spec == Init /\ [][Next]_vars
=============================================================================
