--------------------------- MODULE ResourceLedger ---------------------------
(***************************************************************************)
(* Bandwidth staking of besio.platform (delegate_bandwidth.cpp):          *)
(* delegatebw, undelegatebw, the changebw they share, refund, and the     *)
(* deferred refund transaction changebw schedules.                         *)
(*                                                                         *)
(* A delband or userres row whose weights are both zero is erased by the  *)
(* code and is represented by ZeroBw; a refund row with both amounts zero *)
(* is erased and is represented by NoRefund.  set_resource_limits only    *)
(* informs the host and changes no state of the contract.  The            *)
(* besio.stake branch of changebw (line 273) is not modelled: besio.stake *)
(* is a system account and never one of Accounts.                         *)
(***************************************************************************)
EXTENDS PlatformState

(* One resource of an existing refund row drawn down by a stake delta d   *)
(* (lines 293-305): an unstake (d < 0) grows the row; a stake takes what   *)
(* it can from the row and leaves the rest of d to transfer.               *)
DrawnNoClamp(r, d) == [left |-> r - d, rest |-> IF r - d < 0 THEN d - r ELSE 0]
DrawnKeepsDelta(r, d) == [left |-> IF r - d < 0 THEN 0 ELSE r - d, rest |-> d]
Drawn(r, d) ==
  IF r - d < 0 THEN [left |-> 0, rest |-> d - r]
               ELSE [left |-> r - d, rest |-> 0]

(* request_time of an existing refund row (lines 291-293): restarted by  *)
(* any unstake, kept by a stake that only draws the row down.              *)
RequestTimeKept(r, dnet, dcpu) == r.time
RequestTime(r, dnet, dcpu) == IF dnet < 0 \/ dcpu < 0 THEN now ELSE r.time

(* Stake change of a refund row in changebw (lines 283-335): touched when  *)
(* delegating to self or undelegating; an existing row is drawn down and   *)
(* erased when empty, a missing row is created by an unstake.  Returns the *)
(* new row, the net/cpu balance left to transfer into besio.stake, and     *)
(* whether a deferred refund transaction is needed.                        *)
RefundChange(owner, dnet, dcpu, touch) ==
  LET r  == refunds[owner]
      n  == Drawn(r.net, dnet)
      c  == Drawn(r.cpu, dcpu)
      kept == [net |-> n.left, cpu |-> c.left,
               time |-> RequestTime(r, dnet, dcpu)]
      Neg(d) == IF d < 0 THEN -d ELSE 0
      Pos(d) == IF d < 0 THEN 0 ELSE d
  IN CASE touch /\ HasRefund(owner) ->
            [row  |-> IF kept.net = 0 /\ kept.cpu = 0 THEN NoRefund ELSE kept,
             net  |-> n.rest, cpu |-> c.rest,
             need |-> ~(kept.net = 0 /\ kept.cpu = 0)]
       [] touch /\ (dnet < 0 \/ dcpu < 0) ->
            [row  |-> [net |-> Neg(dnet), cpu |-> Neg(dcpu), time |-> now],
             net  |-> Pos(dnet), cpu |-> Pos(dcpu), need |-> TRUE]
       [] OTHER ->
            [row |-> r, net |-> dnet, cpu |-> dcpu, need |-> FALSE]

(* The del_bandwidth_table row owner -> receiver after the delta          *)
(* (lines 222-244).                                                        *)
DelbandAfter(owner, receiver, dnet, dcpu) ==
  [net |-> delband[owner][receiver].net + dnet,
   cpu |-> delband[owner][receiver].cpu + dcpu]

(* The user_resources_table totals of receiver after the delta            *)
(* (lines 247-269).                                                        *)
TotalsAfterNetTwice(receiver, dnet, dcpu) ==
  [net |-> userres[receiver].net + dnet, cpu |-> userres[receiver].cpu + dnet]
TotalsAfter(receiver, dnet, dcpu) ==
  [net |-> userres[receiver].net + dnet, cpu |-> userres[receiver].cpu + dcpu]

(* platform_contract::changebw (lines 207-378).  With transfer the         *)
(* delegation, refund and voter rows belong to the receiver; the tokens    *)
(* still come from the original staker.                                    *)
ChangeBW(from, receiver, dnet, dcpu, transfer) ==
  LET owner == IF transfer THEN receiver ELSE from
      db    == DelbandAfter(owner, receiver, dnet, dcpu)
      tot   == TotalsAfter(receiver, dnet, dcpu)
      touch == (~transfer /\ owner = receiver) \/ dnet + dcpu < 0
      rc    == RefundChange(owner, dnet, dcpu, touch)
      amt   == rc.net + rc.cpu
      bal   == IF amt > 0 THEN Transfer(balance, from, StakeAcct, amt)
                          ELSE balance
  IN /\ dnet # 0 \/ dcpu # 0
     /\ Abs(dnet + dcpu) >= Max({Abs(dnet), Abs(dcpu)})
     /\ db.net >= 0 /\ db.cpu >= 0
     /\ tot.net >= 0 /\ tot.cpu >= 0
     /\ amt > 0 => CanTransfer(balance, from, amt)
     /\ staked[owner] + dnet + dcpu >= 0
     /\ delband' = [delband EXCEPT ![owner][receiver] = db]
     /\ userres' = [userres EXCEPT ![receiver] = tot]
     /\ refunds' = [refunds EXCEPT ![owner] = rc.row]
     /\ deferred' = [deferred EXCEPT ![owner] =
                       IF rc.need THEN now + RefundDelay ELSE NoTrx]
     /\ balance' = bal
     /\ voters' = voters \cup {owner}
     /\ staked' = [staked EXCEPT ![owner] = @ + dnet + dcpu]
     /\ UNCHANGED <<now, lastClaim, votes, producerVars, gs, schedule>>

(* platform_contract::delegatebw (lines 380-390).                          *)
DelegateBW(from, receiver, net, cpu, transfer) ==
  /\ net >= 0 /\ cpu >= 0 /\ net + cpu > 0
  /\ ~transfer \/ from # receiver
  /\ ChangeBW(from, receiver, net, cpu, transfer)

(* platform_contract::undelegatebw (lines 392-402): only once the chain is *)
(* activated.                                                               *)
UndelegateBW(from, receiver, net, cpu) ==
  /\ net >= 0 /\ cpu >= 0 /\ net + cpu > 0
  /\ Activated
  /\ ChangeBW(from, receiver, -net, -cpu, FALSE)

(* platform_contract::refund (lines 405-420), run by the owner or by the   *)
(* deferred transaction: pays a matured refund out of besio.stake.         *)
RefundOKEarly(owner) ==
  /\ HasRefund(owner)
  /\ refunds[owner].time + RefundDelay <= now + 1
  /\ CanTransfer(balance, StakeAcct, refunds[owner].net + refunds[owner].cpu)
RefundOK(owner) ==
  /\ HasRefund(owner)
  /\ refunds[owner].time + RefundDelay <= now
  /\ CanTransfer(balance, StakeAcct, refunds[owner].net + refunds[owner].cpu)

RefundEffect(owner) ==
  /\ balance' = Transfer(balance, StakeAcct, owner,
                         refunds[owner].net + refunds[owner].cpu)
  /\ refunds' = [refunds EXCEPT ![owner] = NoRefund]

Refund(owner) ==
  /\ RefundOK(owner)
  /\ RefundEffect(owner)
  /\ UNCHANGED <<now, delband, userres, deferred, voterVars, producerVars,
                 gs, schedule>>

(* The deferred refund transaction comes due and runs refund(owner).  The *)
(* scheduler drops it whether refund succeeds or aborts (no row left after *)
(* a manual refund, or a row not yet matured).                             *)
DeferredRefund(owner) ==
  /\ deferred[owner] # NoTrx
  /\ deferred[owner] <= now
  /\ deferred' = [deferred EXCEPT ![owner] = NoTrx]
  /\ IF RefundOK(owner) THEN RefundEffect(owner)
                        ELSE UNCHANGED <<balance, refunds>>
  /\ UNCHANGED <<now, delband, userres, voterVars, producerVars, gs, schedule>>
=============================================================================
