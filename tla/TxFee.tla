-------------------------------- MODULE TxFee --------------------------------
(***************************************************************************)
(* The chain's transaction fee manager (libraries/chain/txfee_manager.cpp):*)
(* the fee table built by the constructor, check_transaction (every        *)
(* authorization of every action names the same actor) and                 *)
(* get_required_fee (the sum of the fees of the actions' names, rejecting  *)
(* a name the table lacks).                                                *)
(*                                                                         *)
(* The controller that calls them is not part of the source: the model    *)
(* lets it hand over any bounded transaction (Submit) and then run either  *)
(* call on it.  Both loops are written as RECURSIVE operators in the       *)
(* order the code runs them and checked against set-based reference        *)
(* definitions of what they compute.                                       *)
(***************************************************************************)
EXTENDS Integers, Sequences, SequencesExt, TLC

CONSTANTS
  Actors,       \* account names that sign actions
  ActionNames,  \* action names, some of them absent from the fee table
  UnknownActor, \* a value read from memory that belongs to no signer
  MaxActions,   \* bound on the number of actions of a transaction
  MaxAuths      \* bound on the authorizations of one action

VARIABLES
  trx,      \* the transaction handed to the fee manager
  checked,  \* [done, ok]: result of check_transaction on trx
  fee       \* [done, ok, amount]: get_required_fee on trx, ok = FALSE = assert failed

vars == <<trx, checked, fee>>

(* fee_map of the constructor (lines 11-22), in base units of the core    *)
(* symbol.                                                                  *)
FeeMap ==
  ("newaccount" :> 1000) @@ ("transfer" :> 100) @@ ("vote" :> 500)
  @@ ("unfreeze" :> 100) @@ ("claim" :> 300) @@ ("updatebp" :> 1000000)
  @@ ("setemergency" :> 100000) @@ ("issue" :> 100) @@ ("create" :> 100000)

Action == [name : ActionNames, auth : SeqOf(Actors, MaxAuths)]
Transactions == SeqOf(Action, MaxActions)

(* The actor check_transaction compares against: trx.actions[0]           *)
(* .authorization[0].actor.  When the first action has no authorization   *)
(* the read is out of bounds (undefined behaviour) and yields whatever the *)
(* memory holds: any signer or an unrelated value.                         *)
FirstActors(t) ==
  IF Len(t) > 0 /\ Len(t[1].auth) > 0 THEN {t[1].auth[1]}
                                       ELSE Actors \cup {UnknownActor}

(* check_transaction (lines 24-34) given the actor read at line 28: the   *)
(* nested loops return false at the first authorization naming another    *)
(* actor.                                                                  *)
RECURSIVE PermsMatch(_, _, _)
PermsMatch(auth, j, first) ==
  j > Len(auth) \/ (auth[j] = first /\ PermsMatch(auth, j + 1, first))

RECURSIVE ActionsMatch(_, _, _)
ActionsMatch(t, k, first) ==
  k > Len(t) \/ (PermsMatch(t[k].auth, 1, first) /\ ActionsMatch(t, k + 1, first))

CheckTransactionOwnFirst(t, first) ==
  \A k \in 1..Len(t) : PermsMatch(t[k].auth, 1, t[k].auth[1])
CheckTransaction(t, first) == ActionsMatch(t, 1, first)

(* get_required_fee (lines 36-46): add the fee of each action in order;   *)
(* BES_ASSERT aborts at the first name the table lacks.                    *)
RECURSIVE FeeLoopAssign(_, _, _)
FeeLoopAssign(t, i, acc) ==
  IF i > Len(t) THEN [ok |-> TRUE, amount |-> acc]
  ELSE IF t[i].name \notin DOMAIN FeeMap THEN [ok |-> FALSE, amount |-> acc]
  ELSE FeeLoopAssign(t, i + 1, FeeMap[t[i].name])

RECURSIVE FeeLoop(_, _, _)
FeeLoop(t, i, acc) ==
  IF i > Len(t) THEN [ok |-> TRUE, amount |-> acc]
  ELSE IF t[i].name \notin DOMAIN FeeMap THEN [ok |-> FALSE, amount |-> acc]
  ELSE FeeLoop(t, i + 1, acc + FeeMap[t[i].name])

RequiredFee(t) == FeeLoop(t, 1, 0)

Pending == [done |-> FALSE, ok |-> FALSE]
NoFee   == [done |-> FALSE, ok |-> FALSE, amount |-> 0]

Init ==
  /\ trx \in Transactions
  /\ checked = Pending
  /\ fee = NoFee

(* The controller hands the fee manager another transaction.               *)
Submit(t) ==
  /\ trx' = t
  /\ checked' = Pending
  /\ fee' = NoFee

(* txfee_manager::check_transaction on the current transaction.            *)
CheckTrx ==
  /\ ~checked.done
  /\ \E first \in FirstActors(trx) :
       checked' = [done |-> TRUE, ok |-> CheckTransaction(trx, first)]
  /\ UNCHANGED <<trx, fee>>

(* txfee_manager::get_required_fee on the current transaction.             *)
ChargeFee ==
  /\ ~fee.done
  /\ fee' = [done |-> TRUE] @@ RequiredFee(trx)
  /\ UNCHANGED <<trx, checked>>

Next ==
  \/ \E t \in Transactions : Submit(t)
  \/ CheckTrx
  \/ ChargeFee

Spec == Init /\ [][Next]_vars

-----------------------------------------------------------------------------
(* Reference definitions.                                                  *)

(* The set of actors that sign some action of t.                           *)
Signers(t) == UNION {ToSet(t[k].auth) : k \in 1..Len(t)}

SingleSigner(t) == \E a \in Actors : Signers(t) \subseteq {a}

KnownNames(t) == \A k \in 1..Len(t) : t[k].name \in DOMAIN FeeMap

FeeSum(t) == MapThenSumSet(LAMBDA k : FeeMap[t[k].name], 1..Len(t))

-----------------------------------------------------------------------------
(* get_required_fee accepts exactly the transactions whose every action    *)
(* name has a fee, and charges the sum of those fees: the loop neither     *)
(* drops nor repeats an action.                                            *)
FeeIsSumOfActionFees ==
  fee.done => /\ fee.ok = KnownNames(trx)
              /\ fee.ok => fee.amount = FeeSum(trx)

(* When the first action carries an authorization, check_transaction      *)
(* accepts exactly the transactions signed by a single actor, across all   *)
(* actions and not just within each one.                                   *)
CheckAcceptsSingleSigner ==
  (checked.done /\ Len(trx) > 0 /\ Len(trx[1].auth) > 0)
    => checked.ok = SingleSigner(trx)
=============================================================================
