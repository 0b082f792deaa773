------------------------------- MODULE MC_TxFee -------------------------------
(* Two signers, two priced action names and one name the fee table lacks; *)
(* up to two actions of up to two authorizations each, so transactions    *)
(* mixing signers across actions and within one action both occur.        *)
EXTENDS TxFee

CONSTANTS x, y, unk

MCActionNames == {"transfer", "create", "bidname"}
=============================================================================
