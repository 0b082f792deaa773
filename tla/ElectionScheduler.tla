-------------------------- MODULE ElectionScheduler --------------------------
(***************************************************************************)
(* update_elected_producers of besio.platform (voting.cpp 108-138).       *)
(*                                                                         *)
(* The prototalvote index lists active producers by descending            *)
(* total_votes; the loop takes them while they are active with positive   *)
(* votes, up to SUPER_NODES_NUM.  Ties in total_votes are broken by the   *)
(* index on the account name; the model lets any tie-break happen.  The   *)
(* sort by name before packing makes the schedule a set.                  *)
(* set_proposed_producers is a host call that may decline (return -1),    *)
(* e.g. when a proposal is already pending or the schedule is unchanged.  *)
(***************************************************************************)
EXTENDS PlatformState

Eligible == {p \in producers : prod[p].active /\ prod[p].votes > 0}

(* The sets the loop over prototalvote can return.                         *)
TopProducers ==
  {T \in SUBSET Eligible :
     /\ Cardinality(T) = Min({SuperNodes, Cardinality(Eligible)})
     /\ \A x \in T, y \in Eligible \ T : prod[x].votes >= prod[y].votes}

ElectKeepsEqualSize(g, top, accepted) ==
  IF Cardinality(top) <= g.schedSize \/ ~accepted
  THEN [gs |-> g, sched |-> schedule]
  ELSE [gs |-> [g EXCEPT !.schedSize = Cardinality(top)], sched |-> top]

(* Global state and schedule after update_elected_producers(g) picked top  *)
(* and the host accepted (or declined) the proposal: a smaller set than    *)
(* the last accepted one is never proposed.                                *)
Elect(g, top, accepted) ==
  IF Cardinality(top) < g.schedSize \/ ~accepted
  THEN [gs |-> g, sched |-> schedule]
  ELSE [gs |-> [g EXCEPT !.schedSize = Cardinality(top)], sched |-> top]
=============================================================================
