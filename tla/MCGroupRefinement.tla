------------------------- MODULE MCGroupRefinement --------------------------
(***************************************************************************)
(* Group implements GroupMembership.  The group is read off the public    *)
(* tree: an identity is a member when a leaf slot (an even node index) of *)
(* nodes holds the key package of its own leaf key, whatever its status    *)
(* says; a key package on a parent node makes nobody a member.  A queued  *)
(* proposal names the joiner of an add, the sender of an update, and the   *)
(* identity at the leaf a remove targets.  A commit that panics changes    *)
(* no tree and is a stuttering step of the abstract group.                 *)
(***************************************************************************)
EXTENDS MCGroup

TreeMembers ==
    {m \in Members : leafKey[m] # None /\ \E y \in DOMAIN nodes : y % 2 = 0 /\ nodes[y].kp = leafKey[m]}

\* The identity a proposal is about, as the abstract queue records it.
Subject(p) ==
    CASE p.kind = "add"    -> p.joiner
      [] p.kind = "update" -> p.sender
      [] OTHER             -> CHOOSE m \in Members : leaf[m] = p.removed /\ m \in TreeMembers

AbstractQueue == [i \in DOMAIN pending |-> [kind |-> pending[i].kind, who |-> Subject(pending[i])]]

Abstract == INSTANCE GroupMembership
                WITH Identities <- Members, members <- TreeMembers,
                     queue <- AbstractQueue, epoch <- epoch

(***************************************************************************)
(* Refinement: every step of the group (a proposal, a commit applied by   *)
(* apply_proposals, merge_* and new_from_nodes, or a commit that panics)  *)
(* is a step of GroupMembership under this mapping: the leaves of the     *)
(* tree hold exactly the members the proposals leave in the group, as     *)
(* blank_member, free_leaves and the adds must arrange.                   *)
(***************************************************************************)
AbstractSpec == Abstract!Spec

====
