----------------------------- MODULE MCTreeMath -----------------------------
(***************************************************************************)
(* Checks the tree arithmetic of TreeMath over every tree of 1..MaxLeaves  *)
(* leaves and every node of it.  The state is just the pair (n, x) under   *)
(* inspection; the harness walks through all pairs and the invariants     *)
(* compare the operators with reference definitions (subtree leaf ranges) *)
(* and with what the ratchet tree code relies on.                          *)
(***************************************************************************)
EXTENDS TreeMath, FiniteSets

CONSTANT MaxLeaves
ASSUME MaxLeaves \in Nat \ {0}

VARIABLES n, x
vars == <<n, x>>

Leaves(m) == {NodeOfLeaf(k) : k \in 0..(m - 1)}

Init == n = 1 /\ x = 0

NextNode == x + 1 < NodeWidth(n) /\ x' = x + 1 /\ UNCHANGED n
NextTree == x + 1 = NodeWidth(n) /\ n' = (n % MaxLeaves) + 1 /\ x' = 0

Next == NextNode \/ NextTree

Spec == Init /\ [][Next]_vars

\* The nodes reached from node y by descending through left and right(., n).
RECURSIVE Descend(_, _)
Descend(y, m) == IF Level(y) = 0 THEN <<y>> ELSE <<y>> \o Descend(Left(y), m) \o Descend(Right(y, m), m)

(***************************************************************************)
(* resolve, compute_tree_hash and derive_down walk the tree from a node    *)
(* through left(x) and right(x, n).  From the root that walk reaches every *)
(* node of the tree exactly once, also where right has to climb back into *)
(* a tree whose size is not a power of two, and parent leads back from    *)
(* each child to the node it was reached from (spec 8: parent(left(x)) =  *)
(* x and parent(right(x, n)) = x).                                        *)
(***************************************************************************)
DescentCoversTree ==
    LET walk == Descend(Root(n), n)
    IN  /\ Len(walk) = NodeWidth(n)
        /\ {walk[i] : i \in DOMAIN walk} = 0..(NodeWidth(n) - 1)
        /\ Level(x) > 0 => Parent(Left(x), n) = x /\ Parent(Right(x, n), n) = x

(***************************************************************************)
(* encrypt_to_copath seals one path secret per copath node, to the         *)
(* resolution of that node: the subtrees of the copath of a leaf must      *)
(* partition the other leaves, or some member gets no path secret or two.  *)
(***************************************************************************)
CopathPartitionsLeaves ==
    x \in Leaves(n) =>
        LET cp == CoPath(x, n)
        IN  /\ Len(cp) = Len(DirPathRoot(x, n))
            /\ \A i, j \in DOMAIN cp :
                  i # j => SubtreeLeaves(cp[i], n) \cap SubtreeLeaves(cp[j], n) = {}
            /\ UNION {SubtreeLeaves(cp[i], n) : i \in DOMAIN cp} = Leaves(n) \ {x}

(***************************************************************************)
(* update_direct_path (tree/mod.rs 473-482) locates the common ancestor of *)
(* sender and recipient on the sender's dirpath_root and takes the copath  *)
(* node at the same position: that node must exist and be the one whose  *)
(* subtree holds the recipient, for every sender and recipient.            *)
(***************************************************************************)
CommonAncestorSelectsRecipientCopath ==
    x \in Leaves(n) =>
        \A o \in Leaves(n) \ {x} :
            LET ca  == CommonAncestor(x, o)
                dp  == DirPathRoot(x, n)
                pos == {i \in DOMAIN dp : dp[i] = ca}
            IN  /\ Cardinality(pos) = 1
                /\ \A i \in pos : o \in SubtreeLeaves(CoPath(x, n)[i], n)
                /\ {x, o} \subseteq SubtreeLeaves(ca, n)
                /\ DirPathLong(ca, n) = SubSeq(DirPathLong(x, n),
                                               Len(DirPathLong(x, n)) - Len(DirPathLong(ca, n)) + 1,
                                               Len(DirPathLong(x, n)))

=============================================================================
