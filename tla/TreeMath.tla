------------------------------ MODULE TreeMath ------------------------------
(***************************************************************************)
(* Index arithmetic of the left-balanced binary tree shared by the ratchet *)
(* tree and the secret tree (crate::tree::treemath, crate::tree::index).   *)
(* The tree of n leaves is an array of NodeWidth(n) nodes; leaf k sits at  *)
(* node 2k, parents at odd positions, and the level of a node is the       *)
(* number of trailing one bits of its index.  treemath.rs is not part of   *)
(* the sources at hand: these operators follow spec section 4.1.           *)
(***************************************************************************)
EXTENDS Naturals, Sequences

\* LeafIndex -> NodeIndex and back (index.rs conversions).
NodeOfLeaf(k) == 2 * k
LeafOfNode(x) == (x + 1) \div 2

NodeWidth(n) == 2 * n - 1

RECURSIVE Level(_)
Level(x) == IF x % 2 = 0 THEN 0 ELSE 1 + Level(x \div 2)

\* Smallest power of two that is >= m.
RECURSIVE CeilPow2(_)
CeilPow2(m) == IF m <= 1 THEN 1 ELSE 2 * CeilPow2((m + 1) \div 2)

\* root(n) = 2^ceil(log2 n) - 1
Root(n) == CeilPow2(n) - 1

Left(x) == IF Level(x) = 0 THEN x ELSE x - 2^(Level(x) - 1)

\* right(x, n): step right one level down, then go left while outside the tree.
RECURSIVE ShrinkLeft(_, _)
ShrinkLeft(r, n) == IF r < NodeWidth(n) THEN r ELSE ShrinkLeft(Left(r), n)

\* Variant: steps right without climbing back into a tree whose size is not
\* a power of two.
RightNoShrink(x, n) == IF Level(x) = 0 THEN x ELSE x + 2^(Level(x) - 1)

Right(x, n) == IF Level(x) = 0 THEN x ELSE ShrinkLeft(x + 2^(Level(x) - 1), n)

\* One step up in the infinite tree: (x | 1 << k) ^ (b << (k + 1)).
ParentStep(x) ==
    LET k == Level(x)
        b == (x \div 2^(k + 1)) % 2
    IN  IF b = 0 THEN x + 2^k ELSE x - 2^k

RECURSIVE GrowParent(_, _)
GrowParent(p, n) == IF p < NodeWidth(n) THEN p ELSE GrowParent(ParentStep(p), n)

\* parent(x, n); at the root it returns the root itself (the sentinel).
Parent(x, n) == IF x = Root(n) THEN x ELSE GrowParent(ParentStep(x), n)

Sibling(x, n) ==
    LET p == Parent(x, n)
    IN  IF x < p THEN Right(p, n) ELSE Left(p)

\* dirpath(x, n): the ancestors of x, bottom-up, root excluded.
RECURSIVE DirPath(_, _)
DirPath(x, n) ==
    IF x = Root(n) \/ Parent(x, n) = Root(n) THEN <<>>
    ELSE <<Parent(x, n)>> \o DirPath(Parent(x, n), n)

\* dirpath_root(x, n): the ancestors of x, bottom-up, root included.
DirPathRoot(x, n) == IF x = Root(n) THEN <<>> ELSE DirPath(x, n) \o <<Root(n)>>

\* dirpath_long(x, n): x itself followed by its ancestors up to the root.
DirPathLong(x, n) == <<x>> \o DirPathRoot(x, n)

\* Variant: the siblings of the dirpath with the root, not of x and dirpath.
CoPathOfDirPathRoot(x, n) ==
    LET d == DirPathRoot(x, n)
    IN  [i \in 1..Len(d) |-> Sibling(d[i], n)]

\* copath(x, n): the siblings of x and of its dirpath nodes.
CoPath(x, n) ==
    LET d == <<x>> \o DirPath(x, n)
    IN  IF x = Root(n) THEN <<>> ELSE [i \in 1..Len(d) |-> Sibling(d[i], n)]

\* The level-l node above x in the unbounded tree.
AncestorAt(x, l) == (x \div 2^(l + 1)) * 2^(l + 1) + 2^l - 1

\* Variant: returns the node one level above the common ancestor.
CommonAncestorOneUp(x, y) ==
    IF x = y THEN x
    ELSE LET lo == IF Level(x) >= Level(y) THEN Level(x) ELSE Level(y)
             l  == CHOOSE l \in lo..(lo + 16) :
                      /\ AncestorAt(x, l) = AncestorAt(y, l)
                      /\ \A j \in lo..(l - 1) : AncestorAt(x, j) # AncestorAt(y, j)
         IN  AncestorAt(x, l + 1)

\* common_ancestor(x, y): the lowest node whose subtree holds both.
CommonAncestor(x, y) ==
    IF x = y THEN x
    ELSE LET lo == IF Level(x) >= Level(y) THEN Level(x) ELSE Level(y)
             l  == CHOOSE l \in lo..(lo + 16) :
                      /\ AncestorAt(x, l) = AncestorAt(y, l)
                      /\ \A j \in lo..(l - 1) : AncestorAt(x, j) # AncestorAt(y, j)
         IN  AncestorAt(x, l)

\* The leaves (node indices) of the subtree rooted at x in a tree of n leaves.
SubtreeLeaves(x, n) ==
    {y \in 0..(x + 2^Level(x) - 1) :
        /\ y % 2 = 0
        /\ y < NodeWidth(n)
        /\ y >= x - (2^Level(x) - 1)}

\* The nodes on the path from x up to the root, both included.
PathToRoot(x, n) == {x} \cup {DirPathRoot(x, n)[i] : i \in DOMAIN DirPathRoot(x, n)}

=============================================================================
