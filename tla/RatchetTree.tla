----------------------------- MODULE RatchetTree ----------------------------
(***************************************************************************)
(* The public ratchet tree of src/tree/mod.rs as pure operators on its     *)
(* node array.  A tree is a function from 0..w-1 to nodes; a node keeps   *)
(* the code's three fields: node_type, key_package (here: the HPKE init   *)
(* key of the leaf, or None) and node (a ParentNode: public key and        *)
(* unmerged_leaves and parent_hash, or None), and for a leaf the          *)
(* ParentHash extension of its key package (ext, None when absent).        *)
(* Hashes are symbolic: the hash of a ParentNode is <<the ParentNode>>,    *)
(* the empty byte string is << >>.  Signatures are left out.               *)
(*                                                                         *)
(* Keys are symbolic: a fresh leaf key is <<k, 0>> for a fresh number k;  *)
(* the key derived for the i-th node of a direct path from leaf secret k  *)
(* is <<k, i>>                                                             *)
(* (generate_path_secrets / continue_path_secrets / generate_path_keypairs *)
(* are deterministic, so equal inputs give equal keys and nothing else     *)
(* does).  The commit secret of that path is <<k, Len(path) + 1>>.        *)
(***************************************************************************)
EXTENDS TreeMath, Integers, SequencesExt

CONSTANT None   \* model value: an absent Option

Width(ns)     == Cardinality(DOMAIN ns)
LeafCount(ns) == LeafOfNode(Width(ns))

\* Node::new_leaf(kp) and Node::new_blank_parent_node()
LeafNode(kp)    == [type |-> "leaf", kp |-> kp, pn |-> None, ext |-> None]
BlankParent     == [type |-> "parent", kp |-> None, pn |-> None, ext |-> None]
ParentNode(key) == [key |-> key, unmerged |-> << >>, ph |-> << >>]

\* Node::is_blank and Node::blank
IsBlank(n) == n.kp = None /\ n.pn = None
Blanked(n) == [n EXCEPT !.kp = None, !.pn = None, !.ext = None]

(***************************************************************************)
(* Tree::public_key_tree: the node array a Welcome carries, a blank node  *)
(* sent as None.  Tree::new_from_nodes rebuilds the joiner's array from    *)
(* it: a None at an even index becomes Node::new_leaf(None), at an odd     *)
(* index Node::new_blank_parent_node().  NewFromNodesParitySwapped takes  *)
(* the parity the other way round.                                        *)
(***************************************************************************)
PublicKeyTree(ns) == [y \in DOMAIN ns |-> IF IsBlank(ns[y]) THEN None ELSE ns[y]]

NewFromNodesParitySwapped(opts) ==
    [y \in DOMAIN opts |-> CASE opts[y] # None -> opts[y]
                              [] y % 2 = 1     -> LeafNode(None)
                              [] OTHER         -> BlankParent]

NewFromNodes(opts) ==
    [y \in DOMAIN opts |-> CASE opts[y] # None -> opts[y]
                              [] y % 2 = 0     -> LeafNode(None)
                              [] OTHER         -> BlankParent]

\* Node::get_public_hpke_key
PublicKey(n) ==
    CASE n.type = "leaf"   -> n.kp
      [] n.pn # None       -> n.pn.key
      [] OTHER             -> None

\* Tree::resolve(index)
RECURSIVE Resolve(_, _)
Resolve(ns, x) ==
    CASE ns[x].type = "leaf" -> IF IsBlank(ns[x]) THEN << >> ELSE <<x>>
      [] ~IsBlank(ns[x])     -> <<x>> \o ns[x].pn.unmerged
      [] OTHER               -> Resolve(ns, Left(x)) \o Resolve(ns, Right(x, LeafCount(ns)))

\* Variant: blanks the dirpath and the root but not the node itself.
BlankMemberPathOnly(ns, x) ==
    LET blank == {Root(LeafCount(ns))} \cup Range(DirPath(x, LeafCount(ns)))
    IN  [y \in DOMAIN ns |-> IF y \in blank THEN Blanked(ns[y]) ELSE ns[y]]

\* Tree::blank_member(index): the node, the root and the dirpath of the node.
BlankMember(ns, x) ==
    LET n     == LeafCount(ns)
        blank == {x, Root(n)} \cup Range(DirPath(x, n))
    IN  [y \in DOMAIN ns |-> IF y \in blank THEN Blanked(ns[y]) ELSE ns[y]]

\* Tree::free_leaves: the blank leaves, pushed as NodeIndex::from(i) with i
\* the leaf number (line 384), not as the node index 2i it tested.
FreeLeaves(ns) ==
    SelectSeq([k \in 1..LeafCount(ns) |-> k - 1], LAMBDA i : IsBlank(ns[NodeOfLeaf(i)]))

\* Tree::trim_tree: cut the trailing blank nodes, unless all are blank.
TrimTree(ns) ==
    LET used == {y \in DOMAIN ns : ~IsBlank(ns[y])}
    IN  IF used = {} THEN ns ELSE [y \in 0..Max(used) |-> ns[y]]

\* Two nodes [blank parent, leaf(kp)] appended to the array.
AppendLeaf(ns, kp) ==
    LET w == Width(ns)
    IN  [y \in 0..(w + 1) |-> IF y < w THEN ns[y]
                               ELSE IF y = w THEN BlankParent ELSE LeafNode(kp)]

-----------------------------------------------------------------------------
(* Tree::apply_proposals on the public tree.  The result is a record:      *)
(* ns, the new tree; invited, the sequence of <<node index, joiner>> of    *)
(* invited_members; panic, whether an unwrap, a panic! or split_at fails. *)

\* One update: blank the sender's path, then install its new leaf.
ApplyUpdate(acc, u) ==
    [acc EXCEPT !.ns = [BlankMember(acc.ns, u.senderLeaf) EXCEPT ![u.senderLeaf] = LeafNode(u.key)]]

\* One remove: panic! on a node with no key package, else blank_member.
ApplyRemove(acc, r) ==
    IF acc.ns[r.removed].kp = None
    THEN [acc EXCEPT !.panic = TRUE]
    ELSE [acc EXCEPT !.ns = BlankMember(acc.ns, r.removed)]

\* The non-blank nodes of the new leaf's dirpath_root get the index d of the
\* dirpath node itself pushed into unmerged_leaves (line 744-748); a
\* non-blank node there without a ParentNode fails the unwrap at 746.
MarkUnmerged(acc, d) ==
    CASE IsBlank(acc.ns[d])  -> acc
      [] acc.ns[d].pn = None -> [acc EXCEPT !.panic = TRUE]
      [] Contains(acc.ns[d].pn.unmerged, d) -> acc
      [] OTHER -> [acc EXCEPT !.ns[d].pn.unmerged = Append(@, d)]

\* An add placed in place at free leaf slot x (add_in_place).
AddInPlace(acc, a, x) ==
    LET placed == [acc EXCEPT !.ns[x] = LeafNode(a.key),
                              !.invited = Append(@, <<x, a.joiner>>)]
    IN  FoldLeft(MarkUnmerged, placed, DirPathRoot(x, LeafCount(acc.ns)))

\* Variant: reports the appended leaf at the blank parent before it.
AddAppendOffByOne(acc, a) ==
    [acc EXCEPT !.ns = AppendLeaf(acc.ns, a.key),
                !.invited = Append(@, <<Width(acc.ns), a.joiner>>)]

\* An add appended at the end of the array (add_append).
AddAppend(acc, a) ==
    [acc EXCEPT !.ns = AppendLeaf(acc.ns, a.key),
                !.invited = Append(@, <<Width(acc.ns) + 1, a.joiner>>)]

\* All adds: split_at(free_leaves.len()) panics when there are more free
\* leaves than adds; the in-place ones first, then appends, then trim_tree.
ApplyAdds(acc, adds) ==
    LET free == FreeLeaves(acc.ns)
    IN  CASE adds = << >>        -> acc
          [] Len(free) > Len(adds) -> [acc EXCEPT !.panic = TRUE]
          [] OTHER ->
               LET inPlace == FoldLeft(LAMBDA s, k : AddInPlace(s, adds[k], free[k]),
                                       acc, [k \in 1..Len(free) |-> k])
                   appended == FoldLeft(AddAppend, inPlace,
                                        SubSeq(adds, Len(free) + 1, Len(adds)))
               IN  [appended EXCEPT !.ns = TrimTree(@)]

OfKind(ps, kind) == SelectSeq(ps, LAMBDA p : p.kind = kind)

\* updates, then removes, then adds, each in the committed order.
ApplyProposals(ns, ps) ==
    LET start   == [ns |-> ns, invited |-> << >>, panic |-> FALSE]
        updated == FoldLeft(ApplyUpdate, start, OfKind(ps, "update"))
        removed == FoldLeft(ApplyRemove, updated, OfKind(ps, "remove"))
    IN  ApplyAdds(removed, OfKind(ps, "add"))

-----------------------------------------------------------------------------
(* Direct paths                                                            *)

\* Variant: the first path node takes the leaf secret itself as its path
\* secret (the first hkdf_expand_label of generate_path_secrets skipped).
MergePathFromLeafSecret(ns, leafNode, k) ==
    LET path == DirPathRoot(leafNode, LeafCount(ns))
        pos(y) == CHOOSE i \in DOMAIN path : path[i] = y
    IN  [y \in DOMAIN ns |->
            IF y = leafNode THEN LeafNode(<<k, 0>>)
            ELSE IF y \in Range(path) THEN [ns[y] EXCEPT !.pn = ParentNode(<<k, pos(y) - 1>>)]
            ELSE ns[y]]

\* merge_keypairs / merge_public_keys: the path nodes get a fresh ParentNode
\* with the new public key and no unmerged leaves; the leaf its new key.
MergePath(ns, leafNode, k) ==
    LET path == DirPathRoot(leafNode, LeafCount(ns))
        pos(y) == CHOOSE i \in DOMAIN path : path[i] = y
    IN  [y \in DOMAIN ns |->
            IF y = leafNode THEN LeafNode(<<k, 0>>)
            ELSE IF y \in Range(path) THEN [ns[y] EXCEPT !.pn = ParentNode(<<k, pos(y)>>)]
            ELSE ns[y]]

\* compute_parent_hash unwraps the root's ParentNode: it panics when the
\* leaf is itself the root (a one-leaf tree), whose node field is None.
ParentHashPanics(ns, leafNode) == ns[Root(LeafCount(ns))].pn = None \/ leafNode = Root(LeafCount(ns))

-----------------------------------------------------------------------------
(* Parent hashes                                                           *)

\* Node::hash: the hash of the encoded ParentNode, None without one.
NodeHash(n) == IF n.pn = None THEN None ELSE <<n.pn>>

\* Node::parent_hash: None for a blank node, the parent_hash field of a
\* ParentNode, the ParentHash extension of a leaf's key package.
ParentHashOf(n) ==
    CASE IsBlank(n)        -> None
      [] n.type = "parent" -> n.pn.ph
      [] OTHER             -> n.ext

(***************************************************************************)
(* Tree::compute_parent_hash(index): recurse up to the child of the root, *)
(* whose parent hash is the hash of the root node; on the way back down    *)
(* every ParentNode stores the hash returned from above as its             *)
(* parent_hash and returns its own hash; a node without ParentNode (the   *)
(* leaf) passes the hash from above through.  Result: the tree and the    *)
(* hash returned for index.                                                *)
(***************************************************************************)
RECURSIVE ComputeParentHash(_, _)
ComputeParentHash(ns, x) ==
    LET n  == LeafCount(ns)
        p  == Parent(x, n)
        up == IF p = Root(n) THEN [ns |-> ns, hash |-> NodeHash(ns[p])]
              ELSE ComputeParentHash(ns, p)
        pn == up.ns[x].pn
    IN  IF pn = None THEN up
        ELSE [ns   |-> [up.ns EXCEPT ![x].pn = [pn EXCEPT !.ph = up.hash]],
              hash |-> <<[pn EXCEPT !.ph = up.hash]>>]

\* Variant: the new leaf keeps a key package without ParentHash extension
\* (the kpb branch of update_own_leaf).
SignParentHashNoExt(ns, x) == ComputeParentHash(ns, x).ns

\* update_own_leaf (lines 565-578): compute_parent_hash from the own leaf
\* after merge_keypairs, and the new key package carries the result in its
\* ParentHash extension.  update_direct_path (line 527) installs that key
\* package and recomputes the same chain on the recipient's tree.
SignParentHash(ns, x) ==
    LET r == ComputeParentHash(ns, x)
    IN  [r.ns EXCEPT ![x].ext = r.hash]

(***************************************************************************)
(* Tree hash.  A hash is the hashed input itself, one uniform record:     *)
(* LeafNodeHashInput (index, key package with its extensions) or           *)
(* ParentNodeHashInput (index, Option<ParentNode>, left and right hash).   *)
(***************************************************************************)
LeafNodeHashInput(x, n) ==
    <<[kind |-> "leaf", index |-> x, kp |-> <<n.kp, n.ext>>, node |-> None, left |-> << >>, right |-> << >>]>>
ParentNodeHashInput(x, n, lh, rh) ==
    <<[kind |-> "parent", index |-> x, kp |-> << >>, node |-> n.pn, left |-> lh, right |-> rh]>>

\* Variant: the right child's hash is taken from the left child.
RECURSIVE NodeTreeHashLeftTwice(_, _)
NodeTreeHashLeftTwice(ns, x) ==
    IF ns[x].type = "leaf" THEN LeafNodeHashInput(x, ns[x])
    ELSE ParentNodeHashInput(x, ns[x], NodeTreeHashLeftTwice(ns, Left(x)), NodeTreeHashLeftTwice(ns, Left(x)))

\* node_hash(index) of compute_tree_hash: by node type, recursing into left
\* and right(index, leaf_count) for a parent.
RECURSIVE NodeTreeHash(_, _)
NodeTreeHash(ns, x) ==
    IF ns[x].type = "leaf" THEN LeafNodeHashInput(x, ns[x])
    ELSE ParentNodeHashInput(x, ns[x], NodeTreeHash(ns, Left(x)), NodeTreeHash(ns, Right(x, LeafCount(ns))))

\* Tree::compute_tree_hash: node_hash of the root.
ComputeTreeHash(ns) == NodeTreeHash(ns, Root(LeafCount(ns)))

(***************************************************************************)
(* Tree::verify_integrity(nodes), node i: "ok", "fail" (return false) or   *)
(* "panic" (an unwrap on a child without parent hash).  Blank nodes are    *)
(* the None entries of nodes; a key package's signature always verifies.  *)
(***************************************************************************)
IntegrityAt(ns, i) ==
    LET size       == LeafOfNode(Width(ns))
        l          == Left(i)
        r          == Right(i, size)
        present(y) == ~IsBlank(ns[y])
        own        == NodeHash(ns[i])
        orEmpty(h) == IF h = None THEN << >> ELSE h
        lph        == orEmpty(ParentHashOf(ns[l]))
        rph        == orEmpty(ParentHashOf(ns[r]))
        single(y)  == CASE ParentHashOf(ns[y]) = None -> "panic"
                        [] ParentHashOf(ns[y]) # own  -> "fail"
                        [] OTHER                      -> "ok"
    IN  CASE ~present(i)                   -> "ok"
          [] ns[i].type = "leaf"           -> IF i % 2 # 0 THEN "fail" ELSE "ok"
          [] r >= Width(ns)                -> "fail"
          [] present(l) /\ present(r)      ->
                IF (lph # own /\ rph # own) \/ lph = rph THEN "fail" ELSE "ok"
          [] present(r)                    -> single(r)
          [] present(l)                    -> single(l)
          [] OTHER                         -> "ok"

\* verify_integrity walks the nodes in order and stops at the first failure.
VerifyIntegrity(ns) ==
    LET bad == {i \in DOMAIN ns : IntegrityAt(ns, i) # "ok"}
    IN  IF bad = {} THEN "ok" ELSE IntegrityAt(ns, Min(bad))

\* encrypt_to_copath unwraps the public key of every resolvent.
SealPanics(ns, leafNode) ==
    LET cp == CoPath(leafNode, LeafCount(ns))
    IN  \E i \in DOMAIN cp : \E j \in DOMAIN Resolve(ns, cp[i]) :
            PublicKey(ns[Resolve(ns, cp[i])[j]]) = None

\* PathKeypairs::add(keypairs, path): the key pair of path[i] is stored at
\* that node index; the entries of every other node stay as they were.
PathKeypairsAdd(pk, keys) == keys @@ pk

\* PathKeypairs::get(index): None beyond the vector or in an empty slot.
PathKeypairsGet(pk, x) == IF x \in DOMAIN pk THEN pk[x] ELSE None

\* The path keys a member derives from leaf secret k in Tree::new_from_nodes
\* and in update_own_leaf: one per dirpath_root node.
OwnPathKeys(ns, leafNode, k) ==
    LET path == DirPathRoot(leafNode, LeafCount(ns))
    IN  [y \in Range(path) |-> <<k, CHOOSE i \in DOMAIN path : path[i] = y>>]

\* continue_path_secrets and generate_path_keypairs from the path secret the
\* sender (leaf s, leaf secret k) derived for node ca of its direct path: the
\* keys of ca and of every node above it (dirpath_long of ca).
CommonPathKeys(ns, s, ca, k) ==
    LET n      == LeafCount(ns)
        dp     == DirPathRoot(s, n)
        common == DirPathLong(ca, n)
        j      == CHOOSE i \in DOMAIN dp : dp[i] = ca
    IN  IF \E i \in DOMAIN dp : dp[i] = ca
        THEN [y \in Range(common) |-> <<k, j + (CHOOSE i \in DOMAIN common : common[i] = y) - 1>>]
        ELSE << >>

\* Variant: always opens the first ciphertext of the resolution.
DecryptPathFirst(ns, own, ownKey, pk, s, k) ==
    LET n     == LeafCount(ns)
        ca    == CommonAncestor(s, own)
        dp    == DirPathRoot(s, n)
        found == {i \in DOMAIN dp : dp[i] = ca}
        j     == CHOOSE i \in found : TRUE
        res   == Resolve(ns, CoPath(s, n)[j])
        key   == IF res[1] = own THEN ownKey
                 ELSE PathKeypairsGet(pk, CoPath(s, n)[j])
    IN  IF found = {} \/ res = << >>
        THEN [ok |-> FALSE, keys |-> << >>]
        ELSE [ok   |-> key # None /\ key = PublicKey(ns[res[1]]),
              keys |-> CommonPathKeys(ns, s, ca, k)]

(***************************************************************************)
(* Tree::update_direct_path, recipient side, on the tree after the         *)
(* proposals (before the sender's keys are merged).  own is the            *)
(* recipient's leaf node, ownKey its leaf private key, pk its path_keypairs *)
(* (a function on node indices), s the sender's leaf node and k the sender *)
(* leaf secret the direct path was derived from.  The sender sealed the    *)
(* path secret of position ca to the public key of every node of the      *)
(* resolution of the matching copath node; the recipient takes the        *)
(* ciphertext at its own position in that resolution, or the first, and    *)
(* opens it with its leaf key if that position is its own leaf, else with *)
(* the key it holds for the copath node.  Result: ok (the HPKE open and    *)
(* every unwrap succeed) and keys, the path keys learned.                  *)
(***************************************************************************)
DecryptPath(ns, own, ownKey, pk, s, k) ==
    LET n     == LeafCount(ns)
        ca    == CommonAncestor(s, own)
        dp    == DirPathRoot(s, n)
        found == {i \in DOMAIN dp : dp[i] = ca}
        j     == CHOOSE i \in found : TRUE
        res   == Resolve(ns, CoPath(s, n)[j])
        mine  == {i \in DOMAIN res : res[i] = own}
        pos   == IF mine = {} THEN 1 ELSE Min(mine)
        key   == IF res[pos] = own THEN ownKey
                 ELSE PathKeypairsGet(pk, CoPath(s, n)[j])
    IN  IF found = {} \/ res = << >>
        THEN [ok |-> FALSE, keys |-> << >>]
        ELSE [ok   |-> key # None /\ key = PublicKey(ns[res[pos]]),
              keys |-> CommonPathKeys(ns, s, ca, k)]

=============================================================================
