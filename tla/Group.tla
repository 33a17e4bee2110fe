------------------------------- MODULE Group --------------------------------
(***************************************************************************)
(* A group of members running the proposal / commit state machine over    *)
(* the ratchet tree.  Every member holds its own copy of the tree; since   *)
(* proposals and commits are broadcast in one total order and each member *)
(* applies them deterministically, the public half of the copies is equal *)
(* and kept once, in nodes.  What differs per member is its OwnLeaf: the  *)
(* leaf it occupies, its leaf private key and its path_keypairs.          *)
(*                                                                         *)
(* The Group code (create_*_proposal, create_commit, process_commit,      *)
(* new_from_welcome) is not among the sources; it follows spec 4.5: a     *)
(* commit takes the queued proposals, applies them to the tree, refreshes *)
(* the committer's direct path when the set holds an update or a remove,  *)
(* is empty, or policy asks for it on add-only commits (AddOnlyPath), and *)
(* sends a Welcome to the joiners.  The tree operations it calls are those *)
(* of src/tree/mod.rs (module RatchetTree).                                *)
(*                                                                         *)
(* knows[m] is every key or path secret m can compute: the keys it made,  *)
(* and every path secret sealed, in any commit it saw on the wire, to a   *)
(* key it knows.  secrets[m] is its EpochSecrets (module KeySchedule),    *)
(* derived at every commit it processes from its own commit secret.        *)
(***************************************************************************)
EXTENDS RatchetTree, KeySchedule, FiniteSets

CONSTANTS
    Members,       \* the identities (model values)
    Founder,       \* the member that creates the group
    InitialGroup,  \* the members in the group when checking starts
    MaxKeys,       \* bound on fresh leaf keys (proposals and path updates)
    MaxPending,    \* bound on the length of the proposal queue
    AddOnlyPath,   \* policy: whether add-only commits refresh the direct path
    Ops            \* the kinds of proposal the members issue

ASSUME Founder \in InitialGroup /\ InitialGroup \subseteq Members
ASSUME AddOnlyPath \in BOOLEAN /\ Ops \subseteq {"add", "update", "remove"}
\* InitialGroup is formed by one add-only commit of the founder, which has
\* no path only when the policy says so.
ASSUME InitialGroup # {Founder} => ~AddOnlyPath

VARIABLES
    nodes,      \* the public tree (Tree.nodes)
    pending,    \* the proposal queue, in the order proposals were sent
    status,     \* "out" (never joined), "in", "removed", "failed" (could not
                \* process a commit or a Welcome), "crashed" (create_commit panicked)
    leaf,       \* own_leaf.leaf_index
    leafKey,    \* the private key of own_leaf.kpb
    pathKeys,   \* own_leaf.path_keypairs: node index -> key
    epochKey,   \* the commit secret the member entered its epoch with
    knows,      \* every key or secret the member can compute
    secrets,    \* epoch_secrets: the member's EpochSecrets, or None
    epoch,      \* group_context.epoch of the members in step with the group
    nextKey     \* the last fresh key handed out

vars == <<nodes, pending, status, leaf, leafKey, pathKeys, epochKey, knows, secrets, epoch, nextKey>>

Keys     == (1..MaxKeys) \X (0..16)
LeafKeys == (1..MaxKeys) \X {0}          \* fresh HPKE key pairs
PathKeys == (1..MaxKeys) \X (1..16)      \* keys derived along a direct path
ZeroSecret == <<0, 0>>                    \* the zero vector of hash_length (public)
InGroup == {m \in Members : status[m] \in {"in", "failed", "crashed"}}
Active  == {m \in Members : status[m] = "in"}

Proposal(kind, s, j, key, r) ==
    [kind |-> kind, sender |-> s, senderLeaf |-> leaf[s], joiner |-> j, key |-> key, removed |-> r]

-----------------------------------------------------------------------------
(* Initial state: the founder's Group::new (Tree::new: a one-leaf tree),   *)
(* followed, when InitialGroup has more members, by its add-only commit   *)
(* without path of all of them and their new_from_welcome.                *)

Joiners  == SetToSeq(InitialGroup \ {Founder})
InitAdds == [i \in DOMAIN Joiners |-> [kind |-> "add", sender |-> Founder, senderLeaf |-> 0,
                                       joiner |-> Joiners[i], key |-> <<i + 1, 0>>, removed |-> 0]]
Formed   == ApplyProposals([y \in {0} |-> LeafNode(<<1, 0>>)], InitAdds)
InitLeaf(m)    == IF m = Founder THEN 0 ELSE CHOOSE x \in DOMAIN Formed.ns : \E i \in DOMAIN Formed.invited : Formed.invited[i] = <<x, m>>
InitLeafKey(m) == IF m = Founder THEN <<1, 0>> ELSE <<(CHOOSE i \in DOMAIN Joiners : Joiners[i] = m) + 1, 0>>

\* The founder's secrets of epoch 0, and after the founding commit (its
\* commit secret is the zero vector: an add-only commit without path).
FoundedSecrets ==
    IF InitialGroup = {Founder} THEN InitialSecrets("group")
    ELSE GetNewEpochSecrets(InitialSecrets("group"), ZeroSecret, <<1>>)

Init ==
    /\ nodes = Formed.ns
    /\ pending = << >>
    /\ status = [m \in Members |-> IF m \in InitialGroup THEN "in" ELSE "out"]
    /\ leaf = [m \in Members |-> IF m \in InitialGroup THEN InitLeaf(m) ELSE 0]
    /\ leafKey = [m \in Members |-> IF m \in InitialGroup THEN InitLeafKey(m) ELSE None]
    /\ pathKeys = [m \in Members |-> IF m \in InitialGroup /\ m # Founder
                                     THEN OwnPathKeys(Formed.ns, InitLeaf(m), InitLeafKey(m)[1])
                                     ELSE << >>]
    /\ epochKey = [m \in Members |-> IF m \in InitialGroup THEN ZeroSecret ELSE None]
    /\ knows = [m \in Members |-> IF m \in InitialGroup THEN {InitLeafKey(m)} \cup Range(pathKeys[m]) ELSE {}]
    /\ secrets = [m \in Members |-> IF m \in InitialGroup THEN FoundedSecrets ELSE None]
    /\ epoch = IF InitialGroup = {Founder} THEN 0 ELSE 1
    /\ nextKey = Cardinality(InitialGroup)

-----------------------------------------------------------------------------
(* Proposals: the sender queues it and every member receives it           *)
(* (process_proposal), in the same order.                                  *)

Queue(p) == p.kind \in Ops /\ Len(pending) < MaxPending /\ pending' = Append(pending, p)

\* create_add_proposal for a joiner's fresh KeyPackage.
ProposeAdd(s, j) ==
    /\ status[s] = "in" /\ status[j] = "out"
    /\ \A i \in DOMAIN pending : pending[i].kind = "add" => pending[i].joiner # j
    /\ nextKey < MaxKeys
    /\ Queue(Proposal("add", s, j, <<nextKey + 1, 0>>, 0))
    /\ nextKey' = nextKey + 1
    /\ knows' = [knows EXCEPT ![j] = @ \cup {<<nextKey + 1, 0>>}]
    /\ UNCHANGED <<nodes, status, leaf, leafKey, pathKeys, epochKey, secrets, epoch>>

\* create_update_proposal: a fresh KeyPackageBundle kept in pending_kpbs.
ProposeUpdate(s) ==
    /\ status[s] = "in"
    /\ nextKey < MaxKeys
    /\ Queue(Proposal("update", s, s, <<nextKey + 1, 0>>, 0))
    /\ nextKey' = nextKey + 1
    /\ knows' = [knows EXCEPT ![s] = @ \cup {<<nextKey + 1, 0>>}]
    /\ UNCHANGED <<nodes, status, leaf, leafKey, pathKeys, epochKey, secrets, epoch>>

\* create_remove_proposal of a member's leaf (the node index, as the test passes).
ProposeRemove(s, r) ==
    /\ status[s] = "in"
    /\ r \in InGroup
    /\ Queue(Proposal("remove", s, s, None, leaf[r]))
    /\ UNCHANGED <<nodes, status, leaf, leafKey, pathKeys, epochKey, knows, secrets, epoch, nextKey>>

-----------------------------------------------------------------------------
(* Commit (spec 4.5; the committer's create_commit and every member's      *)
(* process_commit, in one step: they apply the same proposals to equal     *)
(* trees).                                                                 *)

\* The own update proposals of the member at leaf x (index == own leaf).
OwnUpdates(ps, x) == SelectSeq(OfKind(ps, "update"), LAMBDA p : p.senderLeaf = x)

\* own_leaf after apply_proposals: an own update installs the matching
\* pending KPB and resets path_keypairs.
KeyAfter(ps, m) ==
    IF OwnUpdates(ps, leaf[m]) = << >> THEN leafKey[m] ELSE Last(OwnUpdates(ps, leaf[m])).key
PathKeysAfter(ps, m) ==
    IF OwnUpdates(ps, leaf[m]) = << >> THEN pathKeys[m] ELSE << >>

RemovedLeaves(ps) == {p.removed : p \in Range(OfKind(ps, "remove"))}

\* spec 4.5 step 3: a path unless the commit is add-only and policy says no.
PathNeeded(ps) ==
    \/ ps = << >>
    \/ OfKind(ps, "update") # << >>
    \/ OfKind(ps, "remove") # << >>
    \/ AddOnlyPath

\* The path secrets of the direct path of leaf s, derived from leaf secret k,
\* that a holder of the keys K can open: the secret of copath position i is
\* sealed to every resolvent of that copath node, and gives all above it and
\* the commit secret.
Eavesdrop(K, ns, s, k) ==
    LET cp == CoPath(s, LeafCount(ns))
        opened == {i \in DOMAIN cp : \E y \in Range(Resolve(ns, cp[i])) : PublicKey(ns[y]) \in K}
    IN  UNION {{<<k, i2>> : i2 \in i..(Len(cp) + 1)} : i \in opened}

Commit(c) ==
    LET ps     == pending
        r      == ApplyProposals(nodes, ps)
        ns1    == r.ns
        s      == leaf[c]
        gone   == RemovedLeaves(ps)
        path   == PathNeeded(ps)
        k      == nextKey + 1
        merged == IF path THEN SignParentHash(MergePath(ns1, s, k), s) ELSE ns1
        cs     == IF path THEN <<k, Len(DirPathRoot(s, LeafCount(ns1))) + 1>> ELSE ZeroSecret
        panics == r.panic \/ (path /\ (ParentHashPanics(merged, s) \/ SealPanics(ns1, s)))
        recips == {o \in Active \ {c} : leaf[o] \notin gone}
        dec(o) == DecryptPath(ns1, leaf[o], KeyAfter(ps, o), PathKeysAfter(ps, o), s, k)
        ok(o)  == ~path \/ dec(o).ok
        joined == {r.invited[i][2] : i \in DOMAIN r.invited}
        joinLeaf(j) == CHOOSE x \in DOMAIN merged : \E i \in DOMAIN r.invited : r.invited[i] = <<x, j>>
        joinKey(j)  == (CHOOSE p \in Range(OfKind(ps, "add")) : p.joiner = j).key
        \* new_from_nodes: dirpath_root of a slot outside the tree overflows.
        joinOk(j)   == joinLeaf(j) < NodeWidth(LeafCount(merged))
        \* new_from_nodes derives path keys from the joiner's own leaf secret;
        \* with a path, the GroupSecrets of the Welcome carry the path secret
        \* of the common ancestor of committer and joiner, whose keys replace
        \* those of that node and every node above it (spec 4.5 step 7).
        welcomed(j) == IF path THEN CommonPathKeys(ns1, s, CommonAncestor(s, joinLeaf(j)), k) ELSE << >>
        joinKeys(j) == IF joinOk(j)
                       THEN PathKeypairsAdd(OwnPathKeys(merged, joinLeaf(j), joinKey(j)[1]), welcomed(j))
                       ELSE << >>
        ownKeys     == OwnPathKeys(ns1, s, k)
    IN
    /\ status[c] = "in"
    /\ r.panic \/ s \notin gone             \* self_removed: the committer aborts
    /\ path => nextKey < MaxKeys
    /\ IF panics
       THEN /\ status' = [status EXCEPT ![c] = "crashed"]
            /\ UNCHANGED <<nodes, pending, leaf, leafKey, pathKeys, epochKey, knows, secrets, epoch, nextKey>>
       ELSE
       /\ nodes' = merged
       /\ pending' = << >>
       /\ status' = [m \in Members |->
                       CASE m = c                          -> "in"
                         [] m \in InGroup /\ leaf[m] \in gone -> "removed"
                         [] m \in recips                    -> IF ok(m) THEN "in" ELSE "failed"
                         [] m \in joined                    -> IF joinOk(m) THEN "in" ELSE "failed"
                         [] OTHER                           -> status[m]]
       /\ leaf' = [m \in Members |-> IF m \in joined THEN joinLeaf(m) ELSE leaf[m]]
       /\ leafKey' = [m \in Members |->
                        CASE m = c       -> IF path THEN <<k, 0>> ELSE KeyAfter(ps, c)
                          [] m \in recips -> KeyAfter(ps, m)
                          [] m \in joined -> joinKey(m)
                          [] OTHER        -> leafKey[m]]
       /\ pathKeys' = [m \in Members |->
                         CASE m = c       -> IF path THEN ownKeys ELSE PathKeysAfter(ps, c)
                           [] m \in recips -> IF path /\ ok(m) THEN PathKeypairsAdd(PathKeysAfter(ps, m), dec(m).keys)
                                              ELSE PathKeysAfter(ps, m)
                           [] m \in joined -> joinKeys(m)
                           [] OTHER        -> pathKeys[m]]
       /\ epochKey' = [m \in Members |->
                         CASE m \in {c} \cup joined -> cs
                           [] m \in recips          -> IF ok(m) THEN cs ELSE None
                           [] OTHER                 -> epochKey[m]]
       /\ knows' = [m \in Members |->
                      knows[m]
                      \cup (IF path THEN Eavesdrop(knows[m], ns1, s, k) ELSE {})
                      \cup (IF m = c /\ path THEN {<<k, 0>>, cs} \cup Range(ownKeys) ELSE {})
                      \cup (IF m \in joined THEN Range(joinKeys(m)) ELSE {})]
       \* get_new_epoch_secrets on every member that processed the commit;
       \* the joiners receive the committer's secrets in the Welcome.
       /\ secrets' = [m \in Members |->
                        CASE m = c \/ (m \in recips /\ ok(m)) ->
                               GetNewEpochSecrets(secrets[m], cs, <<epoch + 1>>)
                          [] m \in joined -> GetNewEpochSecrets(secrets[c], cs, <<epoch + 1>>)
                          [] OTHER        -> secrets[m]]
       /\ epoch' = epoch + 1
       /\ nextKey' = IF path THEN k ELSE nextKey

\* A key package at an odd index (what Tree::verify_integrity rejects) makes
\* the index arithmetic of every later operation undefined; the model takes
\* no step from such a tree.  MembersOnLeaves reports the state reaching it.
WellFormed == \A y \in DOMAIN nodes : nodes[y].kp # None => y % 2 = 0

Next ==
    /\ WellFormed
    /\ \/ \E s \in Members, j \in Members : ProposeAdd(s, j)
       \/ \E s \in Members : ProposeUpdate(s)
       \/ \E s \in Members, r \in Members : ProposeRemove(s, r)
       \/ \E c \in Members : Commit(c)

Spec == Init /\ [][Next]_vars

-----------------------------------------------------------------------------
(* Properties                                                              *)

Statuses == {"out", "in", "removed", "failed", "crashed"}

TypeOK ==
    /\ \A y \in DOMAIN nodes :
          /\ nodes[y].type \in {"leaf", "parent"}
          /\ nodes[y].kp \in LeafKeys \cup {None}
          /\ nodes[y].pn = None \/ nodes[y].pn.key \in PathKeys
    /\ status \in [Members -> Statuses]
    /\ \A m \in Members : Range(pathKeys[m]) \subseteq Keys
    /\ \A m \in Members : secrets[m] = None \/ DOMAIN secrets[m] = Fields
    /\ nextKey \in 0..MaxKeys

(***************************************************************************)
(* Spec 6 (direct-path roundtrip, group convergence): after every commit  *)
(* each member of the group holds the commit secret the committer derived *)
(* (update_direct_path must find and open the ciphertext meant for it,    *)
(* with the key it holds, after any sequence of adds, updates, removes    *)
(* and Welcomes).                                                          *)
(***************************************************************************)
CommitSecretAgreement ==
    \A m1, m2 \in InGroup \ {m \in Members : status[m] = "crashed"} :
        epochKey[m1] = epochKey[m2]

\* What a member holds: its last EpochSecrets, and the commit secrets and
\* path secrets it made or could open (the zero commit secret is public).
HeldSecrets(m) == IF secrets[m] = None THEN {} ELSE {secrets[m][f] : f \in Fields}
HeldInputs(m)  == knows[m] \cup {ZeroSecret}

(***************************************************************************)
(* Post-remove secrecy: a removed member cannot compute the application   *)
(* secret of the group's current epoch, nor a key mls_exporter hands out  *)
(* in it, from the EpochSecrets it held and every commit secret it can    *)
(* open on the wire.  It holds when                                        *)
(* blank_member blanks every node whose key it knew, no later path secret *)
(* is sealed to a key it knows, and get_new_epoch_secrets mixes each      *)
(* commit secret into the chain of init secrets.                          *)
(***************************************************************************)
PostRemoveSecrecy ==
    \A r \in Members, m \in Active :
        status[r] = "removed" =>
            /\ ~Derivable(HeldSecrets(r), HeldInputs(r), secrets[m].application)
            /\ ~Derivable(HeldSecrets(r), HeldInputs(r), MlsExporter(secrets[m], "exported", << >>))

\* What the hash of a node commits to: a leaf's key package with its
\* extensions, a parent's Option<ParentNode>.
HashContent(n) == IF n.type = "leaf" THEN <<n.kp, n.ext>> ELSE n.pn

\* The nodes a tree hash was computed over: node index -> committed content.
RECURSIVE HashedNodes(_)
HashedNodes(h) ==
    IF h[1].kind = "leaf" THEN h[1].index :> h[1].kp
    ELSE (h[1].index :> h[1].node) @@ HashedNodes(h[1].left) @@ HashedNodes(h[1].right)

(***************************************************************************)
(* Spec 4.5 and 8 (the tree_hash of the GroupContext): compute_tree_hash  *)
(* commits to the whole tree.  Its recursion from the root through left   *)
(* and right(index, leaf_count) reaches every node of every tree the      *)
(* commits produce (non-full, grown past a power of two, trimmed) under   *)
(* its own index, with the key package and ParentHash extension of a leaf *)
(* and the key, unmerged leaves and parent hash of a parent, so members    *)
(* whose group contexts agree hold the same tree.  Stated of well-formed  *)
(* trees: a key package at a parent slot (the free_leaves defect, checked *)
(* by MembersOnLeaves) makes node_hash take that slot for a leaf.          *)
(***************************************************************************)
TreeHashBindsTree ==
    LET hn == HashedNodes(ComputeTreeHash(nodes))
    IN  WellFormed =>
        /\ DOMAIN hn = DOMAIN nodes
        /\ \A y \in DOMAIN nodes : hn[y] = HashContent(nodes[y])

(***************************************************************************)
(* Spec 9 scenario 2 (Alice's tree.nodes equal Bob's after Bob joins via  *)
(* Welcome): the joiners rebuild the members' tree from the Welcome.      *)
(* public_key_tree sends each blank node as None and new_from_nodes puts  *)
(* back a blank leaf at an even index and a blank parent at an odd one,    *)
(* so after any sequence of commits (removed leaves blanked, parents      *)
(* blanked by updates and removes, the tree grown and trimmed) the array  *)
(* a joiner builds equals the members' array; this is why the model keeps *)
(* one shared tree.  Stated of well-formed trees: a key package at a      *)
(* parent slot (the free_leaves defect) is rebuilt as a parent once blank. *)
(***************************************************************************)
WelcomeTreeFaithful ==
    WellFormed => NewFromNodes(PublicKeyTree(nodes)) = nodes

(***************************************************************************)
(* Spec 3 and 4.4.5 (parent_hash chains): the tree the members hold, which *)
(* a commit's Welcome hands to the joiners, passes verify_integrity after  *)
(* any sequence of commits: every non-blank parent is named by the parent  *)
(* hash of exactly one of its children, as compute_parent_hash left it,    *)
(* and the check never panics.                                             *)
(***************************************************************************)
TreeIntegrity == VerifyIntegrity(nodes) = "ok"

(***************************************************************************)
(* Spec 7: the core never panics on input peers control.  The proposals   *)
(* a committer includes are chosen by other members: create_commit must    *)
(* not panic in apply_proposals (mod.rs 712, 736, 746), compute_parent_hash *)
(* or encrypt_to_copath, whatever was proposed.                            *)
(***************************************************************************)
CommitNeverPanics ==
    \A m \in Members : status[m] # "crashed"

(***************************************************************************)
(* Every member of the group occupies a leaf slot (an even node index)    *)
(* holding its own key package: the joiner slot chosen by apply_proposals *)
(* (free_leaves) and the Welcome agree with the tree.                     *)
(***************************************************************************)
MembersOnLeaves ==
    \A m \in InGroup :
        /\ leaf[m] \in DOMAIN nodes
        /\ leaf[m] % 2 = 0
        /\ nodes[leaf[m]].kp = leafKey[m]

====
