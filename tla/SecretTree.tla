----------------------------- MODULE SecretTree -----------------------------
(***************************************************************************)
(* One member's secret tree (src/tree/secret_tree.rs): the tree of         *)
(* symmetric secrets seeded at the root with the epoch's encryption        *)
(* secret, derived lazily downwards when a sender's ratchets are first     *)
(* needed, and the per-leaf handshake and application sender ratchets.     *)
(*                                                                         *)
(* A secret is represented by its derivation: the sequence of node indices *)
(* fed as TreeContext.node into derive_tree_secret(.., "tree", node, 0)    *)
(* starting from the encryption secret, which is << >>.  HKDF is treated   *)
(* as injective, so two secrets are equal exactly when their derivations   *)
(* are.  A ratchet's seed is <<leaf secret, label, leaf index>>.           *)
(*                                                                         *)
(* A Rust panic (an expect on None) is recorded in crash; the group        *)
(* instance is gone after it and no further step is taken.  The unwraps   *)
(* of derive_down and initialize_sender_ratchets are not modelled as      *)
(* outcomes: DerivationAvailable states that they always find a secret.   *)
(***************************************************************************)
EXTENDS TreeMath, Integers, FiniteSets, SequencesExt

CONSTANTS
    NumLeaves,          \* size: the number of leaves of the group's tree
    MaxGeneration,      \* bound on the generations requested or produced
    OutOfOrderWindow,   \* how many past generations a ratchet keeps
    MaxForwardDistance, \* how far ahead of the ratchet a request may be
    NoSecret,           \* model value: an empty Option<SecretTreeNode>
    NoRatchet           \* model value: an empty Option<SenderRatchet>

ASSUME NumLeaves \in Nat \ {0}
ASSUME MaxGeneration \in Nat /\ OutOfOrderWindow \in Nat /\ MaxForwardDistance \in Nat

VARIABLES
    nodes,           \* nodes: Vec<Option<SecretTreeNode>>
    sender_ratchets, \* handshake_sender_ratchets and application_sender_ratchets
    crash            \* "none", or the panic that ended the instance

vars == <<nodes, sender_ratchets, crash>>

NodeIds   == 0..(NodeWidth(NumLeaves) - 1)
LeafIds   == 0..(NumLeaves - 1)
Senders   == 0..NumLeaves            \* the sender index of a message, one past the tree included
SecretTypes == {"handshake", "application"}   \* SecretType, by derivation label
Generations == 0..MaxGeneration
ContentTypes == {"Application", "Proposal", "Commit", "Default"}   \* ContentType of a message
Crashes   == {"none", "ratchet_not_initialized"}

Ratchets == [seed : Seq(NodeIds) \X SecretTypes \X LeafIds,
             generation : Nat,
             past : SUBSET Nat]

TypeOK ==
    /\ nodes \in [NodeIds -> Seq(NodeIds) \cup {NoSecret}]
    /\ sender_ratchets \in [SecretTypes -> [LeafIds -> Ratchets \cup {NoRatchet}]]
    /\ crash \in Crashes
    \* a ratchet caches only generations of its out-of-order window
    /\ \A t \in SecretTypes, i \in LeafIds :
          LET r == sender_ratchets[t][i]
          IN  r # NoRatchet => r.past \subseteq (r.generation - OutOfOrderWindow)..(r.generation - 1)

-----------------------------------------------------------------------------
(* SenderRatchet (sender_ratchet.rs is not among the sources; spec 4.3).   *)
(* generation is the chain head; past holds the generations below it whose *)
(* key and nonce are still cached, at most OutOfOrderWindow back.          *)

NewSenderRatchet(seed) == [seed |-> seed, generation |-> 0, past |-> {}]

Window(past, head) == {h \in past : head - h <= OutOfOrderWindow}

\* Variant: get_secret ratchets forward without evicting old generations.
RatchetGetNoWindow(r, g) ==
    IF g < r.generation
    THEN [r EXCEPT !.past = r.past \ {g}]
    ELSE [r EXCEPT !.generation = g + 1, !.past = r.past \cup r.generation..(g - 1)]

\* next_secret: hand out the head generation and ratchet forward.
RatchetNext(r) ==
    [r EXCEPT !.generation = r.generation + 1,
              !.past = Window(r.past \cup {r.generation}, r.generation + 1)]

\* get_secret(g) succeeds for a cached past generation or one not too far ahead.
RatchetGetOk(r, g) ==
    \/ g \in r.past
    \/ g >= r.generation /\ g <= r.generation + MaxForwardDistance

\* Variant: a cached past key is handed out but stays in the cache.
RatchetGetNoConsume(r, g) ==
    IF g < r.generation
    THEN r
    ELSE [r EXCEPT !.generation = g + 1,
                   !.past = Window(r.past \cup r.generation..(g - 1), g + 1)]

\* get_secret(g) on success: a cached key is consumed; a future one ratchets forward.
RatchetGet(r, g) ==
    IF g < r.generation
    THEN [r EXCEPT !.past = r.past \ {g}]
    ELSE [r EXCEPT !.generation = g + 1,
                   !.past = Window(r.past \cup r.generation..(g - 1), g + 1)]

-----------------------------------------------------------------------------
(* SecretTree                                                              *)

\* SecretTree::new(encryption_secret, size)
Init ==
    /\ nodes = [x \in NodeIds |-> IF x = Root(NumLeaves) THEN << >> ELSE NoSecret]
    /\ sender_ratchets = [t \in SecretTypes |-> [i \in LeafIds |-> NoRatchet]]
    /\ crash = "none"

\* get_generation: 0 for a sender whose ratchet does not exist yet.
GetGeneration(i, t) ==
    IF sender_ratchets[t][i] = NoRatchet THEN 0 ELSE sender_ratchets[t][i].generation

\* get_ratchet_opt(index, type): the sender's ratchet of that type, if any.
GetRatchetOpt(i, t) == sender_ratchets[t][i]

\* The early return of initialize_sender_ratchets: both ratchets exist.
Initialized(i) ==
    \A t \in SecretTypes : GetRatchetOpt(i, t) # NoRatchet

\* The leaf, its dirpath and the root, bottom-up (dir_path in the code).
LeafPath(i) == <<NodeOfLeaf(i)>> \o DirPath(NodeOfLeaf(i), NumLeaves) \o <<Root(NumLeaves)>>

\* empty_nodes: the path up to the first node holding a secret, without the
\* leaf, top-down; the whole path above the leaf when no node holds one.
EmptyNodes(i) ==
    LET p    == LeafPath(i)
        held == {k \in DOMAIN p : nodes[p[k]] # NoSecret}
        stop == IF held = {} THEN Len(p) ELSE Min(held)
    IN  Reverse(SubSeq(p, 2, stop))

\* derive_tree_secret(secret, "tree", node, 0, length): the TreeContext of
\* the node (generation 0) is the context of the expansion.
DeriveTreeSecret(secret, node) == Append(secret, node)

\* Variants: the parent's secret is kept; only the left child is derived;
\* the children are derived with the parent's index as context.
DeriveDownKeepParent(ns, x) ==
    [ns EXCEPT ![Left(x)] = DeriveTreeSecret(ns[x], Left(x)), ![Right(x, NumLeaves)] = DeriveTreeSecret(ns[x], Right(x, NumLeaves))]
DeriveDownLeftOnly(ns, x) ==
    [ns EXCEPT ![Left(x)] = DeriveTreeSecret(ns[x], Left(x)), ![x] = NoSecret]
DeriveDownParentContext(ns, x) ==
    [ns EXCEPT ![Left(x)] = DeriveTreeSecret(ns[x], x), ![Right(x, NumLeaves)] = DeriveTreeSecret(ns[x], x), ![x] = NoSecret]

\* derive_down(x): both children get derive_tree_secret(secret, "tree", child),
\* the parent's secret is dropped.
DeriveDown(ns, x) ==
    LET l == Left(x)
        r == Right(x, NumLeaves)
    IN  [ns EXCEPT ![l] = DeriveTreeSecret(ns[x], l), ![r] = DeriveTreeSecret(ns[x], r), ![x] = NoSecret]

\* initialize_sender_ratchets(index), on a leaf whose ratchets are missing and
\* whose path holds a secret: derive down, seed both ratchets, drop the leaf.
InitializedNodes(i) ==
    [FoldLeft(DeriveDown, nodes, EmptyNodes(i)) EXCEPT ![NodeOfLeaf(i)] = NoSecret]

InitializedRatchets(i) ==
    LET leaf == FoldLeft(DeriveDown, nodes, EmptyNodes(i))[NodeOfLeaf(i)]
    IN  [t \in SecretTypes |->
            [sender_ratchets[t] EXCEPT ![i] = NewSenderRatchet(<<leaf, t, i>>)]]

\* The state after initialize_sender_ratchets(index) returns (early if both
\* ratchets exist already).
AfterInit(i) ==
    IF Initialized(i)
    THEN [nodes |-> nodes, sender_ratchets |-> sender_ratchets]
    ELSE [nodes |-> InitializedNodes(i), sender_ratchets |-> InitializedRatchets(i)]

Crash(reason) == crash' = reason /\ UNCHANGED <<nodes, sender_ratchets>>

\* The state once the `generation == 0` initialization of the handlers is done.
Prepared(i, g) ==
    IF g = 0 THEN AfterInit(i)
    ELSE [nodes |-> nodes, sender_ratchets |-> sender_ratchets]

\* next_secret(index, type): initialize when the generation is 0, then
\* ratchet the sender's chain forward (the sender side of encrypt).
NextSecret(i, t) ==
    /\ crash = "none"
    /\ GetGeneration(i, t) < MaxGeneration
    /\ LET s == Prepared(i, GetGeneration(i, t))
       IN  /\ nodes' = s.nodes
           /\ sender_ratchets' = [s.sender_ratchets EXCEPT ![t][i] = RatchetNext(@)]
    /\ UNCHANGED crash

\* get_secret(index, type, generation): initialize when the generation is 0,
\* then ask the sender's ratchet for that generation (the receiver side of
\* decrypt).  get_ratchet_mut panics when the ratchet does not exist; an
\* error of the ratchet leaves its state alone.
GetSecret(i, t, g) ==
    /\ crash = "none"
    /\ i < NumLeaves
    /\ \/ /\ g # 0 /\ sender_ratchets[t][i] = NoRatchet
          /\ Crash("ratchet_not_initialized")
       \/ /\ g = 0 \/ sender_ratchets[t][i] # NoRatchet
          /\ LET s == Prepared(i, g)
                 r == s.sender_ratchets[t][i]
             IN  /\ nodes' = s.nodes
                 /\ \/ /\ RatchetGetOk(r, g)
                       /\ sender_ratchets' = [s.sender_ratchets EXCEPT ![t][i] = RatchetGet(r, g)]
                    \/ /\ ~RatchetGetOk(r, g)
                       /\ sender_ratchets' = s.sender_ratchets
          /\ UNCHANGED crash

\* get_secret of a sender index outside the tree: the IndexOutOfBounds
\* error, before anything is touched.
GetSecretOutOfBounds(i) ==
    /\ crash = "none"
    /\ i >= NumLeaves
    /\ UNCHANGED vars

\* TryFrom<&ContentType> (and TryFrom<&MLSPlaintext>) for SecretType: the
\* ratchet a message uses is chosen by its content type; handshake messages
\* (Proposal, Commit) share one ratchet.  Any other content type is the
\* InvalidContentType error, raised before the tree is touched.
SecretTypeOf == [Application |-> "application", Proposal |-> "handshake", Commit |-> "handshake"]

InvalidContentType(c) ==
    /\ crash = "none"
    /\ c \notin DOMAIN SecretTypeOf
    /\ UNCHANGED vars

Next ==
    \/ \E i \in LeafIds, c \in DOMAIN SecretTypeOf : NextSecret(i, SecretTypeOf[c])
    \/ \E i \in Senders, c \in DOMAIN SecretTypeOf, g \in Generations :
          GetSecret(i, SecretTypeOf[c], g)
    \/ \E i \in Senders : GetSecretOutOfBounds(i)
    \/ \E c \in ContentTypes : InvalidContentType(c)

Spec == Init /\ [][Next]_vars

-----------------------------------------------------------------------------
(* Properties                                                              *)

\* The secret a node must hold: derived along the path from the root to it.
CanonicalSecret(x) == Reverse(Front(DirPathLong(x, NumLeaves)))

PathNodes(i) == PathToRoot(NodeOfLeaf(i), NumLeaves)

(***************************************************************************)
(* Deletion (spec 4.3, 5): once a leaf's ratchets are seeded, no node on   *)
(* the path from that leaf to the root still holds a secret from which the *)
(* seeds could be derived again, whatever other leaves were initialized   *)
(* before or after it (initialize_sender_ratchets, derive_down).           *)
(***************************************************************************)
ForwardSecrecy ==
    \A i \in LeafIds :
        Initialized(i) => \A x \in PathNodes(i) : nodes[x] = NoSecret

(***************************************************************************)
(* Availability: for a leaf whose ratchets are not seeded, exactly one    *)
(* node on its path to the root holds a secret, so derive_down can reach  *)
(* it from there (the unwrap in derive_down and initialize never fails)   *)
(* and no secret is derived twice, after any interleaving of senders.     *)
(***************************************************************************)
DerivationAvailable ==
    \A i \in LeafIds :
        ~Initialized(i) =>
            Cardinality({x \in PathNodes(i) : nodes[x] # NoSecret}) = 1

(***************************************************************************)
(* Every secret the tree holds, and every ratchet seed, is the one the     *)
(* key schedule prescribes: derived with the node indices of the path     *)
(* from the root, and seeded with the label of its own type and leaf, so   *)
(* that sender and receivers derive the same keys (derive_down,            *)
(* initialize_sender_ratchets).                                            *)
(***************************************************************************)
SecretsCanonical ==
    /\ \A x \in NodeIds : nodes[x] # NoSecret => nodes[x] = CanonicalSecret(x)
    /\ \A t \in SecretTypes, i \in LeafIds :
          sender_ratchets[t][i] # NoRatchet =>
              sender_ratchets[t][i].seed = <<CanonicalSecret(NodeOfLeaf(i)), t, i>>

(***************************************************************************)
(* Spec 7: the core never panics on adversary-controlled input.  The       *)
(* generation of an incoming message is chosen by its sender and by the    *)
(* network's ordering.                                                     *)
(***************************************************************************)
NoPanic == crash = "none"

\* A generation behind the head of a ratchet that is no longer cached:
\* consumed or evicted.
Spent(r, g) == r # NoRatchet /\ g < r.generation /\ g \notin r.past

\* A step in which get_secret(i, t, g) hands out the key of generation g.
Served(i, t, g) ==
    LET r == Prepared(i, g).sender_ratchets[t][i]
    IN  /\ crash = "none"
        /\ g = 0 \/ sender_ratchets[t][i] # NoRatchet
        /\ RatchetGetOk(r, g)
        /\ sender_ratchets'[t][i] = RatchetGet(r, g)

(***************************************************************************)
(* Replay defense (spec 4.6, 5): once get_secret has handed out the key   *)
(* of a generation, that generation is spent, and a spent generation      *)
(* stays spent through every later next_secret and get_secret, in-order,  *)
(* out-of-order or skipping ahead: the SenderRatchet never hands out one  *)
(* key twice and never regresses.                                         *)
(***************************************************************************)
NoReplay ==
    [][\A t \in SecretTypes, i \in LeafIds, g \in Generations :
          (Spent(sender_ratchets[t][i], g) \/ Served(i, t, g))
              => Spent(sender_ratchets'[t][i], g)]_vars

====
