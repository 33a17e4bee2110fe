# TLA+ models of the maelstrom MLS core

This directory holds TLA+ models of the Rust MLS implementation in `src/src/`.
TLC checks each model. The models cover four things:

- the tree index arithmetic;
- the ratchet tree with its parent hashes, and the proposal/commit state
  machine that drives it;
- the key schedule, run at every commit;
- the secret tree with its sender ratchets;
- the wire formats of credentials, epoch secrets and the saved group state.

An abstract membership specification states what the commit machine
promises, and a run shows the detailed model implements it.

`PROJECT.json` lists the components, runs, mutants, source map, findings and
hazards.

## The system and how its parts interact

| Part | Code | Role |
|---|---|---|
| Tree math | `tree/treemath.rs`, `tree/index.rs` (not among the sources; spec 4.1) | Index arithmetic of the left-balanced array tree: root, left, right, parent, sibling, dirpath, copath, common ancestor. |
| Ratchet tree | `tree/mod.rs` | The public tree of HPKE keys (`Tree.nodes`) and the member's `OwnLeaf` (leaf key, `path_keypairs`). It covers applying proposals (`apply_proposals`: updates, then removes with `blank_member`, then adds into `free_leaves` or appended, then `trim_tree`). It also creates a path (`update_own_leaf`, `generate_path_secrets`, `encrypt_to_copath`), processes one (`update_direct_path`) and builds a joiner's tree (`new_from_nodes`). |
| Key schedule | `schedule.rs` | Derives the epoch secret from the previous `init_secret` and the commit secret of the ratchet tree, then the epoch's derived secrets. |
| Secret tree | `tree/secret_tree.rs` | Seeded with the epoch's encryption secret. It derives node secrets lazily (`derive_down`) when a sender's ratchets are first needed and hands out per-sender handshake and application ratchets (`get_secret`, `next_secret`). |
| Group | `group_api.rs` (interface only; spec 4.5) | Queues proposals, makes commits (tree update, path, Welcome), and processes commits and Welcomes. |
| Credentials | `creds.rs` | A member's `Identity` (id, ciphersuite, signature keypair) and its public `Credential`; signing, verification and their wire formats. |
| Codec | `group/codec.rs`, `schedule.rs` | Saves and loads a member's whole `Group` state, `EpochSecrets` included, over the TLS-style primitives of `crate::codec` (not among the sources; spec 6). |

The parts interact along one chain. A commit calls the ratchet tree. The
tree's commit secret feeds the key schedule. The key schedule's encryption
secret seeds a fresh secret tree. The secret tree then protects the epoch's
messages.

## Modules

- **`TreeMath`** holds the index operators as pure functions (`RECURSIVE`
  where the code loops). `treemath.rs` is absent, so these follow spec 4.1.
  - `MCTreeMath` walks through every tree size 1..11 and every node.
  - It compares the operators with reference definitions: leaf ranges of
    subtrees, and parent/child round trips.
- **`RatchetTree`** translates the operations of `tree/mod.rs`, one operator
  per function and per branch of `apply_proposals`. A key is symbolic:
  - A fresh leaf key is `<<k, 0>>`.
  - The path key at position i of the path derived from leaf secret k is
    `<<k, i>>`.
  - The commit secret is `<<k, Len(path)+1>>`.
  - Panics of the code (`expect`, `unwrap`, `split_at`) are returned as a
    `panic` flag.
  - `DecryptPath` models `update_direct_path`. It picks the position in the
    resolution and the key the code picks, and succeeds exactly when that
    key is the one the ciphertext was sealed to.
- **`RatchetTree`** also holds the parent hashes, symbolically:
  - `NodeHash` is the hash of a ParentNode: its key, unmerged leaves and
    parent hash all count.
  - `ComputeParentHash` recurses to the root as `compute_parent_hash`
    does. `SignParentHash` stores its result in the committer's new leaf,
    which is the ParentHash extension of `update_own_leaf`.
  - `VerifyIntegrity` is `verify_integrity`, node by node. The first bad
    node decides between `fail` and `panic`.
- **`RatchetTree`** has the tree hash as well. `ComputeTreeHash` is
  `compute_tree_hash`: `NodeTreeHash` recurses from the root through
  `left` and `right(index, leaf_count)`. Its hash is the hashed input
  itself, a `LeafNodeHashInput` or `ParentNodeHashInput` record. The
  member's `path_keypairs` is a function on node indices. Its `add` and
  `get` are `PathKeypairsAdd` and `PathKeypairsGet`.
- **`RatchetTree`** also has the tree a Welcome carries: `PublicKeyTree`
  is `public_key_tree` (a blank node becomes None), and `NewFromNodes` is
  the node loop of `new_from_nodes` (a None becomes a blank leaf at an even
  index and a blank parent at an odd one).
- **`KeySchedule`** covers `schedule.rs` over symbolic secrets. A secret is
  its HKDF derivation, a sequence of expand and extract steps from a root
  secret. `Derivable(S, K, t)` says whether a holder of secrets S and
  extraction inputs K can compute t.
- **`Group`** composes the ratchet tree and the key schedule with the
  proposal/commit machine.
  Modelling choices:
  - Commits are applied in one total broadcast order. All members' public
    trees are therefore equal and kept once, in `nodes`.
  - Each member has its own `leaf`, `leafKey` and `pathKeys`.
  - The actions are `ProposeAdd`, `ProposeUpdate`, `ProposeRemove` and
    `Commit`.
  - `Commit(c)` is the whole create/process step:
    - it applies the queue to the tree and refreshes the committer's path
      when needed;
    - every recipient processes the commit with `update_direct_path`;
    - joiners build their tree with `new_from_nodes` and take the path
      secret the Welcome's GroupSecrets carry for their common ancestor with
      the committer (spec 4.5 step 7): `CommonPathKeys` gives the keys of
      that node and every node above it, as `update_direct_path` derives
      them with `continue_path_secrets` and `generate_path_keypairs`;
    - removed members leave.
  - A recipient that cannot decrypt becomes `failed`.
  - A committer whose `create_commit` panics becomes `crashed`.
  - The key schedule is composed:
    - `secrets[m]` holds m's `EpochSecrets`. Every commit m processes runs
      `get_new_epoch_secrets` on it with m's commit secret and the new
      group context.
    - Joiners receive the committer's result, as the Welcome hands it over.
    - `epochKey` is the commit secret a member entered its epoch with.
    - `knows` is what a member could learn from every ciphertext on the
      wire.
  - `WellFormed` is the integrity check's odd-index rule. The model takes no
    step from a tree that violates it.
- **`GroupMembership`** is the abstract specification: a queue of
  proposals, and commits that turn the group into the old one minus the
  removed and plus the added identities, with the epoch advancing by one.
- **`MCGroupRefinement`** instantiates it over `Group`. The mapping reads
  membership off the tree: an identity is a member when a leaf slot (an
  even node index) holds the key package of its leaf key; a key package
  left on a parent node makes nobody a member. A remove in the queue maps to the identity
  at the leaf it targets.
- **`SecretTree`** is one member's secret tree over `NumLeaves` leaves.
  - A secret is its derivation path from the encryption secret. HKDF is
    taken as injective.
  - A receive of generation g from sender s is `GetSecret`. A send is
    `NextSecret`. A sender index one past the tree is the
    `IndexOutOfBounds` error of `get_secret` (`GetSecretOutOfBounds`).
  - Both are chosen by a message's content type through `SecretTypeOf`,
    the `TryFrom<&ContentType>` of `SecretType`: Proposal and Commit share
    the handshake ratchet, and any other type is the `InvalidContentType`
    error, which touches nothing.
  - The sender ratchet (`sender_ratchet.rs`, absent) follows spec 4.3: a
    generation counter and a window of past generations.

- **`Codec`** holds the primitives of spec 6 over byte sequences (a byte is
  a natural below 256): big-endian u8/u16/u32, and `encode_vec` /
  `decode_vec` with a 1-, 2- or 4-byte length prefix. A decoder takes the
  remaining bytes of the cursor and returns `ok`, the value and the rest;
  a failed decode is the code's `DecodingError`. Types whose codec is not
  among the sources (GroupConfig, GroupContext, ASTree, Tree,
  ProposalQueue, KeyPackageBundle, the signature keys) are opaque byte
  strings under a u8 prefix, self-delimiting as every spec 6 encoding is.
- **`Credentials`** translates the `Codec` impls of `creds.rs`: `Identity`
  (u8-prefixed id), `CredentialType` with its `From<u8>` (unknown bytes
  become `Default`), `BasicCredential` (u16-prefixed identity) and
  `Credential`, whose decode rejects every type but Basic. It also has
  `Identity::new`, `sign` and `verify`, `From<&Identity>` and the verify
  methods of the credentials, over symbolic signatures: the Ciphersuite
  collaborator's `sign` gives a record of the suite, the key pair and the
  payload, and its `verify` accepts exactly that record. A key pair's
  public key is the key pair itself.
- **`GroupCodec`** translates `Group::encode/decode` and
  `EpochSecrets::encode/decode`. A struct is a record. Its encode order and
  its decode order are separate lists, as in the code, and each field
  is written with the codec of its type (`FieldKind`). `DecodeStruct`
  stops at the first failing field, which is the `?` of the code.
- **`MCCodec`** has one variable per encoded value, the group state and a
  credential. Each step replaces one field by a value of a small domain,
  as the group's operations do between two saves. TLC then checks the
  codecs on every combination.

## Runs

| Run | Checks | Result |
|---|---|---|
| `tree_math` | `DescentCoversTree` (the left/right walk from the root reaches every node once, and parent leads back), `CopathPartitionsLeaves` (every member gets exactly one path secret), `CommonAncestorSelectsRecipientCopath` (the position `update_direct_path` computes selects the copath node above the recipient) | pass, 121 states |
| `secret_tree` | `ForwardSecrecy` (no parent secret is kept once a child is derived), `DerivationAvailable` (every unseeded leaf keeps exactly one ancestor secret), `SecretsCanonical` (seeds are the canonical derivations), `TypeOK` (ratchet window) | pass, 50,437 states |
| `secret_tree_no_panic` | `NoPanic` | **violation**: a first message of generation 1 from a sender panics in `get_ratchet_mut` |
| `group_churn` | `CommitSecretAgreement` (every member that processed a commit holds the committer's commit secret), `PostRemoveSecrecy` (a removed member cannot derive a later application secret or exported key), `TreeIntegrity` (the tree passes `verify_integrity`), `AbstractSpec` (refinement of `GroupMembership`), `TypeOK` | pass, 316,349 states, about 1.5 min |
| `group_grow` | `MembersOnLeaves` (each member sits on an even slot holding its key package), `TreeIntegrity`, `TreeHashBindsTree` (the tree hash reaches every node under its own index, with all of its content), `AbstractSpec` | pass, 8,250 states |
| `group_mixed` | `PostRemoveSecrecy` across add-only commits with the zero commit secret, `TreeHashBindsTree` on trimmed trees and reused leaves, `WelcomeTreeFaithful` (the tree a joiner rebuilds from `public_key_tree` with `new_from_nodes` equals the members' tree) | pass, 375,558 states, about 1 min |
| `group_blank_copath` | `CommitSecretAgreement` | **violation**: a stale key is used for a blank copath node |
| `group_free_leaves` | `MembersOnLeaves` | **violation**: `free_leaves` returns leaf numbers, not node indices |
| `group_commit_panic` | `CommitNeverPanics` | **violation**: two removes of one member panic |
| `group_parent_hash` | `TreeIntegrity` | **violation**: an add into a freed leaf breaks the parent-hash chain |
| `codec` | `TruncationRejected` (no proper prefix of a saved group loads, wherever the cut falls), `GroupRoundTrip` (a saved group loads as the same group, and the cursor stops right after it), `CredentialWire` (a Basic credential round-trips; X509, Default and unknown type bytes are rejected; the credential made from an identity verifies exactly that identity's signatures after the wire) | pass, 61,440 states, about 1 min |

Each property of a passing run has a mutant in `PROJECT.json`. A mutant is a
plausible bug in the mapped code. Each one makes TLC report that property
violated. The mutants are:

- `Right` without the shrink back into the tree;
- a copath taken one level too high;
- a common ancestor one level too high;
- a ratchet without window eviction;
- `derive_down` that keeps the parent, or derives only left;
- derivation under the wrong node context;
- `merge_keypairs` from the leaf secret;
- decryption always at position 0;
- `blank_member` that leaves the leaf (twice: `PostRemoveSecrecy` and
  `AbstractSpec`);
- appending at `tree_size` instead of `tree_size + 1` (`MembersOnLeaves`
  and `AbstractSpec`);
- a new leaf without its ParentHash extension;
- an epoch secret extracted without the commit secret;
- `node_hash` taking the right child's hash from the left child;
- `Group::decode` reading `own_queue` before `public_queue`;
- `Group::decode` stopping before `interim_transcript_hash`;
- `BasicCredential` writing its identity under a u8 prefix, as `Identity`
  does;
- `new_from_nodes` taking the index parity of blank nodes the wrong way
  round.

## Findings

The violation runs show five disagreements between the code and what the
spec requires:

1. **`secret_tree.rs:298`.** `get_secret` initializes a sender's ratchets
   only for generation 0. A reordered or lost first message therefore makes
   the core panic. Spec 7 says the core never panics on adversary input.
2. **`mod.rs:499`.** For a blank copath node, `update_direct_path` uses
   `path_keypairs[copath node]` and position 0 of the resolution. Spec 4.4.4
   uses the recipient's own entry of the resolution. This needs 5 members:
   A commits, C is removed, E commits.
3. **`mod.rs:384`.** `free_leaves` pushes leaf number i instead of node 2i.
   An add after a remove lands on a parent slot or on another member. The
   model takes `dirpath` of the root to be empty (`DirPathRoot`, spec 4.1;
   `treemath.rs` is not among the sources). Were it `[root]`, the same
   misplacement (line 738) would instead make line 746 panic on the
   misplaced leaf's path. This defect is also why the refinement is
   checked in `group_churn` and `group_grow` and not in `group_mixed`:
   where removes and adds mix, the identities on the leaf slots no longer
   follow the abstract membership.
4. **`mod.rs:712`.** Two remove proposals for one member make
   `create_commit` panic. `split_at` at line 736 and a lone member's path
   commit at line 819 panic in the same way.
5. **`mod.rs:748`.** An add into a freed leaf appends to the
   `unmerged_leaves` of its non-blank ancestors. `Node::hash` covers
   `unmerged_leaves`, and nothing recomputes the chain. The sibling's
   ParentHash extension then names the old hash, and `verify_integrity`
   rejects the tree. The trace: b removes a, then b's add-only commit puts
   c on leaf 0. Spec 3 requires the chain to hold.

## Bounds and why they are enough

- **Tree math.** Every size up to 11 leaves covers the shapes below:
  - full trees;
  - trees whose right edge needs `right` to climb back into the tree (3, 5,
    6, 7, 9 to 11);
  - dirpaths of up to 4 levels.
- **Secret tree.**
  - 3 leaves: a non-full tree, with one subtree of two leaves and one lone
    leaf.
  - Generations up to 2 and a window of 1: eviction from the window and
    requests from the past and the future both happen.
- **Group churn.**
  - 4 members and 7 fresh keys: two update or remove commits by different
    members, with recipients on both sides of the root.
  - Removes blank ancestors that others have keys for.
  - The blank-copath defect needs a level-2 copath node whose resolution is
    split. That first exists with 5 leaves, so it has its own run with 5
    members.
  - A 5-member run of the full mix exceeds 5 minutes.
- **Group grow.**
  - From the founder alone to 4 members, with path-refreshing add commits
    and updates.
  - Covers appends that grow the tree across a power of two (root moves).
- **Group mixed.** 2 members and 1 outsider, all operations, 7 keys:
  - A remove of the first member frees leaf 0, and a later add reuses it.
  - Removing the second member and then adding places the joiner at
    parent slot 1, through the `free_leaves` defect. The model takes no
    step from that malformed tree (`WellFormed`), and `TreeHashBindsTree`
    is stated of well-formed trees. The other orders of add, update and
    remove commits continue past it.
  - 8 keys take 7 minutes.
- **Codec.** Each field takes two or three values: an empty and a
  non-empty byte string, different contents in the fields of one type
  (the two proposal queues, the seven secrets), so that an exchange is
  visible. Bundles lists are empty, one bundle, or an empty and a
  two-byte bundle. Ciphersuites are 1, 258 and 65535. The generation
  takes 0, 255, 256, 2^24 + 1 and 2^31 - 1: carries across each byte
  boundary. TLC's integers are signed 32-bit, so 2^32 - 1 is not
  checked. Every prefix of every encoding is tried for truncation.
- **Queue.** `MaxPending` = 2 allows a commit holding two proposals of
  different members. That is what the double-remove panic and the free-leaf
  reuse need.

## Fairness

All properties are safety properties, and no fairness is assumed. The
code is a library whose operations are called by its user, so nothing
obliges any proposal to be committed or any message to be received. The
bounds on keys and the queue end every behaviour. A crashed committer also
takes no further step. For these reasons the group cfgs set
`CHECK_DEADLOCK FALSE`. So does the secret-tree cfg, where a panic ends the
instance.

## Not modelled

- The group context's use of the tree hash. The members share one tree
  in the model, so their tree hashes agree by construction. The group
  context of a commit is its epoch alone. `TreeHashBindsTree` checks
  the other direction: equal tree hashes mean equal trees.
- The key-package signature check of `verify_integrity`. Key packages
  are not in the sources, and the tree keeps a leaf's HPKE key alone.
- The cryptography behind signing. Signatures are symbolic (`Credentials`),
  so a forgery is outside the model.
- The codecs of types not among the sources (`crate::codec`, GroupConfig,
  GroupContext, ASTree, Tree, ProposalQueue, KeyPackageBundle, the
  signature keys). They are opaque byte strings, and only the order and
  framing of the fields around them are checked. In particular, what
  `encode_vec` does with a payload longer than its prefix allows is not
  known. An `Identity` id of 256 bytes or more, which a `BasicCredential`
  can carry, is therefore listed as a hazard without a property.
- `EpochSecrets::new`, whose fields are all empty. The founder's first
  secrets are fresh roots, as spec 4.5 creates a group.
- The seeding of `SecretTree` by the key schedule. `EpochSecrets` in
  `schedule.rs` has no encryption secret, and the Group code that would
  create the secret tree is not among the sources. `SecretTree` therefore
  starts from one symbolic root secret.
- Concurrent commits in one epoch, and rejection of a commit built on an old
  epoch. The Group code is not among the sources, and the model orders
  commits totally.
- Behaviour after a member's tree has become malformed.
- Confidentiality of the Welcome's GroupInfo from the members a commit
  removes. `get_new_epoch_secrets` derives the welcome secret from the
  previous `init_secret` alone (`schedule.rs:128`), as spec 4.2 step 1
  prescribes, and the removed members hold that secret. This is the
  protocol version the spec follows rather than a defect of the code, so
  it is listed as a hazard and not checked.

## Open work

The following could not be done within the limits of the project; they are
the natural next steps for whoever extends it.

1. The append/unmerged-leaves hazard (`mod.rs:735`) needs 8 leaves. In an
   8-leaf group, finding 2 (the stale key for a blank copath node) violates
   `CommitSecretAgreement` first: a commits an empty path, c proposes an
   update, e commits. Isolating
   it needs a property of its own: the tree invariant that every non-blank
   parent above a member's leaf has a key the member knows or lists the
   leaf as unmerged. It would be violated by finding 2 as well, so it needs
   the blank-copath defect removed from the model first.
2. Canonical decoding of credentials: every byte string that decodes
   re-encodes to itself. This needs a probe of bounded byte strings that
   does not multiply the codec state space.
3. The `assert_eq!` of `update_direct_path` (`mod.rs:516`) panics on a
   DirectPath whose public keys do not match the sealed path secrets. The
   model's committers are honest, so no commit of it reaches that assert;
   checking it needs a tampering committer and a run of its own.
