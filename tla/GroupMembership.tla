-------------------------- MODULE GroupMembership ---------------------------
(***************************************************************************)
(* What the proposal / commit machine promises about membership (spec 3,  *)
(* 4.5): proposals queue up; a commit by a member that the queue does not *)
(* remove advances the epoch by one and makes the group exactly the old   *)
(* one without the removed and with the added identities; the queue is    *)
(* drained.  Updates change no membership.  Nothing here mentions trees,  *)
(* keys or leaves.                                                         *)
(***************************************************************************)
EXTENDS Naturals, Sequences

CONSTANTS Identities

VARIABLES
    members,   \* the identities in the group
    queue,     \* the queued proposals: [kind, who]
    epoch      \* the group's epoch

vars == <<members, queue, epoch>>

Removed(q) == {q[i].who : i \in {j \in DOMAIN q : q[j].kind = "remove"}}
Added(q)   == {q[i].who : i \in {j \in DOMAIN q : q[j].kind = "add"}}

Init == members \subseteq Identities /\ members # {} /\ queue = << >> /\ epoch \in Nat

\* A member proposes to add an outsider, to update itself, or to remove a member.
Propose(kind, who) ==
    /\ \/ kind = "add" /\ who \notin members
       \/ kind \in {"update", "remove"} /\ who \in members
    /\ queue' = Append(queue, [kind |-> kind, who |-> who])
    /\ UNCHANGED <<members, epoch>>

CommitStep(c) ==
    /\ c \in members \ Removed(queue)
    /\ members' = (members \ Removed(queue)) \cup Added(queue)
    /\ queue' = << >>
    /\ epoch' = epoch + 1

Next ==
    \/ \E k \in {"add", "update", "remove"}, w \in Identities : Propose(k, w)
    \/ \E c \in Identities : CommitStep(c)

Spec == Init /\ [][Next]_vars

====
