\* The key and queue bounds stop the model, and a crashed committer takes no
\* further step: the group may stop.
CHECK_DEADLOCK FALSE
CONSTANTS
    a = a
    b = b
    c = c
    d = d
    e = e
    Members = {a, b, c, d}
    Founder = a
    InitialGroup = {a}
    MaxKeys = 7
    Ops = {"add", "update"}
    MaxPending = 2
    AddOnlyPath = TRUE
    None = None
SPECIFICATION Spec
INVARIANTS MembersOnLeaves TreeIntegrity TreeHashBindsTree
PROPERTY AbstractSpec
