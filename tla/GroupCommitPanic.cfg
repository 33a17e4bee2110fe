\* The key and queue bounds stop the model, and a crashed committer takes no
\* further step: the group may stop.
CHECK_DEADLOCK FALSE
CONSTANTS
    a = a
    b = b
    c = c
    d = d
    e = e
    Members = {a, b, c}
    Founder = a
    InitialGroup = {a, b, c}
    MaxKeys = 5
    Ops = {"update", "remove"}
    MaxPending = 2
    AddOnlyPath = FALSE
    None = None
SPECIFICATION Spec
INVARIANTS CommitNeverPanics
