\* The event store through crashes, power failures and restarts.
CONSTANTS
    Events = {e1, e2, e3}
    Snapshots = {s1}
    CheckpointEvery = 2
SPECIFICATION Spec
INVARIANTS
    TypeOK
    ReplayKeepsTheOrder
    NothingForgotten
    FewEventsAtRisk
PROPERTY EventuallySettled
