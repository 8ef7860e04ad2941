SPECIFICATION Spec
CONSTANTS
    Workload = {"d1", "s1"}
    Deployments = {"d1"}
    StatefulSets = {"s1"}
    MaxReplicas = 2
    MaxChanges = 3
    Nodes = {"n1", "n2"}
    MaxTicks = 2
    Faults = {"api", "helm", "cancel"}
INVARIANTS
    TypeOK
    AlarmIsJustified
    QuietIsJustified
    RolloutIsJustified
    SnapshotIsReal
PROPERTIES
    CallEnds
