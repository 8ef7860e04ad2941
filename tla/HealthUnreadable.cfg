SPECIFICATION Spec
CONSTANTS
    Workload = {"d1", "s1"}
    Deployments = {"d1"}
    StatefulSets = {"s1"}
    MaxReplicas = 1
    MaxChanges = 1
    Nodes = {"n1"}
    MaxTicks = 0
    Faults = {"api"}
INVARIANTS
    HealthyMeansAll
