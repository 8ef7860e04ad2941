---------------------------- MODULE ClusterService ----------------------------
(***************************************************************************)
(* The cluster service (internal/application/cluster/service.go) and the   *)
(* tools over it: health_check, generate_rca, validate_cluster and         *)
(* cluster_inventory.  validate_release answers with the entries of        *)
(* health_check, and analyze_failure with the text of generate_rca and a   *)
(* fixed one.  WaitForRollout has no tool; its call stands for any user of *)
(* the port.                                                               *)
(***************************************************************************)
EXTENDS KubernetesClient

VARIABLES
    call,          \* what is called
    wasReady,      \* history: the workloads that were ready during the call,
    wasUnready,    \* and those that were not
    nodesSeen      \* history: the nodes there were during the call

history == <<wasReady, wasUnready, nodesSeen>>
vars == <<clusterVars, pc, callVars, call, history>>

FirstStep ==
    [health_check |-> "deployments", generate_rca |-> "deployments",
     wait_for_rollout |-> "waiting", validate_cluster |-> "reach",
     cluster_inventory |-> "version"]

TypeOK ==
    /\ WorkloadsOK /\ nodes \in NodeStates
    /\ CallOK
    /\ call \in DOMAIN FirstStep
    /\ wasReady \subseteq Workload /\ wasUnready \subseteq Workload
    /\ nodesSeen \subseteq NodeStates

\* The cluster has settled; what a call does not read stays as it is here.
ReadsNodes == call \in {"validate_cluster", "cluster_inventory"}

Init ==
    /\ call \in DOMAIN FirstStep
    /\ WorkloadsInit
    /\ IF ReadsNodes THEN NodesInit ELSE nodes = [n \in {} |-> "True"]
    /\ CallInit
    /\ IF call = "wait_for_rollout"
       THEN target \in Workload /\ ticks \in 0..MaxTicks
       ELSE target = (CHOOSE w \in Workload : TRUE) /\ ticks = 0
    /\ wasReady = {} /\ wasUnready = {} /\ nodesSeen = {}

Ready == {w \in Workload : Satisfied(w)}

Call ==
    /\ From("idle") /\ Goto(FirstStep[call])
    /\ wasReady' = Ready /\ wasUnready' = Workload \ Ready
    /\ nodesSeen' = {nodes}
    /\ UNCHANGED <<callVars, call>>

\* What health_check makes of the entries.
Healthy == \A entry \in health : entry.ready

\* What generate_rca finds in them.
Issues == {entry \in health : entry.status # "HEALTHY"}

\* GetInventory adds Helm's releases; that they cannot be listed is logged.  A
\* release without Info would make it panic (r.Info.LastDeployed): Helm stores
\* none.
ListReleases ==
    /\ From("releases") /\ Goto("answered")
    /\ \/ inventory' = [inventory EXCEPT !.releases = TRUE]
       \/ "helm" \in Faults /\ UNCHANGED inventory
    /\ UNCHANGED <<health, target, ticks, looked, verdict, failed>>

ClusterGoesOn ==
    /\ pc \notin Ended
    /\ IF ReadsNodes THEN NodesStep ELSE ClusterStep /\ UNCHANGED nodes
    /\ IF pc = "idle" THEN UNCHANGED history
       ELSE /\ wasReady' = wasReady \cup Ready'
            /\ wasUnready' = wasUnready \cup (Workload \ Ready')
            /\ nodesSeen' = nodesSeen \cup {nodes'}
    /\ UNCHANGED <<pc, callVars, call>>

Proceed ==
    /\ \/ ListDeployments
       \/ ListStatefulSets
       \/ Tick
       \/ Look
       \/ ReachServer
       \/ CheckNodes
       \/ GetServerVersion
       \/ ListNamespaces
       \/ FetchNodes
       \/ ListCRDs
       \/ ListReleases
    /\ UNCHANGED <<call, history>>

Cancel == Cancelled /\ UNCHANGED <<call, history>>

Returned == pc \in Ended /\ UNCHANGED vars

Next ==
    \/ Call
    \/ Proceed
    \/ Cancel
    \/ ClusterGoesOn
    \/ Returned

\* The ticker goes on and a request to the API server ends, one way or the
\* other.  Nothing forces a call, nor the cluster to settle.
Spec == Init /\ [][Next]_vars /\ WF_vars(Proceed)
-----------------------------------------------------------------------------
(* Properties                                                              *)

\* The tool says that something is wrong.
Alarm == IF call = "health_check" THEN ~Healthy ELSE Issues # {}
Summed == call \in {"health_check", "generate_rca"} /\ pc = "answered"

\* The two lists of GetResourceHealth are taken at different times.  Even so,
\* an answer of health_check or generate_rca that something is wrong names a
\* workload that was not ready at some time of the call,
AlarmIsJustified ==
    Summed /\ Alarm =>
        \E entry \in health : entry.workload \in wasUnready /\ ~entry.ready

\* and when both lists came, an answer that all is well has seen every
\* Deployment and StatefulSet ready at some time of the call.
QuietIsJustified ==
    Summed /\ ~Alarm /\ ~failed =>
        Deployments \cup StatefulSets \subseteq
            wasReady \cap {entry.workload : entry \in health}

\* WaitForRollout reports a rollout only of a workload that was ready while it
\* waited, and one whose looks all came back too late only if it was not:
\* however replicas are scaled meanwhile, to none as well.
RolloutIsJustified ==
    /\ pc = "rolled out" => target \in wasReady
    /\ pc = "timed out" /\ looked => target \in wasUnready

\* validate_cluster and cluster_inventory look at the nodes once, among other
\* requests.  What they say of the nodes, that all are well, that some are
\* not, or how each is, was so at some time of the call; and a cluster is
\* found invalid only for a request that failed.
NodesWell(snapshot) ==
    DOMAIN snapshot # {} /\ \A n \in DOMAIN snapshot : snapshot[n] = "True"

SnapshotIsReal ==
    /\ call = "validate_cluster" /\ pc = "answered" =>
           IF verdict.valid
           THEN \E s \in nodesSeen : NodesWell(s) <=> ~verdict.warned
           ELSE failed
    /\ call = "cluster_inventory" /\ pc = "answered" =>
           \E s \in nodesSeen :
               /\ DOMAIN s = DOMAIN inventory.nodes
               /\ \A n \in DOMAIN s :
                      s[n] = "True" <=> inventory.nodes[n] = "READY"

\* Whatever fails, however a workload comes and goes, and whether or not it
\* is of a kind the adapter knows, a call ends.
CallEnds == pc \notin Ended \cup {"idle"} ~> pc \in Ended

-----------------------------------------------------------------------------
(* What the documentation claims and the code does not do                  *)

\* health_check checks the health of all resources in a release (tools.md):
\* what is healthy was ready at some time of the call.
HealthyMeansAll ==
    Summed /\ call = "health_check" /\ Healthy => Workload \subseteq wasReady
=============================================================================
