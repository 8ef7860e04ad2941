--------------------------- MODULE KubernetesClient ---------------------------
(***************************************************************************)
(* The reading operations of the Kubernetes adapter                        *)
(* (internal/adapters/kubernetes/client.go), a step for each request to    *)
(* the API server, while the cluster goes on: GetResourceHealth,           *)
(* WaitForRollout, ValidateCluster and GetClusterInfo.  There is one call; *)
(* calls that only read do not disturb each other.                         *)
(*                                                                         *)
(* The ticker of WaitForRollout is external: it ticks every five seconds   *)
(* and drops the ticks that come while a look is still under way.          *)
(***************************************************************************)
EXTENDS Nodes

CONSTANTS
    Deployments, StatefulSets,    \* of the workloads; the rest are DaemonSets
    MaxTicks,                     \* ticks before the deadline of a rollout
    Faults

ASSUME KindsAssumption == Deployments \cup StatefulSets \subseteq Workload
ASSUME WorkloadAssumption == Workload # {}
ASSUME MaxTicksAssumption == MaxTicks \in Nat
ASSUME FaultsAssumption == Faults \subseteq {"api", "helm", "cancel"}

VARIABLES
    pc,
    health,       \* the entries of GetResourceHealth so far
    target,       \* the workload a rollout is about
    ticks,        \* at most so many ticks come before its deadline
    looked,       \* history: the target was looked at
    verdict,      \* what ValidateCluster says
    inventory,    \* what GetClusterInfo says
    failed        \* history: a request has failed

clusterVars == <<workloads, nodes>>
callVars == <<health, target, ticks, looked, verdict, inventory, failed>>

Rollout == {"rolled out", "timed out", "cancelled"}
Ended == Rollout \cup {"answered", "error"}
Step == {"idle", "deployments", "statefulsets", "waiting", "looking",
         "reach", "check nodes", "version", "namespaces", "nodes", "crds",
         "releases"} \cup Ended

NodeStatus == {"READY", "NOT_READY", "UNKNOWN"}
NodeLists == UNION {[present -> NodeStatus] : present \in SUBSET Nodes}
HealthStatus == {"HEALTHY", "DEGRADED"}
Verdict == [valid : BOOLEAN, warned : BOOLEAN]
Inventory == [nodes : NodeLists, crds : BOOLEAN, releases : BOOLEAN]

CallOK ==
    /\ pc \in Step
    /\ health \subseteq [workload : Workload, ready : BOOLEAN,
                         status : HealthStatus]
    /\ target \in Workload
    /\ ticks \in 0..MaxTicks
    /\ looked \in BOOLEAN /\ failed \in BOOLEAN
    /\ verdict \in Verdict
    /\ inventory \in Inventory

CallInit ==
    /\ pc = "idle"
    /\ health = {} /\ failed = FALSE
    /\ looked = FALSE
    /\ verdict = [valid |-> TRUE, warned |-> FALSE]
    /\ inventory = [nodes |-> [n \in {} |-> "UNKNOWN"], crds |-> FALSE,
                    releases |-> FALSE]

From(step) == pc = step /\ UNCHANGED clusterVars
Goto(step) == pc' = step

\* A request to the API server fails.
RequestFails == "api" \in Faults /\ failed' = TRUE

-----------------------------------------------------------------------------
(* GetResourceHealth                                                       *)

\* Mutant of IsReady: some replica is ready.
IsReadyPartly(w) == reported[w] > 0

\* A Deployment and a StatefulSet are ready when the status reports as many
\* replicas as the spec wants, a DaemonSet as many as the status wants.
IsReady(w) == reported[w] = replicas[w]

Entry(w, ready) ==
    [workload |-> w, ready |-> ready,
     status |-> IF ready THEN "HEALTHY" ELSE "DEGRADED"]
Entries(listed) == {Entry(w, IsReady(w)) : w \in listed}

\* Mutant of List: a list that fails counts as an entry without a name.
ListNamingNothing(listed) ==
    \/ /\ health' = health \cup Entries(listed)
       /\ UNCHANGED failed
    \/ /\ RequestFails
       /\ health' = health \cup {Entry("unnamed", FALSE)}

\* The error of a list is dropped, and with it the entries.
List(listed) ==
    \/ health' = health \cup Entries(listed) /\ UNCHANGED failed
    \/ RequestFails /\ UNCHANGED health

ListDeployments ==
    /\ From("deployments") /\ Goto("statefulsets")
    /\ List(Deployments)
    /\ UNCHANGED <<target, ticks, looked, verdict, inventory>>

\* Mutant of ListStatefulSets: it lists the Deployments again.
ListDeploymentsAgain ==
    /\ From("statefulsets") /\ Goto("answered")
    /\ List(Deployments)
    /\ UNCHANGED <<target, ticks, looked, verdict, inventory>>

ListStatefulSets ==
    /\ From("statefulsets") /\ Goto("answered")
    /\ List(StatefulSets)
    /\ UNCHANGED <<target, ticks, looked, verdict, inventory>>

-----------------------------------------------------------------------------
(* WaitForRollout                                                          *)

\* Mutant of Tick: the deadline is set anew in every round.
TickDeadlineMoves ==
    /\ From("waiting")
    /\ IF ticks = 0 THEN Goto("timed out") ELSE Goto("looking")
    /\ UNCHANGED callVars

\* The ticker ticks; ticks may have been dropped.  A tick after the deadline
\* ends the call before it looks.
Tick ==
    /\ From("waiting")
    /\ IF ticks = 0
       THEN Goto("timed out") /\ UNCHANGED ticks
       ELSE Goto("looking") /\ ticks' \in 0..(ticks - 1)
    /\ UNCHANGED <<health, target, looked, verdict, inventory, failed>>

\* Mutant of Look: a workload that nobody wants replicas of is not ready.
LookForReplicas ==
    /\ From("looking")
    /\ \/ /\ looked' = TRUE
          /\ Goto(IF IsReady(target) /\ reported[target] > 0
                  THEN "rolled out" ELSE "waiting")
          /\ UNCHANGED failed
       \/ RequestFails /\ Goto("waiting") /\ UNCHANGED looked
    /\ UNCHANGED <<health, target, ticks, verdict, inventory>>

\* isWorkloadReady; an error, an unknown kind too, is logged.
Look ==
    /\ From("looking")
    /\ \/ /\ looked' = TRUE
          /\ Goto(IF IsReady(target) THEN "rolled out" ELSE "waiting")
          /\ UNCHANGED failed
       \/ RequestFails /\ Goto("waiting") /\ UNCHANGED looked
    /\ UNCHANGED <<health, target, ticks, verdict, inventory>>

Cancelled ==
    /\ From("waiting") /\ "cancel" \in Faults
    /\ Goto("cancelled")
    /\ UNCHANGED callVars

-----------------------------------------------------------------------------
(* ValidateCluster                                                         *)

ReachServer ==
    /\ From("reach")
    /\ \/ Goto("check nodes") /\ UNCHANGED <<verdict, failed>>
       \/ /\ RequestFails
          /\ Goto("answered") /\ verdict' = [verdict EXCEPT !.valid = FALSE]
    /\ UNCHANGED <<health, target, ticks, looked, inventory>>

\* A node without a Ready condition is UNKNOWN; one whose condition is not
\* known to the cluster is NOT_READY.
StatusOf(condition) ==
    CASE condition = "none" -> "UNKNOWN"
      [] condition = "True" -> "READY"
      [] OTHER -> "NOT_READY"
ListNodes == [n \in DOMAIN nodes |-> StatusOf(nodes[n])]

\* Mutant of Warned: only NOT_READY counts as not ready.
WarnedOfNotReady(list) == DOMAIN list = {}
                          \/ \E n \in DOMAIN list : list[n] = "NOT_READY"

\* No nodes, or some that are not ready, only make a warning.
Warned(list) == DOMAIN list = {} \/ \E n \in DOMAIN list : list[n] # "READY"

CheckNodes ==
    /\ From("check nodes") /\ Goto("answered")
    /\ \/ verdict' = [verdict EXCEPT !.warned = Warned(ListNodes)]
          /\ UNCHANGED failed
       \/ RequestFails /\ verdict' = [verdict EXCEPT !.valid = FALSE]
    /\ UNCHANGED <<health, target, ticks, looked, inventory>>

-----------------------------------------------------------------------------
(* GetClusterInfo: without version, namespaces or nodes there is no answer *)

\* The request of this step succeeds, and the next one follows.
Fetch(step, next) ==
    /\ From(step)
    /\ \/ Goto(next) /\ UNCHANGED failed
       \/ RequestFails /\ Goto("error")
    /\ UNCHANGED <<health, target, ticks, looked, verdict, inventory>>

GetServerVersion == Fetch("version", "namespaces")
ListNamespaces == Fetch("namespaces", "nodes")

FetchNodes ==
    /\ From("nodes")
    /\ \/ /\ Goto("crds")
          /\ inventory' = [inventory EXCEPT !.nodes = ListNodes]
          /\ UNCHANGED failed
       \/ RequestFails /\ Goto("error") /\ UNCHANGED inventory
    /\ UNCHANGED <<health, target, ticks, looked, verdict>>

\* The error of ListCRDs is dropped.
ListCRDs ==
    /\ From("crds") /\ Goto("releases")
    /\ \/ inventory' = [inventory EXCEPT !.crds = TRUE] /\ UNCHANGED failed
       \/ RequestFails /\ UNCHANGED inventory
    /\ UNCHANGED <<health, target, ticks, looked, verdict>>
=============================================================================
