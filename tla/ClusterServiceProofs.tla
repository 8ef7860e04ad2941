------------------------ MODULE ClusterServiceProofs ------------------------
(***************************************************************************)
(* Proofs about the answers of the cluster service, for any workloads,     *)
(* nodes, replicas, changes and faults, however often the cluster changes  *)
(* between the requests of a call.                                         *)
(***************************************************************************)
EXTENDS ClusterService, TLAPS

USE DEF From, Goto, RequestFails

-----------------------------------------------------------------------------
(* The cluster goes on                                                     *)

\* Whatever happens to the workloads, replicas and pods stay in their ranges.
LEMMA WorkloadsStay ==
    ASSUME WorkloadsOK, ClusterStep
    PROVE  WorkloadsOK'
  <1> USE DEF WorkloadsOK, Counts
  <1>1. PICK w \in Workload : \/ Scale(w) \/ PodFails(w) \/ PodStarts(w)
                              \/ PodStops(w) \/ StatusReported(w)
    BY DEF ClusterStep
  <1>0. /\ pods[w] \in 0..MaxReplicas /\ replicas[w] \in 0..MaxReplicas
        /\ reported[w] \in 0..MaxReplicas
    OBVIOUS
  <1> USE MaxReplicasAssumption, MaxChangesAssumption
  <1>2. CASE Scale(w)
    <2>1. PICK n \in 0..MaxReplicas : replicas' = [replicas EXCEPT ![w] = n]
      BY <1>2 DEF Scale
    <2> QED
      BY <1>2, <2>1 DEF Scale, Change
  <1>3. CASE PodFails(w)
    <2>1. pods[w] - 1 \in 0..MaxReplicas
      BY <1>0, <1>3 DEF PodFails
    <2> QED
      BY <1>3, <2>1 DEF PodFails, Change
  <1>4. CASE PodStarts(w)
    <2>1. pods[w] + 1 \in 0..MaxReplicas
      BY <1>0, <1>4 DEF PodStarts
    <2> QED
      BY <1>4, <2>1 DEF PodStarts
  <1>5. CASE PodStops(w)
    <2>1. pods[w] - 1 \in 0..MaxReplicas
      BY <1>0, <1>5 DEF PodStops
    <2> QED
      BY <1>5, <2>1 DEF PodStops
  <1>6. CASE StatusReported(w)
    BY <1>0, <1>6 DEF StatusReported
  <1> QED
    BY <1>1, <1>2, <1>3, <1>4, <1>5, <1>6

\* A function on some of the nodes is a state of the nodes.
LEMMA NodeStateIntro ==
    ASSUME NEW present \in SUBSET Nodes, NEW f \in [present -> Conditions]
    PROVE  f \in NodeStates
  BY DEF NodeStates

\* A state of the nodes is a function on the nodes that are there.
LEMMA NodeStateElim ==
    ASSUME NEW s \in NodeStates
    PROVE  DOMAIN s \subseteq Nodes /\ s \in [DOMAIN s -> Conditions]
  BY DEF NodeStates

\* However nodes join, report and leave, they stay nodes with a condition.
LEMMA NodesStay ==
    ASSUME nodes \in NodeStates, changes \in 0..MaxChanges, NodesStep
    PROVE  nodes' \in NodeStates /\ changes' \in 0..MaxChanges
  <1>0. DOMAIN nodes \subseteq Nodes /\ nodes \in [DOMAIN nodes -> Conditions]
    BY NodeStateElim
  <1>1. PICK n \in Nodes : NodeJoins(n) \/ NodeReports(n) \/ NodeLeaves(n)
    BY DEF NodesStep
  <1>2. changes' \in 0..MaxChanges
    BY <1>1, MaxChangesAssumption
    DEF NodeJoins, NodeReports, NodeLeaves, Change
  <1>3. CASE NodeJoins(n)
    <2>1. nodes' \in [DOMAIN nodes \cup {n} -> Conditions]
      BY <1>0, <1>3 DEF NodeJoins, Conditions
    <2> QED
      BY <1>0, <1>2, <2>1, NodeStateIntro
  <1>4. CASE NodeReports(n)
    <2>1. nodes' \in [DOMAIN nodes -> Conditions]
      BY <1>0, <1>4 DEF NodeReports
    <2> QED
      BY <1>0, <1>2, <2>1, NodeStateIntro
  <1>5. CASE NodeLeaves(n)
    <2>1. nodes' \in [DOMAIN nodes \ {n} -> Conditions]
      BY <1>0, <1>5 DEF NodeLeaves
    <2> QED
      BY <1>0, <1>2, <2>1, NodeStateIntro
  <1> QED
    BY <1>1, <1>3, <1>4, <1>5

-----------------------------------------------------------------------------
(* Types                                                                   *)

LEMMA StatusIsNodeStatus ==
    ASSUME NEW condition
    PROVE  StatusOf(condition) \in NodeStatus
  BY DEF StatusOf, NodeStatus

\* What is said of the nodes is a list of them.
LEMMA ListIsNodeList ==
    ASSUME nodes \in NodeStates
    PROVE  ListNodes \in NodeLists
  <1>1. ListNodes \in [DOMAIN nodes -> NodeStatus]
    BY StatusIsNodeStatus DEF ListNodes
  <1>2. DOMAIN nodes \in SUBSET Nodes
    BY NodeStateElim
  <1> QED
    BY <1>1, <1>2 DEF NodeLists

\* What GetResourceHealth makes of a list are entries.
LEMMA EntriesAreEntries ==
    ASSUME NEW listed \in SUBSET Workload
    PROVE  Entries(listed) \subseteq
               [workload : Workload, ready : BOOLEAN, status : HealthStatus]
  <1>1. \A w \in listed : IsReady(w) \in BOOLEAN
    BY DEF IsReady
  <1>2. ASSUME NEW w \in Workload, NEW ready \in BOOLEAN
        PROVE  Entry(w, ready) \in [workload : Workload, ready : BOOLEAN,
                                    status : HealthStatus]
    BY DEF Entry, HealthStatus
  <1> QED
    BY <1>1, <1>2 DEF Entries

\* A list that came adds entries to the answer, one that failed adds none.
LEMMA ListIsHealth ==
    ASSUME CallOK, NEW listed \in SUBSET Workload, List(listed)
    PROVE  /\ health' \subseteq [workload : Workload, ready : BOOLEAN,
                                 status : HealthStatus]
           /\ failed' \in BOOLEAN
  BY EntriesAreEntries DEF CallOK, List

\* A request of a call leaves the call with values of their types.
LEMMA RequestKeepsTypes ==
    ASSUME CallOK, nodes \in NodeStates, Proceed \/ Cancel
    PROVE  CallOK'
  <1> USE DEF Step, Ended, Rollout
  <1>0. Deployments \subseteq Workload /\ StatefulSets \subseteq Workload
    BY KindsAssumption
  <1>1. CASE ListDeployments
    <2>1. List(Deployments)
      BY <1>1 DEF ListDeployments
    <2>2. /\ health' \subseteq [workload : Workload, ready : BOOLEAN,
                                status : HealthStatus]
          /\ failed' \in BOOLEAN
      BY <1>0, <2>1, ListIsHealth
    <2> QED
      BY <1>1, <2>2 DEF CallOK, ListDeployments
  <1>2. CASE ListStatefulSets
    <2>1. List(StatefulSets)
      BY <1>2 DEF ListStatefulSets
    <2>2. /\ health' \subseteq [workload : Workload, ready : BOOLEAN,
                                status : HealthStatus]
          /\ failed' \in BOOLEAN
      BY <1>0, <2>1, ListIsHealth
    <2> QED
      BY <1>2, <2>2 DEF CallOK, ListStatefulSets
  <1>3. CASE Tick
    <2>1. ticks' \in 0..MaxTicks
      <3>1. ticks' = ticks \/ ticks' \in 0..(ticks - 1)
        BY <1>3 DEF Tick
      <3>2. ticks \in 0..MaxTicks /\ MaxTicks \in Nat
        BY MaxTicksAssumption DEF CallOK
      <3> QED
        BY <3>1, <3>2
    <2> QED
      BY <1>3, <2>1 DEF CallOK, Tick
  <1>4. CASE Look
    BY <1>4 DEF CallOK, Look
  <1>5. CASE ReachServer
    BY <1>5 DEF CallOK, ReachServer, Verdict
  <1>6. CASE CheckNodes
    <2>1. Warned(ListNodes) \in BOOLEAN
      BY DEF Warned
    <2>2. verdict' \in Verdict /\ failed' \in BOOLEAN
      BY <1>6, <2>1 DEF CallOK, CheckNodes, Verdict
    <2> QED
      BY <1>6, <2>2 DEF CallOK, CheckNodes
  <1>7. CASE GetServerVersion \/ ListNamespaces
    BY <1>7 DEF CallOK, GetServerVersion, ListNamespaces, Fetch
  <1>8. CASE FetchNodes
    <2>1. inventory' \in Inventory
      BY <1>8, ListIsNodeList DEF CallOK, FetchNodes, Inventory
    <2> QED
      BY <1>8, <2>1 DEF CallOK, FetchNodes
  <1>9. CASE ListCRDs
    <2>1. inventory' \in Inventory
      BY <1>9 DEF CallOK, ListCRDs, Inventory
    <2> QED
      BY <1>9, <2>1 DEF CallOK, ListCRDs
  <1>10. CASE ListReleases
    <2>1. inventory' \in Inventory
      BY <1>10 DEF CallOK, ListReleases, Inventory
    <2> QED
      BY <1>10, <2>1 DEF CallOK, ListReleases
  <1>11. CASE Cancel
    BY <1>11 DEF CallOK, Cancel, Cancelled, callVars
  <1> QED
    BY <1>1, <1>2, <1>3, <1>4, <1>5, <1>6, <1>7, <1>8, <1>9, <1>10, <1>11
    DEF Proceed

\* Requests of a call only read: the cluster and its history stay.
LEMMA RequestLeavesCluster ==
    ASSUME Proceed \/ Cancel
    PROVE  UNCHANGED <<workloads, nodes, call, history>>
  BY DEF Proceed, Cancel, Cancelled, ListDeployments, ListStatefulSets, Tick,
         Look, ReachServer, CheckNodes, GetServerVersion, ListNamespaces,
         Fetch, FetchNodes, ListCRDs, ListReleases, clusterVars

\* The cluster, the call and its history keep their types.
THEOREM TypeCorrect == Spec => []TypeOK
  <1>1. Init => TypeOK
    <2> SUFFICES ASSUME Init PROVE TypeOK
      OBVIOUS
    <2>1. WorkloadsOK
      BY MaxReplicasAssumption, MaxChangesAssumption
      DEF Init, WorkloadsInit, WorkloadsOK, Counts
    <2>2. nodes \in NodeStates
      <3>1. CASE ReadsNodes
        <4>1. PICK present \in SUBSET Nodes :
                  nodes = [n \in present |-> "True"]
          BY <3>1 DEF Init, NodesInit
        <4> QED
          BY <4>1, NodeStateIntro DEF Conditions
      <3>2. CASE ~ReadsNodes
        <4>1. nodes \in [{} -> Conditions]
          BY <3>2 DEF Init
        <4> QED
          BY <4>1, NodeStateIntro
      <3> QED
        BY <3>1, <3>2
    <2>3. CallOK
      <3>1. target \in Workload /\ ticks \in 0..MaxTicks
        BY WorkloadAssumption, MaxTicksAssumption DEF Init
      <3>2. inventory \in Inventory
        <4>1. [n \in {} |-> "UNKNOWN"] \in [{} -> NodeStatus]
          OBVIOUS
        <4>2. [n \in {} |-> "UNKNOWN"] \in NodeLists
          BY <4>1 DEF NodeLists
        <4> QED
          BY <4>2 DEF Init, CallInit, Inventory
      <3> QED
        BY <3>1, <3>2 DEF Init, CallInit, CallOK, Step, Verdict
    <2> QED
      BY <2>1, <2>2, <2>3 DEF Init, TypeOK
  <1>2. TypeOK /\ [Next]_vars => TypeOK'
    <2> SUFFICES ASSUME TypeOK, [Next]_vars PROVE TypeOK'
      OBVIOUS
    <2>1. CASE Call
      <3>1. CallOK'
        <4>1. FirstStep[call] \in Step
          <5>1. call \in {"health_check", "generate_rca", "wait_for_rollout",
                          "validate_cluster", "cluster_inventory"}
            BY DEF TypeOK, FirstStep
          <5>2. /\ FirstStep["health_check"] = "deployments"
                /\ FirstStep["generate_rca"] = "deployments"
                /\ FirstStep["wait_for_rollout"] = "waiting"
                /\ FirstStep["validate_cluster"] = "reach"
                /\ FirstStep["cluster_inventory"] = "version"
            BY DEF FirstStep
          <5> QED
            BY <5>1, <5>2 DEF Step
        <4> QED
          BY <2>1, <4>1 DEF TypeOK, Call, CallOK, callVars
      <3>2. WorkloadsOK' /\ nodes' = nodes
        BY <2>1 DEF TypeOK, Call, clusterVars, workloads, WorkloadsOK
      <3> QED
        BY <2>1, <3>1, <3>2 DEF TypeOK, Call, Ready
    <2>2. CASE Proceed \/ Cancel
      <3>1. CallOK'
        BY <2>2, RequestKeepsTypes DEF TypeOK
      <3> QED
        BY <2>2, <3>1, RequestLeavesCluster
        DEF TypeOK, WorkloadsOK, workloads, history
    <2>3. CASE ClusterGoesOn
      <3>1. WorkloadsOK' /\ nodes' \in NodeStates
        <4>1. CASE ReadsNodes
          BY <2>3, <4>1, NodesStay
          DEF TypeOK, ClusterGoesOn, NodesStep, WorkloadsOK
        <4>2. CASE ~ReadsNodes
          BY <2>3, <4>2, WorkloadsStay DEF TypeOK, ClusterGoesOn
        <4> QED
          BY <4>1, <4>2
      <3>2. CallOK' /\ call' = call
        BY <2>3 DEF TypeOK, ClusterGoesOn, CallOK, callVars
      <3>3. /\ wasReady' \subseteq Workload /\ wasUnready' \subseteq Workload
            /\ nodesSeen' \subseteq NodeStates
        BY <2>3, <3>1 DEF TypeOK, ClusterGoesOn, history, Ready
      <3> QED
        BY <3>1, <3>2, <3>3 DEF TypeOK
    <2>4. CASE UNCHANGED vars
      BY <2>4 DEF TypeOK, vars, clusterVars, workloads, callVars, history,
                  WorkloadsOK, CallOK
    <2> QED
      BY <2>1, <2>2, <2>3, <2>4 DEF Next, Returned
  <1> QED
    BY <1>1, <1>2, PTL DEF Spec

-----------------------------------------------------------------------------
(* What was so at some time of the call                                    *)

\* The history has the cluster as it is.
SeenInv ==
    pc # "idle" =>
        /\ Ready \subseteq wasReady
        /\ Workload \ Ready \subseteq wasUnready
        /\ nodes \in nodesSeen

\* A step belongs to a call of its kind.
Sums == call \in {"health_check", "generate_rca"}

PlaceInv ==
    /\ pc \in {"deployments", "statefulsets"} => Sums
    /\ pc \in {"waiting", "looking", "rolled out", "timed out", "cancelled"}
           => call = "wait_for_rollout"
    /\ pc \in {"reach", "check nodes"} => call = "validate_cluster"
    /\ pc \in {"version", "namespaces", "nodes", "crds", "releases", "error"}
           => call = "cluster_inventory"

\* Every entry was so, and the entries of a list that came are there.
Listed == {entry.workload : entry \in health}

EntriesInv ==
    /\ pc = "idle" => health = {}
    /\ \A entry \in health :
           /\ entry.status = "HEALTHY" <=> entry.ready
           /\ entry.ready => entry.workload \in wasReady
           /\ ~entry.ready => entry.workload \in wasUnready
    /\ Sums /\ ~failed =>
           /\ pc \in {"statefulsets", "answered"} =>
                  Deployments \subseteq Listed
           /\ pc = "answered" => StatefulSets \subseteq Listed

\* A wait that has looked, and goes on or has ended at its deadline, has
\* found the workload not ready.
LooksInv ==
    /\ pc = "idle" => ~looked
    /\ pc = "rolled out" => target \in wasReady
    /\ pc \in {"waiting", "looking", "timed out"} /\ looked =>
           target \in wasUnready

\* What was made of the nodes was made of nodes that were seen.
Pictured ==
    \E s \in nodesSeen :
        /\ DOMAIN s = DOMAIN inventory.nodes
        /\ \A n \in DOMAIN s : s[n] = "True" <=> inventory.nodes[n] = "READY"

NodesInv ==
    /\ call = "validate_cluster" =>
           /\ pc # "answered" => verdict.valid
           /\ ~verdict.valid => failed
           /\ pc = "answered" /\ verdict.valid =>
                  \E s \in nodesSeen : NodesWell(s) <=> ~verdict.warned
    /\ call = "cluster_inventory" /\ pc \in {"crds", "releases", "answered"}
           => Pictured

\* The step a call begins with.
LEMMA FirstSteps ==
    ASSUME call \in DOMAIN FirstStep
    PROVE  \/ Sums /\ FirstStep[call] = "deployments"
           \/ call = "wait_for_rollout" /\ FirstStep[call] = "waiting"
           \/ call = "validate_cluster" /\ FirstStep[call] = "reach"
           \/ call = "cluster_inventory" /\ FirstStep[call] = "version"
  <1>1. call \in {"health_check", "generate_rca", "wait_for_rollout",
                  "validate_cluster", "cluster_inventory"}
    BY DEF FirstStep
  <1>2. /\ FirstStep["health_check"] = "deployments"
        /\ FirstStep["generate_rca"] = "deployments"
        /\ FirstStep["wait_for_rollout"] = "waiting"
        /\ FirstStep["validate_cluster"] = "reach"
        /\ FirstStep["cluster_inventory"] = "version"
    BY DEF FirstStep
  <1> QED
    BY <1>1, <1>2 DEF Sums

\* A call stays at the steps of its own kind.
LEMMA PlacesStay ==
    ASSUME TypeOK, PlaceInv, [Next]_vars
    PROVE  PlaceInv'
  <1> USE DEF PlaceInv, Sums
  <1>1. CASE Call
    <2>1. pc' = FirstStep[call] /\ call' = call
      BY <1>1 DEF Call
    <2> QED
      BY <2>1, FirstSteps DEF TypeOK
  <1>2. CASE Proceed \/ Cancel
    <2>0. call' = call
      BY <1>2, RequestLeavesCluster
    <2>1. CASE ListDeployments \/ ListStatefulSets
      BY <2>0, <2>1 DEF ListDeployments, ListStatefulSets
    <2>2. CASE Tick \/ Look \/ Cancel
      BY <2>0, <2>2 DEF Tick, Look, Cancel, Cancelled
    <2>3. CASE ReachServer \/ CheckNodes
      BY <2>0, <2>3 DEF ReachServer, CheckNodes
    <2>4. CASE GetServerVersion \/ ListNamespaces \/ FetchNodes
      BY <2>0, <2>4 DEF GetServerVersion, ListNamespaces, Fetch, FetchNodes
    <2>5. CASE ListCRDs \/ ListReleases
      BY <2>0, <2>5 DEF ListCRDs, ListReleases
    <2> QED
      BY <1>2, <2>1, <2>2, <2>3, <2>4, <2>5 DEF Proceed
  <1>3. CASE ClusterGoesOn \/ UNCHANGED vars
    BY <1>3 DEF ClusterGoesOn, vars
  <1> QED
    BY <1>1, <1>2, <1>3 DEF Next, Returned

\* The history keeps up with the cluster while a call is under way.
LEMMA SeenStays ==
    ASSUME TypeOK, SeenInv, [Next]_vars
    PROVE  SeenInv'
  <1> USE DEF SeenInv
  <1>1. CASE Call
    <2>1. Ready' = Ready /\ nodes' = nodes
      BY <1>1 DEF Call, clusterVars, workloads, Ready, Satisfied
    <2> QED
      BY <1>1, <2>1 DEF Call
  <1>2. CASE Proceed \/ Cancel
    <2>1. Ready' = Ready /\ nodes' = nodes /\ UNCHANGED history
      BY <1>2, RequestLeavesCluster DEF workloads, Ready, Satisfied
    <2>2. pc # "idle"
      BY <1>2
      DEF Proceed, Cancel, Cancelled, ListDeployments, ListStatefulSets, Tick,
          Look, ReachServer, CheckNodes, GetServerVersion, ListNamespaces,
          Fetch, FetchNodes, ListCRDs, ListReleases
    <2> QED
      BY <2>1, <2>2 DEF history
  <1>3. CASE ClusterGoesOn
    BY <1>3 DEF ClusterGoesOn
  <1>4. CASE UNCHANGED vars
    BY <1>4 DEF vars, clusterVars, workloads, history, Ready, Satisfied
  <1> QED
    BY <1>1, <1>2, <1>3, <1>4 DEF Next, Returned

\* The history of a call has the cluster as it is, and a call is at a step of
\* its own kind.
LEMMA Seen == Spec => [](TypeOK /\ SeenInv /\ PlaceInv)
  <1>1. Init => SeenInv /\ PlaceInv
    BY DEF Init, CallInit, SeenInv, PlaceInv
  <1>2. TypeOK /\ SeenInv /\ PlaceInv /\ [Next]_vars => SeenInv' /\ PlaceInv'
    BY PlacesStay, SeenStays
  <1> QED
    BY <1>1, <1>2, TypeCorrect, PTL DEF Spec

-----------------------------------------------------------------------------
(* health_check and generate_rca                                           *)

\* What one list adds was so when it was taken, and all of it is there.
LEMMA ListAdds ==
    ASSUME TypeOK, SeenInv, EntriesInv, pc # "idle",
           NEW listed \in SUBSET Workload, List(listed), UNCHANGED history
    PROVE  /\ \A entry \in health' :
                  /\ entry.status = "HEALTHY" <=> entry.ready
                  /\ entry.ready => entry.workload \in wasReady'
                  /\ ~entry.ready => entry.workload \in wasUnready'
           /\ Listed \subseteq Listed'
           /\ failed => failed'
           /\ ~failed' => listed \subseteq Listed'
  <1>1. ASSUME NEW w \in listed
        PROVE  /\ Entry(w, IsReady(w)).workload = w
               /\ Entry(w, IsReady(w)).ready = IsReady(w)
               /\ Entry(w, IsReady(w)).status = "HEALTHY" <=> IsReady(w)
               /\ IsReady(w) => w \in wasReady
               /\ ~IsReady(w) => w \in wasUnready
    <2>1. IsReady(w) <=> w \in Ready
      BY DEF IsReady, Ready, Satisfied
    <2> QED
      BY <2>1 DEF Entry, SeenInv
  <1>2. CASE health' = health \cup Entries(listed) /\ UNCHANGED failed
    <2>1. \A entry \in health' :
              entry \in health \/ \E w \in listed : entry = Entry(w, IsReady(w))
      BY <1>2 DEF Entries
    <2>2. \A w \in listed : Entry(w, IsReady(w)) \in health'
      BY <1>2 DEF Entries
    <2>3. listed \subseteq Listed'
      BY <1>1, <2>2 DEF Listed
    <2>4. Listed \subseteq Listed'
      BY <1>2 DEF Listed
    <2> QED
      BY <1>1, <1>2, <2>1, <2>3, <2>4 DEF EntriesInv, history
  <1>3. CASE RequestFails /\ UNCHANGED health
    BY <1>3 DEF EntriesInv, Listed, history
  <1> QED
    BY <1>2, <1>3 DEF List

\* Entries are made of what is there when they are read, and then only kept.
LEMMA EntriesStay ==
    ASSUME TypeOK, SeenInv, PlaceInv, EntriesInv, [Next]_vars
    PROVE  EntriesInv'
  <1>0. Deployments \subseteq Workload /\ StatefulSets \subseteq Workload
    BY KindsAssumption
  <1>1. CASE Call
    <2>1. /\ pc' \notin {"idle", "statefulsets", "answered"}
          /\ health' = {}
      BY <1>1, FirstSteps DEF TypeOK, Call, callVars, EntriesInv
    <2> QED
      BY <2>1 DEF EntriesInv
  <1>2. CASE Proceed \/ Cancel
    <2>0. UNCHANGED history /\ call' = call /\ Sums' = Sums
      BY <1>2, RequestLeavesCluster DEF Sums
    <2>1. CASE ListDeployments
      <3>1. List(Deployments) /\ pc = "deployments" /\ pc' = "statefulsets"
        BY <2>1 DEF ListDeployments
      <3> QED
        BY <1>0, <2>0, <3>1, ListAdds DEF EntriesInv
    <2>2. CASE ListStatefulSets
      <3>1. List(StatefulSets) /\ pc = "statefulsets" /\ pc' = "answered"
        BY <2>2 DEF ListStatefulSets
      <3>2. /\ \A entry \in health' :
                   /\ entry.status = "HEALTHY" <=> entry.ready
                   /\ entry.ready => entry.workload \in wasReady'
                   /\ ~entry.ready => entry.workload \in wasUnready'
            /\ Listed \subseteq Listed'
            /\ failed => failed'
            /\ ~failed' => StatefulSets \subseteq Listed'
        BY <1>0, <2>0, <3>1, ListAdds
      <3> QED
        BY <2>0, <3>1, <3>2 DEF EntriesInv
    <2>3. CASE Tick \/ Look \/ Cancel
      <3>1. /\ UNCHANGED health /\ pc \in {"waiting", "looking"}
            /\ pc' # "idle"
        BY <2>3 DEF Tick, Look, Cancel, Cancelled, callVars
      <3> QED
        BY <2>0, <3>1 DEF EntriesInv, PlaceInv, Sums, history
    <2>4. CASE ReachServer \/ CheckNodes
      <3>1. /\ UNCHANGED health /\ pc \in {"reach", "check nodes"}
            /\ pc' # "idle"
        BY <2>4 DEF ReachServer, CheckNodes
      <3> QED
        BY <2>0, <3>1 DEF EntriesInv, PlaceInv, Sums, history
    <2>5. CASE \/ GetServerVersion \/ ListNamespaces \/ FetchNodes
               \/ ListCRDs \/ ListReleases
      <3>1. /\ UNCHANGED health /\ pc' # "idle"
            /\ pc \in {"version", "namespaces", "nodes", "crds", "releases"}
        BY <2>5 DEF GetServerVersion, ListNamespaces, Fetch, FetchNodes,
                    ListCRDs, ListReleases
      <3> QED
        BY <2>0, <3>1 DEF EntriesInv, PlaceInv, Sums, history
    <2> QED
      BY <1>2, <2>1, <2>2, <2>3, <2>4, <2>5 DEF Proceed
  <1>3. CASE ClusterGoesOn
    <2>1. UNCHANGED <<pc, health, failed, call>>
      BY <1>3 DEF ClusterGoesOn, callVars
    <2>2. pc # "idle" => /\ wasReady \subseteq wasReady'
                         /\ wasUnready \subseteq wasUnready'
      BY <1>3 DEF ClusterGoesOn
    <2>3. UNCHANGED <<Sums, Listed>>
      BY <2>1 DEF Sums, Listed
    <2>4. CASE pc = "idle"
      BY <2>1, <2>3, <2>4 DEF EntriesInv
    <2>5. CASE pc # "idle"
      BY <2>1, <2>2, <2>3, <2>5 DEF EntriesInv
    <2> QED
      BY <2>4, <2>5
  <1>4. CASE UNCHANGED vars
    BY <1>4 DEF vars, callVars, history, EntriesInv, Sums, Listed
  <1> QED
    BY <1>1, <1>2, <1>3, <1>4 DEF Next, Returned

\* Every entry of an answer was so at some time of the call, and a list that
\* came is in the answer in full.
LEMMA EntriesWereSo == Spec => [](TypeOK /\ EntriesInv)
  <1>1. Init => EntriesInv
    BY DEF Init, CallInit, EntriesInv
  <1> QED
    BY <1>1, EntriesStay, Seen, PTL DEF Spec

\* An alarm of health_check or generate_rca names a workload that was not
\* ready at some time of the call, however the cluster changed meanwhile.
THEOREM AlarmJustified == Spec => []AlarmIsJustified
  <1>1. EntriesInv => AlarmIsJustified
    BY DEF EntriesInv, AlarmIsJustified, Summed, Alarm, Healthy, Issues
  <1> QED
    BY <1>1, EntriesWereSo, PTL

\* When both lists came, an answer that all is well has seen every Deployment
\* and StatefulSet ready at some time of the call.
THEOREM QuietJustified == Spec => []QuietIsJustified
  <1>1. EntriesInv => QuietIsJustified
    <2> SUFFICES ASSUME EntriesInv, Summed, ~Alarm, ~failed
                 PROVE  Deployments \cup StatefulSets \subseteq
                            wasReady \cap Listed
      BY DEF QuietIsJustified, Listed
    <2>1. Deployments \cup StatefulSets \subseteq Listed
      BY DEF EntriesInv, Summed, Sums
    <2>2. \A entry \in health : entry.ready
      BY DEF EntriesInv, Summed, Alarm, Healthy, Issues
    <2>3. Listed \subseteq wasReady
      BY <2>2 DEF EntriesInv, Listed
    <2> QED
      BY <2>1, <2>3
  <1> QED
    BY <1>1, EntriesWereSo, PTL

-----------------------------------------------------------------------------
(* WaitForRollout                                                          *)

LEMMA LooksStay ==
    ASSUME TypeOK, SeenInv, PlaceInv, LooksInv, [Next]_vars
    PROVE  LooksInv'
  <1>1. CASE Call
    <2>1. ~looked' /\ pc' \notin {"idle", "rolled out"}
      BY <1>1, FirstSteps DEF TypeOK, Call, callVars, LooksInv
    <2> QED
      BY <2>1 DEF LooksInv
  <1>2. CASE Proceed \/ Cancel
    <2>0. UNCHANGED history
      BY <1>2, RequestLeavesCluster
    <2>1. CASE Look
      <3>1. IsReady(target) => target \in wasReady
        BY <2>1 DEF Look, IsReady, Satisfied, Ready, SeenInv, TypeOK, CallOK
      <3>2. ~IsReady(target) => target \in wasUnready
        BY <2>1 DEF Look, IsReady, Satisfied, Ready, SeenInv, TypeOK, CallOK
      <3>3. target' = target /\ pc = "looking"
        BY <2>1 DEF Look
      <3>4. CASE looked' = TRUE /\ pc' = IF IsReady(target) THEN "rolled out"
                                        ELSE "waiting"
        BY <2>0, <3>1, <3>2, <3>3, <3>4 DEF LooksInv, history
      <3>5. CASE pc' = "waiting" /\ UNCHANGED looked
        BY <2>0, <3>3, <3>5 DEF LooksInv, history
      <3> QED
        BY <2>1, <3>4, <3>5 DEF Look
    <2>2. CASE Tick \/ Cancel
      <3>1. /\ UNCHANGED <<target, looked>> /\ pc = "waiting"
            /\ pc' \in {"looking", "timed out", "cancelled"}
        BY <2>2 DEF Tick, Cancel, Cancelled, callVars
      <3> QED
        BY <2>0, <3>1 DEF LooksInv, history
    <2>3. CASE ListDeployments \/ ListStatefulSets
      BY <2>3 DEF ListDeployments, ListStatefulSets, LooksInv
    <2>4. CASE ReachServer \/ CheckNodes
      BY <2>4 DEF ReachServer, CheckNodes, LooksInv
    <2>5. CASE \/ GetServerVersion \/ ListNamespaces \/ FetchNodes
               \/ ListCRDs \/ ListReleases
      BY <2>5 DEF GetServerVersion, ListNamespaces, Fetch, FetchNodes,
                  ListCRDs, ListReleases, LooksInv
    <2> QED
      BY <1>2, <2>1, <2>2, <2>3, <2>4, <2>5 DEF Proceed
  <1>3. CASE ClusterGoesOn
    <2>1. UNCHANGED <<pc, target, looked>>
      BY <1>3 DEF ClusterGoesOn, callVars
    <2>2. pc # "idle" => /\ wasReady \subseteq wasReady'
                         /\ wasUnready \subseteq wasUnready'
      BY <1>3 DEF ClusterGoesOn
    <2> QED
      BY <2>1, <2>2 DEF LooksInv
  <1>4. CASE UNCHANGED vars
    BY <1>4 DEF vars, callVars, history, LooksInv
  <1> QED
    BY <1>1, <1>2, <1>3, <1>4 DEF Next, Returned

\* A rollout is reported only of a workload that was ready while it was waited
\* for, and one that came too late only if a look found it not ready.
THEOREM RolloutJustified == Spec => []RolloutIsJustified
  <1>1. Init => LooksInv
    BY DEF Init, CallInit, LooksInv
  <1>2. LooksInv => RolloutIsJustified
    BY DEF LooksInv, RolloutIsJustified
  <1> QED
    BY <1>1, <1>2, LooksStay, Seen, PTL DEF Spec

-----------------------------------------------------------------------------
(* validate_cluster and cluster_inventory                                  *)

LEMMA ReadyIsTrue ==
    ASSUME NEW condition
    PROVE  StatusOf(condition) = "READY" <=> condition = "True"
  BY DEF StatusOf

\* No warning is made exactly of nodes that are all well.
LEMMA WarnedOfUnwell == NodesWell(nodes) <=> ~Warned(ListNodes)
  <1>1. /\ DOMAIN ListNodes = DOMAIN nodes
        /\ \A n \in DOMAIN nodes : ListNodes[n] = StatusOf(nodes[n])
    BY DEF ListNodes
  <1> QED
    BY <1>1, ReadyIsTrue DEF NodesWell, Warned

\* An inventory made of the nodes that are there is one of nodes seen.
LEMMA PictureOfNodes ==
    ASSUME TypeOK, nodes \in nodesSeen, UNCHANGED nodesSeen,
           inventory' = [inventory EXCEPT !.nodes = ListNodes]
    PROVE  Pictured'
  <1>1. inventory'.nodes = ListNodes
    BY DEF TypeOK, CallOK, Inventory
  <1>2. /\ DOMAIN ListNodes = DOMAIN nodes
        /\ \A n \in DOMAIN nodes : ListNodes[n] = StatusOf(nodes[n])
    BY DEF ListNodes
  <1> QED
    BY <1>1, <1>2, ReadyIsTrue DEF Pictured

\* Verdicts and inventories are made of nodes that were seen, and then kept.
LEMMA NodesInvStays ==
    ASSUME TypeOK, SeenInv, PlaceInv, NodesInv, [Next]_vars
    PROVE  NodesInv'
  <1>1. CASE Call
    <2>1. /\ pc = "idle" /\ UNCHANGED <<verdict, call>>
          /\ pc' \notin {"crds", "releases", "answered"}
      BY <1>1, FirstSteps DEF TypeOK, Call, callVars
    <2> QED
      BY <2>1 DEF NodesInv
  <1>2. CASE Proceed \/ Cancel
    <2>0. UNCHANGED nodesSeen /\ call' = call
      BY <1>2, RequestLeavesCluster DEF history
    <2>1. CASE ReachServer
      <3>1. pc = "reach" /\ call = "validate_cluster"
        BY <2>1 DEF ReachServer, PlaceInv
      <3>2. CASE pc' = "check nodes" /\ UNCHANGED <<verdict, failed>>
        BY <2>0, <3>1, <3>2 DEF NodesInv
      <3>3. CASE /\ pc' = "answered" /\ failed' = TRUE
                 /\ verdict' = [verdict EXCEPT !.valid = FALSE]
        <4>1. verdict'.valid = FALSE
          BY <3>3 DEF TypeOK, CallOK, Verdict
        <4> QED
          BY <2>0, <3>1, <3>3, <4>1 DEF NodesInv
      <3> QED
        BY <2>1, <3>2, <3>3 DEF ReachServer
    <2>2. CASE CheckNodes
      <3>1. /\ pc = "check nodes" /\ pc' = "answered"
            /\ call = "validate_cluster" /\ nodes \in nodesSeen
        BY <2>2 DEF CheckNodes, PlaceInv, SeenInv
      <3>2. CASE /\ verdict' = [verdict EXCEPT !.warned = Warned(ListNodes)]
                 /\ UNCHANGED failed
        <4>1. verdict'.valid = verdict.valid
          BY <3>2 DEF TypeOK, CallOK, Verdict
        <4>2. verdict'.warned = Warned(ListNodes)
          BY <3>2 DEF TypeOK, CallOK, Verdict
        <4>3. NodesWell(nodes) <=> ~verdict'.warned
          BY <4>2, WarnedOfUnwell
        <4> QED
          BY <2>0, <3>1, <3>2, <4>1, <4>3 DEF NodesInv
      <3>3. CASE failed' = TRUE /\ verdict' = [verdict EXCEPT !.valid = FALSE]
        <4>1. verdict'.valid = FALSE
          BY <3>3 DEF TypeOK, CallOK, Verdict
        <4> QED
          BY <2>0, <3>1, <3>3, <4>1 DEF NodesInv
      <3> QED
        BY <2>2, <3>2, <3>3 DEF CheckNodes
    <2>3. CASE GetServerVersion \/ ListNamespaces
      <3>1. /\ pc \in {"version", "namespaces"}
            /\ pc' \in {"namespaces", "nodes", "error"}
        BY <2>3 DEF GetServerVersion, ListNamespaces, Fetch
      <3> QED
        BY <2>0, <3>1 DEF NodesInv, PlaceInv
    <2>4. CASE FetchNodes
      <3>1. pc = "nodes" /\ nodes \in nodesSeen /\ call = "cluster_inventory"
        BY <2>4 DEF FetchNodes, PlaceInv, SeenInv
      <3>2. CASE inventory' = [inventory EXCEPT !.nodes = ListNodes]
        BY <2>0, <3>1, <3>2, PictureOfNodes DEF NodesInv
      <3>3. CASE pc' = "error"
        BY <2>0, <3>1, <3>3 DEF NodesInv
      <3> QED
        BY <2>4, <3>2, <3>3 DEF FetchNodes
    <2>5. CASE ListCRDs \/ ListReleases
      <3>1. pc \in {"crds", "releases"} /\ call = "cluster_inventory"
        BY <2>5 DEF ListCRDs, ListReleases, PlaceInv
      <3>2. inventory'.nodes = inventory.nodes
        BY <2>5 DEF ListCRDs, ListReleases, TypeOK, CallOK, Inventory
      <3>3. Pictured'
        BY <2>0, <3>1, <3>2 DEF NodesInv, Pictured
      <3> QED
        BY <2>0, <3>1, <3>3 DEF NodesInv
    <2>6. CASE ListDeployments \/ ListStatefulSets \/ Tick \/ Look \/ Cancel
      <3>1. pc \in {"deployments", "statefulsets", "waiting", "looking"}
        BY <2>6 DEF ListDeployments, ListStatefulSets, Tick, Look, Cancel,
                    Cancelled
      <3> QED
        BY <2>0, <3>1 DEF NodesInv, PlaceInv, Sums
    <2> QED
      BY <1>2, <2>1, <2>2, <2>3, <2>4, <2>5, <2>6 DEF Proceed
  <1>3. CASE ClusterGoesOn
    <2>1. UNCHANGED <<pc, verdict, inventory, failed, call>>
      BY <1>3 DEF ClusterGoesOn, callVars
    <2>2. pc # "idle" => nodesSeen \subseteq nodesSeen'
      BY <1>3 DEF ClusterGoesOn
    <2> QED
      BY <2>1, <2>2 DEF NodesInv, Pictured
  <1>4. CASE UNCHANGED vars
    BY <1>4 DEF vars, callVars, history, NodesInv, Pictured
  <1> QED
    BY <1>1, <1>2, <1>3, <1>4 DEF Next, Returned

\* What validate_cluster and cluster_inventory say of the nodes was so at some
\* time of the call, and only a request that failed makes a cluster invalid.
THEOREM SnapshotReal == Spec => []SnapshotIsReal
  <1>1. Init => NodesInv
    BY DEF Init, CallInit, NodesInv
  <1>2. NodesInv => SnapshotIsReal
    BY DEF NodesInv, SnapshotIsReal, Pictured
  <1> QED
    BY <1>1, <1>2, NodesInvStays, Seen, PTL DEF Spec
=============================================================================
