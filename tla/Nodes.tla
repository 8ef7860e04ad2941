-------------------------------- MODULE Nodes --------------------------------
(***************************************************************************)
(* The nodes of the cluster, by the Ready condition of their status.  They *)
(* are external, too: a node joins without a condition, its kubelet or the *)
(* node controller sets it, and it leaves.                                 *)
(***************************************************************************)
EXTENDS Workloads

CONSTANT Nodes

VARIABLE nodes    \* the nodes there are, and their Ready condition

Conditions == {"none", "True", "False", "Unknown"}

NodeStates == UNION {[present -> Conditions] : present \in SUBSET Nodes}

NodesInit ==
    \E present \in SUBSET Nodes : nodes = [n \in present |-> "True"]

NodeJoins(n) ==
    /\ Change /\ n \notin DOMAIN nodes
    /\ nodes' = [m \in DOMAIN nodes \cup {n} |->
                    IF m = n THEN "none" ELSE nodes[m]]

NodeReports(n) ==
    /\ Change /\ n \in DOMAIN nodes
    /\ \E condition \in Conditions \ {"none", nodes[n]} :
           nodes' = [nodes EXCEPT ![n] = condition]

NodeLeaves(n) ==
    /\ Change /\ n \in DOMAIN nodes
    /\ nodes' = [m \in DOMAIN nodes \ {n} |-> nodes[m]]

NodesStep ==
    /\ \E n \in Nodes : NodeJoins(n) \/ NodeReports(n) \/ NodeLeaves(n)
    /\ UNCHANGED <<replicas, pods, reported>>
=============================================================================
