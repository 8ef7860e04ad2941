----------------------------- MODULE Workloads -----------------------------
(***************************************************************************)
(* The workloads of a release in the cluster, which the Kubernetes adapter *)
(* reads.  They are external: pods come and go, and a controller reports   *)
(* them in the workload's status some time later.                          *)
(***************************************************************************)
EXTENDS Naturals

CONSTANTS
    Workload,       \* the release's workloads
    MaxReplicas,
    MaxChanges      \* changes of the workloads, and failures of pods

ASSUME MaxReplicasAssumption == MaxReplicas \in Nat
ASSUME MaxChangesAssumption == MaxChanges \in Nat

VARIABLES
    replicas,       \* what is wanted
    pods,           \* the ready pods
    reported,       \* the ready pods in the status
    changes

workloads == <<replicas, pods, reported, changes>>

Counts == [Workload -> 0..MaxReplicas]

WorkloadsOK ==
    /\ replicas \in Counts /\ pods \in Counts /\ reported \in Counts
    /\ changes \in 0..MaxChanges

\* A release that has been installed and has settled.
WorkloadsInit ==
    /\ replicas \in [Workload -> 1..MaxReplicas]
    /\ pods = replicas /\ reported = replicas
    /\ changes = 0

Change ==
    /\ changes < MaxChanges
    /\ changes' = changes + 1

Scale(w) ==
    /\ Change
    /\ \E n \in 0..MaxReplicas : replicas' = [replicas EXCEPT ![w] = n]
    /\ UNCHANGED <<pods, reported>>

PodFails(w) ==
    /\ Change /\ pods[w] > 0
    /\ pods' = [pods EXCEPT ![w] = @ - 1]
    /\ UNCHANGED <<replicas, reported>>

PodStarts(w) ==
    /\ pods[w] < replicas[w]
    /\ pods' = [pods EXCEPT ![w] = @ + 1]
    /\ UNCHANGED <<replicas, reported, changes>>

PodStops(w) ==
    /\ pods[w] > replicas[w]
    /\ pods' = [pods EXCEPT ![w] = @ - 1]
    /\ UNCHANGED <<replicas, reported, changes>>

StatusReported(w) ==
    /\ reported[w] # pods[w]
    /\ reported' = [reported EXCEPT ![w] = pods[w]]
    /\ UNCHANGED <<replicas, pods, changes>>

ClusterStep ==
    \E w \in Workload :
        \/ Scale(w)
        \/ PodFails(w)
        \/ PodStarts(w)
        \/ PodStops(w)
        \/ StatusReported(w)

\* The workload is ready as far as its status tells, which is all that a
\* client of the API server sees; whether its pods are, shows only later.
Satisfied(w) == reported[w] = replicas[w]
=============================================================================
