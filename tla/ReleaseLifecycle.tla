-------------------------- MODULE ReleaseLifecycle --------------------------
(***************************************************************************)
(* What the store promises of each deployment record when the aggregate's  *)
(* guards hold from one saved state to the next: a record appears PENDING, *)
(* every outcome is reached through the status that announces the work,    *)
(* the version counts the successes, and a record may be removed.          *)
(***************************************************************************)
EXTENDS Naturals

CONSTANT Ids

VARIABLE record

Absent == [status |-> "ABSENT", version |-> 0]

Init == record = [id \in Ids |-> Absent]

Create(id) ==
    /\ record[id] = Absent
    /\ record' = [record EXCEPT ![id] = [status |-> "PENDING", version |-> 1]]

\* The record moves from one of these statuses, its version as it was.
Move(id, from, to) ==
    /\ record[id].status \in from
    /\ record' = [record EXCEPT ![id].status = to]

Deploy(id)   == Move(id, {"PENDING"}, "DEPLOYING")
Upgrade(id)  == Move(id, {"SUCCEEDED"}, "UPGRADING")
RollBack(id) == Move(id, {"SUCCEEDED", "FAILED"}, "ROLLING_BACK")
Fail(id)     == Move(id, {"DEPLOYING", "UPGRADING", "ROLLING_BACK"}, "FAILED")
RolledBack(id) == Move(id, {"ROLLING_BACK"}, "ROLLED_BACK")

Succeed(id) ==
    /\ record[id].status \in {"DEPLOYING", "UPGRADING"}
    /\ record' = [record EXCEPT ![id].status = "SUCCEEDED",
                                ![id].version = @ + 1]

Remove(id) == record' = [record EXCEPT ![id] = Absent]

Next ==
    \E id \in Ids :
        \/ Create(id) \/ Deploy(id) \/ Upgrade(id) \/ RollBack(id)
        \/ Fail(id) \/ RolledBack(id) \/ Succeed(id) \/ Remove(id)

Spec == Init /\ [][Next]_record
=============================================================================
