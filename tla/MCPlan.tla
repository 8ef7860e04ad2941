------------------------------ MODULE MCPlan -------------------------------
(***************************************************************************)
(* Instances of Plan for TLC.                                              *)
(***************************************************************************)
EXTENDS Plan

\* Applications of every shape, two at a time; one; none.
WorkedOff ==
    {{"grafana", "cert-manager"}, {"upgrade", "argocd", "loki"},
     {"rollback", "redis"}, {}}
=============================================================================
