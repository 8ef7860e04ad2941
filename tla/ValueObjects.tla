---------------------------- MODULE ValueObjects ----------------------------
(***************************************************************************)
(* The value objects of internal/domain/deployment/value_objects.go, the   *)
(* names every other module speaks of.  A release is a release name in a   *)
(* namespace; a chart reference is a name, standing for the chart's name,  *)
(* repository and source together, and a version.                          *)
(***************************************************************************)

CONSTANTS
    Ids,           \* the UUIDs New may draw
    Releases,      \* pairs of release name and namespace
    ChartNames,
    ChartVersions,
    ValidCharts    \* the chart references ChartReference.Validate accepts

Charts == [name : ChartNames, version : ChartVersions]

ASSUME ValidChartsAssumption == ValidCharts \subseteq Charts
=============================================================================
