--------------------------- MODULE RepositoryTools ---------------------------
(***************************************************************************)
(* The requests that the tools over chart repositories make of the Helm    *)
(* adapter (internal/adapters/mcp/handler.go), as RepositoryFile has them. *)
(* What an operation does not read of its request has one value.           *)
(***************************************************************************)
EXTENDS RepositoryFile

ReadUrl(op) == [op : {op}, name : RepoNames, url : Urls]
ReadName(op) ==
    [op : {op}, name : RepoNames, url : {CHOOSE u \in Urls : TRUE}]
ReadNothing(op) ==
    {CHOOSE q \in ReadName(op) : \A n \in RepoNames : q.name <= n}

RepoAdd == ReadUrl("add")
RepoRemove == ReadName("remove")
RepoUpdate == ReadNothing("updateAll")
RepoUpdateSingle == ReadName("updateOne")
RepoList == ReadNothing("list")

\* The keyword and the URL decide only what is said of the index.
RepoSearch == ReadNothing("search")

\* It asks ResolveVersion about the chart of a release, without a URL.
RecommendUpgrade == ReadNothing("search")

\* A chart is loaded by its name, which becomes that of the repository.
ShowChart == ReadUrl("loadChart")

\* show_chart_values, show_chart_readme, show_chart_crds,
\* list_chart_dependencies and template_chart.
InspectChart == ReadUrl("loadChart")

GenerateValuesYAML == ReadUrl("loadChart")
DependencyAnalysis == ReadUrl("loadChart")

ChartLoads ==
    ShowChart \cup InspectChart \cup GenerateValuesYAML
        \cup DependencyAnalysis
Changes ==
    RepoAdd \cup RepoRemove \cup RepoUpdate \cup RepoUpdateSingle
        \cup ChartLoads
Queries == RepoList \cup RepoSearch \cup RecommendUpgrade
=============================================================================
