--------------------------- MODULE RepositoryFile ---------------------------
(***************************************************************************)
(* The chart repositories of the Helm adapter (AddRepo, RemoveRepo,        *)
(* UpdateRepos, UpdateRepo, ListRepos, loadChart with ensureRepo, and      *)
(* loadRepoIndex in internal/adapters/helm/client.go): a configuration     *)
(* file that each call reads, changes in memory and writes back, and a     *)
(* cache of index files.  Nothing locks either of them, so a step is taken *)
(* at each access.  Every tool that only shows something of a chart loads  *)
(* it, and so writes this file.                                            *)
(*                                                                         *)
(* repo.File.WriteFile is external: it truncates the file and then writes  *)
(* it.  LoadFile of an empty file gives no entries and no error; a missing *)
(* file and one that does not parse give an error, and are the same here.  *)
(* LocateChart, given a URL, asks that repository itself.                  *)
(***************************************************************************)
EXTENDS Naturals, FiniteSets

CONSTANTS
    Calls,
    RepoNames,    \* numbers, in the order of the names
    Urls,
    NoUrl,        \* no answer, no entry
    Requests,     \* the requests clients may send
    MaxInFlight,  \* how many calls the MCP server runs at once
    Faults        \* the faults that may happen

Op == {"add", "loadChart", "remove", "updateAll", "updateOne", "list",
       "search"}
Request == [op : Op, name : RepoNames, url : Urls]

Replies == {"none", "failed", "added"}

ASSUME RepoNamesAssumption == RepoNames \subseteq Nat
ASSUME NoUrlAssumption == NoUrl \notin Urls
ASSUME RepliesAssumption == Urls \cap Replies = {}
ASSUME RequestsAssumption == Requests \subseteq Request
ASSUME FaultsAssumption == Faults \subseteq {"network", "disk", "crash"}

VARIABLES
    file,      \* repositories.yaml: whether it parses, and its entries
    cache,     \* the index files of the configured cache: whose they are
    pc,        \* where each call is
    request,   \* what it was asked
    copy,      \* the repositories it has read
    reply      \* whose index a search found or whose chart was loaded;
               \* that an add succeeded, that a call failed

vars == <<file, cache, pc, request, copy, reply>>

Step == {"idle", "load", "download", "refresh", "truncate", "write",
         "locate", "search", "done"}

\* Entries by name, and index files by name.
Entries == UNION {[names -> Urls] : names \in SUBSET RepoNames}
Nothing == [n \in {} |-> NoUrl]
Content == [parses : BOOLEAN, entries : Entries]
Unreadable == [parses |-> FALSE, entries |-> Nothing]
Truncated == [parses |-> TRUE, entries |-> Nothing]
Holding(entries) == [parses |-> TRUE, entries |-> entries]

InFlight == {c \in Calls : pc[c] \notin {"idle", "done"}}

TypeOK ==
    /\ file \in Content
    /\ cache \in Entries
    /\ pc \in [Calls -> Step]
    /\ request \in [Calls -> Request]
    /\ copy \in [Calls -> Entries]
    /\ reply \in [Calls -> Replies \cup Urls]

Init ==
    /\ file = Unreadable
    /\ cache = Nothing
    /\ pc = [c \in Calls |-> "idle"]
    /\ request \in [Calls -> Requests]
    /\ copy = [c \in Calls |-> Nothing]
    /\ reply = [c \in Calls |-> "none"]

Updated(entries, n, u) ==
    [m \in DOMAIN entries \cup {n} |-> IF m = n THEN u ELSE entries[m]]
Without(entries, n) == [m \in DOMAIN entries \ {n} |-> entries[m]]

-----------------------------------------------------------------------------

Goto(c, step) == pc' = [pc EXCEPT ![c] = step]
Answer(c, r) == Goto(c, "done") /\ reply' = [reply EXCEPT ![c] = r]

\* What a change of the file ends with: loadChart logs what ensureRepo returns
\* and goes on, the others answer with it.
Return(c, r) ==
    IF request[c].op = "loadChart"
    THEN Goto(c, "locate") /\ UNCHANGED reply
    ELSE Answer(c, r)

Receive(c) ==
    /\ pc[c] = "idle" /\ Cardinality(InFlight) < MaxInFlight
    /\ Goto(c, IF request[c].op = "search" THEN "search" ELSE "load")
    /\ UNCHANGED <<file, cache, request, copy, reply>>

\* Mutant of LoadToAdd: it always begins with a new file.
LoadToAddAfresh(c) ==
    /\ pc[c] = "load" /\ request[c].op \in {"add", "loadChart"}
    /\ copy' = [copy EXCEPT ![c] = Nothing]
    /\ Goto(c, "download")
    /\ UNCHANGED <<file, cache, request, reply>>

\* AddRepo and ensureRepo take a file they cannot load for an empty one.
LoadToAdd(c) ==
    /\ pc[c] = "load" /\ request[c].op \in {"add", "loadChart"}
    /\ copy' = [copy EXCEPT ![c] = file.entries]
    /\ Goto(c, IF request[c].op = "loadChart"
                  /\ request[c].name \in DOMAIN file.entries
               THEN "locate" ELSE "download")
    /\ UNCHANGED <<file, cache, request, reply>>

\* To ListRepos, too, it is one without repositories.
LoadToList(c) ==
    /\ pc[c] = "load" /\ request[c].op = "list"
    /\ copy' = [copy EXCEPT ![c] = file.entries]
    /\ Goto(c, "done")
    /\ UNCHANGED <<file, cache, request, reply>>

\* The others fail on it.
LoadToRemove(c) ==
    /\ pc[c] = "load" /\ request[c].op = "remove"
    /\ IF file.parses /\ request[c].name \in DOMAIN file.entries
       THEN /\ copy' = [copy EXCEPT ![c] =
                           Without(file.entries, request[c].name)]
            /\ Goto(c, "truncate")
            /\ UNCHANGED reply
       ELSE Answer(c, "failed") /\ UNCHANGED copy
    /\ UNCHANGED <<file, cache, request>>

\* UpdateRepo is UpdateRepos with the one entry, which has to be there.
LoadToUpdate(c) ==
    LET named == {n \in DOMAIN file.entries :
                     request[c].op = "updateOne" => n = request[c].name} IN
    /\ pc[c] = "load" /\ request[c].op \in {"updateAll", "updateOne"}
    /\ IF file.parses /\ (request[c].op = "updateOne" => named # {})
       THEN /\ copy' = [copy EXCEPT ![c] = [n \in named |-> file.entries[n]]]
            /\ Goto(c, "refresh")
            /\ UNCHANGED reply
       ELSE Answer(c, "failed") /\ UNCHANGED copy
    /\ UNCHANGED <<file, cache, request>>

\* Mutant of DownloadFails: the entry is written without its index.
DownloadFailsIgnored(c) ==
    /\ pc[c] = "download" /\ "network" \in Faults
    /\ copy' = [copy EXCEPT ![c] = Updated(@, request[c].name, request[c].url)]
    /\ Goto(c, "truncate")
    /\ UNCHANGED <<file, cache, request, reply>>

DownloadFails(c) ==
    /\ pc[c] = "download" /\ "network" \in Faults
    /\ Return(c, "failed")
    /\ UNCHANGED <<file, cache, request, copy>>

\* Mutant of Download: CachePath is never set to the configured cache.
DownloadElsewhere(c) ==
    /\ pc[c] = "download"
    /\ copy' = [copy EXCEPT ![c] = Updated(@, request[c].name, request[c].url)]
    /\ Goto(c, "truncate")
    /\ UNCHANGED <<file, cache, request, reply>>

\* Only AddRepo downloads into the configured cache: ensureRepo leaves
\* CachePath at Helm's own.  The entry is put into the call's own copy.
Download(c) ==
    /\ pc[c] = "download"
    /\ cache' = IF request[c].op = "add"
                THEN Updated(cache, request[c].name, request[c].url)
                ELSE cache
    /\ copy' = [copy EXCEPT ![c] = Updated(@, request[c].name, request[c].url)]
    /\ Goto(c, "truncate")
    /\ UNCHANGED <<file, request, reply>>

\* Mutant of Refresh: it downloads from the URL of any entry of the file.
RefreshFromAny(c) ==
    /\ pc[c] = "refresh"
    /\ \E n, m \in DOMAIN copy[c] :
           /\ copy' = [copy EXCEPT ![c] = Without(@, n)]
           /\ cache' = Updated(cache, n, copy[c][m])
    /\ UNCHANGED <<file, pc, request, reply>>

\* One repository's index after the other; a failure does not stop the rest,
\* but is told in the end.
Refresh(c) ==
    /\ pc[c] = "refresh"
    /\ \E n \in DOMAIN copy[c] :
           /\ copy' = [copy EXCEPT ![c] = Without(@, n)]
           /\ \/ cache' = Updated(cache, n, copy[c][n]) /\ UNCHANGED reply
              \/ /\ "network" \in Faults
                 /\ reply' = [reply EXCEPT ![c] = "failed"]
                 /\ UNCHANGED cache
    /\ UNCHANGED <<file, pc, request>>

Refreshed(c) ==
    /\ pc[c] = "refresh" /\ DOMAIN copy[c] = {}
    /\ Goto(c, "done")
    /\ UNCHANGED <<file, cache, request, copy, reply>>

TruncateFile(c) ==
    /\ pc[c] = "truncate"
    /\ \/ /\ file' = Truncated
          /\ Goto(c, "write")
          /\ UNCHANGED reply
       \/ /\ "disk" \in Faults
          /\ Return(c, "failed")
          /\ UNCHANGED file
    /\ UNCHANGED <<cache, request, copy>>

\* What another call has written meanwhile is not longer than this call's text
\* if this one has all of its entries.
CoversFile(c) ==
    /\ file.parses
    /\ \A n \in DOMAIN file.entries :
           n \in DOMAIN copy[c] /\ copy[c][n] = file.entries[n]

\* Otherwise the end of a longer text may remain: further entries, or something
\* that does not parse.
WriteEntries(c) ==
    \/ \E kept \in SUBSET (DOMAIN file.entries \ DOMAIN copy[c]) :
           file' = Holding([n \in DOMAIN copy[c] \cup kept |->
               IF n \in kept THEN file.entries[n] ELSE copy[c][n]])
    \/ ~CoversFile(c) /\ file' = Unreadable

WriteFile(c) ==
    /\ pc[c] = "write"
    /\ \/ /\ WriteEntries(c)
          /\ Return(c, IF request[c].op = "add" THEN "added" ELSE "none")
       \/ /\ "disk" \in Faults
          /\ Return(c, "failed")
          /\ UNCHANGED file
    /\ UNCHANGED <<cache, request, copy>>

\* The tools show different parts of the chart, all of the one at the URL.
Show(c) == Answer(c, request[c].url)

\* LocateChart and the loader, after ensureRepo.
Locate(c) ==
    /\ pc[c] = "locate"
    /\ \/ Show(c)
       \/ "network" \in Faults /\ Answer(c, "failed")
    /\ UNCHANGED <<file, cache, request, copy>>

\* Mutant of Search: an empty cache goes unnoticed.
SearchUnchecked(c) ==
    /\ pc[c] = "search"
    /\ \/ cache = Nothing /\ Answer(c, NoUrl)
       \/ \E n \in DOMAIN cache :
               /\ \A m \in DOMAIN cache : n <= m
               /\ Answer(c, cache[n])
    /\ UNCHANGED <<file, cache, request, copy>>

\* loadRepoIndex reads the first index file, whatever repository it is asked
\* for.
IsFirstIndex(n) == n \in DOMAIN cache /\ \A m \in DOMAIN cache : n <= m

\* SearchRepo and ResolveVersion.
Search(c) ==
    /\ pc[c] = "search"
    /\ \/ cache = Nothing /\ Answer(c, "failed")
       \/ \E n \in DOMAIN cache : IsFirstIndex(n) /\ Answer(c, cache[n])
    /\ UNCHANGED <<file, cache, request, copy>>

\* The process dies; the calls in flight are lost.
Crash ==
    /\ "crash" \in Faults /\ InFlight # {}
    /\ pc' = [c \in Calls |-> IF c \in InFlight THEN "done" ELSE pc[c]]
    /\ UNCHANGED <<file, cache, request, copy, reply>>

Waiting == InFlight = {} /\ UNCHANGED vars

Handle(c) ==
    \/ LoadToAdd(c)
    \/ LoadToList(c)
    \/ LoadToRemove(c)
    \/ LoadToUpdate(c)
    \/ DownloadFails(c)
    \/ Download(c)
    \/ Refresh(c)
    \/ Refreshed(c)
    \/ TruncateFile(c)
    \/ WriteFile(c)
    \/ Locate(c)
    \/ Search(c)

Next ==
    \/ \E c \in Calls : Receive(c) \/ Handle(c)
    \/ Crash
    \/ Waiting

Spec == Init /\ [][Next]_vars
-----------------------------------------------------------------------------
(* Properties                                                              *)

\* A chart of this name is loaded by some call.
Ensured(n) ==
    \E c \in Calls : request[c].op = "loadChart" /\ request[c].name = n

\* However calls overlap, whichever step fails and wherever the process dies,
\* a configured repository has an index in the cache, unless loading a chart
\* configured it: AddRepo downloads before it writes, and what it has read
\* from the file was downloaded before.
ConfiguredHasIndex ==
    \A n \in DOMAIN file.entries : n \in DOMAIN cache \/ Ensured(n)

\* A call that began has asked for the repository of this name at this URL.
Asked(n, u) ==
    \E c \in Calls : /\ pc[c] # "idle"
                     /\ request[c].op \in {"add", "loadChart"}
                     /\ request[c].name = n /\ request[c].url = u

AskedFor(entries) == \A n \in DOMAIN entries : Asked(n, entries[n])

\* However calls mix up each other's entries, indexes and leftovers of writes,
\* no name is ever paired with a URL it was not asked for with: neither in the
\* file, nor in the cache, nor in what a call has read, writes or lists; and
\* no search is answered from an index that nobody asked for.
NothingInvented ==
    /\ AskedFor(file.entries) /\ AskedFor(cache)
    /\ \A c \in Calls :
           /\ AskedFor(copy[c])
           /\ reply[c] \in Urls => \E n \in RepoNames : Asked(n, reply[c])

\* While calls do not overlap and the disk does not fail, the index of a
\* configured repository is that of its URL, whatever was added, replaced,
\* removed and refreshed before.
IndexIsCurrent ==
    InFlight = {} =>
        \A n \in DOMAIN file.entries :
            \/ Ensured(n)
            \/ n \in DOMAIN cache /\ cache[n] = file.entries[n]

\* Between the truncation and the write the entries are those on their way.
Book == INSTANCE RepositoryBook WITH
    book <- [n \in RepoNames |->
        LET writers == {c \in Calls : pc[c] = "write"}
            entries == IF writers = {} THEN file.entries
                       ELSE copy[CHOOSE c \in writers : TRUE] IN
        IF n \in DOMAIN entries THEN entries[n] ELSE NoUrl]

\* While calls do not overlap and the disk does not fail, the file behaves
\* as a book in which a repository is entered or struck out in one step.
FollowsBook == Book!BookSpec

-----------------------------------------------------------------------------
(* What the documentation and the comments claim and the code does not do  *)

Removed(n) == \E c \in Calls : request[c].op = "remove" /\ request[c].name = n

\* AddRepo adds a repository (outbound.HelmPort): what was added and nobody
\* asks to remove is configured once the calls have returned.  A file that no
\* longer parses, as a torn write leaves it, is another matter.
AddedIsConfigured ==
    InFlight = {} /\ file.parses =>
        \A c \in Calls :
            reply[c] = "added" /\ ~Removed(request[c].name)
                => request[c].name \in DOMAIN file.entries
=============================================================================
