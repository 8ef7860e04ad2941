------------------------ MODULE RepositoryFileProofs ------------------------
(***************************************************************************)
(* Proofs that the repository file and the index cache stay well formed,   *)
(* that a configured repository has its index, and that nothing is in      *)
(* either that nobody asked for, for any calls that overlap in any way,    *)
(* any faults and any requests.  Then what the tools promise to a client   *)
(* that makes one call after the other, on a disk that works, in a process *)
(* that lives: the file behaves as a book in which a repository is entered *)
(* or struck out in one step, and the index of a configured repository is  *)
(* that of its URL.  Neither holds once calls overlap.                     *)
(***************************************************************************)
EXTENDS RepositoryFile, FiniteSetTheorems, TLAPS

\* Entries by name: to be one is to have names for keys and URLs for values.
LEMMA EntriesAre ==
    ASSUME NEW e
    PROVE  e \in Entries <=> /\ DOMAIN e \in SUBSET RepoNames
                             /\ e \in [DOMAIN e -> Urls]
  BY DEF Entries

\* No entries are entries.
LEMMA NothingIsEntries == Nothing \in Entries /\ DOMAIN Nothing = {}
  BY EntriesAre DEF Nothing

\* repo.File.Update keeps the other entries.
LEMMA UpdatedIsEntries ==
    ASSUME NEW e \in Entries, NEW n \in RepoNames, NEW u \in Urls
    PROVE  /\ Updated(e, n, u) \in Entries
           /\ DOMAIN Updated(e, n, u) = DOMAIN e \cup {n}
  <1>1. DOMAIN e \in SUBSET RepoNames /\ e \in [DOMAIN e -> Urls]
    BY EntriesAre
  <1>2. Updated(e, n, u) \in [DOMAIN e \cup {n} -> Urls]
    BY <1>1 DEF Updated
  <1> QED
    BY <1>1, <1>2, EntriesAre DEF Updated

\* repo.File.Remove drops one entry.
LEMMA WithoutIsEntries ==
    ASSUME NEW e \in Entries, NEW n
    PROVE  Without(e, n) \in Entries /\ DOMAIN Without(e, n) = DOMAIN e \ {n}
  <1>1. DOMAIN e \in SUBSET RepoNames /\ e \in [DOMAIN e -> Urls]
    BY EntriesAre
  <1>2. Without(e, n) \in [DOMAIN e \ {n} -> Urls]
    BY <1>1 DEF Without
  <1> QED
    BY <1>1, <1>2, EntriesAre DEF Without

\* What a write leaves in the file: the writer's entries, and at most some of
\* those that were there.
LEMMA WrittenContent ==
    ASSUME TypeOK, NEW c \in Calls, WriteEntries(c)
    PROVE  /\ file' \in Content
           /\ DOMAIN file'.entries \subseteq
                  DOMAIN copy[c] \cup DOMAIN file.entries
  <1>1. file.entries \in Entries /\ copy[c] \in Entries
    BY DEF TypeOK, Content
  <1>2. CASE file' = Unreadable
    BY <1>2, NothingIsEntries DEF Unreadable, Content
  <1>3. CASE file' # Unreadable
    <2>1. PICK kept \in SUBSET (DOMAIN file.entries \ DOMAIN copy[c]) :
              file' = Holding([n \in DOMAIN copy[c] \cup kept |->
                          IF n \in kept THEN file.entries[n] ELSE copy[c][n]])
      BY <1>3 DEF WriteEntries
    <2> DEFINE e == [n \in DOMAIN copy[c] \cup kept |->
                        IF n \in kept THEN file.entries[n] ELSE copy[c][n]]
    <2>2. /\ DOMAIN file.entries \in SUBSET RepoNames
          /\ file.entries \in [DOMAIN file.entries -> Urls]
          /\ DOMAIN copy[c] \in SUBSET RepoNames
          /\ copy[c] \in [DOMAIN copy[c] -> Urls]
      BY <1>1, EntriesAre
    <2>3. e \in [DOMAIN copy[c] \cup kept -> Urls]
      BY <2>2
    <2>4. e \in Entries /\ DOMAIN e = DOMAIN copy[c] \cup kept
      BY <2>2, <2>3, EntriesAre
    <2>5. file' = [parses |-> TRUE, entries |-> e]
      BY <2>1 DEF Holding
    <2> QED
      BY <2>4, <2>5 DEF Content
  <1> QED
    BY <1>2, <1>3
-----------------------------------------------------------------------------

\* The file, the cache and what the calls have read stay well formed.
THEOREM TypeCorrect == Spec => []TypeOK
  <1>1. Init => TypeOK
    BY NothingIsEntries, RequestsAssumption
    DEF Init, TypeOK, Content, Unreadable, Step, Replies
  <1>2. TypeOK /\ [Next]_vars => TypeOK'
    <2> SUFFICES ASSUME TypeOK, [Next]_vars PROVE TypeOK'
      OBVIOUS
    <2>1. ASSUME NEW c \in Calls
          PROVE  /\ copy[c] \in Entries /\ file.entries \in Entries
                 /\ request[c].name \in RepoNames /\ request[c].url \in Urls
      BY DEF TypeOK, Content, Request
    <2>2. ASSUME NEW c \in Calls, Receive(c) PROVE TypeOK'
      BY <2>2 DEF TypeOK, Receive, Goto, Step
    <2>3. ASSUME NEW c \in Calls, LoadToAdd(c) PROVE TypeOK'
      BY <2>1, <2>3 DEF TypeOK, LoadToAdd, Goto, Step
    <2>4. ASSUME NEW c \in Calls, LoadToRemove(c) PROVE TypeOK'
      <3>1. Without(file.entries, request[c].name) \in Entries
        BY <2>1, WithoutIsEntries
      <3> QED
        BY <2>4, <3>1 DEF TypeOK, LoadToRemove, Goto, Answer, Step, Replies
    <2>5. ASSUME NEW c \in Calls, LoadToUpdate(c) PROVE TypeOK'
      <3> DEFINE named == {n \in DOMAIN file.entries :
                     request[c].op = "updateOne" => n = request[c].name}
      <3>1. [n \in named |-> file.entries[n]] \in Entries
        <4> DEFINE e == [n \in named |-> file.entries[n]]
        <4>1. /\ DOMAIN file.entries \in SUBSET RepoNames
              /\ file.entries \in [DOMAIN file.entries -> Urls]
          BY <2>1, EntriesAre
        <4>2. e \in [named -> Urls] /\ DOMAIN e = named
          BY <4>1
        <4>3. named \in SUBSET RepoNames
          BY <4>1
        <4> HIDE DEF named
        <4>4. e \in Entries
          BY <4>2, <4>3, EntriesAre
        <4> QED
          BY <4>4
      <3>2. \/ /\ copy' = [copy EXCEPT ![c] = [n \in named |-> file.entries[n]]]
               /\ pc' = [pc EXCEPT ![c] = "refresh"] /\ reply' = reply
            \/ /\ copy' = copy /\ pc' = [pc EXCEPT ![c] = "done"]
               /\ reply' = [reply EXCEPT ![c] = "failed"]
        BY <2>5 DEF LoadToUpdate, Goto, Answer
      <3>3. UNCHANGED <<file, cache, request>>
        BY <2>5 DEF LoadToUpdate
      <3> HIDE DEF named
      <3> QED
        BY <3>1, <3>2, <3>3 DEF TypeOK, Step, Replies
    <2>6. ASSUME NEW c \in Calls, DownloadFails(c) PROVE TypeOK'
      BY <2>6 DEF TypeOK, DownloadFails, Return, Goto, Answer, Step, Replies
    <2>7. ASSUME NEW c \in Calls, Download(c) PROVE TypeOK'
      <3>1. Updated(copy[c], request[c].name, request[c].url) \in Entries
        BY <2>1, UpdatedIsEntries
      <3>2. Updated(cache, request[c].name, request[c].url) \in Entries
        BY <2>1, UpdatedIsEntries DEF TypeOK
      <3> QED
        BY <2>7, <3>1, <3>2 DEF TypeOK, Download, Goto, Step
    <2>8. ASSUME NEW c \in Calls, Refresh(c) PROVE TypeOK'
      <3>1. PICK n \in DOMAIN copy[c] :
                /\ copy' = [copy EXCEPT ![c] = Without(@, n)]
                /\ \/ cache' = Updated(cache, n, copy[c][n])
                   \/ cache' = cache
                /\ reply' = reply \/ reply' = [reply EXCEPT ![c] = "failed"]
        BY <2>8 DEF Refresh
      <3>2. n \in RepoNames /\ copy[c][n] \in Urls
        BY <2>1, EntriesAre
      <3>3. Without(copy[c], n) \in Entries
        BY <2>1, WithoutIsEntries
      <3>4. Updated(cache, n, copy[c][n]) \in Entries
        BY <3>2, UpdatedIsEntries DEF TypeOK
      <3> QED
        BY <2>8, <3>1, <3>3, <3>4 DEF TypeOK, Refresh, Replies
    <2>9. ASSUME NEW c \in Calls, Refreshed(c) PROVE TypeOK'
      BY <2>9 DEF TypeOK, Refreshed, Goto, Step
    <2>10. ASSUME NEW c \in Calls, TruncateFile(c) PROVE TypeOK'
      <3>1. Truncated \in Content
        BY NothingIsEntries DEF Truncated, Content
      <3>2. file' \in Content
        BY <2>10, <3>1 DEF TypeOK, TruncateFile
      <3> QED
        BY <2>10, <3>2
        DEF TypeOK, TruncateFile, Return, Goto, Answer, Step, Replies
    <2>11. ASSUME NEW c \in Calls, WriteFile(c) PROVE TypeOK'
      <3>1. WriteEntries(c) => file' \in Content
        BY WrittenContent
      <3> QED
        BY <2>11, <3>1 DEF TypeOK, WriteFile, Return, Goto, Answer, Step, Replies
    <2>12. ASSUME NEW c \in Calls, Search(c) PROVE TypeOK'
      <3>1. \A n \in DOMAIN cache : cache[n] \in Urls
        BY EntriesAre DEF TypeOK
      <3> QED
        BY <2>12, <3>1 DEF TypeOK, Search, Goto, Answer, Step, Replies
    <2>13. ASSUME NEW c \in Calls, LoadToList(c) PROVE TypeOK'
      BY <2>1, <2>13 DEF TypeOK, LoadToList, Goto, Step
    <2>14. ASSUME NEW c \in Calls, Locate(c) PROVE TypeOK'
      BY <2>1, <2>14 DEF TypeOK, Locate, Show, Goto, Answer, Step, Replies
    <2>15. ASSUME Crash PROVE TypeOK'
      BY <2>15 DEF TypeOK, Crash, Step
    <2>16. ASSUME UNCHANGED vars PROVE TypeOK'
      BY <2>16 DEF TypeOK, vars
    <2> QED
      BY <2>2, <2>3, <2>4, <2>5, <2>6, <2>7, <2>8, <2>9, <2>10, <2>11, <2>12,
         <2>15, <2>16, <2>13, <2>14
      DEF Next, Handle, Waiting
  <1> QED
    BY <1>1, <1>2, PTL DEF Spec
-----------------------------------------------------------------------------
(* What a call has read from the file has an index, too, and only AddRepo  *)
(* and ensureRepo download.                                                *)

HasIndex(n) == n \in DOMAIN cache \/ Ensured(n)

IndexInv ==
    /\ ConfiguredHasIndex
    /\ \A c \in Calls : \A n \in DOMAIN copy[c] : HasIndex(n)
    /\ \A c \in Calls :
           pc[c] = "download" => request[c].op \in {"add", "loadChart"}

\* No step takes an index out of the cache or changes a request.
LEMMA IndexesStay ==
    ASSUME TypeOK, [Next]_vars
    PROVE  /\ DOMAIN cache \subseteq DOMAIN cache'
           /\ request' = request
           /\ \A n : HasIndex(n) => HasIndex(n)'
  <1>1. request' = request
    BY DEF Next, Handle, vars, Waiting, Receive, LoadToAdd, LoadToList,
       LoadToRemove, LoadToUpdate, DownloadFails, Download, Refresh,
       Refreshed, TruncateFile, WriteFile, Locate, Search, Crash
  <1>2. \/ cache' = cache
        \/ \E c \in Calls : Download(c) \/ Refresh(c)
    BY DEF Next, Handle, vars, Waiting, Receive, LoadToAdd, LoadToList,
       LoadToRemove, LoadToUpdate, DownloadFails, Refreshed, TruncateFile,
       WriteFile, Locate, Search, Crash
  <1>3. ASSUME NEW c \in Calls, Download(c) \/ Refresh(c)
        PROVE  DOMAIN cache \subseteq DOMAIN cache'
    <2>1. cache' = cache \/ \E n, u : cache' = Updated(cache, n, u)
      BY <1>3 DEF Download, Refresh
    <2> QED
      BY <2>1 DEF Updated
  <1>4. DOMAIN cache \subseteq DOMAIN cache'
    BY <1>2, <1>3
  <1> QED
    BY <1>1, <1>4 DEF HasIndex, Ensured

\* However calls overlap, whichever step fails and wherever the process dies,
\* a configured repository has an index, unless loading a chart configured it.
THEOREM ConfiguredIndexed == Spec => []ConfiguredHasIndex
  <1>1. Init => IndexInv
    BY NothingIsEntries
    DEF Init, IndexInv, ConfiguredHasIndex, Unreadable
  <1>2. TypeOK /\ IndexInv /\ [Next]_vars => IndexInv'
    <2> SUFFICES ASSUME TypeOK, IndexInv, [Next]_vars PROVE IndexInv'
      OBVIOUS
    <2>1. /\ request' = request
          /\ \A n : HasIndex(n) => HasIndex(n)'
      BY IndexesStay
    <2>2. \A n \in DOMAIN file.entries : HasIndex(n)
      BY DEF IndexInv, ConfiguredHasIndex, HasIndex
    <2>3. /\ copy \in [Calls -> Entries] /\ pc \in [Calls -> Step]
          /\ file.entries \in Entries
          /\ request \in [Calls -> Request]
      BY DEF TypeOK, Content
    \* It is enough that a step leaves names with an index in the file and in
    \* the copies.
    <2>4. ASSUME \A n \in DOMAIN file'.entries : HasIndex(n)',
                 \A c \in Calls : \A n \in DOMAIN copy'[c] : HasIndex(n)',
                 \A c \in Calls : pc'[c] = "download" =>
                     pc[c] = "download" \/ request[c].op \in {"add", "loadChart"}
          PROVE  IndexInv'
      BY <2>1, <2>4 DEF IndexInv, ConfiguredHasIndex, HasIndex
    \* Most steps touch neither.
    <2>5. ASSUME file' = file, copy' = copy,
                 \A c \in Calls : pc'[c] = "download" => pc[c] = "download"
          PROVE  IndexInv'
      BY <2>1, <2>2, <2>4, <2>5 DEF IndexInv
    <2>6. ASSUME NEW c \in Calls, Receive(c) PROVE IndexInv'
      BY <2>3, <2>5, <2>6 DEF Receive, Goto
    <2>7. ASSUME NEW c \in Calls, LoadToAdd(c) PROVE IndexInv'
      <3>1. copy' = [copy EXCEPT ![c] = file.entries] /\ file' = file
        BY <2>7 DEF LoadToAdd
      <3>2. \A d \in Calls : \A n \in DOMAIN copy'[d] : HasIndex(n)
        BY <2>2, <2>3, <3>1 DEF IndexInv
      <3>3. \A d \in Calls : pc'[d] = "download" =>
                pc[d] = "download" \/ request[d].op \in {"add", "loadChart"}
        BY <2>3, <2>7 DEF LoadToAdd, Goto
      <3> QED
        BY <2>1, <2>2, <2>4, <3>1, <3>2, <3>3
    <2>8. ASSUME NEW c \in Calls, LoadToRemove(c) PROVE IndexInv'
      <3>1. /\ file' = file
            /\ \/ copy' = copy
               \/ copy' = [copy EXCEPT ![c] =
                              Without(file.entries, request[c].name)]
        BY <2>8 DEF LoadToRemove
      <3>2. \A d \in Calls : \A n \in DOMAIN copy'[d] : HasIndex(n)
        <4>1. DOMAIN Without(file.entries, request[c].name)
                  \subseteq DOMAIN file.entries
          BY DEF Without
        <4> QED
          BY <2>2, <2>3, <3>1, <4>1 DEF IndexInv
      <3>3. \A d \in Calls : pc'[d] = "download" => pc[d] = "download"
        BY <2>3, <2>8 DEF LoadToRemove, Goto, Answer
      <3> QED
        BY <2>1, <2>2, <2>4, <3>1, <3>2, <3>3
    <2>9. ASSUME NEW c \in Calls, LoadToUpdate(c) PROVE IndexInv'
      <3>1. /\ file' = file
            /\ \/ copy' = copy
               \/ \E names \in SUBSET DOMAIN file.entries :
                      copy' = [copy EXCEPT ![c] =
                                  [n \in names |-> file.entries[n]]]
        BY <2>9 DEF LoadToUpdate
      <3>2. \A d \in Calls : \A n \in DOMAIN copy'[d] : HasIndex(n)
        BY <2>2, <2>3, <3>1 DEF IndexInv
      <3>3. \A d \in Calls : pc'[d] = "download" => pc[d] = "download"
        BY <2>3, <2>9 DEF LoadToUpdate, Goto, Answer
      <3> QED
        BY <2>1, <2>2, <2>4, <3>1, <3>2, <3>3
    <2>10. ASSUME NEW c \in Calls, DownloadFails(c) PROVE IndexInv'
      BY <2>3, <2>5, <2>10 DEF DownloadFails, Return, Goto, Answer
    <2>11. ASSUME NEW c \in Calls, Download(c) PROVE IndexInv'
      <3> DEFINE n == request[c].name
      <3>1. HasIndex(n)'
        <4>1. CASE request[c].op = "add"
          BY <2>11, <4>1 DEF Download, Updated, HasIndex
        <4>2. CASE request[c].op = "loadChart"
          BY <2>1, <4>2 DEF HasIndex, Ensured
        <4> QED
          BY <2>11, <4>1, <4>2 DEF IndexInv, Download
      <3>2. file' = file /\ copy' = [copy EXCEPT ![c] =
                                        Updated(copy[c], n, request[c].url)]
        BY <2>11 DEF Download
      <3>3. DOMAIN Updated(copy[c], n, request[c].url)
                = DOMAIN copy[c] \cup {n}
        BY DEF Updated
      <3>4. \A d \in Calls : \A m \in DOMAIN copy'[d] : HasIndex(m) \/ m = n
        BY <2>3, <3>2, <3>3 DEF IndexInv
      <3>5. \A d \in Calls : pc'[d] = "download" => pc[d] = "download"
        BY <2>3, <2>11 DEF Download, Goto
      <3> QED
        BY <2>1, <2>2, <2>4, <3>1, <3>2, <3>4, <3>5
    <2>12. ASSUME NEW c \in Calls, Refresh(c) PROVE IndexInv'
      <3>1. /\ file' = file /\ pc' = pc
            /\ \E n : copy' = [copy EXCEPT ![c] = Without(copy[c], n)]
        BY <2>12 DEF Refresh
      <3>2. \A d \in Calls : \A n \in DOMAIN copy'[d] : HasIndex(n)
        <4>1. \A n : DOMAIN Without(copy[c], n) \subseteq DOMAIN copy[c]
          BY DEF Without
        <4> QED
          BY <2>3, <3>1, <4>1 DEF IndexInv
      <3> QED
        BY <2>1, <2>2, <2>4, <3>1, <3>2
    <2>13. ASSUME NEW c \in Calls, Refreshed(c) PROVE IndexInv'
      BY <2>3, <2>5, <2>13 DEF Refreshed, Goto
    <2>14. ASSUME NEW c \in Calls, TruncateFile(c) PROVE IndexInv'
      <3>1. copy' = copy /\ (file' = file \/ file' = Truncated)
        BY <2>14 DEF TruncateFile
      <3>2. \A n \in DOMAIN file'.entries : HasIndex(n)
        BY <2>2, <3>1, NothingIsEntries DEF Truncated
      <3>3. \A d \in Calls : pc'[d] = "download" => pc[d] = "download"
        BY <2>3, <2>14 DEF TruncateFile, Return, Goto, Answer
      <3> QED
        BY <2>1, <2>4, <3>1, <3>2, <3>3 DEF IndexInv
    <2>15. ASSUME NEW c \in Calls, WriteFile(c) PROVE IndexInv'
      <3>1. copy' = copy /\ (file' = file \/ WriteEntries(c))
        BY <2>15 DEF WriteFile
      <3>2. \A n \in DOMAIN file'.entries : HasIndex(n)
        BY <2>2, <3>1, WrittenContent DEF IndexInv
      <3>3. \A d \in Calls : pc'[d] = "download" => pc[d] = "download"
        BY <2>3, <2>15 DEF WriteFile, Return, Goto, Answer
      <3> QED
        BY <2>1, <2>4, <3>1, <3>2, <3>3 DEF IndexInv
    <2>16. ASSUME NEW c \in Calls, Search(c) PROVE IndexInv'
      BY <2>3, <2>5, <2>16 DEF Search, Goto, Answer
    <2>17. ASSUME NEW c \in Calls, Locate(c) PROVE IndexInv'
      BY <2>3, <2>5, <2>17 DEF Locate, Show, Goto, Answer
    <2>18. ASSUME NEW c \in Calls, LoadToList(c) PROVE IndexInv'
      <3>1. copy' = [copy EXCEPT ![c] = file.entries] /\ file' = file
        BY <2>18 DEF LoadToList
      <3>2. \A d \in Calls : \A n \in DOMAIN copy'[d] : HasIndex(n)
        BY <2>2, <2>3, <3>1 DEF IndexInv
      <3>3. \A d \in Calls : pc'[d] = "download" => pc[d] = "download"
        BY <2>3, <2>18 DEF LoadToList, Goto
      <3> QED
        BY <2>1, <2>2, <2>4, <3>1, <3>2, <3>3
    <2>19. ASSUME Crash PROVE IndexInv'
      BY <2>5, <2>19 DEF Crash
    <2>20. ASSUME UNCHANGED vars PROVE IndexInv'
      BY <2>5, <2>20 DEF vars
    <2> QED
      BY <2>6, <2>7, <2>8, <2>9, <2>10, <2>11, <2>12, <2>13, <2>14, <2>15,
         <2>16, <2>19, <2>20, <2>17, <2>18
      DEF Next, Handle, Waiting
  <1>3. IndexInv => ConfiguredHasIndex
    BY DEF IndexInv
  <1> QED
    BY <1>1, <1>2, <1>3, TypeCorrect, PTL DEF Spec
-----------------------------------------------------------------------------
(* What is in the file, the cache and the copies was asked for: the steps  *)
(* only move entries, leave some out, and enter what the call asks for.    *)

AskInv ==
    /\ NothingInvented
    /\ \A c \in Calls :
           /\ pc[c] = "download" => request[c].op \in {"add", "loadChart"}
           /\ pc[c] = "locate" => request[c].op = "loadChart"

\* No entries, fewer entries, and one that is asked for besides.
LEMMA AskedForOperators ==
    ASSUME NEW e, AskedFor(e)
    PROVE  /\ AskedFor(Nothing)
           /\ \A n : AskedFor(Without(e, n))
           /\ \A names \in SUBSET DOMAIN e : AskedFor([n \in names |-> e[n]])
           /\ \A n, u : Asked(n, u) => AskedFor(Updated(e, n, u))
  BY DEF AskedFor, Nothing, Without, Updated

\* What a call has asked for it goes on asking for.
LEMMA AsksStay ==
    ASSUME TypeOK, [Next]_vars
    PROVE  /\ request' = request
           /\ \A n, u : Asked(n, u) => Asked(n, u)'
  <1>1. request' = request
    BY IndexesStay
  <1>2. \A c \in Calls : pc[c] # "idle" => pc'[c] # "idle"
    <2>1. \/ pc' = pc
          \/ \E c \in Calls, step \in Step \ {"idle"} :
                 pc' = [pc EXCEPT ![c] = step]
          \/ pc' = [c \in Calls |-> IF c \in InFlight THEN "done" ELSE pc[c]]
      BY DEF Next, Handle, vars, Waiting, Receive, LoadToAdd, LoadToList,
         LoadToRemove, LoadToUpdate, DownloadFails, Download, Refresh,
         Refreshed, TruncateFile, WriteFile, Locate, Show, Search, Crash, Goto,
         Return, Answer, Step
    <2> QED
      BY <2>1 DEF TypeOK
  <1> QED
    BY <1>1, <1>2 DEF Asked

\* What a write leaves was in the writer's copy or in the file.
LEMMA WrittenAskedFor ==
    ASSUME NEW c \in Calls, WriteEntries(c),
           AskedFor(file.entries), AskedFor(copy[c])
    PROVE  AskedFor(file'.entries)
  <1>1. CASE file' = Unreadable
    BY <1>1, AskedForOperators DEF Unreadable
  <1>2. CASE file' # Unreadable
    <2>1. PICK kept \in SUBSET (DOMAIN file.entries \ DOMAIN copy[c]) :
              file' = Holding([n \in DOMAIN copy[c] \cup kept |->
                          IF n \in kept THEN file.entries[n] ELSE copy[c][n]])
      BY <1>2 DEF WriteEntries
    <2>2. file'.entries = [n \in DOMAIN copy[c] \cup kept |->
              IF n \in kept THEN file.entries[n] ELSE copy[c][n]]
      BY <2>1 DEF Holding
    <2> QED
      BY <2>2 DEF AskedFor
  <1> QED
    BY <1>1, <1>2

\* However calls overlap and whatever fails, no name is paired with a URL it
\* was not asked for with, in the file, in the cache or in an answer.
THEOREM NothingIsInvented == Spec => []NothingInvented
  <1>1. Init => AskInv
    BY RepliesAssumption, NothingIsEntries
    DEF Init, AskInv, NothingInvented, AskedFor, Unreadable, Replies
  <1>2. TypeOK /\ AskInv /\ [Next]_vars => AskInv'
    <2> SUFFICES ASSUME TypeOK, AskInv, [Next]_vars PROVE AskInv'
      OBVIOUS
    <2>1. /\ request' = request
          /\ \A n, u : Asked(n, u) => Asked(n, u)'
      BY AsksStay
    <2>2. /\ AskedFor(file.entries) /\ AskedFor(cache)
          /\ \A c \in Calls : AskedFor(copy[c])
          /\ \A c \in Calls : reply[c] \in Urls =>
                 \E n \in RepoNames : Asked(n, reply[c])
      BY DEF AskInv, NothingInvented
    <2>3. /\ copy \in [Calls -> Entries] /\ pc \in [Calls -> Step]
          /\ request \in [Calls -> Request]
          /\ reply \in [Calls -> Replies \cup Urls]
      BY DEF TypeOK
    <2> DEFINE WaysIn ==
            \A c \in Calls :
                /\ pc'[c] = "download" => pc[c] = "download"
                       \/ request[c].op \in {"add", "loadChart"}
                /\ pc'[c] = "locate" => pc[c] = "locate"
                       \/ request[c].op = "loadChart"
               Replied ==
            \/ reply' = reply
            \/ \E c \in Calls, r \in Replies :
                   reply' = [reply EXCEPT ![c] = r]
            \/ \E c \in Calls : \E n \in RepoNames, u \in Urls :
                   Asked(n, u) /\ reply' = [reply EXCEPT ![c] = u]
    \* It is enough that a step leaves what was asked for.
    <2>4. ASSUME AskedFor(file'.entries), AskedFor(cache'),
                 \A c \in Calls : AskedFor(copy'[c]), Replied, WaysIn
          PROVE  AskInv'
      <3>1. \A e : AskedFor(e) => \A n \in DOMAIN e : Asked(n, e[n])'
        BY <2>1 DEF AskedFor
      <3>2. \A c \in Calls : reply'[c] \in Urls =>
                \E n \in RepoNames : Asked(n, reply'[c])
        BY <2>2, <2>3, <2>4, RepliesAssumption
      <3>3. \A c \in Calls :
                /\ pc'[c] = "download" => request'[c].op \in {"add", "loadChart"}
                /\ pc'[c] = "locate" => request'[c].op = "loadChart"
        BY <2>1, <2>4 DEF AskInv
      <3>4. /\ AskedFor(file.entries)' /\ AskedFor(cache)'
            /\ \A c \in Calls : AskedFor(copy[c])'
        BY <2>4, <3>1 DEF AskedFor
      <3>5. \A c \in Calls : reply'[c] \in Urls =>
                \E n \in RepoNames : Asked(n, reply[c])'
        BY <2>1, <3>2
      <3> QED
        BY <3>3, <3>4, <3>5 DEF AskInv, NothingInvented
    \* One copy changes, or none.
    <2>5. \A c \in Calls : \A e : AskedFor(e) =>
              (copy' = [copy EXCEPT ![c] = e] =>
                   \A d \in Calls : AskedFor(copy'[d]))
      BY <2>2, <2>3
    <2> HIDE DEF WaysIn, Replied
    <2>6. ASSUME file' = file, cache' = cache, copy' = copy, Replied, WaysIn
          PROVE  AskInv'
      BY <2>2, <2>4, <2>6
    <2>7. ASSUME NEW c \in Calls, Receive(c) PROVE AskInv'
      <3>1. WaysIn
        BY <2>3, <2>7 DEF Receive, Goto, WaysIn
      <3> QED
        BY <2>6, <2>7, <3>1 DEF Receive, Replied
    <2>8. ASSUME NEW c \in Calls, LoadToAdd(c) \/ LoadToList(c) PROVE AskInv'
      <3>1. WaysIn
        BY <2>3, <2>8 DEF LoadToAdd, LoadToList, Goto, WaysIn
      <3>2. /\ copy' = [copy EXCEPT ![c] = file.entries]
            /\ UNCHANGED <<file, cache, reply>>
        BY <2>8 DEF LoadToAdd, LoadToList
      <3> QED
        BY <2>2, <2>4, <2>5, <3>1, <3>2 DEF Replied
    <2>9. ASSUME NEW c \in Calls, LoadToRemove(c) PROVE AskInv'
      <3>1. WaysIn
        BY <2>3, <2>9 DEF LoadToRemove, Goto, Answer, WaysIn
      <3>2. AskedFor(Without(file.entries, request[c].name))
        BY <2>2, AskedForOperators
      <3>3. /\ copy' = copy \/ copy' = [copy EXCEPT ![c] =
                                   Without(file.entries, request[c].name)]
            /\ UNCHANGED <<file, cache>>
            /\ reply' = reply \/ reply' = [reply EXCEPT ![c] = "failed"]
        BY <2>9 DEF LoadToRemove, Answer
      <3>4. \A d \in Calls : AskedFor(copy'[d])
        BY <2>2, <2>5, <3>2, <3>3
      <3> QED
        BY <2>2, <2>4, <3>1, <3>3, <3>4 DEF Replied, Replies
    <2>10. ASSUME NEW c \in Calls, LoadToUpdate(c) PROVE AskInv'
      <3>1. WaysIn
        BY <2>3, <2>10 DEF LoadToUpdate, Goto, Answer, WaysIn
      <3>2. /\ \/ copy' = copy
               \/ \E names \in SUBSET DOMAIN file.entries :
                      copy' = [copy EXCEPT ![c] =
                                  [n \in names |-> file.entries[n]]]
            /\ UNCHANGED <<file, cache>>
            /\ reply' = reply \/ reply' = [reply EXCEPT ![c] = "failed"]
        BY <2>10 DEF LoadToUpdate, Answer
      <3>3. \A names \in SUBSET DOMAIN file.entries :
                AskedFor([n \in names |-> file.entries[n]])
        BY <2>2, AskedForOperators
      <3>4. \A d \in Calls : AskedFor(copy'[d])
        BY <2>2, <2>5, <3>2, <3>3
      <3> QED
        BY <2>2, <2>4, <3>1, <3>2, <3>4 DEF Replied, Replies
    <2>11. ASSUME NEW c \in Calls, DownloadFails(c) PROVE AskInv'
      <3>1. WaysIn
        BY <2>3, <2>11 DEF DownloadFails, Return, Goto, Answer, WaysIn
      <3> QED
        BY <2>6, <2>11, <3>1 DEF DownloadFails, Return, Answer, Replied, Replies
    <2>12. ASSUME NEW c \in Calls, Download(c) PROVE AskInv'
      <3> DEFINE n == request[c].name
                 u == request[c].url
      <3>1. WaysIn
        BY <2>3, <2>12 DEF Download, Goto, WaysIn
      <3>2. Asked(n, u)
        BY <2>12 DEF Download, AskInv, Asked
      <3>3. AskedFor(Updated(cache, n, u)) /\ AskedFor(Updated(copy[c], n, u))
        BY <2>2, <3>2, AskedForOperators
      <3>4. /\ copy' = [copy EXCEPT ![c] = Updated(copy[c], n, u)]
            /\ cache' = cache \/ cache' = Updated(cache, n, u)
            /\ UNCHANGED <<file, reply>>
        BY <2>12 DEF Download
      <3> HIDE DEF n, u
      <3>5. \A d \in Calls : AskedFor(copy'[d])
        BY <2>5, <3>3, <3>4
      <3> QED
        BY <2>2, <2>4, <3>1, <3>3, <3>4, <3>5 DEF Replied
    <2>13. ASSUME NEW c \in Calls, Refresh(c) PROVE AskInv'
      <3>1. PICK n \in DOMAIN copy[c] :
                /\ copy' = [copy EXCEPT ![c] = Without(copy[c], n)]
                /\ cache' = cache \/ cache' = Updated(cache, n, copy[c][n])
                /\ reply' = reply \/ reply' = [reply EXCEPT ![c] = "failed"]
        BY <2>13 DEF Refresh
      <3>2. UNCHANGED <<file, pc>>
        BY <2>13 DEF Refresh
      <3>3. Asked(n, copy[c][n])
        BY <2>2 DEF AskedFor
      <3>4. /\ AskedFor(Updated(cache, n, copy[c][n]))
            /\ AskedFor(Without(copy[c], n))
        BY <2>2, <3>3, AskedForOperators
      <3>5. \A d \in Calls : AskedFor(copy'[d])
        BY <2>5, <3>1, <3>4
      <3> QED
        BY <2>2, <2>4, <3>1, <3>2, <3>4, <3>5 DEF Replied, Replies, WaysIn
    <2>14. ASSUME NEW c \in Calls, Refreshed(c) PROVE AskInv'
      <3>1. WaysIn
        BY <2>3, <2>14 DEF Refreshed, Goto, WaysIn
      <3> QED
        BY <2>6, <2>14, <3>1 DEF Refreshed, Replied
    <2>15. ASSUME NEW c \in Calls, TruncateFile(c) PROVE AskInv'
      <3>1. WaysIn
        BY <2>3, <2>15 DEF TruncateFile, Return, Goto, Answer, WaysIn
      <3>2. /\ file' = file \/ file' = Truncated
            /\ UNCHANGED <<cache, copy>>
            /\ reply' = reply \/ reply' = [reply EXCEPT ![c] = "failed"]
        BY <2>15 DEF TruncateFile, Return, Answer
      <3>3. AskedFor(Truncated.entries)
        BY <2>2, AskedForOperators DEF Truncated
      <3> QED
        BY <2>2, <2>4, <3>1, <3>2, <3>3 DEF Replied, Replies
    <2>16. ASSUME NEW c \in Calls, WriteFile(c) PROVE AskInv'
      <3>1. WaysIn
        BY <2>3, <2>16 DEF WriteFile, Return, Goto, Answer, WaysIn
      <3>2. /\ file' = file \/ WriteEntries(c)
            /\ UNCHANGED <<cache, copy>>
            /\ \/ reply' = reply
               \/ \E r \in Replies : reply' = [reply EXCEPT ![c] = r]
        BY <2>16 DEF WriteFile, Return, Answer, Replies
      <3>3. WriteEntries(c) => AskedFor(file'.entries)
        BY <2>2, WrittenAskedFor
      <3> QED
        BY <2>2, <2>4, <3>1, <3>2, <3>3 DEF Replied
    <2>17. ASSUME NEW c \in Calls, Locate(c) PROVE AskInv'
      <3>1. WaysIn
        BY <2>3, <2>17 DEF Locate, Show, Goto, Answer, WaysIn
      <3>2. Asked(request[c].name, request[c].url)
        BY <2>17 DEF Locate, AskInv, Asked
      <3>3. request[c].name \in RepoNames /\ request[c].url \in Urls
        BY <2>3 DEF Request
      <3>4. Replied
        BY <2>17, <3>2, <3>3 DEF Locate, Show, Answer, Replied, Replies
      <3> QED
        BY <2>6, <2>17, <3>1, <3>4 DEF Locate
    <2>18. ASSUME NEW c \in Calls, Search(c) PROVE AskInv'
      <3>1. WaysIn
        BY <2>3, <2>18 DEF Search, Goto, Answer, WaysIn
      <3>2. \A n \in DOMAIN cache :
                n \in RepoNames /\ cache[n] \in Urls /\ Asked(n, cache[n])
        BY <2>2, EntriesAre DEF TypeOK, AskedFor
      <3>3. Replied
        BY <2>18, <3>2 DEF Search, Answer, Replied, Replies
      <3> QED
        BY <2>6, <2>18, <3>1, <3>3 DEF Search
    <2>19. ASSUME Crash PROVE AskInv'
      <3>1. WaysIn
        BY <2>19 DEF Crash, WaysIn
      <3> QED
        BY <2>6, <2>19, <3>1 DEF Crash, Replied
    <2>20. ASSUME UNCHANGED vars PROVE AskInv'
      BY <2>6, <2>20 DEF vars, Replied, WaysIn
    <2> QED
      BY <2>7, <2>8, <2>9, <2>10, <2>11, <2>12, <2>13, <2>14, <2>15, <2>16,
         <2>17, <2>18, <2>19, <2>20
      DEF Next, Handle, Waiting
  <1>3. AskInv => NothingInvented
    BY DEF AskInv
  <1> QED
    BY <1>1, <1>2, <1>3, TypeCorrect, PTL DEF Spec

-----------------------------------------------------------------------------
(* One call at a time                                                      *)

\* One call at a time; downloads may fail, and nothing else.
Undisturbed == MaxInFlight = 1 /\ Faults \subseteq {"network"}

\* What the call is about to write is the file as it was asked to change it.
AsAsked(c) ==
    LET q == request[c] IN
    \/ /\ q.op \in {"add", "loadChart"}
       /\ copy[c] = Updated(file.entries, q.name, q.url)
    \/ /\ q.op = "remove" /\ q.name \in DOMAIN file.entries
       /\ copy[c] = Without(file.entries, q.name)

\* The call's own view of the file is the file, up to what it has changed.
UpToDate(c) ==
    /\ pc[c] = "download" =>
           /\ request[c].op \in {"add", "loadChart"}
           /\ copy[c] = file.entries
    /\ pc[c] = "refresh" =>
           \A n \in DOMAIN copy[c] :
               n \in DOMAIN file.entries /\ copy[c][n] = file.entries[n]
    /\ pc[c] = "truncate" => AsAsked(c)
    /\ pc[c] = "write" => file = Truncated

AloneInv ==
    /\ \A c, d \in InFlight : c = d
    /\ \A c \in Calls : UpToDate(c)

\* A step is taken by one call, while every other one is idle or done.
OnlyMoves(c) ==
    /\ Receive(c) \/ Handle(c)
    /\ request' = request /\ \E step \in Step : Goto(c, step)
    /\ \A d \in Calls \ {c} : pc[d] \in {"idle", "done"} /\ pc'[d] = pc[d]

\* With one call in flight at most, every step that changes anything is such
\* a step: Receive waits until the call before has returned.
LEMMA OneMoves ==
    ASSUME Undisturbed, TypeOK, AloneInv, [Next]_vars, ~UNCHANGED vars
    PROVE  \E c \in Calls : OnlyMoves(c)
  <1>1. PICK c \in Calls : Receive(c) \/ Handle(c)
    BY DEF Undisturbed, Next, Crash, Waiting
  <1>2. request' = request
    BY IndexesStay
  <1>3. \E step \in Step : Goto(c, step)
    <2>1. CASE Receive(c)
      BY <2>1 DEF Receive, Step
    <2>2. CASE Refresh(c)
      <3>1. pc' = [pc EXCEPT ![c] = "refresh"]
        BY <2>2 DEF Refresh, TypeOK
      <3> QED
        BY <3>1 DEF Goto, Step
    <2>3. CASE Handle(c) /\ ~Refresh(c)
      BY <2>3 DEF Handle, LoadToAdd, LoadToList, LoadToRemove, LoadToUpdate,
         DownloadFails, Download, Refreshed, TruncateFile, WriteFile, Locate,
         Show, Search, Return, Answer, Goto, Step
    <2> QED
      BY <1>1, <2>1, <2>2, <2>3
  <1>4. \A d \in Calls \ {c} : pc[d] \in {"idle", "done"}
    <2>1. CASE Receive(c)
      <3>1. InFlight = {}
        <4>1. SUFFICES ASSUME NEW d \in InFlight PROVE FALSE
          OBVIOUS
        <4>2. InFlight = {d}
          BY <4>1 DEF AloneInv
        <4>3. Cardinality(InFlight) = 1
          BY <4>2, FS_Singleton
        <4> QED
          BY <2>1, <4>3 DEF Receive, Undisturbed
      <3> QED
        BY <3>1 DEF InFlight
    <2>2. CASE Handle(c)
      <3>1. c \in InFlight
        BY <2>2 DEF Handle, LoadToAdd, LoadToList, LoadToRemove, LoadToUpdate,
           DownloadFails, Download, Refresh, Refreshed, TruncateFile,
           WriteFile, Locate, Search, InFlight
      <3> QED
        BY <3>1 DEF AloneInv, InFlight
    <2> QED
      BY <1>1, <2>1, <2>2
  <1>5. \A d \in Calls \ {c} : pc'[d] = pc[d]
    BY <1>3 DEF Goto, TypeOK
  <1> QED
    BY <1>1, <1>2, <1>3, <1>4, <1>5 DEF OnlyMoves

\* If the call that moves is up to date afterwards, the invariant holds: the
\* others are not at work.
LEMMA OthersRest ==
    ASSUME NEW c \in Calls, OnlyMoves(c), UpToDate(c)'
    PROVE  AloneInv'
  <1>1. \A d \in Calls \ {c} : pc'[d] \in {"idle", "done"}
    BY DEF OnlyMoves
  <1>2. \A d \in Calls : UpToDate(d)'
    BY <1>1 DEF UpToDate
  <1>3. InFlight' \subseteq {c}
    BY <1>1 DEF InFlight
  <1> QED
    BY <1>2, <1>3 DEF AloneInv

\* On a disk that works a write leaves what the call has in memory.
LEMMA WritesItsCopy ==
    ASSUME TypeOK, NEW c \in Calls, file = Truncated, WriteEntries(c)
    PROVE  file' = Holding(copy[c])
  <1>1. DOMAIN file.entries = {} /\ CoversFile(c)
    BY NothingIsEntries DEF Truncated, CoversFile
  <1>2. file' = Holding([n \in DOMAIN copy[c] |-> copy[c][n]])
    <2>1. PICK kept \in SUBSET (DOMAIN file.entries \ DOMAIN copy[c]) :
              file' = Holding([n \in DOMAIN copy[c] \cup kept |->
                          IF n \in kept THEN file.entries[n] ELSE copy[c][n]])
      BY <1>1 DEF WriteEntries
    <2>2. kept = {}
      BY <1>1
    <2> QED
      BY <2>1, <2>2
  <1>3. copy[c] = [n \in DOMAIN copy[c] |-> copy[c][n]]
    BY EntriesAre DEF TypeOK
  <1> QED
    BY <1>2, <1>3

\* The inductive step of AloneInv.
LEMMA AloneStep ==
    ASSUME Undisturbed, TypeOK, AloneInv, [Next]_vars
    PROVE  AloneInv'
  <1>1. CASE UNCHANGED vars
    BY <1>1 DEF vars, AloneInv, InFlight, UpToDate, AsAsked
  <1>2. CASE ~UNCHANGED vars
    <2>1. PICK c \in Calls : OnlyMoves(c)
      BY <1>2, OneMoves
    <2>2. /\ pc \in [Calls -> Step] /\ copy \in [Calls -> Entries]
          /\ request[c] \in Request /\ request' = request /\ UpToDate(c)
      BY <2>1 DEF TypeOK, OnlyMoves, AloneInv
    <2>3. SUFFICES UpToDate(c)'
      BY <2>1, OthersRest
    <2>4. CASE pc'[c] \notin {"download", "refresh", "truncate", "write"}
      BY <2>4 DEF UpToDate
    <2>5. CASE LoadToAdd(c)
      <3>1. /\ pc'[c] = "locate" \/ pc'[c] = "download"
            /\ request[c].op \in {"add", "loadChart"}
            /\ copy'[c] = file.entries /\ file' = file
        BY <2>2, <2>5 DEF LoadToAdd, Goto
      <3> QED
        BY <2>2, <3>1 DEF UpToDate
    <2>6. CASE LoadToRemove(c)
      <3>1. \/ pc'[c] = "done"
            \/ /\ pc'[c] = "truncate" /\ file' = file
               /\ request[c].op = "remove"
               /\ request[c].name \in DOMAIN file.entries
               /\ copy'[c] = Without(file.entries, request[c].name)
        BY <2>2, <2>6 DEF LoadToRemove, Goto, Answer
      <3> QED
        BY <2>2, <3>1 DEF UpToDate, AsAsked
    <2>7. CASE LoadToUpdate(c)
      <3>1. \/ pc'[c] = "done"
            \/ /\ pc'[c] = "refresh" /\ file' = file
               /\ \E names \in SUBSET DOMAIN file.entries :
                      copy'[c] = [n \in names |-> file.entries[n]]
        BY <2>2, <2>7 DEF LoadToUpdate, Goto, Answer
      <3> QED
        BY <3>1 DEF UpToDate
    <2>8. CASE Download(c)
      <3>1. /\ pc[c] = "download" /\ pc'[c] = "truncate" /\ file' = file
            /\ copy'[c] = Updated(copy[c], request[c].name, request[c].url)
        BY <2>2, <2>8 DEF Download, Goto
      <3> QED
        BY <2>2, <3>1 DEF UpToDate, AsAsked
    <2>9. CASE Refresh(c)
      <3>1. /\ pc[c] = "refresh" /\ pc'[c] = "refresh" /\ file' = file
            /\ \E n : copy'[c] = Without(copy[c], n)
        BY <2>2, <2>9 DEF Refresh
      <3> QED
        BY <2>2, <3>1 DEF UpToDate, Without
    <2>10. CASE TruncateFile(c)
      <3>1. pc'[c] = "write" /\ file' = Truncated
        BY <2>2, <2>10 DEF TruncateFile, Goto, Undisturbed
      <3> QED
        BY <3>1 DEF UpToDate
    <2>11. CASE \/ Receive(c) \/ LoadToList(c) \/ DownloadFails(c)
                \/ Refreshed(c) \/ WriteFile(c) \/ Locate(c) \/ Search(c)
      <3>1. pc'[c] \in {"load", "search", "locate", "done"}
        BY <2>2, <2>11 DEF Receive, LoadToList, DownloadFails, Refreshed,
           WriteFile, Locate, Show, Search, Return, Answer, Goto
      <3> QED
        BY <2>4, <3>1
    <2> QED
      BY <2>1, <2>5, <2>6, <2>7, <2>8, <2>9, <2>10, <2>11
      DEF OnlyMoves, Handle
  <1> QED
    BY <1>1, <1>2

\* No call is in flight at first.
LEMMA AloneInit == Init => AloneInv
  BY DEF Init, AloneInv, InFlight, UpToDate
-----------------------------------------------------------------------------
(* The file follows the book                                               *)

\* A book that holds these entries.
Entered(entries) ==
    [n \in RepoNames |-> IF n \in DOMAIN entries THEN entries[n] ELSE NoUrl]

Writers == {c \in Calls : pc[c] = "write"}

\* The refinement mapping of RepositoryFile.
TheBook ==
    [n \in RepoNames |->
        LET writers == {c \in Calls : pc[c] = "write"}
            entries == IF writers = {} THEN file.entries
                       ELSE copy[CHOOSE c \in writers : TRUE] IN
        IF n \in DOMAIN entries THEN entries[n] ELSE NoUrl]

\* What the mapping comes to when at most one call is at work.
LEMMA BookHolds ==
    /\ Writers = {} => TheBook = Entered(file.entries)
    /\ \A c : Writers = {c} => TheBook = Entered(copy[c])
  BY DEF TheBook, Entered, Writers

\* The same after a step.
LEMMA BookWillHold ==
    /\ Writers' = {} => TheBook' = Entered(file'.entries)
    /\ \A c : Writers' = {c} => TheBook' = Entered(copy'[c])
  BY DEF TheBook, Entered, Writers

\* Entering a repository into the entries enters it into the book.
LEMMA EnteredUpdated ==
    ASSUME NEW e \in Entries, NEW n \in RepoNames, NEW u \in Urls
    PROVE  Entered(Updated(e, n, u)) = [Entered(e) EXCEPT ![n] = u]
  BY UpdatedIsEntries DEF Entered, Updated

\* Dropping one strikes it out.
LEMMA EnteredWithout ==
    ASSUME NEW e \in Entries, NEW n \in DOMAIN e
    PROVE  /\ n \in RepoNames /\ Entered(e)[n] # NoUrl
           /\ Entered(Without(e, n)) = [Entered(e) EXCEPT ![n] = NoUrl]
  <1>1. n \in RepoNames /\ e[n] \in Urls
    BY EntriesAre
  <1>2. DOMAIN Without(e, n) = DOMAIN e \ {n}
    BY WithoutIsEntries
  <1> QED
    BY <1>1, <1>2, NoUrlAssumption DEF Entered, Without

\* The step that a step of the program takes in the book: the truncation of
\* the file enters or strikes out, and no other step shows.
LEMMA BookStep ==
    ASSUME Undisturbed, TypeOK, AloneInv, [Next]_vars
    PROVE  \/ TheBook' = TheBook
           \/ \E n \in RepoNames, u \in Urls :
                  TheBook' = [TheBook EXCEPT ![n] = u]
           \/ \E n \in RepoNames :
                  /\ TheBook[n] # NoUrl
                  /\ TheBook' = [TheBook EXCEPT ![n] = NoUrl]
  <1>1. CASE UNCHANGED vars
    BY <1>1 DEF vars, TheBook
  <1>2. CASE ~UNCHANGED vars
    <2>1. PICK c \in Calls : OnlyMoves(c)
      BY <1>2, OneMoves
    <2>2. /\ pc \in [Calls -> Step] /\ copy \in [Calls -> Entries]
          /\ file.entries \in Entries
          /\ request[c].name \in RepoNames /\ request[c].url \in Urls
          /\ UpToDate(c)
      BY DEF TypeOK, Content, Request, AloneInv
    <2>3. /\ Writers = IF pc[c] = "write" THEN {c} ELSE {}
          /\ Writers' = IF pc'[c] = "write" THEN {c} ELSE {}
      BY <2>1 DEF Writers, OnlyMoves
    <2>4. CASE TruncateFile(c)
      <3>1. /\ pc[c] = "truncate" /\ pc'[c] = "write" /\ copy' = copy
        BY <2>2, <2>4 DEF TruncateFile, Goto, Undisturbed
      <3>2. TheBook = Entered(file.entries) /\ TheBook' = Entered(copy[c])
        BY <2>3, <3>1, BookHolds, BookWillHold
      <3>3. AsAsked(c)
        BY <2>2, <3>1 DEF UpToDate
      <3>4. CASE copy[c] = Updated(file.entries, request[c].name, request[c].url)
        BY <2>2, <3>2, <3>4, EnteredUpdated
      <3>5. CASE /\ request[c].name \in DOMAIN file.entries
                 /\ copy[c] = Without(file.entries, request[c].name)
        BY <2>2, <3>2, <3>5, EnteredWithout
      <3> QED
        BY <3>3, <3>4, <3>5 DEF AsAsked
    <2>5. CASE WriteFile(c)
      <3>1. /\ pc[c] = "write" /\ pc'[c] # "write" /\ file = Truncated
            /\ WriteEntries(c)
        BY <2>2, <2>5
        DEF WriteFile, Return, Answer, Goto, UpToDate, Undisturbed
      <3>2. file'.entries = copy[c]
        BY <3>1, WritesItsCopy DEF Holding
      <3> QED
        BY <2>3, <3>1, <3>2, BookHolds, BookWillHold
    <2>6. CASE /\ Receive(c) \/ Handle(c)
               /\ ~TruncateFile(c) /\ ~WriteFile(c)
      <3>1. pc[c] # "write" /\ pc'[c] # "write" /\ file' = file
        BY <2>2, <2>6 DEF Receive, Handle, LoadToAdd, LoadToList,
           LoadToRemove, LoadToUpdate, DownloadFails, Download, Refresh,
           Refreshed, Locate, Show, Search, Return, Answer, Goto
      <3> QED
        BY <2>3, <3>1, BookHolds, BookWillHold
    <2> QED
      BY <2>1, <2>4, <2>5, <2>6 DEF OnlyMoves
  <1> QED
    BY <1>1, <1>2

\* While calls do not overlap, the disk works and the process lives, the
\* repository file behaves as a book: repo_add, repo_remove and the charts
\* that are loaded enter or strike out one repository in one step, although
\* the program reads the file, changes it in memory, empties it and writes
\* it back.
THEOREM BookIsFollowed ==
    ASSUME Undisturbed
    PROVE  Spec => FollowsBook
  <1>1. Init => Book!BookInit
    BY NothingIsEntries
    DEF Init, Unreadable, Book!BookInit
  <1>2. TypeOK /\ AloneInv /\ [Next]_vars => [Book!BookNext]_TheBook
    <2> SUFFICES ASSUME TypeOK, AloneInv, [Next]_vars, TheBook' # TheBook
                 PROVE  Book!BookNext
      BY DEF TheBook
    <2> QED
      BY BookStep DEF Book!BookNext, Book!Enter, Book!Strike, TheBook
  <1>3. TypeOK /\ AloneInv /\ [Next]_vars => AloneInv'
    BY AloneStep
  <1> QED
    BY <1>1, <1>2, <1>3, AloneInit, TypeCorrect, PTL
    DEF Spec, FollowsBook, Book!BookSpec, TheBook
-----------------------------------------------------------------------------
(* The indexes are current                                                 *)

\* The index of each of these repositories is that of its URL.
Current(entries) ==
    \A n \in DOMAIN entries :
        \/ Ensured(n)
        \/ n \in DOMAIN cache /\ cache[n] = entries[n]

\* Between the download and the write it is the copy that is current, and not
\* the file.
CurrentInv ==
    /\ (\A c \in Calls : pc[c] # "truncate") => Current(file.entries)
    /\ \A c \in Calls : pc[c] \in {"truncate", "write"} => Current(copy[c])

\* It is enough that the call that moves leaves the one or the other current.
LEMMA MoverLeavesCurrent ==
    ASSUME NEW c \in Calls, OnlyMoves(c),
           pc'[c] # "truncate" => Current(file.entries)',
           pc'[c] \in {"truncate", "write"} => Current(copy[c])'
    PROVE  CurrentInv'
  <1>1. \A d \in Calls \ {c} : pc'[d] \in {"idle", "done"}
    BY DEF OnlyMoves
  <1>2. \A d \in Calls : pc'[d] \in {"truncate", "write"} => d = c
    BY <1>1
  <1>3. ASSUME \A d \in Calls : pc'[d] # "truncate"
        PROVE  Current(file.entries)'
    BY <1>3
  <1>4. \A d \in Calls : pc'[d] \in {"truncate", "write"} => Current(copy[d])'
    BY <1>2
  <1> QED
    BY <1>3, <1>4 DEF CurrentInv

\* The inductive step of CurrentInv.
LEMMA CurrentStep ==
    ASSUME Undisturbed, TypeOK, AloneInv, CurrentInv, [Next]_vars
    PROVE  CurrentInv'
  <1>1. CASE UNCHANGED vars
    BY <1>1 DEF vars, CurrentInv, Current, Ensured
  <1>2. CASE ~UNCHANGED vars
    <2>1. PICK c \in Calls : OnlyMoves(c)
      BY <1>2, OneMoves
    <2>2. /\ pc \in [Calls -> Step] /\ copy \in [Calls -> Entries]
          /\ file.entries \in Entries /\ cache \in Entries
          /\ request' = request
          /\ UpToDate(c)
      BY <2>1 DEF TypeOK, Content, AloneInv, OnlyMoves
    <2>3. pc[c] # "truncate" => Current(file.entries)
      BY <2>1 DEF CurrentInv, OnlyMoves
    <2>4. pc[c] \in {"truncate", "write"} => Current(copy[c])
      BY DEF CurrentInv
    <2>5. \A n : Ensured(n)' <=> Ensured(n)
      BY <2>2 DEF Ensured
    \* Most steps leave the file and the cache alone.
    <2>6. ASSUME file' = file, cache' = cache, pc[c] # "truncate",
                 pc'[c] \notin {"truncate", "write"}
          PROVE  CurrentInv'
      <3>1. Current(file.entries)'
        BY <2>3, <2>5, <2>6 DEF Current
      <3> QED
        BY <2>1, <2>6, <3>1, MoverLeavesCurrent
    <2>7. CASE LoadToRemove(c)
      <3>1. CASE pc'[c] = "done"
        BY <2>6, <2>7, <3>1 DEF LoadToRemove
      <3>2. CASE pc'[c] # "done"
        <4>1. /\ pc[c] = "load" /\ pc'[c] = "truncate" /\ cache' = cache
              /\ copy'[c] = Without(file.entries, request[c].name)
          BY <2>2, <2>7, <3>2 DEF LoadToRemove, Goto, Answer
        <4>2. Current(copy[c])'
          BY <2>3, <2>5, <4>1 DEF Current, Without
        <4> QED
          BY <2>1, <4>1, <4>2, MoverLeavesCurrent
      <3> QED
        BY <3>1, <3>2
    <2>8. CASE Download(c)
      <3> DEFINE n == request[c].name
                 u == request[c].url
      <3>1. /\ pc[c] = "download" /\ pc'[c] = "truncate"
            /\ copy[c] = file.entries
            /\ copy'[c] = Updated(copy[c], n, u)
            /\ \/ request[c].op = "add" /\ cache' = Updated(cache, n, u)
               \/ request[c].op = "loadChart" /\ cache' = cache
        BY <2>2, <2>8 DEF Download, Goto, UpToDate
      <3>2. Current(copy[c])
        BY <2>3, <3>1
      <3>3. request[c].op = "loadChart" => Ensured(n)
        BY DEF Ensured
      <3> HIDE DEF n, u
      <3>4. Current(copy[c])'
        <4>1. CASE cache' = Updated(cache, n, u)
          BY <2>5, <3>1, <3>2, <4>1 DEF Current, Updated
        <4>2. CASE request[c].op = "loadChart" /\ cache' = cache
          BY <2>5, <3>1, <3>2, <3>3, <4>2 DEF Current, Updated
        <4> QED
          BY <3>1, <4>1, <4>2
      <3> QED
        BY <2>1, <3>1, <3>4, MoverLeavesCurrent
    <2>9. CASE Refresh(c)
      <3>1. PICK n \in DOMAIN copy[c] :
                cache' = cache \/ cache' = Updated(cache, n, copy[c][n])
        BY <2>9 DEF Refresh
      <3>2. pc[c] = "refresh" /\ pc'[c] = "refresh" /\ file' = file
        BY <2>9 DEF Refresh
      <3>3. copy[c][n] = file.entries[n]
        BY <2>2, <3>2 DEF UpToDate
      <3>4. Current(file.entries)'
        BY <2>3, <2>5, <3>1, <3>2, <3>3 DEF Current, Updated
      <3> QED
        BY <2>1, <3>2, <3>4, MoverLeavesCurrent
    <2>10. CASE TruncateFile(c)
      <3>1. /\ pc[c] = "truncate" /\ pc'[c] = "write"
            /\ file' = Truncated /\ UNCHANGED <<cache, copy>>
        BY <2>2, <2>10 DEF TruncateFile, Goto, Undisturbed
      <3>2. Current(file.entries)'
        BY <3>1, NothingIsEntries DEF Truncated, Current
      <3>3. Current(copy[c])'
        BY <2>4, <2>5, <3>1 DEF Current
      <3> QED
        BY <2>1, <3>1, <3>2, <3>3, MoverLeavesCurrent
    <2>11. CASE WriteFile(c)
      <3>1. /\ pc[c] = "write" /\ pc'[c] \in {"locate", "done"}
            /\ file = Truncated /\ WriteEntries(c) /\ cache' = cache
        BY <2>2, <2>11
        DEF WriteFile, Return, Answer, Goto, UpToDate, Undisturbed
      <3>2. file'.entries = copy[c]
        BY <3>1, WritesItsCopy DEF Holding
      <3>3. Current(file.entries)'
        BY <2>4, <2>5, <3>1, <3>2 DEF Current
      <3> QED
        BY <2>1, <3>1, <3>3, MoverLeavesCurrent
    <2>12. CASE \/ Receive(c) \/ LoadToAdd(c) \/ LoadToList(c)
                \/ LoadToUpdate(c) \/ DownloadFails(c) \/ Refreshed(c)
                \/ Locate(c) \/ Search(c)
      <3>1. /\ file' = file /\ cache' = cache /\ pc[c] # "truncate"
            /\ pc'[c] \notin {"truncate", "write"}
        BY <2>2, <2>12 DEF Receive, LoadToAdd, LoadToList, LoadToUpdate,
           DownloadFails, Refreshed, Locate, Show, Search, Return, Answer, Goto
      <3> QED
        BY <2>6, <3>1
    <2> QED
      BY <2>1, <2>7, <2>8, <2>9, <2>10, <2>11, <2>12 DEF OnlyMoves, Handle
  <1> QED
    BY <1>1, <1>2

\* While calls do not overlap, the disk works and the process lives, the
\* index of a configured repository is that of its URL whenever no call is in
\* flight, whatever was added, replaced, removed and refreshed and whichever
\* download failed.
THEOREM IndexesAreCurrent ==
    ASSUME Undisturbed
    PROVE  Spec => []IndexIsCurrent
  <1>1. Init => CurrentInv
    BY NothingIsEntries DEF Init, CurrentInv, Current, Unreadable
  <1>2. TypeOK /\ AloneInv /\ [Next]_vars => AloneInv'
    BY AloneStep
  <1>3. TypeOK /\ AloneInv /\ CurrentInv /\ [Next]_vars => CurrentInv'
    BY CurrentStep
  <1>4. CurrentInv => IndexIsCurrent
    BY DEF CurrentInv, Current, IndexIsCurrent, InFlight
  <1> QED
    BY <1>1, <1>2, <1>3, <1>4, AloneInit, TypeCorrect, PTL DEF Spec
=============================================================================
