--------------------------- MODULE RepositoryBook ---------------------------
(***************************************************************************)
(* What the repository tools promise: a book of repositories, by name, in  *)
(* which repo_add enters or replaces one and repo_remove strikes one out,  *)
(* each in a single step (the comments of outbound.HelmPort).              *)
(***************************************************************************)
CONSTANTS RepoNames, Urls, NoUrl

VARIABLE book

BookTypeOK == book \in [RepoNames -> Urls \cup {NoUrl}]

BookInit == book = [n \in RepoNames |-> NoUrl]

Enter(n, u) == book' = [book EXCEPT ![n] = u]

Strike(n) == book[n] # NoUrl /\ book' = [book EXCEPT ![n] = NoUrl]

BookNext ==
    \E n \in RepoNames : Strike(n) \/ \E u \in Urls : Enter(n, u)

BookSpec == BookInit /\ [][BookNext]_book
=============================================================================
