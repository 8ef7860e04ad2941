----------------------------- MODULE Repository -----------------------------
(***************************************************************************)
(* The SQLite deployment store (internal/adapters/storage/sqlite).  The    *)
(* table is a function from the ids that have a row; nextRowid stands for  *)
(* SQLite's implicit rowid, of which only the order can be observed.       *)
(* MaxOpenConns is 1, so every statement is one atomic step.               *)
(***************************************************************************)
EXTENDS Deployment

VARIABLES table, nextRowid

storeVars == <<table, nextRowid>>

Row == [release : Releases, chart : Charts, status : Status, version : Nat,
        history : Seq(HistoryEntry), rowid : Nat]

\* f with k mapped to v, and f without k.
Put(f, k, v) == [x \in DOMAIN f \cup {k} |-> IF x = k THEN v ELSE f[x]]
Drop(f, k) == [x \in DOMAIN f \ {k} |-> f[x]]

StoreTypeOK ==
    /\ DOMAIN table \subseteq Ids
    /\ table = [id \in DOMAIN table |-> table[id]]
    /\ \A id \in DOMAIN table : table[id] \in Row
    /\ nextRowid \in Nat

StoreInit == table = [id \in {} |-> {}] /\ nextRowid = 1

-----------------------------------------------------------------------------

RowOf(d, rowid) ==
    [release |-> d.release, chart |-> d.chart, status |-> d.status,
     version |-> d.version, history |-> d.history, rowid |-> rowid]

\* Mutant of UpdatedRow: history_json is missing from the SET clause.
UpdatedRowWithoutHistory(row, d) ==
    [row EXCEPT !.status = d.status, !.version = d.version,
                !.chart = [name |-> row.chart.name,
                           version |-> d.chart.version]]

\* ON CONFLICT(id) DO UPDATE: of the chart, only the version is overwritten.
UpdatedRow(row, d) ==
    [row EXCEPT !.status = d.status, !.version = d.version,
                !.chart = [name |-> row.chart.name,
                           version |-> d.chart.version],
                !.history = d.history]

Save(d) ==
    IF d.id \in DOMAIN table
    THEN /\ table' = Put(table, d.id, UpdatedRow(table[d.id], d))
         /\ UNCHANGED nextRowid
    ELSE /\ table' = Put(table, d.id, RowOf(d, nextRowid))
         /\ nextRowid' = nextRowid + 1

Delete(id) == table' = Drop(table, id) /\ UNCHANGED nextRowid

RowsFor(release) == {id \in DOMAIN table : table[id].release = release}

\* The query has no ORDER BY; the scan of idx_deployments_release returns
\* the matching row with the least rowid.
FirstRowFor(release) ==
    CHOOSE id \in RowsFor(release) :
        \A other \in RowsFor(release) : table[id].rowid <= table[other].rowid

\* Mutant of Reconstitute: it draws a fresh UUID, as New does.
ReconstituteAnew(id) ==
    [id |-> CHOOSE fresh \in Ids : fresh \notin DOMAIN table,
     release |-> table[id].release, chart |-> table[id].chart,
     status |-> table[id].status, version |-> table[id].version,
     history |-> table[id].history, events |-> <<>>]

Reconstitute(id) ==
    [id |-> id, release |-> table[id].release, chart |-> table[id].chart,
     status |-> table[id].status, version |-> table[id].version,
     history |-> table[id].history, events |-> <<>>]
=============================================================================
