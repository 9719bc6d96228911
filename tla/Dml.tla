-------------------------------- MODULE Dml --------------------------------
(***************************************************************************)
(* What the statements of LocalEngine do to one table: INSERT, UPDATE and  *)
(* DELETE with their constraints and the secondary index (dml.rs,          *)
(* planner/src/index.rs), transactions over the tree (txn.rs), the cell    *)
(* and row interfaces put_row and put_packed_row, CREATE and DROP TABLE,   *)
(* CREATE INDEX and ANALYZE (engine.rs), and the reopening of an engine.   *)
(*                                                                         *)
(* The tree is the versions it holds, here <<key, timestamp>> -> value;    *)
(* how it keeps them is Lsm's subject.  Timestamp 0 is a raw key, read     *)
(* back with timestamp 1.  A statement outside a transaction writes key by *)
(* key under the tree's write guard and draws a timestamp for each, while  *)
(* BEGIN, ROLLBACK and the first half of put_row need no guard.  A         *)
(* statement in a transaction only fills the write set.  What TxnManager   *)
(* refuses changes nothing here and is left out.                           *)
(*                                                                         *)
(* The table has the columns id, whose value is the row's id, and c, the   *)
(* one that may be indexed, UNIQUE or NOT NULL.  NULL is stored as "".     *)
(***************************************************************************)
EXTENDS Integers, Sequences, FiniteSets, FiniteSetsExt, SequencesExt, TLC

CONSTANTS
  Session,
  RowId,        \* ids of rows, integers in the order of their keys
  Val,          \* values of c
  Definitions,  \* what CREATE TABLE may say: [pk, unique, notNull]
  Inserts,      \* the VALUES lists of INSERT: sequences of pairs <<id, c>>
  Updates,      \* the UPDATEs: pairs of a WHERE clause and the new value of c
  Deletes,      \* the DELETEs: their WHERE clauses
  Puts,         \* what put_row and put_packed_row write: pairs <<id, c>>
  Calls,        \* the statements and calls there are, and the faults
  MaxTs,        \* bound: timestamps drawn
  MaxCalls,     \* bound: statements and calls
  Seldom,       \* the calls of which there are at most MaxSeldom
  MaxSeldom,
  NoTable, NoTxn, Idle,
  Gone          \* a tombstone

AllCalls == {"insert", "update", "delete", "put_row", "put_packed_row", "begin", "commit",
             "rollback", "create", "drop", "index", "analyze", "open", "fail"}

Null == ""
Cell == Val \cup {Null}

\* WHERE is missing, or asks for a row or for a value of c.
Where == {<<"all">>} \cup ({"id"} \X RowId) \cup ({"c"} \X Val)

ASSUME DmlAssumption ==
  /\ RowId \subseteq Nat /\ Null \notin Val /\ Calls \subseteq AllCalls
  /\ Definitions \subseteq [pk : BOOLEAN, unique : BOOLEAN, notNull : BOOLEAN]
  /\ \A rows \in Inserts : rows \in Seq(RowId \X Cell)
  /\ Updates \subseteq Where \X Cell /\ Deletes \subseteq Where /\ Puts \subseteq RowId \X Val
  /\ MaxTs \in Nat /\ MaxCalls \in Nat /\ MaxSeldom \in Nat

VARIABLES
  tree,        \* the versions in the tree
  mvcc,        \* the versions in TxnManager.mvcc
  last,        \* TimestampOracle.last
  txn,         \* per session: its transaction
  table,       \* the definition in the catalog, or NoTable
  indexed,     \* whether c has an index
  count,       \* the row count among the statistics
  stmt,        \* the statement that holds the write guard, or Idle
  held,        \* per session: the timestamp put_row has drawn, 0 without one
  calls,       \* bound: calls so far, and the seldom ones among them
  astray,      \* history: rows whose index entries need not match any more
  unchecked,   \* history: rows whose value was never checked to be unique
  uncounted    \* history: whether rows changed without the count

store == <<tree, mvcc>>
history == <<astray, unchecked, uncounted>>
vars == <<store, last, txn, table, indexed, count, stmt, held, calls, history>>

None == << >>             \* no row

Packed(r) == <<"row", r>>
CellKey(r, col) == <<"cell", r, col>>
Entry(v, r) == <<"entry", r, v>>
Count == <<"count">>
Column == {"id", "c"}

-----------------------------------------------------------------------------
(* Versions *)

\* A raw key is read back with timestamp 1 (decode_or_legacy).
Stamp(x) == IF x[2] = 0 THEN 1 ELSE x[2]

\* LsmTree::range_visible, MvccMemTable::scan: the live keys at a snapshot.
Newest(t, k, ts) ==
  LET mine == {x \in DOMAIN t : x[1] = k /\ Stamp(x) <= ts}
  IN {x \in mine : \A y \in mine : Stamp(y) <= Stamp(x)}

MapAt(t, ts) ==
  LET found == UNION {Newest(t, x[1], ts) : x \in DOMAIN t}
      live == {x \in found : t[x] # Gone}
  IN [k \in {x[1] : x \in live} |-> t[CHOOSE x \in live : x[1] = k]]

Latest(t) == MapAt(t, MaxTs + 1)

\* Writes put over a map.
Over(m, writes) ==
  [k \in {k \in DOMAIN m \cup DOMAIN writes : k \notin DOMAIN writes \/ writes[k] # Gone} |->
     IF k \in DOMAIN writes THEN writes[k] ELSE m[k]]

\* dml.rs, scan_table: a row is its packed record, with its cells over it.
RowIds(m) == {k[2] : k \in {x \in DOMAIN m : x[1] \in {"row", "cell"}}}

RowOf(m, r) ==
  LET cells == {col \in Column : CellKey(r, col) \in DOMAIN m}
  IN [col \in cells |-> m[CellKey(r, col)]] @@ (IF Packed(r) \in DOMAIN m THEN m[Packed(r)] ELSE None)

ScanTable(m) == [r \in RowIds(m) |-> RowOf(m, r)]


\* build_read_overlay and TxnOverlayStore: what a transaction sees.  What the
\* transaction table holds comes before the tree, and own writes before both.
View(t) == Over(Over(MapAt(tree, t.start), MapAt(mvcc, t.start)), t.writes)

-----------------------------------------------------------------------------
(* What a statement writes: pairs of a key and a value, or of Count and a   *)
(* number, computed from the map m that it reads                            *)

RECURSIVE Applied(_, _)
Applied(m, ws) ==
  IF ws = << >> THEN m
  ELSE Applied(IF ws[1][1] = Count THEN m ELSE Over(m, ws[1][1] :> ws[1][2]), Tail(ws))

IndexPut(r, v) == IF indexed THEN <<<<Entry(v, r), "">>>> ELSE << >>
IndexDelete(r, v) == IF indexed THEN <<<<Entry(v, r), Gone>>>> ELSE << >>
CountBy(n, auto) == IF auto THEN <<<<Count, n>>>> ELSE << >>

\* Mutant: UNIQUE columns are not looked at.
AcceptsDuplicates(m, taken, r, v) ==
  table # NoTable => (table.pk => r \notin taken) /\ (table.notNull => v # Null)

\* enforce_primary_key, which finds the id among the rows in taken,
\* enforce_unique_columns and the NOT NULL check.  A table that is not in the
\* catalog has no constraints: INSERT with a list of columns still writes to it.
Accepts(m, taken, r, v) ==
  \/ table = NoTable
  \/ /\ table.pk => r \notin taken
     /\ table.unique /\ v # Null =>
          \A x \in RowIds(m) : "c" \in DOMAIN RowOf(m, x) => RowOf(m, x)["c"] # v
     /\ table.notNull => v # Null

\* execute_insert for one row: the packed record, the index entry, the count.
InsertRow(r, v, auto) ==
  <<<<Packed(r), ("id" :> r) @@ ("c" :> v)>>>> \o IndexPut(r, v) \o CountBy(1, auto)

\* The rows of an INSERT, up to the first one that is refused.
RECURSIVE InsertRows(_, _, _, _)
InsertRows(m, taken, rows, auto) ==
  IF rows = << >> \/ ~Accepts(m, taken, rows[1][1], rows[1][2]) THEN << >>
  ELSE LET ws == InsertRow(rows[1][1], rows[1][2], auto)
       IN ws \o InsertRows(Applied(m, ws), taken \cup {rows[1][1]}, Tail(rows), auto)

CellsOf(m, r) == {k \in DOMAIN m : k[1] = "cell" /\ k[2] = r}
Tombstones(keys) == LET s == SetToSeq(keys) IN [i \in DOMAIN s |-> <<s[i], Gone>>]

OldEntry(row, r) == IF "c" \in DOMAIN row THEN IndexDelete(r, row["c"]) ELSE << >>

\* Mutant: the entry of the old value stays.
MoveEntryAdds(row, r, v) ==
  IF "c" \in DOMAIN row /\ row["c"] = v THEN << >> ELSE IndexPut(r, v)

\* execute_update for one row: the index entries ...
MoveEntry(row, r, v) ==
  IF "c" \in DOMAIN row /\ row["c"] = v THEN << >> ELSE OldEntry(row, r) \o IndexPut(r, v)

\* ... after the packed record and the tombstones of its cells.
UpdateRow(m, r, v) ==
  <<<<Packed(r), [RowOf(m, r) EXCEPT !["c"] = v] @@ ("c" :> v)>>>>
    \o Tombstones(CellsOf(m, r)) \o MoveEntry(RowOf(m, r), r, v)

\* delete_row, and delete_row_in_txn, which takes the columns from the catalog.
DeleteRow(m, r, auto) ==
  (IF auto THEN Tombstones({Packed(r)} \cap DOMAIN m) \o Tombstones(CellsOf(m, r))
   ELSE Tombstones({Packed(r)} \cup {CellKey(r, col) : col \in Column}))
    \o OldEntry(RowOf(m, r), r)

Evaluable(m, w) == w # <<"all">> => \A r \in RowIds(m) : w[1] \in DOMAIN RowOf(m, r)
Matched(m, w) ==
  SetToSortSeq({r \in RowIds(m) : w = <<"all">> \/ RowOf(m, r)[w[1]] = w[2]}, <)

\* Without a definition in the catalog the DELETE of a transaction fails after
\* the first packed record.
DeleteRowsInTxn(m, w) ==
  IF table # NoTable THEN FlattenSeq([i \in DOMAIN Matched(m, w) |-> DeleteRow(m, Matched(m, w)[i], FALSE)])
  ELSE IF Matched(m, w) = << >> THEN << >> ELSE <<<<Packed(Matched(m, w)[1]), Gone>>>>

UpdateRows(m, w, v) == FlattenSeq([i \in DOMAIN Matched(m, w) |-> UpdateRow(m, Matched(m, w)[i], v)])

\* Mutant: the rows are not taken off the count.
DeleteRowsUncounted(m, w) ==
  FlattenSeq([i \in DOMAIN Matched(m, w) |-> DeleteRow(m, Matched(m, w)[i], TRUE)])

DeleteRows(m, w) ==
  FlattenSeq([i \in DOMAIN Matched(m, w) |-> DeleteRow(m, Matched(m, w)[i], TRUE)])
    \o (IF Matched(m, w) = << >> THEN << >> ELSE CountBy(-Len(Matched(m, w)), TRUE))

-----------------------------------------------------------------------------
(* Actions *)

\* A new engine, with or without a table and an index that it was given first.
Init ==
  /\ tree = << >> /\ mvcc = << >>
  /\ txn = [s \in Session |-> NoTxn] /\ held = [s \in Session |-> Idle]
  /\ table \in Definitions \cup {NoTable} /\ last = (IF table = NoTable THEN 0 ELSE 1)
  /\ indexed \in BOOLEAN /\ count = 0
  /\ stmt = Idle /\ calls = <<0, 0>>
  /\ astray = {} /\ unchecked = {} /\ uncounted = FALSE

Open == {s \in Session : txn[s] # NoTxn}
RowsOf(keys) == {k[2] : k \in keys}
Call(name) ==
  /\ name \in Calls /\ calls[1] < MaxCalls /\ (name \in Seldom => calls[2] < MaxSeldom)
  /\ calls' = <<calls[1] + 1, calls[2] + (IF name \in Seldom THEN 1 ELSE 0)>>

\* A session has one call under way at a time.
Ready(s) == held[s] = Idle /\ (stmt # Idle => stmt.by # s)

\* Sessions other than the one that holds the guard wait for it.
Free(s) == stmt = Idle /\ held[s] = Idle

\* Whether a version at ts does not become the newest one of its key.
Late(k, ts) == \E x \in DOMAIN tree : x[1] = k /\ x[2] # ts /\ Stamp(x) >= ts

\* TxnManager::begin draws the start timestamp and takes no guard.  The fields
\* below base are history: base is the newest version of every key at BEGIN,
\* lost the rows that the snapshot no longer keeps.
Begin(s) ==
  /\ Call("begin") /\ Ready(s) /\ txn[s] = NoTxn /\ last < MaxTs
  /\ last' = last + 1
  /\ txn' = [txn EXCEPT ![s] =
       [start |-> last + 1, writes |-> << >>, base |-> Latest(tree),
        lost |-> {x[1][2] : x \in {y \in DOMAIN tree : Stamp(y) > last + 1}},
        bad |-> {}, loose |-> FALSE]]
  /\ UNCHANGED <<store, table, indexed, count, stmt, held, history>>

\* TxnManager::rollback.
Rollback(s) ==
  /\ Call("rollback") /\ Ready(s) /\ txn[s] # NoTxn
  /\ txn' = [txn EXCEPT ![s] = NoTxn]
  /\ UNCHANGED <<store, last, table, indexed, count, stmt, held, history>>

\* A statement outside a transaction takes the guard with the writes ws to make.
Take(s, ws, over, freely) ==
  /\ ws # << >>
  /\ stmt' = [by |-> s, writes |-> ws, begun |-> {}]
  /\ astray' = astray \cup over
  /\ unchecked' = unchecked \cup over \cup freely
  /\ uncounted' = (uncounted \/ over # {})
  /\ UNCHANGED <<store, last, txn, table, indexed, count, held>>

RECURSIVE AsWrites(_)
AsWrites(ws) ==
  IF ws = << >> THEN << >> ELSE AsWrites(Tail(ws)) @@ (ws[1][1] :> ws[1][2])

\* A statement in a transaction adds ws to the write set.
Buffer(s, ws, over, freely) ==
  LET t == txn[s]
      now == ScanTable(View([t EXCEPT !.writes = << >>]))
      then == ScanTable(t.base)
      odd == {r \in RowId : (r \in DOMAIN now) # (r \in DOMAIN then)}
               \cup {r \in DOMAIN now \cap DOMAIN then : now[r] # then[r]}
  IN /\ ws # << >>
     /\ txn' = [txn EXCEPT ![s].writes = AsWrites(ws) @@ @,
                           ![s].bad = @ \cup over \cup (RowsOf(DOMAIN AsWrites(ws)) \cap odd),
                           ![s].loose = @ \/ freely # {} \/ odd # {}]
     /\ UNCHANGED <<store, last, table, indexed, count, stmt, held, history>>

Written(ws) == {ws[i][1][2] : i \in {j \in DOMAIN ws : ws[j][1][1] = "row"}}

\* Rows that an INSERT writes over.
Overwritten(m, ws) ==
  {r \in Written(ws) : r \in RowIds(m) \/ Cardinality({i \in DOMAIN ws : ws[i][1] = Packed(r)}) > 1}

\* enforce_primary_key looks for the packed record and for the cell of id.
Taken(m) == {r \in RowIds(m) : Packed(r) \in DOMAIN m \/ CellKey(r, "id") \in DOMAIN m}

\* In a transaction enforce_primary_key asks TxnManager::get, which knows the
\* write set and the transaction table, and never the tree.
TakenInTxn(t) == Taken(Over(MapAt(mvcc, t.start), t.writes))


Insert(s, rows) ==
  /\ Call("insert") /\ Free(s)
  /\ \/ /\ txn[s] = NoTxn
        /\ \E m \in {Latest(tree)} : \E ws \in {InsertRows(m, Taken(m), rows, TRUE)} :
             Take(s, ws, Overwritten(m, ws), IF table # NoTable /\ table.unique THEN {} ELSE Written(ws))
     \/ /\ txn[s] # NoTxn
        /\ \E m \in {View(txn[s])} :
           \E ws \in {InsertRows(m, TakenInTxn(txn[s]), rows, FALSE)} :
             Buffer(s, ws, Overwritten(m, ws), IF table # NoTable /\ table.unique THEN {} ELSE Written(ws))

\* UPDATE checks NOT NULL, and neither UNIQUE nor the primary key.
Update(s, w, v) ==
  /\ Call("update") /\ Free(s)
  /\ table # NoTable /\ table.notNull => v # Null
  /\ \/ /\ txn[s] = NoTxn
        /\ \E m \in {Latest(tree)} : /\ Evaluable(m, w)
                                     /\ \E ws \in {UpdateRows(m, w, v)} : Take(s, ws, {}, Written(ws))
     \/ /\ txn[s] # NoTxn
        /\ \E m \in {View(txn[s])} : /\ Evaluable(m, w)
                                      /\ \E ws \in {UpdateRows(m, w, v)} : Buffer(s, ws, {}, Written(ws))

Delete(s, w) ==
  /\ Call("delete") /\ Free(s)
  /\ \/ /\ txn[s] = NoTxn
        /\ \E m \in {Latest(tree)} : Evaluable(m, w) /\ Take(s, DeleteRows(m, w), {}, {})
     \/ /\ txn[s] # NoTxn
        /\ \E m \in {View(txn[s])} : 
             /\ Evaluable(m, w)
             /\ Buffer(s, DeleteRowsInTxn(m, w), IF table = NoTable THEN RowIds(m) ELSE {}, {})

\* put_cell, delete_cell, increment_row_count: the next write of the statement
\* that holds the guard, with a timestamp of its own.
Put(k, ts, v) ==
  /\ tree' = (<<k, ts>> :> v) @@ tree
  /\ astray' = astray \cup (IF Late(k, ts) THEN {k[2]} ELSE {})
  /\ unchecked' = unchecked \cup (IF Late(k, ts) THEN {k[2]} ELSE {})

Rest == IF Len(stmt.writes) = 1 THEN Idle ELSE [stmt EXCEPT !.writes = Tail(@)]

\* Mutant: the count goes below zero.
Unsaturated(n) == n

\* u64::saturating_sub.
Saturated(n) == IF n < 0 THEN 0 ELSE n

WriteKey ==
  /\ stmt # Idle /\ stmt.writes # << >> /\ stmt.writes[1][1] # Count /\ last < MaxTs
  /\ LET k == stmt.writes[1][1] IN
     /\ Put(k, last + 1, stmt.writes[1][2])
     /\ uncounted' = (uncounted \/ Late(k, last + 1))
     /\ stmt' = IF Rest = Idle THEN Idle ELSE [Rest EXCEPT !.begun = @ \cup {k[2]}]
  /\ last' = last + 1
  /\ UNCHANGED <<mvcc, txn, table, indexed, count, held, calls>>

WriteCount ==
  /\ stmt # Idle /\ stmt.writes # << >> /\ stmt.writes[1][1] = Count
  /\ count' = Saturated(count + stmt.writes[1][2])
  /\ stmt' = Rest
  /\ UNCHANGED <<store, last, txn, table, indexed, held, calls, history>>

\* The statement stops: the rows that it began and has not finished are astray.
Stop ==
  /\ astray' = IF stmt = Idle THEN astray
               ELSE astray \cup (stmt.begun \cap {stmt.writes[i][1][2] :
                      i \in {j \in DOMAIN stmt.writes : stmt.writes[j][1] # Count}})
  /\ uncounted' = (uncounted \/ (stmt # Idle /\ stmt.begun # {}))
  /\ stmt' = Idle

\* A write of the statement fails, and what it wrote before stays.
Fail ==
  /\ Call("fail") /\ stmt # Idle /\ stmt.writes # << >> /\ Stop
  /\ UNCHANGED <<store, last, txn, table, indexed, count, held, unchecked>>

\* commit_to_storage: the write set in the order of its keys, with one timestamp.
Before(j, k) ==
  \/ j[1] = "entry" /\ k[1] # "entry"
  \/ j[1] # "entry" /\ k[1] # "entry" /\ (j[2] < k[2] \/ (j[2] = k[2] /\ j[1] = "row" /\ k[1] = "cell"))

Committed(t, keys, ts) == [x \in {<<k, ts>> : k \in keys} |-> t.writes[x[1]]]

\* The rows of a commit that changed after BEGIN, and the ones it read otherwise.
Raced(t) ==
  {r \in RowsOf(DOMAIN t.writes) : RowOf(Latest(tree), r) # RowOf(t.base, r)} \cup t.bad

Unverified(t) ==
  IF t.loose \/ ScanTable(Latest(tree)) # ScanTable(t.base) THEN RowsOf(DOMAIN t.writes) ELSE {}

LateRows(t, ts) == RowsOf({k \in DOMAIN t.writes : Late(k, ts)})

\* Then the transaction table, and both are pruned (Collect).
Commit(s) ==
  /\ Call("commit") /\ Free(s) /\ txn[s] # NoTxn /\ last < MaxTs
  /\ LET t == txn[s]
         new == Committed(t, DOMAIN t.writes, last + 1)
     IN /\ tree' = new @@ tree
        /\ mvcc' = new @@ mvcc
        /\ astray' = astray \cup Raced(t) \cup LateRows(t, last + 1)
        /\ unchecked' = unchecked \cup Unverified(t) \cup LateRows(t, last + 1)
        /\ uncounted' = (uncounted \/ Cardinality(RowIds(Latest(new @@ tree)))
                                      # Cardinality(RowIds(Latest(tree))))
  /\ last' = last + 1
  /\ txn' = [txn EXCEPT ![s] = NoTxn]
  /\ stmt' = [by |-> s, writes |-> << >>, begun |-> {}]
  /\ UNCHANGED <<table, indexed, count, held>>

\* One of the writes fails: those before it stay, and so does the transaction.
CommitFails(s) ==
  /\ Call("fail") /\ Free(s) /\ txn[s] # NoTxn /\ last < MaxTs
  /\ \E done \in SUBSET DOMAIN txn[s].writes :
       /\ done # DOMAIN txn[s].writes
       /\ \A k \in done, j \in DOMAIN txn[s].writes \ done : ~Before(j, k)
       /\ tree' = Committed(txn[s], done, last + 1) @@ tree
       /\ astray' = astray \cup RowsOf(done)
       /\ unchecked' = unchecked \cup RowsOf(done)
       /\ uncounted' = (uncounted \/ done # {})
  /\ last' = last + 1
  /\ UNCHANGED <<mvcc, txn, table, indexed, count, stmt, held>>

\* gc_mvcc_active: old versions, but for the newest one of a key.  A raw key is
\* its own newest version.
Pruned(t, keep) ==
  {x \in DOMAIN t : x[2] # 0 /\ x[2] < keep /\ \E y \in DOMAIN t : y[1] = x[1] /\ y[2] > x[2]}

Without(t, gone) == [x \in DOMAIN t \ gone |-> t[x]]

\* What the snapshot of t loses when the stores become newTree and newMvcc.
Loses(t, newTree, newMvcc) ==
  LET seen == Over(MapAt(tree, t.start), MapAt(mvcc, t.start))
      kept == Over(MapAt(newTree, t.start), MapAt(newMvcc, t.start))
      same == {k \in DOMAIN seen \cap DOMAIN kept : seen[k] = kept[k]}
  IN RowsOf((DOMAIN seen \cup DOMAIN kept) \ same)

LoseRows(newTree, newMvcc) ==
  txn' = [s \in Session |-> IF txn[s] = NoTxn THEN NoTxn
                            ELSE [txn[s] EXCEPT !.lost = @ \cup Loses(txn[s], newTree, newMvcc)]]

\* The end of commit_to_storage, still under the guard: everything older than
\* the last timestamp but one goes, whichever snapshots are open.
Collect ==
  /\ stmt # Idle /\ stmt.writes = << >>
  /\ tree' = Without(tree, Pruned(tree, last - 1))
  /\ mvcc' = Without(mvcc, {x \in DOMAIN mvcc : x[2] < last - 1})
  /\ LoseRows(Without(tree, Pruned(tree, last - 1)),
              Without(mvcc, {x \in DOMAIN mvcc : x[2] < last - 1}))
  /\ stmt' = Idle
  /\ UNCHANGED <<last, table, indexed, count, held, calls, history>>

\* put_row in a transaction.
PutInTxn(s, r, v) ==
  /\ Call("put_row") /\ Ready(s) /\ txn[s] # NoTxn
  /\ txn' = [txn EXCEPT ![s].writes = (CellKey(r, "c") :> v) @@ @,
                        ![s].bad = @ \cup {r}, ![s].loose = TRUE]
  /\ UNCHANGED <<store, last, table, indexed, count, stmt, held, history>>

\* put_row outside a transaction, and put_packed_row, which is not part of any:
\* the timestamp is drawn before the guard is taken.
Draw(s, k, v) ==
  /\ Ready(s) /\ last < MaxTs
  /\ held' = [held EXCEPT ![s] = [key |-> k, val |-> v, ts |-> last + 1]]
  /\ last' = last + 1
  /\ UNCHANGED <<store, txn, table, indexed, count, stmt, history>>

PutRow(s, r, v) == Call("put_row") /\ txn[s] = NoTxn /\ Draw(s, CellKey(r, "c"), v)

PutPackedRow(s, r, v) ==
  Call("put_packed_row") /\ Draw(s, Packed(r), ("id" :> r) @@ ("c" :> v))

PutHeld(s) ==
  /\ held[s] # Idle /\ stmt = Idle
  /\ LET k == held[s].key
         new == (<<k, held[s].ts>> :> held[s].val) @@ tree
     IN /\ tree' = new
        /\ astray' = astray \cup {k[2]}
        /\ unchecked' = unchecked \cup {k[2]}
        /\ uncounted' = (uncounted \/ RowIds(Latest(new)) # RowIds(Latest(tree)))
        /\ LoseRows(new, mvcc)
  /\ held' = [held EXCEPT ![s] = Idle]
  /\ UNCHANGED <<mvcc, last, table, indexed, count, stmt, calls>>

\* CREATE TABLE draws a timestamp, and is refused when there is a table.
CreateTable(s, d) ==
  /\ Call("create") /\ Free(s) /\ last < MaxTs
  /\ table' = IF table = NoTable THEN d ELSE table
  /\ last' = last + 1
  /\ UNCHANGED <<store, txn, indexed, count, stmt, held, history>>

\* LsmTree::delete of a live key: its raw key goes, and a version gets a
\* tombstone one timestamp above it, which no oracle has drawn.
Erased(t, keys) ==
  LET newer(k) == {x \in Newest(t, k, MaxTs + 1) : x[2] # 0}
      marked == {k \in keys : newer(k) # {}}
  IN [x \in {<<k, Max({y[2] : y \in newer(k)}) + 1>> : k \in marked} |-> Gone]
       @@ Without(t, {<<k, 0>> : k \in keys})

\* purge_table_data: rows, index entries, the mark of the index, the statistics.
DropTable(s) ==
  /\ Call("drop") /\ Free(s) /\ table # NoTable
  /\ table' = NoTable
  /\ tree' = Erased(tree, DOMAIN Latest(tree))
  /\ LoseRows(Erased(tree, DOMAIN Latest(tree)), mvcc)
  /\ indexed' = FALSE /\ count' = 0
  /\ astray' = {} /\ unchecked' = {} /\ uncounted' = FALSE
  /\ UNCHANGED <<mvcc, last, stmt, held>>

\* SecondaryIndex::build: a raw entry for every record and every cell ...
Built(m) ==
  [x \in {<<Entry(m[k]["c"], k[2]), 0>> : k \in {j \in DOMAIN m : j[1] = "row" /\ "c" \in DOMAIN m[j]}}
          \cup {<<Entry(m[k], k[2]), 0>> : k \in {j \in DOMAIN m : j[1] = "cell" /\ j[3] = "c"}} |-> ""]

\* ... over what an earlier index, or a transaction that outlived it, left.
LeftOver(m) ==
  {x[1][2] : x \in {y \in DOMAIN tree : y[1][1] = "entry"}}
    \cup {r \in RowIds(m) : Packed(r) \in DOMAIN m /\ CellKey(r, "c") \in DOMAIN m}

\* analyze_table and persist_table_stats.
Counted == count' = Cardinality(RowIds(Latest(tree))) /\ uncounted' = FALSE

\* CREATE INDEX.  The statements of open transactions did not know the index.
CreateIndex(s) ==
  /\ Call("index") /\ Free(s)
  /\ indexed' = TRUE
  /\ tree' = Built(Latest(tree)) @@ tree
  /\ Counted
  /\ astray' = IF indexed THEN astray ELSE LeftOver(Latest(tree))
  /\ txn' = IF indexed THEN txn
            ELSE [x \in Session |-> IF txn[x] = NoTxn THEN NoTxn
                                    ELSE [txn[x] EXCEPT !.bad = @ \cup RowsOf(DOMAIN txn[x].writes)]]
  /\ UNCHANGED <<mvcc, last, table, stmt, held, unchecked>>

\* ANALYZE.
Analyze(s) ==
  /\ Call("analyze") /\ Free(s) /\ Counted
  /\ UNCHANGED <<store, last, txn, table, indexed, stmt, held, astray, unchecked>>

\* The engine stops, or crashes, and is opened: the transactions are gone, and
\* the oracle of TxnManager::new counts from 0.
Reopen ==
  /\ Call("open") /\ Stop
  /\ mvcc' = << >> /\ last' = 0
  /\ txn' = [s \in Session |-> NoTxn] /\ held' = [s \in Session |-> Idle]
  /\ UNCHANGED <<tree, table, indexed, count, unchecked>>

Next ==
  \/ \E s \in Session : Begin(s)
  \/ \E s \in Session : Rollback(s)
  \/ \E s \in Session, rows \in Inserts : Insert(s, rows)
  \/ \E s \in Session, u \in Updates : Update(s, u[1], u[2])
  \/ \E s \in Session, w \in Deletes : Delete(s, w)
  \/ WriteKey
  \/ WriteCount
  \/ Fail
  \/ \E s \in Session : Commit(s)
  \/ \E s \in Session : CommitFails(s)
  \/ Collect
  \/ \E s \in Session, p \in Puts : PutInTxn(s, p[1], p[2])
  \/ \E s \in Session, p \in Puts : PutRow(s, p[1], p[2])
  \/ \E s \in Session, p \in Puts : PutPackedRow(s, p[1], p[2])
  \/ \E s \in Session : PutHeld(s)
  \/ \E s \in Session, d \in Definitions : CreateTable(s, d)
  \/ \E s \in Session : DropTable(s)
  \/ \E s \in Session : CreateIndex(s)
  \/ \E s \in Session : Analyze(s)
  \/ Reopen

Spec == Init /\ [][Next]_vars

-----------------------------------------------------------------------------
(* Properties *)

\* Every component has its type: versions carry rows, cells and entries, and a
\* statement that holds the guard belongs to a session.
TypeOK ==
  /\ \A t \in {tree, mvcc} : \A x \in DOMAIN t :
       /\ x[1][1] \in {"row", "cell", "entry"} /\ x[1][2] \in RowId /\ x[2] \in 0 .. MaxTs + 1
       /\ t[x] # Gone => IF x[1][1] = "row" THEN DOMAIN t[x] \subseteq Column ELSE t[x] \in Cell
  /\ last \in 0 .. MaxTs /\ count \in Nat /\ calls \in (0 .. MaxCalls) \X (0 .. MaxSeldom)
  /\ table \in Definitions \cup {NoTable}
  /\ stmt = Idle \/ (stmt.by \in Session /\ stmt.begun \subseteq RowId)
  /\ \A s \in Open : txn[s].start \in 1 .. MaxTs /\ RowsOf(DOMAIN txn[s].writes) \subseteq RowId
  /\ astray \cup unchecked \subseteq RowId

\* SecondaryIndex::lookup finds a row under the value it has and under no other,
\* between any two statements, for every row that only INSERT, UPDATE, DELETE
\* and transactions wrote (tests/index_maintenance.rs: "Secondary indexes must
\* stay consistent with DML").  Not covered are the rows that astray names.
IndexExact ==
  indexed /\ stmt = Idle =>
    \E m \in {Latest(tree)} : \A r \in RowId \ astray :
      {v \in Cell : Entry(v, r) \in DOMAIN m}
        = (IF r \in RowIds(m) /\ "c" \in DOMAIN RowOf(m, r) THEN {RowOf(m, r)["c"]} ELSE {})

\* The rows of a snapshot whose version in the transaction table is older than
\* the one in the tree: build_read_overlay lets the older one win.
Masked(t) ==
  RowsOf({x[1] : x \in {y \in DOMAIN mvcc :
     /\ y \in Newest(mvcc, y[1], t.start) /\ mvcc[y] # Gone
     /\ \E z \in Newest(tree, y[1], t.start) : z[2] > y[2]}})


\* Of two rows with the same value in a UNIQUE column, one got it without the
\* check: from UPDATE, from put_row or put_packed_row, or in a transaction that
\* the table changed under.
UniqueKept ==
  table # NoTable /\ table.unique /\ stmt = Idle =>
    \E m \in {ScanTable(Latest(tree))} :
    \A q, r \in DOMAIN m \ unchecked :
      q # r /\ "c" \in DOMAIN m[q] \cap DOMAIN m[r] /\ m[q]["c"] # Null => m[q]["c"] # m[r]["c"]

\* increment_row_count keeps the number of rows, until rows come or go without it:
\* in a transaction, through put_row, over another row, or in a statement that fails.
CountKept ==
  ~uncounted /\ stmt = Idle => count = Cardinality(RowIds(Latest(tree)))

=============================================================================
