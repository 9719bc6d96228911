----------------------------- MODULE Statements -----------------------------
(***************************************************************************)
(* How LocalEngine (noedb-engine/src/engine.rs) runs the statements of     *)
(* concurrent sessions: the locks on the tree, the schema catalog and the  *)
(* prepared statements, the query cache (query_cache.rs), the schema file  *)
(* and the hash chain of the audit log (audit.rs).                         *)
(*                                                                         *)
(* Every statement is a list of steps, one of Plans, and a client runs one *)
(* statement at a time.  Two steps are one where no lock is let go or      *)
(* waited for in between.  The tree and the catalog are version numbers    *)
(* that every change raises, and a query result is the pair it was         *)
(* computed from.  There is one table, one query text and one role.  The   *)
(* cache clears itself whenever it raises its epoch, both under one mutex, *)
(* so the entries are always of the current epoch and the epoch is left    *)
(* out.  Left out as well are the statements that touch neither the tree   *)
(* nor the catalog (BEGIN, ROLLBACK, PREPARE, SET ROLE and the row-level   *)
(* policies) and the answers of the vector index.                          *)
(***************************************************************************)
EXTENDS Integers, Sequences, FiniteSets, FiniteSetsExt

CONSTANTS
  Client,          \* threads, each running statements
  NoOne,           \* holder of a free lock
  Kinds,           \* the kinds of statements the clients run
  Errors,          \* whether a step may fail
  MaxStatements    \* bound: statements started

AllKinds ==
  {"select", "execute", "dml", "put_row", "commit", "alter", "create", "drop", "analyze", "index"}

ASSUME StatementsAssumption ==
  /\ NoOne \notin Client /\ Kinds \subseteq AllKinds
  /\ Errors \in BOOLEAN /\ MaxStatements \in Nat

VARIABLES
  todo, call,          \* per client: the steps left, and what it holds
  readers, writer,     \* LocalEngine.storage, an RwLock
  schemaLock,          \* LocalEngine.schema, a Mutex
  prepareLock,         \* LocalEngine.prepare, a Mutex
  data, schema,        \* versions of the tree and of the catalog
  exists,              \* whether the table is in the catalog
  disk,                \* the version of the catalog in its file
  cache,               \* QueryCache: at most one result
  audit, lastHash,     \* the audit file, and AuditLog.last_hash
  acked,               \* history: the versions acknowledged to clients
  started              \* statements started (bound)

locks == <<readers, writer, schemaLock, prepareLock>>
log == <<audit, lastHash>>
vars == <<todo, call, locks, data, schema, exists, disk, cache, log, acked, started>>

\* data: the tree by any statement; late: the tree by a statement of LateInvalidation;
\* schema: the catalog; told: the catalog in which IF NOT EXISTS found the table.
NoVersions == [data |-> 0, late |-> 0, schema |-> 0, told |-> 0]

NoCall == [kind |-> "none", got |-> {}, floor |-> NoVersions, made |-> NoVersions, prev |-> 0]

Init ==
  /\ todo = [c \in Client |-> << >>] /\ call = [c \in Client |-> NoCall]
  /\ readers = {} /\ writer = NoOne /\ schemaLock = NoOne /\ prepareLock = NoOne
  /\ data = 0 /\ schema = 0 /\ exists = FALSE /\ disk = 0 /\ cache = {}
  /\ audit = << >> /\ lastHash = 0
  /\ acked = NoVersions /\ started = 0

-----------------------------------------------------------------------------
(* The steps of each kind of statement: dispatch, run_data_statement, put_row *)

Record == <<"hash", "append", "link">>

\* Mutant: the result is cached after the tree has been let go.
QueryFillsLate == <<"lookup", "read", "run", "unlock", "fill">>

Query == <<"lookup", "read", "run", "fill", "unlock">>

\* In a transaction: the catalog is let go before the tree is locked, and neither
\* the cache nor the newest versions are read, but the transaction's snapshot.
SelectInTxn == <<"look", "read", "scan", "unlock">>

Dml == <<"invalidate", "lockSchema", "lockStorage", "apply", "unlock">>

\* A guard of the tree, or of the catalog, that lasts for one expression.
Write == <<"lockStorage", "apply", "unlock">>
Define(step) == <<"lockSchema", step, "unlock">>

PutRow == Write \o <<"invalidate">>

Commit == Write \o <<"invalidate">>

\* Mutant: the catalog is saved before the column is added.
AlterPersistsFirst == Define("persist") \o Define("redefine") \o <<"invalidate">>

AlterTable == Define("redefine") \o <<"invalidate">> \o Define("persist")

\* Mutant: the tree is locked under the catalog's lock.
CreateNested ==
  <<"lockSchema", "lockStorage", "apply", "redefine", "unlock", "invalidate">> \o Define("persist")

CreateTable == Write \o Define("redefine") \o <<"invalidate">> \o Define("persist")

DropTable == Define("redefine") \o <<"invalidate">> \o Write \o Define("persist")

\* The tree stays locked to the end of the statement.
Analyze == <<"lockStorage", "apply", "invalidate">>

\* CREATE INDEX, run by apply_statement: the cache keeps its results.
CreateIndex == Write

\* The statements that invalidate the cache after their last write of the tree.
LateInvalidation == {"put_row", "commit", "create", "analyze"}

\* The steps of a statement, in and out of a transaction, with and without
\* IF NOT EXISTS.
Plans ==
  [select |-> {Query \o Record, SelectInTxn \o Record},
   execute |-> {<<"prepare">> \o Query \o Record, <<"prepare">> \o SelectInTxn \o Record},
   dml |-> {Dml \o Record}, put_row |-> {PutRow}, commit |-> {Commit \o Record},
   alter |-> {AlterTable \o Record}, drop |-> {DropTable \o Record},
   create |-> {CreateTable \o Record, <<"ifNotExists">> \o CreateTable \o Record},
   analyze |-> {Analyze \o Record}, index |-> {CreateIndex \o Record}]

\* execute_session looks at the memtable before it parses, so a statement waits
\* for a writer of the tree; put_row is called directly.
Start(c, k) ==
  /\ call[c].kind = "none" /\ started < MaxStatements
  /\ k # "put_row" => writer = NoOne
  /\ \E p \in Plans[k] : todo' = [todo EXCEPT ![c] = p]
  /\ call' = [call EXCEPT ![c] = [NoCall EXCEPT !.kind = k,
                !.floor = IF k \in {"select", "execute"} THEN acked ELSE NoVersions]]
  /\ started' = started + 1
  /\ UNCHANGED <<locks, data, schema, exists, disk, cache, log, acked>>

At(c, step) == call[c].kind # "none" /\ todo[c] # << >> /\ Head(todo[c]) = step
Advance(c) == todo' = [todo EXCEPT ![c] = Tail(@)]

\* The guards a client holds are dropped.
Unlocked(c) ==
  /\ readers' = readers \ {c}
  /\ writer' = IF writer = c THEN NoOne ELSE writer
  /\ schemaLock' = IF schemaLock = c THEN NoOne ELSE schemaLock

ReturnWith(c, ack) ==
  /\ Unlocked(c)
  /\ prepareLock' = IF prepareLock = c THEN NoOne ELSE prepareLock
  /\ todo' = [todo EXCEPT ![c] = << >>] /\ call' = [call EXCEPT ![c] = NoCall]
  /\ acked' = ack

\* The client is told that its statement succeeded.
Return(c) ==
  /\ call[c].kind # "none" /\ todo[c] = << >>
  /\ ReturnWith(c, [v \in DOMAIN acked |-> Max({acked[v], call[c].made[v]})])
  /\ UNCHANGED <<data, schema, exists, disk, cache, log, started>>

\* A step fails, and the guards are dropped on the way out.  A change of the tree
\* may be half done, and a line may be in the audit file when its fsync fails.
Fail(c) ==
  /\ Errors /\ \E s \in {"run", "scan", "apply", "redefine", "persist", "append"} : At(c, s)
  /\ \/ UNCHANGED <<data, audit>>
     \/ At(c, "apply") /\ data' = data + 1 /\ UNCHANGED audit
     \/ At(c, "append") /\ audit' = Append(audit, call[c].prev) /\ UNCHANGED data
  /\ ReturnWith(c, acked)
  /\ UNCHANGED <<schema, exists, disk, cache, lastHash, started>>

\* create_table finds the table, or add_column and drop_table do not.
Refuse(c) ==
  /\ At(c, "redefine") /\ exists = (call[c].kind = "create")
  /\ ReturnWith(c, acked)
  /\ UNCHANGED <<data, schema, exists, disk, cache, log, started>>

-----------------------------------------------------------------------------
(* SELECT *)

Prepare(c) ==
  /\ At(c, "prepare") /\ prepareLock = NoOne
  /\ prepareLock' = c
  /\ Advance(c)
  /\ UNCHANGED <<call, readers, writer, schemaLock, data, schema, exists, disk, cache, log, acked, started>>

\* QueryCache::get: a hit goes straight to the audit log.
Lookup(c) ==
  /\ At(c, "lookup")
  /\ call' = [call EXCEPT ![c].got = cache]
  /\ todo' = [todo EXCEPT ![c] = IF cache = {} THEN Tail(@) ELSE Record]
  /\ UNCHANGED <<locks, data, schema, exists, disk, cache, log, acked, started>>

Read(c) ==
  /\ At(c, "read") /\ writer = NoOne
  /\ readers' = readers \cup {c}
  /\ Advance(c)
  /\ UNCHANGED <<call, writer, schemaLock, prepareLock, data, schema, exists, disk, cache, log, acked, started>>

\* With the tree's read guard held, the catalog is locked for its query schema.
Run(c) ==
  /\ At(c, "run") /\ schemaLock = NoOne
  /\ call' = [call EXCEPT ![c].got = {[data |-> data, schema |-> schema]}]
  /\ Advance(c)
  /\ UNCHANGED <<locks, data, schema, exists, disk, cache, log, acked, started>>

Look(c) ==
  /\ At(c, "look") /\ schemaLock = NoOne
  /\ Advance(c)
  /\ UNCHANGED <<call, locks, data, schema, exists, disk, cache, log, acked, started>>

Scan(c) ==
  /\ At(c, "scan")
  /\ Advance(c)
  /\ UNCHANGED <<call, locks, data, schema, exists, disk, cache, log, acked, started>>

Fill(c) ==
  /\ At(c, "fill")
  /\ cache' = call[c].got
  /\ Advance(c)
  /\ UNCHANGED <<call, locks, data, schema, exists, disk, log, acked, started>>

-----------------------------------------------------------------------------
(* Changes *)

\* QueryCache::invalidate_table drops every entry, whatever the table.
Invalidate(c) ==
  /\ At(c, "invalidate")
  /\ cache' = {}
  /\ Advance(c)
  /\ UNCHANGED <<call, locks, data, schema, exists, disk, log, acked, started>>

LockSchema(c) ==
  /\ At(c, "lockSchema") /\ schemaLock = NoOne
  /\ schemaLock' = c
  /\ Advance(c)
  /\ UNCHANGED <<call, readers, writer, prepareLock, data, schema, exists, disk, cache, log, acked, started>>

LockStorage(c) ==
  /\ At(c, "lockStorage") /\ readers = {} /\ writer = NoOne
  /\ writer' = c
  /\ Advance(c)
  /\ UNCHANGED <<call, readers, schemaLock, prepareLock, data, schema, exists, disk, cache, log, acked, started>>

\* Under the write guard: DML, put_version, commit_to_storage, the row-id marker
\* of CREATE TABLE, the purge of DROP TABLE, the statistics of ANALYZE, the entries of an index.
Apply(c) ==
  /\ At(c, "apply")
  /\ data' = data + 1
  /\ call' = [call EXCEPT ![c].made.data = data',
                          ![c].made.late = IF call[c].kind \in LateInvalidation THEN data' ELSE 0]
  /\ Advance(c)
  /\ UNCHANGED <<locks, schema, exists, disk, cache, log, acked, started>>

Unlock(c) ==
  /\ At(c, "unlock")
  /\ Unlocked(c)
  /\ Advance(c)
  /\ UNCHANGED <<call, prepareLock, data, schema, exists, disk, cache, log, acked, started>>

\* CREATE TABLE IF NOT EXISTS is done when the catalog has the table.
IfNotExists(c) ==
  /\ At(c, "ifNotExists") /\ schemaLock = NoOne
  /\ todo' = [todo EXCEPT ![c] = IF exists THEN Record ELSE Tail(@)]
  /\ call' = [call EXCEPT ![c].made.told = IF exists THEN schema ELSE 0]
  /\ UNCHANGED <<locks, data, schema, exists, disk, cache, log, acked, started>>

\* add_column, create_table, drop_table.
Redefine(c) ==
  /\ At(c, "redefine") /\ exists = (call[c].kind # "create")
  /\ exists' = (call[c].kind # "drop")
  /\ schema' = schema + 1
  /\ call' = [call EXCEPT ![c].made.schema = schema']
  /\ Advance(c)
  /\ UNCHANGED <<locks, data, disk, cache, log, acked, started>>

\* persist_schema saves the catalog as it is by now.
Persist(c) ==
  /\ At(c, "persist")
  /\ disk' = schema
  /\ Advance(c)
  /\ UNCHANGED <<call, locks, data, schema, exists, cache, log, acked, started>>

-----------------------------------------------------------------------------
(* AuditLog::record.  An entry's hash covers the hash it was chained to; the *)
(* entry's place in the file stands for its hash, and an entry for its link. *)

\* The result is complete by now, and what it was computed from is forgotten.
Hash(c) ==
  /\ At(c, "hash")
  /\ call' = [call EXCEPT ![c].prev = lastHash, ![c].got = {}, ![c].floor = NoVersions]
  /\ Advance(c)
  /\ UNCHANGED <<locks, data, schema, exists, disk, cache, log, acked, started>>

\* append writes the line; the mutex is taken again for last_hash.
AppendEntry(c) ==
  /\ At(c, "append")
  /\ audit' = Append(audit, call[c].prev)
  /\ call' = [call EXCEPT ![c].prev = Len(audit')]
  /\ Advance(c)
  /\ UNCHANGED <<locks, data, schema, exists, disk, cache, lastHash, acked, started>>

Link(c) ==
  /\ At(c, "link")
  /\ lastHash' = call[c].prev
  /\ Advance(c)
  /\ UNCHANGED <<call, locks, data, schema, exists, disk, cache, audit, acked, started>>

Step(c) ==
  \/ Prepare(c) \/ Lookup(c) \/ Look(c) \/ Read(c) \/ Run(c) \/ Scan(c) \/ Fill(c)
  \/ Invalidate(c) \/ LockSchema(c) \/ LockStorage(c) \/ Apply(c) \/ Unlock(c)
  \/ IfNotExists(c) \/ Redefine(c) \/ Refuse(c) \/ Persist(c)
  \/ Hash(c) \/ AppendEntry(c) \/ Link(c) \/ Return(c)

Next == \E c \in Client : Step(c) \/ Fail(c) \/ \E k \in Kinds : Start(c, k)

Spec == Init /\ [][Next]_vars

\* A thread that can take its next step takes it: the scheduler runs every
\* thread, and parking_lot's locks are handed on fairly.
FairSpec == Spec /\ \A c \in Client : WF_vars(Step(c))

-----------------------------------------------------------------------------
(* Properties *)

\* A SELECT outside a transaction returns a result computed from a tree that holds
\* every change that put_row, COMMIT, CREATE TABLE or ANALYZE acknowledged before
\* the SELECT was issued: run_data_statement fills the cache under the tree's read
\* guard, and these invalidate it after their write.
SeesAckedData ==
  \A c \in Client : \A r \in call[c].got : r.data >= call[c].floor.late

\* The same for every change, INSERT, UPDATE, DELETE and DROP TABLE included, which
\* invalidate before they write, and CREATE INDEX, which does not.
SeesEveryChange ==
  \A c \in Client : \A r \in call[c].got : r.data >= call[c].floor.data

\* A SELECT returns a result computed with a catalog that holds every definition
\* acknowledged before the SELECT was issued.
SeesAckedSchema ==
  \A c \in Client : \A r \in call[c].got : r.schema >= call[c].floor.schema

\* Once ALTER, CREATE or DROP TABLE is acknowledged its definition is in the schema
\* file, whatever other statements define, save or fail to save meanwhile.
DefinitionsDurable == disk >= acked.schema

\* A table that CREATE TABLE IF NOT EXISTS found and acknowledged is in the schema
\* file.
FoundTableDurable == disk >= acked.told

\* Every statement that was started returns.
Completes == \A c \in Client : call[c].kind # "none" ~> call[c].kind = "none"

\* Every entry of the audit log is chained to the entry before it, which is what
\* verify_chain checks.
ChainIntact == \A i \in 1..Len(audit) : audit[i] = i - 1

=============================================================================
