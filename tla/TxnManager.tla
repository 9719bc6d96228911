----------------------------- MODULE TxnManager -----------------------------
(***************************************************************************)
(* The transaction manager of noedb-txn (manager.rs, ssi.rs, deadlock.rs,  *)
(* transaction.rs) over the multi-version table of noedb-storage           *)
(* (mvcc/memtable.rs, mvcc/gc.rs, mvcc/oracle.rs).                         *)
(*                                                                         *)
(* Every method takes &self and locks its tables one after another, so a   *)
(* call is split where it lets go of a table that another client can       *)
(* change.  Clients call concurrently; SessionOf says on which session.    *)
(*                                                                         *)
(* A version is its key and commit timestamp: a put and a delete both      *)
(* install one, and no property asks what it holds.  Nothing in the        *)
(* repository calls DeadlockGuard::record_wait or puts an intent into the  *)
(* table, so the wait-for graph and the intents stay empty and are left    *)
(* out.                                                                    *)
(***************************************************************************)
EXTENDS Integers, FiniteSets, FiniteSetsExt

CONSTANTS
  Client,        \* threads that call the manager
  Session,       \* session ids
  SessionOf,     \* the session each client works for
  Key,
  GcCalls,       \* whether the caller collects after a commit
  Slow,          \* the transactions that can stay open past wait_timeout
  MaxTs,         \* bound: timestamps handed out
  MaxTxn         \* bound: transactions begun

ASSUME TxnAssumption ==
  /\ SessionOf \in [Client -> Session]
  /\ GcCalls \in BOOLEAN /\ Slow \subseteq Nat /\ MaxTs \in Nat /\ MaxTxn \in Nat

VARIABLES
  last,        \* TimestampOracle.last
  nextId,      \* TxnManager.next_id
  sessions,    \* session -> transaction id, 0 when it has none
  active,      \* TxnManager.active: id -> transaction
  mvcc,        \* the versions <<key, commit timestamp>> in MvccMemTable
  rwEdges,     \* SsiChecker.rw_edges, as pairs <<reader, writer>>
  writeKeys,   \* SsiChecker.write_keys, as pairs <<transaction, key>>
  pc, call,    \* per client: the next step of its call, and what it holds
  committed    \* history: the transactions that committed

tables == <<sessions, active, mvcc, rwEdges, writeKeys>>
vars == <<last, nextId, tables, pc, call, committed>>

Ids == 1..MaxTxn
NoCall == [id |-> 0, keys |-> {}, ts |-> 0, writers |-> {}, retain |-> 0]

\* start_ts, read_set, the keys of write_set, whether started_at lies further
\* back than wait_timeout; and, as history, the newest version of every key when
\* the transaction began, the timestamps of the commits that were under way then,
\* and what it read from the table.
Transaction ==
  [start : 0..MaxTs, reads : SUBSET Key, writes : SUBSET Key, aged : BOOLEAN,
   floor : [Key -> 0..MaxTs], pending : SUBSET (1..MaxTs),
   found : SUBSET [key : Key, ts : 0..MaxTs]]

Init ==
  /\ last = 0 /\ nextId = 1
  /\ sessions = [s \in Session |-> 0] /\ active = << >> /\ mvcc = {}
  /\ rwEdges = {} /\ writeKeys = {}
  /\ pc = [c \in Client |-> "idle"] /\ call = [c \in Client |-> NoCall]
  /\ committed = {}

Go(c, p) == pc' = [pc EXCEPT ![c] = p]
Return(c) == Go(c, "idle") /\ call' = [call EXCEPT ![c] = NoCall]

\* The session's transaction, when both maps hold it (with_txn).
Current(c) == sessions[SessionOf[c]]
InTxn(c) == Current(c) \in DOMAIN active

With(f, i, v) == [x \in DOMAIN f \cup {i} |-> IF x = i THEN v ELSE f[x]]
Without(f, i) == [x \in DOMAIN f \ {i} |-> f[x]]

\* Mutant: the version bound is forgotten, a read finds the newest of all.
ReadNewest(k, ts) == Max({0} \cup {v[2] : v \in {w \in mvcc : w[1] = k}})

\* MvccMemTable::get_version with ReadView::is_visible: the newest version of k
\* no later than ts; 0 when there is none.
ReadTs(k, ts) == Max({0} \cup {v[2] : v \in {w \in mvcc : w[1] = k /\ w[2] <= ts}})

\* The timestamps drawn by commits that have yet to install their versions.
Pending == {call[c].ts : c \in {d \in Client : pc[d] = "durable"}}

\* Transaction::new.
NewTxn(ts) ==
  [start |-> ts, reads |-> {}, writes |-> {}, aged |-> FALSE,
   floor |-> [k \in Key |-> ReadTs(k, last)], pending |-> Pending, found |-> {}]

-----------------------------------------------------------------------------
(* begin *)

BeginCheck(c) ==
  /\ pc[c] = "idle" /\ Current(c) = 0
  /\ Go(c, "begin")
  /\ UNCHANGED <<last, nextId, tables, call, committed>>

\* Mutant: start_ts is oracle.now, not oracle.next.
BeginNow(c) ==
  /\ pc[c] = "begin" /\ nextId <= MaxTxn
  /\ nextId' = nextId + 1
  /\ active' = With(active, nextId, NewTxn(last))
  /\ call' = [call EXCEPT ![c].id = nextId]
  /\ Go(c, "session")
  /\ UNCHANGED <<last, sessions, mvcc, rwEdges, writeKeys, committed>>

\* The new transaction has written nothing, so nobody can tell when between
\* oracle.next and active.insert it appears.
BeginStamp(c) ==
  /\ pc[c] = "begin" /\ last < MaxTs /\ nextId <= MaxTxn
  /\ last' = last + 1 /\ nextId' = nextId + 1
  /\ active' = With(active, nextId, NewTxn(last'))
  /\ call' = [call EXCEPT ![c].id = nextId]
  /\ Go(c, "session")
  /\ UNCHANGED <<sessions, mvcc, rwEdges, writeKeys, committed>>

BeginSession(c) ==
  /\ pc[c] = "session"
  /\ sessions' = [sessions EXCEPT ![SessionOf[c]] = call[c].id]
  /\ Return(c)
  /\ UNCHANGED <<last, nextId, active, mvcc, rwEdges, writeKeys, committed>>

\* Five seconds pass since started_at.
Age(i) ==
  /\ i \in Slow /\ ~active[i].aged
  /\ active' = [active EXCEPT ![i].aged = TRUE]
  /\ UNCHANGED <<last, nextId, sessions, mvcc, rwEdges, writeKeys, pc, call, committed>>

-----------------------------------------------------------------------------
(* Staging writes, and get *)

\* Transaction::put and Transaction::delete, through with_txn.
Stage(c, k) ==
  /\ pc[c] = "idle" /\ InTxn(c)
  /\ active' = [active EXCEPT ![Current(c)].writes = @ \cup {k}]
  /\ UNCHANGED <<last, nextId, sessions, mvcc, rwEdges, writeKeys, pc, call, committed>>

GetRecord(c, k) ==
  /\ pc[c] = "idle" /\ InTxn(c)
  /\ active' = [active EXCEPT ![Current(c)].reads = @ \cup {k}]
  /\ call' = [call EXCEPT ![c].id = Current(c), ![c].keys = {k}]
  /\ Go(c, "track")
  /\ UNCHANGED <<last, nextId, sessions, mvcc, rwEdges, writeKeys, committed>>

\* track_rw_dependencies collects the other active transactions that have
\* written the key so far, lets go of the map, and adds an edge to each.
GetTrack(c) ==
  /\ pc[c] = "track"
  /\ call' = [call EXCEPT ![c].writers =
                {i \in DOMAIN active \ {call[c].id} : call[c].keys \subseteq active[i].writes}]
  /\ Go(c, "note")
  /\ UNCHANGED <<last, nextId, tables, committed>>

NoteRwDependency(c) ==
  /\ pc[c] = "note"
  /\ rwEdges' = rwEdges \cup ({call[c].id} \X call[c].writers)
  /\ Go(c, "read")
  /\ UNCHANGED <<last, nextId, sessions, active, mvcc, writeKeys, call, committed>>

\* get looks into the transaction's write set first, then into the table.
GetRead(c) ==
  /\ pc[c] = "read"
  /\ active' = IF ~InTxn(c) \/ call[c].keys \subseteq active[Current(c)].writes THEN active
               ELSE [active EXCEPT ![Current(c)].found = @ \cup
                       {[key |-> k, ts |-> ReadTs(k, active[Current(c)].start)] : k \in call[c].keys}]
  /\ Return(c)
  /\ UNCHANGED <<last, nextId, sessions, mvcc, rwEdges, writeKeys, committed>>

-----------------------------------------------------------------------------
(* commit_with_durable *)

\* SsiChecker::check_commit: a key both read and written that a finishing
\* transaction has registered, or a pair of opposite edges.
Conflicts(i) ==
  \/ \E w \in writeKeys : w[1] # i /\ w[2] \in active[i].reads \cap active[i].writes
  \/ \E j \in Ids : {<<i, j>>, <<j, i>>} \subseteq rwEdges

\* DeadlockGuard::poll and SSI refuse with an error that leaves the transaction
\* as it is.
CommitRefuse(c) ==
  /\ pc[c] = "idle" /\ InTxn(c)
  /\ active[Current(c)].aged \/ Conflicts(Current(c))
  /\ UNCHANGED vars

CommitCheck(c) ==
  /\ pc[c] = "idle" /\ InTxn(c)
  /\ ~active[Current(c)].aged /\ ~Conflicts(Current(c))
  /\ call' = [call EXCEPT ![c].id = Current(c)]
  /\ Go(c, "stamp")
  /\ UNCHANGED <<last, nextId, tables, committed>>

\* The write set is cloned under the lock taken anew, then commit_ts is drawn.
CommitStamp(c) ==
  /\ pc[c] = "stamp"
  /\ IF call[c].id \notin DOMAIN active THEN Return(c) /\ UNCHANGED last
     ELSE /\ last < MaxTs
          /\ last' = last + 1
          /\ call' = [call EXCEPT ![c].ts = last', ![c].keys = active[call[c].id].writes]
          /\ Go(c, "durable")
  /\ UNCHANGED <<nextId, tables, committed>>

\* An error of the durable hook leaves the transaction open.
DurableFails(c) ==
  /\ pc[c] = "durable"
  /\ Return(c)
  /\ UNCHANGED <<last, nextId, tables, committed>>

Install(c) ==
  /\ pc[c] = "durable"
  /\ mvcc' = mvcc \cup (call[c].keys \X {call[c].ts})
  /\ committed' = committed \cup
       {[id |-> i, start |-> active[i].start, ts |-> call[c].ts,
         updated |-> active[i].reads \cap call[c].keys] : i \in {call[c].id} \cap DOMAIN active}
  /\ Go(c, "register")
  /\ UNCHANGED <<last, nextId, sessions, active, rwEdges, writeKeys, call>>

RegisterCommit(c) ==
  /\ pc[c] = "register"
  /\ writeKeys' = writeKeys \cup ({call[c].id} \X call[c].keys)
  /\ Go(c, "purge")
  /\ UNCHANGED <<last, nextId, sessions, active, mvcc, rwEdges, call, committed>>

\* Mutant: the edges from the finished transaction stay.
PurgeWritersOnly(i) ==
  /\ rwEdges' = {e \in rwEdges : e[2] # i}
  /\ writeKeys' = {w \in writeKeys : w[1] # i}

\* SsiChecker::purge; after a commit it drops the keys registered a moment ago.
Purge(i) ==
  /\ rwEdges' = {e \in rwEdges : i \notin {e[1], e[2]}}
  /\ writeKeys' = {w \in writeKeys : w[1] # i}

CommitPurge(c) ==
  /\ pc[c] = "purge"
  /\ Purge(call[c].id)
  /\ Go(c, "remove")
  /\ UNCHANGED <<last, nextId, sessions, active, mvcc, call, committed>>

CommitRemove(c) ==
  /\ pc[c] = "remove"
  /\ active' = Without(active, call[c].id)
  /\ Go(c, "close")
  /\ UNCHANGED <<last, nextId, sessions, mvcc, rwEdges, writeKeys, call, committed>>

\* With the session closed, commit_to_storage takes one less than oracle.now for
\* the oldest timestamp to retain.
CommitClose(c) ==
  /\ pc[c] = "close"
  /\ sessions' = [sessions EXCEPT ![SessionOf[c]] = 0]
  /\ IF GcCalls
     THEN call' = [call EXCEPT ![c] = [NoCall EXCEPT !.retain = last - 1]] /\ Go(c, "collect")
     ELSE Return(c)
  /\ UNCHANGED <<last, nextId, active, mvcc, rwEdges, writeKeys, committed>>

\* gc_versions, MvccMemTable::prune_below: every version below the watermark goes.
Gc(c) ==
  /\ pc[c] = "collect"
  /\ mvcc' = {v \in mvcc : v[2] >= call[c].retain}
  /\ Return(c)
  /\ UNCHANGED <<last, nextId, sessions, active, rwEdges, writeKeys, committed>>

-----------------------------------------------------------------------------
(* rollback *)

RollbackDetach(c) ==
  /\ pc[c] = "idle" /\ Current(c) # 0
  /\ call' = [call EXCEPT ![c].id = Current(c)]
  /\ sessions' = [sessions EXCEPT ![SessionOf[c]] = 0]
  /\ Go(c, "discard")
  /\ UNCHANGED <<last, nextId, active, mvcc, rwEdges, writeKeys, committed>>

RollbackPurge(c) ==
  /\ pc[c] = "discard"
  /\ Purge(call[c].id)
  /\ Go(c, "forget")
  /\ UNCHANGED <<last, nextId, sessions, active, mvcc, call, committed>>

\* Mutant: rollback forgets active.remove.
RollbackKeeps(c) ==
  /\ pc[c] = "forget"
  /\ Return(c)
  /\ UNCHANGED <<last, nextId, tables, committed>>

RollbackRemove(c) ==
  /\ pc[c] = "forget"
  /\ active' = Without(active, call[c].id)
  /\ Return(c)
  /\ UNCHANGED <<last, nextId, sessions, mvcc, rwEdges, writeKeys, committed>>

Begin(c) == BeginCheck(c) \/ BeginStamp(c) \/ BeginSession(c)

Get(c) == (\E k \in Key : GetRecord(c, k)) \/ GetTrack(c) \/ NoteRwDependency(c) \/ GetRead(c)

Commit(c) ==
  \/ CommitRefuse(c) \/ CommitCheck(c) \/ CommitStamp(c) \/ DurableFails(c) \/ Install(c)
  \/ RegisterCommit(c) \/ CommitPurge(c) \/ CommitRemove(c) \/ CommitClose(c) \/ Gc(c)

Rollback(c) == RollbackDetach(c) \/ RollbackPurge(c) \/ RollbackRemove(c)

Next ==
  \/ \E c \in Client :
       Begin(c) \/ (\E k \in Key : Stage(c, k)) \/ Get(c) \/ Commit(c) \/ Rollback(c)
  \/ \E i \in DOMAIN active : Age(i)

Spec == Init /\ [][Next]_vars

-----------------------------------------------------------------------------
(* Properties *)

\* Every table of the manager holds what its type in manager.rs and ssi.rs says.
TypeOK ==
  /\ last \in 0..MaxTs /\ nextId \in 1..MaxTxn + 1
  /\ sessions \in [Session -> Ids \cup {0}]
  /\ DOMAIN active \subseteq Ids /\ \A i \in DOMAIN active : active[i] \in Transaction
  /\ mvcc \subseteq Key \X (1..MaxTs)
  /\ rwEdges \subseteq Ids \X Ids /\ writeKeys \subseteq Ids \X Key

\* A snapshot gains only what was under way when it was taken: a version that
\* get finds and that was not in the table at begin belongs to a commit that had
\* drawn its commit_ts before begin drew start_ts.
GainsOnlyPending ==
  \A i \in DOMAIN active : \A r \in active[i].found :
    r.ts > active[i].floor[r.key] => r.ts \in active[i].pending

\* Collection leaves every open snapshot what it began with: gc_versions is said to
\* drop versions "not visible to any active snapshot" (mvcc/gc.rs).
SnapshotKept ==
  \A i \in DOMAIN active : \A r \in active[i].found : active[i].floor[r.key] <= r.ts

\* Two reads of a key by one transaction find the same version, whatever commits
\* between them.
SnapshotStable ==
  \A i \in DOMAIN active : \A r, q \in active[i].found : r.key = q.key => r.ts = q.ts

\* Every transaction in active is reached by its session or by the call that is
\* opening or closing it, and a session with no call under way names an active
\* transaction.
SessionsMatch ==
  /\ \A i \in DOMAIN active : i \in {sessions[s] : s \in Session} \cup {call[c].id : c \in Client}
  /\ \A c \in Client : pc[c] = "idle" => Current(c) \in {0} \cup DOMAIN active

\* SSI refuses a commit only for a rival that is still active: purge may run before
\* the edges of a get are noted, and an edge may then name a writer that is over,
\* but it has no opposite edge and no registered key that check_commit would find.
RivalsAreActive ==
  /\ \A w \in writeKeys : w[1] \in DOMAIN active
  /\ \A i \in DOMAIN active, j \in Ids : {<<i, j>>, <<j, i>>} \subseteq rwEdges => j \in DOMAIN active

\* TimestampOracle::next orders all snapshots and commits: no transaction starts
\* at the timestamp of another's start, of a version, or of a commit that has
\* yet to install its versions.
StampsDistinct ==
  \A i \in DOMAIN active :
    /\ \A j \in DOMAIN active : active[i].start = active[j].start => i = j
    /\ \A v \in mvcc : v[2] # active[i].start
    /\ \A c \in Client : call[c].ts # active[i].start

\* Of two concurrent transactions that read and write the same key, at most one
\* commits.
NoLostUpdate ==
  \A d, e \in committed :
    d.id # e.id /\ d.start < e.ts /\ e.start < d.ts => d.updated \cap e.updated = {}

\* A transaction SSI decided to abort does not commit: a conflict lasts as long
\* as the transaction.
AbortIsFinal ==
  [][ \A i \in DOMAIN active : Conflicts(i) /\ i \in DOMAIN active' => Conflicts(i)' ]_vars

\* No transaction waits for another, so no client finds its commit refused for
\* waiting too long.
TimeoutOnlyWaiting ==
  \A c \in Client : pc[c] = "idle" /\ InTxn(c) => ~active[Current(c)].aged
=============================================================================
