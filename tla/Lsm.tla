-------------------------------- MODULE Lsm --------------------------------
(***************************************************************************)
(* LsmTree of noedb-storage: write-ahead log, memtable, SST files on two   *)
(* levels, manifest (lsm.rs, lsm_mvcc.rs, wal/, compaction.rs,             *)
(* manifest.rs).                                                           *)
(*                                                                         *)
(* The tree is used through &mut self, so one call runs at a time.  A call *)
(* is split where it changes the disk, because the process may stop        *)
(* between any two such changes: pc names the change that comes next.      *)
(* Reads happen between calls.  A crash and the LsmTree::open after it are *)
(* one step.  A crash keeps what fsync reached and any prefix of the rest  *)
(* of the active segment; directory entries survive.                       *)
(*                                                                         *)
(* A cell is stored under <<user key, commit_ts>>; commit_ts 0 stands for  *)
(* a raw key, written by put and read back as a version of timestamp 1     *)
(* (decode_or_legacy).  The byte size of the memtable is its number of     *)
(* cells.                                                                  *)
(*                                                                         *)
(* put_version gets its timestamp from the caller: the engine draws it     *)
(* from an oracle in memory, which starts again at 0 when the process      *)
(* does.  delete draws none; it takes the one after the version it hides,  *)
(* which the oracle may hand out later.                                    *)
(***************************************************************************)
EXTENDS Integers, Sequences, FiniteSets, FiniteSetsExt, TLC

CONSTANTS
  Key,              \* user keys
  Val,              \* values: positive integers, ordered like their bytes
  Alias,            \* pairs <<long, short>>: long is short plus eight bytes
  Uses,             \* how a tree is used: the calls its clients make, their values,
                    \* config.l0_compaction_trigger and, a bound, the number of calls
  Latest,           \* u64::MAX, the newest snapshot; no more timestamps are drawn
  MaxMem,           \* config.max_mem_bytes, in cells
  L0Stop,           \* write_stall.l0_stop_trigger
  SyncEvery,        \* config.wal_sync = EveryAppend
  BatchSize,        \* config.wal_batch_size
  CrashPoints,      \* the points of a call at which the process may stop
  TornWrites,       \* whether a crash may leave a file half written
  Reuse,            \* whether put_version may meet a timestamp its key already has
  MaxCrashes        \* bound: crashes

\* The points of a call: between calls, and before each change of the disk.
Points == {"idle", "logged", "shadow", "sst", "segment", "current", "retire", "retiring",
           "manifest", "compact", "remove", "removing", "commit"}

ASSUME LsmAssumption ==
  /\ Val \subseteq Nat \ {0} /\ Alias \subseteq Key \X Key
  /\ Uses \subseteq [ops : SUBSET {"put", "batch", "delete", "version", "tombstone", "gc", "sync"},
                     vals : SUBSET Val, l0Trigger : Nat \ {0}, maxCalls : 1..Latest]
  /\ Latest \in Nat \ {0} /\ MaxMem \in Nat \ {0} /\ L0Stop \in Nat
  /\ {SyncEvery, TornWrites, Reuse} \subseteq BOOLEAN /\ BatchSize \in Nat \ {0}
  /\ CrashPoints \subseteq Points /\ MaxCrashes \in Nat

VARIABLES
  wal,             \* disk: segment id -> records
  current,         \* disk: the id in CURRENT
  sst,             \* disk: <<level, id>> -> cells
  manifest,        \* disk: the levels, or NoManifest
  active,          \* memory: the active memtable
  level0, level1,  \* memory: SST files, oldest first
  activeId,        \* memory: WalSegmentManager.active_id
  synced,          \* records of the active segment that fsync has reached
  pending,         \* memory: wal_pending
  retired,         \* memory: flushed_wal_segment
  oracle,          \* memory: TimestampOracle.last of the engine above the tree
  pc, op,          \* the step the call under way takes next, and the call
  reply,           \* how the last call ended
  use,             \* how this tree is used; never changes
  calls, crashes,  \* bounds
  written,         \* history: the keys of the versions logged, in order
  safe             \* history: the version cells whose WAL record was synced

disk == <<wal, current, sst, manifest>>
memory == <<active, level0, level1, activeId, synced, pending, retired>>
stamps == <<oracle, written>>
vars == <<disk, memory, stamps, pc, op, reply, use, calls, crashes, safe>>

NoManifest == [exists |-> FALSE, level0 |-> <<>>, level1 |-> <<>>]
NoCells == [ik \in {} |-> 0]
TornRecord == [ik |-> <<"", 0>>, cell |-> [val |-> 0, del |-> FALSE], del |-> FALSE]
TornFile == [ik \in {<<>>} |-> 0]      \* a file SstReader::open refuses

-----------------------------------------------------------------------------
(* MemTable *)

MemPut(t, ik, cell) == [x \in DOMAIN t \cup {ik} |-> IF x = ik THEN cell ELSE t[x]]

MemDelete(t, ik) == [x \in DOMAIN t \ {ik} |-> t[x]]

\* Records are applied in order, by a write and again by the replay: of those
\* about a key the last one decides whether it is there, and with which cell.
Named(rs) == {rs[i].ik : i \in DOMAIN rs}
Deciding(rs, ik) == rs[Max({i \in DOMAIN rs : rs[i].ik = ik})]

ApplyRecords(rs, t) ==
  LET put == {ik \in Named(rs) : ~Deciding(rs, ik).del}
  IN [ik \in (DOMAIN t \ Named(rs)) \cup put |->
        IF ik \in put THEN Deciding(rs, ik).cell ELSE t[ik]]

-----------------------------------------------------------------------------
(* Reading *)

\* Mutant: the files in the order they were written.
OldestFirst(s) == s

Newest(s) == [i \in DOMAIN s |-> s[Len(s) + 1 - i]]

Readable(f) == f \in DOMAIN sst /\ sst[f] # TornFile

\* The tables a lookup visits, newest first; nothing is found in unreadable files.
Sources ==
  LET files == Newest(level0) \o Newest(level1)
  IN <<active>> \o [i \in DOMAIN files |-> IF Readable(files[i]) THEN sst[files[i]] ELSE NoCells]

\* Every place where a cell is found.
Places == UNION {{n} \X DOMAIN Sources[n] : n \in DOMAIN Sources}

CellAt(p) == Sources[p[1]][p[2]]

\* decode_or_legacy: the timestamp a stored cell is read with.
ReadTs(ik) == IF ik[2] = 0 THEN 1 ELSE ik[2]

\* What find_visible_version takes for a version of k: the raw key, and every
\* stored key that is k once its last eight bytes are cut off.
VersionOf(ik, k) == ik[1] = k \/ (ik[2] = 0 /\ <<ik[1], k>> \in Alias)

\* The order in which a table yields them: the raw key, a longer raw key, the
\* versions (whose inverted timestamps sort last).
Rank(ik, k) == IF ik = <<k, 0>> THEN 0 ELSE IF ik[2] = 0 THEN 1 ELSE 2

Visible(k, ts) == {p \in Places : VersionOf(p[2], k) /\ ReadTs(p[2]) <= ts}

\* Whether p is kept when q is met too: a higher timestamp, or met first.
Prefer(p, q, k) ==
  \/ ReadTs(p[2]) > ReadTs(q[2])
  \/ /\ ReadTs(p[2]) = ReadTs(q[2])
     /\ \/ p[1] < q[1]
        \/ p[1] = q[1] /\ Rank(p[2], k) <= Rank(q[2], k)

FindVisible(k, ts) ==
  CHOOSE p \in Visible(k, ts) : \A q \in Visible(k, ts) : Prefer(p, q, k)

None == 0             \* no value
Failed == -1          \* the read returns an error

ValueOf(cell) == IF cell.del THEN None ELSE cell.val

\* LsmTree::get_at_ts.
GetAt(k, ts) == IF Visible(k, ts) = {} THEN None ELSE ValueOf(CellAt(FindVisible(k, ts)))

\* LsmTree::get: a raw cell of the memtable comes first, and the search for a
\* raw copy in the files stops at the first one that cannot be opened.
Get(k) ==
  IF <<k, 0>> \in DOMAIN active THEN active[<<k, 0>>].val
  ELSE IF Visible(k, Latest) # {} THEN GetAt(k, Latest)
  ELSE IF \E i \in DOMAIN (level0 \o level1) : ~Readable((level0 \o level1)[i])
  THEN Failed ELSE None

\* The timestamp of what get returns, 0 when nothing is stored.
GetTs(k) ==
  IF <<k, 0>> \in DOMAIN active THEN 1
  ELSE IF Visible(k, Latest) # {} THEN ReadTs(FindVisible(k, Latest)[2]) ELSE 0


\* merge_visible_fold for one user key: the candidates are sorted by timestamp
\* with an unstable sort, so any of those with the highest one may be kept.
Scan(k) ==
  LET mine == {p \in Places : p[2][1] = k}
      top == {p \in mine : \A q \in mine : ReadTs(q[2]) <= ReadTs(p[2])}
  IN IF mine = {} THEN {None} ELSE {ValueOf(CellAt(p)) : p \in top}

View == [k \in Key |-> [ts |-> GetTs(k), val |-> Get(k)]]

-----------------------------------------------------------------------------
(* How a call ends, goes on, and is refused *)

NoCall == [type |-> "none", key |-> {}, recs |-> <<>>, writes |-> <<>>, gone |-> 0,
           before |-> [k \in Key |-> [ts |-> 0, val |-> None]]]

Finish(r) == pc' = "idle" /\ op' = NoCall /\ reply' = r
Go(p) == pc' = p /\ UNCHANGED <<op, reply>>

Init ==
  /\ wal = [s \in {1} |-> <<>>] /\ current = 1 /\ sst = NoCells /\ manifest = NoManifest
  /\ active = NoCells /\ level0 = <<>> /\ level1 = <<>>
  /\ activeId = 1 /\ synced = 0 /\ pending = 0 /\ retired = 0
  /\ pc = "idle" /\ op = NoCall /\ reply = "ok" /\ calls = 0 /\ crashes = 0
  /\ oracle = 0 /\ written = <<>> /\ safe = {} /\ use \in Uses

PutRecord(ik, v, del) == [ik |-> ik, cell |-> [val |-> v, del |-> del], del |-> FALSE]
DeleteRecord(ik) == [ik |-> ik, cell |-> [val |-> None, del |-> TRUE], del |-> TRUE]

\* The version cells that an fsync of the active segment makes durable.
Unsynced ==
  LET seg == wal[activeId]
  IN {<<seg[i].ik, seg[i].cell>> : i \in {j \in synced + 1..Len(seg) : seg[j].ik[2] # 0}}

-----------------------------------------------------------------------------
(* Writing: the record goes to the WAL, then to the memtable *)

\* put, put_batch and delete are refused when L0 is at the stop trigger;
\* put_version is not gated.
Gated(type) == type \in {"put", "batch", "delete"}
Stalled == Len(level0) >= L0Stop

\* The call reaches the WAL: its records are in the file, not yet synced.
Log(type, k, recs, writes) ==
  /\ pc = "idle" /\ calls < use.maxCalls /\ type \in use.ops
  /\ Gated(type) => ~Stalled
  /\ op' = [type |-> type, key |-> k, recs |-> recs, writes |-> writes, gone |-> 0,
            before |-> View]
  /\ wal' = [wal EXCEPT ![activeId] = @ \o recs]
  /\ pending' = IF type = "batch" THEN pending ELSE pending + 1
  /\ calls' = calls + 1
  /\ pc' = "logged"
  /\ UNCHANGED <<current, sst, manifest, active, level0, level1, activeId, synced,
                 retired, reply, use, crashes, safe>>

Put(k, v) ==
  /\ Log("put", k, <<PutRecord(<<k, 0>>, v, FALSE)>>, <<<<k, 1, v>>>>)
  /\ UNCHANGED stamps

PutBatch(k1, v1, k2, v2) ==
  /\ Log("batch", k1, <<PutRecord(<<k1, 0>>, v1, FALSE), PutRecord(<<k2, 0>>, v2, FALSE)>>,
         <<<<k1, 1, v1>>, <<k2, 1, v2>>>>)
  /\ UNCHANGED stamps

Delete(k) ==
  /\ Log("delete", k, <<DeleteRecord(<<k, 0>>)>>, <<<<k, 0, None>>>>)
  /\ UNCHANGED stamps

\* oracle.next() of a caller, then put_version.  Numbers that other writers draw
\* are skipped only where Reuse forbids the next one (bound: maxCalls).
Drawn(k) ==
  {ts \in oracle + 1..use.maxCalls : Reuse \/ \A i \in DOMAIN written : written[i] # <<k, ts>>}

Stamped(type, k, v, del) ==
  /\ Drawn(k) # {}
  /\ LET ts == Min(Drawn(k))
     IN /\ Log(type, k, <<PutRecord(<<k, ts>>, v, del)>>, <<<<k, ts, v>>>>)
        /\ oracle' = ts
        /\ written' = Append(written, <<k, ts>>)

PutVersion(k, v) == Stamped("version", k, v, FALSE)

PutTombstone(k) == Stamped("tombstone", k, None, TRUE)

Refuse ==
  /\ pc = "idle" /\ calls < use.maxCalls /\ Stalled
  /\ \E type \in use.ops : Gated(type)
  /\ calls' = calls + 1 /\ reply' = "stalled"
  /\ UNCHANGED <<disk, memory, pc, op, use, stamps, crashes, safe>>

\* maybe_flush_and_compact, when the memtable holds t.
MaybeFlush(t) ==
  IF Cardinality(DOMAIN t) < MaxMem THEN Finish("ok") ELSE Go("sst")

\* maybe_sync_wal (put_batch: wal.sync), then the memtable.
MustSync == op.type = "batch" \/ SyncEvery \/ pending >= BatchSize

WriteMem ==
  /\ pc = "logged"
  /\ synced' = IF MustSync THEN Len(wal[activeId]) ELSE synced
  /\ pending' = IF MustSync /\ op.type # "batch" THEN 0 ELSE pending
  /\ safe' = IF MustSync THEN safe \cup Unsynced ELSE safe
  /\ active' = ApplyRecords(op.recs, active)
  /\ IF op.type = "delete" THEN Go("shadow") ELSE MaybeFlush(active')
  /\ UNCHANGED <<disk, level0, level1, activeId, retired, calls, use, stamps, crashes>>

\* delete, once the raw cell is gone from the memtable: when an older copy is
\* still visible, a tombstone just above it is logged by put_version.
Shadow ==
  /\ pc = "shadow"
  /\ \/ /\ Get(op.key) = None
        /\ MaybeFlush(active)
        /\ UNCHANGED <<wal, pending, written>>
     \/ /\ Get(op.key) = Failed
        /\ Finish("error")
        /\ UNCHANGED <<wal, pending, written>>
     \/ /\ Get(op.key) \in Val
        /\ LET ts == GetTs(op.key) + 1
               r == PutRecord(<<op.key, ts>>, None, TRUE)
           IN /\ wal' = [wal EXCEPT ![activeId] = Append(@, r)]
              /\ written' = Append(written, r.ik)
              /\ op' = [op EXCEPT !.type = "tombstone", !.recs = <<r>>]
        /\ pending' = pending + 1
        /\ pc' = "logged" /\ UNCHANGED reply
  /\ UNCHANGED <<current, sst, manifest, active, level0, level1, activeId, synced,
                 retired, oracle, calls, use, crashes, safe>>

Sync ==
  /\ pc = "idle" /\ calls < use.maxCalls /\ "sync" \in use.ops
  /\ synced' = Len(wal[activeId]) /\ pending' = 0
  /\ safe' = safe \cup Unsynced
  /\ calls' = calls + 1 /\ reply' = "ok"
  /\ UNCHANGED <<disk, active, level0, level1, activeId, retired, pc, op, use, stamps, crashes>>

\* gc_mvcc_active: the user key a stored key is counted under.
GcUser(ik) ==
  IF ik[2] # 0 THEN {ik[1]} ELSE {p[2] : p \in {a \in Alias : a[1] = ik[1]}}

\* Mutant: the latest version of a key is not spared.
GcDropsLatest(m) == {ik \in DOMAIN active : ReadTs(ik) < m}

GcDrops(m) ==
  {ik \in DOMAIN active :
     /\ ReadTs(ik) < m
     /\ \E x \in DOMAIN active : GcUser(x) = GcUser(ik) /\ ReadTs(x) > ReadTs(ik)}

\* It works on the memtable alone: the WAL keeps the records.
Gc(m) ==
  /\ pc = "idle" /\ calls < use.maxCalls /\ "gc" \in use.ops
  /\ active' = [ik \in DOMAIN active \ GcDrops(m) |-> active[ik]]
  /\ safe' = {c \in safe : c[1] \notin GcDrops(m)}
  /\ calls' = calls + 1 /\ reply' = "ok"
  /\ UNCHANGED <<disk, level0, level1, activeId, synced, pending, retired, pc, op, use, stamps, crashes>>

-----------------------------------------------------------------------------
(* flush_active *)

\* next_sst_id: one above the highest id in the directory.
NextId(l) == 1 + Max({0} \cup {f[2] : f \in {g \in DOMAIN sst : g[1] = l}})

WriteSst ==
  /\ pc = "sst"
  /\ sst' = MemPut(sst, <<0, NextId(0)>>, active)
  /\ level0' = Append(level0, <<0, NextId(0)>>)
  /\ active' = NoCells
  /\ Go("segment")
  /\ UNCHANGED <<wal, current, manifest, level1, activeId, synced, pending, retired,
                 calls, use, stamps, crashes, safe>>

\* WalSegmentManager::rotate: sync the old segment, open the next one, ...
NewSegment ==
  /\ pc = "segment"
  /\ safe' = safe \cup Unsynced
  /\ activeId' = activeId + 1
  /\ wal' = IF activeId + 1 \in DOMAIN wal THEN wal ELSE MemPut(wal, activeId + 1, <<>>)
  /\ synced' = Len(wal'[activeId + 1])
  /\ Go("current")
  /\ UNCHANGED <<current, sst, manifest, active, level0, level1, pending, retired,
                 calls, use, stamps, crashes>>

\* Mutant: CURRENT is left as it is.
RotateOnly ==
  /\ pc = "current"
  /\ Go("retire")
  /\ UNCHANGED <<disk, memory, calls, use, stamps, crashes, safe>>

\* ... and replace CURRENT.
PointCurrent ==
  /\ pc = "current"
  /\ current' = activeId
  /\ Go("retire")
  /\ UNCHANGED <<wal, sst, manifest, memory, calls, use, stamps, crashes, safe>>

\* The segments whose records are in the new file, deleted in ascending order.
Flushed == {s \in DOMAIN wal : retired <= s /\ s < activeId}

Retire ==
  /\ pc \in {"retire", "retiring"}
  /\ wal' = MemDelete(wal, Min(Flushed))
  /\ IF Cardinality(Flushed) = 1
     THEN retired' = activeId /\ pending' = 0 /\ Go("manifest")
     ELSE UNCHANGED <<retired, pending>> /\ Go("retiring")
  /\ UNCHANGED <<current, sst, manifest, active, level0, level1, activeId, synced,
                 calls, use, stamps, crashes, safe>>

CommitFlush ==
  /\ pc = "manifest"
  /\ manifest' = [exists |-> TRUE, level0 |-> level0, level1 |-> level1]
  /\ IF Len(level0) >= use.l0Trigger THEN Go("compact") ELSE Finish("ok")
  /\ UNCHANGED <<wal, current, sst, memory, calls, use, stamps, crashes, safe>>

-----------------------------------------------------------------------------
(* run_compaction *)

\* The order of the encoded cells: a tombstone is above every value.
Above(c, d) == c.del \/ (~d.del /\ c.val >= d.val)

\* Mutant: only the first stream is read.
MergedFirst == sst[level0[1]]

\* compact_level0_to_l1: the heap yields equal keys in the order of their cells,
\* so the largest one is put last.
Merged ==
  LET files == {level0[i] : i \in DOMAIN level0}
      copies(ik) == {sst[f][ik] : f \in {g \in files : ik \in DOMAIN sst[g]}}
  IN [ik \in UNION {DOMAIN sst[f] : f \in files} |->
        CHOOSE c \in copies(ik) : \A d \in copies(ik) : Above(c, d)]

Compact ==
  /\ pc = "compact"
  /\ \/ /\ \A i \in DOMAIN level0 : Readable(level0[i])
        /\ sst' = MemPut(sst, <<1, NextId(1)>>, Merged)
        /\ Go("remove")
     \/ /\ \E i \in DOMAIN level0 : ~Readable(level0[i])
        /\ Finish("error")
        /\ UNCHANGED sst
  /\ UNCHANGED <<wal, current, manifest, memory, calls, use, stamps, crashes, safe>>

\* The inputs are removed one by one; a file that is not there fails the call.
RemoveInput ==
  /\ pc \in {"remove", "removing"}
  /\ LET f == level0[op.gone + 1]
     IN \/ /\ f \in DOMAIN sst
           /\ sst' = MemDelete(sst, f)
           /\ op' = [op EXCEPT !.gone = @ + 1]
           /\ pc' = IF op.gone + 1 = Len(level0) THEN "commit" ELSE "removing"
           /\ UNCHANGED reply
        \/ f \notin DOMAIN sst /\ Finish("error") /\ UNCHANGED sst
  /\ UNCHANGED <<wal, current, manifest, memory, calls, use, stamps, crashes, safe>>

CommitCompaction ==
  /\ pc = "commit"
  /\ level0' = <<>>
  /\ level1' = Append(level1, <<1, NextId(1) - 1>>)
  /\ manifest' = [exists |-> TRUE, level0 |-> level0', level1 |-> level1']
  /\ Finish("ok")
  /\ UNCHANGED <<wal, current, sst, active, activeId, synced, pending, retired,
                 calls, use, stamps, crashes, safe>>

-----------------------------------------------------------------------------
(* Crash and LsmTree::open *)

Torn(seg) == \E i \in DOMAIN seg : seg[i] = TornRecord

\* The WAL a crash leaves: what was synced of the active segment and a prefix of
\* the rest; with TornWrites also half a record, or a new segment without header.
CrashedWal ==
  {[wal EXCEPT ![activeId] = SubSeq(@, 1, n)] : n \in synced..Len(wal[activeId])}
  \cup (IF TornWrites
        THEN {[wal EXCEPT ![activeId] = Append(SubSeq(@, 1, n), TornRecord)] :
                n \in synced..(Len(wal[activeId]) - 1)}
        ELSE {})
  \cup (IF TornWrites /\ pc = "segment"
        THEN {MemPut(wal, activeId + 1, <<TornRecord>>)} ELSE {})

\* The SST files it leaves: the one being written may be incomplete.
CrashedSst ==
  {sst} \cup (IF TornWrites /\ pc = "sst"
              THEN {MemPut(sst, <<0, NextId(0)>>, TornFile)} ELSE {})
        \cup (IF TornWrites /\ pc = "compact"
              THEN {MemPut(sst, <<1, NextId(1)>>, TornFile)} ELSE {})

\* Mutant: only the segment that CURRENT names is replayed.
ReplayCurrent(w) ==
  [ik \in {x \in Named(w[current]) : ~Deciding(w[current], x).del} |-> Deciding(w[current], ik).cell]

\* replay_all: every segment, in ascending order.
Replay(w) ==
  LET last(ik) == Deciding(w[Max({s \in DOMAIN w : ik \in Named(w[s])})], ik)
      named == UNION {Named(w[s]) : s \in DOMAIN w}
  IN [ik \in {x \in named : ~last(x).del} |-> last(ik).cell]

\* list_sst_level: the files of a level, sorted.
Listed(s, l) ==
  LET ids == {f[2] : f \in {g \in DOMAIN s : g[1] = l}}
  IN [i \in 1..Cardinality(ids) |->
        <<l, CHOOSE n \in ids : Cardinality({m \in ids : m < n}) = i - 1>>]

\* Mutant: open starts with empty levels.
OpenWithoutFiles(w, s) ==
  /\ active' = Replay(w)
  /\ level0' = <<>> /\ level1' = <<>>
  /\ activeId' = current
  /\ synced' = Len(w[current]) /\ pending' = 0 /\ retired' = 0
  /\ Finish("crashed")

\* open: replay, levels from the manifest or else the directory, CURRENT.
Open(w, s) ==
  /\ active' = Replay(w)
  /\ level0' = IF manifest.exists THEN manifest.level0 ELSE Listed(s, 0)
  /\ level1' = IF manifest.exists THEN manifest.level1 ELSE Listed(s, 1)
  /\ activeId' = current
  /\ synced' = Len(w[current]) /\ pending' = 0 /\ retired' = 0
  /\ Finish("crashed")

Crash ==
  /\ pc \in CrashPoints /\ crashes < MaxCrashes
  /\ crashes' = crashes + 1
  /\ wal' \in CrashedWal /\ sst' \in CrashedSst
  /\ IF \E i \in DOMAIN wal' : Torn(wal'[i])
     THEN pc' = "down" /\ UNCHANGED <<memory, op, reply>>
     ELSE Open(wal', sst')
  /\ oracle' = 0
  /\ UNCHANGED <<current, manifest, use, calls, written, safe>>

-----------------------------------------------------------------------------

Next ==
  \/ \E k \in Key, v \in use.vals : Put(k, v) \/ PutVersion(k, v)
  \/ \E k1, k2 \in Key, v1, v2 \in use.vals : PutBatch(k1, v1, k2, v2)
  \/ \E k \in Key : Delete(k) \/ PutTombstone(k)
  \/ \E m \in 1..use.maxCalls : Gc(m)
  \/ Refuse \/ Sync \/ WriteMem \/ Shadow
  \/ WriteSst \/ NewSegment \/ PointCurrent \/ Retire \/ CommitFlush
  \/ Compact \/ RemoveInput \/ CommitCompaction
  \/ Crash

Spec == Init /\ [][Next]_vars

-----------------------------------------------------------------------------
(* Properties *)

Record == [ik : (Key \cup {""}) \X Nat, cell : [val : Val \cup {None}, del : BOOLEAN], del : BOOLEAN]

\* Types, and the memory that mirrors the disk: the active segment is the one
\* CURRENT names, except while rotate has opened the next one.
TypeOK ==
  /\ \A s \in DOMAIN wal : \A i \in DOMAIN wal[s] : wal[s][i] \in Record
  /\ activeId \in DOMAIN wal /\ current \in DOMAIN wal
  /\ activeId = (IF pc = "current" THEN current + 1 ELSE current)
  /\ synced \in 0..Len(wal[activeId])
  /\ pending \in 0..use.maxCalls * 2 /\ retired \in 0..activeId
  /\ reply \in {"ok", "stalled", "error", "crashed"}

\* The versions the callers see; a call under way is not seen until it returns.
Kv == INSTANCE KvStore WITH
  store <- IF pc = "idle" THEN View ELSE op.before,
  call <- op.writes, Value <- Val \cup {None}, MaxWrites <- 2

\* LsmTree implements KvStore, the map of newest versions, whatever is flushed,
\* compacted, collected or replayed in between: put, put_batch, put_version and
\* delete change what get returns as their timestamps say, and crashes nothing.
IsKvStore == Kv!KvSpec

\* A version whose WAL record was synced is read back at its timestamp after any
\* number of flushes, compactions and restarts (crash recovery of open).
Durable ==
  pc = "idle" => \A c \in safe : GetAt(c[1][1], c[1][2]) = ValueOf(c[2])

\* A synced version is in some file of the data directory at every step of every
\* call, wherever the process stops, even where open does not find it again.
KeptOnDisk ==
  \A c \in safe :
    \/ \E s \in DOMAIN wal : \E i \in DOMAIN wal[s] : wal[s][i].ik = c[1]
    \/ \E f \in DOMAIN sst : c[1] \in DOMAIN sst[f] /\ sst[f][c[1]] = c[2]

\* A crash loses a suffix of the writes: when a version survives, so does every
\* version written before it (group commit, WalSyncMode::OnFlush), as long as no
\* file is gone that the manifest on disk still has to account for.
Stored(ik) == \E n \in DOMAIN Sources : ik \in DOMAIN Sources[n]
LosesOnlySuffix ==
  [][ crashes' > crashes /\ pc' = "idle" /\ pc \notin {"retiring", "manifest", "removing", "commit"} =>
        \A i, j \in DOMAIN written :
          i < j /\ Stored(written[i]) /\ Stored(written[j])' => Stored(written[i])' ]_vars


\* What a call that answers ok has written is what get returns: put promises to
\* "Insert or overwrite a key", get_latest returns the "Latest committed cell
\* value", and the oracle "Assigns strictly increasing commit timestamps".
WritesTakeEffect ==
  [][ pc # "idle" /\ pc' = "idle" /\ reply' = "ok" =>
        LET writes == {op.writes[i] : i \in DOMAIN op.writes}
        IN \A w \in writes : \E x \in writes : x[1] = w[1] /\ Get(w[1])' = x[3] ]_vars

\* A delete cut short by a crash has either happened or not.
DeleteIsAtomic ==
  [][ crashes' > crashes /\ pc' = "idle" /\ op.writes # <<>> =>
        \A k \in {op.key} : Get(k)' \in {op.before[k].val, op.writes[1][3]} ]_vars

\* No call changes what another key reads.
OnlyOwnKey ==
  [][ pc # "idle" /\ pc' = "idle" =>
        \A k \in Key : Get(k)' # op.before[k].val =>
          \E i \in DOMAIN op.writes : op.writes[i][1] = k ]_vars

\* Between calls L0 is below the stop trigger, so that writes are accepted.
AcceptsWrites == pc = "idle" => ~Stalled

\* A crash leaves a directory that open accepts.
Reopens == pc # "down"
=============================================================================
