----------------------------- MODULE TxnProofs -----------------------------
(***************************************************************************)
(* Facts about the transaction manager for any number of clients,          *)
(* sessions, keys, transactions and timestamps: its types, the order of    *)
(* the timestamps, and what snapshots find.                                *)
(***************************************************************************)
EXTENDS TxnManager, WellFoundedInduction, TLAPS

-----------------------------------------------------------------------------
(* What a read of the table finds *)

LEMMA LeastNatural ==
  ASSUME NEW T, T \subseteq Nat, T # {}
  PROVE  \E x \in T : \A y \in T : x <= y
<1> DEFINE R == {ss \in Nat \X Nat : ss[1] < ss[2]}
<1>1. IsWellFoundedOn(R, Nat)
  BY NatLessThanWellFounded DEF OpToRel
<1> HIDE DEF R
<1>2. PICK x \in T : \A y \in T : ~ (<<y, x>> \in R)
  BY <1>1, WFMin
<1>3. ASSUME NEW y \in T PROVE x <= y
  <2>1. <<y, x>> \notin R
    BY <1>2
  <2>. QED BY <2>1 DEF R
<1>. QED BY <1>3

LEMMA MaxIsGreatest ==
  ASSUME NEW S, NEW n \in Nat, S \subseteq 0 .. n, S # {}
  PROVE  Max(S) \in S /\ \A y \in S : y <= Max(S)
<1> DEFINE T == {n - s : s \in S}
<1>1. T \subseteq Nat
  OBVIOUS
<1>2. T # {}
  <2>1. PICK s \in S : TRUE
    OBVIOUS
  <2>2. n - s \in T
    OBVIOUS
  <2>. QED BY <2>2
<1>3. PICK t \in T : \A y \in T : t <= y
  BY <1>1, <1>2, LeastNatural
<1>4. PICK m \in S : t = n - m
  OBVIOUS
<1>5. \A y \in S : m >= y
  BY <1>3, <1>4
<1>6. Max(S) \in S /\ \A y \in S : Max(S) >= y
  BY <1>4, <1>5 DEF Max
<1>. QED BY <1>6

\* get_version returns the newest version no later than the snapshot: one that
\* is in the table (0 stands for none), and none in the table is between.
LEMMA ReadTsFinds ==
  ASSUME mvcc \subseteq Key \X (1 .. MaxTs), NEW k \in Key, NEW ts \in Nat
  PROVE  /\ ReadTs(k, ts) \in 0 .. MaxTs
         /\ ReadTs(k, ts) <= ts
         /\ ReadTs(k, ts) = 0 \/ <<k, ReadTs(k, ts)>> \in mvcc
         /\ \A v \in mvcc : v[1] = k /\ v[2] <= ts => v[2] <= ReadTs(k, ts)
<1> DEFINE W == {w \in mvcc : w[1] = k /\ w[2] <= ts}
           S == {0} \cup {v[2] : v \in W}
<1>1. S \subseteq 0 .. MaxTs /\ S # {}
  BY TxnAssumption
<1>2. Max(S) \in S /\ \A y \in S : y <= Max(S)
  <2> HIDE DEF S
  <2>. QED BY <1>1, MaxIsGreatest, TxnAssumption
<1>3. ReadTs(k, ts) = Max(S)
  BY DEF ReadTs
<1> DEFINE m == Max(S)
<1>4. m \in S /\ \A y \in S : y <= m
  BY <1>2
<1> HIDE DEF m
<1>5. m = 0 \/ \E w \in W : m = w[2]
  BY <1>4
<1>6. m = 0 \/ (m <= ts /\ <<k, m>> \in mvcc)
  BY <1>5
<1>7. \A v \in mvcc : v[1] = k /\ v[2] <= ts => v[2] <= m
  BY <1>4
<1>8. m \in 0 .. MaxTs
  BY <1>1, <1>4
<1>. QED BY <1>3, <1>6, <1>7, <1>8 DEF m

-----------------------------------------------------------------------------
(* Types *)

\* The steps of a call that work on the transaction in call.id.
OnTxn == {"session", "track", "note", "read", "stamp", "durable", "register",
          "purge", "remove", "close", "discard", "forget"}

Calls == [id : 0 .. MaxTxn, keys : SUBSET Key, ts : 0 .. MaxTs,
          writers : SUBSET Ids, retain : -1 .. MaxTs]

\* The calls under way: what they hold ends up in the tables.
Placed ==
  /\ pc \in [Client -> OnTxn \cup {"idle", "begin", "collect"}]
  /\ call \in [Client -> Calls]
  /\ \A c \in Client : pc[c] \in OnTxn => call[c].id \in Ids
  /\ \A c \in Client : pc[c] = "durable" => call[c].ts \in 1 .. MaxTs

Typed == TypeOK /\ Placed

LEMMA AgedTyped ==
  ASSUME NEW t \in Transaction
  PROVE  [t EXCEPT !.aged = TRUE] \in Transaction
BY Zenon DEF Transaction

LEMMA CallTyped ==
  ASSUME NEW d \in Calls, NEW k \in Key, NEW i \in 0 .. MaxTxn
  PROVE  /\ [d EXCEPT !.id = i, !.keys = {k}] \in Calls
         /\ [d EXCEPT !.id = i, !.keys = {k}].id = i
BY DEF Calls

LEMMA NamedTyped ==
  ASSUME NEW d \in Calls, NEW i \in 0 .. MaxTxn
  PROVE  [d EXCEPT !.id = i] \in Calls /\ [d EXCEPT !.id = i].id = i
BY DEF Calls

LEMMA TimedTyped ==
  ASSUME NEW d \in Calls, NEW ks \in SUBSET Key, NEW t \in 0 .. MaxTs
  PROVE  [d EXCEPT !.ts = t, !.keys = ks] \in Calls
BY DEF Calls

LEMMA WritersTyped ==
  ASSUME NEW d \in Calls, NEW W \in SUBSET Ids
  PROVE  [d EXCEPT !.writers = W] \in Calls /\ [d EXCEPT !.writers = W].id = d.id
BY DEF Calls

LEMMA NoCallTyped == NoCall \in Calls
BY TxnAssumption DEF NoCall, Calls

\* A client goes to its next step and leaves the places of the others alone.
LEMMA PlaceKept ==
  ASSUME Placed, NEW c \in Client, NEW p \in OnTxn \cup {"idle", "begin", "collect"}, NEW x \in Calls,
         pc' = [pc EXCEPT ![c] = p], call' = [call EXCEPT ![c] = x],
         p \in OnTxn => x.id \in Ids, p = "durable" => x.ts \in 1 .. MaxTs
  PROVE  Placed'
<1>1. pc' \in [Client -> OnTxn \cup {"idle", "begin", "collect"}] /\ call' \in [Client -> Calls]
  BY DEF Placed
<1>2. pc'[c] = p /\ call'[c] = x /\ \A d \in Client \ {c} : pc'[d] = pc[d] /\ call'[d] = call[d]
  BY DEF Placed
<1>3. ASSUME NEW d \in Client
      PROVE  (pc'[d] \in OnTxn => call'[d].id \in Ids) /\ (pc'[d] = "durable" => call'[d].ts \in 1 .. MaxTs)
  <2>1. CASE d = c
    BY <1>2, <2>1
  <2>2. CASE d # c
    BY <1>2, <2>2 DEF Placed
  <2>. QED BY <2>1, <2>2
<1>. QED BY <1>1, <1>3 DEF Placed

\* The same when the call holds what it held.
LEMMA PlaceMoved ==
  ASSUME Placed, NEW c \in Client, NEW p \in OnTxn \ {"durable"}, pc[c] \in OnTxn,
         Go(c, p), call' = call
  PROVE  Placed'
<1>1. call[c] \in Calls /\ call[c].id \in Ids
  BY DEF Placed
<1>2. call' = [call EXCEPT ![c] = call[c]]
  BY DEF Placed
<1>. QED BY <1>1, <1>2, PlaceKept DEF Go

LEMMA PlaceLeft ==
  ASSUME Placed, NEW c \in Client, Return(c)
  PROVE  Placed'
<1>1. "idle" \notin OnTxn /\ "idle" # "durable"
  BY DEF OnTxn
<1>. QED BY <1>1, NoCallTyped, PlaceKept DEF Return, Go

LEMMA PlaceSame ==
  ASSUME Placed, UNCHANGED <<pc, call>>
  PROVE  Placed'
BY DEF Placed

LEMMA ActiveTyped ==
  ASSUME TypeOK, NEW i \in DOMAIN active, NEW t \in Transaction, active' = [active EXCEPT ![i] = t]
  PROVE  DOMAIN active' \subseteq Ids /\ \A j \in DOMAIN active' : active'[j] \in Transaction
BY DEF TypeOK

LEMMA RemovedTyped ==
  ASSUME TypeOK, NEW i, active' = Without(active, i)
  PROVE  DOMAIN active' \subseteq Ids /\ \A j \in DOMAIN active' : active'[j] \in Transaction
BY DEF TypeOK, Without

LEMMA PurgedTyped ==
  ASSUME TypeOK, NEW i, Purge(i)
  PROVE  rwEdges' \subseteq Ids \X Ids /\ writeKeys' \subseteq Ids \X Key
BY DEF TypeOK, Purge

LEMMA TypedInit == Init => Typed
<1> SUFFICES ASSUME Init PROVE Typed
  OBVIOUS
<1>1. Placed
  BY NoCallTyped DEF Init, Placed, OnTxn
<1>. QED BY <1>1, TxnAssumption DEF Init, Typed, TypeOK, Ids

LEMMA TypedNext == Typed /\ [Next]_vars => Typed'
<1> SUFFICES ASSUME Typed, [Next]_vars PROVE Typed'
  OBVIOUS
<1>0. /\ TypeOK /\ Placed /\ MaxTs \in Nat /\ MaxTxn \in Nat
      /\ \A c \in Client : call[c] \in Calls
  BY TxnAssumption DEF Typed, Placed
<1> USE <1>0 DEF tables
<1>1. ASSUME NEW c \in Client, BeginCheck(c) PROVE Typed'
  <2>1. call' = [call EXCEPT ![c] = call[c]] /\ pc' = [pc EXCEPT ![c] = "begin"]
    BY <1>1 DEF BeginCheck, Go, Placed
  <2>2. Placed'
    BY <2>1, PlaceKept DEF OnTxn
  <2>. QED BY <1>1, <2>2 DEF BeginCheck, Typed, TypeOK
<1>2. ASSUME NEW c \in Client, BeginStamp(c) PROVE Typed'
  <2> DEFINE t == NewTxn(last')
  <2>1. /\ last' \in 0 .. MaxTs /\ nextId \in Ids /\ nextId' = nextId + 1 /\ nextId' \in 1 .. MaxTxn + 1
        /\ active' = With(active, nextId, t)
    BY <1>2 DEF BeginStamp, TypeOK, Ids
  <2>2. ASSUME NEW k \in Key PROVE ReadTs(k, last) \in 0 .. MaxTs
    <3>1. last \in Nat /\ mvcc \subseteq Key \X (1 .. MaxTs)
      BY DEF TypeOK
    <3>. QED BY ONLY <3>1, k \in Key, ReadTsFinds
  <2>3. t \in Transaction
    <3>1. Pending \subseteq 1 .. MaxTs
      BY DEF Pending, Placed
    <3>. QED BY <2>1, <2>2, <3>1 DEF NewTxn, Transaction
  <2> HIDE DEF t
  <2>4. DOMAIN active' \subseteq Ids /\ \A j \in DOMAIN active' : active'[j] \in Transaction
    BY <2>1, <2>3 DEF With, TypeOK
  <2>5. Placed'
    <3>1. nextId \in 0 .. MaxTxn
      BY <2>1 DEF Ids
    <3>2. /\ call' = [call EXCEPT ![c] = [call[c] EXCEPT !.id = nextId]]
          /\ pc' = [pc EXCEPT ![c] = "session"]
      BY <1>2 DEF BeginStamp, Go
    <3>3. [call[c] EXCEPT !.id = nextId] \in Calls /\ [call[c] EXCEPT !.id = nextId].id \in Ids
      BY <2>1, <3>1, NamedTyped
    <3>. QED BY <3>2, <3>3, PlaceKept DEF OnTxn
  <2>. QED BY <1>2, <2>1, <2>4, <2>5 DEF BeginStamp, Typed, TypeOK
<1>3. ASSUME NEW c \in Client, BeginSession(c) PROVE Typed'
  <2>1. call[c].id \in Ids
    BY <1>3 DEF BeginSession, Placed, OnTxn
  <2>2. sessions' \in [Session -> Ids \cup {0}]
    BY <1>3, <2>1 DEF BeginSession, TypeOK
  <2>3. Placed'
    BY <1>3, PlaceLeft DEF BeginSession
  <2>. QED BY <1>3, <2>2, <2>3 DEF BeginSession, Typed, TypeOK
<1>4. ASSUME NEW c \in Client, NEW k \in Key, Stage(c, k) PROVE Typed'
  <2> DEFINE t == [active[Current(c)] EXCEPT !.writes = @ \cup {k}]
  <2>1. Current(c) \in DOMAIN active
    BY <1>4 DEF Stage, InTxn
  <2>2. t \in Transaction
    BY <2>1 DEF Transaction, TypeOK
  <2>3. active' = [active EXCEPT ![Current(c)] = t]
    BY <1>4 DEF Stage
  <2> HIDE DEF t
  <2>4. DOMAIN active' \subseteq Ids /\ \A j \in DOMAIN active' : active'[j] \in Transaction
    BY <2>1, <2>2, <2>3, ActiveTyped
  <2>5. Placed'
    BY <1>4, PlaceSame DEF Stage
  <2>. QED BY <1>4, <2>4, <2>5 DEF Stage, Typed, TypeOK
<1>5. ASSUME NEW c \in Client, NEW k \in Key, GetRecord(c, k) PROVE Typed'
  <2> DEFINE t == [active[Current(c)] EXCEPT !.reads = @ \cup {k}]
             x == [call[c] EXCEPT !.id = Current(c), !.keys = {k}]
  <2>1. Current(c) \in DOMAIN active
    BY <1>5 DEF GetRecord, InTxn
  <2>2. t \in Transaction
    BY <2>1 DEF Transaction, TypeOK
  <2>3. active' = [active EXCEPT ![Current(c)] = t]
    BY <1>5 DEF GetRecord
  <2>4. call' = [call EXCEPT ![c] = x] /\ pc' = [pc EXCEPT ![c] = "track"]
    BY <1>5 DEF GetRecord, Go
  <2>5. x \in Calls /\ x.id \in Ids
    <3>1. Current(c) \in Ids /\ Current(c) \in 0 .. MaxTxn
      BY <2>1 DEF TypeOK, Ids
    <3>2. call[c] \in Calls
      OBVIOUS
    <3>. QED BY ONLY <3>1, <3>2, k \in Key, CallTyped
  <2> HIDE DEF t, x
  <2>6. DOMAIN active' \subseteq Ids /\ \A j \in DOMAIN active' : active'[j] \in Transaction
    BY <2>1, <2>2, <2>3, ActiveTyped
  <2>7. Placed'
    BY <2>4, <2>5, PlaceKept DEF OnTxn
  <2>. QED BY <1>5, <2>6, <2>7 DEF GetRecord, Typed, TypeOK
<1>6. ASSUME NEW c \in Client, GetTrack(c) PROVE Typed'
  <2> DEFINE W == {i \in DOMAIN active \ {call[c].id} : call[c].keys \subseteq active[i].writes}
  <2>1. W \in SUBSET Ids /\ call[c].id \in Ids
    BY <1>6 DEF GetTrack, TypeOK, Placed, OnTxn
  <2>2. call' = [call EXCEPT ![c] = [call[c] EXCEPT !.writers = W]] /\ pc' = [pc EXCEPT ![c] = "note"]
    BY <1>6 DEF GetTrack, Go
  <2> HIDE DEF W
  <2>3. Placed'
    BY <2>1, <2>2, WritersTyped, PlaceKept DEF OnTxn
  <2>. QED BY <1>6, <2>3 DEF GetTrack, Typed, TypeOK
<1>7. ASSUME NEW c \in Client, NoteRwDependency(c) PROVE Typed'
  <2>1. call[c].id \in Ids /\ call[c].writers \subseteq Ids
    BY <1>7 DEF NoteRwDependency, Placed, OnTxn, Calls
  <2>2. rwEdges' \subseteq Ids \X Ids
    BY <1>7, <2>1 DEF NoteRwDependency, TypeOK
  <2>3. Placed'
    BY <1>7, PlaceMoved DEF NoteRwDependency, OnTxn
  <2>. QED BY <1>7, <2>2, <2>3 DEF NoteRwDependency, Typed, TypeOK
<1>8. ASSUME NEW c \in Client, GetRead(c) PROVE Typed'
  <2>0. Placed'
    BY <1>8, PlaceLeft DEF GetRead
  <2>1. CASE ~InTxn(c) \/ call[c].keys \subseteq active[Current(c)].writes
    BY <1>8, <2>0, <2>1 DEF GetRead, Typed, TypeOK
  <2>2. CASE ~(~InTxn(c) \/ call[c].keys \subseteq active[Current(c)].writes)
    <3> DEFINE s == active[Current(c)].start
               new == {[key |-> k, ts |-> ReadTs(k, s)] : k \in call[c].keys}
               t == [active[Current(c)] EXCEPT !.found = @ \cup new]
    <3>1. Current(c) \in DOMAIN active /\ active[Current(c)] \in Transaction
      BY <2>2 DEF InTxn, TypeOK
    <3>2. s \in Nat /\ call[c].keys \subseteq Key
      BY <3>1 DEF Transaction, Calls
    <3>3. \A k \in Key : ReadTs(k, s) \in 0 .. MaxTs
      <4>1. mvcc \subseteq Key \X (1 .. MaxTs)
        BY DEF TypeOK
      <4>. QED BY ONLY <3>2, <4>1, ReadTsFinds
    <3>4. active' = [active EXCEPT ![Current(c)] = t]
      BY <1>8, <2>2 DEF GetRead
    <3>5. new \subseteq [key : Key, ts : 0 .. MaxTs]
      BY <3>2, <3>3
    <3> HIDE DEF new
    <3>6. t \in Transaction
      BY <3>1, <3>5 DEF Transaction
    <3> HIDE DEF t
    <3>7. DOMAIN active' \subseteq Ids /\ \A j \in DOMAIN active' : active'[j] \in Transaction
      BY <3>1, <3>4, <3>6, ActiveTyped
    <3>. QED BY <1>8, <2>0, <3>7 DEF GetRead, Typed, TypeOK
  <2>. QED BY <2>1, <2>2
<1>9. ASSUME NEW c \in Client, CommitRefuse(c) PROVE Typed'
  <2>1. UNCHANGED vars
    BY <1>9, Zenon DEF CommitRefuse
  <2>2. Placed'
    BY <2>1, PlaceSame DEF vars
  <2>. QED BY <2>1, <2>2 DEF vars, Typed, TypeOK
<1>10. ASSUME NEW c \in Client, CommitCheck(c) PROVE Typed'
  <2>1. Current(c) \in Ids /\ Current(c) \in 0 .. MaxTxn
    BY <1>10 DEF CommitCheck, InTxn, TypeOK, Ids
  <2>2. call' = [call EXCEPT ![c] = [call[c] EXCEPT !.id = Current(c)]] /\ pc' = [pc EXCEPT ![c] = "stamp"]
    BY <1>10 DEF CommitCheck, Go
  <2>3. Placed'
    <3>1. [call[c] EXCEPT !.id = Current(c)] \in Calls /\ [call[c] EXCEPT !.id = Current(c)].id \in Ids
      BY <2>1, NamedTyped
    <3>. QED BY <2>2, <3>1, PlaceKept DEF OnTxn
  <2>. QED BY <1>10, <2>3 DEF CommitCheck, Typed, TypeOK
<1>11. ASSUME NEW c \in Client, CommitStamp(c) PROVE Typed'
  <2>1. CASE call[c].id \notin DOMAIN active
    <3>1. Placed'
      BY <1>11, <2>1, PlaceLeft DEF CommitStamp
    <3>. QED BY <1>11, <2>1, <3>1 DEF CommitStamp, Typed, TypeOK
  <2>2. CASE call[c].id \in DOMAIN active
    <3> DEFINE x == [call[c] EXCEPT !.ts = last', !.keys = active[call[c].id].writes]
    <3>1. active[call[c].id].writes \in SUBSET Key /\ call[c].id \in Ids
      BY <2>2 DEF Transaction, TypeOK
    <3>2. last' \in 1 .. MaxTs /\ last' \in 0 .. MaxTs
      BY <1>11, <2>2 DEF CommitStamp, TypeOK
    <3>3. call' = [call EXCEPT ![c] = x] /\ pc' = [pc EXCEPT ![c] = "durable"]
      BY <1>11, <2>2 DEF CommitStamp, Go
    <3>4. x \in Calls
      BY <3>1, <3>2, TimedTyped
    <3>5. x.ts = last' /\ x.id = call[c].id
      BY DEF Calls
    <3> HIDE DEF x
    <3>6. Placed'
      BY <3>1, <3>2, <3>3, <3>4, <3>5, PlaceKept DEF OnTxn
    <3>. QED BY <1>11, <3>2, <3>6 DEF CommitStamp, Typed, TypeOK
  <2>. QED BY <2>1, <2>2
<1>12. ASSUME NEW c \in Client, DurableFails(c) PROVE Typed'
  <2>1. Placed'
    BY <1>12, PlaceLeft DEF DurableFails
  <2>. QED BY <1>12, <2>1 DEF DurableFails, Typed, TypeOK
<1>13. ASSUME NEW c \in Client, Install(c) PROVE Typed'
  <2>1. call[c].ts \in 1 .. MaxTs /\ call[c].keys \subseteq Key
    BY <1>13 DEF Install, Placed, Calls
  <2>2. mvcc' \subseteq Key \X (1 .. MaxTs)
    BY <1>13, <2>1 DEF Install, TypeOK
  <2>3. Placed'
    BY <1>13, PlaceMoved DEF Install, OnTxn
  <2>. QED BY <1>13, <2>2, <2>3 DEF Install, Typed, TypeOK
<1>14. ASSUME NEW c \in Client, RegisterCommit(c) PROVE Typed'
  <2>1. call[c].id \in Ids /\ call[c].keys \subseteq Key
    BY <1>14 DEF RegisterCommit, Placed, OnTxn, Calls
  <2>2. writeKeys' \subseteq Ids \X Key
    BY <1>14, <2>1 DEF RegisterCommit, TypeOK
  <2>3. Placed'
    BY <1>14, PlaceMoved DEF RegisterCommit, OnTxn
  <2>. QED BY <1>14, <2>2, <2>3 DEF RegisterCommit, Typed, TypeOK
<1>15. ASSUME NEW c \in Client, CommitPurge(c) \/ RollbackPurge(c) PROVE Typed'
  <2>1. rwEdges' \subseteq Ids \X Ids /\ writeKeys' \subseteq Ids \X Key
    BY <1>15, PurgedTyped DEF CommitPurge, RollbackPurge
  <2>2. Placed'
    BY <1>15, PlaceMoved DEF CommitPurge, RollbackPurge, OnTxn
  <2>. QED BY <1>15, <2>1, <2>2 DEF CommitPurge, RollbackPurge, Typed, TypeOK
<1>16. ASSUME NEW c \in Client, CommitRemove(c) PROVE Typed'
  <2>1. DOMAIN active' \subseteq Ids /\ \A j \in DOMAIN active' : active'[j] \in Transaction
    BY <1>16, RemovedTyped DEF CommitRemove
  <2>2. Placed'
    BY <1>16, PlaceMoved DEF CommitRemove, OnTxn
  <2>. QED BY <1>16, <2>1, <2>2 DEF CommitRemove, Typed, TypeOK
<1>17. ASSUME NEW c \in Client, CommitClose(c) PROVE Typed'
  <2>1. sessions' \in [Session -> Ids \cup {0}]
    BY <1>17 DEF CommitClose, TypeOK
  <2>2. CASE GcCalls
    <3>1. [NoCall EXCEPT !.retain = last - 1] \in Calls
      BY DEF NoCall, Calls, TypeOK
    <3>2. Placed'
      BY <1>17, <2>2, <3>1, PlaceKept DEF CommitClose, Go, OnTxn
    <3>. QED BY <1>17, <2>1, <3>2 DEF CommitClose, Typed, TypeOK
  <2>3. CASE ~GcCalls
    <3>1. Placed'
      BY <1>17, <2>3, PlaceLeft DEF CommitClose
    <3>. QED BY <1>17, <2>1, <3>1 DEF CommitClose, Typed, TypeOK
  <2>. QED BY <2>2, <2>3
<1>18. ASSUME NEW c \in Client, Gc(c) PROVE Typed'
  <2>1. Placed'
    BY <1>18, PlaceLeft DEF Gc
  <2>2. mvcc' \subseteq Key \X (1 .. MaxTs)
    BY <1>18 DEF Gc, TypeOK
  <2>. QED BY <1>18, <2>1, <2>2 DEF Gc, Typed, TypeOK
<1>19. ASSUME NEW c \in Client, RollbackDetach(c) PROVE Typed'
  <2>1. Current(c) \in Ids /\ Current(c) \in 0 .. MaxTxn /\ sessions' \in [Session -> Ids \cup {0}]
    BY <1>19, TxnAssumption DEF RollbackDetach, Current, TypeOK, Ids
  <2>2. call' = [call EXCEPT ![c] = [call[c] EXCEPT !.id = Current(c)]] /\ pc' = [pc EXCEPT ![c] = "discard"]
    BY <1>19 DEF RollbackDetach, Go
  <2>3. Placed'
    <3>1. [call[c] EXCEPT !.id = Current(c)] \in Calls /\ [call[c] EXCEPT !.id = Current(c)].id \in Ids
      BY <2>1, NamedTyped
    <3>. QED BY <2>2, <3>1, PlaceKept DEF OnTxn
  <2>. QED BY <1>19, <2>1, <2>3 DEF RollbackDetach, Typed, TypeOK
<1>20. ASSUME NEW c \in Client, RollbackRemove(c) PROVE Typed'
  <2>1. DOMAIN active' \subseteq Ids /\ \A j \in DOMAIN active' : active'[j] \in Transaction
    BY <1>20, RemovedTyped DEF RollbackRemove
  <2>2. Placed'
    BY <1>20, PlaceLeft DEF RollbackRemove
  <2>. QED BY <1>20, <2>1, <2>2 DEF RollbackRemove, Typed, TypeOK
<1>21. ASSUME NEW i \in DOMAIN active, Age(i) PROVE Typed'
  <2> DEFINE t == [active[i] EXCEPT !.aged = TRUE]
  <2>1. t \in Transaction
    BY AgedTyped DEF TypeOK
  <2>2. active' = [active EXCEPT ![i] = t]
    BY <1>21 DEF Age
  <2> HIDE DEF t
  <2>3. DOMAIN active' \subseteq Ids /\ \A j \in DOMAIN active' : active'[j] \in Transaction
    BY <2>1, <2>2, ActiveTyped
  <2>4. Placed'
    BY <1>21, PlaceSame DEF Age
  <2>. QED BY <1>21, <2>3, <2>4 DEF Age, Typed, TypeOK
<1>22. ASSUME UNCHANGED vars PROVE Typed'
  <2>1. Placed'
    BY <1>22, PlaceSame DEF vars
  <2>. QED BY <1>22, <2>1 DEF vars, Typed, TypeOK
<1>. QED
  BY ONLY [Next]_vars, <1>1, <1>2, <1>3, <1>4, <1>5, <1>6, <1>7, <1>8, <1>9, <1>10, <1>11, <1>12, <1>13,
     <1>14, <1>15, <1>16, <1>17, <1>18, <1>19, <1>20, <1>21, <1>22
     DEF Next, Begin, Get, Commit, Rollback

-----------------------------------------------------------------------------
(* Timestamps and snapshots *)

\* The counters only count up: an id or a timestamp about to be drawn is above
\* all that are in use.
Stamped ==
  /\ DOMAIN active \subseteq 1 .. nextId - 1
  /\ \A i \in DOMAIN active : active[i].start \in 1 .. last
  /\ \A v \in mvcc : v[2] <= last
  /\ \A c \in Client : call[c].ts <= last
  /\ StampsDistinct

\* What a snapshot can see in the table it had at begin, or it is of a commit
\* that was under way then; and every commit that is still to install versions
\* the snapshot will see was.
Covered(i) ==
  /\ \A v \in mvcc : v[2] <= active[i].start =>
       v[2] <= active[i].floor[v[1]] \/ v[2] \in active[i].pending
  /\ \A c \in Client : pc[c] = "durable" /\ call[c].ts <= active[i].start =>
       call[c].ts \in active[i].pending

Snapshots == GainsOnlyPending /\ \A i \in DOMAIN active : Covered(i)

\* A step that draws no timestamp, reads nothing and leaves the versions alone.
Quiet ==
  /\ last' = last /\ nextId' = nextId /\ mvcc' = mvcc
  /\ DOMAIN active' \subseteq DOMAIN active
  /\ \A i \in DOMAIN active' :
       /\ active'[i].start = active[i].start /\ active'[i].floor = active[i].floor
       /\ active'[i].pending = active[i].pending /\ active'[i].found = active[i].found
  /\ \A c \in Client :
       /\ call'[c].ts \in {0, call[c].ts}
       /\ pc'[c] = "durable" => pc[c] = "durable" /\ call'[c].ts = call[c].ts

LEMMA QuietKeeps ==
  ASSUME Typed, Stamped, Snapshots, Quiet
  PROVE  Stamped' /\ Snapshots'
<1>1. Stamped'
  <2>1. last \in Nat /\ \A c \in Client : call[c].ts \in Nat
    BY DEF Typed, Placed, TypeOK, Calls
  <2>2. /\ DOMAIN active' \subseteq 1 .. nextId' - 1
        /\ \A i \in DOMAIN active' : active'[i].start \in 1 .. last'
        /\ \A v \in mvcc' : v[2] <= last'
    BY DEF Stamped, Quiet
  <2>3. \A c \in Client : call'[c].ts <= last'
    BY <2>1 DEF Stamped, Quiet
  <2>4. StampsDistinct'
    BY DEF Stamped, StampsDistinct, Quiet
  <2>. QED BY ONLY <2>2, <2>3, <2>4 DEF Stamped
<1>2. Snapshots'
  BY DEF Snapshots, GainsOnlyPending, Covered, Quiet
<1>. QED BY <1>1, <1>2

LEMMA QuietSteps ==
  ASSUME Typed
  PROVE  /\ \A c \in Client :
              \/ BeginCheck(c) \/ BeginSession(c) \/ (\E k \in Key : Stage(c, k) \/ GetRecord(c, k))
              \/ GetTrack(c) \/ NoteRwDependency(c) \/ CommitRefuse(c) \/ CommitCheck(c)
              \/ DurableFails(c) \/ RegisterCommit(c) \/ CommitPurge(c) \/ CommitRemove(c)
              \/ CommitClose(c) \/ Rollback(c)
              => Quiet
         /\ (\E i \in DOMAIN active : Age(i)) => Quiet
         /\ UNCHANGED vars => Quiet
<1> USE DEF Typed, Placed, TypeOK, Quiet, tables, Go
<1>1. ASSUME NEW c \in Client, BeginCheck(c) PROVE Quiet
  BY <1>1 DEF BeginCheck
<1>2. ASSUME NEW c \in Client, BeginSession(c) PROVE Quiet
  BY <1>2 DEF BeginSession, Return, NoCall, Calls
<1>3. ASSUME NEW c \in Client, NEW k \in Key, Stage(c, k) PROVE Quiet
  BY <1>3 DEF Stage, Transaction, InTxn
<1>4. ASSUME NEW c \in Client, NEW k \in Key, GetRecord(c, k) PROVE Quiet
  BY <1>4 DEF GetRecord, Transaction, InTxn, Calls
<1>5. ASSUME NEW c \in Client, GetTrack(c) PROVE Quiet
  BY <1>5 DEF GetTrack, Calls
<1>6. ASSUME NEW c \in Client, NoteRwDependency(c) PROVE Quiet
  BY <1>6 DEF NoteRwDependency
<1>7. ASSUME NEW c \in Client, CommitRefuse(c) PROVE Quiet
  <2>1. UNCHANGED vars
    BY <1>7, Zenon DEF CommitRefuse
  <2>. QED BY <2>1 DEF vars
<1>8. ASSUME NEW c \in Client, CommitCheck(c) PROVE Quiet
  BY <1>8 DEF CommitCheck, Calls
<1>9. ASSUME NEW c \in Client, DurableFails(c) PROVE Quiet
  BY <1>9 DEF DurableFails, Return, NoCall, Calls
<1>10. ASSUME NEW c \in Client, RegisterCommit(c) PROVE Quiet
  BY <1>10 DEF RegisterCommit
<1>11. ASSUME NEW c \in Client, CommitPurge(c) PROVE Quiet
  BY <1>11 DEF CommitPurge
<1>12. ASSUME NEW c \in Client, CommitRemove(c) PROVE Quiet
  BY <1>12 DEF CommitRemove, Without
<1>13. ASSUME NEW c \in Client, CommitClose(c) PROVE Quiet
  BY <1>13 DEF CommitClose, Return, NoCall, Calls
<1>14. ASSUME NEW c \in Client, RollbackDetach(c) PROVE Quiet
  BY <1>14 DEF RollbackDetach, Calls
<1>15. ASSUME NEW c \in Client, RollbackPurge(c) PROVE Quiet
  BY <1>15 DEF RollbackPurge
<1>16. ASSUME NEW c \in Client, RollbackRemove(c) PROVE Quiet
  BY <1>16 DEF RollbackRemove, Return, NoCall, Calls, Without
<1>17. ASSUME NEW i \in DOMAIN active, Age(i) PROVE Quiet
  BY <1>17 DEF Age, Transaction
<1>18. ASSUME UNCHANGED vars PROVE Quiet
  BY <1>18 DEF vars
<1>. QED
  BY ONLY <1>1, <1>2, <1>3, <1>4, <1>5, <1>6, <1>7, <1>8, <1>9, <1>10, <1>11, <1>12,
     <1>13, <1>14, <1>15, <1>16, <1>17, <1>18 DEF Rollback

LEMMA BeginStampKeeps ==
  ASSUME Typed, Stamped, Snapshots, NEW c \in Client, BeginStamp(c)
  PROVE  Stamped' /\ Snapshots'
<1> DEFINE t == NewTxn(last')
<1>1. /\ last' = last + 1 /\ nextId' = nextId + 1 /\ mvcc' = mvcc
      /\ active' = With(active, nextId, t)
      /\ \A d \in Client : call'[d].ts = call[d].ts /\ (pc'[d] = "durable" => pc[d] = "durable")
  BY DEF BeginStamp, Go, Typed, Placed, Calls
<1>2. last \in Nat /\ nextId \in Nat /\ mvcc \subseteq Key \X (1 .. MaxTs)
  BY DEF Typed, Placed, TypeOK
<1>3. /\ t.start = last + 1 /\ t.found = {} /\ t.pending = Pending
      /\ t.floor = [k \in Key |-> ReadTs(k, last)]
  BY <1>1 DEF NewTxn
<1>4. ASSUME NEW v \in mvcc PROVE v[2] <= t.floor[v[1]]
  <2>1. v[1] \in Key /\ v[2] <= last
    BY <1>2 DEF Stamped
  <2>2. \A w \in mvcc : w[1] = v[1] /\ w[2] <= last => w[2] <= ReadTs(v[1], last)
    BY ONLY <1>2, <2>1, ReadTsFinds
  <2>. QED BY <1>3, <2>1, <2>2
<1> HIDE DEF t
<1>5. /\ DOMAIN active' = DOMAIN active \cup {nextId} /\ nextId \notin DOMAIN active
      /\ active'[nextId] = t
      /\ \A i \in DOMAIN active : active'[i] = active[i]
  BY <1>1, <1>2 DEF With, Stamped
<1>6. Stamped'
  <2>1. \A d \in Client : call[d].ts \in Nat
    BY DEF Typed, Placed, Calls
  <2>2. \A v \in mvcc : v[2] \in Nat
    BY <1>2
  <2>3. StampsDistinct'
    BY <1>1, <1>2, <1>3, <1>5, <2>1, <2>2 DEF Stamped, StampsDistinct
  <2>4. DOMAIN active' \subseteq 1 .. nextId' - 1
    <3>1. DOMAIN active \subseteq 1 .. nextId - 1 /\ nextId \in Nat \ {0}
      BY DEF Stamped, Typed, Placed, TypeOK
    <3>. QED BY ONLY <1>1, <1>5, <3>1
  <2>5. \A i \in DOMAIN active' : active'[i].start \in 1 .. last'
    <3>1. \A i \in DOMAIN active : active[i].start \in 1 .. last
      BY DEF Stamped
    <3>. QED BY ONLY <1>1, <1>2, <1>3, <1>5, <3>1
  <2>. QED BY <1>1, <1>2, <2>1, <2>2, <2>3, <2>4, <2>5 DEF Stamped
<1>7. Snapshots'
  <2>1. GainsOnlyPending'
    BY <1>1, <1>3, <1>5 DEF Snapshots, GainsOnlyPending
  <2>2. ASSUME NEW i \in DOMAIN active' PROVE Covered(i)'
    <3>1. CASE i = nextId
      <4>1. \A v \in mvcc' : v[2] <= active'[i].floor[v[1]]
        BY ONLY <1>1, <1>4, <1>5, <3>1
      <4>2. \A d \in Client : pc'[d] = "durable" => call'[d].ts \in active'[i].pending
        BY ONLY <1>1, <1>3, <1>5, <3>1 DEF Pending
      <4>. QED BY ONLY <4>1, <4>2 DEF Covered
    <3>2. CASE i \in DOMAIN active
      <4>1. Covered(i) /\ active'[i] = active[i]
        BY <1>5, <3>2 DEF Snapshots
      <4>. QED BY ONLY <1>1, <4>1 DEF Covered
    <3>. QED BY <1>5, <3>1, <3>2
  <2>. QED BY ONLY <2>1, <2>2 DEF Snapshots
<1>. QED BY <1>6, <1>7

LEMMA GetReadKeeps ==
  ASSUME Typed, Stamped, Snapshots, NEW c \in Client, GetRead(c)
  PROVE  Stamped' /\ Snapshots'
<1>1. /\ last' = last /\ nextId' = nextId /\ mvcc' = mvcc
      /\ \A d \in Client : /\ call'[d].ts \in {0, call[d].ts}
                           /\ pc'[d] = "durable" => pc[d] = "durable" /\ call'[d].ts = call[d].ts
  BY DEF GetRead, Return, Go, NoCall, Typed, Placed
<1>2. CASE ~InTxn(c) \/ call[c].keys \subseteq active[Current(c)].writes
  <2>1. Quiet
    BY <1>1, <1>2 DEF Quiet, GetRead
  <2>. QED BY <2>1, QuietKeeps
<1>3. CASE ~(~InTxn(c) \/ call[c].keys \subseteq active[Current(c)].writes)
  <2> DEFINE i == Current(c)
             s == active[i].start
             new == {[key |-> k, ts |-> ReadTs(k, s)] : k \in call[c].keys}
  <2>1. i \in DOMAIN active /\ active[i] \in Transaction /\ call[c].keys \subseteq Key
    BY <1>3 DEF InTxn, Typed, Placed, TypeOK, Calls
  <2>2. active' = [active EXCEPT ![i] = [active[i] EXCEPT !.found = @ \cup new]]
    BY <1>3 DEF GetRead
  <2> HIDE DEF i, new
  <2>3. /\ DOMAIN active' = DOMAIN active
        /\ \A j \in DOMAIN active : /\ active'[j].start = active[j].start /\ active'[j].floor = active[j].floor
                                    /\ active'[j].pending = active[j].pending
        /\ \A j \in DOMAIN active \ {i} : active'[j].found = active[j].found
        /\ active'[i].found = active[i].found \cup new
    BY <2>1, <2>2 DEF Transaction
  <2>4. Stamped'
    BY <1>1, <2>3 DEF Stamped, StampsDistinct, Typed, Placed, TypeOK, Calls
  <2>5. ASSUME NEW r \in new, r.ts > active[i].floor[r.key] PROVE r.ts \in active[i].pending
    <3>1. PICK k \in Key : r = [key |-> k, ts |-> ReadTs(k, s)]
      BY <2>1, <2>5 DEF new
    <3>2. s \in Nat /\ active[i].floor[k] \in Nat /\ mvcc \subseteq Key \X (1 .. MaxTs)
      BY <2>1 DEF Transaction, Typed, Placed, TypeOK
    <3>3. /\ ReadTs(k, s) \in 0 .. MaxTs /\ ReadTs(k, s) <= s
          /\ ReadTs(k, s) = 0 \/ <<k, ReadTs(k, s)>> \in mvcc
      <4> HIDE DEF s
      <4>. QED BY ONLY <3>2, k \in Key, ReadTsFinds
    <3>4. Covered(i)
      BY <2>1 DEF Snapshots
    <3>5. r.ts = ReadTs(k, s) /\ r.key = k
      BY <3>1
    <3> DEFINE m == ReadTs(k, s)
    <3>6. m = 0 \/ m <= active[i].floor[k] \/ m \in active[i].pending
      <4>1. <<k, m>> \in mvcc => m <= active[i].floor[k] \/ m \in active[i].pending
        BY <3>3, <3>4 DEF Covered
      <4>. QED BY <3>3, <4>1
    <3> HIDE DEF m
    <3>7. m \in Nat /\ m > active[i].floor[k]
      BY <2>5, <3>3, <3>5 DEF m
    <3>. QED BY <3>2, <3>5, <3>6, <3>7 DEF m
  <2>6. Snapshots'
    <3>1. GainsOnlyPending'
      BY <2>1, <2>3, <2>5 DEF Snapshots, GainsOnlyPending
    <3>2. \A j \in DOMAIN active' : Covered(j)'
      BY ONLY <1>1, <2>3, Snapshots DEF Snapshots, Covered
    <3>. QED BY ONLY <3>1, <3>2 DEF Snapshots
  <2>. QED BY <2>4, <2>6
<1>. QED BY <1>2, <1>3

LEMMA CommitStampKeeps ==
  ASSUME Typed, Stamped, Snapshots, NEW c \in Client, CommitStamp(c)
  PROVE  Stamped' /\ Snapshots'
<1>1. CASE call[c].id \notin DOMAIN active
  <2>1. Quiet
    BY <1>1 DEF Quiet, CommitStamp, Return, Go, NoCall, Typed, Placed, tables
  <2>. QED BY <2>1, QuietKeeps
<1>2. CASE call[c].id \in DOMAIN active
  <2>1. /\ last' = last + 1 /\ UNCHANGED <<nextId, active, mvcc>>
        /\ call' = [call EXCEPT ![c] = [call[c] EXCEPT !.ts = last', !.keys = active[call[c].id].writes]]
        /\ pc' = [pc EXCEPT ![c] = "durable"]
    BY <1>2 DEF CommitStamp, Go, tables
  <2>2. /\ call'[c].ts = last + 1
        /\ \A d \in Client \ {c} : call'[d].ts = call[d].ts /\ pc'[d] = pc[d]
    BY <2>1 DEF Typed, Placed, Calls
  <2>3. last \in Nat /\ \A d \in Client : call[d].ts \in Nat
    BY DEF Typed, Placed, TypeOK, Calls
  <2>4. \A v \in mvcc : v[2] \in Nat
    BY DEF Typed, Placed, TypeOK
  <2>5. Stamped'
    BY <2>1, <2>2, <2>3, <2>4 DEF Stamped, StampsDistinct
  <2>6. ASSUME NEW i \in DOMAIN active PROVE Covered(i)'
    <3>1. Covered(i) /\ active[i].start \in 1 .. last
      BY DEF Snapshots, Stamped
    <3>2. ~(call'[c].ts <= active[i].start)
      BY ONLY <2>2, <2>3, <3>1
    <3>. QED BY ONLY <2>1, <2>2, <3>1, <3>2 DEF Covered
  <2>7. Snapshots'
    BY ONLY <2>1, <2>6, Snapshots DEF Snapshots, GainsOnlyPending
  <2>. QED BY <2>5, <2>7
<1>. QED BY <1>1, <1>2

LEMMA InstallKeeps ==
  ASSUME Typed, Stamped, Snapshots, NEW c \in Client, Install(c)
  PROVE  Stamped' /\ Snapshots'
<1>1. /\ UNCHANGED <<last, nextId, active, call>> /\ pc[c] = "durable"
      /\ mvcc' = mvcc \cup (call[c].keys \X {call[c].ts})
      /\ \A d \in Client : pc'[d] = "durable" => pc[d] = "durable"
  BY DEF Install, Go, Typed, Placed
<1>2. \A v \in mvcc' : v \in mvcc \/ v[2] = call[c].ts
  BY <1>1
<1>3. Stamped'
  BY <1>1, <1>2 DEF Stamped, StampsDistinct
<1>4. \A i \in DOMAIN active : Covered(i)'
  BY ONLY <1>1, <1>2, c \in Client, Snapshots DEF Snapshots, Covered
<1>5. Snapshots'
  BY ONLY <1>1, <1>4, Snapshots DEF Snapshots, GainsOnlyPending
<1>. QED BY <1>3, <1>5

LEMMA GcKeeps ==
  ASSUME Typed, Stamped, Snapshots, NEW c \in Client, Gc(c)
  PROVE  Stamped' /\ Snapshots'
<1>1. /\ UNCHANGED <<last, nextId, active>> /\ mvcc' \subseteq mvcc
      /\ \A d \in Client : /\ call'[d].ts \in {0, call[d].ts}
                           /\ pc'[d] = "durable" => pc[d] = "durable" /\ call'[d].ts = call[d].ts
  BY DEF Gc, Return, Go, NoCall, Typed, Placed
<1>2. Stamped'
  <2>1. last \in Nat /\ \A d \in Client : call[d].ts \in Nat
    BY DEF Typed, Placed, TypeOK, Calls
  <2>2. /\ DOMAIN active' \subseteq 1 .. nextId' - 1
        /\ \A i \in DOMAIN active' : active'[i].start \in 1 .. last'
        /\ \A v \in mvcc' : v[2] <= last'
    BY ONLY <1>1, Stamped DEF Stamped
  <2>3. \A d \in Client : call'[d].ts <= last'
    BY ONLY <1>1, <2>1, Stamped DEF Stamped
  <2>4. StampsDistinct'
    BY ONLY <1>1, Stamped DEF Stamped, StampsDistinct
  <2>. QED BY ONLY <2>2, <2>3, <2>4 DEF Stamped
<1>3. \A i \in DOMAIN active : Covered(i)'
  BY ONLY <1>1, Snapshots DEF Snapshots, Covered
<1>4. Snapshots'
  BY ONLY <1>1, <1>3, Snapshots DEF Snapshots, GainsOnlyPending
<1>. QED BY <1>2, <1>4

LEMMA SnapshotsInit == Init => Stamped /\ Snapshots
<1> SUFFICES ASSUME Init PROVE Stamped /\ Snapshots
  OBVIOUS
<1>1. DOMAIN active = {} /\ mvcc = {} /\ last = 0
  BY DEF Init
<1>2. \A c \in Client : call[c].ts = 0
  BY DEF Init, NoCall
<1>3. Stamped
  BY ONLY <1>1, <1>2 DEF Stamped, StampsDistinct
<1>4. Snapshots
  BY ONLY <1>1 DEF Snapshots, GainsOnlyPending
<1>. QED BY <1>3, <1>4

LEMMA SnapshotsNext == Typed /\ Stamped /\ Snapshots /\ [Next]_vars => Stamped' /\ Snapshots'
<1> SUFFICES ASSUME Typed, Stamped, Snapshots, [Next]_vars PROVE Stamped' /\ Snapshots'
  OBVIOUS
<1>1. \/ Quiet
      \/ \E c \in Client : BeginStamp(c) \/ GetRead(c) \/ CommitStamp(c) \/ Install(c) \/ Gc(c)
  BY QuietSteps DEF Next, Begin, Get, Commit
<1>. QED
  BY <1>1, QuietKeeps, BeginStampKeeps, GetReadKeeps, CommitStampKeeps, InstallKeeps, GcKeeps

\* TimestampOracle::next and the order of the steps of begin and commit keep
\* starts, commits and versions apart, however the calls interleave.
THEOREM OracleOrders == Spec => []StampsDistinct
<1>1. Stamped => StampsDistinct
  BY DEF Stamped
<1>. QED BY <1>1, TypedInit, TypedNext, SnapshotsInit, SnapshotsNext, PTL DEF Spec

\* However begin, get, commit and gc interleave, a snapshot gains no version but
\* those of commits that had drawn their commit_ts when it began.
THEOREM SnapshotsGainPending == Spec => []GainsOnlyPending
<1>1. Snapshots => GainsOnlyPending
  BY DEF Snapshots
<1>. QED BY <1>1, TypedInit, TypedNext, SnapshotsInit, SnapshotsNext, PTL DEF Spec
=============================================================================
