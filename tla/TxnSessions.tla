---------------------------- MODULE TxnSessions ----------------------------
(***************************************************************************)
(* Sessions, active transactions and the SSI tables, for any number of     *)
(* clients of which no two work for one session.                           *)
(***************************************************************************)
EXTENDS TxnProofs

-----------------------------------------------------------------------------
(* Sessions *)

\* Every client works for a session of its own.
OwnSessions == \A c, d \in Client : SessionOf[c] = SessionOf[d] => c = d

Detached == {"session", "discard", "forget"}

\* The transaction of a client: its session's, or the one its call has not yet
\* attached or has detached; 0 when it has none.
Holds(c) == IF pc[c] \in Detached THEN call[c].id ELSE Current(c)

Owners == {e[1] : e \in rwEdges} \cup {w[1] : w \in writeKeys}

\* Where client c is in its call says which transaction it holds: between calls
\* none or an active one, within a call the one the call works on.  What is
\* about to leave active is purged from the SSI tables.
Place(c) ==
  /\ pc[c] = "idle" => Holds(c) \in {0} \cup DOMAIN active
  /\ pc[c] \in {"begin", "collect"} => Holds(c) = 0
  /\ pc[c] \in Detached => Current(c) = 0
  /\ pc[c] \in OnTxn \ {"close"} => Holds(c) \in DOMAIN active
  /\ pc[c] = "close" => Holds(c) \notin DOMAIN active
  /\ pc[c] \in OnTxn \ Detached => call[c].id = Current(c)
  /\ pc[c] \in {"remove", "forget"} => Holds(c) \notin Owners

\* No two clients hold a transaction, every active one is held, and whoever owns
\* an edge or a key of the SSI tables is active.
Paired ==
  /\ \A c \in Client : Place(c) /\ Holds(c) < nextId
  /\ \A c, d \in Client : c # d => Holds(c) # Holds(d) \/ Holds(c) = 0
  /\ \A i \in DOMAIN active : \E c \in Client : Holds(c) = i
  /\ Owners \subseteq DOMAIN active

\* A step of client c: where it and its session end up, and what is active,
\* owned and drawn afterwards.
Step(c, p, i, s, act, own, n) ==
  /\ \A d \in Client \ {c} : pc'[d] = pc[d] /\ call'[d].id = call[d].id /\ Current(d)' = Current(d)
  /\ pc'[c] = p /\ call'[c].id = i /\ Current(c)' = s
  /\ DOMAIN active' = act /\ Owners' \subseteq own /\ nextId' = n

LEMMA PairedImplies == Typed /\ Paired => SessionsMatch /\ RivalsAreActive
<1> SUFFICES ASSUME Typed, Paired PROVE SessionsMatch /\ RivalsAreActive
  OBVIOUS
<1>1. ASSUME NEW i \in DOMAIN active
      PROVE  i \in {sessions[s] : s \in Session} \cup {call[c].id : c \in Client}
  <2>1. PICK c \in Client : Holds(c) = i
    BY DEF Paired
  <2>. QED BY <2>1, TxnAssumption DEF Holds, Current
<1>2. \A c \in Client : pc[c] = "idle" => Current(c) \in {0} \cup DOMAIN active
  BY DEF Paired, Place, Holds, Detached
<1>3. RivalsAreActive
  <2>1. \A e \in rwEdges : e[1] \in DOMAIN active
    BY DEF Paired, Owners
  <2>2. \A w \in writeKeys : w[1] \in DOMAIN active
    BY DEF Paired, Owners
  <2>. QED BY <2>1, <2>2 DEF RivalsAreActive
<1>. QED BY <1>1, <1>2, <1>3 DEF SessionsMatch

LEMMA PairedInit == Init => Paired
BY TxnAssumption DEF Init, Paired, Place, Holds, Current, Detached, OnTxn, Owners, NoCall

\* Only client c moves: it keeps what it holds or lets go of what is over, and
\* nobody else's transaction is removed or becomes an owner.
LEMMA StepKeeps ==
  ASSUME Typed, Paired, NEW c \in Client,
         \A d \in Client \ {c} : pc'[d] = pc[d] /\ call'[d].id = call[d].id /\ Current(d)' = Current(d),
         nextId' = nextId,
         DOMAIN active' \in {DOMAIN active, DOMAIN active \ {Holds(c)}},
         Holds(c)' = Holds(c) \/ (Holds(c)' = 0 /\ Holds(c) \notin DOMAIN active'),
         Owners' \subseteq Owners \cup {Holds(c)}, Owners' \subseteq DOMAIN active',
         Place(c)'
  PROVE  Paired'
<1>1. 0 \notin DOMAIN active /\ nextId \in Nat \ {0}
  <2>1. TypeOK
    BY ONLY Typed, Zenon DEF Typed
  <2>. QED BY ONLY <2>1 DEF TypeOK, Ids
<1>2. \A d \in Client \ {c} : Holds(d)' = Holds(d) /\ (Holds(d) # Holds(c) \/ Holds(d) = 0)
  BY DEF Paired, Holds
<1>3. ASSUME NEW d \in Client \ {c} PROVE Place(d)'
  <2>1. /\ pc'[d] = pc[d] /\ call'[d].id = call[d].id /\ Current(d)' = Current(d)
        /\ Holds(d)' = Holds(d) /\ Place(d)
    BY <1>2 DEF Paired
  <2>2. Holds(d) \in DOMAIN active => Holds(d) \in DOMAIN active'
    BY <1>1, <1>2
  <2>3. Holds(d) \in Owners' => Holds(d) \in Owners
    BY <1>1, <1>2
  <2>4. Holds(d) \in DOMAIN active' => Holds(d) \in DOMAIN active
    OBVIOUS
  <2>. QED BY ONLY <2>1, <2>2, <2>3, <2>4 DEF Place
<1>4. \A d \in Client : Holds(d)' < nextId'
  BY <1>1, <1>2 DEF Paired
<1>5. \A d, e \in Client : d # e => Holds(d)' # Holds(e)' \/ Holds(d)' = 0
  BY <1>2 DEF Paired
<1>6. ASSUME NEW i \in DOMAIN active' PROVE \E d \in Client : Holds(d)' = i
  <2>1. PICK d \in Client : Holds(d) = i
    BY DEF Paired
  <2>2. Holds(d)' = i
    BY <1>2, <2>1
  <2>. QED BY <2>2
<1>7. \A d \in Client : Place(d)'
  BY <1>3
<1>. QED BY ONLY <1>4, <1>5, <1>6, <1>7, Owners' \subseteq DOMAIN active' DEF Paired

LEMMA PairedNext ==
  ASSUME OwnSessions, Typed, Stamped, Paired, [Next]_vars
  PROVE  Paired'
<1>0. \A c \in Client : Place(c)
  BY DEF Paired
<1>1. ASSUME NEW c \in Client, BeginStamp(c) PROVE Paired'
  <2>1. Step(c, "session", nextId, Current(c), DOMAIN active \cup {nextId}, Owners, nextId + 1)
    BY <1>1, TxnAssumption DEF BeginStamp, Go, Calls, With, Step, Typed, Placed, TypeOK, Current, Owners, OwnSessions, tables
  <2>2. /\ Holds(c)' = nextId
        /\ \A d \in Client \ {c} : Holds(d)' = Holds(d)
    BY <1>1, <2>1 DEF BeginStamp, Step, Holds, Detached
  <2>3. /\ nextId \in Nat \ {0} /\ nextId' = nextId + 1
        /\ \A d \in Client : Holds(d) \in Nat /\ Holds(d) < nextId
        /\ Current(c)' = 0 /\ DOMAIN active \subseteq 1 .. nextId - 1
    BY <1>1, <2>1, TxnAssumption
       DEF BeginStamp, Step, Typed, Placed, TypeOK, Ids, Calls, Stamped, Paired, Place, Holds, Detached, OnTxn, Current
  <2>4. \A d \in Client : Holds(d)' < nextId' /\ \A e \in Client : d # e => Holds(d)' # Holds(e)' \/ Holds(d)' = 0
    BY <2>2, <2>3 DEF Paired
  <2>5. ASSUME NEW i \in DOMAIN active' PROVE \E d \in Client : Holds(d)' = i
    <3>1. CASE i = nextId
      BY <2>2, <3>1
    <3>2. CASE i # nextId
      <4>1. i \in DOMAIN active
        BY <2>1, <3>2 DEF Step
      <4>2. PICK d \in Client : Holds(d) = i
        BY <4>1 DEF Paired
      <4>3. d # c
        BY <1>1, <2>3, <4>1, <4>2 DEF BeginStamp, Paired, Place
      <4>. QED BY <2>2, <4>2, <4>3
    <3>. QED BY <3>1, <3>2
  <2>6. ASSUME NEW d \in Client PROVE Place(d)'
    <3>1. CASE d = c
      BY <2>1, <2>2, <2>3, <3>1 DEF Step, Place, Detached, OnTxn
    <3>2. CASE d # c
      <4>1. /\ pc'[d] = pc[d] /\ call'[d].id = call[d].id /\ Current(d)' = Current(d)
            /\ Holds(d)' = Holds(d) /\ Place(d)
        BY <2>1, <2>2, <3>2 DEF Step, Paired
      <4>2. Holds(d) # nextId /\ DOMAIN active' = DOMAIN active \cup {nextId} /\ Owners' \subseteq Owners
        BY <2>1, <2>3 DEF Step
      <4>. QED BY ONLY <4>1, <4>2 DEF Place
    <3>. QED BY <3>1, <3>2
  <2>7. Owners' \subseteq DOMAIN active'
    BY <2>1 DEF Step, Paired
  <2>. QED BY ONLY <2>4, <2>5, <2>6, <2>7 DEF Paired
<1>2. ASSUME NEW c \in Client, BeginCheck(c) PROVE Paired'
  <2>1. Step(c, "begin", call[c].id, Current(c), DOMAIN active, Owners, nextId)
    BY <1>2, TxnAssumption
       DEF BeginCheck, Go, Step, Typed, Placed, TypeOK, Current, Owners, tables
  <2>2. pc[c] = "idle" /\ Current(c) = 0
    BY <1>2, Zenon DEF BeginCheck
  <2>3. Holds(c)' = Holds(c) /\ Place(c)'
    BY ONLY <1>0, c \in Client, <2>1, <2>2 DEF Step, Place, Holds, Detached, OnTxn
  <2>4. Owners \subseteq DOMAIN active
    BY DEF Paired
  <2>. QED BY ONLY Typed, Paired, c \in Client, <2>1, <2>3, <2>4, StepKeeps DEF Step
<1>3. ASSUME NEW c \in Client, BeginSession(c) PROVE Paired'
  <2>1. Step(c, "idle", 0, call[c].id, DOMAIN active, Owners, nextId)
    BY <1>3, TxnAssumption
       DEF BeginSession, Go, Return, NoCall, Step, Typed, Placed, TypeOK, Current, Owners, OwnSessions, tables
  <2>2. pc[c] = "session"
    BY <1>3, Zenon DEF BeginSession
  <2>3. Holds(c)' = Holds(c) /\ Place(c)'
    BY ONLY <1>0, c \in Client, <2>1, <2>2 DEF Step, Place, Holds, Detached, OnTxn
  <2>4. Owners \subseteq DOMAIN active
    BY DEF Paired
  <2>. QED BY ONLY Typed, Paired, c \in Client, <2>1, <2>3, <2>4, StepKeeps DEF Step
<1>4. ASSUME NEW c \in Client, NEW k \in Key, Stage(c, k) PROVE Paired'
  <2>1. Step(c, pc[c], call[c].id, Current(c), DOMAIN active, Owners, nextId)
    BY <1>4, TxnAssumption
       DEF Stage, Step, Typed, Placed, TypeOK, Current, Owners, tables
  <2>2. pc[c] = "idle" /\ Current(c) \in DOMAIN active
    BY <1>4, Zenon DEF Stage, InTxn
  <2>3. Holds(c)' = Holds(c) /\ Place(c)'
    BY ONLY <1>0, c \in Client, <2>1, <2>2 DEF Step, Place, Holds, Detached, OnTxn
  <2>4. Owners \subseteq DOMAIN active
    BY DEF Paired
  <2>. QED BY ONLY Typed, Paired, c \in Client, <2>1, <2>3, <2>4, StepKeeps DEF Step
<1>5. ASSUME NEW c \in Client, NEW k \in Key, GetRecord(c, k) PROVE Paired'
  <2>1. Step(c, "track", Current(c), Current(c), DOMAIN active, Owners, nextId)
    BY <1>5, TxnAssumption
       DEF GetRecord, Go, Calls, Step, Typed, Placed, TypeOK, Current, Owners, tables
  <2>2. pc[c] = "idle" /\ Current(c) \in DOMAIN active
    BY <1>5, Zenon DEF GetRecord, InTxn
  <2>3. Holds(c)' = Holds(c) /\ Place(c)'
    BY ONLY <1>0, c \in Client, <2>1, <2>2 DEF Step, Place, Holds, Detached, OnTxn
  <2>4. Owners \subseteq DOMAIN active
    BY DEF Paired
  <2>. QED BY ONLY Typed, Paired, c \in Client, <2>1, <2>3, <2>4, StepKeeps DEF Step
<1>6. ASSUME NEW c \in Client, GetTrack(c) PROVE Paired'
  <2>1. Step(c, "note", call[c].id, Current(c), DOMAIN active, Owners, nextId)
    BY <1>6, TxnAssumption
       DEF GetTrack, Go, Calls, Step, Typed, Placed, TypeOK, Current, Owners, tables
  <2>2. pc[c] = "track"
    BY <1>6, Zenon DEF GetTrack
  <2>3. Holds(c)' = Holds(c) /\ Place(c)'
    BY ONLY <1>0, c \in Client, <2>1, <2>2 DEF Step, Place, Holds, Detached, OnTxn
  <2>4. Owners \subseteq DOMAIN active
    BY DEF Paired
  <2>. QED BY ONLY Typed, Paired, c \in Client, <2>1, <2>3, <2>4, StepKeeps DEF Step
<1>7. ASSUME NEW c \in Client, NoteRwDependency(c) PROVE Paired'
  <2>1. Step(c, "read", call[c].id, Current(c), DOMAIN active, Owners \cup {call[c].id}, nextId)
    BY <1>7, TxnAssumption
       DEF NoteRwDependency, Go, Step, Typed, Placed, TypeOK, Current, Owners, tables
  <2>2. pc[c] = "note"
    BY <1>7, Zenon DEF NoteRwDependency
  <2>3. Holds(c)' = Holds(c) /\ Place(c)' /\ Holds(c) = call[c].id /\ Holds(c) \in DOMAIN active
    BY ONLY <1>0, c \in Client, <2>1, <2>2 DEF Step, Place, Holds, Detached, OnTxn
  <2>4. Owners \subseteq DOMAIN active
    BY DEF Paired
  <2>. QED BY ONLY Typed, Paired, c \in Client, <2>1, <2>3, <2>4, StepKeeps DEF Step
<1>8. ASSUME NEW c \in Client, GetRead(c) PROVE Paired'
  <2>1. Step(c, "idle", 0, Current(c), DOMAIN active, Owners, nextId)
    BY <1>8, TxnAssumption
       DEF GetRead, Go, Return, NoCall, Step, Typed, Placed, TypeOK, Current, Owners, tables
  <2>2. pc[c] = "read"
    BY <1>8, Zenon DEF GetRead
  <2>3. Holds(c)' = Holds(c) /\ Place(c)'
    BY ONLY <1>0, c \in Client, <2>1, <2>2 DEF Step, Place, Holds, Detached, OnTxn
  <2>4. Owners \subseteq DOMAIN active
    BY DEF Paired
  <2>. QED BY ONLY Typed, Paired, c \in Client, <2>1, <2>3, <2>4, StepKeeps DEF Step
<1>9. ASSUME NEW c \in Client, CommitRefuse(c) PROVE Paired'
  <2>1. Step(c, pc[c], call[c].id, Current(c), DOMAIN active, Owners, nextId)
    BY <1>9, TxnAssumption
       DEF CommitRefuse, Step, Typed, Placed, TypeOK, Current, Owners, vars, tables
  <2>2. pc[c] = "idle" /\ Current(c) \in DOMAIN active
    BY <1>9, Zenon DEF CommitRefuse, InTxn
  <2>3. Holds(c)' = Holds(c) /\ Place(c)'
    BY ONLY <1>0, c \in Client, <2>1, <2>2 DEF Step, Place, Holds, Detached, OnTxn
  <2>4. Owners \subseteq DOMAIN active
    BY DEF Paired
  <2>. QED BY ONLY Typed, Paired, c \in Client, <2>1, <2>3, <2>4, StepKeeps DEF Step
<1>10. ASSUME NEW c \in Client, CommitCheck(c) PROVE Paired'
  <2>1. Step(c, "stamp", Current(c), Current(c), DOMAIN active, Owners, nextId)
    BY <1>10, TxnAssumption
       DEF CommitCheck, Go, Calls, Step, Typed, Placed, TypeOK, Current, Owners, tables
  <2>2. pc[c] = "idle" /\ Current(c) \in DOMAIN active
    BY <1>10, Zenon DEF CommitCheck, InTxn
  <2>3. Holds(c)' = Holds(c) /\ Place(c)'
    BY ONLY <1>0, c \in Client, <2>1, <2>2 DEF Step, Place, Holds, Detached, OnTxn
  <2>4. Owners \subseteq DOMAIN active
    BY DEF Paired
  <2>. QED BY ONLY Typed, Paired, c \in Client, <2>1, <2>3, <2>4, StepKeeps DEF Step
<1>11. ASSUME NEW c \in Client, CommitStamp(c) PROVE Paired'
  <2>1. Step(c, "durable", call[c].id, Current(c), DOMAIN active, Owners, nextId)
    <3>1. call[c].id \in DOMAIN active
      BY <1>11 DEF CommitStamp, Paired, Place, Holds, Detached, OnTxn
    <3>2. /\ call' = [call EXCEPT ![c] = [call[c] EXCEPT !.ts = last', !.keys = active[call[c].id].writes]]
          /\ pc' = [pc EXCEPT ![c] = "durable"]
          /\ UNCHANGED <<nextId, sessions, active, rwEdges, writeKeys>>
      BY <1>11, <3>1 DEF CommitStamp, Go, tables
    <3>. QED BY <3>2 DEF Step, Typed, Placed, Calls, Current, Owners
  <2>2. pc[c] = "stamp"
    BY <1>11, Zenon DEF CommitStamp
  <2>3. Holds(c)' = Holds(c) /\ Place(c)'
    BY ONLY <1>0, c \in Client, <2>1, <2>2 DEF Step, Place, Holds, Detached, OnTxn
  <2>4. Owners \subseteq DOMAIN active
    BY DEF Paired
  <2>. QED BY ONLY Typed, Paired, c \in Client, <2>1, <2>3, <2>4, StepKeeps DEF Step
<1>12. ASSUME NEW c \in Client, DurableFails(c) PROVE Paired'
  <2>1. Step(c, "idle", 0, Current(c), DOMAIN active, Owners, nextId)
    BY <1>12, TxnAssumption
       DEF DurableFails, Go, Return, NoCall, Step, Typed, Placed, TypeOK, Current, Owners, tables
  <2>2. pc[c] = "durable"
    BY <1>12, Zenon DEF DurableFails
  <2>3. Holds(c)' = Holds(c) /\ Place(c)'
    BY ONLY <1>0, c \in Client, <2>1, <2>2 DEF Step, Place, Holds, Detached, OnTxn
  <2>4. Owners \subseteq DOMAIN active
    BY DEF Paired
  <2>. QED BY ONLY Typed, Paired, c \in Client, <2>1, <2>3, <2>4, StepKeeps DEF Step
<1>13. ASSUME NEW c \in Client, Install(c) PROVE Paired'
  <2>1. Step(c, "register", call[c].id, Current(c), DOMAIN active, Owners, nextId)
    BY <1>13, TxnAssumption
       DEF Install, Go, Step, Typed, Placed, TypeOK, Current, Owners, tables
  <2>2. pc[c] = "durable"
    BY <1>13, Zenon DEF Install
  <2>3. Holds(c)' = Holds(c) /\ Place(c)'
    BY ONLY <1>0, c \in Client, <2>1, <2>2 DEF Step, Place, Holds, Detached, OnTxn
  <2>4. Owners \subseteq DOMAIN active
    BY DEF Paired
  <2>. QED BY ONLY Typed, Paired, c \in Client, <2>1, <2>3, <2>4, StepKeeps DEF Step
<1>14. ASSUME NEW c \in Client, RegisterCommit(c) PROVE Paired'
  <2>1. Step(c, "purge", call[c].id, Current(c), DOMAIN active, Owners \cup {call[c].id}, nextId)
    BY <1>14, TxnAssumption
       DEF RegisterCommit, Go, Step, Typed, Placed, TypeOK, Current, Owners, tables
  <2>2. pc[c] = "register"
    BY <1>14, Zenon DEF RegisterCommit
  <2>3. Holds(c)' = Holds(c) /\ Place(c)' /\ Holds(c) = call[c].id /\ Holds(c) \in DOMAIN active
    BY ONLY <1>0, c \in Client, <2>1, <2>2 DEF Step, Place, Holds, Detached, OnTxn
  <2>4. Owners \subseteq DOMAIN active
    BY DEF Paired
  <2>. QED BY ONLY Typed, Paired, c \in Client, <2>1, <2>3, <2>4, StepKeeps DEF Step
<1>15. ASSUME NEW c \in Client, CommitPurge(c) PROVE Paired'
  <2>1. Step(c, "remove", call[c].id, Current(c), DOMAIN active, Owners \ {call[c].id}, nextId)
    BY <1>15, TxnAssumption
       DEF CommitPurge, Go, Purge, Step, Typed, Placed, TypeOK, Current, Owners, tables
  <2>2. pc[c] = "purge"
    BY <1>15, Zenon DEF CommitPurge
  <2>3. Holds(c)' = Holds(c) /\ Place(c)' /\ Holds(c) = call[c].id
    BY ONLY <1>0, c \in Client, <2>1, <2>2 DEF Step, Place, Holds, Detached, OnTxn
  <2>4. Owners \subseteq DOMAIN active
    BY DEF Paired
  <2>. QED BY ONLY Typed, Paired, c \in Client, <2>1, <2>3, <2>4, StepKeeps DEF Step
<1>16. ASSUME NEW c \in Client, CommitRemove(c) PROVE Paired'
  <2>1. Step(c, "close", call[c].id, Current(c), DOMAIN active \ {call[c].id}, Owners, nextId)
    BY <1>16, TxnAssumption
       DEF CommitRemove, Go, Without, Step, Typed, Placed, TypeOK, Current, Owners, tables
  <2>2. pc[c] = "remove"
    BY <1>16, Zenon DEF CommitRemove
  <2>3. Holds(c)' = Holds(c) /\ Place(c)' /\ Holds(c) = call[c].id /\ Holds(c) \notin Owners
    BY ONLY <1>0, c \in Client, <2>1, <2>2 DEF Step, Place, Holds, Detached, OnTxn
  <2>4. Owners \subseteq DOMAIN active
    BY DEF Paired
  <2>. QED BY ONLY Typed, Paired, c \in Client, <2>1, <2>3, <2>4, StepKeeps DEF Step
<1>17. ASSUME NEW c \in Client, CommitClose(c) PROVE Paired'
  <2>1. Step(c, IF GcCalls THEN "collect" ELSE "idle", 0, 0, DOMAIN active, Owners, nextId)
    BY <1>17, TxnAssumption
       DEF CommitClose, Go, Return, NoCall, Step, Typed, Placed, TypeOK, Current, Owners, OwnSessions, tables
  <2>2. pc[c] = "close"
    BY <1>17, Zenon DEF CommitClose
  <2>3. Holds(c)' = 0 /\ Place(c)' /\ Holds(c) \notin DOMAIN active
    BY ONLY <1>0, c \in Client, <2>1, <2>2 DEF Step, Place, Holds, Detached, OnTxn
  <2>4. Owners \subseteq DOMAIN active
    BY DEF Paired
  <2>. QED BY ONLY Typed, Paired, c \in Client, <2>1, <2>3, <2>4, StepKeeps DEF Step
<1>18. ASSUME NEW c \in Client, Gc(c) PROVE Paired'
  <2>1. Step(c, "idle", 0, Current(c), DOMAIN active, Owners, nextId)
    BY <1>18, TxnAssumption
       DEF Gc, Go, Return, NoCall, Step, Typed, Placed, TypeOK, Current, Owners, tables
  <2>2. pc[c] = "collect"
    BY <1>18, Zenon DEF Gc
  <2>3. Holds(c)' = Holds(c) /\ Place(c)'
    BY ONLY <1>0, c \in Client, <2>1, <2>2 DEF Step, Place, Holds, Detached, OnTxn
  <2>4. Owners \subseteq DOMAIN active
    BY DEF Paired
  <2>. QED BY ONLY Typed, Paired, c \in Client, <2>1, <2>3, <2>4, StepKeeps DEF Step
<1>19. ASSUME NEW c \in Client, RollbackDetach(c) PROVE Paired'
  <2>1. Step(c, "discard", Current(c), 0, DOMAIN active, Owners, nextId)
    <3>1. /\ call' = [call EXCEPT ![c].id = Current(c)]
          /\ sessions' = [sessions EXCEPT ![SessionOf[c]] = 0]
          /\ pc' = [pc EXCEPT ![c] = "discard"]
          /\ UNCHANGED <<nextId, active, rwEdges, writeKeys>>
      BY <1>19 DEF RollbackDetach, Go
    <3>2. /\ Current(c)' = 0
          /\ \A d \in Client \ {c} : Current(d)' = Current(d)
      BY <3>1, TxnAssumption DEF Current, OwnSessions, Typed, Placed, TypeOK
    <3>. QED BY <3>1, <3>2 DEF Step, Typed, Placed, Calls, Owners
  <2>2. pc[c] = "idle" /\ Current(c) # 0
    BY <1>19, Zenon DEF RollbackDetach
  <2>3. Holds(c)' = Holds(c) /\ Place(c)'
    BY ONLY <1>0, c \in Client, <2>1, <2>2 DEF Step, Place, Holds, Detached, OnTxn
  <2>4. Owners \subseteq DOMAIN active
    BY DEF Paired
  <2>. QED BY ONLY Typed, Paired, c \in Client, <2>1, <2>3, <2>4, StepKeeps DEF Step
<1>20. ASSUME NEW c \in Client, RollbackPurge(c) PROVE Paired'
  <2>1. Step(c, "forget", call[c].id, Current(c), DOMAIN active, Owners \ {call[c].id}, nextId)
    BY <1>20, TxnAssumption
       DEF RollbackPurge, Go, Purge, Step, Typed, Placed, TypeOK, Current, Owners, tables
  <2>2. pc[c] = "discard"
    BY <1>20, Zenon DEF RollbackPurge
  <2>3. Holds(c)' = Holds(c) /\ Place(c)' /\ Holds(c) = call[c].id
    BY ONLY <1>0, c \in Client, <2>1, <2>2 DEF Step, Place, Holds, Detached, OnTxn
  <2>4. Owners \subseteq DOMAIN active
    BY DEF Paired
  <2>. QED BY ONLY Typed, Paired, c \in Client, <2>1, <2>3, <2>4, StepKeeps DEF Step
<1>21. ASSUME NEW c \in Client, RollbackRemove(c) PROVE Paired'
  <2>1. Step(c, "idle", 0, Current(c), DOMAIN active \ {call[c].id}, Owners, nextId)
    BY <1>21, TxnAssumption
       DEF RollbackRemove, Go, Return, NoCall, Without, Step, Typed, Placed, TypeOK, Current, Owners, tables
  <2>2. pc[c] = "forget"
    BY <1>21, Zenon DEF RollbackRemove
  <2>3. Holds(c)' = 0 /\ Place(c)' /\ Holds(c) = call[c].id /\ Holds(c) \notin Owners
    BY ONLY <1>0, c \in Client, <2>1, <2>2 DEF Step, Place, Holds, Detached, OnTxn
  <2>4. Owners \subseteq DOMAIN active
    BY DEF Paired
  <2>. QED BY ONLY Typed, Paired, c \in Client, <2>1, <2>3, <2>4, StepKeeps DEF Step
<1>22. ASSUME NEW i \in DOMAIN active, Age(i) PROVE Paired'
  BY <1>22 DEF Age, Paired, Place, Holds, Current, Owners
<1>23. ASSUME UNCHANGED vars PROVE Paired'
  BY <1>23 DEF vars, tables, Paired, Place, Holds, Current, Owners
<1>. QED
  BY ONLY [Next]_vars, <1>1, <1>2, <1>3, <1>4, <1>5, <1>6, <1>7, <1>8, <1>9, <1>10,
     <1>11, <1>12, <1>13, <1>14, <1>15, <1>16, <1>17, <1>18, <1>19, <1>20, <1>21,
     <1>22, <1>23 DEF Next, Begin, Get, Commit, Rollback

\* Clients with sessions of their own never lose or share a transaction in the
\* gaps between the locks of TxnManager's methods: every active one is reached.
THEOREM SessionsPaired ==
  ASSUME OwnSessions
  PROVE  Spec => []SessionsMatch
<1>1. Typed /\ Stamped /\ Paired /\ [Next]_vars => Paired'
  BY PairedNext
<1>2. Typed /\ Paired => SessionsMatch
  BY PairedImplies
<1>. QED
  BY <1>1, <1>2, TypedInit, TypedNext, SnapshotsInit, SnapshotsNext, PairedInit, PTL DEF Spec

\* Under the same condition check_commit finds no rival that is over, although an
\* edge to one may be left behind: the owner of every edge and key is active.
THEOREM RivalsActive ==
  ASSUME OwnSessions
  PROVE  Spec => []RivalsAreActive
<1>1. Typed /\ Stamped /\ Paired /\ [Next]_vars => Paired'
  BY PairedNext
<1>2. Typed /\ Paired => RivalsAreActive
  BY PairedImplies
<1>. QED
  BY <1>1, <1>2, TypedInit, TypedNext, SnapshotsInit, SnapshotsNext, PairedInit, PTL DEF Spec
=============================================================================
