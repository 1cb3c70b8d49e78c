------------------------ MODULE DecisionMemoryProofs ------------------------
(***************************************************************************)
(* Theorems about DecisionMemory, for any number of requests, policies and *)
(* restarts.                                                               *)
(***************************************************************************)
EXTENDS DecisionMemory, TLAPS

\* The store order, index by index.
LEMMA StoreOrder ==
    /\ Stores[1] = "decisions" /\ Stores[2] = "inputs"
    /\ Stores[3] = "policies" /\ Stores[4] = "permits"
    /\ Stores[5] = "verifications" /\ Stores[6] = "evidence_mirror"
BY DEF Stores

\* The first three stores are the tables, and every store has a name.
LEMMA StoreIndex ==
    /\ \A i \in 1..3 : Stores[i] \in Tables
    /\ \A i \in 1..6 : Stores[i] \in StoreNames
<1>1. \A i \in 1..3 : i = 1 \/ i = 2 \/ i = 3
  OBVIOUS
<1>2. \A i \in 1..6 : i = 1 \/ i = 2 \/ i = 3 \/ i = 4 \/ i = 5 \/ i = 6
  OBVIOUS
<1>3. QED
  BY <1>1, <1>2, StoreOrder DEF Tables, StoreNames

TypeInv == TypeOK /\ AtTable

LEMMA TypeInit == Init => TypeInv
<1> SUFFICES ASSUME Init PROVE TypeInv
  OBVIOUS
<1>1. pg \in [Tables \union {"evidence_mirror"} ->
               SUBSET (Requests \union Policies)]
  BY DEF Init, EmptyRows
<1>2. /\ boots \in 0..MaxBoots
      /\ chain \in Seq(Requests)
      /\ enabled \subseteq StoreNames
  BY MaxBootsAssumption DEF Init
<1>3. /\ cache \in [Tables -> SUBSET (Requests \union Policies)]
      /\ staged \in [Requests -> SUBSET Tables]
  BY DEF Init
<1>4. /\ step \in [Requests -> Steps]
      /\ at \in [Requests -> 1..6]
      /\ resume \in [Requests -> {"save", "answered"}]
  BY DEF Init, Steps
<1>5. /\ up \in BOOLEAN /\ degraded \in BOOLEAN /\ AtTable
      /\ strict \in BOOLEAN /\ patchy \in BOOLEAN
  BY DEF Init, AtTable, LastTable
<1>6. QED
  BY <1>1, <1>2, <1>3, <1>4, <1>5 DEF TypeInv, TypeOK

\* No action leaves the types or lets a thread run past the last table.
LEMMA TypeStep == TypeInv /\ [Next]_vars => TypeInv'
<1> SUFFICES ASSUME TypeInv, [Next]_vars PROVE TypeInv'
  OBVIOUS
<1> USE DEF TypeInv, TypeOK, AtTable, LastTable, LastStore, Steps
<1>1. CASE Boot
  <2>1. PICK on \in Bootstrapped :
          /\ enabled' = IF DbConfigured /\ "decisions" \notin on /\ ~strict
                          THEN {} ELSE on
          /\ \E hydrated \in SUBSET (on \intersect {"decisions", "inputs"}) :
                cache' = [s \in Tables |->
                            IF s = "policies" THEN Policies
                            ELSE IF s \in hydrated THEN pg[s] ELSE {}]
          /\ degraded' = (DbConfigured /\ "decisions" \notin on /\ ~strict)
          /\ patchy' = (patchy \/ on # StoreNames)
          /\ pg' = IF "policies" \in enabled'
                     THEN [pg EXCEPT !["policies"] = Policies] ELSE pg
    BY <1>1 DEF Boot
  <2>2. on \subseteq StoreNames
    <3>1. \A k \in 1..7 : {Stores[i] : i \in k..6} \subseteq StoreNames
      BY StoreIndex
    <3>2. QED
      BY <3>1 DEF Bootstrapped
  <2>3. enabled' \subseteq StoreNames
    BY <2>1, <2>2
  <2>4. degraded' \in BOOLEAN /\ patchy' \in BOOLEAN
    BY <2>1
  <2>5. cache' \in [Tables -> SUBSET (Requests \union Policies)]
    BY <2>1 DEF Tables
  <2>6. pg' \in [Tables \union {"evidence_mirror"} ->
                   SUBSET (Requests \union Policies)]
    BY <2>1
  <2>7. boots' \in 0..MaxBoots /\ up' \in BOOLEAN
    BY <1>1, MaxBootsAssumption DEF Boot
  <2>8. QED
    BY <1>1, <2>3, <2>4, <2>5, <2>6, <2>7 DEF Boot
<1>2. CASE Crash
  BY <1>2 DEF Crash, Settled, Tables
<1>3. ASSUME NEW r \in Requests, Thread(r) PROVE TypeInv'
  <2> USE DEF Goto
  <2>0. at[r] \in 1..6 /\ Stores[at[r]] \in StoreNames
    BY StoreIndex
  <2>1. CASE Begin(r)
    BY <2>1 DEF Begin, DbError
  <2>2. CASE TxWrite(r)
    <3>1. at[r] \in 1..3 /\ Stores[at[r]] \in Tables
      BY <2>2, StoreIndex DEF TxWrite
    <3>2. Row(Stores[at[r]], r) \in Requests \union Policies
      BY PolicyOfAssumption DEF Row
    <3>3. cache' \in [Tables -> SUBSET (Requests \union Policies)]
      BY <2>2, <3>1, <3>2 DEF TxWrite, Insert
    <3>4. staged' \in [Requests -> SUBSET Tables]
      BY <2>2, <3>1 DEF TxWrite
    <3>5. QED
      BY <2>2, <3>1, <3>3, <3>4 DEF TxWrite
  <2>3. CASE TxWriteFails(r)
    BY <2>3 DEF TxWriteFails, DbError, Rollback
  <2>4. ASSUME ApplyStaged(r)
        PROVE pg' \in [Tables \union {"evidence_mirror"} ->
                         SUBSET (Requests \union Policies)]
    BY <2>4, PolicyOfAssumption DEF ApplyStaged, Row
  <2>5. CASE Commit(r)
    BY <2>5, <2>4 DEF Commit
  <2>6. CASE CommitFails(r)
    BY <2>6, <2>4 DEF CommitFails, DbError, Rollback
  <2>7. CASE EnterDegraded(r)
    BY <2>7 DEF EnterDegraded
  <2>8. CASE MarkStore(r)
    <3>1. /\ at' \in [Requests -> 1..6]
          /\ \A q \in Requests : q # r => at'[q] = at[q]
          /\ at[r] < LastStore => step'[r] = "mark"
          /\ at[r] >= LastStore => at'[r] = 1
      BY <2>0, <2>8 DEF MarkStore
    <3>2. /\ step' \in [Requests -> Steps]
          /\ \A q \in Requests : q # r => step'[q] = step[q]
      BY <2>8 DEF MarkStore
    <3>3. AtTable'
      BY <2>0, <3>1, <3>2
    <3>4. enabled' \subseteq StoreNames
      BY <2>8 DEF MarkStore
    <3>5. QED
      BY <2>8, <3>1, <3>2, <3>3, <3>4 DEF MarkStore
  <2>9. CASE SaveCached(r)
    <3>1. at[r] \in 1..3 /\ Stores[at[r]] \in Tables
      BY <2>9, StoreIndex DEF SaveCached
    <3>2. Row(Stores[at[r]], r) \in Requests \union Policies
      BY PolicyOfAssumption DEF Row
    <3>3. cache' \in [Tables -> SUBSET (Requests \union Policies)]
      BY <2>9, <3>1, <3>2 DEF SaveCached, Insert
    <3>4. QED
      BY <2>9, <3>1, <3>3 DEF SaveCached, NextSave
  <2>10. CASE SaveDials(r)
    BY <2>10 DEF SaveDials
  <2>11. CASE DialSucceeds(r)
    <3>1. at[r] \in 1..3 /\ Stores[at[r]] \in Tables
      <4>1. step[r] = "dial" /\ at[r] <= 3
        BY <2>11 DEF DialSucceeds
      <4>2. at[r] \in 1..3
        BY <2>0, <4>1
      <4>3. QED
        BY <4>2, StoreIndex
    <3>2. Row(Stores[at[r]], r) \in Requests \union Policies
      BY PolicyOfAssumption DEF Row
    <3>3. cache' \in [Tables -> SUBSET (Requests \union Policies)]
      BY <2>11, <3>1, <3>2 DEF DialSucceeds, Insert
    <3>4. pg' \in [Tables \union {"evidence_mirror"} ->
                     SUBSET (Requests \union Policies)]
      BY <2>11, <3>1, <3>2 DEF DialSucceeds, Insert
    <3>5. QED
      BY <2>11, <3>1, <3>3, <3>4 DEF DialSucceeds, NextSave
  <2>12. CASE DialFails(r)
    <3>1. at[r] \in 1..3 /\ Stores[at[r]] \in Tables
      BY <2>12, StoreIndex DEF DialFails
    <3>2. Row(Stores[at[r]], r) \in Requests \union Policies
      BY PolicyOfAssumption DEF Row
    <3>3. pg' \in [Tables \union {"evidence_mirror"} ->
                     SUBSET (Requests \union Policies)]
      BY <2>12, <3>1, <3>2 DEF DialFails, Insert
    <3>4. QED
      BY <2>12, <3>3 DEF DialFails
  <2>13. CASE AppendChain(r)
    BY <2>13 DEF AppendChain
  <2>14. CASE AppendFails(r)
    BY <2>14 DEF AppendFails
  <2>15. CASE MirrorSkipped(r)
    BY <2>15 DEF MirrorSkipped
  <2>16. CASE MirrorDials(r)
    BY <2>16 DEF MirrorDials
  <2>17. Insert(pg, "evidence_mirror", r) \in
           [Tables \union {"evidence_mirror"} ->
              SUBSET (Requests \union Policies)]
    BY DEF Insert, Row
  <2>18. CASE MirrorSucceeds(r)
    BY <2>18, <2>17 DEF MirrorSucceeds
  <2>19. CASE MirrorFails(r)
    BY <2>19, <2>17 DEF MirrorFails, DbError
  <2>20. QED
    BY <1>3, <2>1, <2>2, <2>3, <2>5, <2>6, <2>7, <2>8, <2>9, <2>10, <2>11,
       <2>12, <2>13, <2>14, <2>15, <2>16, <2>18, <2>19 DEF Thread
<1>4. CASE UNCHANGED vars
  BY <1>4 DEF vars
<1>5. QED
  BY <1>1, <1>2, <1>3, <1>4 DEF Next

\* Every reachable state of the memory layer is well typed.
THEOREM TypeCorrect == Spec => []TypeOK
<1>1. Spec => []TypeInv
  BY TypeInit, TypeStep, PTL DEF Spec
<1>2. TypeInv => TypeOK
  BY DEF TypeInv
<1>3. QED
  BY <1>1, <1>2, PTL

-----------------------------------------------------------------------------
(* Strict mode while every boot has brought up every store.                *)

LEMMA StrictInit == Init => StrictInv
BY DEF Init, StrictInv, RowsBehind, Triples, Recorded, EmptyRows,
       Tables

\* The one step that adds decision rows adds all three of them.
LEMMA CommitStores ==
    ASSUME TypeOK, StrictInv, NEW r \in Requests, step[r] = "commit",
           ApplyStaged(r)
    PROVE  /\ Stored(pg, r)'
           /\ \A q \in Requests : Stored(pg, q) => Stored(pg, q)'
           /\ Triples'
<1>1. staged[r] = Tables
  BY DEF StrictInv
<1>2. \A s \in Tables : pg'[s] = pg[s] \union {Row(s, r)}
  BY <1>1 DEF ApplyStaged, TypeOK
<1>3. Stored(pg, r)'
  BY <1>2 DEF Stored
<1>4. \A q \in Requests : Stored(pg, q) => Stored(pg, q)'
  BY <1>2 DEF Stored
<1>5. \A q \in Requests : q \in pg'["decisions"] => q \in pg["decisions"] \/ q = r
  BY <1>2 DEF Tables, Row
<1>6. QED
  BY <1>3, <1>4, <1>5 DEF Triples, StrictInv

LEMMA StrictStep ==
    ASSUME TypeInv, StrictMode => StrictInv, [Next]_vars, StrictMode'
    PROVE  StrictInv'
<1>0. strict /\ DbConfigured /\ ~patchy /\ StrictInv
  <2>1. CASE Boot
    BY <2>1 DEF Boot, StrictMode
  <2>2. ASSUME NEW r \in Requests, Thread(r) PROVE UNCHANGED <<strict, patchy>>
    BY <2>2 DEF Thread, Begin, TxWrite, TxWriteFails, Commit, CommitFails,
         EnterDegraded, MarkStore, SaveCached, SaveDials, DialSucceeds,
         DialFails, AppendChain, AppendFails, MirrorSkipped, MirrorDials,
         MirrorSucceeds, MirrorFails
  <2>3. Crash => UNCHANGED <<strict, patchy>>
    BY DEF Crash
  <2>4. UNCHANGED vars => UNCHANGED <<strict, patchy>>
    BY DEF vars
  <2>5. CASE UNCHANGED <<strict, patchy>>
    BY <2>5 DEF StrictMode
  <2>6. QED
    BY <2>1, <2>2, <2>3, <2>4, <2>5 DEF Next
<1> USE <1>0 DEF TypeInv, TypeOK, StrictInv
<1>1. CASE Boot
  <2>0. PICK on \in Bootstrapped :
          /\ patchy' = (patchy \/ on # StoreNames)
          /\ enabled' = IF DbConfigured /\ "decisions" \notin on /\ ~strict
                          THEN {} ELSE on
          /\ degraded' = (DbConfigured /\ "decisions" \notin on /\ ~strict)
    BY <1>1 DEF Boot
  <2>1. degraded' = FALSE /\ enabled' = StoreNames
    BY <2>0 DEF StrictMode, StoreNames
  <2>2. pg' = [pg EXCEPT !["policies"] = Policies]
    BY <1>1, <2>1 DEF Boot, StoreNames
  <2>3. \A r \in Requests : Stored(pg, r) => Stored(pg, r)'
    BY <2>2, PolicyOfAssumption DEF Stored, Row, Tables
  <2>4. pg'["decisions"] = pg["decisions"]
    BY <2>2 DEF Tables
  <2>5. QED
    BY <1>1, <2>1, <2>3, <2>4
       DEF Boot, RowsBehind, Triples, Recorded
<1>2. CASE Crash
  BY <1>2 DEF Crash, Settled, RowsBehind, Triples, Recorded,
              Stored
<1>3. ASSUME NEW r \in Requests, Thread(r) PROVE StrictInv'
  <2> USE DEF Goto
  <2>0. ASSUME UNCHANGED <<pg, chain>>
        PROVE  /\ RowsBehind' /\ Triples'
               /\ \A q \in Requests : Stored(pg, q)' <=> Stored(pg, q)
    BY <2>0 DEF RowsBehind, Triples, Recorded, Stored
  <2>1. CASE Begin(r)
    BY <2>1, <2>0 DEF Begin, DbError, Durable
  <2>2. CASE TxWrite(r)
    <3>1. at[r] \in 1..3
      BY <2>2 DEF TxWrite, AtTable, LastTable
    <3>2. Stores[at[r]] \in enabled
      BY <2>2, <3>1, StoreIndex DEF TxWrite
    <3>3. staged' = [staged EXCEPT ![r] = @ \union {Stores[at[r]]}]
      BY <2>2, <3>2 DEF TxWrite
    <3>4. at[r] = 1 \/ at[r] = 2 \/ at[r] = 3
      BY <3>1
    <3>5. CASE at[r] = 1
      BY <2>2, <3>3, <3>5, <2>0, StoreOrder DEF TxWrite, LastTable
    <3>6. CASE at[r] = 2
      BY <2>2, <3>3, <3>6, <2>0, StoreOrder DEF TxWrite, LastTable
    <3>7. CASE at[r] = 3
      <4>1. staged'[r] = Tables
        BY <2>2, <3>3, <3>7, StoreOrder DEF TxWrite, Tables
      <4>2. QED
        BY <2>2, <3>3, <3>7, <4>1, <2>0 DEF TxWrite, LastTable
    <3>8. QED
      BY <3>4, <3>5, <3>6, <3>7
  <2>3. CASE TxWriteFails(r)
    BY <2>3, <2>0 DEF TxWriteFails, DbError, Rollback
  <2>4. CASE Commit(r)
    <3>1. /\ Stored(pg, r)' /\ Triples'
          /\ \A q \in Requests : Stored(pg, q) => Stored(pg, q)'
      BY <2>4, CommitStores DEF Commit
    <3>2. QED
      BY <2>4, <3>1 DEF Commit, RowsBehind, Recorded
  <2>5. CASE CommitFails(r)
    <3>1. /\ Triples'
          /\ \A q \in Requests : Stored(pg, q) => Stored(pg, q)'
      BY <2>5, CommitStores DEF CommitFails, Rollback, Triples, Stored
    <3>2. QED
      BY <2>5, <3>1 DEF CommitFails, DbError, Rollback, RowsBehind,
                        Recorded
  <2>6. CASE AppendChain(r)
    <3>1. \A q \in Requests : Recorded(q)' => Recorded(q) \/ q = r
      BY <2>6 DEF AppendChain, Recorded
    <3>2. \A q \in Requests : Stored(pg, q)' <=> Stored(pg, q)
      BY <2>6 DEF AppendChain, Stored
    <3>3. RowsBehind'
      BY <2>6, <3>1, <3>2 DEF AppendChain, RowsBehind
    <3>4. Triples'
      BY <2>6, <3>2 DEF AppendChain, Triples
    <3>5. QED
      BY <2>6, <3>2, <3>3, <3>4 DEF AppendChain
  <2>7. CASE AppendFails(r)
    BY <2>7, <2>0 DEF AppendFails
  <2>8. CASE MirrorSkipped(r)
    BY <2>8, <2>0 DEF MirrorSkipped
  <2>9. CASE MirrorDials(r)
    BY <2>9, <2>0 DEF MirrorDials
  <2>10. ASSUME pg' = Insert(pg, "evidence_mirror", r), UNCHANGED chain
         PROVE  /\ RowsBehind' /\ Triples'
                /\ \A q \in Requests : Stored(pg, q)' <=> Stored(pg, q)
    <3>1. \A s \in Tables : pg'[s] = pg[s]
      BY <2>10 DEF Insert, Tables
    <3>2. \A q \in Requests : Stored(pg, q)' <=> Stored(pg, q)
      BY <3>1 DEF Stored
    <3>3. QED
      BY <2>10, <3>1, <3>2
         DEF RowsBehind, Triples, Recorded, Tables
  <2>11. CASE MirrorSucceeds(r)
    BY <2>11, <2>10 DEF MirrorSucceeds
  <2>12. CASE MirrorFails(r)
    BY <2>12, <2>10, <2>0 DEF MirrorFails, DbError
  <2>13. /\ ~EnterDegraded(r) /\ ~MarkStore(r) /\ ~SaveCached(r)
         /\ ~SaveDials(r) /\ ~DialSucceeds(r) /\ ~DialFails(r)
    BY DEF EnterDegraded, MarkStore, SaveCached, SaveDials, DialSucceeds,
           DialFails
  <2>14. QED
    BY <1>3, <2>1, <2>2, <2>3, <2>4, <2>5, <2>6, <2>7, <2>8, <2>9, <2>11,
       <2>12, <2>13 DEF Thread
<1>4. CASE UNCHANGED vars
  BY <1>4 DEF vars, RowsBehind, Triples, Recorded, Stored
<1>5. QED
  BY <1>1, <1>2, <1>3, <1>4 DEF Next

LEMMA StrictInductive == Spec => [](StrictMode => StrictInv)
<1>1. Spec => []TypeInv
  BY TypeInit, TypeStep, PTL DEF Spec
<1>2. Init => (StrictMode => StrictInv)
  BY StrictInit
<1>3. TypeInv /\ (StrictMode => StrictInv) /\ [Next]_vars => (StrictMode => StrictInv)'
  BY StrictStep
<1>4. QED
  BY <1>1, <1>2, <1>3, PTL DEF Spec

\* TEX_REQUIRE_DURABLE=1 after complete boots: no interleaving, failed call,
\* ambiguous commit or crash leaves an evidence record whose decision, input
\* or policy row is missing from Postgres, nor a decision row without the
\* other two.
THEOREM StrictDurability == Spec => []StrictWriteThrough
<1>1. (StrictMode => StrictInv) => StrictWriteThrough
  BY DEF StrictInv, StrictWriteThrough
<1>2. QED
  BY <1>1, StrictInductive, PTL

-----------------------------------------------------------------------------
(* Any mode, any boot: the stores and the chain.                           *)

LEMMA CacheInit == Init => CacheInv
BY DEF Init, CacheInv, PastStores

\* Inserting the row of the table a thread is at, with the earlier tables
\* already there, keeps everybody's rows and adds the thread's own.
LEMMA CacheInsert ==
    ASSUME TypeInv, CacheInv, NEW r \in Requests,
           step[r] \in {"tx", "save", "dial"},
           cache' = Insert(cache, Stores[at[r]], r)
    PROVE  /\ \A q \in Requests, s \in Tables :
                Row(s, q) \in cache[s] => Row(s, q) \in cache'[s]
           /\ \A q \in Requests : Stored(cache, q) => Stored(cache, q)'
           /\ Row(Stores[at[r]], r) \in cache'[Stores[at[r]]]
           /\ at[r] = 3 => Stored(cache, r)'
           /\ at[r] \in 1..3
<1> USE DEF TypeInv, TypeOK, AtTable, LastTable
<1>1. at[r] \in 1..3 /\ Stores[at[r]] \in Tables
  BY StoreIndex
<1>2. \A q \in Requests, s \in Tables :
        Row(s, q) \in cache[s] => Row(s, q) \in cache'[s]
  BY <1>1 DEF Insert
<1>3. Row(Stores[at[r]], r) \in cache'[Stores[at[r]]]
  BY <1>1 DEF Insert
<1>4. \A q \in Requests : Stored(cache, q) => Stored(cache, q)'
  BY <1>2 DEF Stored
<1>5. ASSUME at[r] = 3 PROVE Stored(cache, r)'
  <2>1. /\ Row("decisions", r) \in cache["decisions"]
        /\ Row("inputs", r) \in cache["inputs"]
    BY <1>5 DEF CacheInv
  <2>2. Row("policies", r) \in cache'["policies"]
    BY <1>3, <1>5, StoreOrder
  <2>3. QED
    BY <2>1, <2>2, <1>2 DEF Stored, Tables
<1>6. QED
  BY <1>1, <1>2, <1>3, <1>4, <1>5

LEMMA CacheStep == TypeInv /\ CacheInv /\ [Next]_vars => CacheInv'
<1> SUFFICES ASSUME TypeInv, CacheInv, [Next]_vars PROVE CacheInv'
  OBVIOUS
<1>1. CASE Boot
  BY <1>1 DEF Boot, CacheInv, PastStores, Settled, TypeInv, TypeOK
<1>2. CASE Crash
  BY <1>2 DEF Crash, Settled, CacheInv, PastStores, TypeInv, TypeOK
<1>3. ASSUME NEW r \in Requests, Thread(r) PROVE CacheInv'
  <2> USE DEF Goto, CacheInv, PastStores, Settled, TypeInv, TypeOK, LastTable
  <2>0. ASSUME UNCHANGED cache
        PROVE  \A q \in Requests : Stored(cache, q)' <=> Stored(cache, q)
    BY <2>0 DEF Stored
  <2>1. CASE Begin(r)
    BY <2>1, <2>0 DEF Begin, DbError
  <2>2. ASSUME step[r] \in {"tx", "save", "dial"}, up, UNCHANGED <<up, resume>>,
               cache' = Insert(cache, Stores[at[r]], r),
               at' = [at EXCEPT ![r] = @ + 1],
               \/ at[r] = 3 /\ step' \in {[step EXCEPT ![r] = "commit"],
                                         [step EXCEPT ![r] = "append"]}
               \/ at[r] # 3 /\ step' \in {[step EXCEPT ![r] = "tx"],
                                         [step EXCEPT ![r] = "save"]}
        PROVE  CacheInv'
    <3>1. /\ \A q \in Requests, s \in Tables :
               Row(s, q) \in cache[s] => Row(s, q) \in cache'[s]
          /\ \A q \in Requests : Stored(cache, q) => Stored(cache, q)'
          /\ Row(Stores[at[r]], r) \in cache'[Stores[at[r]]]
          /\ at[r] = 3 => Stored(cache, r)'
          /\ at[r] \in 1..3
      BY <2>2, CacheInsert
    <3>2. CASE at[r] = 3
      BY <2>2, <3>1, <3>2 DEF Tables
    <3>3. CASE at[r] = 1
      BY <2>2, <3>1, <3>3, StoreOrder DEF Tables
    <3>4. CASE at[r] = 2
      BY <2>2, <3>1, <3>4, StoreOrder DEF Tables
    <3>5. QED
      BY <3>1, <3>2, <3>3, <3>4
  <2>3. CASE TxWrite(r)
    BY <2>3, <2>2 DEF TxWrite
  <2>4. CASE TxWriteFails(r)
    BY <2>4, <2>0 DEF TxWriteFails, DbError
  <2>5. CASE Commit(r)
    BY <2>5, <2>0 DEF Commit
  <2>6. CASE CommitFails(r)
    BY <2>6, <2>0 DEF CommitFails, DbError
  <2>7. CASE EnterDegraded(r)
    BY <2>7, <2>0 DEF EnterDegraded
  <2>8. CASE MarkStore(r)
    <3>1. CASE at[r] < LastStore
      BY <2>8, <2>0, <3>1 DEF MarkStore
    <3>2. CASE ~(at[r] < LastStore)
      BY <2>8, <2>0, <3>2 DEF MarkStore
    <3>3. QED
      BY <3>1, <3>2
  <2>9. CASE SaveCached(r)
    BY <2>9, <2>2 DEF SaveCached, NextSave
  <2>10. CASE SaveDials(r)
    BY <2>10, <2>0 DEF SaveDials
  <2>11. CASE DialSucceeds(r)
    BY <2>11, <2>2 DEF DialSucceeds, NextSave
  <2>12. CASE DialFails(r)
    BY <2>12, <2>0 DEF DialFails
  <2>13. CASE AppendChain(r)
    BY <2>13, <2>0 DEF AppendChain
  <2>14. CASE AppendFails(r)
    BY <2>14, <2>0 DEF AppendFails
  <2>15. CASE MirrorSkipped(r)
    BY <2>15, <2>0 DEF MirrorSkipped
  <2>16. CASE MirrorDials(r)
    BY <2>16, <2>0 DEF MirrorDials
  <2>17. CASE MirrorSucceeds(r)
    BY <2>17, <2>0 DEF MirrorSucceeds
  <2>18. CASE MirrorFails(r)
    BY <2>18, <2>0 DEF MirrorFails, DbError
  <2>19. QED
    BY <1>3, <2>1, <2>3, <2>4, <2>5, <2>6, <2>7, <2>8, <2>9, <2>10, <2>11,
       <2>12, <2>13, <2>14, <2>15, <2>16, <2>17, <2>18 DEF Thread
<1>4. CASE UNCHANGED vars
  BY <1>4 DEF vars, CacheInv, PastStores, Stored
<1>5. QED
  BY <1>1, <1>2, <1>3, <1>4 DEF Next

\* In every mode a thread that leaves evidence has its decision, input and
\* policy in the stores that serve reads.
THEOREM EvidenceIsBacked == Spec => []EvidenceBacked
<1>1. Spec => []TypeInv
  BY TypeInit, TypeStep, PTL DEF Spec
<1>2. CacheInv => EvidenceBacked
  BY DEF CacheInv, EvidenceBacked
<1>3. QED
  BY <1>1, <1>2, CacheInit, CacheStep, PTL DEF Spec

LEMMA ChainInit == Init => ChainInv
BY DEF Init, ChainInv, AnsweredOnceRecorded, Recorded

\* A decision enters the chain once, when its thread appends.
LEMMA ChainStep == TypeInv /\ ChainInv /\ [Next]_vars => ChainInv'
<1> SUFFICES ASSUME TypeInv, ChainInv, [Next]_vars PROVE ChainInv'
  OBVIOUS
<1> USE DEF TypeInv, TypeOK, ChainInv, AnsweredOnceRecorded, LastTable,
            LastStore
<1>0. ASSUME UNCHANGED chain
      PROVE  /\ \A q \in Requests : Recorded(q)' <=> Recorded(q)
             /\ \A i, j \in DOMAIN chain' : chain'[i] = chain'[j] => i = j
  BY <1>0 DEF Recorded
<1>1. CASE Boot
  BY <1>1, <1>0 DEF Boot
<1>2. CASE Crash
  BY <1>2, <1>0 DEF Crash, Settled
<1>3. ASSUME NEW r \in Requests, Thread(r) PROVE ChainInv'
  <2> USE DEF Goto, AtTable
  <2>1. CASE Begin(r)
    BY <2>1, <1>0 DEF Begin, DbError
  <2>2. CASE TxWrite(r)
    BY <2>2, <1>0 DEF TxWrite
  <2>3. CASE TxWriteFails(r)
    BY <2>3, <1>0 DEF TxWriteFails, DbError
  <2>4. CASE Commit(r)
    BY <2>4, <1>0 DEF Commit
  <2>5. CASE CommitFails(r)
    BY <2>5, <1>0 DEF CommitFails, DbError
  <2>6. CASE EnterDegraded(r)
    BY <2>6, <1>0 DEF EnterDegraded
  <2>7. CASE MarkStore(r)
    BY <2>7, <1>0 DEF MarkStore
  <2>8. CASE SaveCached(r)
    BY <2>8, <1>0 DEF SaveCached, NextSave
  <2>9. CASE SaveDials(r)
    BY <2>9, <1>0 DEF SaveDials
  <2>10. CASE DialSucceeds(r)
    BY <2>10, <1>0 DEF DialSucceeds, NextSave
  <2>11. CASE DialFails(r)
    BY <2>11, <1>0 DEF DialFails
  <2>12. CASE AppendChain(r)
    <3>1. \A q \in Requests : Recorded(q)' <=> Recorded(q) \/ q = r
      <4>1. /\ Len(chain') = Len(chain) + 1
            /\ chain'[Len(chain) + 1] = r
            /\ \A i \in 1..Len(chain) : chain'[i] = chain[i]
        BY <2>12 DEF AppendChain
      <4>2. DOMAIN chain = 1..Len(chain) /\ DOMAIN chain' = 1..Len(chain) + 1
        BY <2>12, <4>1 DEF AppendChain
      <4>3. Len(chain) \in Nat
        OBVIOUS
      <4>4. \A q \in Requests : Recorded(q)' => Recorded(q) \/ q = r
        BY <4>1, <4>2, <4>3 DEF Recorded
      <4>5. \A q \in Requests : Recorded(q) => Recorded(q)'
        BY <4>1, <4>2, <4>3 DEF Recorded
      <4>6. Recorded(r)'
        BY <4>1, <4>2, <4>3 DEF Recorded
      <4>7. QED
        BY <4>4, <4>5, <4>6
    <3>2. ~Recorded(r)
      BY <2>12 DEF AppendChain
    <3>3. \A i, j \in DOMAIN chain' : chain'[i] = chain'[j] => i = j
      BY <2>12, <3>2 DEF AppendChain, Recorded
    <3>4. QED
      BY <2>12, <3>1, <3>3 DEF AppendChain
  <2>13. CASE AppendFails(r)
    BY <2>13, <1>0 DEF AppendFails
  <2>14. CASE MirrorSkipped(r)
    BY <2>14, <1>0 DEF MirrorSkipped
  <2>15. CASE MirrorDials(r)
    BY <2>15, <1>0 DEF MirrorDials
  <2>16. CASE MirrorSucceeds(r)
    BY <2>16, <1>0 DEF MirrorSucceeds
  <2>17. CASE MirrorFails(r)
    BY <2>17, <1>0 DEF MirrorFails, DbError
  <2>18. QED
    BY <1>3, <2>1, <2>2, <2>3, <2>4, <2>5, <2>6, <2>7, <2>8, <2>9, <2>10,
       <2>11, <2>12, <2>13, <2>14, <2>15, <2>16, <2>17 DEF Thread
<1>4. CASE UNCHANGED vars
  BY <1>4, <1>0 DEF vars
<1>5. QED
  BY <1>1, <1>2, <1>3, <1>4 DEF Next

\* In every mode an answer has its evidence record, and no decision has two.
THEOREM AnsweredOnce == Spec => []AnsweredOnceRecorded
<1>1. Spec => []TypeInv
  BY TypeInit, TypeStep, PTL DEF Spec
<1>2. ChainInv => AnsweredOnceRecorded
  BY DEF ChainInv
<1>3. QED
  BY <1>1, <1>2, ChainInit, ChainStep, PTL DEF Spec
LEMMA ServiceInit == Init => Service!Init
BY DEF Init, Service!Init, Phase

\* A step of one thread that leaves the chain alone starts, ends or is hidden.
LEMMA ServiceThread ==
    ASSUME NEW r \in Requests, TypeInv,
           UNCHANGED chain,
           \A q \in Requests \ {r} : step'[q] = step[q],
           \/ Phase(r)' = Phase(r)
           \/ Phase(r) = "new" /\ Phase(r)' = "working"
           \/ Phase(r) \in {"new", "working"} /\ Phase(r)' = "failed"
           \/ Phase(r) = "working" /\ Phase(r)' = "answered" /\ Recorded(r)
    PROVE  [Service!Next]_(Service!svars)
<1> DEFINE ph == [q \in Requests |-> Phase(q)]
<1>1. \A q \in Requests \ {r} : Phase(q)' = Phase(q)
  BY DEF Phase
<1>2. CASE Phase(r)' = Phase(r)
  <2>1. ph' = ph
    BY <1>1, <1>2
  <2>2. QED
    BY <2>1 DEF Service!svars
<1>3. CASE Phase(r) = "new" /\ Phase(r)' = "working"
  <2>1. ph' = [ph EXCEPT ![r] = "working"]
    <3>1. \A q \in Requests : Phase(q)' = IF q = r THEN "working" ELSE Phase(q)
      BY <1>1, <1>3
    <3>2. QED
      BY <3>1
  <2>2. Service!Start(r)
    BY <1>3, <2>1 DEF Service!Start
  <2>3. QED
    BY <2>2 DEF Service!Next
<1>4. CASE Phase(r) \in {"new", "working"} /\ Phase(r)' = "failed"
  <2>1. ph' = [q \in Requests |-> IF q \in {r} THEN "failed" ELSE ph[q]]
    BY <1>1, <1>4
  <2>2. Service!Fail({r})
    BY <1>4, <2>1 DEF Service!Fail
  <2>3. QED
    BY <2>2 DEF Service!Next
<1>5. CASE Phase(r) = "working" /\ Phase(r)' = "answered" /\ Recorded(r)
  <2>1. ph' = [ph EXCEPT ![r] = "answered"]
    BY <1>1, <1>5
  <2>2. Service!Answer(r)
    BY <1>5, <2>1 DEF Service!Answer, Service!InTrail, Recorded
  <2>3. QED
    BY <2>2 DEF Service!Next
<1>6. QED
  BY <1>2, <1>3, <1>4, <1>5

LEMMA ServiceStep ==
    TypeInv /\ ChainInv /\ [Next]_vars => [Service!Next]_(Service!svars)
<1> SUFFICES ASSUME TypeInv, ChainInv, [Next]_vars
             PROVE  [Service!Next]_(Service!svars)
  OBVIOUS
<1> DEFINE ph == [q \in Requests |-> Phase(q)]
<1>1. CASE Boot
  <2>1. ph' = ph
    BY <1>1 DEF Boot, Phase
  <2>2. QED
    BY <1>1, <2>1 DEF Boot, Service!svars
<1>2. CASE Crash
  <2> DEFINE rs == {q \in Requests : Phase(q) = "working"}
  <2>1. \A q \in Requests : Phase(q)' = IF q \in rs THEN "failed" ELSE Phase(q)
    BY <1>2 DEF Crash, Phase, Settled, TypeInv, TypeOK
  <2>2. ph' = [q \in Requests |-> IF q \in rs THEN "failed" ELSE ph[q]]
    BY <2>1
  <2>3. Service!Fail(rs)
    BY <1>2, <2>2 DEF Crash, Service!Fail
  <2>4. rs \in SUBSET Requests
    OBVIOUS
  <2>5. QED
    BY <2>3, <2>4 DEF Service!Next
<1>3. ASSUME NEW r \in Requests, Thread(r)
      PROVE  [Service!Next]_(Service!svars)
  <2> USE DEF Goto, TypeInv, TypeOK
  <2>0. \A q \in Requests \ {r} : step'[q] = step[q]
    BY <1>3 DEF Thread, Begin, DbError, TxWrite, TxWriteFails, Commit, CommitFails,
         EnterDegraded, MarkStore, SaveCached, NextSave, SaveDials, DialSucceeds,
         DialFails, AppendChain, AppendFails, MirrorSkipped, MirrorDials,
         MirrorSucceeds, MirrorFails
  <2>1. CASE Begin(r)
    <3>1. UNCHANGED chain /\ Phase(r) = "new" /\ Phase(r)' \in {"working", "failed"}
      BY <2>1 DEF Begin, DbError, Phase
    <3>2. QED
      BY <2>0, <3>1, ServiceThread
  <2>2. CASE AppendChain(r)
    <3>1. ph' = ph
      BY <2>0, <2>2 DEF AppendChain, Phase
    <3>2. Phase(r) = "working" /\ ~Recorded(r)
      BY <2>2 DEF AppendChain, Phase, ChainInv
    <3>3. Service!Record(r)
      BY <2>2, <3>1, <3>2 DEF AppendChain, Service!Record, Service!InTrail, Recorded
    <3>4. QED
      BY <3>3 DEF Service!Next
  <2>3. CASE TxWrite(r) \/ EnterDegraded(r) \/ MarkStore(r) \/ SaveCached(r)
             \/ SaveDials(r) \/ DialSucceeds(r) \/ MirrorDials(r) \/ Commit(r)
    <3>1. UNCHANGED chain
      BY <2>3 DEF TxWrite, EnterDegraded, MarkStore, SaveCached, SaveDials,
           DialSucceeds, MirrorDials, Commit
    <3>2. CASE step'[r] # "answered"
      <4>1. Phase(r)' = Phase(r)
        BY <2>3, <3>2 DEF Phase, TxWrite, EnterDegraded, MarkStore, SaveCached,
             SaveDials, DialSucceeds, MirrorDials, Commit, NextSave
      <4>2. QED
        BY <2>0, <3>1, <4>1, ServiceThread
    <3>3. CASE step'[r] = "answered"
      <4>1. step[r] \in {"enter", "mark"} /\ resume[r] = "answered"
        BY <2>3, <3>3 DEF TxWrite, EnterDegraded, MarkStore, SaveCached,
             SaveDials, DialSucceeds, MirrorDials, Commit, NextSave
      <4>2. Recorded(r) /\ Phase(r) = "working" /\ Phase(r)' = "answered"
        BY <3>3, <4>1 DEF Phase, ChainInv
      <4>3. QED
        BY <2>0, <3>1, <4>2, ServiceThread
    <3>4. QED
      BY <3>2, <3>3
  <2>4. CASE TxWriteFails(r) \/ CommitFails(r) \/ DialFails(r) \/ AppendFails(r)
             \/ MirrorFails(r)
    <3>1. /\ UNCHANGED chain
          /\ Phase(r) = "working"
          /\ Phase(r)' \in {"working", "failed"}
      BY <2>4 DEF Phase, TxWriteFails, CommitFails, DialFails, AppendFails,
           MirrorFails, DbError
    <3>2. QED
      BY <2>0, <3>1, ServiceThread
  <2>5. CASE MirrorSkipped(r) \/ MirrorSucceeds(r)
    <3>1. /\ UNCHANGED chain
          /\ Phase(r) = "working" /\ Phase(r)' = "answered"
          /\ Recorded(r)
      BY <2>5 DEF Phase, MirrorSkipped, MirrorSucceeds, ChainInv
    <3>2. QED
      BY <2>0, <3>1, ServiceThread
  <2>6. QED
    BY <1>3, <2>1, <2>2, <2>3, <2>4, <2>5 DEF Thread
<1>4. CASE UNCHANGED vars
  <2>1. ph' = ph
    BY <1>4 DEF vars, Phase
  <2>2. QED
    BY <1>4, <2>1 DEF vars, Service!svars
<1>5. QED
  BY <1>1, <1>2, <1>3, <1>4 DEF Next

\* For any requests, policies and modes the write path with its transactions,
\* degradation and crashes implements the service its callers rely on.
THEOREM Implementation == Spec => ImplementsService
<1>1. Spec => []TypeInv
  BY TypeInit, TypeStep, PTL DEF Spec
<1>2. Spec => []ChainInv
  BY <1>1, ChainInit, ChainStep, PTL DEF Spec
<1>3. QED
  BY <1>1, <1>2, ServiceInit, ServiceStep, PTL DEF Spec, ImplementsService, Service!Spec

-----------------------------------------------------------------------------
(* What a step may never do to the database.                               *)

\* The process is up in every step of a thread, and a thread starts and stops
\* no process.
LEMMA ThreadUp ==
    ASSUME NEW r \in Requests, Thread(r)
    PROVE  up /\ up' = up
BY DEF Thread, Begin, TxWrite, TxWriteFails, Commit, CommitFails,
       EnterDegraded, MarkStore, SaveCached, SaveDials, DialSucceeds,
       DialFails, AppendChain, AppendFails, MirrorSkipped, MirrorDials,
       MirrorSucceeds, MirrorFails

\* Only the marking of stores changes what is enabled, and only the flag's
\* setting the flag.
LEMMA ThreadStores ==
    ASSUME NEW r \in Requests, Thread(r)
    PROVE  /\ enabled' \subseteq enabled
           /\ enabled' # enabled => step[r] = "mark"
           /\ degraded' = degraded \/ degraded'
BY DEF Thread, Begin, TxWrite, TxWriteFails, Commit, CommitFails,
       EnterDegraded, MarkStore, SaveCached, SaveDials, DialSucceeds,
       DialFails, AppendChain, AppendFails, MirrorSkipped, MirrorDials,
       MirrorSucceeds, MirrorFails

LEMMA DownStep == TypeInv /\ DownInv /\ [Next]_vars => DownInv'
<1> SUFFICES ASSUME TypeInv, DownInv, [Next]_vars PROVE DownInv'
  OBVIOUS
<1>1. CASE Boot
  <2>1. PICK on \in Bootstrapped :
          enabled' = IF DbConfigured /\ "decisions" \notin on /\ ~strict
                       THEN {} ELSE on
    BY <1>1 DEF Boot
  <2>2. ~DbConfigured => on = {}
    BY <2>1 DEF Bootstrapped
  <2>3. up'
    BY <1>1 DEF Boot
  <2>4. QED
    BY <2>1, <2>2, <2>3 DEF DownInv
<1>2. CASE Crash
  BY <1>2 DEF Crash, DownInv
<1>3. ASSUME NEW r \in Requests, Thread(r) PROVE DownInv'
  BY <1>3, ThreadUp, ThreadStores DEF DownInv
<1>4. CASE UNCHANGED vars
  BY <1>4 DEF vars, DownInv
<1>5. QED
  BY <1>1, <1>2, <1>3, <1>4 DEF Next

\* A thread that begins while every store is up begins a transaction, and only
\* a thread that has set the flag marks stores and saves one by one.
LEMMA TransactionStep ==
    TypeInv /\ DownInv /\ CacheInv /\ TransactionInv /\ [Next]_vars => TransactionInv'
<1> SUFFICES ASSUME TypeInv, DownInv, CacheInv, TransactionInv, [Next]_vars,
                    ~degraded', enabled' = StoreNames
             PROVE  TransactionInv'
  BY DEF TransactionInv
<1> USE DEF TypeInv, TypeOK, TransactionInv
<1>1. CASE Boot
  BY <1>1 DEF Boot, CacheInv, Settled
<1>2. CASE Crash
  BY <1>2 DEF Crash, StoreNames
<1>3. ASSUME NEW r \in Requests, Thread(r) PROVE TransactionInv'
  <2> USE DEF Goto
  <2>0. ~degraded /\ enabled = StoreNames /\ DbConfigured /\ step[r] # "mark"
    <3>1. ~degraded
      BY <1>3 DEF Thread, Begin, TxWrite, TxWriteFails, Commit, CommitFails,
           EnterDegraded, MarkStore, SaveCached, SaveDials, DialSucceeds,
           DialFails, AppendChain, AppendFails, MirrorSkipped, MirrorDials,
           MirrorSucceeds, MirrorFails
    <3>2. enabled = StoreNames
      BY <1>3, ThreadStores
    <3>3. QED
      BY <3>1, <3>2 DEF DownInv, StoreNames
  <2>1. CASE Begin(r)
    BY <2>0, <2>1 DEF Begin, DbError, Durable
  <2>2. CASE TxWrite(r)
    <3>1. at[r] \in 1..3
      BY <2>2 DEF TxWrite, AtTable, LastTable
    <3>2. Stores[at[r]] \in enabled
      BY <2>0, <3>1, StoreIndex
    <3>3. staged' = [staged EXCEPT ![r] = @ \union {Stores[at[r]]}]
      BY <2>2, <3>2 DEF TxWrite
    <3>4. at[r] = 1 \/ at[r] = 2 \/ at[r] = 3
      BY <3>1
    <3>5. CASE at[r] = 1
      BY <2>0, <2>2, <3>3, <3>5, StoreOrder DEF TxWrite, LastTable
    <3>6. CASE at[r] = 2
      BY <2>0, <2>2, <3>3, <3>6, StoreOrder DEF TxWrite, LastTable
    <3>7. CASE at[r] = 3
      <4>1. staged'[r] = Tables
        BY <2>0, <2>2, <3>3, <3>7, StoreOrder DEF TxWrite, Tables
      <4>2. QED
        BY <2>0, <2>2, <3>3, <3>7, <4>1 DEF TxWrite, LastTable
    <3>8. QED
      BY <3>4, <3>5, <3>6, <3>7
  <2>3. CASE TxWriteFails(r)
    BY <2>0, <2>3 DEF TxWriteFails, DbError, Rollback
  <2>4. CASE Commit(r)
    BY <2>0, <2>4 DEF Commit
  <2>5. CASE CommitFails(r)
    BY <2>0, <2>5 DEF CommitFails, DbError, Rollback
  <2>6. CASE AppendChain(r) \/ AppendFails(r) \/ MirrorSkipped(r) \/ MirrorDials(r)
    BY <2>0, <2>6 DEF AppendChain, AppendFails, MirrorSkipped, MirrorDials
  <2>7. CASE MirrorSucceeds(r) \/ MirrorFails(r)
    BY <2>0, <2>7 DEF MirrorSucceeds, MirrorFails, DbError
  <2>8. /\ ~EnterDegraded(r) /\ ~MarkStore(r) /\ ~SaveCached(r)
        /\ ~SaveDials(r) /\ ~DialSucceeds(r) /\ ~DialFails(r)
    BY <2>0 DEF EnterDegraded, MarkStore, SaveCached, SaveDials, DialSucceeds,
           DialFails
  <2>9. QED
    BY <1>3, <2>1, <2>2, <2>3, <2>4, <2>5, <2>6, <2>7, <2>8 DEF Thread
<1>4. CASE UNCHANGED vars
  BY <1>4 DEF vars
<1>5. QED
  BY <1>1, <1>2, <1>3, <1>4 DEF Next

LEMMA PathInductive == Spec => [](TypeInv /\ DownInv /\ CacheInv /\ TransactionInv)
<1>1. Init => TypeInv /\ DownInv /\ CacheInv /\ TransactionInv
  BY TypeInit, CacheInit DEF Init, DownInv, TransactionInv, StoreNames
<1>2. TypeInv /\ DownInv /\ CacheInv /\ TransactionInv /\ [Next]_vars
         => (TypeInv /\ DownInv /\ CacheInv /\ TransactionInv)'
  BY TypeStep, DownStep, CacheStep, TransactionStep
<1>3. QED
  BY <1>1, <1>2, PTL DEF Spec

\* Applying a whole transaction adds one decision row, and the two it needs.
LEMMA WholeCommit ==
    ASSUME TypeInv, TransactionInv, ~degraded, enabled = StoreNames,
           NEW t \in Requests, step[t] = "commit", ApplyStaged(t),
           NEW r \in Requests, r \in pg'["decisions"] \ pg["decisions"]
    PROVE  Stored(pg', r)
<1>1. staged[t] = Tables
  BY DEF TransactionInv
<1>2. \A s \in Tables : pg'[s] = pg[s] \union {Row(s, t)}
  BY <1>1 DEF ApplyStaged, TypeInv, TypeOK
<1>3. r = t
  BY <1>2 DEF Tables, Row
<1>4. QED
  BY <1>2, <1>3 DEF Stored

\* "Either all three commit or none of them do" (system.py:250): while every
\* store is up and nothing is degraded, no thread, failed statement or
\* ambiguous commit makes a decision row appear without its input and policy.
THEOREM WholeCommits == Spec => WholeUnlessDegraded
<1>1. ASSUME TypeInv, TransactionInv, [Next]_vars, ~degraded, enabled = StoreNames,
             NEW r \in Requests, r \in pg'["decisions"] \ pg["decisions"]
      PROVE  Stored(pg', r)
  <2> USE DEF TypeInv, TypeOK
  <2>1. CASE Boot
    BY <1>1, <2>1 DEF Boot, Tables
  <2>2. CASE Crash
    BY <1>1, <2>2 DEF Crash
  <2>3. ASSUME NEW t \in Requests, Thread(t) PROVE Stored(pg', r)
    <3>1. /\ ~EnterDegraded(t) \/ pg' = pg
          /\ ~MarkStore(t) /\ ~SaveCached(t)
          /\ ~SaveDials(t) /\ ~DialSucceeds(t) /\ ~DialFails(t)
      BY <1>1 DEF TransactionInv, EnterDegraded, MarkStore, SaveCached, SaveDials,
             DialSucceeds, DialFails
    <3>2. CASE Commit(t)
      BY <1>1, <3>2, WholeCommit DEF Commit
    <3>3. CASE CommitFails(t)
      BY <1>1, <3>3, WholeCommit DEF CommitFails, Rollback
    <3>4. CASE MirrorSucceeds(t) \/ MirrorFails(t)
      <4>1. pg' = Insert(pg, "evidence_mirror", t) \/ pg' = pg
        BY <3>4 DEF MirrorSucceeds, MirrorFails
      <4>2. pg'["decisions"] = pg["decisions"]
        BY <1>1, <4>1 DEF Insert, Tables
      <4>3. QED
        BY <1>1, <4>2
    <3>5. CASE \/ Begin(t) \/ TxWrite(t) \/ TxWriteFails(t) \/ AppendChain(t)
               \/ AppendFails(t) \/ MirrorSkipped(t) \/ MirrorDials(t)
      BY <1>1, <3>5 DEF Begin, TxWrite, TxWriteFails, Rollback, AppendChain, AppendFails,
             MirrorSkipped, MirrorDials
    <3>6. QED
      BY <1>1, <2>3, <3>1, <3>2, <3>3, <3>4, <3>5 DEF Thread
  <2>4. CASE UNCHANGED vars
    BY <1>1, <2>4 DEF vars
  <2>5. QED
    BY <1>1, <2>1, <2>2, <2>3, <2>4 DEF Next
<1>2. TypeInv /\ TransactionInv /\ [Next]_vars
         => [\A r \in Requests :
                /\ r \in pg'["decisions"] \ pg["decisions"]
                /\ ~degraded /\ enabled = StoreNames
                => Stored(pg', r)]_vars
  BY <1>1
<1>3. QED
  BY <1>2, PathInductive, PTL DEF Spec, WholeUnlessDegraded

\* "later calls stop dialing a dead database" (decision_store.py:362): when
\* the flag is set and every store is marked, no thread starts a call, and
\* with no call in flight Postgres stays as it is until the next start.
THEOREM DegradedIsQuiet == Spec => QuietOnceDegraded
<1>1. ASSUME TypeInv, DownInv, [Next]_vars, degraded, enabled = {}, up'
      PROVE  /\ \A r \in Requests : InFlight(r)' => InFlight(r)
             /\ (\A r \in Requests : ~InFlight(r)) => pg' = pg
  <2> USE DEF TypeInv, TypeOK, InFlight
  <2>1. ~Boot /\ ~Crash
    BY <1>1 DEF Boot, Crash, DownInv
  <2>2. ASSUME NEW t \in Requests, Thread(t)
        PROVE  /\ \A r \in Requests : InFlight(r)' => InFlight(r)
               /\ ~InFlight(t) => pg' = pg
    <3>0. ASSUME NEW x, step' = [step EXCEPT ![t] = x],
                 x \in {"tx", "commit", "dial", "dial_mirror"} => InFlight(t),
                 pg' = pg \/ InFlight(t)
          PROVE  /\ \A r \in Requests : InFlight(r)' => InFlight(r)
                 /\ ~InFlight(t) => pg' = pg
      BY <3>0
    <3> HIDE DEF TypeInv, TypeOK
    <3> USE DEF Goto
    <3>1. CASE Begin(t)
      <4>1. /\ pg' = pg
            /\ step' = [step EXCEPT ![t] = "save"]
        BY <1>1, <3>1 DEF Begin, Durable
      <4>2. QED
        BY <3>0, <4>1
    <3>2. CASE TxWrite(t) \/ TxWriteFails(t) \/ Commit(t) \/ CommitFails(t)
      <4>1. InFlight(t)
        BY <3>2 DEF TxWrite, TxWriteFails, Commit, CommitFails
      <4>2. PICK x : step' = [step EXCEPT ![t] = x]
        BY <3>2 DEF TxWrite, TxWriteFails, Commit, CommitFails, DbError
      <4>3. QED
        BY <3>0, <4>1, <4>2
    <3>3. CASE EnterDegraded(t)
      <4>1. pg' = pg /\ step' = [step EXCEPT ![t] = resume[t]]
        BY <1>1, <3>3 DEF EnterDegraded
      <4>2. resume[t] \in {"save", "answered"}
        BY <1>1 DEF TypeInv, TypeOK
      <4>3. QED
        BY <3>0, <4>1, <4>2
    <3>4. CASE MarkStore(t)
      <4>1. pg' = pg /\ (step' = step \/ step' = [step EXCEPT ![t] = resume[t]])
        BY <3>4 DEF MarkStore
      <4>2. resume[t] \in {"save", "answered"}
        BY <1>1 DEF TypeInv, TypeOK
      <4>3. QED
        BY <3>0, <4>1, <4>2
    <3>5. CASE SaveCached(t) \/ SaveDials(t)
      <4>1. pg' = pg /\ \E x \in {"append", "save"} : step' = [step EXCEPT ![t] = x]
        BY <1>1, <3>5 DEF SaveCached, SaveDials, NextSave
      <4>2. QED
        BY <3>0, <4>1
    <3>6. CASE DialSucceeds(t) \/ DialFails(t)
      <4>1. InFlight(t)
        BY <3>6 DEF DialSucceeds, DialFails
      <4>2. PICK x : step' = [step EXCEPT ![t] = x]
        BY <3>6 DEF DialSucceeds, DialFails, NextSave
      <4>3. QED
        BY <3>0, <4>1, <4>2
    <3>7. CASE AppendChain(t) \/ AppendFails(t) \/ MirrorSkipped(t) \/ MirrorDials(t)
      <4>1. /\ pg' = pg
            /\ \E x \in {"mirror", "raised", "answered"} : step' = [step EXCEPT ![t] = x]
        BY <1>1, <3>7 DEF AppendChain, AppendFails, MirrorSkipped, MirrorDials
      <4>2. QED
        BY <3>0, <4>1
    <3>8. CASE MirrorSucceeds(t) \/ MirrorFails(t)
      <4>1. InFlight(t)
        BY <3>8 DEF MirrorSucceeds, MirrorFails
      <4>2. PICK x : step' = [step EXCEPT ![t] = x]
        BY <3>8 DEF MirrorSucceeds, MirrorFails, DbError
      <4>3. QED
        BY <3>0, <4>1, <4>2
    <3>9. QED
      BY <2>2, <3>1, <3>2, <3>3, <3>4, <3>5, <3>6, <3>7, <3>8 DEF Thread
  <2>3. CASE UNCHANGED vars
    BY <2>3 DEF vars
  <2>4. QED
    BY <1>1, <2>1, <2>2, <2>3 DEF Next
<1>2. TypeInv /\ DownInv /\ [Next]_vars
         => [degraded /\ enabled = {} /\ up' =>
                /\ \A r \in Requests : InFlight(r)' => InFlight(r)
                /\ (\A r \in Requests : ~InFlight(r)) => pg' = pg]_vars
  BY <1>1
<1>3. QED
  BY <1>2, PathInductive, PTL DEF Spec, QuietOnceDegraded
=============================================================================
