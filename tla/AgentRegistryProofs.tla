------------------------- MODULE AgentRegistryProofs -------------------------
(***************************************************************************)
(* Proofs about AgentRegistry, for every number of threads, revisions,     *)
(* queued writes and process starts; and, in the second half, about        *)
(* PresenceWatch, taken as the instance Watch.                             *)
(***************************************************************************)
EXTENDS AgentRegistry, PresencePromises, WellFoundedInduction, TLAPS

\* The store is only off with nothing queued, and down with nothing cached.
OffInv ==
    /\ mode \in {"down", "memory"} => pending = <<>> /\ ~loading
    /\ mode = "down" => cache = Empty /\ acked = Empty

\* Queued writes of a revision agree with each other, with what the process
\* was told and with what it serves.
QueuedInv ==
    /\ \A i, j \in DOMAIN pending :
           pending[i].rev = pending[j].rev => pending[i].status = pending[j].status
    /\ \A i \in DOMAIN pending :
           /\ acked[pending[i].rev] \in {None, pending[i].status}
           /\ ~loading => cache[pending[i].rev] = pending[i].status

\* A write that returned is in the table, or still queued.
StoredInv ==
    mode # "memory" =>
        \A r \in Revs : acked[r] # None =>
            rows[r] = acked[r] \/ \E i \in DOMAIN pending : pending[i].rev = r

\* The cache has the writes that returned; while it is re-loaded it has them
\* as the table has them.
CacheInv ==
    \A r \in Revs : acked[r] # None =>
        cache[r] = IF loading THEN rows[r] ELSE acked[r]

\* The process has every row that it may not rewrite, and queues none that
\* would change one.
TableInv ==
    mode # "down" =>
        \A r \in Revs : foreign[r] # "unseen" =>
            /\ rows[r] \in {None, cache[r]}
            /\ \A i \in DOMAIN pending :
                   pending[i].rev = r => rows[r] \in {None, pending[i].status}

\* Nothing is newer than a write that returned but what returned later, or
\* what others wrote.
NewestInv ==
    \A m, r \in Revs : acked[m] # None /\ r > m /\ acked[r] = None /\ foreign[r] = "none" =>
        /\ rows[r] = None
        /\ \A i \in DOMAIN pending : pending[i].rev # r
        /\ cache[r] = None

IndInv == TypeOK /\ OffInv /\ QueuedInv /\ StoredInv /\ CacheInv /\ TableInv /\ NewestInv

-----------------------------------------------------------------------------

\* A non-empty set of naturals has a least element.
LEMMA LeastBound ==
    ASSUME NEW T, T \subseteq Nat, T # {}
    PROVE  \E x \in T : \A y \in T : x <= y
<1> DEFINE R == OpToRel(<, Nat)
<1>1. IsWellFoundedOn(R, Nat)
  BY NatLessThanWellFounded
<1>2. \A x, y \in Nat : <<y, x>> \in R <=> y < x
  BY DEF OpToRel
<1> HIDE DEF R
<1>3. PICK x \in T : \A y \in T : ~(<<y, x>> \in R)
  BY <1>1, WFMin
<1>4. ASSUME NEW y \in T PROVE x <= y
  <2>1. x \in Nat /\ y \in Nat
    OBVIOUS
  <2>2. ~(y < x)
    BY <1>2, <1>3, <2>1
  <2>3. QED
    BY <2>1, <2>2
<1>5. QED
  BY <1>4

\* Latest is the newest revision of a history, and 0 for an empty one.
LEMMA LatestFacts ==
    ASSUME NEW h
    PROVE  /\ Latest(h) \in 0..MaxRev
           /\ Latest(h) > 0 => h[Latest(h)] # None
           /\ \A q \in Revs : h[q] # None => q <= Latest(h)
<1> DEFINE T == {u \in 0..MaxRev : \A q \in Revs : h[q] # None => q <= u}
<1>1. T \subseteq Nat /\ MaxRev \in T
  BY BoundAssumption DEF Revs
<1>2. PICK u \in T : \A y \in T : u <= y
  <2> HIDE DEF T
  <2> QED BY <1>1, LeastBound
<1>3. u > 0 => h[u] # None
  <2> SUFFICES ASSUME u > 0, h[u] = None PROVE FALSE
    OBVIOUS
  <2>1. u - 1 \in T
    BY <1>1 DEF Revs
  <2>2. QED
    BY <1>1, <1>2, <2>1
<1>4. QED
  BY <1>2, <1>3 DEF Latest

\* Dropping an entry of a queue leaves the others.
LEMMA WithoutFacts ==
    ASSUME NEW S, NEW s \in Seq(S), NEW i \in DOMAIN s
    PROVE  /\ Without(s, i) \in Seq(S)
           /\ \A j \in DOMAIN Without(s, i) : \E k \in DOMAIN s : Without(s, i)[j] = s[k]
           /\ \A k \in DOMAIN s : k # i =>
                  \E j \in DOMAIN Without(s, i) : Without(s, i)[j] = s[k]
<1>1. Len(s) \in Nat /\ DOMAIN s = 1..Len(s) /\ i \in 1..Len(s)
  OBVIOUS
<1>2. DOMAIN Without(s, i) = 1..(Len(s) - 1)
  BY <1>1 DEF Without
<1>3. \A j \in 1..(Len(s) - 1) : Without(s, i)[j] = IF j < i THEN s[j] ELSE s[j + 1]
  BY <1>1 DEF Without
<1>4. \A j \in 1..(Len(s) - 1) : \E k \in DOMAIN s : Without(s, i)[j] = s[k]
  BY <1>1, <1>3
<1>5. Without(s, i) \in Seq(S)
  <2>1. Len(s) - 1 \in Nat
    BY <1>1
  <2>2. Without(s, i) \in [1..(Len(s) - 1) -> S]
    BY <1>1 DEF Without
  <2>3. QED
    BY <2>1, <2>2
<1>6. ASSUME NEW k \in DOMAIN s, k # i
      PROVE  \E j \in 1..(Len(s) - 1) : Without(s, i)[j] = s[k]
  <2>1. CASE k < i
    BY <1>1, <1>3, <2>1
  <2>2. CASE k > i
    <3>1. k - 1 \in 1..(Len(s) - 1) /\ ~(k - 1 < i) /\ (k - 1) + 1 = k
      BY <1>1, <2>2
    <3>2. QED
      BY <1>3, <3>1
  <2>3. QED
    BY <1>1, <1>6, <2>1, <2>2
<1>7. QED
  BY <1>2, <1>4, <1>5, <1>6

\* The entries of a queue.
LEMMA QueueFacts ==
    ASSUME NEW s \in Seq(Entries)
    PROVE  \A i \in DOMAIN s :
               s[i] \in Entries /\ s[i].rev \in Revs /\ s[i].status \in Status
                   /\ s[i].hash \in Seq(Links)
<1>1. \A i \in DOMAIN s : s[i] \in Entries
  OBVIOUS
<1>2. \A e \in Entries : e.rev \in Revs /\ e.status \in Status /\ e.hash \in Seq(Links)
  BY DEF Entries
<1>3. QED
  BY <1>1, <1>2

\* Appending to a queue keeps its entries and adds one.
LEMMA AppendFacts ==
    ASSUME NEW S, NEW s \in Seq(S), NEW e \in S
    PROVE  /\ Append(s, e) \in Seq(S)
           /\ \A i \in DOMAIN s : i \in DOMAIN Append(s, e) /\ Append(s, e)[i] = s[i]
           /\ \A j \in DOMAIN Append(s, e) :
                  Append(s, e)[j] = e \/ (j \in DOMAIN s /\ Append(s, e)[j] = s[j])
           /\ \E j \in DOMAIN Append(s, e) : Append(s, e)[j] = e
<1>1. Len(s) \in Nat /\ DOMAIN s = 1..Len(s) /\ DOMAIN Append(s, e) = 1..(Len(s) + 1)
  OBVIOUS
<1>2. \A i \in 1..Len(s) : Append(s, e)[i] = s[i]
  OBVIOUS
<1>3. Append(s, e)[Len(s) + 1] = e
  OBVIOUS
<1>4. QED
  BY <1>1, <1>2, <1>3

\* A new revision is the first free number; the current one is its history's.
LEMMA CurrentFacts ==
    ASSUME TypeOK
    PROVE  /\ Latest(cache) > 0 => Latest(cache) \in Revs /\ Current = cache[Latest(cache)]
           /\ Current \in Status \union {"absent"}
           /\ \A q \in Revs : q > Latest(cache) => cache[q] = None
<1>1. /\ Latest(cache) \in 0..MaxRev
      /\ Latest(cache) > 0 => cache[Latest(cache)] # None
      /\ \A q \in Revs : cache[q] # None => q <= Latest(cache)
  BY LatestFacts
<1>2. \A q \in Revs : q > Latest(cache) => cache[q] = None
  BY <1>1, BoundAssumption DEF Revs
<1>3. Latest(cache) > 0 => Latest(cache) \in Revs
  BY <1>1, BoundAssumption DEF Revs
<1>4. Latest(cache) = 0 => Current = "absent"
  BY DEF Current
<1>5. Latest(cache) > 0 => Current = cache[Latest(cache)]
  BY <1>1 DEF Current
<1>6. Current \in Status \union {"absent"}
  BY <1>1, <1>3, <1>4, <1>5, BoundAssumption DEF TypeOK
<1>7. QED
  BY <1>2, <1>3, <1>5, <1>6

\* Statuses are neither None nor a reader's mark.
LEMMA StatusFacts ==
    /\ None \notin Status /\ "idle" \notin Status /\ "absent" \notin Status
    /\ {"ACTIVE", "QUARANTINED", "SLEEPING", "REVOKED"} \subseteq Status
BY DEF Status, None

\* A write is one of a new revision, or of the current one as it is.
WriteOf(rev, status) ==
    /\ rev \in Revs
    /\ status \in Status
    /\ Write(rev, status)
    /\ cache[rev] \in {None, status}
    /\ \A q \in Revs : q > rev => cache[q] = None

LEMMA FreshWrite ==
    ASSUME TypeOK, NEW status \in Status, NextRev \in Revs, Write(NextRev, status)
    PROVE  WriteOf(NextRev, status)
<1>1. \A q \in Revs : q > Latest(cache) => cache[q] = None
  BY CurrentFacts
<1>2. Latest(cache) \in Nat
  BY LatestFacts, BoundAssumption
<1>3. NextRev > Latest(cache) /\ \A q \in Revs : q > NextRev => q > Latest(cache)
  BY <1>2, BoundAssumption DEF NextRev, Revs
<1>4. QED
  BY <1>1, <1>3 DEF WriteOf

LEMMA LifecycleWrite ==
    ASSUME TypeOK, NEW status \in Status, SetLifecycle(status)
    PROVE  \E rev \in Revs : WriteOf(rev, status)
<1>1. CASE Current = status
  <2>1. Latest(cache) > 0 /\ Write(Latest(cache), status)
    BY <1>1 DEF SetLifecycle
  <2>2. WriteOf(Latest(cache), status)
    BY <1>1, <2>1, CurrentFacts DEF WriteOf
  <2>3. QED
    BY <2>2 DEF WriteOf
<1>2. CASE Current # status
  <2>1. NextRev \in Revs /\ Write(NextRev, status)
    BY <1>2 DEF SetLifecycle
  <2>2. QED
    BY <2>1, FreshWrite
<1>3. QED
  BY <1>1, <1>2

\* What Flush does to the table and to the queue.
LEMMA FlushFacts ==
    ASSUME TypeOK, NEW e \in Entries, Flush(e)
    PROVE  /\ \/ UNCHANGED <<rows, hashes, foreign>>
              \/ mode # "memory" /\ Upsert(e)
           /\ \/ UNCHANGED pending
              \/ mode # "memory" /\ pending' = Append(pending, e)
           /\ mode # "memory" => pending' = Append(pending, e) \/ Upsert(e)
           /\ head' \in {head, e.hash}
BY DEF Flush, Queue

LEMMA UpsertType ==
    ASSUME TypeOK, NEW e \in Entries, Upsert(e)
    PROVE  /\ rows' \in [Revs -> Status \union {None}]
           /\ hashes' \in [Revs -> Seq(Links)]
           /\ foreign' \in [Revs -> {"none", "unseen", "seen"}]
           /\ rows'[e.rev] = e.status
           /\ \A r \in Revs : r # e.rev => rows'[r] = rows[r] /\ foreign'[r] = foreign[r]
           /\ foreign'[e.rev] = "none" <=> foreign[e.rev] = "none"
BY DEF TypeOK, Upsert, Entries

\* The effect of a write on everything but the readers.
LEMMA WriteFacts ==
    ASSUME TypeOK, NEW rev \in Revs, NEW status \in Status, Write(rev, status)
    PROVE  /\ mode # "down" /\ ~loading /\ UNCHANGED <<mode, boots, loading>>
           /\ cache' = [cache EXCEPT ![rev] = status]
           /\ acked' = [acked EXCEPT ![rev] = status]
           /\ rows' \in [Revs -> Status \union {None}]
           /\ hashes' \in [Revs -> Seq(Links)]
           /\ head' \in Seq(Links)
           /\ pending' \in Seq(Entries)
           /\ foreign' \in [Revs -> {"none", "unseen", "seen"}]
           /\ rows'[rev] \in {rows[rev], status}
           /\ \A r \in Revs : r # rev => rows'[r] = rows[r] /\ foreign'[r] = foreign[r]
           /\ rows'[rev] = status \/ foreign'[rev] = foreign[rev]
           /\ foreign'[rev] = "none" <=> foreign[rev] = "none"
           /\ mode = "memory" => pending' = pending
           /\ mode # "memory" =>
                  rows'[rev] = status \/ \E i \in DOMAIN pending' : pending'[i].rev = rev
           /\ \A i \in DOMAIN pending :
                  \E j \in DOMAIN pending' : pending'[j] = pending[i]
           /\ \A i \in DOMAIN pending' :
                  \/ pending'[i].rev = rev /\ pending'[i].status = status
                  \/ i \in DOMAIN pending /\ pending'[i] = pending[i]
<1> DEFINE e == [rev |-> rev, status |-> status, hash |-> Append(head, <<rev, status>>)]
<1>1. /\ mode # "down" /\ ~loading /\ UNCHANGED <<mode, boots, loading>>
      /\ cache' = [cache EXCEPT ![rev] = status]
      /\ acked' = [acked EXCEPT ![rev] = status]
      /\ Flush(e)
  BY DEF Write, Unlocked
<1>2. Append(head, <<rev, status>>) \in Seq(Links)
  BY DEF TypeOK, Links
<1>3. e \in Entries /\ e.rev = rev /\ e.status = status /\ e.hash \in Seq(Links)
  BY <1>2 DEF Entries
<1> HIDE DEF e
<1>4. /\ UNCHANGED <<rows, hashes, foreign>> \/ (mode # "memory" /\ Upsert(e))
      /\ UNCHANGED pending \/ (mode # "memory" /\ pending' = Append(pending, e))
      /\ mode # "memory" => pending' = Append(pending, e) \/ Upsert(e)
      /\ head' \in {head, e.hash}
  BY <1>1, <1>3, FlushFacts
<1>5. /\ rows' \in [Revs -> Status \union {None}]
      /\ hashes' \in [Revs -> Seq(Links)]
      /\ foreign' \in [Revs -> {"none", "unseen", "seen"}]
      /\ rows'[rev] \in {rows[rev], status}
      /\ \A r \in Revs : r # rev => rows'[r] = rows[r] /\ foreign'[r] = foreign[r]
      /\ rows'[rev] = status \/ foreign'[rev] = foreign[rev]
      /\ foreign'[rev] = "none" <=> foreign[rev] = "none"
      /\ Upsert(e) => rows'[rev] = status
  <2>1. CASE UNCHANGED <<rows, hashes, foreign>> /\ ~Upsert(e)
    BY <2>1 DEF TypeOK
  <2>2. CASE Upsert(e)
    BY <1>3, <2>2, UpsertType
  <2>3. QED
    BY <1>4, <2>1, <2>2
<1>6. head' \in Seq(Links)
  BY <1>3, <1>4 DEF TypeOK
<1>7. pending \in Seq(Entries)
  BY DEF TypeOK
<1>8. CASE UNCHANGED pending /\ pending' # Append(pending, e)
  BY <1>1, <1>4, <1>5, <1>6, <1>7, <1>8
<1>9. CASE mode # "memory" /\ pending' = Append(pending, e)
  <2>1. /\ pending' \in Seq(Entries)
        /\ \A i \in DOMAIN pending : i \in DOMAIN pending' /\ pending'[i] = pending[i]
        /\ \A j \in DOMAIN pending' :
               pending'[j] = e \/ (j \in DOMAIN pending /\ pending'[j] = pending[j])
        /\ \E j \in DOMAIN pending' : pending'[j] = e
    BY <1>3, <1>7, <1>9, AppendFacts
  <2>2. QED
    BY <1>1, <1>3, <1>5, <1>6, <1>9, <2>1
<1>10. pending # Append(pending, e)
  <2>1. Len(Append(pending, e)) = Len(pending) + 1 /\ Len(pending) \in Nat
    BY <1>3, <1>7
  <2>2. QED
    BY <2>1
<1>11. QED
  BY <1>4, <1>8, <1>9, <1>10

\* A write leaves the readers' marks well typed if it is part of an action.
LEMMA WriteInd ==
    ASSUME IndInv, NEW rev \in Revs, NEW status \in Status, WriteOf(rev, status)
    PROVE  /\ saw' \in [Threads -> Status \union {"idle", "absent"}] => TypeOK'
           /\ OffInv' /\ QueuedInv' /\ StoredInv' /\ CacheInv' /\ TableInv' /\ NewestInv'
<1>0. TypeOK /\ Write(rev, status) /\ cache[rev] \in {None, status}
  BY DEF IndInv, WriteOf
<1>1. /\ mode # "down" /\ ~loading /\ UNCHANGED <<mode, boots, loading>>
      /\ cache' = [cache EXCEPT ![rev] = status]
      /\ acked' = [acked EXCEPT ![rev] = status]
      /\ rows' \in [Revs -> Status \union {None}]
      /\ hashes' \in [Revs -> Seq(Links)]
      /\ head' \in Seq(Links)
      /\ pending' \in Seq(Entries)
      /\ foreign' \in [Revs -> {"none", "unseen", "seen"}]
      /\ rows'[rev] \in {rows[rev], status}
      /\ \A r \in Revs : r # rev => rows'[r] = rows[r] /\ foreign'[r] = foreign[r]
      /\ rows'[rev] = status \/ foreign'[rev] = foreign[rev]
      /\ foreign'[rev] = "none" <=> foreign[rev] = "none"
      /\ mode = "memory" => pending' = pending
      /\ mode # "memory" =>
             rows'[rev] = status \/ \E i \in DOMAIN pending' : pending'[i].rev = rev
      /\ \A i \in DOMAIN pending : \E j \in DOMAIN pending' : pending'[j] = pending[i]
      /\ \A i \in DOMAIN pending' :
             \/ pending'[i].rev = rev /\ pending'[i].status = status
             \/ i \in DOMAIN pending /\ pending'[i] = pending[i]
  BY <1>0, WriteFacts
<1>2. /\ cache \in [Revs -> Status \union {None}]
      /\ acked \in [Revs -> Status \union {None}]
      /\ pending \in Seq(Entries)
  BY <1>0 DEF TypeOK
<1>3. /\ cache'[rev] = status /\ acked'[rev] = status
      /\ \A r \in Revs : r # rev => cache'[r] = cache[r] /\ acked'[r] = acked[r]
  BY <1>1, <1>2
<1>4. status # None
  BY StatusFacts
<1>5. \A i \in DOMAIN pending : pending[i].rev \in Revs /\ pending[i].status \in Status
  BY <1>2, QueueFacts
<1>6. \A i \in DOMAIN pending' : pending'[i].rev \in Revs /\ pending'[i].status \in Status
  BY <1>1, QueueFacts
<1>7. \A i \in DOMAIN pending : pending[i].rev = rev => pending[i].status = status
  BY <1>0, <1>1, <1>5, StatusFacts DEF IndInv, QueuedInv
<1>8. saw' \in [Threads -> Status \union {"idle", "absent"}] => TypeOK'
  <2>1. cache' \in [Revs -> Status \union {None}] /\ acked' \in [Revs -> Status \union {None}]
    BY <1>1, <1>2
  <2>2. QED
    BY <1>0, <1>1, <2>1 DEF TypeOK
<1>9. OffInv'
  BY <1>1 DEF IndInv, OffInv
<1>10. QueuedInv'
  <2>1. ASSUME NEW i \in DOMAIN pending', NEW j \in DOMAIN pending',
               pending'[i].rev = pending'[j].rev
        PROVE  pending'[i].status = pending'[j].status
    <3>1. \A k \in DOMAIN pending' :
              \/ pending'[k].rev = rev /\ pending'[k].status = status
              \/ k \in DOMAIN pending /\ pending'[k] = pending[k]
      BY <1>1
    <3>2. QED
      BY <1>7, <2>1, <3>1 DEF IndInv, QueuedInv
  <2>2. ASSUME NEW i \in DOMAIN pending'
        PROVE  /\ acked'[pending'[i].rev] \in {None, pending'[i].status}
               /\ ~loading' => cache'[pending'[i].rev] = pending'[i].status
    <3>1. CASE pending'[i].rev = rev
      <4>1. pending'[i].status = status
        BY <1>1, <1>7, <3>1
      <4>2. QED
        BY <1>3, <3>1, <4>1
    <3>2. CASE pending'[i].rev # rev
      BY <1>1, <1>3, <1>6, <3>2 DEF IndInv, QueuedInv
    <3>3. QED
      BY <3>1, <3>2
  <2>3. QED
    BY <2>1, <2>2 DEF QueuedInv
<1>11. StoredInv'
  <2> SUFFICES ASSUME mode' # "memory", NEW r \in Revs, acked'[r] # None
               PROVE  rows'[r] = acked'[r] \/ \E i \in DOMAIN pending' : pending'[i].rev = r
    BY DEF StoredInv
  <2>1. CASE r = rev
    BY <1>1, <1>3, <2>1
  <2>2. CASE r # rev
    <3>1. rows[r] = acked[r] \/ \E i \in DOMAIN pending : pending[i].rev = r
      BY <1>1, <1>3, <2>2 DEF IndInv, StoredInv
    <3>2. QED
      BY <1>1, <1>3, <2>2, <3>1
  <2>3. QED
    BY <2>1, <2>2
<1>12. CacheInv'
  BY <1>1, <1>3 DEF IndInv, CacheInv
<1>13. TableInv'
  <2> SUFFICES ASSUME NEW r \in Revs, foreign'[r] # "unseen"
               PROVE  /\ rows'[r] \in {None, cache'[r]}
                      /\ \A i \in DOMAIN pending' :
                             pending'[i].rev = r => rows'[r] \in {None, pending'[i].status}
    BY DEF TableInv
  <2>1. CASE r = rev
    <3>1. rows'[rev] \in {None, status}
      BY <1>0, <1>1, <2>1 DEF IndInv, TableInv
    <3>2. \A i \in DOMAIN pending' : pending'[i].rev = rev => pending'[i].status = status
      BY <1>1, <1>7
    <3>3. QED
      BY <1>3, <2>1, <3>1, <3>2
  <2>2. CASE r # rev
    <3>1. rows'[r] = rows[r] /\ foreign'[r] = foreign[r] /\ cache'[r] = cache[r]
      BY <1>1, <1>3, <2>2
    <3>2. QED
      BY <1>1, <2>2, <3>1 DEF IndInv, TableInv
  <2>3. QED
    BY <2>1, <2>2
<1>14. NewestInv'
  <2> SUFFICES ASSUME NEW m \in Revs, NEW r \in Revs, acked'[m] # None, r > m,
                      acked'[r] = None, foreign'[r] = "none"
               PROVE  /\ rows'[r] = None
                      /\ \A i \in DOMAIN pending' : pending'[i].rev # r
                      /\ cache'[r] = None
    BY DEF NewestInv
  <2>0. r # rev /\ acked[r] = None /\ foreign[r] = "none"
    BY <1>1, <1>3, <1>4
  <2>1. CASE m # rev
    <3>1. acked[m] # None
      BY <1>3, <2>1
    <3>2. rows[r] = None /\ cache[r] = None /\ \A i \in DOMAIN pending : pending[i].rev # r
      BY <2>0, <3>1 DEF IndInv, NewestInv
    <3>3. QED
      BY <1>1, <1>3, <2>0, <3>2
  <2>2. CASE m = rev
    <3>1. cache[r] = None
      BY <2>2, BoundAssumption DEF WriteOf, Revs
    <3>2. rows[r] = None
      BY <1>1, <2>0, <3>1 DEF IndInv, TableInv
    <3>3. \A i \in DOMAIN pending : pending[i].rev # r
      <4>1. ~loading
        BY <1>1
      <4>2. QED
        BY <1>5, <3>1, <4>1, StatusFacts DEF IndInv, QueuedInv
    <3>4. QED
      BY <1>1, <1>3, <2>0, <3>1, <3>2, <3>3
  <2>3. QED
    BY <2>1, <2>2
<1>15. QED
  BY <1>8, <1>9, <1>10, <1>11, <1>12, <1>13, <1>14

\* A process starts with an empty queue and nothing promised.
LEMMA BootInd ==
    ASSUME IndInv, Boot
    PROVE  IndInv'
<1> USE DEF IndInv, Boot
<1>1. TypeOK' /\ acked = Empty /\ pending = <<>> /\ ~loading
  <2>1. SnapshotHead \in Seq(Links)
    BY LatestFacts, BoundAssumption DEF SnapshotHead, TypeOK, Revs
  <2>2. Empty \in [Revs -> Status \union {None}] /\ <<>> \in Seq(Links)
    BY DEF Empty
  <2>3. head' \in Seq(Links) /\ cache' \in [Revs -> Status \union {None}]
    BY <2>1, <2>2 DEF TypeOK, Snapshot
  <2>4. boots' \in 0..MaxBoots
    BY BoundAssumption DEF TypeOK
  <2>5. foreign' \in [Revs -> {"none", "unseen", "seen"}]
    BY DEF Unwritten
  <2>6. QED
    BY <2>3, <2>4, <2>5 DEF TypeOK, OffInv
<1>2. \A r \in Revs : acked'[r] = None
  BY <1>1 DEF Empty
<1>3. DOMAIN pending' = {}
  BY <1>1
<1>4. OffInv' /\ QueuedInv' /\ StoredInv' /\ CacheInv' /\ NewestInv'
  BY <1>1, <1>2, <1>3 DEF OffInv, QueuedInv, StoredInv, CacheInv, NewestInv
<1>5. TableInv'
  BY <1>3 DEF TableInv, Snapshot, Unwritten, Empty
<1>6. QED
  BY <1>1, <1>4, <1>5

LEMMA CrashInd ==
    ASSUME IndInv, Crash
    PROVE  IndInv'
<1> USE DEF IndInv, Crash
<1>1. TypeOK'
  <2>1. Empty \in [Revs -> Status \union {None}]
    BY DEF Empty
  <2>2. cache' \in [Revs -> Status \union {None}] /\ acked' \in [Revs -> Status \union {None}]
    BY <2>1
  <2>3. saw' \in [Threads -> Status \union {"idle", "absent"}]
    OBVIOUS
  <2>4. head' \in Seq(Links) /\ pending' \in Seq(Entries)
    OBVIOUS
  <2>5. QED
    BY <2>2, <2>3, <2>4 DEF TypeOK
<1>2. \A r \in Revs : acked'[r] = None
  BY DEF Empty
<1>3. DOMAIN pending' = {}
  OBVIOUS
<1>4. QED
  BY <1>1, <1>2, <1>3
     DEF OffInv, QueuedInv, StoredInv, CacheInv, NewestInv, TableInv

\* Readers change nothing but their marks.
LEMMA ReadInd ==
    ASSUME IndInv, NEW t \in Threads, Read(t) \/ Leave(t)
    PROVE  IndInv'
<1>1. /\ UNCHANGED <<mode, boots, rows, hashes, cache, head, pending, loading, acked, foreign>>
      /\ \E x \in Status \union {"idle", "absent"} : saw' = [saw EXCEPT ![t] = x]
  <2>1. Current \in Status \union {"idle", "absent"}
    BY CurrentFacts DEF IndInv
  <2>2. CASE Read(t)
    BY <2>1, <2>2 DEF Read
  <2>3. CASE Leave(t)
    BY <2>3 DEF Leave
  <2>4. QED
    BY <2>2, <2>3
<1>2. TypeOK'
  BY <1>1 DEF IndInv, TypeOK
<1>3. QED
  BY <1>1, <1>2
     DEF IndInv, OffInv, QueuedInv, StoredInv, CacheInv, NewestInv, TableInv

\* The table replaces the cache, and for a while queued writes are missing.
LEMMA LoadInd ==
    ASSUME IndInv, Load
    PROVE  IndInv'
<1> USE DEF IndInv, Load
<1>1. SnapshotHead \in Seq(Links)
  BY LatestFacts, BoundAssumption DEF SnapshotHead, TypeOK, Revs
<1>2. foreign' \in [Revs -> {"none", "unseen", "seen"}]
  BY DEF TypeOK
<1>3. TypeOK'
  BY <1>1, <1>2 DEF TypeOK, Snapshot
<1>4. \A r \in Revs : foreign'[r] = "none" <=> foreign[r] = "none"
  BY DEF TypeOK
<1>5. OffInv' /\ QueuedInv' /\ StoredInv' /\ CacheInv'
  BY DEF OffInv, QueuedInv, StoredInv, CacheInv, Snapshot
<1>6. NewestInv'
  BY <1>4 DEF NewestInv, Snapshot
<1>7. TableInv'
  <2> SUFFICES ASSUME NEW r \in Revs, foreign'[r] # "unseen",
                      NEW i \in DOMAIN pending, pending[i].rev = r
               PROVE  rows[r] \in {None, pending[i].status}
    BY DEF TableInv, Snapshot
  <2>1. foreign[r] # "unseen"
    BY DEF Queued
  <2>2. QED
    BY <2>1 DEF TableInv
<1>8. QED
  BY <1>3, <1>5, <1>6, <1>7

LEMMA PurgeInd ==
    ASSUME IndInv, Purge
    PROVE  IndInv'
<1> USE DEF IndInv, Purge
<1>1. TypeOK'
  BY DEF TypeOK, Empty, Unwritten
<1>2. \A r \in Revs : acked'[r] = None /\ rows'[r] = None
  BY DEF Empty
<1>3. \A i \in DOMAIN pending : pending[i].rev \in Revs
  BY QueueFacts DEF TypeOK
<1>4. OffInv' /\ StoredInv' /\ CacheInv' /\ NewestInv'
  BY <1>2 DEF OffInv, StoredInv, CacheInv, NewestInv
<1>5. QueuedInv' /\ TableInv'
  BY <1>2, <1>3 DEF QueuedInv, TableInv
<1>6. QED
  BY <1>1, <1>4, <1>5

\* Another writer takes a revision out of what this process is answerable for.
LEMMA ForeignInd ==
    ASSUME IndInv, NEW rev \in Revs, NEW status \in Others, Foreign(rev, status)
    PROVE  IndInv'
<1> USE DEF IndInv, Foreign
<1>0. status \in Status
  BY StatusAssumption
<1>1. /\ rows'[rev] = status /\ acked'[rev] = None /\ foreign'[rev] = "unseen"
      /\ \A r \in Revs : r # rev =>
             rows'[r] = rows[r] /\ acked'[r] = acked[r] /\ foreign'[r] = foreign[r]
  BY DEF TypeOK
<1>2. TypeOK'
  <2>1. hashes' \in [Revs -> Seq(Links)]
    <3>1. <<rev, status>> \in Links
      BY <1>0 DEF Links
    <3>2. (IF rev = 1 THEN <<>> ELSE hashes[rev - 1]) \in Seq(Links)
      BY BoundAssumption DEF TypeOK, Revs
    <3>3. QED
      BY <3>1, <3>2 DEF TypeOK
  <2>2. /\ rows' \in [Revs -> Status \union {None}]
        /\ acked' \in [Revs -> Status \union {None}]
        /\ foreign' \in [Revs -> {"none", "unseen", "seen"}]
    BY <1>0 DEF TypeOK
  <2>3. QED
    BY <2>1, <2>2 DEF TypeOK
<1>3. \A i \in DOMAIN pending : pending[i].rev \in Revs
  BY QueueFacts DEF TypeOK
<1>4. OffInv'
  <2>1. acked = Empty => acked' = Empty
    BY DEF Empty
  <2>2. QED
    BY <2>1 DEF OffInv
<1>5. QueuedInv'
  BY <1>1, <1>3 DEF QueuedInv
<1>6. StoredInv' /\ CacheInv'
  BY <1>1 DEF StoredInv, CacheInv
<1>7. TableInv'
  BY <1>1 DEF TableInv
<1>8. NewestInv'
  BY <1>1 DEF NewestInv
<1>9. QED
  BY <1>2, <1>4, <1>5, <1>6, <1>7, <1>8

\* The last queued write of a revision exists if there is one at all.
LEMMA LastQueuedFacts ==
    ASSUME TypeOK, NEW r, NEW i \in DOMAIN pending, pending[i].rev = r
    PROVE  LastQueued(r) \in DOMAIN pending /\ pending[LastQueued(r)].rev = r
<1> DEFINE T == {u \in 0..Len(pending) : \A j \in DOMAIN pending : pending[j].rev = r => j <= u}
<1>1. Len(pending) \in Nat /\ DOMAIN pending = 1..Len(pending)
  BY DEF TypeOK
<1>2. T \subseteq Nat /\ Len(pending) \in T
  BY <1>1
<1>3. PICK u \in T : \A y \in T : u <= y
  <2> HIDE DEF T
  <2> QED BY <1>2, LeastBound
<1>4. u \in DOMAIN pending
  BY <1>1
<1>5. pending[u].rev = r
  <2> SUFFICES ASSUME pending[u].rev # r PROVE FALSE
    OBVIOUS
  <2>1. u - 1 \in T
    BY <1>1, <1>4
  <2>2. QED
    BY <1>1, <1>3, <1>4, <2>1
<1>6. \E v \in DOMAIN pending :
          pending[v].rev = r /\ \A j \in DOMAIN pending : pending[j].rev = r => j <= v
  BY <1>4, <1>5
<1>7. QED
  BY <1>6 DEF LastQueued

\* What the cache has once the queued writes are applied again.
LEMMA ReappliedFacts ==
    ASSUME TypeOK, QueuedInv
    PROVE  /\ Reapplied \in [Revs -> Status \union {None}]
           /\ \A r \in Revs : \/ \E i \in DOMAIN pending : pending[i].rev = r
                              \/ Reapplied[r] = cache[r]
           /\ \A i \in DOMAIN pending : Reapplied[pending[i].rev] = pending[i].status
<1>1. \A i \in DOMAIN pending : pending[i].rev \in Revs /\ pending[i].status \in Status
  BY QueueFacts DEF TypeOK
<1>2. ASSUME NEW r \in Revs, NEW i \in DOMAIN pending, pending[i].rev = r
      PROVE  Reapplied[r] = pending[i].status
  <2>1. LastQueued(r) \in DOMAIN pending /\ pending[LastQueued(r)].rev = r
    BY <1>2, LastQueuedFacts
  <2>2. pending[LastQueued(r)].status = pending[i].status
    BY <1>2, <2>1 DEF QueuedInv
  <2>3. QED
    BY <1>2, <2>2 DEF Reapplied, Queued
<1>3. ASSUME NEW r \in Revs, ~\E i \in DOMAIN pending : pending[i].rev = r
      PROVE  Reapplied[r] = cache[r]
  BY <1>3 DEF Reapplied, Queued
<1>4. \A r \in Revs : Reapplied[r] \in Status \union {None}
  <2> SUFFICES ASSUME NEW r \in Revs PROVE Reapplied[r] \in Status \union {None}
    OBVIOUS
  <2>1. CASE \E i \in DOMAIN pending : pending[i].rev = r
    BY <1>1, <1>2, <2>1
  <2>2. CASE ~\E i \in DOMAIN pending : pending[i].rev = r
    BY <1>3, <2>2 DEF TypeOK
  <2>3. QED
    BY <2>1, <2>2
<1>5. Reapplied \in [Revs -> Status \union {None}]
  BY <1>4 DEF Reapplied
<1>6. QED
  BY <1>1, <1>2, <1>3, <1>5

LEMMA ReapplyInd ==
    ASSUME IndInv, Reapply
    PROVE  IndInv'
<1> USE DEF IndInv, Reapply
<1>1. /\ Reapplied \in [Revs -> Status \union {None}]
      /\ \A r \in Revs : \/ \E i \in DOMAIN pending : pending[i].rev = r
                         \/ Reapplied[r] = cache[r]
      /\ \A i \in DOMAIN pending : Reapplied[pending[i].rev] = pending[i].status
  BY ReappliedFacts
<1>2. head' \in Seq(Links)
  <2>1. CASE pending = <<>>
    BY <2>1 DEF TypeOK
  <2>2. CASE pending # <<>>
    <3>1. pending \in Seq(Entries) /\ Len(pending) \in DOMAIN pending
      BY <2>2 DEF TypeOK
    <3>2. QED
      BY <2>2, <3>1, QueueFacts
  <2>3. QED
    BY <2>1, <2>2
<1>3. TypeOK'
  BY <1>1, <1>2 DEF TypeOK
<1>4. \A i \in DOMAIN pending : pending[i].rev \in Revs /\ pending[i].status \in Status
  BY QueueFacts DEF TypeOK
<1>5. OffInv' /\ StoredInv'
  BY DEF OffInv, StoredInv
<1>6. QueuedInv'
  BY <1>1 DEF QueuedInv
<1>7. CacheInv'
  <2> SUFFICES ASSUME NEW r \in Revs, acked[r] # None PROVE Reapplied[r] = acked[r]
    BY DEF CacheInv
  <2>1. CASE \E i \in DOMAIN pending : pending[i].rev = r
    BY <1>1, <2>1 DEF QueuedInv
  <2>2. CASE ~\E i \in DOMAIN pending : pending[i].rev = r
    <3>1. mode # "memory" /\ Reapplied[r] = cache[r]
      BY <1>1, <2>2 DEF OffInv
    <3>2. rows[r] = acked[r] /\ cache[r] = rows[r]
      BY <2>2, <3>1 DEF StoredInv, CacheInv
    <3>3. QED
      BY <3>1, <3>2
  <2>3. QED
    BY <2>1, <2>2
<1>8. TableInv'
  <2> SUFFICES ASSUME NEW r \in Revs, foreign[r] # "unseen"
               PROVE  rows[r] \in {None, Reapplied[r]}
    BY DEF TableInv, OffInv
  <2>0. mode # "down"
    BY DEF OffInv
  <2>1. CASE \E i \in DOMAIN pending : pending[i].rev = r
    BY <1>1, <2>0, <2>1 DEF TableInv
  <2>2. CASE ~\E i \in DOMAIN pending : pending[i].rev = r
    BY <1>1, <2>0, <2>2 DEF TableInv
  <2>3. QED
    BY <2>1, <2>2
<1>9. NewestInv'
  BY <1>1 DEF NewestInv
<1>10. QED
  BY <1>3, <1>5, <1>6, <1>7, <1>8, <1>9

\* A queued write that reaches the table puts there what was promised.
LEMMA ReplayInd ==
    ASSUME IndInv, NEW i \in DOMAIN pending, Replay(i)
    PROVE  IndInv'
<1> DEFINE e == pending[i]
<1>0. TypeOK /\ pending \in Seq(Entries)
  BY DEF IndInv, TypeOK
<1>1. e \in Entries /\ e.rev \in Revs /\ e.status \in Status /\ e.hash \in Seq(Links)
  BY <1>0, QueueFacts
<1>2. /\ ~loading /\ Upsert(e) /\ UNCHANGED <<mode, boots, cache, loading, saw, acked>>
      /\ \/ head' = e.hash /\ pending' = Without(pending, i)
         \/ UNCHANGED <<head, pending>>
  BY DEF Replay, Unlocked
<1>3. mode \notin {"down", "memory"}
  <2>1. pending # <<>>
    OBVIOUS
  <2>2. QED
    BY <2>1 DEF IndInv, OffInv
<1>4. /\ rows' \in [Revs -> Status \union {None}]
      /\ hashes' \in [Revs -> Seq(Links)]
      /\ foreign' \in [Revs -> {"none", "unseen", "seen"}]
      /\ rows'[e.rev] = e.status
      /\ \A r \in Revs : r # e.rev => rows'[r] = rows[r] /\ foreign'[r] = foreign[r]
      /\ foreign'[e.rev] = "none" <=> foreign[e.rev] = "none"
  BY <1>0, <1>1, <1>2, UpsertType
<1>5. /\ pending' \in Seq(Entries)
      /\ \A j \in DOMAIN pending' : \E k \in DOMAIN pending : pending'[j] = pending[k]
      /\ \A k \in DOMAIN pending : k # i => \E j \in DOMAIN pending' : pending'[j] = pending[k]
  <2>1. CASE pending' = Without(pending, i)
    BY <1>0, <2>1, WithoutFacts
  <2>2. CASE pending' = pending
    BY <1>0, <2>2
  <2>3. QED
    BY <1>2, <2>1, <2>2
<1>6. \A j \in DOMAIN pending' : pending'[j].rev \in Revs /\ pending'[j].status \in Status
  BY <1>5, QueueFacts
<1>7. \A j \in DOMAIN pending' : pending'[j].rev = e.rev => pending'[j].status = e.status
  BY <1>5 DEF IndInv, QueuedInv
<1> HIDE DEF e
<1>8. TypeOK'
  <2>1. head' \in Seq(Links)
    BY <1>0, <1>1, <1>2 DEF TypeOK
  <2>2. QED
    BY <1>0, <1>2, <1>4, <1>5, <2>1 DEF TypeOK
<1>9. OffInv'
  BY <1>2, <1>3 DEF OffInv
<1>10. QueuedInv'
  <2>1. ASSUME NEW j \in DOMAIN pending', NEW k \in DOMAIN pending',
               pending'[j].rev = pending'[k].rev
        PROVE  pending'[j].status = pending'[k].status
    <3>1. PICK a \in DOMAIN pending : pending'[j] = pending[a]
      BY <1>5
    <3>2. PICK b \in DOMAIN pending : pending'[k] = pending[b]
      BY <1>5
    <3>3. QED
      BY <2>1, <3>1, <3>2 DEF IndInv, QueuedInv
  <2>2. ASSUME NEW j \in DOMAIN pending'
        PROVE  /\ acked[pending'[j].rev] \in {None, pending'[j].status}
               /\ ~loading => cache[pending'[j].rev] = pending'[j].status
    <3>1. PICK a \in DOMAIN pending : pending'[j] = pending[a]
      BY <1>5
    <3>2. QED
      BY <3>1 DEF IndInv, QueuedInv
  <2>3. QED
    BY <1>2, <2>1, <2>2 DEF QueuedInv
<1>11. StoredInv'
  <2> SUFFICES ASSUME NEW r \in Revs, acked[r] # None
               PROVE  rows'[r] = acked[r] \/ \E j \in DOMAIN pending' : pending'[j].rev = r
    BY <1>2 DEF StoredInv
  <2>1. CASE r = e.rev
    <3>1. acked[r] = e.status
      BY <2>1 DEF IndInv, QueuedInv, e
    <3>2. QED
      BY <1>4, <2>1, <3>1
  <2>2. CASE r # e.rev
    <3>1. rows[r] = acked[r] \/ \E k \in DOMAIN pending : pending[k].rev = r
      BY <1>3 DEF IndInv, StoredInv
    <3>2. ASSUME NEW k \in DOMAIN pending, pending[k].rev = r
          PROVE  \E j \in DOMAIN pending' : pending'[j].rev = r
      <4>1. k # i
        BY <2>2, <3>2 DEF e
      <4>2. QED
        BY <1>5, <3>2, <4>1
    <3>3. QED
      BY <1>4, <2>2, <3>1, <3>2
  <2>3. QED
    BY <2>1, <2>2
<1>12. CacheInv'
  BY <1>2 DEF IndInv, CacheInv
<1>13. cache[e.rev] = e.status
  BY <1>2 DEF IndInv, QueuedInv, e
<1>14. TableInv'
  <2> SUFFICES ASSUME NEW r \in Revs, foreign'[r] # "unseen"
               PROVE  /\ rows'[r] \in {None, cache[r]}
                      /\ \A j \in DOMAIN pending' :
                             pending'[j].rev = r => rows'[r] \in {None, pending'[j].status}
    BY <1>2 DEF TableInv
  <2>1. rows'[r] \in {None, cache[r]}
    BY <1>3, <1>4, <1>13 DEF IndInv, TableInv
  <2>2. ASSUME NEW j \in DOMAIN pending', pending'[j].rev = r
        PROVE  rows'[r] \in {None, pending'[j].status}
    <3>1. cache[r] = pending'[j].status
      BY <1>2, <1>5, <2>2 DEF IndInv, QueuedInv
    <3>2. QED
      BY <2>1, <3>1
  <2>3. QED
    BY <2>1, <2>2
<1>15. NewestInv'
  <2> SUFFICES ASSUME NEW m \in Revs, NEW r \in Revs, acked[m] # None, r > m,
                      acked[r] = None, foreign'[r] = "none"
               PROVE  /\ rows'[r] = None
                      /\ \A j \in DOMAIN pending' : pending'[j].rev # r
                      /\ cache[r] = None
    BY <1>2 DEF NewestInv
  <2>1. foreign[r] = "none"
    BY <1>4
  <2>2. rows[r] = None /\ cache[r] = None /\ \A k \in DOMAIN pending : pending[k].rev # r
    BY <2>1 DEF IndInv, NewestInv
  <2>3. r # e.rev
    BY <2>2 DEF e
  <2>4. QED
    BY <1>4, <1>5, <2>2, <2>3
<1>16. QED
  BY <1>8, <1>9, <1>10, <1>11, <1>12, <1>14, <1>15 DEF IndInv

\* The actions that write a revision write it as WriteOf says.
LEMMA WritersWrite ==
    ASSUME TypeOK, NEW t \in Threads, Save(t) \/ Shift(t)
    PROVE  /\ \E rev \in Revs, status \in Status : WriteOf(rev, status)
           /\ saw' \in [Threads -> Status \union {"idle", "absent"}]
<1>1. CASE Save(t)
  <2>1. PICK s \in IF saw[t] = "absent" THEN Births ELSE {saw[t]} : Write(NextRev, s)
    BY <1>1 DEF Save
  <2>2. s \in Status /\ NextRev \in Revs
    BY <1>1, StatusAssumption DEF Save, TypeOK
  <2>3. WriteOf(NextRev, s)
    BY <2>1, <2>2, FreshWrite
  <2>4. saw' \in [Threads -> Status \union {"idle", "absent"}]
    BY <1>1 DEF Save, TypeOK
  <2>5. QED
    BY <2>2, <2>3, <2>4
<1>2. CASE Shift(t)
  <2>1. SetLifecycle("QUARANTINED") \/ SetLifecycle("SLEEPING")
    BY <1>2 DEF Shift
  <2>2. saw' \in [Threads -> Status \union {"idle", "absent"}]
    BY <1>2 DEF Shift, TypeOK
  <2>3. \E rev \in Revs, status \in Status : WriteOf(rev, status)
    BY <2>1, StatusFacts, LifecycleWrite
  <2>4. QED
    BY <2>2, <2>3
<1>3. QED
  BY <1>1, <1>2

LEMMA NextInd ==
    ASSUME IndInv, [Next]_vars
    PROVE  IndInv'
<1>0. TypeOK
  BY DEF IndInv
<1>1. CASE Boot \/ Crash \/ Load \/ Reapply \/ OutOfBand
  BY <1>1, BootInd, CrashInd, LoadInd, ReapplyInd, PurgeInd, ForeignInd DEF OutOfBand
<1>2. ASSUME NEW s \in Transitions, Operate(s)
      PROVE  IndInv'
  <2>1. s \in Status /\ SetLifecycle(s) /\ saw' = saw
    BY <1>2, StatusAssumption DEF Operate
  <2>2. PICK rev \in Revs : WriteOf(rev, s)
    BY <1>0, <2>1, LifecycleWrite
  <2>3. saw' \in [Threads -> Status \union {"idle", "absent"}]
    BY <1>0, <2>1 DEF TypeOK
  <2>4. QED
    BY <2>1, <2>2, <2>3, WriteInd DEF IndInv
<1>3. ASSUME NEW t \in Threads, Read(t) \/ Leave(t)
      PROVE  IndInv'
  BY <1>3, ReadInd
<1>4. ASSUME NEW t \in Threads, Save(t) \/ Shift(t)
      PROVE  IndInv'
  <2>1. PICK rev \in Revs, status \in Status : WriteOf(rev, status)
    BY <1>0, <1>4, WritersWrite
  <2>2. saw' \in [Threads -> Status \union {"idle", "absent"}]
    BY <1>0, <1>4, WritersWrite
  <2>3. QED
    BY <2>1, <2>2, WriteInd DEF IndInv
<1>5. ASSUME NEW i \in DOMAIN pending, Replay(i)
      PROVE  IndInv'
  BY <1>5, ReplayInd
<1>6. CASE UNCHANGED vars
  BY <1>6 DEF vars, IndInv, TypeOK, OffInv, QueuedInv, StoredInv, CacheInv, TableInv, NewestInv
<1>7. QED
  BY <1>1, <1>2, <1>3, <1>4, <1>5, <1>6 DEF Next

LEMMA InitInd == Init => IndInv
<1> SUFFICES ASSUME Init PROVE IndInv
  OBVIOUS
<1>1. \A r \in Revs : acked[r] = None /\ rows[r] = None
  BY DEF Init, Empty
<1>2. DOMAIN pending = {}
  BY DEF Init
<1>3. TypeOK
  <2>1. Empty \in [Revs -> Status \union {None}]
    BY DEF Empty
  <2>2. hashes \in [Revs -> Seq(Links)] /\ head \in Seq(Links) /\ pending \in Seq(Entries)
    BY DEF Init
  <2>3. boots \in 0..MaxBoots
    BY BoundAssumption DEF Init
  <2>4. saw \in [Threads -> Status \union {"idle", "absent"}]
    BY DEF Init
  <2>5. foreign \in [Revs -> {"none", "unseen", "seen"}]
    BY DEF Init, Unwritten
  <2>6. QED
    BY <2>1, <2>2, <2>3, <2>4, <2>5 DEF Init, TypeOK
<1>4. QED
  BY <1>1, <1>2, <1>3
     DEF Init, IndInv, OffInv, QueuedInv, StoredInv, CacheInv, TableInv, NewestInv

LEMMA IndInvariant == Spec => []IndInv
BY InitInd, NextInd, PTL DEF Spec

\* Every reachable state of the registry, its table and its readers is well
\* typed.
THEOREM TypeCorrect == Spec => []TypeOK
<1>1. IndInv => TypeOK
  BY DEF IndInv
<1>2. QED
  BY <1>1, IndInvariant, PTL

\* A write that save or set_lifecycle returned is in the table or queued.
THEOREM WritesAreStored == Spec => []NothingForgotten
<1>1. IndInv => NothingForgotten
  <2> SUFFICES ASSUME IndInv, mode # "memory", NEW r \in Revs, acked[r] # None
               PROVE  \/ rows[r] = acked[r]
                      \/ \E i \in DOMAIN pending :
                            pending[i].rev = r /\ pending[i].status = acked[r]
    BY DEF NothingForgotten
  <2>1. rows[r] = acked[r] \/ \E i \in DOMAIN pending : pending[i].rev = r
    BY DEF IndInv, StoredInv
  <2>2. QED
    BY <2>1 DEF IndInv, QueuedInv
<1>2. QED
  BY <1>1, IndInvariant, PTL

\* Re-loading the cache from the table loses no write of this process that
\* nobody else has overwritten, and what is served beyond the last of them is
\* what others wrote.
THEOREM WritesAreServed == Spec => []NoWriteLost
<1>1. IndInv => NoWriteLost
  <2> SUFFICES ASSUME IndInv, ~loading
               PROVE  /\ \A r \in Revs : acked[r] # None => cache[r] = acked[r]
                      /\ acked # Empty =>
                             \A r \in Revs : cache[r] # None /\ r > Latest(acked)
                                                => foreign[r] # "none"
    BY DEF NoWriteLost
  <2>1. \A r \in Revs : acked[r] # None => cache[r] = acked[r]
    BY DEF IndInv, CacheInv
  <2>2. ASSUME acked # Empty, NEW r \in Revs, cache[r] # None, r > Latest(acked)
        PROVE  foreign[r] # "none"
    <3>1. /\ Latest(acked) \in 0..MaxRev
          /\ Latest(acked) > 0 => acked[Latest(acked)] # None
          /\ \A q \in Revs : acked[q] # None => q <= Latest(acked)
      BY LatestFacts
    <3>2. PICK m \in Revs : acked[m] # None
      BY <2>2 DEF IndInv, TypeOK, Empty
    <3>3. m < r /\ acked[r] = None
      BY <2>2, <3>1, <3>2, BoundAssumption DEF Revs
    <3>4. QED
      BY <2>2, <3>2, <3>3 DEF IndInv, NewestInv
  <2>3. QED
    BY <2>1, <2>2
<1>2. QED
  BY <1>1, IndInvariant, PTL

\* A write changes no revision of the table that the process has.
LEMMA WriteKeeps ==
    ASSUME IndInv, NEW rev \in Revs, NEW status \in Status, WriteOf(rev, status),
           NEW r \in Revs, rows[r] # None, foreign[r] # "unseen"
    PROVE  rows'[r] = rows[r]
<1>1. TypeOK /\ Write(rev, status)
  BY DEF IndInv, WriteOf
<1>2. /\ mode # "down"
      /\ rows'[rev] \in {rows[rev], status} /\ \A q \in Revs : q # rev => rows'[q] = rows[q]
  BY <1>1, WriteFacts
<1>3. r = rev => rows[rev] \in {None, status}
  BY <1>2 DEF IndInv, TableInv, WriteOf
<1>4. QED
  BY <1>2, <1>3

\* A process rewrites no revision of the table but one that another wrote and
\* that it has not loaded.
THEOREM RevisionsAreKept == Spec => RowsKept
<1> DEFINE Kept == ~OutOfBand =>
                     \A r \in Revs : rows[r] # None /\ foreign[r] # "unseen"
                                        => rows'[r] = rows[r]
<1>1. IndInv /\ [Next]_vars => [Kept]_vars
  <2> SUFFICES ASSUME IndInv, Next, ~OutOfBand, NEW r \in Revs,
                      rows[r] # None, foreign[r] # "unseen"
               PROVE  rows'[r] = rows[r]
    OBVIOUS
  <2>0. TypeOK
    BY DEF IndInv
  <2>1. ASSUME NEW s \in Transitions, Operate(s) PROVE rows'[r] = rows[r]
    <3>1. s \in Status /\ SetLifecycle(s)
      BY <2>1, StatusAssumption DEF Operate
    <3>2. PICK rev \in Revs : WriteOf(rev, s)
      BY <2>0, <3>1, LifecycleWrite
    <3>3. QED
      BY <3>1, <3>2, WriteKeeps
  <2>2. ASSUME NEW t \in Threads, Save(t) \/ Shift(t) PROVE rows'[r] = rows[r]
    <3>1. PICK rev \in Revs, status \in Status : WriteOf(rev, status)
      BY <2>0, <2>2, WritersWrite
    <3>2. QED
      BY <3>1, WriteKeeps
  <2>3. ASSUME NEW i \in DOMAIN pending, Replay(i) PROVE rows'[r] = rows[r]
    <3>1. pending[i] \in Entries /\ pending[i].rev \in Revs
      BY <2>0, QueueFacts DEF TypeOK
    <3>2. /\ rows'[pending[i].rev] = pending[i].status
          /\ \A q \in Revs : q # pending[i].rev => rows'[q] = rows[q]
      BY <2>0, <2>3, <3>1, UpsertType DEF Replay
    <3>3. pending[i].rev = r => rows[r] \in {None, pending[i].status}
      BY <2>3 DEF IndInv, TableInv, Replay, Unlocked
    <3>4. QED
      BY <3>2, <3>3
  <2>4. CASE Boot \/ Crash \/ Load \/ Reapply
    BY <2>4 DEF Boot, Crash, Load, Reapply
  <2>5. ASSUME NEW t \in Threads, Read(t) \/ Leave(t) PROVE rows' = rows
    BY <2>5 DEF Read, Leave
  <2>6. QED
    BY <2>1, <2>2, <2>3, <2>4, <2>5 DEF Next
<1>2. QED
  BY <1>1, IndInvariant, PTL DEF Spec, RowsKept

\* What was just written is what the registry serves.
LEMMA WriteServes ==
    ASSUME TypeOK, NEW rev \in Revs, NEW status \in Status, WriteOf(rev, status)
    PROVE  Current' = status
<1>1. cache' = [cache EXCEPT ![rev] = status] /\ cache \in [Revs -> Status \union {None}]
  BY DEF WriteOf, Write, TypeOK
<1>2. cache'[rev] = status /\ \A q \in Revs : q > rev => cache'[q] = None
  BY <1>1, BoundAssumption DEF WriteOf, Revs
<1>3. /\ Latest(cache') \in 0..MaxRev
      /\ Latest(cache') > 0 => cache'[Latest(cache')] # None
      /\ \A q \in Revs : cache'[q] # None => q <= Latest(cache')
  BY LatestFacts
<1>4. rev <= Latest(cache')
  BY <1>2, <1>3, StatusFacts
<1>5. Latest(cache') \in Revs
  BY <1>3, <1>4, BoundAssumption DEF Revs
<1>6. Latest(cache') = rev
  BY <1>2, <1>3, <1>4, <1>5, BoundAssumption DEF Revs
<1>7. Latest(cache') # 0
  BY <1>6, BoundAssumption DEF Revs
<1>8. QED
  BY <1>2, <1>6, <1>7 DEF Current

\* A thread that saw the agent revoked does not bring it back.
LEMMA RevokedReaderKeeps ==
    ASSUME TypeOK, NEW t \in Threads, Save(t) \/ Shift(t), saw[t] = "REVOKED"
    PROVE  Current' = "REVOKED"
<1>1. Save(t)
  BY DEF Shift
<1>2. NextRev \in Revs /\ Write(NextRev, "REVOKED")
  BY <1>1 DEF Save
<1>3. WriteOf(NextRev, "REVOKED")
  BY <1>2, FreshWrite, StatusFacts
<1>4. QED
  BY <1>2, <1>3, WriteServes, StatusFacts

\* A revoked agent comes back only by an operator or by a thread that read it
\* before it was revoked, for any number of threads and revisions.
THEOREM RevivedByEarlierReaders == Spec => RevivedByStaleOnly
<1> DEFINE Excused ==
      \/ mode' = "down" \/ loading'
      \/ \E s \in Transitions \ {"REVOKED"} : Operate(s)
      \/ \E t \in Threads : saw[t] \notin {"idle", "REVOKED"} /\ saw'[t] = "idle"
<1> DEFINE Kept == Current = "REVOKED" /\ ~loading /\ Current' # "REVOKED" => Excused
<1>1. IndInv /\ [Next]_vars => [Kept]_vars
  <2> SUFFICES ASSUME IndInv, Next, Current = "REVOKED", ~loading,
                      Current' # "REVOKED"
               PROVE  Excused
    OBVIOUS
  <2>0. TypeOK
    BY DEF IndInv
  <2>1. CASE UNCHANGED cache
    BY <2>1 DEF Current
  <2>2. CASE Boot
    <3>1. cache = Empty
      BY <2>2 DEF IndInv, OffInv, Boot
    <3>2. Latest(cache) \in 0..MaxRev /\ (Latest(cache) > 0 => cache[Latest(cache)] # None)
      BY LatestFacts
    <3>3. Latest(cache) = 0
      BY <3>1, <3>2, BoundAssumption DEF Empty, Revs
    <3>4. QED
      BY <3>3 DEF Current
  <2>3. CASE Crash \/ Load \/ Reapply
    BY <2>3 DEF Crash, Load, Reapply
  <2>4. ASSUME NEW s \in Transitions, Operate(s) PROVE Excused
    <3>1. CASE s = "REVOKED"
      <4>1. s \in Status /\ SetLifecycle(s)
        BY <2>4, StatusAssumption DEF Operate
      <4>2. PICK rev \in Revs : WriteOf(rev, s)
        BY <2>0, <4>1, LifecycleWrite
      <4>3. QED
        BY <2>0, <3>1, <4>1, <4>2, WriteServes
    <3>2. CASE s # "REVOKED"
      BY <2>4, <3>2
    <3>3. QED
      BY <3>1, <3>2
  <2>5. ASSUME NEW t \in Threads, Save(t) \/ Shift(t) PROVE Excused
    <3>1. saw[t] # "REVOKED"
      BY <2>0, <2>5, RevokedReaderKeeps
    <3>2. saw[t] # "idle" /\ saw'[t] = "idle"
      BY <2>0, <2>5 DEF Save, Shift, TypeOK
    <3>3. QED
      BY <3>1, <3>2
  <2>6. ASSUME NEW i \in DOMAIN pending, Replay(i) PROVE UNCHANGED cache
    BY <2>6 DEF Replay
  <2>7. ASSUME NEW t \in Threads, Read(t) \/ Leave(t) PROVE UNCHANGED cache
    BY <2>7 DEF Read, Leave
  <2>8. CASE OutOfBand
    BY <2>1, <2>8 DEF OutOfBand, Purge, Foreign
  <2>9. QED
    BY <2>1, <2>2, <2>3, <2>4, <2>5, <2>6, <2>7, <2>8 DEF Next
<1>2. QED
  BY <1>1, IndInvariant, PTL DEF Spec, RevivedByStaleOnly

-----------------------------------------------------------------------------
(***************************************************************************)
(* The agents that are there: proofs about PresenceWatch, for any agents,  *)
(* surfaces, threads, thresholds and crashes.  The module is taken as the  *)
(* instance Watch over the state of PresencePromises.                      *)
(***************************************************************************)

Watch == INSTANCE PresenceWatch

\* The entry of an agent that is there.
LEMMA WatchDigest ==
    ASSUME Watch!TypeOK, NEW k \in Keys, estate[k] # Watch!Nothing
    PROVE  Watch!Digest(k) \in Watch!Digests /\ Watch!Digest(k) # Watch!NoEntry
<1>1. estate[k] \in Surfaces
  BY DEF Watch!TypeOK
<1>2. Watch!Digest(k).action \in {"registered", "unchanged", "drift"}
      /\ Watch!Digest(k) = [surface |-> estate[k], action |-> Watch!Digest(k).action]
  BY DEF Watch!Digest
<1>3. Watch!NoEntry.action = "none"
  BY DEF Watch!NoEntry
<1>4. QED
  BY <1>1, <1>2, <1>3 DEF Watch!Digests

LEMMA WatchCounted ==
    ASSUME threshold \in Thresholds, NEW n \in Nat
    PROVE  Watch!Counted(n) \in Nat /\ Watch!Counted(n) >= 1
BY ThresholdAssumption DEF Watch!Counted

\* observe_seen and observe_missing write a record.
LEMMA WatchRecord ==
    ASSUME Watch!TypeOK, NEW k \in Keys, NEW rec \in Watch!Records, Watch!Record(k, rec)
    PROVE  /\ presence' \in [Keys -> Watch!Records \union {Watch!NoRecord}]
           /\ table' \in [Keys -> Watch!Records \union {Watch!NoRecord}]
           /\ presence'[k] = rec /\ \A j \in Keys \ {k} : presence'[j] = presence[j]
BY DEF Watch!TypeOK, Watch!Record

LEMMA WatchMisses ==
    ASSUME Watch!TypeOK, NEW k \in Keys
    PROVE  /\ presence[k].misses \in Nat
           /\ [state |-> Watch!MissedState(presence[k].misses + 1),
               misses |-> presence[k].misses + 1] \in Watch!Records
           /\ Watch!Present \in Watch!Records
<1>1. presence[k].misses \in Nat
  BY DEF Watch!TypeOK, Watch!Records, Watch!NoRecord
<1>2. Watch!MissedState(presence[k].misses + 1) \in Watch!States
  BY DEF Watch!MissedState, Watch!States
<1>3. Watch!Present \in Watch!Records
  BY DEF Watch!Records, Watch!Present, Watch!States
<1>4. presence[k].misses + 1 \in Nat
  BY <1>1
<1>5. QED
  BY <1>1, <1>2, <1>3, <1>4 DEF Watch!Records

LEMMA WatchTypeStep ==
    ASSUME Watch!TypeOK, [Watch!Next]_Watch!watchVars
    PROVE  Watch!TypeOK'
<1> DEFINE E == Watch!Digests \union {Watch!NoEntry}
<1>0. Watch!NoEntries \in [Keys -> E]
  BY DEF Watch!NoEntries
<1>1. ASSUME NEW k \in Keys, NEW surface \in Surfaces \union {Watch!Nothing}, Watch!Move(k, surface)
      PROVE  Watch!TypeOK'
  BY <1>1 DEF Watch!Move, Watch!TypeOK
<1>2. ASSUME NEW t \in Watch!Watchers, Watch!Scan(t) PROVE Watch!TypeOK'
  <2>1. PICK seen \in SUBSET {k \in Keys : estate[k] # Watch!Nothing} :
            /\ found' = [found EXCEPT ![t] =
                            [k \in Keys |-> IF k \in seen THEN Watch!Digest(k) ELSE Watch!NoEntry]]
            /\ registered' = [k \in Keys |-> IF k \in seen THEN estate[k] ELSE registered[k]]
            /\ absent' = [k \in Keys |-> IF k \in seen THEN 0 ELSE Watch!Counted(absent[k])]
    BY <1>2 DEF Watch!Scan
  <2>2. [k \in Keys |-> IF k \in seen THEN Watch!Digest(k) ELSE Watch!NoEntry] \in [Keys -> E]
    BY WatchDigest
  <2>3. found' \in [Watch!Watchers -> [Keys -> E]]
    BY <2>1, <2>2 DEF Watch!TypeOK
  <2>4. registered' \in [Keys -> Surfaces \union {Watch!Nothing}]
    BY <2>1 DEF Watch!TypeOK
  <2>5. absent' \in [Keys -> Nat]
    BY <2>1, WatchCounted DEF Watch!TypeOK
  <2>6. /\ pc' = [pc EXCEPT ![t] = "scanned"] /\ overlapped' \in BOOLEAN
        /\ UNCHANGED <<threshold, estate, prior, presence, table, durable, base, todo, log, crashes>>
    BY <1>2 DEF Watch!Scan, Watch!TypeOK
  <2>7. QED
    BY <2>3, <2>4, <2>5, <2>6 DEF Watch!TypeOK
<1>3. ASSUME NEW t \in Watch!Watchers, Watch!Compare(t) PROVE Watch!TypeOK'
  BY <1>3 DEF Watch!Compare, Watch!TypeOK
<1>4. ASSUME NEW t \in Watch!Watchers, NEW k \in Keys, Watch!Seen(t, k) PROVE Watch!TypeOK'
  <2>1. Watch!Record(k, Watch!Present)
    BY <1>4 DEF Watch!Seen, Watch!Present
  <2>2. /\ presence' \in [Keys -> Watch!Records \union {Watch!NoRecord}]
        /\ table' \in [Keys -> Watch!Records \union {Watch!NoRecord}]
    BY <2>1, WatchMisses, WatchRecord
  <2>3. log' \in [Keys -> E] /\ todo' \in [Watch!Watchers -> SUBSET Keys]
    BY <1>4 DEF Watch!Seen, Watch!TypeOK, Watch!Done
  <2>4. QED
    BY <1>4, <2>2, <2>3 DEF Watch!Seen, Watch!TypeOK
<1>5. ASSUME NEW t \in Watch!Watchers, NEW k \in Keys, Watch!Missed(t, k) PROVE Watch!TypeOK'
  <2> DEFINE rec == [state |-> Watch!MissedState(presence[k].misses + 1),
                     misses |-> presence[k].misses + 1]
  <2>1. Watch!Record(k, rec) /\ rec \in Watch!Records
    BY <1>5, WatchMisses DEF Watch!Missed
  <2>2. /\ presence' \in [Keys -> Watch!Records \union {Watch!NoRecord}]
        /\ table' \in [Keys -> Watch!Records \union {Watch!NoRecord}]
    BY <2>1, WatchRecord
  <2>3. log' \in [Keys -> E] /\ todo' \in [Watch!Watchers -> SUBSET Keys]
    BY <1>5 DEF Watch!Missed, Watch!TypeOK, Watch!Done
  <2>4. QED
    BY <1>5, <2>2, <2>3 DEF Watch!Missed, Watch!TypeOK
<1>6. ASSUME NEW t \in Watch!Watchers, Watch!Finish(t) PROVE Watch!TypeOK'
  BY <1>0, <1>6 DEF Watch!Finish, Watch!TypeOK
<1>7. CASE Watch!Crash
  <2>1. crashes' \in 0..MaxCrashes
    BY <1>7, CrashAssumption DEF Watch!Crash, Watch!TypeOK
  <2>2. presence' \in [Keys -> Watch!Records \union {Watch!NoRecord}] /\ durable' \in BOOLEAN
    BY <1>7 DEF Watch!Crash, Watch!TypeOK
  <2>3. QED
    BY <1>0, <1>7, <2>1, <2>2 DEF Watch!Crash, Watch!TypeOK
<1>8. CASE UNCHANGED Watch!watchVars
  BY <1>8 DEF Watch!watchVars, Watch!TypeOK
<1>9. QED
  BY <1>1, <1>2, <1>3, <1>4, <1>5, <1>6, <1>7, <1>8 DEF Watch!Next, Watch!Step

-----------------------------------------------------------------------------
(* The watch: one cycle at a time.                                         *)

\* The parts of CycleInv about one cycle.
WatchOpen(t, k) ==
    pc[t] # "idle" =>
        /\ found[t][k] = Watch!NoEntry => absent[k] >= 1
        /\ pc[t] = "scanned" \/ k \in todo[t] => Watch!Tells(k, prior[k])

WatchCompared(t, k) ==
    pc[t] = "comparing" =>
        /\ base[t] = prior
        /\ k \in todo[t] => found[t][k] # Watch!NoEntry \/ prior[k] # Watch!NoEntry
        /\ k \notin todo[t] => /\ Watch!Tells(k, found[t][k])
                               /\ found[t][k] # Watch!NoEntry => presence[k] = Watch!Present

WatchKnown(k) ==
    prior[k] # Watch!NoEntry =>
        \/ presence[k] = Watch!Present
        \/ \E t \in Watch!Watchers : pc[t] = "comparing" /\ k \notin todo[t]

WatchAlone == \A t, u \in Watch!Watchers : pc[t] # "idle" /\ pc[u] # "idle" => t = u

WatchBetween == (\A t \in Watch!Watchers : pc[t] = "idle") => \A k \in Keys : Watch!Tells(k, prior[k])

LEMMA WatchParts ==
    Watch!CycleInv <=>
        /\ WatchAlone /\ WatchBetween
        /\ \A k \in Keys : WatchKnown(k)
        /\ \A t \in Watch!Watchers, k \in Keys : WatchOpen(t, k) /\ WatchCompared(t, k)
BY DEF Watch!CycleInv, WatchAlone, WatchBetween, WatchKnown, WatchOpen, WatchCompared

\* A scan opens a cycle when none is open, or overlaps.
LEMMA WatchScanStep ==
    ASSUME Watch!TypeOK, Watch!CycleInv, NEW t \in Watch!Watchers, Watch!Scan(t),
           ~overlapped'
    PROVE  Watch!CycleInv'
<1>1. /\ pc[t] = "idle" /\ pc' = [pc EXCEPT ![t] = "scanned"]
      /\ \A u \in Watch!Watchers : pc[u] = "idle"
      /\ UNCHANGED <<threshold, prior, presence, base, todo, log, crashes>>
  BY DEF Watch!Scan
<1>2. pc'[t] = "scanned" /\ \A u \in Watch!Watchers \ {t} : pc'[u] = "idle"
  BY <1>1 DEF Watch!TypeOK
<1>3. PICK seen \in SUBSET {k \in Keys : estate[k] # Watch!Nothing} :
          /\ found' = [found EXCEPT ![t] =
                          [k \in Keys |-> IF k \in seen THEN Watch!Digest(k) ELSE Watch!NoEntry]]
          /\ absent' = [k \in Keys |-> IF k \in seen THEN 0 ELSE Watch!Counted(absent[k])]
  BY DEF Watch!Scan
<1>4. ASSUME NEW k \in Keys, found'[t][k] = Watch!NoEntry PROVE absent'[k] >= 1
  <2>1. k \notin seen
    BY <1>3, <1>4, WatchDigest DEF Watch!TypeOK
  <2>2. QED
    BY <1>3, <2>1, WatchCounted DEF Watch!TypeOK
<1>5. ASSUME NEW k \in Keys PROVE Watch!Tells(k, prior[k]) /\ Watch!Tells(k, prior[k])'
  <2>1. Watch!Tells(k, prior[k])
    BY <1>1, WatchParts DEF WatchBetween
  <2>2. QED
    BY <1>1, <2>1 DEF Watch!Tells
<1>6. ASSUME NEW k \in Keys PROVE WatchKnown(k)'
  BY <1>1, <1>2, WatchParts DEF WatchKnown
<1>7. ASSUME NEW u \in Watch!Watchers, NEW k \in Keys PROVE WatchOpen(u, k)' /\ WatchCompared(u, k)'
  BY <1>1, <1>2, <1>4, <1>5 DEF WatchOpen, WatchCompared
<1>8. WatchAlone' /\ WatchBetween'
  BY <1>1, <1>2, <1>5 DEF WatchAlone, WatchBetween
<1>9. (WatchAlone /\ WatchBetween /\ (\A k \in Keys : WatchKnown(k))
        /\ (\A u \in Watch!Watchers, k \in Keys : WatchOpen(u, k) /\ WatchCompared(u, k)))'
  BY <1>6, <1>7, <1>8
<1>10. QED
  BY <1>9 DEF Watch!CycleInv, WatchAlone, WatchBetween, WatchKnown, WatchOpen, WatchCompared

LEMMA WatchCompareStep ==
    ASSUME Watch!TypeOK, Watch!CycleInv, NEW t \in Watch!Watchers, Watch!Compare(t)
    PROVE  Watch!CycleInv'
<1>1. /\ pc[t] = "scanned" /\ pc'[t] = "comparing"
      /\ base'[t] = prior
      /\ todo'[t] = {k \in Keys : found[t][k] # Watch!NoEntry \/ prior[k] # Watch!NoEntry}
      /\ UNCHANGED <<threshold, prior, presence, found, log, absent, crashes>>
      /\ \A u \in Watch!Watchers \ {t} : pc'[u] = pc[u]
  BY DEF Watch!Compare, Watch!TypeOK
<1>2. \A u \in Watch!Watchers \ {t} : pc[u] = "idle"
  BY <1>1, WatchParts DEF WatchAlone
<1>3. ASSUME NEW k \in Keys PROVE Watch!Tells(k, prior[k]) /\ Watch!Tells(k, prior[k])'
  <2>1. Watch!Tells(k, prior[k])
    BY <1>1, WatchParts DEF WatchOpen
  <2>2. QED
    BY <1>1, <2>1 DEF Watch!Tells
<1>4. ASSUME NEW k \in Keys PROVE WatchOpen(t, k)' /\ WatchCompared(t, k)'
  <2>1. found[t][k] = Watch!NoEntry => absent[k] >= 1
    BY <1>1, WatchParts DEF WatchOpen
  <2>2. WatchOpen(t, k)'
    BY <1>1, <1>3, <2>1 DEF WatchOpen
  <2>3. k \notin todo'[t] => found'[t][k] = Watch!NoEntry /\ prior'[k] = Watch!NoEntry
    BY <1>1
  <2>4. k \in todo'[t] => found'[t][k] # Watch!NoEntry \/ prior'[k] # Watch!NoEntry
    BY <1>1
  <2>5. WatchCompared(t, k)'
    BY <1>1, <1>3, <2>3, <2>4 DEF WatchCompared
  <2>6. QED
    BY <2>2, <2>5
<1>5. ASSUME NEW u \in Watch!Watchers \ {t}, NEW k \in Keys
      PROVE  WatchOpen(u, k)' /\ WatchCompared(u, k)'
  BY <1>1, <1>2 DEF WatchOpen, WatchCompared
<1>6. ASSUME NEW k \in Keys PROVE WatchKnown(k)'
  BY <1>1, <1>2, WatchParts DEF WatchKnown
<1>7. WatchAlone' /\ WatchBetween'
  BY <1>1, <1>2 DEF WatchAlone, WatchBetween
<1>8. QED
  BY <1>4, <1>5, <1>6, <1>7
     DEF Watch!CycleInv, WatchAlone, WatchBetween, WatchKnown, WatchOpen, WatchCompared

\* One key is handled: Tells is left to hold for the entry of the scan.
LEMMA WatchHandled ==
    ASSUME Watch!TypeOK, Watch!CycleInv, NEW t \in Watch!Watchers, NEW k \in Keys,
           pc[t] = "comparing", k \in todo[t],
           todo'[t] = todo[t] \ {k},
           UNCHANGED <<threshold, prior, pc, found, base, absent, crashes>>,
           \A j \in Keys \ {k} : log'[j] = log[j] /\ presence'[j] = presence[j],
           Watch!Tells(k, found[t][k])',
           found[t][k] # Watch!NoEntry => presence'[k] = Watch!Present
    PROVE  Watch!CycleInv'
<1>1. \A u \in Watch!Watchers \ {t} : pc[u] = "idle"
  BY WatchParts DEF WatchAlone
<1>2. ASSUME NEW j \in Keys \ {k}, NEW e PROVE Watch!Tells(j, e) => Watch!Tells(j, e)'
  BY DEF Watch!Tells
<1>3. ASSUME NEW j \in Keys \ {k}
      PROVE  WatchOpen(t, j)' /\ WatchCompared(t, j)' /\ WatchKnown(j)'
  <2>1. WatchOpen(t, j) /\ WatchCompared(t, j) /\ WatchKnown(j)
    BY WatchParts
  <2>2. Watch!Tells(j, prior[j]) => Watch!Tells(j, prior[j])'
    BY DEF Watch!Tells
  <2>3. Watch!Tells(j, found[t][j]) => Watch!Tells(j, found[t][j])'
    BY DEF Watch!Tells
  <2>4. j \in todo'[t] <=> j \in todo[t]
    OBVIOUS
  <2>5. WatchOpen(t, j)'
    BY <2>1, <2>2, <2>4 DEF WatchOpen
  <2>6. WatchCompared(t, j)'
    BY <2>1, <2>3, <2>4 DEF WatchCompared
  <2>7. WatchKnown(j)'
    BY <1>1, <2>1, <2>4 DEF WatchKnown
  <2>8. QED
    BY <2>5, <2>6, <2>7
<1>4. k \notin todo'[t]
  OBVIOUS
<1>5. WatchOpen(t, k)' /\ WatchCompared(t, k)' /\ WatchKnown(k)'
  <2>1. WatchOpen(t, k) /\ WatchCompared(t, k)
    BY WatchParts
  <2>2. WatchOpen(t, k)'
    BY <1>4, <2>1 DEF WatchOpen
  <2>3. WatchCompared(t, k)'
    BY <1>4, <2>1 DEF WatchCompared
  <2>4. WatchKnown(k)'
    BY <1>4 DEF WatchKnown
  <2>5. QED
    BY <2>2, <2>3, <2>4
<1>6. ASSUME NEW u \in Watch!Watchers \ {t}, NEW j \in Keys
      PROVE  WatchOpen(u, j)' /\ WatchCompared(u, j)'
  BY <1>1 DEF WatchOpen, WatchCompared
<1>7. WatchAlone' /\ WatchBetween'
  BY <1>1 DEF WatchAlone, WatchBetween
<1>8. QED
  BY <1>3, <1>5, <1>6, <1>7
     DEF Watch!CycleInv, WatchAlone, WatchBetween, WatchKnown, WatchOpen, WatchCompared

LEMMA WatchSeenStep ==
    ASSUME Watch!TypeOK, Watch!CycleInv, NEW t \in Watch!Watchers, NEW k \in Keys, Watch!Seen(t, k)
    PROVE  Watch!CycleInv'
<1>1. /\ pc[t] = "comparing" /\ k \in todo[t] /\ found[t][k] # Watch!NoEntry
      /\ UNCHANGED <<threshold, prior, pc, found, base, absent, crashes>>
      /\ todo'[t] = todo[t] \ {k}
  BY DEF Watch!Seen, Watch!Done, Watch!TypeOK
<1>2. presence'[k] = Watch!Present /\ \A j \in Keys \ {k} : presence'[j] = presence[j]
  <2>1. Watch!Record(k, Watch!Present)
    BY DEF Watch!Seen, Watch!Present
  <2>2. QED
    BY <2>1, WatchMisses, WatchRecord
<1>3. \A j \in Keys \ {k} : log'[j] = log[j]
  BY DEF Watch!Seen, Watch!TypeOK
<1>4. base[t] = prior /\ Watch!Tells(k, prior[k])
  BY <1>1, WatchParts DEF WatchOpen, WatchCompared
<1>5. log'[k] = found[t][k]
  <2>1. CASE Watch!FirstSeen(t, k) \/ (base[t][k] # Watch!NoEntry
                                         /\ ~Watch!Equivalent(base[t][k], found[t][k]))
    BY <2>1 DEF Watch!Seen, Watch!TypeOK
  <2>2. CASE prior[k] = found[t][k]
    <3>1. log[k] = found[t][k]
      BY <1>1, <1>4, <2>2 DEF Watch!Tells
    <3>2. QED
      BY <3>1 DEF Watch!Seen, Watch!TypeOK
  <2>3. QED
    BY <1>4, <2>1, <2>2 DEF Watch!FirstSeen, Watch!Equivalent
<1>6. Watch!Tells(k, found[t][k])'
  BY <1>1, <1>5 DEF Watch!Tells
<1>7. QED
  BY <1>1, <1>2, <1>3, <1>6, WatchHandled

\* Without an overlap, the key that is missed is one of the scan before and the
\* tracker has it as present.
LEMMA WatchFirstMiss ==
    ASSUME Watch!TypeOK, Watch!CycleInv, NEW t \in Watch!Watchers, NEW k \in Keys, Watch!Missed(t, k)
    PROVE  /\ presence[k] = Watch!Present /\ absent[k] >= 1
           /\ found[t][k] = Watch!NoEntry /\ pc[t] = "comparing" /\ k \in todo[t]
<1>1. pc[t] = "comparing" /\ k \in todo[t] /\ found[t][k] = Watch!NoEntry
  BY DEF Watch!Missed
<1>2. WatchOpen(t, k) /\ WatchCompared(t, k) /\ WatchKnown(k) /\ WatchAlone
  BY WatchParts
<1>3. prior[k] # Watch!NoEntry /\ absent[k] >= 1
  BY <1>1, <1>2 DEF WatchCompared, WatchOpen
<1>4. \A u \in Watch!Watchers : pc[u] = "comparing" => u = t
  BY <1>1, <1>2 DEF WatchAlone
<1>5. presence[k] = Watch!Present
  BY <1>1, <1>2, <1>3, <1>4 DEF WatchKnown
<1>6. QED
  BY <1>1, <1>3, <1>5

LEMMA WatchMissedStep ==
    ASSUME Watch!TypeOK, Watch!CycleInv, NEW t \in Watch!Watchers, NEW k \in Keys,
           Watch!Missed(t, k)
    PROVE  Watch!CycleInv'
<1>1. /\ UNCHANGED <<threshold, prior, pc, found, base, absent, crashes>>
      /\ todo'[t] = todo[t] \ {k}
  BY DEF Watch!Missed, Watch!Done, Watch!TypeOK
<1>2. /\ presence[k].misses = 0 /\ presence[k].state = "present"
      /\ found[t][k] = Watch!NoEntry /\ pc[t] = "comparing" /\ k \in todo[t]
  BY WatchFirstMiss DEF Watch!Present
<1>3. presence'[k].misses = 1 /\ \A j \in Keys \ {k} : presence'[j] = presence[j]
  <2> DEFINE rec == [state |-> Watch!MissedState(presence[k].misses + 1),
                     misses |-> presence[k].misses + 1]
  <2>1. Watch!Record(k, rec) /\ rec \in Watch!Records /\ rec.misses = 1
    BY <1>2, WatchMisses DEF Watch!Missed
  <2> HIDE DEF rec
  <2>2. QED
    BY <2>1, WatchRecord
<1>4. \A j \in Keys \ {k} : log'[j] = log[j]
  BY DEF Watch!Missed, Watch!TypeOK
<1>5. threshold \in Nat \ {0}
  BY ThresholdAssumption DEF Watch!TypeOK
<1>6. Watch!Tells(k, found[t][k])'
  <2>1. CASE threshold <= 1
    <3>1. Watch!Confirms(presence[k].misses + 1)
      BY <1>2, <1>5, <2>1 DEF Watch!Confirms
    <3>2. log'[k] = Watch!NoEntry
      BY <1>2, <3>1 DEF Watch!Missed, Watch!TypeOK
    <3>3. QED
      BY <1>1, <1>2, <3>2 DEF Watch!Tells
  <2>2. CASE threshold > 1
    <3>1. presence'[k].misses \in 1..(threshold' - 1)
      BY <1>1, <1>3, <1>5, <2>2
    <3>2. QED
      BY <1>1, <1>2, <3>1 DEF Watch!Tells
  <2>3. QED
    BY <1>5, <2>1, <2>2
<1>7. QED
  BY <1>1, <1>2, <1>3, <1>4, <1>6, WatchHandled

LEMMA WatchFinishStep ==
    ASSUME Watch!TypeOK, Watch!CycleInv, NEW t \in Watch!Watchers, Watch!Finish(t)
    PROVE  Watch!CycleInv'
<1>1. /\ pc[t] = "comparing" /\ todo[t] = {} /\ prior' = found[t]
      /\ UNCHANGED <<threshold, presence, log, absent, crashes>>
      /\ pc'[t] = "idle" /\ \A u \in Watch!Watchers \ {t} : pc'[u] = pc[u]
  BY DEF Watch!Finish, Watch!TypeOK
<1>2. \A u \in Watch!Watchers : pc'[u] = "idle"
  BY <1>1, WatchParts DEF WatchAlone
<1>3. ASSUME NEW k \in Keys PROVE Watch!Tells(k, prior[k])' /\ WatchKnown(k)'
  <2>1. Watch!Tells(k, found[t][k]) /\ (found[t][k] # Watch!NoEntry => presence[k] = Watch!Present)
    BY <1>1, WatchParts DEF WatchCompared
  <2>2. QED
    BY <1>1, <2>1 DEF Watch!Tells, WatchKnown
<1>4. ASSUME NEW u \in Watch!Watchers, NEW k \in Keys PROVE WatchOpen(u, k)' /\ WatchCompared(u, k)'
  BY <1>2 DEF WatchOpen, WatchCompared
<1>5. WatchAlone' /\ WatchBetween'
  BY <1>2, <1>3 DEF WatchAlone, WatchBetween
<1>6. QED
  BY <1>3, <1>4, <1>5
     DEF Watch!CycleInv, WatchAlone, WatchBetween, WatchKnown, WatchOpen, WatchCompared

LEMMA WatchCrashStep ==
    ASSUME Watch!TypeOK, Watch!Crash
    PROVE  Watch!CycleInv'
<1>1. /\ crashes' > 0 /\ \A k \in Keys : prior'[k] = Watch!NoEntry
      /\ \A t \in Watch!Watchers : pc'[t] = "idle"
  BY DEF Watch!Crash, Watch!NoEntries, Watch!TypeOK
<1>2. \A k \in Keys : Watch!Tells(k, prior[k])'
  BY <1>1 DEF Watch!Tells
<1>3. QED
  BY <1>1, <1>2 DEF Watch!CycleInv

\* Steps that leave the watch alone.
LEMMA WatchFrame ==
    ASSUME Watch!CycleInv,
           UNCHANGED <<threshold, prior, presence, pc, found, base, todo, log, absent, crashes>>
    PROVE  Watch!CycleInv'
BY DEF Watch!CycleInv, Watch!Tells

LEMMA WatchInvStep ==
    ASSUME Watch!TypeOK, Watch!WatchInv, [Watch!Next]_Watch!watchVars
    PROVE  Watch!WatchInv'
<1> SUFFICES ASSUME ~overlapped' PROVE Watch!CycleInv'
  BY DEF Watch!WatchInv
<1>1. overlapped => overlapped'
  <2>1. CASE \E t \in Watch!Watchers : Watch!Scan(t)
    BY <2>1 DEF Watch!Scan
  <2>2. CASE ~\E t \in Watch!Watchers : Watch!Scan(t)
    BY <2>2 DEF Watch!Next, Watch!watchVars, Watch!Move, Watch!Step, Watch!Compare, Watch!Seen,
       Watch!Missed, Watch!Finish, Watch!Crash
  <2>3. QED
    BY <2>1, <2>2
<1>2. Watch!CycleInv
  BY <1>1 DEF Watch!WatchInv
<1>3. ASSUME NEW k \in Keys, NEW surface, Watch!Move(k, surface) PROVE Watch!CycleInv'
  BY <1>2, <1>3, WatchFrame DEF Watch!Move
<1>4. CASE UNCHANGED Watch!watchVars
  BY <1>2, <1>4, WatchFrame DEF Watch!watchVars
<1>5. QED
  BY <1>2, <1>3, <1>4, WatchScanStep, WatchCompareStep, WatchSeenStep, WatchMissedStep,
     WatchFinishStep, WatchCrashStep DEF Watch!Next, Watch!Step

LEMMA WatchInit ==
    ASSUME Watch!Init
    PROVE  Watch!TypeOK /\ Watch!WatchInv
<1>1. Watch!NoEntries \in [Keys -> Watch!Digests \union {Watch!NoEntry}]
  BY DEF Watch!NoEntries
<1>2. Watch!TypeOK
  <2>1. crashes \in 0..MaxCrashes
    BY CrashAssumption DEF Watch!Init
  <2>2. QED
    BY <1>1, <2>1 DEF Watch!Init, Watch!TypeOK
<1>3. Watch!CycleInv
  <2>1. /\ \A k \in Keys : prior[k] = Watch!NoEntry /\ log[k] = Watch!NoEntry
        /\ \A t \in Watch!Watchers : pc[t] = "idle"
    BY DEF Watch!Init, Watch!NoEntries
  <2>2. QED
    BY <2>1 DEF Watch!CycleInv, Watch!Tells
<1>4. QED
  BY <1>2, <1>3 DEF Watch!WatchInv

\* The invariant of the watch.
LEMMA WatchInductive == Watch!Spec => [](Watch!TypeOK /\ Watch!WatchInv)
<1>1. Watch!Init => Watch!TypeOK /\ Watch!WatchInv
  BY WatchInit
<1>2. Watch!TypeOK /\ Watch!WatchInv /\ [Watch!Next]_Watch!watchVars => Watch!TypeOK' /\ Watch!WatchInv'
  BY WatchTypeStep, WatchInvStep
<1>3. QED
  BY <1>1, <1>2, PTL DEF Watch!Spec

\* Between cycles that do not overlap the drift events of the scheduler add up
\* to the last scan, for any agents, threads, thresholds and crashes, but for
\* what the tracker still counts as missing and what a restart forgot.
THEOREM DriftEventsTellTheScan == Watch!Spec => []LogIsEstate
<1>1. Watch!WatchInv => LogIsEstate
  BY DEF Watch!WatchInv, Watch!CycleInv, Watch!Tells, Watch!Watchers, Watch!NoEntry, Watch!Nothing,
     LogIsEstate, Watchers, NoEntry, Nothing
<1>2. QED
  BY <1>1, WatchInductive, PTL

\* Only a miss that the tracker confirms takes an agent out of the events.
LEMMA WatchErased ==
    ASSUME Watch!TypeOK, Watch!Next, NEW k \in Keys,
           log[k] # Watch!NoEntry, log'[k] = Watch!NoEntry
    PROVE  \E t \in Watch!Watchers : Watch!Missed(t, k) /\ Watch!Confirms(presence[k].misses + 1)
<1>1. ASSUME NEW t \in Watch!Watchers, NEW j \in Keys, Watch!Seen(t, j) PROVE FALSE
  BY <1>1 DEF Watch!Seen, Watch!TypeOK
<1>2. PICK t \in Watch!Watchers, j \in Keys : Watch!Missed(t, j)
  BY <1>1 DEF Watch!Next, Watch!Step, Watch!Move, Watch!Scan, Watch!Compare, Watch!Finish,
     Watch!Crash
<1>3. j = k /\ Watch!Confirms(presence[k].misses + 1)
  BY <1>2 DEF Watch!Missed, Watch!TypeOK
<1>4. QED
  BY <1>2, <1>3

\* No AGENT_DISAPPEARED before as many scans in a row as the threshold says have
\* missed the agent, unless cycles overlapped: the tracker confirms a first miss
\* only at a threshold of one, and that scan did miss the agent.
THEOREM NoEarlyDisappearance == Watch!Spec => NoFalseAlarm
<1> DEFINE A == \A k \in Keys : log[k] # NoEntry /\ log'[k] = NoEntry
                                   => overlapped \/ absent[k] >= threshold
<1>1. Watch!TypeOK /\ Watch!WatchInv /\ [Watch!Next]_Watch!watchVars => [A]_watchVars
  <2> SUFFICES ASSUME Watch!TypeOK, Watch!WatchInv, Watch!Next, ~overlapped,
                      NEW k \in Keys, log[k] # Watch!NoEntry, log'[k] = Watch!NoEntry
               PROVE  absent[k] >= threshold
    BY DEF Watch!watchVars, watchVars, Watch!NoEntry, Watch!Nothing, NoEntry, Nothing
  <2>1. PICK t \in Watch!Watchers : Watch!Missed(t, k) /\ Watch!Confirms(presence[k].misses + 1)
    BY WatchErased
  <2>2. presence[k].misses = 0 /\ absent[k] >= 1
    BY <2>1, WatchFirstMiss DEF Watch!Present, Watch!WatchInv
  <2>3. threshold \in Nat /\ absent[k] \in Nat
    BY ThresholdAssumption DEF Watch!TypeOK
  <2>4. QED
    BY <2>1, <2>2, <2>3 DEF Watch!Confirms
<1>2. QED
  BY <1>1, WatchInductive, PTL DEF Watch!Spec, NoFalseAlarm

\* What the run lost_disappearance shows on one behaviour holds of all of them:
\* at a threshold above one the scheduler emits no AGENT_DISAPPEARED at all,
\* unless cycles overlapped, since observe_missing never counts to two.
THEOREM NoDisappearanceAboveOne ==
    Watch!Spec => [][\A k \in Keys : log[k] # NoEntry /\ log'[k] = NoEntry
                          => overlapped \/ threshold = 1]_watchVars
<1> DEFINE A == \A k \in Keys : log[k] # NoEntry /\ log'[k] = NoEntry
                                   => overlapped \/ threshold = 1
<1>1. Watch!TypeOK /\ Watch!WatchInv /\ [Watch!Next]_Watch!watchVars => [A]_watchVars
  <2> SUFFICES ASSUME Watch!TypeOK, Watch!WatchInv, Watch!Next, ~overlapped,
                      NEW k \in Keys, log[k] # Watch!NoEntry, log'[k] = Watch!NoEntry
               PROVE  threshold = 1
    BY DEF Watch!watchVars, watchVars, Watch!NoEntry, Watch!Nothing, NoEntry, Nothing
  <2>1. PICK t \in Watch!Watchers : Watch!Missed(t, k) /\ Watch!Confirms(presence[k].misses + 1)
    BY WatchErased
  <2>2. presence[k].misses = 0
    BY <2>1, WatchFirstMiss DEF Watch!Present, Watch!WatchInv
  <2>3. threshold \in Nat \ {0}
    BY ThresholdAssumption DEF Watch!TypeOK
  <2>4. QED
    BY <2>1, <2>2, <2>3 DEF Watch!Confirms
<1>2. QED
  BY <1>1, WatchInductive, PTL DEF Watch!Spec
=============================================================================
