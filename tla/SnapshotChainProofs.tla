------------------------ MODULE SnapshotChainProofs ------------------------
(***************************************************************************)
(* Theorems about SnapshotChain, for any number of processes, captures and *)
(* crashes.                                                                *)
(***************************************************************************)
EXTENDS SnapshotChain, FiniteSetTheorems, TLAPS

-----------------------------------------------------------------------------
(* Hashes and queues.                                                      *)

LEMMA HashAppend ==
    ASSUME NEW t \in Hashes, NEW c \in Captures
    PROVE  /\ Append(t, c) \in Hashes /\ Append(t, c) # NoHash
           /\ Front(Append(t, c)) = t /\ Last(Append(t, c)) = c
<1>1. /\ Append(t, c) \in Seq(Captures) /\ Len(Append(t, c)) = Len(t) + 1 /\ Len(t) \in Nat
      /\ Append(t, c)[Len(t) + 1] = c
      /\ \A i \in 1..Len(t) : Append(t, c)[i] = t[i]
  BY DEF Hashes
<1>2. SubSeq(Append(t, c), 1, Len(t)) = t
  BY <1>1 DEF Hashes
<1>3. QED
  BY <1>1, <1>2 DEF Hashes, NoHash, Front, Last

LEMMA HashParts ==
    ASSUME NEW h \in Hashes, h # NoHash
    PROVE  /\ Front(h) \in Hashes /\ Last(h) \in Captures
           /\ Len(h) \in Nat /\ Len(h) > 0
<1>1. Len(h) \in Nat /\ Len(h) > 0
  BY DEF Hashes, NoHash
<1>2. QED
  BY <1>1 DEF Hashes, Front, Last

LEMMA QueueAppend ==
    ASSUME NEW s \in Seq(Captures), NEW c \in Captures
    PROVE  /\ Append(s, c) \in Seq(Captures) /\ Len(Append(s, c)) = Len(s) + 1
           /\ Contains(Append(s, c), c)
           /\ \A d : Contains(Append(s, c), d) <=> Contains(s, d) \/ d = c
<1>1. /\ Append(s, c) \in Seq(Captures) /\ Len(Append(s, c)) = Len(s) + 1 /\ Len(s) \in Nat
      /\ Append(s, c)[Len(s) + 1] = c
      /\ \A i \in 1..Len(s) : Append(s, c)[i] = s[i]
  OBVIOUS
<1>2. \A d : Contains(s, d) => Contains(Append(s, c), d)
  BY <1>1 DEF Contains
<1>3. Contains(Append(s, c), c)
  BY <1>1 DEF Contains
<1>4. \A d : Contains(Append(s, c), d) => Contains(s, d) \/ d = c
  BY <1>1 DEF Contains
<1>5. QED
  BY <1>1, <1>2, <1>3, <1>4

LEMMA QueueTail ==
    ASSUME NEW s \in Seq(Captures), Len(s) > 0
    PROVE  /\ Head(s) \in Captures /\ Contains(s, Head(s))
           /\ Tail(s) \in Seq(Captures) /\ Len(Tail(s)) = Len(s) - 1
           /\ \A d : Contains(s, d) <=> d = Head(s) \/ Contains(Tail(s), d)
<1>1. /\ Len(s) \in Nat /\ Head(s) = s[1] /\ Head(s) \in Captures
      /\ Tail(s) \in Seq(Captures) /\ Len(Tail(s)) = Len(s) - 1
      /\ \A i \in 1..(Len(s) - 1) : Tail(s)[i] = s[i + 1]
  OBVIOUS
<1>2. Contains(s, Head(s))
  BY <1>1 DEF Contains
<1>3. ASSUME NEW d, Contains(Tail(s), d) PROVE Contains(s, d)
  <2>1. PICK i \in 1..Len(Tail(s)) : Tail(s)[i] = d
    BY <1>3 DEF Contains
  <2>2. i + 1 \in 1..Len(s) /\ s[i + 1] = d
    BY <1>1, <2>1
  <2>3. QED
    BY <2>2 DEF Contains
<1>4. ASSUME NEW d, Contains(s, d), d # Head(s) PROVE Contains(Tail(s), d)
  <2>1. PICK i \in 1..Len(s) : s[i] = d
    BY <1>4 DEF Contains
  <2>2. i # 1
    BY <1>1, <1>4, <2>1
  <2>3. i - 1 \in 1..Len(Tail(s)) /\ Tail(s)[i - 1] = d
    BY <1>1, <2>1, <2>2
  <2>4. QED
    BY <2>3 DEF Contains
<1>5. QED
  BY <1>1, <1>2, <1>3, <1>4

LEMMA QueueEmpty == Len(<<>>) = 0 /\ <<>> \in Seq(Captures) /\ \A d : ~Contains(<<>>, d)
BY DEF Contains

\* Two prefixes are compared element by element.
LEMMA PrefixElements ==
    ASSUME NEW g \in Hashes, NEW h \in Hashes
    PROVE  IsPrefix(g, h) <=> Len(g) <= Len(h) /\ \A i \in 1..Len(g) : g[i] = h[i]
<1>1. Len(g) \in Nat /\ Len(h) \in Nat
  BY DEF Hashes
<1>2. ASSUME Len(g) <= Len(h)
      PROVE  /\ SubSeq(g, 1, Len(g)) \in Seq(Captures) /\ Len(SubSeq(g, 1, Len(g))) = Len(g)
             /\ SubSeq(h, 1, Len(g)) \in Seq(Captures) /\ Len(SubSeq(h, 1, Len(g))) = Len(g)
             /\ \A i \in 1..Len(g) : SubSeq(g, 1, Len(g))[i] = g[i] /\ SubSeq(h, 1, Len(g))[i] = h[i]
  BY <1>1, <1>2 DEF Hashes
<1>3. QED
  BY <1>1, <1>2 DEF IsPrefix

\* What a hash shares with the one it descends from.
LEMMA HashPrefixes ==
    ASSUME NEW t \in Hashes, NEW c \in Captures,
           NEW n \in 1..Len(Append(t, c))
    PROVE  /\ n <= Len(t) => /\ n \in 1..Len(t)
                             /\ SubSeq(Append(t, c), 1, n) = SubSeq(t, 1, n)
                             /\ Append(t, c)[n] = t[n]
           /\ ~(n <= Len(t)) => /\ n = Len(t) + 1
                                /\ SubSeq(Append(t, c), 1, n) = Append(t, c)
                                /\ Append(t, c)[n] = c
BY DEF Hashes

LEMMA PrefixGrows ==
    ASSUME NEW t \in Hashes, NEW c \in Captures, NEW g \in Hashes, IsPrefix(g, t)
    PROVE  IsPrefix(g, Append(t, c))
<1> DEFINE h == Append(t, c)
<1>1. h \in Hashes /\ Len(h) = Len(t) + 1 /\ \A i \in 1..Len(t) : h[i] = t[i]
  BY DEF Hashes
<1>2. Len(t) \in Nat /\ Len(g) \in Nat
  BY DEF Hashes
<1>3. Len(g) <= Len(t) /\ \A i \in 1..Len(g) : g[i] = t[i]
  BY PrefixElements
<1> HIDE DEF h
<1>4. Len(g) <= Len(h) /\ \A i \in 1..Len(g) : g[i] = h[i]
  BY <1>1, <1>2, <1>3
<1>5. IsPrefix(g, h)
  BY <1>1, <1>4, PrefixElements
<1>6. QED
  BY <1>5 DEF h

\* A strict extension of t has an ancestor that is a child of t.
LEMMA ChildOf ==
    ASSUME NEW t \in Hashes, NEW g \in Hashes, IsPrefix(t, g), ~IsPrefix(g, t)
    PROVE  /\ Len(t) + 1 \in 1..Len(g)
           /\ Front(SubSeq(g, 1, Len(t) + 1)) = t
<1>1. Len(t) \in Nat /\ Len(g) \in Nat
  BY DEF Hashes
<1>2. Len(t) <= Len(g) /\ \A i \in 1..Len(t) : t[i] = g[i]
  BY PrefixElements
<1>3. Len(t) # Len(g)
  BY <1>1, <1>2, PrefixElements
<1>4. Len(t) + 1 \in 1..Len(g)
  BY <1>1, <1>2, <1>3
<1> DEFINE k == SubSeq(g, 1, Len(t) + 1)
<1>5. k \in Seq(Captures) /\ Len(k) = Len(t) + 1 /\ \A i \in 1..(Len(t) + 1) : k[i] = g[i]
  BY <1>1, <1>4 DEF Hashes
<1>6. /\ Front(k) \in Seq(Captures) /\ Len(Front(k)) = Len(t)
      /\ \A i \in 1..Len(t) : Front(k)[i] = k[i]
  <2> HIDE DEF k
  <2>1. QED
    BY <1>1, <1>5 DEF Front
<1>7. \A i \in 1..Len(t) : Front(k)[i] = t[i]
  BY <1>1, <1>2, <1>5, <1>6
<1>8. Front(k) = t
  <2> HIDE DEF k
  <2>1. QED
    BY <1>1, <1>6, <1>7 DEF Hashes
<1>9. QED
  BY <1>4, <1>8

-----------------------------------------------------------------------------
(* The table.                                                              *)

Grows(h) == ~Conflict(h) /\ rows' = rows \union {h}

LEMMA FlushFacts ==
    ASSUME NEW h
    PROVE  /\ Flush(h, "landed") => Grows(h)
           /\ Flush(h, "refused") => rows' = rows
           /\ Flush(h, "raised") => rows' = rows \/ Grows(h)
BY DEF Flush, Grows

LEMMA NewestFacts ==
    ASSUME SomeNewest, rows \subseteq Hashes
    PROVE  /\ Newest \in rows \union {NoHash} /\ Newest \in Hashes
           /\ rows # {} => Newest \in rows /\ \A g \in rows : at[Last(g)] <= at[Last(Newest)]
<1>1. CASE rows = {}
  BY <1>1 DEF Newest, Hashes, NoHash
<1>2. CASE rows # {}
  BY <1>2 DEF Newest, SomeNewest
<1>3. QED
  BY <1>1, <1>2

-----------------------------------------------------------------------------
(* Types.                                                                  *)

LEMMA TypeInit == Init => TypeOK
BY CapturesAssumption, BoundAssumption, FS_CardinalityType
   DEF Init, TypeOK, Hashes, NoHash, Waiting

LEMMA CallTypes ==
    ASSUME TypeOK, CallInv, NEW c \in Captures, pc[c] # "idle"
    PROVE  /\ owner[c] \in Procs /\ tip[owner[c]] \in Hashes /\ rec[c] \in Hashes
           /\ pending[owner[c]] \in Seq(Captures)
BY DEF TypeOK, CallInv

LEMMA ReplayTypes ==
    ASSUME TypeOK, ParkInv, NEW p \in Procs, todo[p] > 0
    PROVE  /\ pending[p] \in Seq(Captures) /\ Len(pending[p]) > 0
           /\ Head(pending[p]) \in Captures /\ Contains(pending[p], Head(pending[p]))
           /\ Tail(pending[p]) \in Seq(Captures) /\ Len(Tail(pending[p])) = Len(pending[p]) - 1
<1>1. pending[p] \in Seq(Captures) /\ todo[p] \in Nat /\ todo[p] <= Len(pending[p])
  BY DEF TypeOK, ParkInv
<1>2. Len(pending[p]) \in Nat /\ Len(pending[p]) > 0
  BY <1>1
<1>3. QED
  BY <1>1, <1>2, QueueTail

LEMMA StampCount ==
    ASSUME TypeOK, CallInv, TimeInv, NEW c \in Captures, NEW p \in Procs, Stamp(c, p)
    PROVE  LET n == Cardinality({d \in Captures : at[d] > 0}) IN
           /\ n \in Nat /\ n + 1 <= Cardinality(Captures) /\ Cardinality(Captures) \in Nat
           /\ at' = [at EXCEPT ![c] = n + 1]
           /\ Cardinality({d \in Captures : at'[d] > 0}) = n + 1
           /\ at[c] = 0
<1> DEFINE S == {d \in Captures : at[d] > 0}
           T == {d \in Captures : at'[d] > 0}
<1>1. at[c] = 0 /\ c \notin S /\ S \subseteq Captures
  BY DEF Stamp, CallInv
<1>2. IsFiniteSet(S) /\ Cardinality(S) \in Nat /\ Cardinality(Captures) \in Nat
  BY CapturesAssumption, FS_Subset, FS_CardinalityType
<1>3. at' = [at EXCEPT ![c] = Cardinality(S) + 1]
  BY DEF Stamp
<1>4. T = S \union {c}
  <2>1. \A d \in Captures : at'[d] = IF d = c THEN Cardinality(S) + 1 ELSE at[d]
    BY <1>3 DEF TypeOK
  <2>2. QED
    BY <1>2, <2>1
<1>5. Cardinality(T) = Cardinality(S) + 1
  BY <1>1, <1>2, <1>4, FS_AddElement
<1>6. Cardinality(T) <= Cardinality(Captures)
  BY CapturesAssumption, FS_Subset
<1>7. QED
  BY <1>1, <1>2, <1>3, <1>5, <1>6

LEMMA ParkTypes ==
    ASSUME TypeOK, CallInv, NEW c \in Captures, pc[c] # "idle"
    PROVE  [pending EXCEPT ![owner[c]] = Append(@, c)] \in [Procs -> Seq(Captures)]
<1>1. pending[owner[c]] \in Seq(Captures) /\ Append(pending[owner[c]], c) \in Seq(Captures)
  BY CallTypes, QueueAppend
<1>2. QED
  BY <1>1 DEF TypeOK

LEMMA RowTypes ==
    ASSUME TypeOK, NEW c \in Captures, rec[c] # NoHash, Grows(rec[c])
    PROVE  rows' \subseteq Hashes \ {NoHash}
BY DEF TypeOK, Grows

LEMMA TypeStep ==
    ASSUME TypeOK, CallInv, ParkInv, TimeInv, SomeNewest, [Next]_vars
    PROVE  TypeOK'
<1>0. rows \subseteq Hashes /\ NoHash \in Hashes /\ Newest \in Hashes
  <2>1. rows \subseteq Hashes
    BY DEF TypeOK
  <2>2. QED
    BY <2>1, NewestFacts DEF Hashes, NoHash
<1>1. ASSUME NEW c \in Captures, NEW p \in Procs, Stamp(c, p) PROVE TypeOK'
  <2>1. at' \in [Captures -> 0..Cardinality(Captures)]
    <3> DEFINE n == Cardinality({d \in Captures : at[d] > 0})
    <3>1. /\ n \in Nat /\ n + 1 <= Cardinality(Captures) /\ Cardinality(Captures) \in Nat
          /\ at' = [at EXCEPT ![c] = n + 1]
      BY <1>1, StampCount
    <3> HIDE DEF n
    <3>2. QED
      BY <3>1 DEF TypeOK
  <2>2. QED
    BY <1>1, <2>1 DEF Stamp, TypeOK, Waiting
<1>2. ASSUME NEW c \in Captures, Link(c) PROVE TypeOK'
  <2>1. owner[c] \in Procs /\ Append(tip[owner[c]], c) \in Hashes
    BY <1>2, CallTypes, HashAppend DEF Link
  <2>2. pc' \in [Captures -> Waiting \union Locked \union {"done", "dead"}]
    BY <1>2 DEF Link, TypeOK, Locked
  <2>3. QED
    BY <1>2, <2>1, <2>2 DEF Link, TypeOK
<1>3. ASSUME NEW c \in Captures, Insert(c) PROVE TypeOK'
  <2>1. pc[c] # "idle" /\ rec[c] # NoHash
    BY <1>3 DEF Insert, CallInv, Locked
  <2>2. rows' = rows \/ Grows(rec[c])
    BY <1>3, FlushFacts DEF Insert
  <2>3. rows' \subseteq Hashes \ {NoHash}
    BY <2>1, <2>2, RowTypes DEF TypeOK
  <2>4. pending' \in [Procs -> Seq(Captures)] /\ outage' \subseteq Captures
    BY <1>3, <2>1, ParkTypes DEF Insert, ParkOutage, TypeOK
  <2>5. pc' \in [Captures -> Waiting \union Locked \union {"done", "dead"}]
    BY <1>3 DEF Insert, ParkOutage, TypeOK, Locked
  <2>6. QED
    BY <1>3, <2>3, <2>4, <2>5 DEF Insert, TypeOK
<1>4. ASSUME NEW c \in Captures, Relink(c) PROVE TypeOK'
  <2>1. pc[c] # "idle"
    BY <1>4 DEF Relink
  <2>2. owner[c] \in Procs /\ Append(Newest, c) \in Hashes
    BY <1>0, <2>1, CallTypes, HashAppend
  <2>3. rec' \in [Captures -> Hashes] /\ tip' \in [Procs -> Hashes]
    BY <1>4, <2>2 DEF Relink, TypeOK
  <2>4. pending' \in [Procs -> Seq(Captures)] /\ outage' \subseteq Captures
    BY <1>4, <2>1, ParkTypes DEF Relink, ParkOutage, TypeOK
  <2>5. pc' \in [Captures -> Waiting \union Locked \union {"done", "dead"}]
    BY <1>4 DEF Relink, ParkOutage, TypeOK, Locked
  <2>6. QED
    BY <1>4, <2>3, <2>4, <2>5 DEF Relink, TypeOK
<1>5. ASSUME NEW c \in Captures, InsertAgain(c) PROVE TypeOK'
  <2>1. pc[c] # "idle" /\ rec[c] # NoHash
    BY <1>5 DEF InsertAgain, CallInv, Locked
  <2>2. rows' = rows \/ Grows(rec[c])
    BY <1>5, FlushFacts DEF InsertAgain
  <2>3. rows' \subseteq Hashes \ {NoHash}
    BY <2>1, <2>2, RowTypes DEF TypeOK
  <2>4. pending' \in [Procs -> Seq(Captures)] /\ outage' \subseteq Captures
    BY <1>5, <2>1, ParkTypes DEF InsertAgain, ParkOutage, TypeOK
  <2>5. pc' \in [Captures -> Waiting \union Locked \union {"done", "dead"}]
    BY <1>5 DEF InsertAgain, ParkOutage, TypeOK, Locked
  <2>6. QED
    BY <1>5, <2>3, <2>4, <2>5 DEF InsertAgain, TypeOK
<1>6. ASSUME NEW c \in Captures, Reseed(c) PROVE TypeOK'
  <2>1. rec[c] \in Hashes /\ rec[c] # NoHash
    BY <1>6 DEF Reseed, TypeOK, CallInv, Locked
  <2>2. Front(rec[c]) \in Hashes
    BY <2>1, HashParts
  <2>3. tip' \in [Procs -> Hashes]
    BY <1>0, <1>6, <2>2 DEF Reseed, TypeOK
  <2>4. QED
    BY <1>6, <2>3 DEF Reseed, TypeOK
<1>7. ASSUME NEW p \in Procs, ReplayBegin(p) PROVE TypeOK'
  <2>1. pending[p] \in Seq(Captures)
    BY DEF TypeOK
  <2>2. Len(pending[p]) \in Nat
    BY <2>1
  <2>3. QED
    BY <1>7, <2>2 DEF ReplayBegin, TypeOK
<1>8. ASSUME NEW p \in Procs, ReplayOne(p) PROVE TypeOK'
  <2> DEFINE c == Head(pending[p])
  <2>1. todo[p] > 0 /\ todo[p] \in Nat
    BY <1>8 DEF ReplayOne, TypeOK
  <2>2. c \in Captures /\ Tail(pending[p]) \in Seq(Captures) /\ Contains(pending[p], c)
    BY <2>1, ReplayTypes
  <2>3. Append(Tail(pending[p]), c) \in Seq(Captures)
    BY <2>2, QueueAppend
  <2>4. pending' \in [Procs -> Seq(Captures)]
    BY <1>8, <2>2, <2>3 DEF ReplayOne, TypeOK
  <2>5. rec[c] # NoHash
    BY <2>2 DEF ParkInv, CallInv, Locked
  <2>6. rows' = rows \/ Grows(rec[c])
    BY <1>8, FlushFacts DEF ReplayOne
  <2>7. rows' \subseteq Hashes \ {NoHash}
    BY <2>2, <2>5, <2>6, RowTypes DEF TypeOK
  <2>8. todo' \in [Procs -> Nat]
    BY <1>8, <2>1 DEF ReplayOne, TypeOK
  <2>9. QED
    BY <1>8, <2>4, <2>7, <2>8 DEF ReplayOne, TypeOK
<1>9. ASSUME NEW p \in Procs, Restart(p) PROVE TypeOK'
  <2>1. crashes' \in 0..MaxCrashes
    <3>1. crashes \in 0..MaxCrashes /\ crashes < MaxCrashes /\ crashes' = crashes + 1
      BY <1>9 DEF Restart, TypeOK
    <3>2. QED
      BY <3>1, BoundAssumption
  <2>2. lost' \subseteq Captures /\ disabled' \in [Procs -> BOOLEAN]
    BY <1>9 DEF Restart, TypeOK
  <2>3. pc' \in [Captures -> Waiting \union Locked \union {"done", "dead"}]
    BY <1>9 DEF Restart, TypeOK
  <2>4. pending' \in [Procs -> Seq(Captures)] /\ todo' \in [Procs -> Nat]
    BY <1>9, QueueEmpty DEF Restart, TypeOK
  <2>5. tip' \in [Procs -> Hashes]
    <3>1. PICK t \in {NoHash} \union {Newest} : tip' = [tip EXCEPT ![p] = t]
      BY <1>9 DEF Restart
    <3>2. QED
      BY <1>0, <3>1 DEF TypeOK
  <2>6. QED
    BY <1>9, <2>1, <2>2, <2>3, <2>4, <2>5 DEF Restart, TypeOK
<1>10. CASE UNCHANGED vars
  BY <1>10 DEF vars, TypeOK
<1>11. QED
  BY <1>1, <1>2, <1>3, <1>4, <1>5, <1>6, <1>7, <1>8, <1>9, <1>10 DEF Next

-----------------------------------------------------------------------------
(* Calls, and the lock.                                                    *)

LEMMA PcAt ==
    ASSUME TypeOK, NEW c \in Captures, NEW s, pc' = [pc EXCEPT ![c] = s]
    PROVE  pc'[c] = s /\ \A d \in Captures : d # c => pc'[d] = pc[d]
BY DEF TypeOK

LEMMA TodoAt ==
    ASSUME TypeOK, NEW p \in Procs, NEW n, todo' = [todo EXCEPT ![p] = n]
    PROVE  todo'[p] = n /\ \A q \in Procs : q # p => todo'[q] = todo[q]
BY DEF TypeOK

LEMMA QueueTypes ==
    ASSUME TypeOK, NEW p \in Procs
    PROVE  pending[p] \in Seq(Captures) /\ Len(pending[p]) \in Nat /\ todo[p] \in Nat
<1>1. pending[p] \in Seq(Captures) /\ todo[p] \in Nat
  BY DEF TypeOK
<1>2. QED
  BY <1>1

LEMMA CallStep ==
    ASSUME TypeOK, CallInv, ParkInv, LockInv, TimeInv, SomeNewest, [Next]_vars
    PROVE  CallInv'
<1> USE DEF Locked, Waiting
<1>0. Newest \in Hashes
  <2>1. rows \subseteq Hashes
    BY DEF TypeOK
  <2>2. QED
    BY <2>1, NewestFacts
<1>1. ASSUME NEW c \in Captures, NEW p \in Procs, Stamp(c, p) PROVE CallInv'
  <2> DEFINE n == Cardinality({d \in Captures : at[d] > 0})
  <2>1. /\ n \in Nat /\ at' = [at EXCEPT ![c] = n + 1]
    BY <1>1, StampCount
  <2>2. /\ UNCHANGED <<rec, outage>> /\ pc[c] = "idle"
        /\ pc' = [pc EXCEPT ![c] = "stamped"] /\ owner' = [owner EXCEPT ![c] = p]
    BY <1>1 DEF Stamp
  <2> HIDE DEF n
  <2>3. /\ pc'[c] = "stamped" /\ owner'[c] = p /\ at'[c] = n + 1
        /\ \A d \in Captures : d # c => pc'[d] = pc[d] /\ owner'[d] = owner[d] /\ at'[d] = at[d]
    BY <2>1, <2>2 DEF TypeOK
  <2>4. \A d \in Captures : rec'[d] = rec[d] /\ (d \in outage' <=> d \in outage)
    BY <2>2
  <2>5. ASSUME NEW d \in Captures
        PROVE  /\ pc'[d] = "idle" => at'[d] = 0
               /\ pc'[d] # "idle" => owner'[d] \in Procs /\ at'[d] > 0
               /\ pc'[d] \in Waiting => rec'[d] = NoHash
               /\ pc'[d] \in Locked \union {"done"} => rec'[d] # NoHash
               /\ rec'[d] # NoHash => Last(rec'[d]) = d
               /\ d \in outage' => pc'[d] = "done"
    <3>1. CASE d = c
      <4>1. rec'[c] = NoHash /\ c \notin outage'
        BY <2>2 DEF CallInv
      <4>2. n + 1 > 0
        BY <2>1
      <4>3. QED
        BY <2>3, <3>1, <4>1, <4>2
    <3>2. CASE d # c
      <4>1. /\ pc'[d] = pc[d] /\ owner'[d] = owner[d] /\ at'[d] = at[d]
            /\ rec'[d] = rec[d] /\ (d \in outage' <=> d \in outage)
        BY <2>3, <2>4, <3>2
      <4>2. /\ pc[d] = "idle" => at[d] = 0
            /\ pc[d] # "idle" => owner[d] \in Procs /\ at[d] > 0
            /\ pc[d] \in Waiting => rec[d] = NoHash
            /\ pc[d] \in Locked \union {"done"} => rec[d] # NoHash
            /\ rec[d] # NoHash => Last(rec[d]) = d
            /\ d \in outage => pc[d] = "done"
        BY DEF CallInv
      <4> HIDE DEF Locked, Waiting
      <4>3. QED
        BY <4>1, <4>2
    <3>3. QED
      BY <3>1, <3>2
  <2>6. QED
    BY <2>5 DEF CallInv
<1>2. ASSUME NEW c \in Captures, Link(c) PROVE CallInv'
  <2> DEFINE h == Append(tip[owner[c]], c)
  <2>1. h # NoHash /\ Last(h) = c
    BY <1>2, CallTypes, HashAppend DEF Link
  <2>2. /\ UNCHANGED <<at, owner, outage>> /\ pc[c] = "stamped"
        /\ rec' = [rec EXCEPT ![c] = h]
        /\ \E s \in {"done", "flush"} : pc' = [pc EXCEPT ![c] = s]
    BY <1>2 DEF Link
  <2> HIDE DEF h
  <2>3. QED
    BY <2>1, <2>2 DEF TypeOK, CallInv
<1>3. ASSUME NEW c \in Captures, Insert(c) \/ InsertAgain(c) \/ Reseed(c) PROVE CallInv'
  <2>1. /\ UNCHANGED <<at, owner, rec>> /\ pc[c] \in Locked
        /\ \/ outage' = outage /\ \E s \in Locked \union {"done"} : pc' = [pc EXCEPT ![c] = s]
           \/ outage' = outage \union {c} /\ pc' = [pc EXCEPT ![c] = "done"]
    BY <1>3 DEF Insert, InsertAgain, Reseed, ParkOutage
  <2>2. QED
    BY <2>1 DEF TypeOK, CallInv
<1>4. ASSUME NEW c \in Captures, Relink(c) PROVE CallInv'
  <2> DEFINE h == Append(Newest, c)
  <2>1. h # NoHash /\ Last(h) = c
    BY <1>0, HashAppend
  <2>2. /\ UNCHANGED <<at, owner>> /\ pc[c] = "refused"
        /\ \/ /\ rec' = [rec EXCEPT ![c] = h] /\ outage' = outage
              /\ pc' = [pc EXCEPT ![c] = "reflush"]
           \/ rec' = rec /\ outage' = outage \union {c} /\ pc' = [pc EXCEPT ![c] = "done"]
    BY <1>4 DEF Relink, ParkOutage
  <2> HIDE DEF h
  <2>3. /\ \/ rec'[c] = h /\ pc'[c] = "reflush" /\ outage' = outage
           \/ rec'[c] = rec[c] /\ pc'[c] = "done" /\ outage' = outage \union {c}
        /\ \A d \in Captures : d # c => pc'[d] = pc[d] /\ rec'[d] = rec[d]
    BY <2>2 DEF TypeOK
  <2>4. at'[c] = at[c] /\ owner'[c] = owner[c]
    BY <2>2
  <2>5. ASSUME NEW d \in Captures
        PROVE  /\ pc'[d] = "idle" => at'[d] = 0
               /\ pc'[d] # "idle" => owner'[d] \in Procs /\ at'[d] > 0
               /\ pc'[d] \in Waiting => rec'[d] = NoHash
               /\ pc'[d] \in Locked \union {"done"} => rec'[d] # NoHash
               /\ rec'[d] # NoHash => Last(rec'[d]) = d
               /\ d \in outage' => pc'[d] = "done"
    <3>1. CASE d = c
      BY <2>1, <2>2, <2>3, <2>4, <3>1 DEF CallInv
    <3>2. CASE d # c
      BY <2>2, <2>3, <3>2 DEF CallInv
    <3>3. QED
      BY <3>1, <3>2
  <2>6. QED
    BY <2>5 DEF CallInv
<1>5. ASSUME NEW p \in Procs, ReplayBegin(p) \/ ReplayOne(p) PROVE CallInv'
  <2>1. UNCHANGED <<at, owner, pc, rec, outage>>
    BY <1>5 DEF ReplayBegin, ReplayOne
  <2>2. QED
    BY <2>1 DEF CallInv
<1>6. ASSUME NEW p \in Procs, Restart(p) PROVE CallInv'
  <2>1. /\ UNCHANGED <<at, owner, rec, outage>>
        /\ \A c \in Captures : \/ pc'[c] = pc[c]
                               \/ pc'[c] = "dead" /\ pc[c] \notin {"idle", "done"}
    BY <1>6 DEF Restart
  <2>2. QED
    BY <2>1 DEF CallInv
<1>7. CASE UNCHANGED vars
  BY <1>7 DEF vars, CallInv
<1>8. QED
  BY <1>1, <1>2, <1>3, <1>4, <1>5, <1>6, <1>7 DEF Next

LEMMA LockStep ==
    ASSUME TypeOK, CallInv, ParkInv, LockInv, [Next]_vars
    PROVE  LockInv'
<1> USE DEF Locked, Waiting
<1>1. ASSUME NEW c \in Captures, NEW p \in Procs, Stamp(c, p) PROVE LockInv'
  BY <1>1 DEF Stamp, TypeOK, LockInv
<1>2. ASSUME NEW c \in Captures, Link(c) PROVE LockInv'
  <2>1. /\ UNCHANGED <<owner, todo, disabled>> /\ Free(owner[c])
        /\ pc' = [pc EXCEPT ![c] = IF disabled[owner[c]] THEN "done" ELSE "flush"]
    BY <1>2 DEF Link
  <2>2. QED
    BY <2>1 DEF TypeOK, LockInv, Free
<1>3. ASSUME NEW c \in Captures, Insert(c) \/ Relink(c) \/ InsertAgain(c) \/ Reseed(c)
      PROVE  LockInv'
  <2>1. /\ UNCHANGED <<owner, todo, disabled>> /\ pc[c] \in Locked
        /\ \E s \in Locked \union {"done"} : pc' = [pc EXCEPT ![c] = s]
    BY <1>3 DEF Insert, Relink, InsertAgain, Reseed, ParkOutage
  <2>2. QED
    BY <2>1 DEF TypeOK, LockInv
<1>4. ASSUME NEW p \in Procs, ReplayBegin(p) PROVE LockInv'
  <2>1. /\ UNCHANGED <<pc, owner, disabled>> /\ Free(p)
        /\ todo' = [todo EXCEPT ![p] = Len(pending[p])]
    BY <1>4 DEF ReplayBegin
  <2>2. \A c \in Captures : pc[c] \in Locked => owner[c] \in Procs /\ owner[c] # p
    BY <2>1 DEF Free, CallInv
  <2>3. \A q \in Procs : q # p => todo'[q] = todo[q]
    BY <2>1, TodoAt
  <2> HIDE DEF Locked
  <2>4. QED
    BY <2>1, <2>2, <2>3 DEF LockInv
<1>5. ASSUME NEW p \in Procs, ReplayOne(p) PROVE LockInv'
  <2>1. UNCHANGED <<pc, owner, disabled>> /\ todo[p] > 0 /\ todo' = [todo EXCEPT ![p] = @ - 1]
    BY <1>5 DEF ReplayOne
  <2>2. ASSUME NEW c \in Captures, pc[c] \in Locked PROVE owner[c] \in Procs /\ owner[c] # p
    <3>1. owner[c] \in Procs
      BY <2>2 DEF CallInv
    <3>2. todo[owner[c]] = 0
      BY <2>2 DEF LockInv
    <3>3. QED
      BY <2>1, <3>1, <3>2
  <2>3. \A q \in Procs : q # p => todo'[q] = todo[q]
    BY <2>1, TodoAt
  <2> HIDE DEF Locked
  <2>4. QED
    BY <2>1, <2>2, <2>3 DEF LockInv
<1>6. ASSUME NEW p \in Procs, Restart(p) PROVE LockInv'
  <2>1. /\ owner' = owner
        /\ \A c \in Captures : pc'[c] \in Locked => pc[c] \in Locked /\ owner[c] # p
        /\ \E b : disabled' = [disabled EXCEPT ![p] = b]
        /\ todo' = [todo EXCEPT ![p] = 0]
    BY <1>6 DEF Restart
  <2>2. \A c \in Captures : pc[c] \in Locked => owner[c] \in Procs
    BY DEF CallInv
  <2>3. \A q \in Procs : q # p => todo'[q] = todo[q] /\ disabled'[q] = disabled[q]
    BY <2>1 DEF TypeOK
  <2> HIDE DEF Locked
  <2>4. QED
    BY <2>1, <2>2, <2>3 DEF LockInv
<1>7. CASE UNCHANGED vars
  BY <1>7 DEF vars, LockInv
<1>8. QED
  BY <1>1, <1>2, <1>3, <1>4, <1>5, <1>6, <1>7 DEF Next

\* Parking keeps what was parked, and parks the record.
LEMMA ParkAppends ==
    ASSUME TypeOK, NEW c \in Captures, owner[c] \in Procs,
           pending' = [pending EXCEPT ![owner[c]] = Append(@, c)]
    PROVE  /\ Contains(pending'[owner[c]], c)
           /\ \A p \in Procs : Len(pending[p]) <= Len(pending'[p]) /\ Len(pending[p]) \in Nat
           /\ \A p \in Procs, d \in Captures :
                 Contains(pending'[p], d) <=> Contains(pending[p], d) \/ (p = owner[c] /\ d = c)
<1>1. \A p \in Procs : pending[p] \in Seq(Captures) /\ Len(pending[p]) \in Nat
  BY DEF TypeOK
<1>2. \A p \in Procs : pending'[p] = IF p = owner[c] THEN Append(pending[p], c) ELSE pending[p]
  BY DEF TypeOK
<1>3. QED
  BY <1>1, <1>2, QueueAppend

\* A replay keeps what is parked but for a record that has landed.
LEMMA ReplayKeeps ==
    ASSUME TypeOK, ParkInv, NEW p \in Procs, ReplayOne(p)
    PROVE  LET c == Head(pending[p]) IN
           /\ todo'[p] <= Len(pending'[p]) /\ \A q \in Procs : q # p => pending'[q] = pending[q]
           /\ \A d \in Captures : Contains(pending'[p], d) => Contains(pending[p], d)
           /\ \A d \in Captures :
                 Contains(pending[p], d) /\ (d # c \/ ~Grows(rec[c])) => Contains(pending'[p], d)
<1> DEFINE c == Head(pending[p])
           s == Tail(pending[p])
<1>1. /\ todo[p] \in Nat /\ todo[p] > 0 /\ todo[p] <= Len(pending[p])
      /\ todo' = [todo EXCEPT ![p] = @ - 1]
  BY DEF ReplayOne, TypeOK, ParkInv
<1>2. /\ pending[p] \in Seq(Captures) /\ Len(pending[p]) > 0
      /\ c \in Captures /\ s \in Seq(Captures) /\ Len(s) = Len(pending[p]) - 1
      /\ Len(pending[p]) \in Nat
  BY <1>1, ReplayTypes
<1>3. \A d : Contains(pending[p], d) <=> d = c \/ Contains(s, d)
  BY <1>2, QueueTail
<1>4. /\ Len(Append(s, c)) = Len(s) + 1
      /\ \A d : Contains(Append(s, c), d) <=> Contains(s, d) \/ d = c
  BY <1>2, QueueAppend
<1>5. \/ Grows(rec[c]) /\ pending' = [pending EXCEPT ![p] = s]
      \/ pending' = [pending EXCEPT ![p] = Append(s, c)]
  BY FlushFacts DEF ReplayOne
<1>6. \/ Grows(rec[c]) /\ pending'[p] = s
      \/ pending'[p] = Append(s, c)
  BY <1>5 DEF TypeOK
<1>7. \A q \in Procs : q # p => pending'[q] = pending[q]
  BY <1>5 DEF TypeOK
<1>8. todo'[p] = todo[p] - 1
  BY <1>1 DEF TypeOK
<1> HIDE DEF c, s
<1>9. todo'[p] <= Len(pending'[p])
  BY <1>1, <1>2, <1>4, <1>6, <1>8
<1>10. \A d \in Captures : Contains(pending'[p], d) => Contains(pending[p], d)
  BY <1>3, <1>4, <1>6
<1>11. \A d \in Captures :
          Contains(pending[p], d) /\ (d # c \/ ~Grows(rec[c])) => Contains(pending'[p], d)
  BY <1>3, <1>4, <1>6
<1>12. QED
  BY <1>7, <1>9, <1>10, <1>11 DEF c

LEMMA ParkStep ==
    ASSUME TypeOK, CallInv, LockInv, ParkInv, [Next]_vars
    PROVE  ParkInv'
<1> USE DEF Locked, Waiting
<1>1. ASSUME NEW c \in Captures, UNCHANGED <<pending, todo>>,
             pc[c] \in {"idle", "stamped", "flush", "refused", "reflush", "refused twice"},
             \E s \in Waiting \union (Locked \ {"refused twice"}) \union {"done"} :
                pc' = [pc EXCEPT ![c] = s],
             owner' = owner \/ (pc[c] = "idle" /\ \E p : owner' = [owner EXCEPT ![c] = p]),
             pc[c] = "refused twice" => pc'[c] = "done"
      PROVE  ParkInv'
  <2>1. \A p \in Procs : pc[c] # "refused twice" => ~Contains(pending[p], c)
    BY <1>1 DEF ParkInv
  <2>2. \A d \in Captures \ {c} : pc'[d] = pc[d] /\ owner'[d] = owner[d]
    BY <1>1 DEF TypeOK
  <2>3. pc'[c] # "refused twice" /\ (pc[c] = "refused twice" => pc'[c] = "done" /\ owner' = owner)
    BY <1>1 DEF TypeOK
  <2>4. \A p \in Procs : todo'[p] <= Len(pending'[p])
    BY <1>1 DEF ParkInv
  <2>5. ASSUME NEW p \in Procs, NEW d \in Captures, Contains(pending'[p], d)
        PROVE  owner'[d] = p /\ pc'[d] \in {"done", "refused twice"}
    <3>1. Contains(pending[p], d) /\ owner[d] = p /\ pc[d] \in {"done", "refused twice"}
      BY <1>1, <2>5 DEF ParkInv
    <3>2. QED
      BY <2>1, <2>2, <2>3, <3>1
  <2>6. ASSUME NEW d \in Captures, pc'[d] = "refused twice" PROVE Parked(d)'
    <3>1. d # c /\ pc[d] = "refused twice" /\ owner'[d] = owner[d]
      BY <2>2, <2>3, <2>6
    <3>2. Parked(d)
      BY <3>1 DEF ParkInv
    <3>3. QED
      BY <1>1, <3>1, <3>2 DEF Parked
  <2>7. QED
    BY <2>4, <2>5, <2>6 DEF ParkInv
<1>2. ASSUME NEW c \in Captures, UNCHANGED <<todo, owner>>, pc[c] \in Locked,
             pending' = [pending EXCEPT ![owner[c]] = Append(@, c)],
             pc' = [pc EXCEPT ![c] = "done"] \/ pc' = [pc EXCEPT ![c] = "refused twice"]
      PROVE  ParkInv'
  <2>1. owner[c] \in Procs
    BY <1>2 DEF CallInv
  <2>2. /\ Contains(pending'[owner[c]], c)
        /\ \A p \in Procs : Len(pending[p]) <= Len(pending'[p]) /\ Len(pending[p]) \in Nat
        /\ \A p \in Procs, d \in Captures :
              Contains(pending'[p], d) <=> Contains(pending[p], d) \/ (p = owner[c] /\ d = c)
    BY <1>2, <2>1, ParkAppends
  <2>3. \A p \in Procs : todo[p] \in Nat /\ pending'[p] \in Seq(Captures)
    <3>1. pending[owner[c]] \in Seq(Captures)
      BY <2>1 DEF TypeOK
    <3>2. QED
      BY <1>2, <3>1, QueueAppend DEF TypeOK
  <2>4. \A p \in Procs : todo'[p] <= Len(pending'[p])
    <3>1. \A p \in Procs : Len(pending'[p]) \in Nat
      BY <2>3
    <3>2. \A p \in Procs : todo'[p] = todo[p] /\ todo[p] <= Len(pending[p])
      BY <1>2 DEF ParkInv
    <3> HIDE DEF Locked, Waiting
    <3>3. QED
      BY <2>2, <2>3, <3>1, <3>2
  <2>5. \A d \in Captures : pc'[d] = pc[d] \/ (d = c /\ pc'[d] \in {"done", "refused twice"})
    BY <1>2 DEF TypeOK
  <2>6. \A p \in Procs, d \in Captures :
           Contains(pending'[p], d) => owner'[d] = p /\ pc'[d] \in {"done", "refused twice"}
    <3> SUFFICES ASSUME NEW p \in Procs, NEW d \in Captures, Contains(pending'[p], d)
                 PROVE  owner'[d] = p /\ pc'[d] \in {"done", "refused twice"}
      OBVIOUS
    <3>1. CASE Contains(pending[p], d)
      <4>1. owner[d] = p /\ pc[d] \in {"done", "refused twice"}
        BY <3>1 DEF ParkInv
      <4>2. QED
        BY <1>2, <2>5, <4>1
    <3>2. CASE p = owner[c] /\ d = c
      <4>1. pc'[c] \in {"done", "refused twice"}
        BY <1>2, PcAt
      <4>2. QED
        BY <1>2, <3>2, <4>1
    <3>3. QED
      BY <2>2, <3>1, <3>2
  <2>7. \A d \in Captures : pc'[d] = "refused twice" => Parked(d)'
    BY <1>2, <2>1, <2>2, <2>5 DEF ParkInv, Parked
  <2>8. QED
    BY <2>4, <2>6, <2>7 DEF ParkInv
<1>3. ASSUME NEW c \in Captures, NEW p \in Procs, Stamp(c, p) PROVE ParkInv'
  BY <1>1, <1>3 DEF Stamp, TypeOK
<1>4. ASSUME NEW c \in Captures, Link(c) PROVE ParkInv'
  BY <1>1, <1>4 DEF Link, TypeOK
<1>5. ASSUME NEW c \in Captures, Insert(c) PROVE ParkInv'
  <2>1. /\ pc[c] = "flush" /\ UNCHANGED <<todo, owner>>
        /\ \/ pending' = pending /\ \E s \in {"done", "refused"} : pc' = [pc EXCEPT ![c] = s]
           \/ /\ pending' = [pending EXCEPT ![owner[c]] = Append(@, c)]
              /\ pc' = [pc EXCEPT ![c] = "done"]
    BY <1>5 DEF Insert, ParkOutage
  <2>2. QED
    BY <1>1, <1>2, <2>1
<1>6. ASSUME NEW c \in Captures, Relink(c) PROVE ParkInv'
  <2>1. /\ pc[c] = "refused" /\ UNCHANGED <<todo, owner>>
        /\ \/ pending' = pending /\ pc' = [pc EXCEPT ![c] = "reflush"]
           \/ /\ pending' = [pending EXCEPT ![owner[c]] = Append(@, c)]
              /\ pc' = [pc EXCEPT ![c] = "done"]
    BY <1>6 DEF Relink, ParkOutage
  <2>2. QED
    BY <1>1, <1>2, <2>1
<1>7. ASSUME NEW c \in Captures, InsertAgain(c) PROVE ParkInv'
  <2>1. /\ pc[c] = "reflush" /\ UNCHANGED <<todo, owner>>
        /\ \/ pending' = pending /\ pc' = [pc EXCEPT ![c] = "done"]
           \/ /\ pending' = [pending EXCEPT ![owner[c]] = Append(@, c)]
              /\ \E s \in {"done", "refused twice"} : pc' = [pc EXCEPT ![c] = s]
    BY <1>7 DEF InsertAgain, ParkOutage
  <2>2. QED
    BY <1>1, <1>2, <2>1
<1>8. ASSUME NEW c \in Captures, Reseed(c) PROVE ParkInv'
  <2>1. /\ pc[c] = "refused twice" /\ UNCHANGED <<pending, todo, owner>>
        /\ pc' = [pc EXCEPT ![c] = "done"]
    BY <1>8 DEF Reseed
  <2>2. pc'[c] = "done"
    BY <2>1 DEF TypeOK
  <2>3. QED
    BY <1>1, <2>1, <2>2
<1>9. ASSUME NEW p \in Procs, ReplayBegin(p) PROVE ParkInv'
  <2>1. UNCHANGED <<pc, owner, pending>> /\ todo' = [todo EXCEPT ![p] = Len(pending[p])]
    BY <1>9 DEF ReplayBegin
  <2>2. \A q \in Procs : todo'[q] <= Len(pending'[q])
    <3> SUFFICES ASSUME NEW q \in Procs PROVE todo'[q] <= Len(pending'[q])
      OBVIOUS
    <3>1. Len(pending[q]) \in Nat /\ pending'[q] = pending[q]
      BY <2>1, QueueTypes
    <3>0. todo'[q] = IF q = p THEN Len(pending[p]) ELSE todo[q]
      BY <2>1 DEF TypeOK
    <3>2. CASE q = p
      BY <3>0, <3>1, <3>2
    <3>3. CASE q # p
      BY <3>0, <3>1, <3>3 DEF ParkInv
    <3>4. QED
      BY <3>2, <3>3
  <2>3. QED
    BY <2>1, <2>2 DEF ParkInv, Parked
<1>10. ASSUME NEW p \in Procs, ReplayOne(p) PROVE ParkInv'
  <2>1. UNCHANGED <<pc, owner>> /\ todo[p] > 0 /\ todo' = [todo EXCEPT ![p] = @ - 1]
    BY <1>10 DEF ReplayOne
  <2>2. /\ todo'[p] <= Len(pending'[p]) /\ \A q \in Procs : q # p => pending'[q] = pending[q]
        /\ \A d \in Captures : Contains(pending'[p], d) => Contains(pending[p], d)
    BY <1>10, ReplayKeeps
  <2>3. \A q \in Procs : todo'[q] <= Len(pending'[q])
    BY <2>1, <2>2 DEF TypeOK, ParkInv
  <2>4. \A q \in Procs, d \in Captures :
           Contains(pending'[q], d) => owner'[d] = q /\ pc'[d] \in {"done", "refused twice"}
    BY <2>1, <2>2 DEF ParkInv
  <2>5. ASSUME NEW d \in Captures, pc'[d] = "refused twice" PROVE Parked(d)'
    <3>1. pc[d] = "refused twice" /\ owner'[d] = owner[d] /\ Parked(d)
      BY <2>1, <2>5 DEF ParkInv
    <3>2. todo[owner[d]] = 0
      BY <3>1 DEF LockInv
    <3>3. owner[d] # p
      BY <2>1, <3>2
    <3>4. QED
      BY <2>2, <3>1, <3>3 DEF Parked
  <2>6. QED
    BY <2>3, <2>4, <2>5 DEF ParkInv
<1>11. ASSUME NEW p \in Procs, Restart(p) PROVE ParkInv'
  <2>1. /\ owner' = owner
        /\ \A c \in Captures : \/ pc'[c] = pc[c] /\ (owner[c] = p => pc[c] \in {"idle", "done"})
                               \/ pc'[c] = "dead" /\ owner[c] = p
        /\ pending' = [pending EXCEPT ![p] = <<>>]
        /\ todo' = [todo EXCEPT ![p] = 0]
    BY <1>11 DEF Restart
  <2>2. /\ pending'[p] = <<>> /\ todo'[p] = 0
        /\ \A q \in Procs : q # p => pending'[q] = pending[q] /\ todo'[q] = todo[q]
    BY <2>1 DEF TypeOK
  <2>3. ASSUME NEW q \in Procs PROVE todo'[q] <= Len(pending'[q])
    <3>1. CASE q = p
      BY <2>2, <3>1, QueueEmpty
    <3>2. CASE q # p
      BY <2>2, <3>2 DEF ParkInv
    <3>3. QED
      BY <3>1, <3>2
  <2>4. ASSUME NEW q \in Procs, NEW d \in Captures, Contains(pending'[q], d)
        PROVE  owner'[d] = q /\ pc'[d] \in {"done", "refused twice"}
    <3>1. q # p /\ Contains(pending[q], d)
      BY <2>2, <2>4, QueueEmpty
    <3>2. owner[d] = q /\ pc[d] \in {"done", "refused twice"}
      BY <3>1 DEF ParkInv
    <3>3. QED
      BY <2>1, <3>1, <3>2
  <2>5. ASSUME NEW d \in Captures, pc'[d] = "refused twice" PROVE Parked(d)'
    <3>1. pc[d] = "refused twice" /\ owner[d] # p
      BY <2>1, <2>5
    <3>2. Parked(d)
      BY <3>1 DEF ParkInv
    <3>3. QED
      BY <2>1, <2>2, <3>1, <3>2 DEF Parked
  <2>6. QED
    BY <2>3, <2>4, <2>5 DEF ParkInv
<1>12. CASE UNCHANGED vars
  BY <1>12 DEF vars, ParkInv, Parked
<1>13. QED
  BY <1>3, <1>4, <1>5, <1>6, <1>7, <1>8, <1>9, <1>10, <1>11, <1>12 DEF Next

-----------------------------------------------------------------------------
(* What every step leaves alone.                                           *)

\* The table changes by the record of a call that is over after the step.
RowAdded ==
    \E c \in Captures :
        /\ Grows(rec[c]) /\ rec[c] # NoHash /\ pc'[c] = "done"
        /\ pc[c] \in Locked \/ Parked(c)
        /\ UNCHANGED <<rec, at, owner>>

\* No step takes anything back: rows, outages and losses stay, a call that is
\* over stays over with its record, and what is parked stays parked, lands or
\* dies with its process.
Keeps ==
    /\ rows' = rows \/ RowAdded
    /\ outage \subseteq outage' /\ lost \subseteq lost'
    /\ \A c \in Captures :
          /\ pc[c] = "done" => pc'[c] = "done" /\ rec'[c] = rec[c]
          /\ Parked(c) => Parked(c)' \/ c \in lost' \/ rec[c] \in rows'

\* A step of one call: it parks its record or leaves the queues alone.
LEMMA CallKeeps ==
    ASSUME TypeOK, CallInv, NEW c \in Captures, pc[c] # "done", pc[c] # "idle",
           rows' = rows \/ RowAdded, UNCHANGED <<owner, lost>>,
           NEW s, pc' = [pc EXCEPT ![c] = s],
           \A d \in Captures : d # c => rec'[d] = rec[d],
           pending' = pending \/ pending' = [pending EXCEPT ![owner[c]] = Append(@, c)],
           outage \subseteq outage'
    PROVE  Keeps
<1>1. \A d \in Captures : pc[d] = "done" => pc'[d] = "done" /\ rec'[d] = rec[d]
  BY PcAt
<1>2. \A d \in Captures : Parked(d) => Parked(d)'
  <2>1. CASE pending' = pending
    BY <2>1 DEF Parked
  <2>2. CASE pending' = [pending EXCEPT ![owner[c]] = Append(@, c)]
    <3>1. owner[c] \in Procs
      BY DEF CallInv
    <3>2. \A p \in Procs, d \in Captures : Contains(pending[p], d) => Contains(pending'[p], d)
      BY <2>2, <3>1, ParkAppends
    <3>3. QED
      BY <3>2 DEF Parked
  <2>3. QED
    BY <2>1, <2>2
<1>3. QED
  BY <1>1, <1>2 DEF Keeps

LEMMA KeepsStep ==
    ASSUME TypeOK, CallInv, LockInv, ParkInv, [Next]_vars
    PROVE  Keeps
<1>1. ASSUME NEW c \in Captures, NEW p \in Procs, Stamp(c, p) PROVE Keeps
  <2>1. /\ UNCHANGED <<rows, outage, lost, rec, pending>> /\ pc[c] = "idle"
        /\ pc' = [pc EXCEPT ![c] = "stamped"] /\ owner' = [owner EXCEPT ![c] = p]
    BY <1>1 DEF Stamp
  <2>2. \A d \in Captures : d # c => pc'[d] = pc[d] /\ owner'[d] = owner[d]
    BY <2>1 DEF TypeOK
  <2>3. ~Parked(c)
    BY <2>1 DEF ParkInv, Parked
  <2>4. \A d \in Captures : Parked(d) => Parked(d)'
    BY <2>1, <2>2, <2>3 DEF Parked
  <2>5. \A d \in Captures : pc[d] = "done" => pc'[d] = "done"
    BY <2>1, <2>2
  <2>6. QED
    BY <2>1, <2>4, <2>5 DEF Keeps
<1>2. ASSUME NEW c \in Captures, Link(c) PROVE Keeps
  <2>1. /\ UNCHANGED <<rows, outage, lost, owner, pending>> /\ pc[c] = "stamped"
        /\ \E s : pc' = [pc EXCEPT ![c] = s]
        /\ rec' = [rec EXCEPT ![c] = Append(tip[owner[c]], c)]
    BY <1>2 DEF Link
  <2>2. \A d \in Captures : d # c => rec'[d] = rec[d]
    BY <2>1 DEF TypeOK
  <2>3. QED
    BY <2>1, <2>2, CallKeeps
<1>3. ASSUME NEW c \in Captures, Insert(c) \/ InsertAgain(c) PROVE Keeps
  <2>1. /\ UNCHANGED <<at, lost, owner, rec>> /\ pc[c] \in {"flush", "reflush"}
        /\ pending' = pending \/ pending' = [pending EXCEPT ![owner[c]] = Append(@, c)]
        /\ outage \subseteq outage'
        /\ \E s : pc' = [pc EXCEPT ![c] = s]
        /\ rows' = rows \/ (Grows(rec[c]) /\ pc' = [pc EXCEPT ![c] = "done"])
    BY <1>3, FlushFacts DEF Insert, InsertAgain, ParkOutage
  <2>2. rec[c] # NoHash
    BY <2>1 DEF CallInv, Locked
  <2>3. ASSUME Grows(rec[c]), pc' = [pc EXCEPT ![c] = "done"] PROVE RowAdded
    <3>1. pc'[c] = "done"
      BY <2>3, PcAt
    <3>2. QED
      BY <2>1, <2>2, <2>3, <3>1 DEF RowAdded, Locked
  <2>4. rows' = rows \/ RowAdded
    BY <2>1, <2>3
  <2>5. QED
    BY <2>1, <2>4, CallKeeps
<1>4. ASSUME NEW c \in Captures, Relink(c) PROVE Keeps
  <2>1. /\ UNCHANGED <<rows, lost, owner>> /\ pc[c] = "refused"
        /\ pending' = pending \/ pending' = [pending EXCEPT ![owner[c]] = Append(@, c)]
        /\ outage \subseteq outage'
        /\ \E s : pc' = [pc EXCEPT ![c] = s]
        /\ rec' = rec \/ rec' = [rec EXCEPT ![c] = Append(Newest, c)]
    BY <1>4 DEF Relink, ParkOutage
  <2>2. \A d \in Captures : d # c => rec'[d] = rec[d]
    BY <2>1 DEF TypeOK
  <2>3. QED
    BY <2>1, <2>2, CallKeeps
<1>5. ASSUME NEW c \in Captures, Reseed(c) PROVE Keeps
  <2>1. /\ UNCHANGED <<rows, lost, owner, rec, pending, outage>> /\ pc[c] = "refused twice"
        /\ pc' = [pc EXCEPT ![c] = "done"]
    BY <1>5 DEF Reseed
  <2>2. QED
    BY <2>1, CallKeeps
<1>6. ASSUME NEW p \in Procs, ReplayBegin(p) PROVE Keeps
  BY <1>6 DEF ReplayBegin, Keeps, Parked
<1>7. ASSUME NEW p \in Procs, ReplayOne(p) PROVE Keeps
  <2> DEFINE c == Head(pending[p])
  <2>1. todo[p] > 0 /\ UNCHANGED <<at, owner, pc, rec, outage, lost>>
    BY <1>7 DEF ReplayOne
  <2>2. c \in Captures /\ Contains(pending[p], c)
    BY <2>1, ReplayTypes
  <2>3. /\ \A q \in Procs : q # p => pending'[q] = pending[q]
        /\ \A d \in Captures :
              Contains(pending[p], d) /\ (d # c \/ ~Grows(rec[c])) => Contains(pending'[p], d)
    BY <1>7, ReplayKeeps
  <2>4. rows' = rows \/ Grows(rec[c])
    BY <1>7, FlushFacts DEF ReplayOne
  <2>5. owner[c] = p /\ Parked(c) /\ pc[c] \in {"done", "refused twice"}
    BY <2>2 DEF ParkInv, Parked
  <2>6. pc[c] = "done" /\ rec[c] # NoHash
    <3> HIDE DEF c
    <3>1. ASSUME pc[c] = "refused twice" PROVE FALSE
      <4>1. todo[p] = 0
        BY <2>2, <2>5, <3>1 DEF LockInv, Locked
      <4>2. todo[p] > 0
        BY <2>1
      <4>3. QED
        BY <4>1, <4>2
    <3>2. pc[c] = "done"
      BY <2>5, <3>1
    <3>3. QED
      BY <2>2, <3>2 DEF CallInv
  <2> HIDE DEF c
  <2>7. rows' = rows \/ RowAdded
    BY <2>1, <2>2, <2>4, <2>5, <2>6 DEF RowAdded
  <2>8. ASSUME NEW d \in Captures, Parked(d) PROVE Parked(d)' \/ rec[d] \in rows'
    <3>1. CASE owner[d] # p
      BY <2>1, <2>3, <2>8, <3>1 DEF Parked
    <3>2. CASE owner[d] = p /\ (d # c \/ ~Grows(rec[c]))
      BY <2>1, <2>3, <2>8, <3>2 DEF Parked
    <3>3. CASE d = c /\ Grows(rec[c])
      BY <3>3 DEF Grows
    <3>4. QED
      BY <3>1, <3>2, <3>3
  <2>9. QED
    BY <2>1, <2>7, <2>8 DEF Keeps
<1>8. ASSUME NEW p \in Procs, Restart(p) PROVE Keeps
  <2>1. /\ UNCHANGED <<owner, rec, rows, outage>> /\ lost \subseteq lost'
        /\ \A c \in Captures : owner[c] = p /\ pc[c] # "idle" => c \in lost'
        /\ \A c \in Captures : pc[c] = "done" => pc'[c] = "done"
        /\ pending' = [pending EXCEPT ![p] = <<>>]
    BY <1>8 DEF Restart
  <2>2. \A q \in Procs : q # p => pending'[q] = pending[q]
    BY <2>1 DEF TypeOK
  <2>3. ASSUME NEW d \in Captures, Parked(d) PROVE Parked(d)' \/ d \in lost'
    <3>1. CASE owner[d] # p
      BY <2>1, <2>2, <2>3, <3>1 DEF Parked
    <3>2. CASE owner[d] = p
      <4>1. Contains(pending[p], d)
        BY <2>3, <3>2 DEF Parked
      <4>2. pc[d] # "idle"
        BY <4>1 DEF ParkInv
      <4>3. QED
        BY <2>1, <3>2, <4>2
    <3>3. QED
      BY <3>1, <3>2
  <2>4. QED
    BY <2>1, <2>3 DEF Keeps
<1>9. CASE UNCHANGED vars
  BY <1>9 DEF vars, Keeps, Parked
<1>10. QED
  BY <1>1, <1>2, <1>3, <1>4, <1>5, <1>6, <1>7, <1>8, <1>9 DEF Next

LEMMA SoundKept ==
    ASSUME TypeOK, CallInv, Keeps, NEW h \in Hashes, Sound(h)
    PROVE  Sound(h)'
<1>1. rows \subseteq rows'
  BY DEF Keeps, RowAdded, Grows
<1>2. CASE h = NoHash \/ h \in rows
  BY <1>1, <1>2 DEF Sound
<1>3. CASE h # NoHash /\ h \notin rows
  <2> DEFINE c == Last(h)
  <2>1. c \in Captures /\ c \in outage /\ rec[c] = h /\ (c \in lost \/ Parked(c))
    BY <1>3, HashParts DEF Sound
  <2>2. pc[c] = "done"
    BY <2>1 DEF CallInv
  <2>3. c \in outage' /\ rec'[c] = h
    BY <2>1, <2>2 DEF Keeps
  <2>4. c \in lost' \/ Parked(c)' \/ h \in rows'
    BY <2>1 DEF Keeps
  <2>5. QED
    BY <2>3, <2>4 DEF Sound
<1>4. QED
  BY <1>2, <1>3

-----------------------------------------------------------------------------
(* Descent.                                                                *)

LEMMA RowsLink ==
    ASSUME TypeOK, TypeOK', CallInv, LinkInv, Keeps
    PROVE  \A h \in rows' : pc'[Last(h)] = "done" /\ Sound(Front(h))'
<1>1. ASSUME NEW h \in rows PROVE pc'[Last(h)] = "done" /\ Sound(Front(h))'
  <2>1. Front(h) \in Hashes /\ Last(h) \in Captures
    BY HashParts DEF TypeOK
  <2>2. pc[Last(h)] = "done" /\ Sound(Front(h))
    BY DEF LinkInv
  <2>3. Sound(Front(h))'
    BY <2>1, <2>2, SoundKept
  <2>4. QED
    BY <2>1, <2>2, <2>3 DEF Keeps
<1>2. CASE rows' = rows
  BY <1>1, <1>2
<1>3. CASE RowAdded
  <2>1. PICK c \in Captures :
           /\ Grows(rec[c]) /\ rec[c] # NoHash /\ pc'[c] = "done"
           /\ pc[c] \in Locked \/ Parked(c)
    BY <1>3 DEF RowAdded
  <2>2. PICK h : h = rec[c]
    OBVIOUS
  <2>3. rows' = rows \union {h}
    BY <2>1, <2>2 DEF Grows
  <2>4. Sound(Front(h)) /\ Last(h) = c
    BY <2>1, <2>2 DEF LinkInv, CallInv
  <2>5. Front(h) \in Hashes
    BY <2>1, <2>2, HashParts DEF TypeOK
  <2>6. Sound(Front(h))'
    BY <2>4, <2>5, SoundKept
  <2>7. QED
    BY <1>1, <2>1, <2>3, <2>4, <2>6
<1>4. QED
  BY <1>2, <1>3 DEF Keeps

\* The calls that a step does not touch keep their descent.
CallLinked(c) ==
    /\ pc[c] \in Locked => tip[owner[c]] = rec[c]
    /\ pc[c] \in Locked \/ Parked(c) => Sound(Front(rec[c]))

ProcLinked(p) == ~disabled[p] /\ ~Busy(p) => Sound(tip[p])

LEMMA LinkedIsLinked ==
    ASSUME TypeOK, CallInv, ParkInv, NEW c \in Captures, pc[c] \in Locked \/ Parked(c)
    PROVE  rec[c] # NoHash /\ rec[c] \in Hashes /\ Front(rec[c]) \in Hashes
<1>1. Parked(c) => pc[c] \in {"done", "refused twice"}
  BY DEF Parked, ParkInv
<1>2. rec[c] # NoHash
  BY <1>1 DEF CallInv, Locked
<1>3. rec[c] \in Hashes
  BY DEF TypeOK
<1>4. QED
  BY <1>2, <1>3, HashParts

LEMMA CallUntouched ==
    ASSUME TypeOK, CallInv, ParkInv, LinkInv, Keeps, NEW d \in Captures,
           pc'[d] \in Locked => pc[d] \in Locked /\ tip'[owner'[d]] = tip[owner[d]],
           Parked(d)' => Parked(d) \/ pc[d] \in Locked,
           rec'[d] = rec[d]
    PROVE  CallLinked(d)'
<1>1. pc[d] \in Locked => tip[owner[d]] = rec[d]
  BY DEF LinkInv
<1>2. ASSUME pc[d] \in Locked \/ Parked(d) PROVE Sound(Front(rec[d]))'
  <2>1. PICK h : h = Front(rec[d])
    OBVIOUS
  <2>2. Sound(h) /\ h \in Hashes
    BY <1>2, <2>1, LinkedIsLinked DEF LinkInv
  <2>3. Sound(h)'
    BY <2>2, SoundKept
  <2>4. QED
    BY <2>1, <2>3
<1>3. QED
  BY <1>1, <1>2 DEF CallLinked

LEMMA ProcUntouched ==
    ASSUME TypeOK, CallInv, LinkInv, Keeps, NEW p \in Procs,
           ~disabled'[p] /\ ~Busy(p)' => ~disabled[p] /\ ~Busy(p) /\ tip'[p] = tip[p]
    PROVE  ProcLinked(p)'
<1> SUFFICES ASSUME ~disabled'[p], ~Busy(p)' PROVE Sound(tip[p])'
  BY DEF ProcLinked
<1>1. PICK h : h = tip[p]
  OBVIOUS
<1>2. Sound(h) /\ h \in Hashes
  BY <1>1 DEF LinkInv, TypeOK
<1>3. Sound(h)'
  BY <1>2, SoundKept
<1>4. QED
  BY <1>1, <1>3

LEMMA LinkStep ==
    ASSUME TypeOK, TypeOK', CallInv, CallInv', LockInv, ParkInv, SomeNewest, LinkInv,
           Keeps, [Next]_vars
    PROVE  LinkInv'
<1> USE DEF Locked
<1>0. Newest \in Hashes /\ (Newest = NoHash \/ Newest \in rows)
  <2>1. rows \subseteq Hashes
    BY DEF TypeOK
  <2>2. QED
    BY <2>1, NewestFacts
<1> SUFFICES (\A d \in Captures : CallLinked(d)') /\ (\A q \in Procs : ProcLinked(q)')
  BY RowsLink DEF LinkInv, CallLinked, ProcLinked
\* Steps of calls that touch neither tips nor records.
<1>1. ASSUME NEW c \in Captures, pc[c] \in Locked, UNCHANGED <<owner, rec, tip, disabled>>,
             NEW s, pc' = [pc EXCEPT ![c] = s],
             pending' = pending \/ pending' = [pending EXCEPT ![owner[c]] = Append(@, c)],
             s \in Locked \/ Sound(rec[c])'
      PROVE  (\A d \in Captures : CallLinked(d)') /\ (\A q \in Procs : ProcLinked(q)')
  <2>1. pc'[c] = s /\ \A d \in Captures : d # c => pc'[d] = pc[d]
    BY <1>1, PcAt
  <2>2. owner[c] \in Procs /\ tip[owner[c]] = rec[c]
    BY <1>1 DEF CallInv, LinkInv
  <2>3. ASSUME NEW d \in Captures PROVE CallLinked(d)'
    <3>1. Parked(d)' => Parked(d) \/ d = c
      <4>1. CASE pending' = pending
        BY <1>1, <4>1 DEF Parked
      <4>2. CASE pending' = [pending EXCEPT ![owner[c]] = Append(@, c)]
        <5>1. \A p \in Procs : Contains(pending'[p], d) => Contains(pending[p], d) \/ d = c
          BY <2>2, <4>2, ParkAppends
        <5>2. QED
          BY <1>1, <5>1 DEF Parked
      <4>3. QED
        BY <1>1, <4>1, <4>2
    <3>2. QED
      BY <1>1, <2>1, <3>1, CallUntouched
  <2>4. ASSUME NEW q \in Procs PROVE ProcLinked(q)'
    <3>1. CASE q = owner[c]
      <4>1. CASE s \in Locked
        BY <1>1, <2>1, <3>1, <4>1 DEF ProcLinked, Busy
      <4>2. CASE Sound(rec[c])'
        BY <1>1, <2>2, <3>1, <4>2 DEF ProcLinked
      <4>3. QED
        BY <1>1, <4>1, <4>2
    <3>2. CASE q # owner[c]
      <4>1. Busy(q)' <=> Busy(q)
        BY <1>1, <2>1, <3>2 DEF Busy
      <4>2. QED
        BY <1>1, <4>1, ProcUntouched
    <3>3. QED
      BY <3>1, <3>2
  <2>5. QED
    BY <2>3, <2>4
\* A step that gives a call a record and makes it the tip.
<1>2. ASSUME NEW c \in Captures, NEW t \in Hashes, Sound(t)', owner[c] \in Procs,
             UNCHANGED <<owner, disabled, pending>>, ~Parked(c),
             rec' = [rec EXCEPT ![c] = Append(t, c)],
             tip' = [tip EXCEPT ![owner[c]] = Append(t, c)],
             NEW s \in Locked, pc' = [pc EXCEPT ![c] = s],
             \A d \in Captures : d # c /\ owner[d] = owner[c] => pc[d] \notin Locked
      PROVE  (\A d \in Captures : CallLinked(d)') /\ (\A q \in Procs : ProcLinked(q)')
  <2>1. pc'[c] = s /\ \A d \in Captures : d # c => pc'[d] = pc[d]
    BY <1>2, PcAt
  <2>2. /\ rec'[c] = Append(t, c) /\ tip'[owner[c]] = Append(t, c)
        /\ \A d \in Captures : d # c => rec'[d] = rec[d]
        /\ \A q \in Procs : q # owner[c] => tip'[q] = tip[q]
    BY <1>2 DEF TypeOK
  <2>3. Front(Append(t, c)) = t
    BY <1>2, HashAppend
  <2>4. CallLinked(c)'
    BY <1>2, <2>1, <2>2, <2>3 DEF CallLinked
  <2>5. ASSUME NEW d \in Captures, d # c PROVE CallLinked(d)'
    <3>1. Parked(d)' <=> Parked(d)
      BY <1>2 DEF Parked
    <3>2. pc[d] \in Locked => owner[d] \in Procs /\ owner[d] # owner[c]
      BY <1>2, <2>5 DEF CallInv
    <3>3. pc'[d] \in Locked => pc[d] \in Locked /\ tip'[owner'[d]] = tip[owner[d]]
      BY <1>2, <2>1, <2>2, <2>5, <3>2
    <3>4. QED
      BY <2>2, <2>5, <3>1, <3>3, CallUntouched
  <2>6. ASSUME NEW q \in Procs PROVE ProcLinked(q)'
    <3>1. CASE q = owner[c]
      BY <1>2, <2>1, <3>1 DEF ProcLinked, Busy
    <3>2. CASE q # owner[c]
      <4>1. Busy(q)' <=> Busy(q)
        BY <1>2, <2>1, <3>2 DEF Busy
      <4>2. QED
        BY <1>2, <2>2, <3>2, <4>1, ProcUntouched
    <3>3. QED
      BY <3>1, <3>2
  <2>7. QED
    BY <2>4, <2>5, <2>6
\* Steps that touch no call.
<1>3. ASSUME UNCHANGED <<pc, owner, rec, tip, disabled>>,
             \A d \in Captures : Parked(d)' => Parked(d)
      PROVE  (\A d \in Captures : CallLinked(d)') /\ (\A q \in Procs : ProcLinked(q)')
  <2>1. \A q \in Procs : Busy(q)' <=> Busy(q)
    BY <1>3 DEF Busy
  <2>2. QED
    BY <1>3, <2>1, CallUntouched, ProcUntouched
<1>4. ASSUME NEW c \in Captures, NEW p \in Procs, Stamp(c, p)
      PROVE  (\A d \in Captures : CallLinked(d)') /\ (\A q \in Procs : ProcLinked(q)')
  <2>1. /\ UNCHANGED <<rec, tip, disabled, pending>> /\ pc[c] = "idle"
        /\ pc' = [pc EXCEPT ![c] = "stamped"] /\ owner' = [owner EXCEPT ![c] = p]
    BY <1>4 DEF Stamp
  <2>2. /\ pc'[c] = "stamped"
        /\ \A d \in Captures : d # c => pc'[d] = pc[d] /\ owner'[d] = owner[d]
    BY <2>1 DEF TypeOK
  <2>3. ~Parked(c)'
    <3>1. \A q \in Procs : ~Contains(pending[q], c)
      BY <2>1 DEF ParkInv
    <3>2. QED
      BY <2>1, <3>1 DEF Parked
  <2>4. \A d \in Captures : Parked(d)' => Parked(d)
    BY <2>1, <2>2, <2>3 DEF Parked
  <2>5. \A q \in Procs : Busy(q)' <=> Busy(q)
    BY <2>1, <2>2 DEF Busy
  <2>6. \A d \in Captures : pc'[d] \in Locked => pc[d] \in Locked /\ owner'[d] = owner[d]
    BY <2>2
  <2>7. \A d \in Captures : CallLinked(d)'
    BY <2>1, <2>4, <2>6, CallUntouched
  <2>8. \A q \in Procs : ProcLinked(q)'
    BY <2>1, <2>5, ProcUntouched
  <2>9. QED
    BY <2>7, <2>8
<1>5. ASSUME NEW c \in Captures, Link(c)
      PROVE  (\A d \in Captures : CallLinked(d)') /\ (\A q \in Procs : ProcLinked(q)')
  <2>0. /\ UNCHANGED <<owner, disabled, pending>> /\ pc[c] = "stamped" /\ Free(owner[c])
        /\ rec' = [rec EXCEPT ![c] = Append(tip[owner[c]], c)]
        /\ tip' = [tip EXCEPT ![owner[c]] = Append(tip[owner[c]], c)]
        /\ pc' = [pc EXCEPT ![c] = IF disabled[owner[c]] THEN "done" ELSE "flush"]
    BY <1>5 DEF Link
  <2>1. owner[c] \in Procs /\ tip[owner[c]] \in Hashes
    BY <2>0, CallTypes
  <2>2. \A d \in Captures : owner[d] = owner[c] => pc[d] \notin Locked
    BY <2>0 DEF Free
  <2>3. ~Parked(c)
    BY <2>0 DEF Parked, ParkInv
  <2>4. PICK t : t = tip[owner[c]]
    OBVIOUS
  <2>5. CASE ~disabled[owner[c]]
    <3>1. ~Busy(owner[c])
      BY <2>2 DEF Busy
    <3>2. Sound(t) /\ t \in Hashes
      BY <2>1, <2>4, <2>5, <3>1 DEF LinkInv
    <3>3. Sound(t)'
      BY <3>2, SoundKept
    <3>4. pc' = [pc EXCEPT ![c] = "flush"]
      BY <2>0, <2>5
    <3>5. QED
      BY <1>2, <2>0, <2>1, <2>2, <2>3, <2>4, <3>2, <3>3, <3>4
  <2>6. CASE disabled[owner[c]]
    <3>1. /\ pc'[c] = "done" /\ \A d \in Captures : d # c => pc'[d] = pc[d] /\ rec'[d] = rec[d]
          /\ \A q \in Procs : q # owner[c] => tip'[q] = tip[q]
      BY <2>0, <2>6 DEF TypeOK
    <3>2. \A d \in Captures : Parked(d)' <=> Parked(d)
      BY <2>0 DEF Parked
    <3>3. CallLinked(c)'
      BY <2>3, <3>1, <3>2 DEF CallLinked
    <3>4. ASSUME NEW d \in Captures, d # c PROVE CallLinked(d)'
      <4>1. pc[d] \in Locked => owner[d] \in Procs /\ owner[d] # owner[c]
        BY <2>2 DEF CallInv
      <4>2. pc'[d] \in Locked => pc[d] \in Locked /\ tip'[owner'[d]] = tip[owner[d]]
        BY <2>0, <3>1, <3>4, <4>1
      <4>3. QED
        BY <3>1, <3>2, <3>4, <4>2, CallUntouched
    <3>5. ASSUME NEW q \in Procs PROVE ProcLinked(q)'
      <4>1. CASE q = owner[c]
        BY <2>0, <2>6, <4>1 DEF ProcLinked
      <4>2. CASE q # owner[c]
        <5>1. Busy(q)' <=> Busy(q)
          BY <2>0, <3>1, <4>2 DEF Busy
        <5>2. QED
          BY <2>0, <3>1, <4>2, <5>1, ProcUntouched
      <4>3. QED
        BY <4>1, <4>2
    <3>6. QED
      BY <3>3, <3>4, <3>5
  <2>7. QED
    BY <2>5, <2>6
\* A record that has landed, or that an outage has parked, is sound.
<1>6. ASSUME NEW c \in Captures, UNCHANGED <<rec, owner>>, owner[c] \in Procs, rec[c] # NoHash,
             \/ rec[c] \in rows'
             \/ /\ outage' = outage \union {c}
                /\ pending' = [pending EXCEPT ![owner[c]] = Append(@, c)]
      PROVE  Sound(rec[c])'
  <2>1. Last(rec[c]) = c
    BY <1>6 DEF CallInv
  <2>2. CASE rec[c] \in rows'
    BY <1>6, <2>2 DEF Sound
  <2>3. CASE /\ outage' = outage \union {c}
             /\ pending' = [pending EXCEPT ![owner[c]] = Append(@, c)]
    <3>1. Parked(c)'
      BY <1>6, <2>3, ParkAppends DEF Parked
    <3>2. QED
      BY <1>6, <2>1, <2>3, <3>1 DEF Sound
  <2>4. QED
    BY <1>6, <2>2, <2>3
<1>7. ASSUME NEW c \in Captures, Insert(c) \/ InsertAgain(c)
      PROVE  (\A d \in Captures : CallLinked(d)') /\ (\A q \in Procs : ProcLinked(q)')
  <2>1. /\ UNCHANGED <<owner, rec, tip, disabled>> /\ pc[c] \in {"flush", "reflush"}
        /\ \/ /\ Grows(rec[c]) /\ pending' = pending
              /\ pc' = [pc EXCEPT ![c] = "done"]
           \/ /\ pending' = pending \/ pending' = [pending EXCEPT ![owner[c]] = Append(@, c)]
              /\ \E s \in {"refused", "refused twice"} : pc' = [pc EXCEPT ![c] = s]
           \/ /\ outage' = outage \union {c}
              /\ pending' = [pending EXCEPT ![owner[c]] = Append(@, c)]
              /\ pc' = [pc EXCEPT ![c] = "done"]
    BY <1>7, FlushFacts DEF Insert, InsertAgain, ParkOutage
  <2>2. owner[c] \in Procs /\ rec[c] # NoHash
    BY <2>1 DEF CallInv
  <2>3. Grows(rec[c]) => rec[c] \in rows'
    BY DEF Grows
  <2>4. CASE Grows(rec[c]) /\ pending' = pending /\ pc' = [pc EXCEPT ![c] = "done"]
    BY <1>1, <1>6, <2>1, <2>2, <2>3, <2>4
  <2>5. CASE /\ pending' = pending \/ pending' = [pending EXCEPT ![owner[c]] = Append(@, c)]
             /\ \E s \in {"refused", "refused twice"} : pc' = [pc EXCEPT ![c] = s]
    BY <1>1, <2>1, <2>5
  <2>6. CASE /\ outage' = outage \union {c}
             /\ pending' = [pending EXCEPT ![owner[c]] = Append(@, c)]
             /\ pc' = [pc EXCEPT ![c] = "done"]
    BY <1>1, <1>6, <2>1, <2>2, <2>6
  <2>7. QED
    BY <2>1, <2>4, <2>5, <2>6
<1>8. ASSUME NEW c \in Captures, Relink(c)
      PROVE  (\A d \in Captures : CallLinked(d)') /\ (\A q \in Procs : ProcLinked(q)')
  <2>1. /\ UNCHANGED <<owner, disabled>> /\ pc[c] = "refused"
        /\ \/ /\ rec' = [rec EXCEPT ![c] = Append(Newest, c)]
              /\ tip' = [tip EXCEPT ![owner[c]] = Append(Newest, c)]
              /\ pc' = [pc EXCEPT ![c] = "reflush"] /\ pending' = pending
           \/ /\ outage' = outage \union {c} /\ UNCHANGED <<rec, tip>>
              /\ pending' = [pending EXCEPT ![owner[c]] = Append(@, c)]
              /\ pc' = [pc EXCEPT ![c] = "done"]
    BY <1>8 DEF Relink, ParkOutage
  <2>2. owner[c] \in Procs /\ rec[c] # NoHash /\ ~Parked(c)
    BY <2>1 DEF CallInv, ParkInv, Parked
  <2>3. \A d \in Captures : d # c /\ owner[d] = owner[c] => pc[d] \notin Locked
    BY <2>1 DEF LockInv
  <2>4. CASE /\ rec' = [rec EXCEPT ![c] = Append(Newest, c)]
             /\ tip' = [tip EXCEPT ![owner[c]] = Append(Newest, c)]
             /\ pc' = [pc EXCEPT ![c] = "reflush"] /\ pending' = pending
    <3>1. PICK t : t = Newest
      OBVIOUS
    <3>2. t \in Hashes /\ Sound(t)
      BY <1>0, <3>1 DEF Sound
    <3>3. Sound(t)'
      BY <3>2, SoundKept
    <3>4. QED
      BY <1>2, <2>1, <2>2, <2>3, <2>4, <3>1, <3>2, <3>3
  <2>5. CASE /\ outage' = outage \union {c} /\ UNCHANGED <<rec, tip>>
             /\ pending' = [pending EXCEPT ![owner[c]] = Append(@, c)]
             /\ pc' = [pc EXCEPT ![c] = "done"]
    BY <1>1, <1>6, <2>1, <2>2, <2>5
  <2>6. QED
    BY <2>1, <2>4, <2>5
<1>9. ASSUME NEW c \in Captures, Reseed(c)
      PROVE  (\A d \in Captures : CallLinked(d)') /\ (\A q \in Procs : ProcLinked(q)')
  <2>1. /\ UNCHANGED <<owner, rec, pending, disabled>> /\ pc[c] = "refused twice"
        /\ pc' = [pc EXCEPT ![c] = "done"]
    BY <1>9 DEF Reseed
  <2>2. PICK t \in {Newest, Front(rec[c])} : tip' = [tip EXCEPT ![owner[c]] = t]
    BY <1>9 DEF Reseed
  <2>3. Sound(t) /\ t \in Hashes /\ owner[c] \in Procs
    <3>1. Sound(Front(rec[c])) /\ Front(rec[c]) \in Hashes
      BY <2>1, LinkedIsLinked DEF LinkInv
    <3>2. Sound(Newest)
      BY <1>0 DEF Sound
    <3>3. QED
      BY <1>0, <2>1, <2>2, <3>1, <3>2 DEF CallInv
  <2>4. Sound(t)'
    BY <2>3, SoundKept
  <2>5. /\ pc'[c] = "done" /\ \A d \in Captures : d # c => pc'[d] = pc[d]
        /\ tip'[owner[c]] = t /\ \A q \in Procs : q # owner[c] => tip'[q] = tip[q]
    BY <2>1, <2>2, <2>3 DEF TypeOK
  <2>6. ASSUME NEW d \in Captures PROVE CallLinked(d)'
    <3>1. Parked(d)' <=> Parked(d)
      BY <2>1 DEF Parked
    <3>2. pc'[d] \in Locked => d # c /\ pc[d] \in Locked
      BY <2>5
    <3>3. pc'[d] \in Locked => owner[d] \in Procs /\ owner[d] # owner[c]
      BY <2>1, <3>2 DEF LockInv, CallInv
    <3>4. QED
      BY <2>1, <2>5, <3>1, <3>2, <3>3, CallUntouched
  <2>7. ASSUME NEW q \in Procs PROVE ProcLinked(q)'
    <3>1. CASE q = owner[c]
      BY <2>4, <2>5, <3>1 DEF ProcLinked
    <3>2. CASE q # owner[c]
      <4>1. Busy(q)' <=> Busy(q)
        BY <2>1, <2>5, <3>2 DEF Busy
      <4>2. QED
        BY <2>1, <2>5, <3>2, <4>1, ProcUntouched
    <3>3. QED
      BY <3>1, <3>2
  <2>8. QED
    BY <2>6, <2>7
<1>10. ASSUME NEW p \in Procs, ReplayBegin(p) \/ ReplayOne(p)
       PROVE  (\A d \in Captures : CallLinked(d)') /\ (\A q \in Procs : ProcLinked(q)')
  <2>1. UNCHANGED <<pc, owner, rec, tip, disabled>>
    BY <1>10 DEF ReplayBegin, ReplayOne
  <2>2. \A d \in Captures, q \in Procs : Contains(pending'[q], d) => Contains(pending[q], d)
    <3>1. CASE ReplayBegin(p)
      BY <3>1 DEF ReplayBegin
    <3>2. CASE ReplayOne(p)
      BY <3>2, ReplayKeeps
    <3>3. QED
      BY <1>10, <3>1, <3>2
  <2>3. \A d \in Captures : Parked(d)' => Parked(d)
    BY <2>1, <2>2 DEF Parked
  <2>4. QED
    BY <1>3, <2>1, <2>3
<1>11. ASSUME NEW p \in Procs, Restart(p)
       PROVE  (\A d \in Captures : CallLinked(d)') /\ (\A q \in Procs : ProcLinked(q)')
  <2>1. /\ UNCHANGED <<owner, rec>>
        /\ \A d \in Captures :
              /\ owner[d] # p => pc'[d] = pc[d]
              /\ owner[d] = p => pc'[d] \notin Locked
        /\ pending' = [pending EXCEPT ![p] = <<>>]
        /\ \E b : disabled' = [disabled EXCEPT ![p] = b]
    BY <1>11 DEF Restart
  <2>2. PICK t \in {NoHash, Newest} : tip' = [tip EXCEPT ![p] = t]
    BY <1>11 DEF Restart
  <2>3. Sound(t) /\ t \in Hashes
    <3>1. NoHash \in Hashes
      BY DEF Hashes, NoHash
    <3>2. Sound(NoHash) /\ Sound(Newest)
      BY <1>0 DEF Sound
    <3>3. QED
      BY <1>0, <2>2, <3>1, <3>2
  <2>4. Sound(t)'
    BY <2>3, SoundKept
  <2>5. /\ tip'[p] = t /\ pending'[p] = <<>>
        /\ \A q \in Procs : q # p => /\ tip'[q] = tip[q] /\ pending'[q] = pending[q]
                                     /\ disabled'[q] = disabled[q]
    BY <2>1, <2>2 DEF TypeOK
  <2>6. ASSUME NEW d \in Captures PROVE CallLinked(d)'
    <3>1. Parked(d)' => Parked(d)
      BY <2>1, <2>5, QueueEmpty DEF Parked
    <3>2. pc'[d] \in Locked => pc[d] \in Locked /\ owner[d] # p /\ owner[d] \in Procs
      BY <2>1 DEF CallInv
    <3>3. QED
      BY <2>1, <2>5, <3>1, <3>2, CallUntouched
  <2>7. ASSUME NEW q \in Procs PROVE ProcLinked(q)'
    <3>1. CASE q = p
      BY <2>4, <2>5, <3>1 DEF ProcLinked
    <3>2. CASE q # p
      <4>1. Busy(q)' <=> Busy(q)
        BY <2>1, <3>2 DEF Busy
      <4>2. QED
        BY <2>5, <3>2, <4>1, ProcUntouched
    <3>3. QED
      BY <3>1, <3>2
  <2>8. QED
    BY <2>6, <2>7
<1>12. ASSUME UNCHANGED vars
       PROVE  (\A d \in Captures : CallLinked(d)') /\ (\A q \in Procs : ProcLinked(q)')
  BY <1>3, <1>12 DEF vars, Parked
<1>13. QED
  BY <1>4, <1>5, <1>7, <1>8, <1>9, <1>10, <1>11, <1>12 DEF Next

-----------------------------------------------------------------------------
(* The table as a chain.                                                   *)

LEMMA TimeStep ==
    ASSUME TypeOK, CallInv, TimeInv, [Next]_vars
    PROVE  /\ TimeInv'
           /\ \A c \in Captures : pc[c] # "idle" => at'[c] = at[c]
<1>1. ASSUME NEW c \in Captures, NEW p \in Procs, Stamp(c, p)
      PROVE  /\ TimeInv'
             /\ \A d \in Captures : pc[d] # "idle" => at'[d] = at[d]
  <2> DEFINE n == Cardinality({d \in Captures : at[d] > 0})
             m == Cardinality({d \in Captures : at'[d] > 0})
  <2>1. n \in Nat /\ at' = [at EXCEPT ![c] = n + 1] /\ m = n + 1 /\ at[c] = 0
    BY <1>1, StampCount
  <2>2. pc[c] = "idle"
    BY <1>1 DEF Stamp
  <2>3. \A d \in Captures : at[d] \in Nat /\ at[d] <= n
    <3>1. Cardinality(Captures) \in Nat
      BY CapturesAssumption, FS_CardinalityType
    <3>2. QED
      BY <3>1 DEF TypeOK, TimeInv
  <2>4. \A d, e \in Captures : at[d] = at[e] /\ at[d] > 0 => d = e
    BY DEF TimeInv
  <2> HIDE DEF n, m
  <2>5. \A d \in Captures : at'[d] = IF d = c THEN n + 1 ELSE at[d]
    BY <2>1 DEF TypeOK
  <2>6. \A d \in Captures : at'[d] <= m
    BY <2>1, <2>3, <2>5
  <2>7. \A d, e \in Captures : at'[d] = at'[e] /\ at'[d] > 0 => d = e
    BY <2>1, <2>3, <2>4, <2>5
  <2>8. QED
    BY <2>2, <2>5, <2>6, <2>7 DEF TimeInv, m
<1>2. CASE at' = at
  BY <1>2 DEF TimeInv
<1>3. ASSUME NEW c \in Captures,
             Link(c) \/ Insert(c) \/ Relink(c) \/ InsertAgain(c) \/ Reseed(c)
      PROVE  at' = at
  BY <1>3 DEF Link, Insert, Relink, InsertAgain, Reseed
<1>4. ASSUME NEW p \in Procs, ReplayBegin(p) \/ ReplayOne(p) \/ Restart(p) PROVE at' = at
  BY <1>4 DEF ReplayBegin, ReplayOne, Restart
<1>5. UNCHANGED vars => at' = at
  BY DEF vars
<1>6. QED
  BY <1>1, <1>2, <1>3, <1>4, <1>5 DEF Next

\* The captures of rows are over, and their times are what they were.
LEMMA RowTimes ==
    ASSUME TypeOK, LinkInv, NEW h \in rows, \A c \in Captures : pc[c] # "idle" => at'[c] = at[c]
    PROVE  Last(h) \in Captures /\ at'[Last(h)] = at[Last(h)] /\ at[Last(h)] \in Nat
<1>1. Last(h) \in Captures /\ pc[Last(h)] = "done"
  BY HashParts DEF TypeOK, LinkInv
<1>2. Cardinality(Captures) \in Nat
  BY CapturesAssumption, FS_CardinalityType
<1>3. QED
  BY <1>1, <1>2 DEF TypeOK

LEMMA OneChildStep ==
    ASSUME OneChild, Keeps
    PROVE  OneChild'
<1>1. CASE rows' = rows
  BY <1>1 DEF OneChild
<1>2. CASE RowAdded
  <2>1. PICK h : ~Conflict(h) /\ rows' = rows \union {h}
    BY <1>2 DEF RowAdded, Grows
  <2>2. \A g \in rows : Front(g) # Front(h)
    BY <2>1 DEF Conflict
  <2>3. QED
    BY <2>1, <2>2 DEF OneChild
<1>3. QED
  BY <1>1, <1>2 DEF Keeps

LEMMA NewestStep ==
    ASSUME TypeOK, TypeOK', LinkInv, LinkInv', Keeps, SomeNewest,
           \A c \in Captures : pc[c] # "idle" => at'[c] = at[c]
    PROVE  SomeNewest'
<1>1. \A h \in rows : at'[Last(h)] = at[Last(h)] /\ at[Last(h)] \in Nat
  BY RowTimes
<1>2. CASE rows' = rows
  BY <1>1, <1>2 DEF SomeNewest
<1>3. CASE RowAdded
  <2>1. PICK h : rows' = rows \union {h}
    BY <1>3 DEF RowAdded, Grows
  <2>2. Last(h) \in Captures
    BY <2>1, HashParts DEF TypeOK
  <2>3. at'[Last(h)] \in Nat
    <3>1. Cardinality(Captures) \in Nat
      BY CapturesAssumption, FS_CardinalityType
    <3>2. QED
      BY <2>2, <3>1 DEF TypeOK
  <2>4. CASE rows = {}
    BY <2>1, <2>3, <2>4 DEF SomeNewest
  <2>5. CASE rows # {}
    <3>1. PICK k \in rows : \A g \in rows : at[Last(g)] <= at[Last(k)]
      BY <2>5 DEF SomeNewest
    <3>2. \A g \in rows : at'[Last(g)] <= at'[Last(k)]
      BY <1>1, <3>1
    <3>3. CASE at'[Last(h)] <= at'[Last(k)]
      BY <2>1, <3>1, <3>2, <3>3 DEF SomeNewest
    <3>4. CASE ~(at'[Last(h)] <= at'[Last(k)])
      <4>1. \A g \in rows : at'[Last(g)] <= at'[Last(h)]
        BY <1>1, <2>3, <3>1, <3>2, <3>4
      <4>2. \A g \in rows' : at'[Last(g)] <= at'[Last(h)]
        BY <2>1, <2>3, <4>1
      <4>3. QED
        BY <2>1, <4>2 DEF SomeNewest
    <3>5. QED
      BY <3>3, <3>4
  <2>6. QED
    BY <2>4, <2>5
<1>4. QED
  BY <1>2, <1>3 DEF Keeps

LEMMA FrontElements ==
    ASSUME NEW h \in Hashes, h # NoHash
    PROVE  /\ Front(h) \in Seq(Captures) /\ Len(Front(h)) = Len(h) - 1
           /\ \A i \in 1..(Len(h) - 1) : Front(h)[i] = h[i]
<1>1. h \in Seq(Captures) /\ Len(h) \in Nat /\ Len(h) > 0
  BY DEF Hashes, NoHash
<1>2. PICK n \in Nat : Len(h) = n + 1
  BY <1>1
<1>3. /\ SubSeq(h, 1, n) \in Seq(Captures) /\ Len(SubSeq(h, 1, n)) = n
      /\ \A i \in 1..n : SubSeq(h, 1, n)[i] = h[i]
  BY <1>1, <1>2
<1>4. Len(h) - 1 = n
  BY <1>2
<1>5. QED
  BY <1>3, <1>4 DEF Front

LEMMA HashSplit ==
    ASSUME NEW h \in Hashes, h # NoHash
    PROVE  h = Append(Front(h), Last(h))
<1>1. h \in Seq(Captures) /\ Len(h) \in Nat /\ Len(h) > 0
  BY DEF Hashes, NoHash
<1>2. /\ Front(h) \in Seq(Captures) /\ Len(Front(h)) = Len(h) - 1
      /\ \A i \in 1..(Len(h) - 1) : Front(h)[i] = h[i]
  BY FrontElements
<1>3. Last(h) \in Captures /\ Last(h) = h[Len(h)]
  BY <1>1 DEF Last
<1>4. /\ Append(Front(h), Last(h)) \in Seq(Captures) /\ Len(Append(Front(h), Last(h))) = Len(h)
      /\ \A i \in 1..Len(h) : Append(Front(h), Last(h))[i] = h[i]
  BY <1>1, <1>2, <1>3
<1>5. QED
  BY <1>1, <1>4

LEMMA PrefixLast ==
    ASSUME NEW h \in Hashes, NEW n \in 1..Len(h)
    PROVE  /\ SubSeq(h, 1, n) \in Hashes /\ Last(SubSeq(h, 1, n)) = h[n]
           /\ SubSeq(h, 1, n) # NoHash
<1>1. Len(h) \in Nat /\ n \in Nat /\ n >= 1 /\ n <= Len(h)
  BY DEF Hashes
<1>2. /\ SubSeq(h, 1, n) \in Seq(Captures) /\ Len(SubSeq(h, 1, n)) = n
      /\ SubSeq(h, 1, n)[n] = h[n]
  BY <1>1 DEF Hashes
<1>3. QED
  BY <1>1, <1>2 DEF Hashes, Last, NoHash

\* Without outages the parent of a row is a row.
LEMMA ParentIsRow ==
    ASSUME TypeOK, AncestorInv, outage = {}, NEW h \in rows, Front(h) # NoHash
    PROVE  Front(h) \in rows
<1>1. h \in Hashes /\ h # NoHash /\ Len(h) \in Nat /\ Len(h) > 0
  BY HashParts DEF TypeOK
<1>2. Front(h) \in Seq(Captures) /\ Len(Front(h)) = Len(h) - 1
  BY <1>1, FrontElements
<1>3. Len(h) - 1 \in 1..Len(h)
  <2>1. Len(Front(h)) # 0
    BY <1>2 DEF NoHash
  <2>2. QED
    BY <1>1, <1>2, <2>1
<1>4. SubSeq(h, 1, Len(h) - 1) \in rows
  BY <1>3 DEF AncestorInv
<1>5. QED
  BY <1>4 DEF Front

\* The times of the ancestors of a row do not change.
LEMMA AncestorTimes ==
    ASSUME TypeOK, LinkInv, AncestorInv, outage = {},
           \A c \in Captures : pc[c] # "idle" => at'[c] = at[c]
    PROVE  /\ \A h \in rows : \A n \in 1..Len(h) : at'[h[n]] = at[h[n]] /\ at[h[n]] \in Nat
           /\ \A h \in rows : at'[Last(h)] = at[Last(h)] /\ at[Last(h)] \in Nat
<1>1. \A h \in rows : at'[Last(h)] = at[Last(h)] /\ at[Last(h)] \in Nat
  BY RowTimes
<1>2. ASSUME NEW h \in rows, NEW n \in 1..Len(h) PROVE at'[h[n]] = at[h[n]] /\ at[h[n]] \in Nat
  <2>1. SubSeq(h, 1, n) \in rows
    BY DEF AncestorInv
  <2>2. Last(SubSeq(h, 1, n)) = h[n]
    BY PrefixLast DEF TypeOK
  <2>3. QED
    BY <1>1, <2>1, <2>2
<1>3. QED
  BY <1>1, <1>2

LEMMA AncestorStep ==
    ASSUME TypeOK, TypeOK', CallInv, LinkInv, AncestorInv, OneChild, Keeps,
           \A c \in Captures : pc[c] # "idle" => at'[c] = at[c]
    PROVE  AncestorInv'
<1> SUFFICES ASSUME outage' = {}
             PROVE  /\ \A h \in rows' : \A n \in 1..Len(h) : SubSeq(h, 1, n) \in rows'
                    /\ \A g, h \in rows' : IsPrefix(g, h) \/ IsPrefix(h, g)
                    /\ ~Overtaken' => \A h \in rows' : \A n \in 1..Len(h) : at'[h[n]] <= at'[Last(h)]
  BY DEF AncestorInv
<1>1. outage = {} /\ rows \subseteq rows'
  BY DEF Keeps, RowAdded, Grows
<1>2. /\ \A h \in rows : \A n \in 1..Len(h) : SubSeq(h, 1, n) \in rows
      /\ \A g, h \in rows : IsPrefix(g, h) \/ IsPrefix(h, g)
  BY <1>1 DEF AncestorInv
<1>3. /\ \A h \in rows : \A n \in 1..Len(h) : at'[h[n]] = at[h[n]] /\ at[h[n]] \in Nat
      /\ \A h \in rows : at'[Last(h)] = at[Last(h)] /\ at[Last(h)] \in Nat
  BY <1>1, AncestorTimes
<1>4. ASSUME ~Overtaken' PROVE ~Overtaken
  <2> SUFFICES ASSUME NEW h \in rows, Front(h) # NoHash, at[Last(h)] < at[Last(Front(h))]
               PROVE  FALSE
    BY DEF Overtaken
  <2>1. Front(h) \in rows
    BY <1>1, ParentIsRow
  <2>2. at'[Last(h)] < at'[Last(Front(h))]
    BY <1>3, <2>1
  <2>3. QED
    BY <1>1, <1>4, <2>2 DEF Overtaken
<1>5. ASSUME ~Overtaken' PROVE \A h \in rows : \A n \in 1..Len(h) : at'[h[n]] <= at'[Last(h)]
  <2>1. \A h \in rows : \A n \in 1..Len(h) : at[h[n]] <= at[Last(h)]
    BY <1>1, <1>4, <1>5 DEF AncestorInv
  <2>2. QED
    BY <1>3, <2>1
<1>6. CASE rows' = rows
  BY <1>2, <1>5, <1>6
<1>7. CASE RowAdded
  <2>1. PICK c \in Captures :
           /\ Grows(rec[c]) /\ rec[c] # NoHash /\ (pc[c] \in Locked \/ Parked(c)) /\ at' = at
    BY <1>7 DEF RowAdded
  <2>2. PICK h : h = rec[c]
    OBVIOUS
  <2>3. ~Conflict(h) /\ rows' = rows \union {h} /\ h \in Hashes /\ h # NoHash /\ Last(h) = c
    BY <2>1, <2>2 DEF Grows, TypeOK, CallInv
  <2> DEFINE t == Front(h)
  <2>4. t \in Hashes /\ h = Append(t, c)
    BY <2>3, HashParts, HashSplit
  <2>5. t = NoHash \/ t \in rows
    BY <1>1, <2>1, <2>2 DEF LinkInv, Sound
  <2>6. \A g \in rows : Front(g) # t
    BY <2>3 DEF Conflict
  <2>7. /\ NoHash \in Hashes /\ Len(NoHash) = 0 /\ Len(t) \in Nat
        /\ \A g \in rows : g \in Hashes /\ g # NoHash
    BY <2>4 DEF TypeOK, Hashes, NoHash
  <2> HIDE DEF t
  <2>8. ASSUME NEW n \in 1..Len(h) PROVE SubSeq(h, 1, n) \in rows'
    <3>1. CASE n <= Len(t)
      <4>1. n \in 1..Len(t) /\ SubSeq(h, 1, n) = SubSeq(t, 1, n)
        BY <2>4, <2>8, <3>1, HashPrefixes
      <4>2. t \in rows
        BY <2>5, <2>7, <4>1
      <4>3. QED
        BY <1>1, <1>2, <4>1, <4>2
    <3>2. CASE ~(n <= Len(t))
      BY <2>3, <2>4, <2>8, <3>2, HashPrefixes
    <3>3. QED
      BY <3>1, <3>2
  <2>9. ASSUME NEW g \in rows PROVE IsPrefix(g, h)
    <3>1. g \in Hashes
      BY <2>7
    <3>2. IsPrefix(g, t) \/ IsPrefix(t, g)
      <4>1. CASE t \in rows
        BY <1>2, <4>1
      <4>2. CASE t = NoHash
        <5>1. Len(g) \in Nat
          BY <3>1 DEF Hashes
        <5>2. QED
          BY <2>7, <3>1, <4>2, <5>1, PrefixElements
      <4>3. QED
        BY <2>5, <4>1, <4>2
    <3>3. CASE IsPrefix(g, t)
      BY <2>4, <3>1, <3>3, PrefixGrows
    <3>4. CASE IsPrefix(t, g) /\ ~IsPrefix(g, t)
      <4>1. Len(t) + 1 \in 1..Len(g) /\ Front(SubSeq(g, 1, Len(t) + 1)) = t
        BY <2>4, <3>1, <3>4, ChildOf
      <4>2. SubSeq(g, 1, Len(t) + 1) \in rows
        BY <1>2, <4>1
      <4>3. QED
        BY <2>6, <4>1, <4>2
    <3>5. QED
      BY <3>2, <3>3, <3>4
  <2>10. IsPrefix(h, h)
    BY <2>3, PrefixElements DEF Hashes
  <2>11. ASSUME ~Overtaken', NEW n \in 1..Len(h) PROVE at'[h[n]] <= at'[Last(h)]
    <3>1. at[c] \in Nat
      <4>1. Cardinality(Captures) \in Nat
        BY CapturesAssumption, FS_CardinalityType
      <4>2. QED
        BY <4>1 DEF TypeOK
    <3>2. CASE n <= Len(t)
      <4>1. n \in 1..Len(t) /\ h[n] = t[n]
        BY <2>4, <2>11, <3>2, HashPrefixes
      <4>2. t \in rows /\ t # NoHash
        BY <2>5, <2>7, <4>1
      <4>3. at[t[n]] <= at[Last(t)] /\ at[t[n]] \in Nat /\ at[Last(t)] \in Nat
        BY <1>3, <1>5, <2>1, <2>11, <4>1, <4>2
      <4>4. ~(at[Last(h)] < at[Last(t)])
        BY <2>1, <2>3, <2>11, <4>2 DEF Overtaken, t
      <4>5. QED
        BY <2>1, <2>3, <3>1, <4>1, <4>3, <4>4
    <3>3. CASE ~(n <= Len(t))
      <4>1. h[n] = c
        BY <2>4, <2>11, <3>3, HashPrefixes
      <4>2. QED
        BY <2>1, <2>3, <3>1, <4>1
    <3>4. QED
      BY <3>2, <3>3
  <2>12. QED
    BY <1>1, <1>2, <1>5, <2>3, <2>8, <2>9, <2>10, <2>11
<1>8. QED
  BY <1>6, <1>7 DEF Keeps

-----------------------------------------------------------------------------
(* Nothing is dropped.                                                     *)

Returned(c) ==
    pc[c] = "done" /\ c \notin lost /\ ~disabled[owner[c]] => Persisted(c) \/ Parked(c)

LEMMA ReturnedStep ==
    ASSUME TypeOK, CallInv, ParkInv, Keeps, Accounted, [Next]_vars, NEW d \in Captures
    PROVE  Returned(d)'
\* A call that was over before the step.
<1>1. ASSUME pc[d] = "done", owner'[d] = owner[d],
             d \notin lost' /\ ~disabled'[owner[d]] => ~disabled[owner[d]]
      PROVE  Returned(d)'
  <2> SUFFICES ASSUME d \notin lost', ~disabled'[owner[d]]
               PROVE  Persisted(d)' \/ Parked(d)'
    BY <1>1 DEF Returned
  <2>1. Persisted(d) \/ Parked(d)
    BY <1>1 DEF Accounted, Keeps
  <2>2. rec'[d] = rec[d] /\ rows \subseteq rows'
    BY <1>1 DEF Keeps, RowAdded, Grows
  <2>3. Parked(d) => Parked(d)' \/ rec[d] \in rows'
    BY DEF Keeps
  <2>4. QED
    BY <2>1, <2>2, <2>3 DEF Persisted
\* A step of one call.
<1>2. ASSUME NEW c \in Captures, pc[c] \notin {"idle", "done"}, UNCHANGED <<owner, disabled>>,
             NEW s, pc' = [pc EXCEPT ![c] = s],
             s = "done" => Persisted(c)' \/ Parked(c)' \/ disabled[owner[c]]
      PROVE  Returned(d)'
  <2>1. pc'[c] = s /\ (d # c => pc'[d] = pc[d])
    BY <1>2, PcAt
  <2>2. CASE d = c
    BY <1>2, <2>1, <2>2 DEF Returned
  <2>3. CASE d # c /\ pc[d] = "done"
    BY <1>1, <1>2, <2>3
  <2>4. CASE d # c /\ pc[d] # "done"
    BY <2>1, <2>4 DEF Returned
  <2>5. QED
    BY <2>2, <2>3, <2>4
\* A step that ends no call.
<1>3. ASSUME pc'[d] = "done" => /\ pc[d] = "done" /\ owner'[d] = owner[d]
                                /\ d \notin lost' /\ ~disabled'[owner[d]] => ~disabled[owner[d]]
      PROVE  Returned(d)'
  BY <1>1, <1>3 DEF Returned
<1>4. ASSUME NEW c \in Captures, NEW p \in Procs, Stamp(c, p) PROVE Returned(d)'
  <2>1. /\ pc' = [pc EXCEPT ![c] = "stamped"] /\ owner' = [owner EXCEPT ![c] = p]
        /\ disabled' = disabled
    BY <1>4 DEF Stamp
  <2>2. pc'[d] = "done" => pc[d] = "done" /\ owner'[d] = owner[d]
    BY <2>1 DEF TypeOK
  <2>3. QED
    BY <1>3, <2>1, <2>2
<1>5. ASSUME NEW c \in Captures, Link(c) PROVE Returned(d)'
  <2>1. /\ UNCHANGED <<owner, disabled>> /\ pc[c] = "stamped"
        /\ pc' = [pc EXCEPT ![c] = IF disabled[owner[c]] THEN "done" ELSE "flush"]
    BY <1>5 DEF Link
  <2>2. QED
    BY <1>2, <2>1
<1>6. ASSUME NEW c \in Captures, UNCHANGED owner, owner[c] \in Procs,
             pending' = [pending EXCEPT ![owner[c]] = Append(@, c)]
      PROVE  Parked(c)'
  BY <1>6, ParkAppends DEF Parked
<1>7. ASSUME NEW c \in Captures, Insert(c) \/ InsertAgain(c) PROVE Returned(d)'
  <2>1. /\ UNCHANGED <<owner, rec, disabled>> /\ pc[c] \in {"flush", "reflush"}
        /\ \/ Grows(rec[c]) /\ pc' = [pc EXCEPT ![c] = "done"]
           \/ \E s \in {"refused", "refused twice"} : pc' = [pc EXCEPT ![c] = s]
           \/ /\ pending' = [pending EXCEPT ![owner[c]] = Append(@, c)]
              /\ pc' = [pc EXCEPT ![c] = "done"]
    BY <1>7, FlushFacts DEF Insert, InsertAgain, ParkOutage
  <2>2. owner[c] \in Procs
    BY <2>1 DEF CallInv
  <2>3. Grows(rec[c]) => Persisted(c)'
    BY <2>1 DEF Grows, Persisted
  <2>4. QED
    BY <1>2, <1>6, <2>1, <2>2, <2>3
<1>8. ASSUME NEW c \in Captures, Relink(c) PROVE Returned(d)'
  <2>1. /\ UNCHANGED <<owner, disabled>> /\ pc[c] = "refused"
        /\ \/ pc' = [pc EXCEPT ![c] = "reflush"]
           \/ /\ pending' = [pending EXCEPT ![owner[c]] = Append(@, c)]
              /\ pc' = [pc EXCEPT ![c] = "done"]
    BY <1>8 DEF Relink, ParkOutage
  <2>2. owner[c] \in Procs
    BY <2>1 DEF CallInv
  <2>3. QED
    BY <1>2, <1>6, <2>1, <2>2
<1>9. ASSUME NEW c \in Captures, Reseed(c) PROVE Returned(d)'
  <2>1. /\ UNCHANGED <<owner, disabled, pending>> /\ pc[c] = "refused twice"
        /\ pc' = [pc EXCEPT ![c] = "done"]
    BY <1>9 DEF Reseed
  <2>2. Parked(c)'
    BY <2>1 DEF ParkInv, Parked
  <2>3. QED
    BY <1>2, <2>1, <2>2
<1>10. ASSUME NEW p \in Procs, ReplayBegin(p) \/ ReplayOne(p) PROVE Returned(d)'
  <2>1. UNCHANGED <<pc, owner, disabled>>
    BY <1>10 DEF ReplayBegin, ReplayOne
  <2>2. QED
    BY <1>3, <2>1
<1>11. ASSUME NEW p \in Procs, Restart(p) PROVE Returned(d)'
  <2>1. /\ owner' = owner
        /\ pc'[d] = "done" => pc[d] = "done"
        /\ owner[d] = p /\ pc[d] # "idle" => d \in lost'
        /\ \E b : disabled' = [disabled EXCEPT ![p] = b]
    BY <1>11 DEF Restart
  <2>2. pc[d] = "done" => owner[d] \in Procs
    BY DEF CallInv
  <2>3. \A q \in Procs : q # p => disabled'[q] = disabled[q]
    BY <2>1 DEF TypeOK
  <2>4. QED
    BY <1>3, <2>1, <2>2, <2>3
<1>12. ASSUME UNCHANGED vars PROVE Returned(d)'
  BY <1>3, <1>12 DEF vars
<1>13. QED
  BY <1>4, <1>5, <1>7, <1>8, <1>9, <1>10, <1>11, <1>12 DEF Next

LEMMA AccountedStep ==
    ASSUME TypeOK, CallInv, ParkInv, LinkInv, Keeps, Accounted, [Next]_vars
    PROVE  Accounted'
<1>1. \A h \in rows : rec'[Last(h)] = h
  <2>1. \A h \in rows : Last(h) \in Captures /\ pc[Last(h)] = "done" /\ rec[Last(h)] = h
    BY HashParts DEF TypeOK, LinkInv, Accounted
  <2>2. QED
    BY <2>1 DEF Keeps
<1>2. \A h \in rows' : rec'[Last(h)] = h
  <2>1. CASE rows' = rows
    BY <1>1, <2>1
  <2>2. CASE RowAdded
    <3>1. PICK c \in Captures : rows' = rows \union {rec[c]} /\ rec[c] # NoHash /\ rec' = rec
      BY <2>2 DEF RowAdded, Grows
    <3>2. Last(rec[c]) = c
      BY <3>1 DEF CallInv
    <3>3. QED
      BY <1>1, <3>1, <3>2
  <2>3. QED
    BY <2>1, <2>2 DEF Keeps
<1>3. \A d \in Captures : Returned(d)'
  BY ReturnedStep
<1>4. QED
  BY <1>2, <1>3 DEF Accounted, Returned

-----------------------------------------------------------------------------
(* The theorems.                                                           *)

IndInv ==
    /\ TypeOK /\ CallInv /\ LockInv /\ ParkInv /\ LinkInv
    /\ TimeInv /\ OneChild /\ SomeNewest /\ AncestorInv /\ Accounted

LEMMA InitInv == Init => IndInv
<1> SUFFICES ASSUME Init PROVE IndInv
  OBVIOUS
<1>1. TypeOK
  BY TypeInit
<1>2. /\ rows = {} /\ outage = {}
      /\ \A c \in Captures : pc[c] = "idle" /\ rec[c] = NoHash /\ at[c] = 0
      /\ \A p \in Procs : pending[p] = <<>> /\ todo[p] = 0 /\ tip[p] = NoHash
  BY DEF Init
<1>3. \A c \in Captures : ~Parked(c)
  BY <1>2, QueueEmpty DEF Parked
<1>4. CallInv /\ LockInv
  BY <1>2 DEF CallInv, LockInv, Waiting, Locked
<1>5. ParkInv
  <2>1. \A p \in Procs : todo[p] <= Len(pending[p])
    BY <1>2, QueueEmpty
  <2>2. \A p \in Procs, c \in Captures : ~Contains(pending[p], c)
    BY <1>2, QueueEmpty
  <2>3. \A c \in Captures : pc[c] # "refused twice"
    BY <1>2
  <2>4. QED
    BY <2>1, <2>2, <2>3 DEF ParkInv
<1>6. LinkInv
  BY <1>2, <1>3 DEF LinkInv, Sound, Locked
<1>7. TimeInv
  <2>1. IsFiniteSet({d \in Captures : at[d] > 0})
    BY CapturesAssumption, FS_Subset
  <2>2. Cardinality({d \in Captures : at[d] > 0}) \in Nat
    BY <2>1, FS_CardinalityType
  <2>3. \A c \in Captures : at[c] <= Cardinality({d \in Captures : at[d] > 0})
    BY <1>2, <2>2
  <2>4. \A c, d \in Captures : at[c] = at[d] /\ at[c] > 0 => c = d
    BY <1>2
  <2>5. QED
    BY <2>3, <2>4 DEF TimeInv
<1>8. OneChild /\ SomeNewest /\ AncestorInv
  BY <1>2 DEF OneChild, SomeNewest, AncestorInv
<1>9. Accounted
  BY <1>2 DEF Accounted
<1>10. QED
  BY <1>1, <1>4, <1>5, <1>6, <1>7, <1>8, <1>9 DEF IndInv

LEMMA Inductive == Spec => []IndInv
<1>1. ASSUME IndInv, [Next]_vars PROVE IndInv'
  <2> USE <1>1 DEF IndInv
  <2>1. Keeps
    BY KeepsStep
  <2>2. TypeOK'
    BY TypeStep
  <2>3. CallInv' /\ LockInv' /\ ParkInv'
    BY CallStep, LockStep, ParkStep
  <2>4. TimeInv' /\ \A c \in Captures : pc[c] # "idle" => at'[c] = at[c]
    BY TimeStep
  <2>5. LinkInv'
    BY <2>1, <2>2, <2>3, LinkStep
  <2>6. OneChild'
    BY <2>1, OneChildStep
  <2>7. SomeNewest'
    BY <2>1, <2>2, <2>4, <2>5, NewestStep
  <2>8. AncestorInv'
    BY <2>1, <2>2, <2>4, AncestorStep
  <2>9. Accounted'
    BY <2>1, AccountedStep
  <2>10. QED
    BY <2>2, <2>3, <2>4, <2>5, <2>6, <2>7, <2>8, <2>9
<1>2. IndInv /\ [Next]_vars => IndInv'
  BY <1>1
<1>3. QED
  BY <1>2, InitInv, PTL DEF Spec

\* Every variable keeps its type: the hashes of records, rows and tips are
\* sequences of captures, through every refusal, outage and crash.
THEOREM TypeCorrect == Spec => []TypeOK
<1>1. IndInv => TypeOK
  BY DEF IndInv
<1>2. QED
  BY <1>1, Inductive, PTL

\* No capture that has returned is dropped, and no stored record is rewritten
\* (governance_snapshots.py, capture and _persist_with_refusal).
THEOREM NothingDropped == Spec => []Accounted
<1>1. IndInv => Accounted
  BY DEF IndInv
<1>2. QED
  BY <1>1, Inductive, PTL

\* A hole in the table is always the record of an outage
\* (governance_snapshots.py, _persist_with_refusal and _park).
THEOREM HolesAreOutages == Spec => []HolesFromOutages
<1>1. IndInv => HolesFromOutages
  BY DEF IndInv, LinkInv, Sound, HolesFromOutages
<1>2. QED
  BY <1>1, Inductive, PTL

\* As long as no call of Postgres raises the table is one chain from one
\* genesis, whatever is refused and whichever process dies, and verify_chain
\* finds it intact unless a capture was overtaken
\* (governance_snapshots.py, CHAIN_GUARD_INDEXES_SQL and verify_chain).
THEOREM ChainIsOne == Spec => []OneChain
<1>1. ASSUME IndInv, outage = {}
      PROVE  /\ \A g, h \in rows : IsPrefix(g, h) \/ IsPrefix(h, g)
             /\ \A h \in rows : Front(h) \in rows \union {NoHash}
             /\ ~Overtaken => Intact /\ \A h \in rows : Front(h) # Newest
  <2> USE <1>1 DEF IndInv
  <2>1. \A g, h \in rows : IsPrefix(g, h) \/ IsPrefix(h, g)
    BY DEF AncestorInv
  <2>2. \A h \in rows : Front(h) \in rows \union {NoHash}
    BY ParentIsRow
  <2>3. \A h \in rows : /\ h \in Hashes /\ h # NoHash /\ Last(h) \in Captures
                        /\ Len(h) \in Nat /\ Len(h) > 0
    BY HashParts DEF TypeOK
  <2>4. \A h \in rows : at[Last(h)] \in Nat /\ at[Last(h)] > 0
    <3>1. Cardinality(Captures) \in Nat
      BY CapturesAssumption, FS_CardinalityType
    <3>2. \A h \in rows : pc[Last(h)] = "done"
      BY DEF LinkInv
    <3>3. QED
      BY <2>3, <3>1, <3>2 DEF TypeOK, CallInv
  <2>5. \A g, h \in rows : at[Last(g)] = at[Last(h)] => g = h
    <3>1. \A h \in rows : rec[Last(h)] = h
      BY DEF Accounted
    <3>2. \A g, h \in rows : at[Last(g)] = at[Last(h)] => Last(g) = Last(h)
      BY <2>3, <2>4 DEF TimeInv
    <3>3. QED
      BY <3>1, <3>2
  <2>6. ASSUME ~Overtaken PROVE Intact
    <3> SUFFICES ASSUME NEW g \in rows, NEW h \in rows, Follows(g, h) PROVE Front(h) = g
      BY DEF Intact
    <3>1. /\ at[Last(g)] < at[Last(h)]
          /\ \A k \in rows : ~(at[Last(g)] < at[Last(k)] /\ at[Last(k)] < at[Last(h)])
      BY DEF Follows
    \* No row is younger than one that descends from it.
    <3>2. ASSUME NEW k \in rows, NEW l \in rows, IsPrefix(k, l) PROVE at[Last(k)] <= at[Last(l)]
      <4>1. Len(k) \in 1..Len(l) /\ k[Len(k)] = l[Len(k)]
        BY <2>3, <3>2, PrefixElements
      <4>2. at[l[Len(k)]] <= at[Last(l)]
        BY <2>6, <4>1 DEF AncestorInv
      <4>3. QED
        BY <4>1, <4>2 DEF Last
    <3>3. IsPrefix(g, h)
      BY <2>1, <2>4, <3>1, <3>2
    <3>4. Len(g) < Len(h)
      <4>1. Len(g) <= Len(h) /\ \A i \in 1..Len(g) : g[i] = h[i]
        BY <2>3, <3>3, PrefixElements
      <4>2. ASSUME Len(g) = Len(h) PROVE FALSE
        <5>1. Last(g) = Last(h)
          BY <2>3, <4>1, <4>2 DEF Last
        <5>2. QED
          BY <2>4, <3>1, <5>1
      <4>3. QED
        BY <2>3, <4>1, <4>2
    <3> DEFINE f == Front(h)
    <3>5. f \in Seq(Captures) /\ Len(f) = Len(h) - 1 /\ \A i \in 1..(Len(h) - 1) : f[i] = h[i]
      BY <2>3, FrontElements
    <3>6. f # NoHash
      BY <2>3, <3>4, <3>5 DEF NoHash
    <3>7. f \in rows
      BY <2>2, <3>6
    <3>8. at[Last(f)] < at[Last(h)]
      <4>1. ~(at[Last(h)] < at[Last(f)])
        BY <2>6, <3>6 DEF Overtaken
      <4>2. f # h
        BY <2>3, <3>5
      <4>3. QED
        BY <2>4, <2>5, <3>7, <4>1, <4>2
    <3>9. IsPrefix(g, f)
      <4> HIDE DEF f
      <4>1. Len(g) <= Len(f) /\ \A i \in 1..Len(g) : g[i] = f[i]
        <5>1. \A i \in 1..Len(g) : g[i] = h[i]
          BY <2>3, <3>3, PrefixElements
        <5>2. QED
          BY <2>3, <3>4, <3>5, <5>1
      <4>2. QED
        BY <2>3, <3>7, <4>1, PrefixElements
    <3>10. at[Last(g)] <= at[Last(f)]
      BY <3>2, <3>7, <3>9
    <3>11. QED
      BY <2>4, <2>5, <3>1, <3>7, <3>8, <3>10
  <2>7. ASSUME ~Overtaken, NEW h \in rows PROVE Front(h) # Newest
    <3> SUFFICES ASSUME Front(h) = Newest PROVE FALSE
      OBVIOUS
    <3>1. Newest \in rows /\ at[Last(h)] <= at[Last(Newest)]
      BY NewestFacts DEF TypeOK
    <3>2. Newest # NoHash
      BY <2>3, <3>1
    <3>3. ~(at[Last(h)] < at[Last(Newest)])
      BY <2>7, <3>2 DEF Overtaken
    <3>4. h = Newest
      BY <2>4, <2>5, <3>1, <3>3
    <3>5. Len(Front(h)) = Len(h) - 1
      BY <2>3, FrontElements
    <3>6. QED
      BY <2>3, <3>4, <3>5
  <2>8. QED
    BY <2>1, <2>2, <2>6, <2>7
<1>2. IndInv => OneChain
  BY <1>1 DEF OneChain
<1>3. QED
  BY <1>2, Inductive, PTL
=============================================================================
