------------------------ MODULE EvidenceChainProofs ------------------------
(***************************************************************************)
(* Theorems about EvidenceChain for any number of records, crashes and     *)
(* deploys.                                                                *)
(***************************************************************************)
EXTENDS EvidenceChain, SequenceTheorems, WellFoundedInduction, TLAPS

LEMMA JunkIsNoRecord == Junk \notin Records
BY DEF Junk, Records, None

TypeInv == TypeOK /\ (unended => file # <<>>)

\* Writing behind an unended line damages it; otherwise the line is added.
LEMMA WrittenFile ==
    ASSUME TypeInv, NEW line \in Records \union {Junk}
    PROVE  /\ Written(line) \in Seq(Records \union {Junk})
           /\ Written(line) # <<>>
           /\ unended => /\ Len(Written(line)) = Len(file)
                         /\ Len(file) > 0
                         /\ Written(line)[Len(file)] = Junk
           /\ ~unended => /\ Len(Written(line)) = Len(file) + 1
                          /\ Written(line)[Len(file) + 1] = line
                          /\ \A i \in 1..Len(file) :
                                Written(line)[i] = file[i]
<1> USE DEF TypeInv, TypeOK
<1>1. CASE unended
  <2>1. Len(file) \in 1..Len(file)
    BY <1>1
  <2>2. Written(line) = [file EXCEPT ![Len(file)] = Junk]
    BY <1>1 DEF Written
  <2>3. QED
    BY <1>1, <2>1, <2>2, ExceptSeq
<1>2. CASE ~unended
  BY <1>2, AppendProperties DEF Written
<1>3. QED
  BY <1>1, <1>2

LEMMA TypeInit == Init => TypeInv
<1> SUFFICES ASSUME Init PROVE TypeInv
  OBVIOUS
<1>1. file \in Seq(Records \union {Junk})
  BY DEF Init
<1>2. /\ downs \in 0..MaxDowns /\ last \in 0..MaxRecords
      /\ attempts \in 0..MaxRecords
  BY BoundAssumption DEF Init, None
<1>3. mirror \subseteq Records /\ returned \subseteq Records
  BY DEF Init
<1>4. QED
  BY <1>1, <1>2, <1>3 DEF Init, TypeInv, TypeOK

LEMMA NewRecordType ==
    ASSUME TypeInv, attempts < MaxRecords, NEW type \in Types,
           NEW did \in Decisions
    PROVE  NewRecord(type, did) \in Records
BY BoundAssumption DEF TypeInv, TypeOK, NewRecord, Records

LEMMA TypeStep == TypeInv /\ [Next]_vars => TypeInv'
<1> SUFFICES ASSUME TypeInv, [Next]_vars PROVE TypeInv'
  OBVIOUS
<1> USE DEF TypeInv, TypeOK
<1>0. Resolutions(mirror) \subseteq Decisions /\ Resolutions(Lines) \subseteq Decisions
  <2>1. \A q \in Records \union {Junk} :
          q.type = "human_resolution" => q.did \in Decisions
    BY DEF Records, Junk
  <2>2. Lines \subseteq Records \union {Junk}
    BY DEF Lines
  <2>3. QED
    BY <2>1, <2>2 DEF Resolutions
<1>1. ASSUME NEW type \in Types, NEW did \in Decisions,
             AppendRecord(type, did)
      PROVE  TypeInv'
  <2>1. NewRecord(type, did) \in Records
    BY <1>1, NewRecordType DEF AppendRecord
  <2>2. file' \in Seq(Records \union {Junk})
    BY <1>1, <2>1, WrittenFile DEF AppendRecord
  <2>3. last' \in 0..MaxRecords
    BY <1>1, <2>1 DEF AppendRecord, LastAfter, Records
  <2>4. index' = <<>> \/ \E ids \in SUBSET Decisions : index' = <<ids>>
    <3>1. CASE index = <<>>
      BY <1>1, <3>1 DEF AppendRecord, IndexAfter
    <3>2. ASSUME NEW ids \in SUBSET Decisions, index = <<ids>>
          PROVE  \E q \in SUBSET Decisions : index' = <<q>>
      <4>1. NewRecord(type, did).did \in Decisions
        BY <2>1 DEF Records
      <4>2. index' = index \/ index' = <<ids \union {NewRecord(type, did).did}>>
        BY <1>1, <3>2 DEF AppendRecord, IndexAfter
      <4>3. QED
        BY <3>2, <4>1, <4>2
    <3>3. QED
      BY <3>1, <3>2
  <2>5. attempts' \in 0..MaxRecords
    BY <1>1, BoundAssumption DEF AppendRecord
  <2>6. QED
    BY <1>1, <2>1, <2>2, <2>3, <2>4, <2>5 DEF AppendRecord, MirrorAfter
<1>2. ASSUME NEW type \in Types, NEW did \in Decisions,
             AppendTears(type, did)
      PROVE  TypeInv'
  <2>1. NewRecord(type, did) \in Records
    BY <1>2, NewRecordType DEF AppendTears
  <2>2. file' \in Seq(Records \union {Junk}) /\ file' # <<>>
    BY <1>2, <2>1, WrittenFile DEF AppendTears
  <2>3. attempts' \in 0..MaxRecords
    BY <1>2, BoundAssumption DEF AppendTears
  <2>4. QED
    BY <1>2, <2>2, <2>3 DEF AppendTears
<1>3. ASSUME NEW type \in Types, NEW did \in Decisions,
             CrashInAppend(type, did)
      PROVE  TypeInv'
  <2>1. NewRecord(type, did) \in Records
    BY <1>3, NewRecordType DEF CrashInAppend
  <2>2. file' \in Seq(Records \union {Junk})
    BY <1>3, <2>1, WrittenFile DEF CrashInAppend
  <2>3. attempts' \in 0..MaxRecords /\ downs' \in 0..MaxDowns /\ last' \in 0..MaxRecords
    BY <1>3, BoundAssumption DEF CrashInAppend, Down, None
  <2>4. QED
    BY <1>3, <2>2, <2>3 DEF CrashInAppend, Down
<1>4. CASE AppendFails
  BY <1>4, BoundAssumption DEF AppendFails
<1>5. CASE BuildIndex
  <2>1. PICK seed \in {{}, Resolutions(mirror)} :
          index' = << seed \union Resolutions(Lines) >>
    BY <1>5 DEF BuildIndex
  <2>2. seed \union Resolutions(Lines) \in SUBSET Decisions
    BY <1>0
  <2>3. QED
    BY <1>5, <2>1, <2>2 DEF BuildIndex
<1>6. CASE Crash
  <2>1. downs' \in 0..MaxDowns /\ last' \in 0..MaxRecords
    BY <1>6, BoundAssumption DEF Crash, Down, None
  <2>2. QED
    BY <1>6, <2>1 DEF Crash, Down
<1>7. CASE Restart
  <2>1. last' \in 0..MaxRecords
    <3>1. CASE file = <<>>
      BY <1>7, <3>1, BoundAssumption DEF Restart, Loaded, None
    <3>2. CASE file # <<>>
      <4>1. file[Len(file)] \in Records \union {Junk}
        BY <3>2
      <4>2. \A q \in Records \union {Junk} : q.n \in 0..MaxRecords
        BY BoundAssumption DEF Records, Junk, None
      <4>3. QED
        BY <1>7, <3>2, <4>1, <4>2 DEF Restart, Loaded
    <3>3. QED
      BY <3>1, <3>2
  <2>2. QED
    BY <1>7, <2>1 DEF Restart
<1>8. CASE Redeploy
  <2>1. last' \in 0..MaxRecords
    BY <1>8, BoundAssumption DEF Redeploy, None
  <2>2. file' \in Seq(Records \union {Junk}) /\ returned' \subseteq Records
    BY <1>8 DEF Redeploy
  <2>3. QED
    BY <1>8, <2>1, <2>2 DEF Redeploy
<1>9. CASE UNCHANGED vars
  BY <1>9 DEF vars
<1>10. QED
  BY <1>1, <1>2, <1>3, <1>4, <1>5, <1>6, <1>7, <1>8, <1>9 DEF Next

\* Every reachable state of the recorder is well typed.
THEOREM TypeCorrect == Spec => []TypeOK
<1>1. TypeInv => TypeOK
  BY DEF TypeInv
<1>2. QED
  BY <1>1, TypeInit, TypeStep, PTL DEF Spec

-----------------------------------------------------------------------------
(* The chain on disk: damage stays visible, and an undamaged file is one     *)
(* chain.                                                                    *)

\* Damage is never overwritten by an append, and an append behind an unended
\* line is damage.
LEMMA DamageStays ==
    ASSUME TypeInv, NEW line \in Records \union {Junk}, file' = Written(line),
           Junk \in Lines \/ unended \/ line = Junk
    PROVE  Junk \in Lines'
<1> USE DEF TypeInv, TypeOK
<1>1. CASE unended
  <2>1. Len(file) \in DOMAIN file' /\ file'[Len(file)] = Junk
    BY <1>1, WrittenFile
  <2>2. QED
    BY <2>1 DEF Lines
<1>2. CASE ~unended /\ line = Junk
  <2>1. Len(file) + 1 \in DOMAIN file' /\ file'[Len(file) + 1] = Junk
    BY <1>2, WrittenFile
  <2>2. QED
    BY <2>1 DEF Lines
<1>3. CASE ~unended /\ Junk \in Lines
  <2>1. PICK i \in DOMAIN file : file[i] = Junk
    BY <1>3 DEF Lines
  <2>2. i \in DOMAIN file' /\ file'[i] = Junk
    BY <1>3, <2>1, WrittenFile
  <2>3. QED
    BY <2>2 DEF Lines
<1>4. QED
  BY <1>1, <1>2, <1>3

\* On an undamaged, ended file a live recorder adds the next link.
LEMMA NextLink ==
    ASSUME TypeInv, DiskInv, up, ~unended, Junk \notin Lines,
           attempts < MaxRecords, NEW type \in Types, NEW did \in Decisions,
           file' = Written(NewRecord(type, did))
    PROVE  /\ Verifies(file)'
           /\ Lines' = Lines \union {NewRecord(type, did)}
           /\ Loaded' = attempts + 1
           /\ Junk \notin Lines'
<1> DEFINE rec == NewRecord(type, did)
<1>1. rec \in Records /\ rec.prev = last /\ rec.n = attempts + 1
  BY NewRecordType DEF NewRecord
<1>2. /\ file' \in Seq(Records \union {Junk})
      /\ Len(file') = Len(file) + 1
      /\ file'[Len(file) + 1] = rec
      /\ \A i \in 1..Len(file) : file'[i] = file[i]
  BY <1>1, WrittenFile
<1>3. Len(file) \in Nat /\ DOMAIN file = 1..Len(file)
  BY DEF TypeInv, TypeOK
<1>4. last = Loaded /\ Verifies(file)
  BY DEF DiskInv, CorruptionVisible
<1> HIDE DEF rec
<1>5. Lines' = Lines \union {rec}
  BY <1>2, <1>3 DEF Lines
<1>6. Verifies(file')
  <2> SUFFICES ASSUME NEW i \in 1..Len(file')
               PROVE  file'[i].prev = IF i = 1 THEN None ELSE file'[i - 1].n
    BY DEF Verifies, LinksTo
  <2>1. CASE i \in 1..Len(file)
    BY <1>2, <1>3, <1>4, <2>1 DEF Verifies, LinksTo
  <2>2. CASE i = Len(file) + 1
    <3>1. file'[i].prev = Loaded
      BY <1>1, <1>2, <1>4, <2>2
    <3>2. CASE Len(file) = 0
      BY <1>3, <2>2, <3>1, <3>2, EmptySeq DEF Loaded, TypeInv, TypeOK
    <3>3. CASE Len(file) > 0
      <4>1. file # <<>> /\ i # 1 /\ i - 1 = Len(file)
        BY <1>3, <2>2, <3>3
      <4>2. file'[i - 1] = file[Len(file)]
        BY <1>2, <1>3, <3>3, <4>1
      <4>3. QED
        BY <3>1, <4>1, <4>2 DEF Loaded
    <3>4. QED
      BY <1>3, <3>2, <3>3
  <2>3. QED
    BY <1>2, <1>3, <2>1, <2>2
<1>7. Loaded' = attempts + 1
  <2>1. file' # <<>>
    BY <1>2, <1>3
  <2>2. QED
    BY <1>1, <1>2, <2>1 DEF Loaded
<1>8. QED
  BY <1>1, <1>5, <1>6, <1>7, JunkIsNoRecord DEF rec

LEMMA DiskInit == Init => DiskInv
BY DEF Init, DiskInv, CorruptionVisible, Verifies, Loaded, Lines, None

LEMMA DiskStep == TypeInv /\ DiskInv /\ [Next]_vars => DiskInv'
<1> SUFFICES ASSUME TypeInv, DiskInv, [Next]_vars PROVE DiskInv'
  OBVIOUS
<1>1. ASSUME NEW type \in Types, NEW did \in Decisions,
             AppendRecord(type, did)
      PROVE  DiskInv'
  <2>1. /\ up /\ attempts < MaxRecords /\ file' = Written(NewRecord(type, did))
        /\ unended' = FALSE /\ last' = attempts + 1
        /\ returned' = returned \union {NewRecord(type, did)}
    BY <1>1 DEF AppendRecord, LastAfter, NewRecord
  <2>2. CASE Junk \in Lines \/ unended
    <3>1. Junk \in Lines'
      BY <2>1, <2>2, NewRecordType, DamageStays
    <3>2. QED
      BY <2>1, <3>1 DEF DiskInv, CorruptionVisible
  <2>3. CASE Junk \notin Lines /\ ~unended
    <3>1. /\ Verifies(file)' /\ Loaded' = attempts + 1
          /\ Lines' = Lines \union {NewRecord(type, did)}
      BY <2>1, <2>3, NextLink
    <3>2. returned' \subseteq Lines'
      BY <2>1, <2>3, <3>1 DEF DiskInv, CorruptionVisible
    <3>3. QED
      BY <2>1, <3>1, <3>2 DEF DiskInv, CorruptionVisible
  <2>4. QED
    BY <2>2, <2>3
<1>2. ASSUME NEW type \in Types, NEW did \in Decisions,
             AppendTears(type, did)
      PROVE  DiskInv'
  <2>1. PICK line \in {Junk, NewRecord(type, did)} : file' = Written(line)
    BY <1>2 DEF AppendTears
  <2>2. /\ up /\ attempts < MaxRecords /\ unended' = TRUE /\ returned' = returned
    BY <1>2 DEF AppendTears
  <2>3. NewRecord(type, did) \in Records
    BY <2>2, NewRecordType
  <2>4. file' # <<>>
    BY <2>1, <2>3, WrittenFile
  <2>5. CASE Junk \in Lines \/ unended \/ line = Junk
    <3>1. Junk \in Lines'
      BY <2>1, <2>3, <2>5, DamageStays
    <3>2. QED
      BY <2>2, <2>4, <3>1 DEF DiskInv, CorruptionVisible
  <2>6. CASE Junk \notin Lines /\ ~unended /\ line = NewRecord(type, did)
    <3>1. Verifies(file)' /\ Lines' = Lines \union {NewRecord(type, did)}
      BY <2>1, <2>2, <2>6, NextLink
    <3>2. returned' \subseteq Lines'
      BY <2>2, <2>6, <3>1 DEF DiskInv, CorruptionVisible
    <3>3. QED
      BY <2>2, <2>4, <3>1, <3>2 DEF DiskInv, CorruptionVisible
  <2>7. QED
    BY <2>1, <2>5, <2>6
<1>3. ASSUME NEW type \in Types, NEW did \in Decisions,
             CrashInAppend(type, did)
      PROVE  DiskInv'
  <2>1. /\ up /\ attempts < MaxRecords /\ file' = Written(NewRecord(type, did))
        /\ unended' = FALSE /\ up' = FALSE /\ returned' = returned
    BY <1>3 DEF CrashInAppend, Down
  <2>2. CASE Junk \in Lines \/ unended
    <3>1. Junk \in Lines'
      BY <2>1, <2>2, NewRecordType, DamageStays
    <3>2. QED
      BY <2>1, <3>1 DEF DiskInv, CorruptionVisible
  <2>3. CASE Junk \notin Lines /\ ~unended
    <3>1. Verifies(file)' /\ Lines' = Lines \union {NewRecord(type, did)}
      BY <2>1, <2>3, NextLink
    <3>2. returned' \subseteq Lines'
      BY <2>1, <2>3, <3>1 DEF DiskInv, CorruptionVisible
    <3>3. QED
      BY <2>1, <3>1, <3>2 DEF DiskInv, CorruptionVisible
  <2>4. QED
    BY <2>2, <2>3
<1>4. CASE AppendFails \/ BuildIndex
  <2>1. UNCHANGED <<up, file, unended, last, returned>>
    BY <1>4 DEF AppendFails, BuildIndex
  <2>2. QED
    BY <2>1 DEF DiskInv, CorruptionVisible, Lines, Verifies, Loaded
<1>5. CASE Crash
  BY <1>5 DEF Crash, Down, DiskInv, CorruptionVisible, Lines, Verifies
<1>6. CASE Restart
  BY <1>6 DEF Restart, DiskInv, CorruptionVisible, Lines, Verifies, Loaded
<1>7. CASE Redeploy
  BY <1>7 DEF Redeploy, DiskInv, CorruptionVisible, Verifies, Loaded, Lines,
              None
<1>8. CASE UNCHANGED vars
  BY <1>8 DEF vars, DiskInv, CorruptionVisible, Lines, Verifies, Loaded
<1>9. QED
  BY <1>1, <1>2, <1>3, <1>4, <1>5, <1>6, <1>7, <1>8 DEF Next

LEMMA DiskSafe == Spec => [](TypeInv /\ DiskInv)
<1>1. Init => TypeInv /\ DiskInv
  BY TypeInit, DiskInit
<1>2. TypeInv /\ DiskInv /\ [Next]_vars => (TypeInv /\ DiskInv)'
  BY TypeStep, DiskStep
<1>3. QED
  BY <1>1, <1>2, PTL DEF Spec

\* However writes fail, tear, crash and restart, the evidence file is either
\* one verifiable chain that holds every record whose append returned and is
\* continued at its end, or shows a line that read_all refuses.
THEOREM DamageIsVisible == Spec => []CorruptionVisible
<1>1. TypeInv /\ DiskInv => CorruptionVisible
  BY DEF DiskInv
<1>2. QED
  BY <1>1, DiskSafe, PTL

-----------------------------------------------------------------------------
(* The index of resolved holds.                                              *)

IndexInv == (~up => index = <<>>) /\ NeverHidesWaiting /\ IndexCurrent

\* Resolutions distributes over union and knows the type of one record.
LEMMA ResolutionsUnion ==
    \A A, B : Resolutions(A \union B) = Resolutions(A) \union Resolutions(B)
BY DEF Resolutions

LEMMA ResolutionsOne ==
    \A rec : Resolutions({rec}) =
               IF rec.type = "human_resolution" THEN {rec.did} ELSE {}
BY DEF Resolutions

\* What an append that leaves the file undamaged adds to it.
LEMMA UndamagedAppend ==
    ASSUME TypeInv, DiskInv, up, attempts < MaxRecords, NEW type \in Types,
           NEW did \in Decisions, NEW line \in {Junk, NewRecord(type, did)},
           file' = Written(line), Junk \notin Lines'
    PROVE  /\ Junk \notin Lines /\ ~unended
           /\ Lines' = Lines \union {NewRecord(type, did)}
<1>1. NewRecord(type, did) \in Records
  BY NewRecordType
<1>2. Junk \notin Lines /\ ~unended /\ line # Junk
  BY <1>1, DamageStays
<1>3. QED
  BY <1>2, NextLink

LEMMA IndexStep ==
    TypeInv /\ DiskInv /\ IndexInv /\ [Next]_vars => IndexInv'
<1> SUFFICES ASSUME TypeInv, DiskInv, IndexInv, [Next]_vars PROVE IndexInv'
  OBVIOUS
<1> USE DEF IndexInv
<1>1. ASSUME NEW type \in Types, NEW did \in Decisions,
             AppendRecord(type, did)
      PROVE  IndexInv'
  <2> DEFINE rec == NewRecord(type, did)
  <2>1. /\ up /\ up' /\ attempts < MaxRecords /\ file' = Written(rec)
        /\ mirror \subseteq mirror' /\ unended' = FALSE
        /\ returned' = returned \union {rec} /\ index' = IndexAfter(rec)
    BY <1>1 DEF AppendRecord, MirrorAfter
  <2>2. CASE Junk \in Lines' \/ index = <<>>
    BY <2>1, <2>2 DEF NeverHidesWaiting, IndexCurrent, IndexAfter
  <2>3. CASE Junk \notin Lines' /\ index # <<>>
    <3>1. Junk \notin Lines /\ ~unended /\ Lines' = Lines \union {rec}
      BY <2>1, <2>3, UndamagedAppend
    <3>2. PICK ids : index = <<ids>>
      BY <2>3 DEF TypeInv, TypeOK
    <3>3. index' = <<ids \union Resolutions({rec})>>
      BY <2>1, <3>2, ResolutionsOne DEF IndexAfter
    <3>4. ids \subseteq Resolutions(Lines \union mirror \union returned)
      BY <2>3, <3>1, <3>2 DEF NeverHidesWaiting
    <3>5. Resolutions(Lines) \union Resolutions(returned) \subseteq ids
      BY <2>3, <3>1, <3>2 DEF IndexCurrent
    <3> HIDE DEF rec
    <3>6. Resolutions(Lines \union mirror \union returned) \union Resolutions({rec})
            \subseteq Resolutions(Lines' \union mirror' \union returned')
      <4>1. Lines \union mirror \union returned \union {rec}
              \subseteq Lines' \union mirror' \union returned'
        BY <2>1, <3>1
      <4>2. QED
        BY <4>1 DEF Resolutions
    <3>7. Resolutions(Lines') \union Resolutions(returned')
            = Resolutions(Lines) \union Resolutions(returned)
                \union Resolutions({rec})
      BY <2>1, <3>1, ResolutionsUnion
    <3>8. NeverHidesWaiting'
      BY <3>3, <3>4, <3>6 DEF NeverHidesWaiting, Resolutions
    <3>9. IndexCurrent'
      BY <3>3, <3>5, <3>7 DEF IndexCurrent, Resolutions
    <3>10. QED
      BY <2>1, <3>8, <3>9
  <2>4. QED
    BY <2>2, <2>3
<1>2. ASSUME NEW type \in Types, NEW did \in Decisions,
             AppendTears(type, did)
      PROVE  IndexInv'
  <2>1. PICK line \in {Junk, NewRecord(type, did)} : file' = Written(line)
    BY <1>2 DEF AppendTears
  <2>2. /\ up /\ up' = up /\ attempts < MaxRecords /\ unended' = TRUE
        /\ UNCHANGED <<mirror, returned, index>>
    BY <1>2 DEF AppendTears
  <2>3. IndexCurrent'
    BY <2>2 DEF IndexCurrent
  <2>4. NeverHidesWaiting'
    <3>1. CASE Junk \in Lines' \/ index = <<>>
      BY <2>2, <3>1 DEF NeverHidesWaiting
    <3>2. CASE Junk \notin Lines' /\ index # <<>>
      <4>1. Junk \notin Lines /\ Lines' = Lines \union {NewRecord(type, did)}
        BY <2>1, <2>2, <3>2, UndamagedAppend
      <4>2. QED
        BY <2>2, <3>2, <4>1 DEF NeverHidesWaiting, Resolutions
    <3>3. QED
      BY <3>1, <3>2
  <2>5. QED
    BY <2>2, <2>3, <2>4
<1>3. ASSUME NEW type \in Types, NEW did \in Decisions,
             CrashInAppend(type, did)
      PROVE  IndexInv'
  BY <1>3 DEF CrashInAppend, Down, NeverHidesWaiting, IndexCurrent
<1>4. CASE AppendFails
  BY <1>4 DEF AppendFails, NeverHidesWaiting, IndexCurrent, Lines, Resolutions
<1>5. CASE BuildIndex
  <2>1. PICK seed \in {{}, Resolutions(mirror)} :
          index' = << seed \union Resolutions(Lines) >>
    BY <1>5 DEF BuildIndex
  <2>2. /\ up /\ up' = up
        /\ UNCHANGED <<file, unended, mirror, returned>> /\ Lines' = Lines
    BY <1>5 DEF BuildIndex, Lines
  <2>3. Junk \notin Lines => returned \subseteq Lines
    BY DEF DiskInv, CorruptionVisible
  <2>4. seed \union Resolutions(Lines)
          \subseteq Resolutions(Lines \union mirror \union returned)
    BY DEF Resolutions
  <2>5. Junk \notin Lines => Resolutions(returned) \subseteq Resolutions(Lines)
    BY <2>3 DEF Resolutions
  <2>6. QED
    BY <2>1, <2>2, <2>4, <2>5 DEF NeverHidesWaiting, IndexCurrent, Resolutions
<1>6. CASE Crash
  BY <1>6 DEF Crash, Down, NeverHidesWaiting, IndexCurrent
<1>7. CASE Restart \/ Redeploy
  BY <1>7 DEF Restart, Redeploy, NeverHidesWaiting, IndexCurrent
<1>8. CASE UNCHANGED vars
  BY <1>8 DEF vars, NeverHidesWaiting, IndexCurrent, Lines, Resolutions
<1>9. QED
  BY <1>1, <1>2, <1>3, <1>4, <1>5, <1>6, <1>7, <1>8 DEF Next

LEMMA IndexSafe == Spec => []IndexInv
<1>1. Init => IndexInv
  BY DEF Init, IndexInv, NeverHidesWaiting, IndexCurrent
<1>2. QED
  BY <1>1, DiskSafe, IndexStep, PTL DEF Spec

\* On an undamaged file the index names a decision as resolved only if its
\* human resolution exists: no waiting hold is hidden.
THEOREM NoHoldHidden == Spec => []NeverHidesWaiting
<1>1. IndexInv => NeverHidesWaiting
  BY DEF IndexInv
<1>2. QED
  BY <1>1, IndexSafe, PTL

\* On an undamaged file the index misses no resolution that is on disk or that
\* the recorder returned.
THEOREM NoResolutionMissed == Spec => []IndexCurrent
<1>1. IndexInv => IndexCurrent
  BY DEF IndexInv
<1>2. QED
  BY <1>1, IndexSafe, PTL

-----------------------------------------------------------------------------
(* What the verifiers accept.  Records are numbered in the order of the      *)
(* file, so a link names one place.                                          *)

LEMMA NumberWritten ==
    ASSUME TypeInv, NumberInv, NEW line \in Records \union {Junk},
           line = Junk \/ line.n = attempts + 1,
           file' = Written(line), attempts' = attempts + 1
    PROVE  NumberInv'
<1>1. /\ Len(file) \in Nat /\ DOMAIN file = 1..Len(file) /\ attempts \in Nat
      /\ \A i \in DOMAIN file : file[i].n \in Nat
  BY BoundAssumption DEF TypeInv, TypeOK, Records, Junk, None
<1>2. Junk.n = 0
  BY DEF Junk, None
<1>3. CASE unended
  <2>1. file' = [file EXCEPT ![Len(file)] = Junk] /\ Junk \in Lines'
    BY <1>3, DamageStays DEF Written
  <2>2. DOMAIN file' = DOMAIN file /\ \A i \in DOMAIN file : file'[i] = file[i] \/ file'[i] = Junk
    BY <2>1 DEF TypeInv, TypeOK
  <2>3. ASSUME NEW i \in DOMAIN file' PROVE file'[i].n <= attempts'
    <3>1. file[i].n <= attempts /\ i \in DOMAIN file
      BY <2>2 DEF NumberInv
    <3>2. QED
      BY <1>1, <1>2, <2>2, <3>1
  <2>4. QED
    BY <2>1, <2>3 DEF NumberInv
<1>4. CASE ~unended
  <2>1. /\ DOMAIN file' = 1..(Len(file) + 1) /\ file'[Len(file) + 1] = line
        /\ \A i \in 1..Len(file) : file'[i] = file[i]
    BY <1>4, WrittenFile
  <2>2. \A i \in DOMAIN file' : i \in 1..Len(file) \/ i = Len(file) + 1
    BY <1>1, <2>1
  <2>3. \A i \in DOMAIN file' : file'[i].n <= attempts'
    BY <1>1, <1>2, <2>1, <2>2 DEF NumberInv
  <2>4. ASSUME Junk \notin Lines', NEW i \in DOMAIN file', NEW j \in DOMAIN file', i < j
        PROVE  file'[i].n < file'[j].n
    <3>1. line # Junk /\ Junk \notin Lines
      BY <2>4, DamageStays
    <3>2. i \in 1..Len(file)
      BY <1>1, <2>1, <2>4
    <3>3. CASE j \in 1..Len(file)
      BY <1>1, <2>1, <2>4, <3>1, <3>2, <3>3 DEF NumberInv
    <3>4. CASE j = Len(file) + 1
      <4>1. file[i].n <= attempts /\ file'[j].n = attempts + 1
        BY <1>1, <2>1, <3>1, <3>2, <3>4 DEF NumberInv
      <4>2. QED
        BY <1>1, <2>1, <3>2, <4>1
    <3>5. QED
      BY <2>2, <3>3, <3>4
  <2>5. QED
    BY <2>3, <2>4 DEF NumberInv
<1>5. QED
  BY <1>3, <1>4

LEMMA NumberStep == TypeInv /\ NumberInv /\ [Next]_vars => NumberInv'
<1> SUFFICES ASSUME TypeInv, NumberInv, [Next]_vars PROVE NumberInv'
  OBVIOUS
<1>1. ASSUME NEW type \in Types, NEW did \in Decisions,
             AppendRecord(type, did) \/ AppendTears(type, did) \/ CrashInAppend(type, did)
      PROVE  NumberInv'
  <2>1. attempts < MaxRecords /\ attempts' = attempts + 1
    BY <1>1 DEF AppendRecord, AppendTears, CrashInAppend
  <2>2. PICK line \in {Junk, NewRecord(type, did)} : file' = Written(line)
    BY <1>1 DEF AppendRecord, AppendTears, CrashInAppend
  <2>3. NewRecord(type, did) \in Records /\ NewRecord(type, did).n = attempts + 1
    BY <2>1, NewRecordType DEF NewRecord
  <2>4. QED
    BY <2>1, <2>2, <2>3, NumberWritten
<1>2. CASE UNCHANGED file /\ (attempts' = attempts \/ attempts' = attempts + 1)
  <2>1. attempts \in Nat /\ \A i \in DOMAIN file : file[i].n \in Nat
    BY BoundAssumption DEF TypeInv, TypeOK, Records, Junk, None
  <2>2. \A i \in DOMAIN file : file[i].n <= attempts'
    BY <1>2, <2>1 DEF NumberInv
  <2>3. QED
    BY <1>2, <2>2 DEF NumberInv, Lines
<1>3. CASE Redeploy
  BY <1>3 DEF Redeploy, NumberInv
<1>4. CASE AppendFails \/ BuildIndex \/ Crash \/ Restart \/ UNCHANGED vars
  BY <1>2, <1>4 DEF AppendFails, BuildIndex, Crash, Restart, vars
<1>5. QED
  BY <1>1, <1>3, <1>4 DEF Next

ChainInv == TypeInv /\ DiskInv /\ NumberInv

LEMMA ChainSafe == Spec => []ChainInv
<1>1. Init => NumberInv
  BY DEF Init, NumberInv
<1>2. QED
  BY <1>1, NumberStep, DiskSafe, PTL DEF Spec, ChainInv

\* A link names one place of an undamaged file.
LEMMA OneLink ==
    ASSUME ChainInv, Junk \notin Lines
    PROVE  /\ \A i, j \in DOMAIN file : LinksTo(file[j], file[i]) <=> j = i + 1
           /\ \A i \in DOMAIN file : file[i].prev = None <=> i = 1
           /\ \A i \in DOMAIN file : i # 1 => i - 1 \in DOMAIN file
           /\ DOMAIN file = 1..Len(file) /\ Len(file) \in Nat
<1>1. /\ Len(file) \in Nat /\ DOMAIN file = 1..Len(file)
      /\ \A i \in DOMAIN file : file[i].n \in Nat /\ file[i].n # None
  <2>1. \A i \in DOMAIN file : file[i] \in Records
    BY DEF ChainInv, TypeInv, TypeOK, Lines
  <2>2. QED
    BY <2>1, BoundAssumption DEF ChainInv, TypeInv, TypeOK, Records, None
<1>2. \A i \in DOMAIN file : file[i].prev = IF i = 1 THEN None ELSE file[i - 1].n
  BY <1>1 DEF ChainInv, DiskInv, CorruptionVisible, Verifies, LinksTo
<1>3. \A i, j \in DOMAIN file : i < j => file[i].n < file[j].n
  BY DEF ChainInv, NumberInv
<1>4. \A i, j \in DOMAIN file : file[i].n = file[j].n => i = j
  <2> SUFFICES ASSUME NEW i \in DOMAIN file, NEW j \in DOMAIN file, i # j
               PROVE  file[i].n # file[j].n
    OBVIOUS
  <2>1. i < j \/ j < i
    BY <1>1
  <2>2. QED
    BY <1>1, <1>3, <2>1
<1>5. \A i \in DOMAIN file : i # 1 => i - 1 \in DOMAIN file
  BY <1>1
<1>6. \A i \in DOMAIN file : file[i].prev = None <=> i = 1
  BY <1>1, <1>2, <1>5
<1>7. ASSUME NEW i \in DOMAIN file, NEW j \in DOMAIN file
      PROVE  file[j].prev = file[i].n <=> j = i + 1
  <2>1. CASE j = 1
    BY <1>1, <1>2, <2>1
  <2>2. CASE j # 1
    <3>1. j - 1 \in DOMAIN file /\ file[j].prev = file[j - 1].n
      BY <1>2, <1>5, <2>2
    <3>2. file[j].prev = file[i].n <=> i = j - 1
      BY <1>4, <3>1
    <3>3. QED
      BY <1>1, <3>2
  <2>3. QED
    BY <2>1, <2>2
<1>8. QED
  BY <1>1, <1>5, <1>6, <1>7 DEF LinksTo

\* The least element of a set of numbers, for arguments by a first mistake.
LEMMA First ==
    ASSUME NEW T, T \subseteq Nat, T # {}
    PROVE  \E x \in T : \A y \in T : ~(y < x)
<1> DEFINE R == OpToRel(<, Nat)
<1>1. IsWellFoundedOn(R, Nat)
  BY NatLessThanWellFounded
<1>2. \A x, y \in Nat : <<y, x>> \in R <=> y < x
  BY DEF OpToRel
<1> HIDE DEF R
<1>3. PICK x \in T : \A y \in T : ~(<<y, x>> \in R)
  BY <1>1, WFMin
<1>4. QED
  BY <1>2, <1>3

LEMMA LengthOf ==
    ASSUME NEW S, NEW n \in Nat, NEW s \in [1..n -> S]
    PROVE  s \in Seq(S) /\ Len(s) = n
<1>1. s \in Seq(S)
  BY SeqDef
<1>2. 1..Len(s) = 1..n /\ Len(s) \in Nat
  BY <1>1, LenProperties
<1>3. QED
  BY <1>1, <1>2

\* Whatever lines are dropped, repeated or moved, verify_evidence_chain
\* accepts exactly the prefixes of an undamaged file, of any length.
THEOREM TamperingShows == Spec => []TamperEvident
<1>1. ChainInv => TamperEvident
  <2> SUFFICES ASSUME ChainInv, Junk \notin Lines, NEW n \in 0..(Len(file) + 1),
                      NEW order \in [1..n -> DOMAIN file]
               PROVE  Verifies([i \in 1..n |-> file[order[i]]]) <=> \A i \in 1..n : order[i] = i
    BY DEF TamperEvident
  <2> DEFINE s == [i \in 1..n |-> file[order[i]]]
  <2>1. n \in Nat /\ DOMAIN file = 1..Len(file) /\ Len(file) \in Nat
    BY OneLink
  <2>2. Len(s) = n /\ \A i \in 1..n : s[i] = file[order[i]]
    <3>1. s \in [1..n -> {file[i] : i \in DOMAIN file}]
      OBVIOUS
    <3> HIDE DEF s
    <3>2. Len(s) = n
      BY <2>1, <3>1, LengthOf
    <3>3. QED
      BY <3>2 DEF s
  <2> HIDE DEF s
  <2>3. Verifies(s) <=> \A i \in 1..n : IF i = 1 THEN order[i] = 1 ELSE order[i] = order[i - 1] + 1
    <3>1. \A i \in 1..n : i # 1 => i - 1 \in 1..n
      BY <2>1
    <3>2. ASSUME NEW i \in 1..n
          PROVE  (IF i = 1 THEN s[i].prev = None ELSE LinksTo(s[i], s[i - 1]))
                 <=> (IF i = 1 THEN order[i] = 1 ELSE order[i] = order[i - 1] + 1)
      <4>1. CASE i = 1
        BY <2>2, <4>1, OneLink
      <4>2. CASE i # 1
        BY <2>2, <3>1, <4>2, OneLink
      <4>3. QED
        BY <4>1, <4>2
    <3>3. QED
      BY <2>2, <3>2 DEF Verifies
  <2>4. ASSUME \A i \in 1..n : IF i = 1 THEN order[i] = 1 ELSE order[i] = order[i - 1] + 1
        PROVE  \A i \in 1..n : order[i] = i
    <3> DEFINE wrong == {i \in 1..n : order[i] # i}
    <3>1. wrong \subseteq Nat
      BY <2>1
    <3>2. ASSUME NEW x \in wrong, \A y \in wrong : ~(y < x) PROVE FALSE
      <4>1. x # 1
        BY <2>4
      <4>2. x - 1 \in 1..n /\ x - 1 < x
        BY <2>1, <4>1
      <4>3. order[x - 1] = x - 1
        BY <3>2, <4>2
      <4>4. order[x] = x
        BY <2>1, <2>4, <4>1, <4>3
      <4>5. QED
        BY <4>4
    <3> HIDE DEF wrong
    <3>3. wrong = {}
      BY <3>1, <3>2, First
    <3>4. QED
      BY <3>3 DEF wrong
  <2>5. ASSUME \A i \in 1..n : order[i] = i
        PROVE  \A i \in 1..n : IF i = 1 THEN order[i] = 1 ELSE order[i] = order[i - 1] + 1
    BY <2>1, <2>5
  <2>6. QED
    BY <2>3, <2>4, <2>5 DEF s
<1>2. QED
  BY <1>1, ChainSafe, PTL

-----------------------------------------------------------------------------
(* Slices.                                                                   *)

\* p lists the places of a set of numbers in increasing order.
Lists(p, n, found) ==
    /\ p \in [1..n -> found]
    /\ \A j, k \in 1..n : j < k => p[j] < p[k]
    /\ \A i \in found : \E k \in 1..n : p[k] = i

\* One more place behind all others.
LEMMA ListMore ==
    ASSUME NEW found, found \subseteq Nat, NEW n \in Nat, NEW p, Lists(p, n, found),
           NEW x \in Nat, \A i \in found : i < x
    PROVE  \E q : Lists(q, n + 1, found \union {x})
<1> DEFINE q == [k \in 1..(n + 1) |-> IF k = n + 1 THEN x ELSE p[k]]
<1>1. \A k \in 1..(n + 1) : k = n + 1 \/ k \in 1..n
  OBVIOUS
<1>2. /\ \A k \in 1..n : q[k] = p[k] /\ p[k] \in found /\ k \in 1..(n + 1)
      /\ q[n + 1] = x /\ n + 1 \in 1..(n + 1)
  BY DEF Lists
<1>3. q \in [1..(n + 1) -> found \union {x}]
  BY <1>1, <1>2
<1> HIDE DEF q
<1>4. ASSUME NEW j \in 1..(n + 1), NEW k \in 1..(n + 1), j < k PROVE q[j] < q[k]
  <2>1. j \in 1..n
    BY <1>4
  <2>2. CASE k = n + 1
    BY <1>2, <2>1, <2>2
  <2>3. CASE k \in 1..n
    BY <1>2, <1>4, <2>1, <2>3 DEF Lists
  <2>4. QED
    BY <1>1, <2>2, <2>3
<1>5. ASSUME NEW i \in found \union {x} PROVE \E k \in 1..(n + 1) : q[k] = i
  <2>1. CASE i = x
    BY <1>2, <2>1
  <2>2. CASE i \in found
    BY <1>2, <2>2 DEF Lists
  <2>3. QED
    BY <2>1, <2>2
<1>6. Lists(q, n + 1, found \union {x})
  BY <1>3, <1>4, <1>5 DEF Lists
<1>7. QED
  BY <1>6

Upto(found, k) == {i \in found : i <= k}
Listed(found, k) == \E n \in 0..k : \E p : Lists(p, n, Upto(found, k))

LEMMA UptoFacts ==
    ASSUME NEW found \in SUBSET Nat, NEW x \in Nat, 0 \notin found
    PROVE  /\ Upto(found, 0) = {}
           /\ x \in found => Upto(found, x) = Upto(found, x - 1) \union {x}
           /\ x \notin found => Upto(found, x) = Upto(found, x - 1)
           /\ Upto(found, x - 1) \subseteq Nat /\ \A i \in Upto(found, x - 1) : i < x
<1>1. Upto(found, 0) = {}
  <2> SUFFICES ASSUME NEW i \in found, i <= 0 PROVE FALSE
    BY DEF Upto
  <2>1. i \in Nat /\ i # 0
    OBVIOUS
  <2>2. QED
    BY <2>1
<1>2. \A i \in found : i <= x <=> i <= x - 1 \/ i = x
  <2> SUFFICES ASSUME NEW i \in found PROVE i <= x <=> i <= x - 1 \/ i = x
    OBVIOUS
  <2>1. i \in Nat
    OBVIOUS
  <2>2. QED
    BY <2>1
<1>3. \A i \in found : i <= x - 1 => i < x
  <2> SUFFICES ASSUME NEW i \in found, i <= x - 1 PROVE i < x
    OBVIOUS
  <2>1. i \in Nat
    OBVIOUS
  <2>2. QED
    BY <2>1
<1>4. QED
  BY <1>1, <1>2, <1>3 DEF Upto

\* The places of a sequence can be listed.
LEMMA ListExists ==
    ASSUME NEW m \in Nat, NEW found, found \subseteq 1..m
    PROVE  \E n \in 0..m : \E p : Lists(p, n, found)
<1> DEFINE wrong == {k \in 0..m : ~Listed(found, k)}
<1>0. found \in SUBSET Nat /\ 0 \notin found /\ \A i \in found : i <= m
  OBVIOUS
<1>1. wrong \subseteq Nat
  OBVIOUS
<1>2. Listed(found, 0)
  <2>1. Upto(found, 0) = {}
    BY <1>0, UptoFacts
  <2>2. Lists(<<>>, 0, {})
    BY DEF Lists
  <2>3. QED
    BY <2>1, <2>2, 0 \in 0..0 DEF Listed
<1>3. ASSUME NEW x \in 1..m, Listed(found, x - 1) PROVE Listed(found, x)
  <2>1. PICK n \in 0..(x - 1) : \E p : Lists(p, n, Upto(found, x - 1))
    BY <1>3 DEF Listed
  <2>2. PICK p : Lists(p, n, Upto(found, x - 1))
    BY <2>1
  <2>3. n \in 0..x /\ n + 1 \in 0..x /\ n \in Nat /\ x \in Nat
    OBVIOUS
  <2>4. CASE x \in found
    <3>1. Upto(found, x) = Upto(found, x - 1) \union {x}
      BY <1>0, <2>3, <2>4, UptoFacts
    <3>2. Upto(found, x - 1) \subseteq Nat /\ \A i \in Upto(found, x - 1) : i < x
      BY <1>0, <2>3, UptoFacts
    <3>3. \E q : Lists(q, n + 1, Upto(found, x - 1) \union {x})
      BY <2>2, <2>3, <3>2, ListMore
    <3>4. QED
      BY <2>3, <3>1, <3>3 DEF Listed
  <2>5. CASE x \notin found
    <3>1. Upto(found, x) = Upto(found, x - 1)
      BY <1>0, <2>3, <2>5, UptoFacts
    <3>2. QED
      BY <2>2, <2>3, <3>1 DEF Listed
  <2>6. QED
    BY <2>4, <2>5
<1>4. ASSUME NEW x \in wrong, \A y \in wrong : ~(y < x) PROVE FALSE
  <2>1. x \in 0..m /\ ~Listed(found, x)
    OBVIOUS
  <2>2. x \in 1..m /\ x - 1 \in 0..m /\ x - 1 < x
    <3>1. x # 0
      BY <1>2, <2>1
    <3>2. QED
      BY <2>1, <3>1
  <2>3. Listed(found, x - 1)
    BY <1>4, <2>2
  <2>4. QED
    BY <1>3, <2>1, <2>2, <2>3
<1>5. Listed(found, m)
  <2>1. wrong = {}
    <3> HIDE DEF wrong
    <3>1. QED
      BY <1>1, <1>4, First
  <2>2. QED
    BY <2>1
<1>6. Upto(found, m) = found
  BY <1>0 DEF Upto
<1>7. QED
  BY <1>5, <1>6 DEF Listed

\* The places of a decision's records.
LEMMA PlacesFacts ==
    ASSUME TypeInv, NEW did
    PROVE  \E n \in 0..Len(file) :
               Lists(Places(did), n, {i \in DOMAIN file : Matches(file[i], did)})
<1> DEFINE found == {i \in DOMAIN file : Matches(file[i], did)}
           Q(p) == /\ \A j, k \in DOMAIN p : j < k => p[j] < p[k]
                   /\ \A i \in found : \E k \in DOMAIN p : p[k] = i
           all == UNION {[1..n -> found] : n \in 0..Len(file)}
<1>1. Len(file) \in Nat /\ found \subseteq 1..Len(file)
  BY DEF TypeInv, TypeOK
<1>2. Places(did) = CHOOSE p \in all : Q(p)
  BY DEF Places
<1> HIDE DEF found
<1>3. PICK n \in 0..Len(file) : \E p : Lists(p, n, found)
  BY <1>1, ListExists
<1>4. PICK p : Lists(p, n, found)
  BY <1>3
<1>5. p \in all /\ Q(p)
  BY <1>4 DEF Lists
<1>6. Places(did) \in all /\ Q(Places(did))
  <2> HIDE DEF Q, all
  <2>1. QED
    BY <1>2, <1>5
<1>7. PICK m \in 0..Len(file) : Places(did) \in [1..m -> found]
  BY <1>6
<1>8. Lists(Places(did), m, found)
  BY <1>6, <1>7 DEF Lists
<1>9. QED
  BY <1>8 DEF found

InRow(p, n) == \A k \in 2..n : p[k] = p[k - 1] + 1
Together(found) == \A i, k \in found : \A j \in i..k : j \in found

\* Places that follow each other without a gap are those of a contiguous set.
LEMMA NoGap ==
    ASSUME NEW found, found \subseteq Nat, NEW n \in Nat, NEW p, Lists(p, n, found)
    PROVE  InRow(p, n) <=> Together(found)
<1>0. \A k \in 1..n : p[k] \in found /\ p[k] \in Nat
  BY DEF Lists
<1>1. ASSUME \A k \in 2..n : p[k] = p[k - 1] + 1, NEW i \in found, NEW k \in found,
             NEW j \in i..k
      PROVE  j \in found
  <2> DEFINE wrong == {x \in 1..n : p[x] # p[1] + x - 1}
  <2>1. wrong \subseteq Nat
    OBVIOUS
  <2>2. ASSUME NEW x \in wrong, \A y \in wrong : ~(y < x) PROVE FALSE
    <3>1. x # 1
      BY <1>0
    <3>2. x \in 2..n /\ x - 1 \in 1..n /\ x - 1 < x /\ 1 \in 1..n
      BY <3>1
    <3>3. p[x - 1] = p[1] + (x - 1) - 1 /\ p[x] = p[x - 1] + 1
      BY <1>1, <2>2, <3>2
    <3>4. p[1] \in Nat
      BY <1>0, <3>2
    <3>5. p[x] = p[1] + x - 1
      BY <3>2, <3>3, <3>4
    <3>6. QED
      BY <3>5
  <2>3. \A x \in 1..n : p[x] = p[1] + x - 1
    <3> HIDE DEF wrong
    <3>1. wrong = {}
      BY <2>1, <2>2, First
    <3>2. QED
      BY <3>1 DEF wrong
  <2>4. PICK a \in 1..n : p[a] = i
    BY DEF Lists
  <2>5. PICK b \in 1..n : p[b] = k
    BY DEF Lists
  <2>6. 1 \in 1..n /\ p[1] \in Nat /\ i = p[1] + a - 1 /\ k = p[1] + b - 1
    BY <1>0, <2>3, <2>4, <2>5
  <2>7. i \in Nat /\ k \in Nat /\ j \in Nat
    OBVIOUS
  <2>8. j - p[1] + 1 \in 1..n /\ j = p[1] + (j - p[1] + 1) - 1
    BY <2>4, <2>5, <2>6, <2>7
  <2>9. p[j - p[1] + 1] = j
    BY <2>3, <2>8
  <2>10. QED
    BY <1>0, <2>8, <2>9
<1>2. ASSUME \A i, k \in found : \A j \in i..k : j \in found, NEW k \in 2..n
      PROVE  p[k] = p[k - 1] + 1
  <2>1. k \in 1..n /\ k - 1 \in 1..n /\ k - 1 < k
    OBVIOUS
  <2>2. p[k] \in found /\ p[k] \in Nat /\ p[k - 1] \in found /\ p[k - 1] \in Nat
    BY <1>0, <2>1
  <2>3. p[k - 1] < p[k]
    BY <2>1 DEF Lists
  <2>4. ASSUME p[k - 1] + 1 < p[k] PROVE FALSE
    <3>1. p[k - 1] + 1 \in p[k - 1]..p[k]
      BY <2>2, <2>4
    <3>2. p[k - 1] + 1 \in found
      BY <1>2, <2>2, <3>1
    <3>3. PICK c \in 1..n : p[c] = p[k - 1] + 1
      BY <3>2 DEF Lists
    <3>4. ~(c < k - 1) /\ ~(k < c) /\ c # k /\ c # k - 1
      <4>1. c < k - 1 => p[c] < p[k - 1]
        BY <2>1 DEF Lists
      <4>2. k < c => p[k] < p[c]
        BY <2>1 DEF Lists
      <4>3. QED
        BY <2>2, <2>4, <3>3, <4>1, <4>2
    <3>5. QED
      BY <2>1, <3>4
  <2>5. QED
    BY <2>2, <2>3, <2>4
<1>3. QED
  BY <1>1, <1>2 DEF InRow, Together

\* build_slice_bundle exports a slice that verifies against its witness for
\* exactly the decisions whose records stand together, in a chain of any
\* length.
THEOREM SlicesAreExact == Spec => []SliceExact
<1>1. ChainInv => SliceExact
  <2> SUFFICES ASSUME ChainInv, Junk \notin Lines, NEW did \in Decisions, Slice(did) # <<>>
               PROVE  VerifiesSlice(Slice(did), Witness(did)) <=> Contiguous(did)
    BY DEF SliceExact
  <2> DEFINE found == {i \in DOMAIN file : Matches(file[i], did)}
             p == Places(did)
             s == Slice(did)
             first == CHOOSE i \in DOMAIN file :
                         /\ Matches(file[i], did)
                         /\ \A j \in 1..(i - 1) : ~Matches(file[j], did)
  <2>1. DOMAIN file = 1..Len(file) /\ Len(file) \in Nat /\ found \subseteq Nat
    BY OneLink
  <2>2. PICK n \in 0..Len(file) : Lists(p, n, found)
    BY PlacesFacts DEF ChainInv
  <2>3. n \in Nat /\ p \in [1..n -> found]
    BY <2>1, <2>2 DEF Lists
  <2>4. s = [k \in 1..n |-> file[p[k]]]
    BY <2>3 DEF Slice
  <2>5. Len(s) = n /\ \A k \in 1..n : s[k] = file[p[k]]
    <3>1. s \in [1..n -> {file[i] : i \in DOMAIN file}]
      BY <2>3, <2>4
    <3> HIDE DEF s
    <3>2. Len(s) = n
      BY <2>3, <3>1, LengthOf
    <3>3. QED
      BY <2>4, <3>2
  <2>6. 1 \in 1..n
    <3>1. s \in Seq({file[i] : i \in DOMAIN file})
      <4>1. s \in [1..n -> {file[i] : i \in DOMAIN file}]
        BY <2>3, <2>4
      <4> HIDE DEF s
      <4>2. QED
        BY <2>3, <4>1, LengthOf
    <3>2. n # 0
      <4> HIDE DEF s
      <4>1. s # <<>>
        BY DEF s
      <4>2. QED
        BY <2>5, <3>1, <4>1, EmptySeq
    <3>3. QED
      BY <2>3, <3>2
  <2>7. \A k \in 1..n : p[k] \in DOMAIN file /\ p[k] \in Nat /\ Matches(file[p[k]], did)
    BY <2>1, <2>3
  <2>8. first = p[1]
    <3>1. ASSUME NEW j \in 1..(p[1] - 1), Matches(file[j], did) PROVE FALSE
      <4>1. j \in found /\ j < p[1]
        BY <2>1, <2>6, <2>7, <3>1
      <4>2. PICK k \in 1..n : p[k] = j
        BY <2>2, <4>1 DEF Lists
      <4>3. k = 1 \/ 1 < k
        BY <2>3
      <4>4. QED
        BY <2>2, <2>6, <2>7, <4>1, <4>2, <4>3 DEF Lists
    <3>2. ASSUME NEW i \in DOMAIN file, Matches(file[i], did),
                 \A j \in 1..(i - 1) : ~Matches(file[j], did)
          PROVE  i = p[1]
      <4>1. ~(p[1] \in 1..(i - 1)) /\ ~(i \in 1..(p[1] - 1))
        BY <2>6, <2>7, <3>1, <3>2
      <4>2. QED
        BY <2>1, <2>6, <2>7, <4>1
    <3> HIDE DEF p
    <3>3. QED
      BY <2>6, <2>7, <3>1, <3>2
  <2>9. Witness(did) = IF p[1] = 1 THEN None ELSE file[p[1] - 1].n
    <3>1. Witness(did) = IF first = 1 THEN None ELSE file[first - 1].n
      BY DEF Witness
    <3> HIDE DEF first
    <3>2. QED
      BY <2>8, <3>1
  <2>10. LinksToWitness(s[1], Witness(did))
    <3>1. s[1] = file[p[1]] /\ p[1] \in DOMAIN file
      BY <2>5, <2>6, <2>7
    <3>2. CASE p[1] = 1
      BY <2>9, <3>1, <3>2, OneLink DEF LinksToWitness
    <3>3. CASE p[1] # 1
      <4>1. p[1] - 1 \in DOMAIN file /\ p[1] = (p[1] - 1) + 1
        BY <2>1, <3>1, <3>3
      <4>2. LinksTo(file[p[1]], file[p[1] - 1])
        BY <3>1, <4>1, OneLink
      <4>3. QED
        BY <2>9, <3>1, <3>3, <4>2 DEF LinksTo, LinksToWitness
    <3>4. QED
      BY <3>2, <3>3
  <2>11. VerifiesSlice(s, Witness(did)) <=> InRow(p, n)
    <3>1. ASSUME NEW k \in 2..n PROVE LinksTo(s[k], s[k - 1]) <=> p[k] = p[k - 1] + 1
      <4>1. k \in 1..n /\ k - 1 \in 1..n
        BY <2>3
      <4>2. QED
        BY <2>5, <2>7, <4>1, OneLink
    <3>2. QED
      BY <2>5, <2>10, <3>1 DEF VerifiesSlice, InRow
  <2>12. Contiguous(did) <=> Together(found)
    <3>1. ASSUME NEW i \in found, NEW k \in found, NEW j \in i..k PROVE j \in DOMAIN file
      BY <2>1
    <3>2. QED
      BY <3>1 DEF Contiguous, Together
  <2> HIDE DEF p, found
  <2>13. InRow(p, n) <=> Together(found)
    BY <2>1, <2>2, <2>3, NoGap
  <2>14. QED
    BY <2>11, <2>12, <2>13
<1>2. QED
  BY <1>1, ChainSafe, PTL
=============================================================================
