---------------------------- MODULE PresenceWatch ----------------------------
(***************************************************************************)
(* The standing watch over one tenant: BackgroundScanScheduler             *)
(* (src/src/tex/discovery/scheduler.py) scans, compares the entries with   *)
(* those of the scan before, and writes drift events; PresenceTracker      *)
(* (discovery/presence.py) counts consecutive misses, so that only an      *)
(* agent missed often enough is reported as gone.                          *)
(*                                                                         *)
(* A cycle runs in the scheduler's thread, and in a request thread for     *)
(* every call of trigger_now; nothing but the scan itself keeps two cycles *)
(* apart.  A scan is one step here (DiscoveryScan has its inside); a       *)
(* connector that fails leaves its agents out of the entries.  State and   *)
(* properties are declared in PresencePromises.                            *)
(***************************************************************************)
EXTENDS PresencePromises

-----------------------------------------------------------------------------

\* _entry_digest: what is compared between two scans.  Besides the surface it
\* has the action reconciliation took.
Digests == [surface : Surfaces, action : {"registered", "unchanged", "drift"}]
NoEntries == [k \in Keys |-> NoEntry]

Digest(k) ==
    [surface |-> estate[k],
     action |-> CASE registered[k] = Nothing   -> "registered"
                  [] registered[k] = estate[k] -> "unchanged"
                  [] OTHER                     -> "drift"]

States == {"present", "missing once", "missing twice", "disappeared"}
Records == [state : States, misses : Nat]
NoRecord == [state |-> "none", misses |-> 0]

Init ==
    /\ threshold \in Thresholds
    /\ estate \in [Keys -> Surfaces \union {Nothing}]
    /\ registered = [k \in Keys |-> Nothing]
    /\ prior = NoEntries
    /\ presence = [k \in Keys |-> NoRecord]
    /\ table = [k \in Keys |-> NoRecord]
    /\ durable \in BOOLEAN
    /\ pc = [t \in Watchers |-> "idle"]
    /\ found = [t \in Watchers |-> NoEntries]
    /\ base = [t \in Watchers |-> NoEntries]
    /\ todo = [t \in Watchers |-> {}]
    /\ log = NoEntries
    /\ absent = [k \in Keys |-> 0]
    /\ overlapped = FALSE
    /\ crashes = 0

\* Agents come, go and change.
Move(k, surface) ==
    /\ estate[k] # surface
    /\ estate' = [estate EXCEPT ![k] = surface]
    /\ UNCHANGED <<threshold, registered, prior, presence, table, durable, pc, found,
                   base, todo, log, absent, overlapped, crashes>>

\* absent is counted up to the largest threshold.
Counted(n) == IF \E h \in Thresholds : n < h THEN n + 1 ELSE n

\* A scan that came to its end; a refused or failed one changes nothing here.
Scan(t) ==
    /\ pc[t] = "idle"
    /\ \E seen \in SUBSET {k \in Keys : estate[k] # Nothing} :
          /\ found' = [found EXCEPT ![t] =
                          [k \in Keys |-> IF k \in seen THEN Digest(k) ELSE NoEntry]]
          /\ registered' = [k \in Keys |-> IF k \in seen THEN estate[k] ELSE registered[k]]
          /\ absent' = [k \in Keys |-> IF k \in seen THEN 0 ELSE Counted(absent[k])]
    /\ pc' = [pc EXCEPT ![t] = "scanned"]
    /\ overlapped' = (overlapped \/ \E u \in Watchers \ {t} : pc[u] # "idle")
    /\ UNCHANGED <<threshold, estate, prior, presence, table, durable, base, todo, log,
                   crashes>>

\* Mutant: a scan without entries is not compared.
CompareUnlessEmpty(t) ==
    /\ pc[t] = "scanned"
    /\ pc' = [pc EXCEPT ![t] = IF found[t] = NoEntries THEN "idle" ELSE "comparing"]
    /\ base' = [base EXCEPT ![t] = IF found[t] = NoEntries THEN NoEntries ELSE prior]
    /\ todo' = [todo EXCEPT ![t] = {k \in Keys : found[t][k] # NoEntry}]
    /\ UNCHANGED <<threshold, estate, registered, prior, presence, table, durable, found,
                   log, absent, overlapped, crashes>>

\* _emit_drift_events reads the entries of the scan before.
Compare(t) ==
    /\ pc[t] = "scanned"
    /\ pc' = [pc EXCEPT ![t] = "comparing"]
    /\ base' = [base EXCEPT ![t] = prior]
    /\ todo' = [todo EXCEPT ![t] =
                   {k \in Keys : found[t][k] # NoEntry \/ prior[k] # NoEntry}]
    /\ UNCHANGED <<threshold, estate, registered, prior, presence, table, durable, found,
                   log, absent, overlapped, crashes>>

\* The record is replaced in memory and, unless the write fails, in the table.
Record(k, rec) ==
    /\ presence' = [presence EXCEPT ![k] = rec]
    /\ \/ UNCHANGED table
       \/ durable /\ table' = [table EXCEPT ![k] = rec]

\* Mutant: only an agent the tracker has never seen is new.
FirstSeenEver(t, k) == presence[k] = NoRecord

\* The scan before did not have the key.
FirstSeen(t, k) == base[t][k] = NoEntry

\* _digests_equivalent.
Equivalent(a, b) == a = b

Done(t, k) == todo' = [todo EXCEPT ![t] = @ \ {k}]

\* An entry of the scan: observe_seen, then NEW_AGENT if the scan before did
\* not have the key, AGENT_CHANGED if its digest was another.
Seen(t, k) ==
    /\ pc[t] = "comparing" /\ k \in todo[t]
    /\ found[t][k] # NoEntry
    /\ Record(k, [state |-> "present", misses |-> 0])
    /\ log' = IF FirstSeen(t, k) \/ (base[t][k] # NoEntry /\ ~Equivalent(base[t][k], found[t][k]))
                THEN [log EXCEPT ![k] = found[t][k]] ELSE log
    /\ Done(t, k)
    /\ UNCHANGED <<threshold, estate, registered, prior, durable, pc, found, base, absent,
                   overlapped, crashes>>

\* Mutant: a miss too few.
ConfirmsEarly(misses) == misses + 1 >= threshold

\* observe_missing: the threshold is reached.
Confirms(misses) == misses >= threshold

\* observe_missing: the new state.
MissedState(misses) ==
    CASE Confirms(misses) -> "disappeared"
      [] ~Confirms(misses) /\ misses = 1 -> "missing once"
      [] OTHER -> "missing twice"

\* A key of the scan before that this one lacks, handled after the entries:
\* observe_missing, and AGENT_DISAPPEARED if the tracker just confirmed it.
Missed(t, k) ==
    LET misses == presence[k].misses + 1
        state == MissedState(misses)
    IN
    /\ pc[t] = "comparing" /\ k \in todo[t]
    /\ \A j \in todo[t] : found[t][j] = NoEntry
    /\ Record(k, [state |-> state, misses |-> misses])
    /\ log' = IF Confirms(misses) /\ presence[k].state # "disappeared"
                THEN [log EXCEPT ![k] = NoEntry] ELSE log
    /\ Done(t, k)
    /\ UNCHANGED <<threshold, estate, registered, prior, durable, pc, found, base, absent,
                   overlapped, crashes>>

\* The entries of this scan, and only these, are what the next compares with.
Finish(t) ==
    /\ pc[t] = "comparing" /\ todo[t] = {}
    /\ pc' = [pc EXCEPT ![t] = "idle"]
    /\ prior' = found[t]
    /\ found' = [found EXCEPT ![t] = NoEntries]
    /\ base' = [base EXCEPT ![t] = NoEntries]
    /\ UNCHANGED <<threshold, estate, registered, presence, table, durable, todo, log,
                   absent, overlapped, crashes>>

\* The process dies and starts again: the tracker loads its table, or goes on
\* in memory when it cannot; the scan before is forgotten.
Crash ==
    /\ crashes < MaxCrashes
    /\ crashes' = crashes + 1
    /\ threshold' \in Thresholds
    /\ prior' = NoEntries
    /\ \/ presence' = table /\ UNCHANGED durable
       \/ presence' = [k \in Keys |-> NoRecord] /\ durable' = FALSE
    /\ pc' = [t \in Watchers |-> "idle"]
    /\ found' = [t \in Watchers |-> NoEntries]
    /\ base' = [t \in Watchers |-> NoEntries]
    /\ todo' = [t \in Watchers |-> {}]
    /\ UNCHANGED <<estate, registered, table, log, absent, overlapped>>

\* A cycle after its scan.
Step(t) == Compare(t) \/ (\E k \in Keys : Seen(t, k) \/ Missed(t, k)) \/ Finish(t)

Next ==
    \/ \E k \in Keys, surface \in Surfaces \union {Nothing} : Move(k, surface)
    \/ \E t \in Watchers : Scan(t) \/ Step(t)
    \/ Crash

Spec == Init /\ [][Next]_watchVars

\* The scheduler's thread never stops scanning; a thread in a cycle goes on.
FairSpec ==
    /\ Spec
    /\ WF_watchVars(Scan(Loop))
    /\ \A t \in Watchers : WF_watchVars(Step(t))

-----------------------------------------------------------------------------

\* Shapes of the variables.
TypeOK ==
    /\ threshold \in Thresholds
    /\ estate \in [Keys -> Surfaces \union {Nothing}]
    /\ registered \in [Keys -> Surfaces \union {Nothing}]
    /\ prior \in [Keys -> Digests \union {NoEntry}]
    /\ presence \in [Keys -> Records \union {NoRecord}]
    /\ table \in [Keys -> Records \union {NoRecord}]
    /\ durable \in BOOLEAN
    /\ pc \in [Watchers -> {"idle", "scanned", "comparing"}]
    /\ found \in [Watchers -> [Keys -> Digests \union {NoEntry}]]
    /\ base \in [Watchers -> [Keys -> Digests \union {NoEntry}]]
    /\ todo \in [Watchers -> SUBSET Keys]
    /\ log \in [Keys -> Digests \union {NoEntry}]
    /\ absent \in [Keys -> Nat]
    /\ overlapped \in BOOLEAN
    /\ crashes \in 0..MaxCrashes

-----------------------------------------------------------------------------
(* What the proofs need besides: an inductive invariant.                   *)

Present == [state |-> "present", misses |-> 0]

\* The drift events of k lead to the entry e, up to the exceptions of
\* LogIsEstate.
Tells(k, e) ==
    \/ log[k] = e
    \/ e = NoEntry /\ presence[k].misses \in 1..(threshold - 1)
    \/ e = NoEntry /\ crashes > 0

\* Without an overlap one cycle at most is open.  An agent of the scan before
\* is present in the tracker until the open cycle has missed it, so a miss is
\* always the first; the events tell the scan before for the keys the cycle has
\* still to handle, and its own entries for the others.
CycleInv ==
    /\ \A t, u \in Watchers : pc[t] # "idle" /\ pc[u] # "idle" => t = u
    /\ \A k \in Keys : prior[k] # NoEntry =>
          \/ presence[k] = Present
          \/ \E t \in Watchers : pc[t] = "comparing" /\ k \notin todo[t]
    /\ \A t \in Watchers, k \in Keys : pc[t] # "idle" =>
          /\ found[t][k] = NoEntry => absent[k] >= 1
          /\ pc[t] = "scanned" \/ k \in todo[t] => Tells(k, prior[k])
    /\ \A t \in Watchers, k \in Keys : pc[t] = "comparing" =>
          /\ base[t] = prior
          /\ k \in todo[t] => found[t][k] # NoEntry \/ prior[k] # NoEntry
          /\ k \notin todo[t] => /\ Tells(k, found[t][k])
                                 /\ found[t][k] # NoEntry => presence[k] = Present
    /\ (\A t \in Watchers : pc[t] = "idle") => \A k \in Keys : Tells(k, prior[k])

WatchInv == overlapped \/ CycleInv
=============================================================================
