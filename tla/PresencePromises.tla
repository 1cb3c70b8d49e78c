-------------------------- MODULE PresencePromises --------------------------
(***************************************************************************)
(* The state of the standing watch over one tenant, and what it promises   *)
(* of it: that the drift events tell the last scan, that no agent is       *)
(* reported as gone too early, and when one is reported at all.            *)
(* PresenceWatch has the steps that change this state.                     *)
(***************************************************************************)
EXTENDS Integers, FiniteSets

CONSTANTS
    Keys,        \* reconciliation keys
    Surfaces,    \* what a connector reports of an agent: name, risk, tools...
    Loop,        \* the scheduler's thread
    Triggers,    \* request threads that call trigger_now
    Thresholds,  \* values of TEX_DISCOVERY_PRESENCE_THRESHOLD
    MaxCrashes   \* bound: crashes of the process

ASSUME ThresholdAssumption == Thresholds \subseteq Nat \ {0}
ASSUME CrashAssumption == MaxCrashes \in Nat

VARIABLES
    threshold,   \* _threshold
    estate,      \* what is really there, per key
    registered,  \* the surface the registry has, per key
    prior,       \* _last_seen_by_tenant of the tenant: a digest per key
    presence,    \* _records of the tracker
    table,       \* tex_presence_states
    durable,     \* ~_disabled of the tracker
    pc,          \* per thread: where its cycle is
    found,       \* per thread: the entries of its scan, a digest per key
    base,        \* per thread: the prior entries it compares with
    todo,        \* per thread: keys it has still to handle
    log,         \* the drift events of each key, read as what they say is there
    absent,      \* history: scans that missed the key since it was last found
    overlapped,  \* history: a scan was made while another cycle was open
    crashes      \* history: crashes so far

watchVars == <<threshold, estate, registered, prior, presence, table, durable, pc, found,
               base, todo, log, absent, overlapped, crashes>>

-----------------------------------------------------------------------------

Watchers == {Loop} \union Triggers
Nothing == "nothing"

\* The scan has no entry for the key.
NoEntry == [surface |-> Nothing, action |-> "none"]

-----------------------------------------------------------------------------

\* Between cycles the drift events, read from the first to the last, give the
\* entries of the last scan.  The exceptions are an agent the scan missed that
\* the tracker still counts as missing, what was forgotten by a restart, and
\* cycles that overlapped: trigger_now takes no lock, so two of them compare
\* with the same earlier scan and the later one overwrites the other's.
LogIsEstate ==
    ~overlapped /\ (\A t \in Watchers : pc[t] = "idle") => \A k \in Keys :
        \/ log[k] = prior[k]
        \/ prior[k] = NoEntry /\ presence[k].misses \in 1..(threshold - 1)
        \/ prior[k] = NoEntry /\ crashes > 0

\* "one flaky API response" (presence.py:5) raises no alarm: an agent is
\* reported as gone only if as many scans in a row as the threshold says have
\* missed it, unless cycles overlapped.
NoFalseAlarm ==
    [][\A k \in Keys : log[k] # NoEntry /\ log'[k] = NoEntry
           => overlapped \/ absent[k] >= threshold]_watchVars

\* Agent k was in the last scan, is gone for good, and neither a restart nor
\* an overlapping cycle comes between.
GoneForGood(k) ==
    /\ prior[k] # NoEntry
    /\ [](estate[k] = Nothing /\ crashes = MaxCrashes /\ ~overlapped)

\* With a threshold of one, set to "restore V15 behavior" (presence.py:34), an
\* agent that is gone for good is reported as gone.
GoneReportedAtOne ==
    \A k \in Keys : (threshold = 1 /\ GoneForGood(k)) ~> (log[k] = NoEntry)

\* "three consecutive missing scans cement disappearance" (presence.py:32):
\* whatever the threshold, an agent that is gone for good is reported as gone.
GoneReported == \A k \in Keys : GoneForGood(k) ~> (log[k] = NoEntry)
=============================================================================
