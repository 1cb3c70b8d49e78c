--------------------------- MODULE DecisionService ---------------------------
(***************************************************************************)
(* What MemorySystem (src/src/tex/memory/system.py) promises its callers,  *)
(* whatever becomes of the database: a request works, leaves its record in *)
(* an evidence trail once, and is answered after that or not at all.       *)
(* DecisionMemory implements it.                                           *)
(***************************************************************************)
EXTENDS Integers, Sequences

CONSTANT Requests

VARIABLES
    trail,  \* the evidence records, oldest first
    phase   \* per request: "new", "working", "answered", "failed"

svars == <<trail, phase>>

InTrail(r) == \E i \in DOMAIN trail : trail[i] = r

Init ==
    /\ trail = <<>>
    /\ phase = [r \in Requests |-> "new"]

Start(r) ==
    /\ phase[r] = "new"
    /\ phase' = [phase EXCEPT ![r] = "working"]
    /\ UNCHANGED trail

\* The record is written once and nothing before it is touched.
Record(r) ==
    /\ phase[r] = "working"
    /\ ~InTrail(r)
    /\ trail' = Append(trail, r)
    /\ UNCHANGED phase

\* Only a recorded request is answered.
Answer(r) ==
    /\ phase[r] = "working"
    /\ InTrail(r)
    /\ phase' = [phase EXCEPT ![r] = "answered"]
    /\ UNCHANGED trail

\* An error ends one request, be it the first thing that happens to it, and a
\* crash all that are working, recorded or not.
Fail(rs) ==
    /\ \A r \in rs : phase[r] \in {"new", "working"}
    /\ phase' = [r \in Requests |-> IF r \in rs THEN "failed" ELSE phase[r]]
    /\ UNCHANGED trail

Next ==
    \/ \E r \in Requests : Start(r) \/ Record(r) \/ Answer(r)
    \/ \E rs \in SUBSET Requests : Fail(rs)

Spec == Init /\ [][Next]_svars
=============================================================================
