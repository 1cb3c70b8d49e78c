------------------------- MODULE CalibrationPromises -------------------------
(***************************************************************************)
(* The state of the policy store and of the loop that recalibrates the     *)
(* policy, and what they promise of it: which policy is in force, that a   *)
(* proposal is answered once, and how far the thresholds move.             *)
(* CalibrationLoop has the calls that change this state.                   *)
(***************************************************************************)
EXTENDS Integers, Sequences, SequencesExt, FiniteSets

CONSTANTS
    Evaluations,   \* bound: the evaluations of one behaviour
    MaxProposals,  \* bound: proposals drafted in one behaviour
    MaxBoots,      \* bound: starts of the process
    Budget         \* cumulative_budget, in units of one proposal's movement

ASSUME BoundAssumption ==
    MaxProposals \in Nat /\ MaxBoots \in Nat /\ Budget \in Nat

VARIABLES
    up,        \* the process runs
    boots,
    cached,    \* versions in _by_version
    actives,   \* the cached snapshots with is_active, in save order
    rows,      \* tex_policy_snapshots: the active flag in each stored config
    pgPolicy,  \* the policy store writes to Postgres
    proposals, \* cached proposals: [status, source]
    stored,    \* tex_calibration_proposals
    pgProp,    \* the proposal store writes to Postgres
    drafting,  \* per proposal: the source of a draft between guard and save
    applying,  \* per proposal: the next call of its apply_proposal
    moved,     \* movement the safety guard has recorded
    read,      \* per evaluation: the snapshot its request resolved to
    intended,  \* history: the version last put in force on purpose
    uses,      \* history: how often each proposal's policy was saved
    happened   \* history: what has gone wrong so far

-----------------------------------------------------------------------------

Props == 1..MaxProposals
Versions == 0..MaxProposals
NoVersion == -1

\* ProposalStatus; "NONE": no such proposal.
Statuses == {"NONE", "PENDING", "APPROVED", "REJECTED", "APPLIED",
             "ROLLED_BACK", "EXPIRED"}
Proposals == [status : Statuses, source : Versions]
NoProposal == [status |-> "NONE", source |-> 0]

\* get_active: the last saved of the active snapshots.
Active == IF actives = <<>> THEN NoVersion ELSE Last(actives)

-----------------------------------------------------------------------------

\* An apply that raised after approve: the proposal stays APPROVED.
FailedApply == \E p \in Props : proposals[p].status = "APPROVED" /\ applying[p] = "idle"

\* The policy in force (get_active) is the one that an operator, an apply or a
\* rollback last activated, or the one the process started with.  The only
\* exceptions: an apply is between its save and its activate or raised
\* there, an evaluation saved back a snapshot whose flag had changed since it
\* read it, a version the start did not load was read from the table, or the
\* process started with two active versions.
ActiveHolds ==
    up => \/ Active = intended
          \/ \E p \in Props : applying[p] = "activate"
          \/ FailedApply
          \/ happened \intersect {"stale save", "read back", "two active"} # {}

\* A proposal is answered once: its calibrated policy is saved at most once,
\* and never if it is REJECTED or EXPIRED, however often the process restarts,
\* unless a write of the proposal store was lost.  Every answer is taken from
\* PENDING under the store's lock and is stored before its effects.
AnsweredOnce ==
    \A p \in Props :
        \/ "lost write" \in happened
        \/ /\ uses[p] <= 1
           /\ {proposals[p].status, stored[p].status}
                  \intersect {"REJECTED", "EXPIRED"} # {} => uses[p] = 0

\* The calibrated policies of one window: how far the thresholds have moved.
Drift == Cardinality({p \in Props : uses[p] > 0})

\* Within one window the calibrated policies move a threshold by at most the
\* budget, as long as proposals are drafted and applied one after the other by
\* one process.  The exceptions: a proposal was approved while another one was
\* in progress, from the guard of its draft (feedback_loop.py:479) to the
\* commit of its movement; a guard was asked while an apply was in
\* progress; an apply raised and left its movement unrecorded; or a restart has
\* forgotten the record.
BudgetWhenSerial ==
    up => \/ Drift <= Budget
          \/ FailedApply
          \/ "overlap" \in happened
          \/ boots > 1
=============================================================================
