--------------------------- MODULE CalibrationLoop ---------------------------
(***************************************************************************)
(* The policy in force and the loop that recalibrates it.                  *)
(*                                                                         *)
(*   stores/policy_store.py           versions in save order, active flags *)
(*   memory/policy_snapshot_store.py  the same, written through            *)
(*   stores/calibration_proposal_store.py   proposals and their life cycle *)
(*   learning/feedback_loop.py        draft, apply, reject, roll back      *)
(*   learning/calibration_safety.py   the movement budget                  *)
(*   commands/evaluate_action.py      evaluations, which read the policy   *)
(*                                    and save it again with the decision  *)
(*                                                                         *)
(* Version 0 is the seeded default policy; proposal p makes version p of   *)
(* the same policy_id.  A proposal moves a threshold by one unit and a     *)
(* behaviour is one 24 h budget window, in which the guard's min_interval  *)
(* may pass at any time.  propose and apply_proposal run their calls one   *)
(* by one, so other calls come between them.  State and properties are     *)
(* declared in CalibrationPromises.                                        *)
(***************************************************************************)
EXTENDS CalibrationPromises

vars == <<up, boots, cached, actives, rows, pgPolicy, proposals, stored,
          pgProp, drafting, applying, moved, read, intended, uses, happened>>

policyVars == <<cached, actives, rows, pgPolicy>>
proposalVars == <<proposals, stored, pgProp>>

-----------------------------------------------------------------------------

\* A PolicySnapshot.
Snapshots == [version : Versions, active : BOOLEAN]
NoSnapshot == [version |-> NoVersion, active |-> FALSE]
Done == [version |-> NoVersion, active |-> TRUE]

\* The calls of apply_proposal after approve; "idle": not inside it.
Steps == {"idle", "save", "activate", "commit", "mark"}

\* What went wrong since the process started, and what a restart keeps.
Faults == {"stale save", "read back", "two active", "overlap", "lost write",
           "degraded"}
Lasting == {"lost write", "degraded"}

If(condition, fault) == IF condition THEN {fault} ELSE {}

-----------------------------------------------------------------------------
(* The policy store.  The order of inactive snapshots decides nothing: one  *)
(* becomes active either alone (activate) or as the last (save).            *)

IsActive(v) == \E i \in DOMAIN actives : actives[i] = v

\* InMemoryPolicyStore.save: the snapshot replaces the one of its version
\* and becomes the last in order.
Saved(acts, s) ==
    LET others == RemoveFirst(acts, s.version)
    IN  IF s.active THEN Append(others, s.version) ELSE others

\* Mutant: the other versions stay active.
ActivatedOnly(v) == Saved(actives, [version |-> v, active |-> TRUE])

\* InMemoryPolicyStore.activate.
Activated(v) == <<v>>

\* DurablePolicyStore.activate succeeds; the stored config is not rewritten.
Activate(v) ==
    /\ v \in cached
    /\ pgPolicy => rows[v] # "none"
    /\ actives' = Activated(v)
    /\ UNCHANGED <<cached, rows, pgPolicy>>

\* DurablePolicyStore.require: a version that is not cached is read from the
\* table and cached.
Available(v) == v \in cached \/ (pgPolicy /\ rows[v] # "none")

StoredSnapshot(v) == [version |-> v, active |-> rows[v] = "on"]

ReadThrough(v) ==
    IF v \in cached THEN actives ELSE Saved(actives, StoredSnapshot(v))

\* _write_postgres: the stored config takes the flag of the snapshot.
RowsWith(s) ==
    [rows EXCEPT ![s.version] = IF s.active THEN "on" ELSE "off"]

Default == [version |-> 0, active |-> TRUE]

\* _hydrate_cache: the stored snapshots ordered by created_at, which a
\* calibrated policy takes from its source.
Hydrate ==
    /\ cached' = {v \in Versions : rows[v] # "none"}
    /\ actives' \in SetToSeqs({v \in Versions : rows[v] = "on"})
    /\ UNCHANGED rows

\* _seed_default_policies: the default policy is saved unless it is there.
Seed ==
    /\ cached' = {0}
    /\ actives' = <<0>>
    /\ rows' = IF pgPolicy' THEN RowsWith(Default) ELSE rows

Init ==
    /\ up = FALSE
    /\ boots = 0
    /\ cached = {}
    /\ actives = <<>>
    /\ rows = [v \in Versions |-> "none"]
    /\ pgPolicy = FALSE
    /\ proposals = [p \in Props |-> NoProposal]
    /\ stored = [p \in Props |-> NoProposal]
    /\ pgProp = FALSE
    /\ drafting = [p \in Props |-> NoVersion]
    /\ applying = [p \in Props |-> "idle"]
    /\ moved = 0
    /\ read = [e \in Evaluations |-> NoSnapshot]
    /\ intended = 0
    /\ uses = [p \in Props |-> 0]
    /\ happened = {}

\* The process starts.  Each store reads its table or falls back to an empty
\* cache; the policy store may do so and keep writing to Postgres.
Boot ==
    /\ ~up
    /\ boots < MaxBoots
    /\ up' = TRUE
    /\ boots' = boots + 1
    /\ pgPolicy' \in BOOLEAN
    /\ Seed \/ (pgPolicy' /\ rows[0] # "none" /\ Hydrate)
    /\ pgProp' \in BOOLEAN
    /\ proposals' = IF pgProp' THEN stored ELSE [p \in Props |-> NoProposal]
    /\ intended' = Active'
    /\ happened' = (happened \intersect Lasting)
           \union If(~pgPolicy', "degraded")
           \union If(Len(actives') > 1, "two active")
    /\ UNCHANGED <<stored, drafting, applying, moved, read, uses>>

\* The process stops; what it kept in memory is gone.
Crash ==
    /\ up
    /\ up' = FALSE
    /\ cached' = {}
    /\ actives' = <<>>
    /\ proposals' = [p \in Props |-> NoProposal]
    /\ drafting' = [p \in Props |-> NoVersion]
    /\ applying' = [p \in Props |-> "idle"]
    /\ moved' = 0
    /\ read' = [e \in Evaluations |-> IF read[e] = NoSnapshot THEN NoSnapshot
                                                             ELSE Done]
    /\ UNCHANGED <<boots, rows, pgPolicy, stored, pgProp, intended, uses,
                   happened>>

-----------------------------------------------------------------------------
(* Proposals.                                                              *)


\* A change of the cached proposals, written through unless the write fails:
\* save and _persist_transition log the error and go on.  (Bound: one lost
\* write in a behaviour.)
Put(ps, faults) ==
    /\ proposals' = ps
    /\ \/ /\ pgProp
          /\ stored' = [p \in Props |-> IF ps[p] # proposals[p] THEN ps[p]
                                                                ELSE stored[p]]
          /\ happened' = happened \union faults
       \/ /\ UNCHANGED stored
          /\ pgProp => "lost write" \notin happened
          /\ happened' = happened \union faults \union If(pgProp, "lost write")
    /\ UNCHANGED pgProp

Move(p, status, faults) ==
    Put([proposals EXCEPT ![p].status = status], faults)

\* Mutant: the movement of the draft itself is not counted.
AllowedAtLimit == moved <= Budget

\* CalibrationSafetyGuard.evaluate: the budget.
Allowed == moved + 1 <= Budget

\* Applies whose movement is not recorded yet.
Moving == {p \in Props : applying[p] \in {"save", "activate", "commit"}}

\* Proposals that may still move a threshold without being recorded.
InFlight ==
    Moving \union {p \in Props : \/ proposals[p].status = "PENDING"
                                 \/ drafting[p] # NoVersion}

\* No proposal has this number yet.
Fresh == {p \in Props : /\ uses[p] = 0
                        /\ proposals[p] = NoProposal
                        /\ stored[p] = NoProposal
                        /\ drafting[p] = NoVersion}

\* propose: resolve the source and ask the safety guard.
Draft(v) ==
    \E p \in Fresh :
        /\ up
        /\ \A q \in Fresh : p <= q
        /\ Available(v)
        /\ Allowed
        /\ actives' = ReadThrough(v)
        /\ cached' = cached \union {v}
        /\ drafting' = [drafting EXCEPT ![p] = v]
        /\ happened' = happened
               \union If(Moving # {}, "overlap")
               \union If(v \notin cached, "read back")
        /\ UNCHANGED <<up, boots, rows, pgPolicy, proposalVars, applying, moved,
                       read, intended, uses>>

\* propose: no movement is left, or the off-policy bound refuses.
Abandon(p) ==
    /\ drafting[p] # NoVersion
    /\ drafting' = [drafting EXCEPT ![p] = NoVersion]
    /\ UNCHANGED <<up, boots, policyVars, proposalVars, applying, moved, read,
                   intended, uses, happened>>

\* CalibrationTrigger._supersede_existing: the trigger's draft replaces the
\* pending ones of its source; an operator's draft replaces none.
Superseded(v) ==
    {p \in Props : proposals[p].status = "PENDING" /\ proposals[p].source = v}

\* propose: save, after replay and off-policy evaluation; the guard is not
\* asked again.  The trigger then expires what the draft replaces, unless it
\* was answered by then, which is as if it was answered before the save.
Propose(p, old) ==
    /\ drafting[p] # NoVersion
    /\ Put([q \in Props |->
               IF q = p THEN [status |-> "PENDING", source |-> drafting[p]]
               ELSE IF q \in old THEN [proposals[q] EXCEPT !.status = "EXPIRED"]
               ELSE proposals[q]], {})
    /\ drafting' = [drafting EXCEPT ![p] = NoVersion]
    /\ UNCHANGED <<up, boots, policyVars, applying, moved, read, intended, uses>>

\* reject_proposal.
Reject(p) ==
    /\ up
    /\ proposals[p].status = "PENDING"
    /\ Move(p, "REJECTED", {})
    /\ UNCHANGED <<up, boots, policyVars, drafting, applying, moved, read,
                   intended, uses>>

\* Mutant: the approval is not written through.
ApproveCached(p) ==
    /\ up
    /\ proposals[p].status = "PENDING"
    /\ proposals' = [proposals EXCEPT ![p].status = "APPROVED"]
    /\ applying' = [applying EXCEPT ![p] = "save"]
    /\ UNCHANGED <<up, boots, policyVars, stored, pgProp, drafting, moved, read,
                   intended, uses, happened>>

\* apply_proposal: approve.
Approve(p) ==
    /\ up
    /\ proposals[p].status = "PENDING"
    /\ Move(p, "APPROVED", If(InFlight \ {p} # {}, "overlap"))
    /\ applying' = [applying EXCEPT ![p] = "save"]
    /\ UNCHANGED <<up, boots, policyVars, drafting, moved, read, intended, uses>>

\* apply_proposal: require the source, save the calibrated policy, already
\* flagged active.
ApplySave(p) ==
    LET s == [version |-> p, active |-> TRUE] IN
    /\ applying[p] = "save"
    /\ Available(proposals[p].source)
    /\ actives' = Saved(ReadThrough(proposals[p].source), s)
    /\ cached' = cached \union {proposals[p].source, p}
    /\ rows' = IF pgPolicy THEN RowsWith(s) ELSE rows
    /\ uses' = [uses EXCEPT ![p] = @ + 1]
    /\ applying' = [applying EXCEPT ![p] = "activate"]
    /\ happened' = happened
           \union If(proposals[p].source \notin cached, "read back")
    /\ UNCHANGED <<up, boots, pgPolicy, proposalVars, drafting, moved, read,
                   intended>>

\* apply_proposal: activate.
ApplyActivate(p) ==
    /\ applying[p] = "activate"
    /\ Activate(p)
    /\ intended' = p
    /\ applying' = [applying EXCEPT ![p] = "commit"]
    /\ UNCHANGED <<up, boots, proposalVars, drafting, moved, read, uses,
                   happened>>

\* apply_proposal: CalibrationSafetyGuard.commit.
ApplyCommit(p) ==
    /\ applying[p] = "commit"
    /\ moved' = moved + 1
    /\ applying' = [applying EXCEPT ![p] = "mark"]
    /\ UNCHANGED <<up, boots, policyVars, proposalVars, drafting, read, intended,
                   uses, happened>>

\* apply_proposal: mark_applied.
ApplyMark(p) ==
    /\ applying[p] = "mark"
    /\ proposals[p].status = "APPROVED"
    /\ Move(p, "APPLIED", {})
    /\ applying' = [applying EXCEPT ![p] = "idle"]
    /\ UNCHANGED <<up, boots, policyVars, drafting, moved, read, intended, uses>>

\* apply_proposal raises: the source is gone, or Postgres fails while the
\* policy is saved (and perhaps stored) or activated.  Nothing is undone and
\* the proposal stays APPROVED.
ApplyFails(p) ==
    /\ applying[p] \in {"save", "activate"}
    /\ \/ applying[p] = "save" /\ ~Available(proposals[p].source)
       \/ pgPolicy
    /\ \/ rows' = rows /\ uses' = uses
       \/ /\ applying[p] = "save"
          /\ pgPolicy
          /\ rows' = RowsWith([version |-> p, active |-> TRUE])
          /\ uses' = [uses EXCEPT ![p] = @ + 1]
    /\ applying' = [applying EXCEPT ![p] = "idle"]
    /\ UNCHANGED <<up, boots, cached, actives, pgPolicy, proposalVars, drafting,
                   moved, read, intended, happened>>

\* A rollback target is set by mark_applied and never cleared.
HasTarget(p) == proposals[p].status \in {"APPLIED", "ROLLED_BACK"}

\* rollback_proposal: the source is activated first; a proposal that is
\* already rolled back is refused only after that.
Rollback(p) ==
    /\ up
    /\ HasTarget(p)
    /\ Activate(proposals[p].source)
    /\ intended' = proposals[p].source
    /\ IF proposals[p].status = "APPLIED"
       THEN Move(p, "ROLLED_BACK", {})
       ELSE UNCHANGED <<proposalVars, happened>>
    /\ UNCHANGED <<up, boots, drafting, applying, moved, read, uses>>

\* ActivatePolicyCommand.
ActivatePolicy(v) ==
    /\ up
    /\ Activate(v)
    /\ intended' = v
    /\ UNCHANGED <<up, boots, proposalVars, drafting, applying, moved, read,
                   uses, happened>>

-----------------------------------------------------------------------------
(* Evaluations.                                                            *)

\* _resolve_policy: the active policy, or the version the request names.
Resolve(e) ==
    \E v \in Versions :
        /\ up
        /\ read[e] = NoSnapshot
        /\ Available(v)
        /\ actives' = ReadThrough(v)
        /\ cached' = cached \union {v}
        /\ read' = [read EXCEPT ![e] = [version |-> v, active |-> IsActive(v)']]
        /\ happened' = happened \union If(v \notin cached, "read back")
        /\ UNCHANGED <<up, boots, rows, pgPolicy, proposalVars, drafting,
                       applying, moved, intended, uses>>

\* The cached snapshot is no longer the one the evaluation read.
Stale(s) == IsActive(s.version) # s.active

\* record_decision_with_policy saves the snapshot that was read.  save_in_tx
\* puts it in the cache before the transaction commits; when the transaction
\* fails, the lenient mode leaves Postgres and saves it all the same.  (An
\* evaluation that raises before this never takes the step.)
SavePolicy(e) ==
    /\ read[e] \in Snapshots
    /\ actives' = Saved(actives, read[e])
    /\ cached' = cached \union {read[e].version}
    /\ \/ pgPolicy /\ rows' = RowsWith(read[e]) /\ pgPolicy' = pgPolicy
       \/ rows' = rows /\ pgPolicy' \in {pgPolicy, FALSE}
    /\ happened' = happened
           \union If(Stale(read[e]), "stale save")
           \union If(~pgPolicy', "degraded")
    /\ read' = [read EXCEPT ![e] = Done]
    /\ UNCHANGED <<up, boots, proposalVars, drafting, applying, moved, intended,
                   uses>>

-----------------------------------------------------------------------------

Next ==
    \/ Boot
    \/ Crash
    \/ \E v \in Versions : Draft(v) \/ ActivatePolicy(v)
    \/ \E p \in Props :
          \/ Abandon(p) \/ Propose(p, {}) \/ Propose(p, Superseded(drafting[p]))
          \/ Reject(p) \/ Approve(p) \/ Rollback(p)
          \/ ApplySave(p) \/ ApplyActivate(p) \/ ApplyCommit(p) \/ ApplyMark(p)
          \/ ApplyFails(p)
    \/ \E e \in Evaluations : Resolve(e) \/ SavePolicy(e)

Spec == Init /\ [][Next]_vars

-----------------------------------------------------------------------------
(* Properties.                                                             *)

\* Every variable has its type; a version is cached at most once.
TypeOK ==
    /\ up \in BOOLEAN
    /\ boots \in 0..MaxBoots
    /\ cached \subseteq Versions
    /\ actives \in Seq(cached)
    /\ \A i, j \in DOMAIN actives : actives[i] = actives[j] => i = j
    /\ rows \in [Versions -> {"none", "on", "off"}]
    /\ pgPolicy \in BOOLEAN
    /\ proposals \in [Props -> Proposals]
    /\ stored \in [Props -> Proposals]
    /\ pgProp \in BOOLEAN
    /\ drafting \in [Props -> Versions \union {NoVersion}]
    /\ applying \in [Props -> Steps]
    /\ moved \in Nat
    /\ read \in [Evaluations -> Snapshots \union {NoSnapshot, Done}]
    /\ intended \in Versions \union {NoVersion}
    /\ uses \in [Props -> Nat]
    /\ happened \subseteq Faults

-----------------------------------------------------------------------------
(* What the proofs need besides: the inductive invariants.                 *)

\* An apply runs in a process that is up, and its proposal stays APPROVED.
ApplyInv ==
    \A p \in Props : applying[p] # "idle" => up /\ proposals[p].status = "APPROVED"

\* So does a draft, and no proposal has its number.
DraftInv ==
    \A p \in Props : drafting[p] # NoVersion =>
        up /\ uses[p] = 0 /\ proposals[p] = NoProposal /\ stored[p] = NoProposal

\* ActiveHolds, with nothing active but the policy in force.
ActiveInv ==
    up => \/ actives = <<>> /\ intended = NoVersion
          \/ actives = <<intended>>
          \/ \E p \in Props : applying[p] = "activate"
          \/ FailedApply
          \/ happened \intersect {"stale save", "read back", "two active"} # {}

Unapproved == {"PENDING", "REJECTED", "EXPIRED"}

\* A proposal that was not approved, as the cache or as the table has it, or
\* that was only just approved, has not been used; cache and table agree, or
\* have no proposal in common.
AnswerInv ==
    \/ "lost write" \in happened
    \/ /\ \A p \in Props :
             /\ uses[p] <= 1
             /\ applying[p] = "save" => uses[p] = 0
             /\ proposals[p].status \in Unapproved => uses[p] = 0
             /\ stored[p].status \in Unapproved => uses[p] = 0
       /\ up /\ pgProp => proposals = stored
       /\ up /\ ~pgProp => \A p \in Props : proposals[p] # NoProposal => stored[p] = NoProposal

\* Applies whose policy is saved and whose movement is not recorded.
Unrecorded == {p \in Props : applying[p] \in {"activate", "commit"}}

\* One apply at a time and nothing beside it: the budget has room for each
\* proposal in flight, and what has moved is recorded but for the movement of
\* the one that is being applied.
Serial ==
    /\ \A p \in Moving : InFlight = {p}
    /\ InFlight # {} => moved + 1 <= Budget
    /\ moved <= Budget
    /\ Drift <= moved + (IF Unrecorded = {} THEN 0 ELSE 1)

\* Before the first start nothing has happened; in the first process either
\* one of the exceptions of BudgetWhenSerial holds or proposals are serial.
BudgetInv ==
    /\ boots = 0 => /\ ~up /\ moved = 0
                    /\ \A p \in Props : uses[p] = 0 /\ stored[p] = NoProposal
    /\ up => \/ Serial
             \/ FailedApply
             \/ "overlap" \in happened
             \/ boots > 1
=============================================================================
