----------------------- MODULE EnforcementPointProofs -----------------------
(***************************************************************************)
(* Proofs about the enforcement point, for any number of requests,         *)
(* redemptions, processes and restarts.  A step of a request concerns its  *)
(* own permit and credential only (Local), so each invariant is shown for  *)
(* the request that moves, and carried over for the others.                *)
(***************************************************************************)
EXTENDS EnforcementPoint, TLAPS

-----------------------------------------------------------------------------
(* Records of the store.                                                   *)

LEMMA IdFacts ==
    /\ \A r \in Requests : Permit(r) \in Ids /\ Credential(r) \in Ids
    /\ \A r, x \in Requests : Permit(r) # Credential(x)
    /\ \A r, x \in Requests : Permit(r) = Permit(x) => r = x
    /\ \A r, x \in Requests : Credential(r) = Credential(x) => r = x
BY IdsAssumption DEF Permit, Credential

\* Only record k of the store may change.
Local(k) ==
    /\ pg' = pg
    /\ \A j \in Ids \ {k} : rows'[j] = rows[j]
    /\ \A p \in Procs, j \in Ids \ {k} : cache'[p][j] = cache[p][j]

\* A mark, once made, stays.
Keeps(k) ==
    /\ rows[k] \subseteq rows'[k]
    /\ \A p \in Procs : cache[p][k] \subseteq cache'[p][k]

LEMMA IssueStore ==
    ASSUME StoreType, NEW p \in Procs, NEW k \in Ids,
           Issue(p, k) \/ IssueFails(p, k)
    PROVE  StoreType' /\ Local(k)
<1>1. {"issued"} \in SUBSET Marks
  BY DEF Marks
<1>2. CASE Issue(p, k)
  <2>1. rows' \in {rows, [rows EXCEPT ![k] = {"issued"}]} /\ pg' = pg
    BY <1>2 DEF Issue
  <2>2. cache' = [cache EXCEPT ![p][k] = {"issued"}]
    BY <1>2 DEF Issue
  <2>3. QED
    BY <1>1, <2>1, <2>2 DEF StoreType, Local
<1>3. CASE IssueFails(p, k)
  BY <1>1, <1>3 DEF StoreType, IssueFails, Local
<1>4. QED
  BY <1>2, <1>3

LEMMA ConsumeStore ==
    ASSUME StoreType, NEW p \in Procs, NEW k \in Ids, Consume(p, k)
    PROVE  /\ StoreType' /\ Local(k) /\ Keeps(k)
           /\ "consumed" \in cache'[p][k]
           /\ \A q \in Procs \ {p} : cache'[q][k] = cache[q][k]
BY DEF StoreType, Consume, Local, Keeps, Marks, Nothing

LEMMA ConsumeFailsStore ==
    ASSUME StoreType, NEW p \in Procs, NEW k \in Ids, ConsumeFails(p, k)
    PROVE  StoreType' /\ Local(k) /\ Keeps(k) /\ cache' = cache
BY DEF StoreType, ConsumeFails, Local, Keeps, Marks, Nothing

LEMMA RevokeStore ==
    ASSUME StoreType, NEW p \in Procs, NEW k \in Ids, Revoke(p, k)
    PROVE  /\ StoreType' /\ Local(k) /\ Keeps(k)
           /\ "revoked" \in cache'[p][k]
           /\ \A q \in Procs \ {p} : cache'[q][k] = cache[q][k]
BY DEF StoreType, Revoke, Local, Keeps, Marks, Nothing

LEMMA RevokeFailsStore ==
    ASSUME StoreType, NEW p \in Procs, NEW k \in Ids, RevokeFails(p, k)
    PROVE  StoreType' /\ Local(k) /\ Keeps(k) /\ cache' = cache
BY DEF StoreType, RevokeFails, Local, Keeps, Marks, Nothing

LEMMA RestartStore ==
    ASSUME StoreType, NEW p \in Procs, Restart(p)
    PROVE  /\ StoreType' /\ rows' = rows
           /\ \A q \in Procs \ {p} : cache'[q] = cache[q]
           /\ cache'[p] = rows \/ cache'[p] = [k \in Ids |-> Nothing]
BY DEF StoreType, Restart, Marks, Nothing

LEMMA SameStore ==
    ASSUME StoreType, UNCHANGED storeVars
    PROVE  StoreType' /\ rows' = rows /\ cache' = cache /\ pg' = pg
BY DEF StoreType, storeVars

-----------------------------------------------------------------------------
(* The record of a request.                                                *)

\* Request r becomes q.
Becomes(r, q) == req' = [req EXCEPT ![r] = q]

\* q and x agree on what the checks have found.
SameFindings(q, x) ==
    /\ q.proc = x.proc /\ q.opaque = x.opaque /\ q.identity = x.identity
    /\ q.released = x.released /\ q.body = x.body /\ q.bound = x.bound

LEMMA Replaced ==
    ASSUME req \in [Requests -> Request], NEW r \in Requests, NEW q \in Request, Becomes(r, q)
    PROVE  /\ req' \in [Requests -> Request]
           /\ req'[r] = q
           /\ \A x \in Requests \ {r} : req'[x] = req[x]
BY DEF Becomes

LEMMA MovedRecord ==
    ASSUME NEW q \in Request,
           NEW pc \in {"consume", "broker", "seal", "forward"}
    PROVE  /\ [q EXCEPT !.pc = pc] \in Request
           /\ [q EXCEPT !.pc = pc].pc = pc
           /\ [q EXCEPT !.pc = pc].answer = q.answer
           /\ SameFindings([q EXCEPT !.pc = pc], q)
BY DEF Request, SameFindings

LEMMA EndedRecord ==
    ASSUME NEW q \in Request, NEW a \in {"refused", "raised", "crashed", "forwarded"}
    PROVE  LET e == [q EXCEPT !.pc = "done", !.answer = a] IN
           /\ e \in Request /\ e.pc = "done" /\ e.answer = a
           /\ SameFindings(e, q)
BY DEF Request, SameFindings

\* A request that moves on keeps its findings.
LEMMA MovesStep ==
    ASSUME req \in [Requests -> Request], NEW r \in Requests,
           NEW pc \in {"consume", "broker", "seal", "forward"}, Moves(r, pc)
    PROVE  /\ req' \in [Requests -> Request]
           /\ req'[r].pc = pc /\ req'[r].answer = req[r].answer
           /\ SameFindings(req'[r], req[r])
           /\ \A x \in Requests \ {r} : req'[x] = req[x]
<1> DEFINE q == [req[r] EXCEPT !.pc = pc]
<1>1. Becomes(r, q)
  BY DEF Moves, Becomes
<1>2. q \in Request /\ q.pc = pc /\ q.answer = req[r].answer /\ SameFindings(q, req[r])
  BY MovedRecord
<1>3. req' \in [Requests -> Request] /\ req'[r] = q /\ \A x \in Requests \ {r} : req'[x] = req[x]
  BY <1>1, <1>2, Replaced
<1> HIDE DEF q
<1>4. QED
  BY <1>2, <1>3

\* A request that ends keeps its findings.
LEMMA AnsweredStep ==
    ASSUME req \in [Requests -> Request], NEW r \in Requests,
           NEW a \in {"refused", "raised", "crashed", "forwarded"}, Answered(r, a)
    PROVE  /\ req' \in [Requests -> Request]
           /\ req'[r].pc = "done" /\ req'[r].answer = a
           /\ SameFindings(req'[r], req[r])
           /\ \A x \in Requests \ {r} : req'[x] = req[x]
<1> DEFINE q == [req[r] EXCEPT !.pc = "done", !.answer = a]
<1>1. Becomes(r, q)
  BY DEF Answered, Becomes
<1>2. q \in Request /\ q.pc = "done" /\ q.answer = a /\ SameFindings(q, req[r])
  BY EndedRecord
<1>3. req' \in [Requests -> Request] /\ req'[r] = q /\ \A x \in Requests \ {r} : req'[x] = req[x]
  BY <1>1, <1>2, Replaced
<1> HIDE DEF q
<1>4. QED
  BY <1>2, <1>3

\* The checks before the ruling let the request on, or refuse it.
LEMMA StartStep ==
    ASSUME req \in [Requests -> Request], NEW r \in Requests, NEW p \in Procs,
           NEW verified \in BOOLEAN, NEW matches \in BOOLEAN,
           NEW identity \in Identities \union {"bad"},
           Start(r, p, verified, matches, identity)
    PROVE  /\ req' \in [Requests -> Request]
           /\ req'[r].proc = p /\ req'[r].opaque = req[r].opaque
           /\ req'[r].released = req[r].released
           /\ \/ /\ req'[r].pc = "decide" /\ req'[r].answer = req[r].answer
                 /\ conf["strict"] => req'[r].identity # "none"
              \/ req'[r].pc = "done" /\ req'[r].answer = "refused"
           /\ \A x \in Requests \ {r} : req'[x] = req[x]
<1>1. CASE (conf["strict"] => verified) /\ (verified => matches) /\ Identified(identity)
  <2> DEFINE q == [[req[r] EXCEPT !.proc = p, !.identity = identity] EXCEPT !.pc = "decide"]
  <2>1. identity \in Identities /\ (conf["strict"] => identity # "none")
    BY <1>1 DEF Identified
  <2>2. Becomes(r, q)
    BY <1>1 DEF Start, Becomes
  <2>3. /\ q \in Request /\ q.pc = "decide" /\ q.proc = p /\ q.identity = identity
        /\ q.opaque = req[r].opaque /\ q.released = req[r].released
        /\ q.answer = req[r].answer
    BY <2>1 DEF Request
  <2>4. QED
    BY <2>1, <2>2, <2>3, Replaced
<1>2. CASE ~((conf["strict"] => verified) /\ (verified => matches) /\ Identified(identity))
  <2> DEFINE q == [req[r] EXCEPT !.proc = p, !.pc = "done", !.answer = "refused"]
  <2>1. Becomes(r, q)
    BY <1>2 DEF Start, Becomes
  <2>2. /\ q \in Request /\ q.pc = "done" /\ q.proc = p /\ q.answer = "refused"
        /\ q.opaque = req[r].opaque /\ q.released = req[r].released
    BY DEF Request
  <2>3. QED
    BY <2>1, <2>2, Replaced
<1>3. QED
  BY <1>1, <1>2

LEMMA StartOpaqueStep ==
    ASSUME req \in [Requests -> Request], NEW r \in Requests, NEW p \in Procs, StartOpaque(r, p)
    PROVE  /\ req' \in [Requests -> Request]
           /\ req'[r].proc = p /\ req'[r].opaque = TRUE /\ req'[r].pc = "decide"
           /\ req'[r].released = req[r].released /\ req'[r].answer = req[r].answer
           /\ \A x \in Requests \ {r} : req'[x] = req[x]
<1> DEFINE q == [req[r] EXCEPT !.proc = p, !.opaque = TRUE, !.pc = "decide"]
<1>1. Becomes(r, q)
  BY DEF StartOpaque, Becomes
<1>2. /\ q \in Request /\ q.proc = p /\ q.opaque = TRUE /\ q.pc = "decide"
      /\ q.released = req[r].released /\ q.answer = req[r].answer
  BY DEF Request
<1>3. QED
  BY <1>1, <1>2, Replaced

\* The ruling releases a request with a body.
LEMMA ReleasedStep ==
    ASSUME req \in [Requests -> Request], NEW r \in Requests, NEW body \in Bodies,
           Becomes(r, [req[r] EXCEPT !.released = TRUE, !.body = body, !.pc = "mint"])
    PROVE  /\ req' \in [Requests -> Request]
           /\ req'[r].released = TRUE /\ req'[r].pc = "mint"
           /\ req'[r].proc = req[r].proc /\ req'[r].opaque = req[r].opaque
           /\ req'[r].identity = req[r].identity /\ req'[r].answer = req[r].answer
           /\ \A x \in Requests \ {r} : req'[x] = req[x]
<1> DEFINE q == [req[r] EXCEPT !.released = TRUE, !.body = body, !.pc = "mint"]
<1>1. /\ q \in Request /\ q.released = TRUE /\ q.pc = "mint"
      /\ q.proc = req[r].proc /\ q.opaque = req[r].opaque
      /\ q.identity = req[r].identity /\ q.answer = req[r].answer
  BY DEF Request
<1>2. QED
  BY <1>1, Replaced

LEMMA ReleasedOpaqueStep ==
    ASSUME req \in [Requests -> Request], NEW r \in Requests,
           Becomes(r, [req[r] EXCEPT !.released = TRUE, !.pc = "forward"])
    PROVE  /\ req' \in [Requests -> Request]
           /\ req'[r].released = TRUE /\ req'[r].pc = "forward"
           /\ req'[r].proc = req[r].proc /\ req'[r].opaque = req[r].opaque
           /\ req'[r].answer = req[r].answer
           /\ \A x \in Requests \ {r} : req'[x] = req[x]
<1> DEFINE q == [req[r] EXCEPT !.released = TRUE, !.pc = "forward"]
<1>1. /\ q \in Request /\ q.released = TRUE /\ q.pc = "forward"
      /\ q.proc = req[r].proc /\ q.opaque = req[r].opaque /\ q.answer = req[r].answer
  BY DEF Request
<1>2. QED
  BY <1>1, Replaced

\* The permit is bound to the body that will be sent.
LEMMA BoundStep ==
    ASSUME req \in [Requests -> Request], NEW r \in Requests,
           Becomes(r, [req[r] EXCEPT !.pc = "check", !.bound = req[r].body])
    PROVE  /\ req' \in [Requests -> Request]
           /\ req'[r].pc = "check" /\ req'[r].bound = req'[r].body
           /\ req'[r].proc = req[r].proc /\ req'[r].opaque = req[r].opaque
           /\ req'[r].identity = req[r].identity /\ req'[r].answer = req[r].answer
           /\ req'[r].released = req[r].released
           /\ \A x \in Requests \ {r} : req'[x] = req[x]
<1> DEFINE q == [req[r] EXCEPT !.pc = "check", !.bound = req[r].body]
<1>1. /\ q \in Request /\ q.pc = "check" /\ q.bound = q.body
      /\ q.proc = req[r].proc /\ q.opaque = req[r].opaque
      /\ q.identity = req[r].identity /\ q.answer = req[r].answer
      /\ q.released = req[r].released
  BY DEF Request
<1>2. QED
  BY <1>1, Replaced

\* A crash ends the requests of its process.
LEMMA CrashStep ==
    ASSUME req \in [Requests -> Request], NEW p \in Procs, CrashRestart(p)
    PROVE  /\ req' \in [Requests -> Request]
           /\ \A r \in Requests :
                 \/ req'[r] = req[r] /\ (req[r].proc # p \/ req[r].pc = "done")
                 \/ /\ req[r].pc # "done" /\ req'[r].pc = "done"
                    /\ req'[r].answer = "crashed" /\ SameFindings(req'[r], req[r])
<1>1. ASSUME NEW r \in Requests
      PROVE  /\ req'[r] \in Request
             /\ \/ req'[r] = req[r] /\ (req[r].proc # p \/ req[r].pc = "done")
                \/ /\ req[r].pc # "done" /\ req'[r].pc = "done"
                   /\ req'[r].answer = "crashed" /\ SameFindings(req'[r], req[r])
  <2>1. CASE req[r].proc = p /\ req[r].pc # "done"
    <3> DEFINE q == [req[r] EXCEPT !.pc = "done", !.answer = "crashed"]
    <3>1. req'[r] = q
      BY <2>1 DEF CrashRestart
    <3>2. q \in Request /\ q.pc = "done" /\ q.answer = "crashed" /\ SameFindings(q, req[r])
      BY EndedRecord
    <3> HIDE DEF q
    <3>3. QED
      BY <2>1, <3>1, <3>2
  <2>2. CASE ~(req[r].proc = p /\ req[r].pc # "done")
    BY <2>2 DEF CrashRestart
  <2>3. QED
    BY <2>1, <2>2
<1>2. req' = [r \in Requests |-> req'[r]]
  BY DEF CrashRestart
<1>3. QED
  BY <1>1, <1>2

-----------------------------------------------------------------------------
(* What a step does to the requests that do not take it.                   *)

Good(r) == Gated(r) /\ Left(r) /\ Receipted(r) /\ Fresh(r)

Outcomes == {"executed", "blocked"}

\* Record k of the store stays as it is.
SameRecord(k) == rows'[k] = rows[k] /\ \A p \in Procs : cache'[p][k] = cache[p][k]

Untouched(x) ==
    /\ conf' = conf /\ req'[x] = req[x] /\ receipts'[x] = receipts[x]
    /\ x \in sent' <=> x \in sent
    /\ x \in lost' <=> x \in lost
    /\ SameRecord(Permit(x)) /\ SameRecord(Credential(x))

LEMMA UntouchedStays ==
    ASSUME NEW x \in Requests, Untouched(x), Good(x)
    PROVE  Good(x)'
<1>1. Gated(x)'
  BY DEF Good, Gated, Untouched, SameRecord, PermitUsed
<1>2. Left(x)'
  BY DEF Good, Left, Untouched
<1>3. Receipted(x)'
  BY DEF Good, Receipted, Untouched
<1>4. Fresh(x)'
  BY DEF Good, Fresh, Untouched, SameRecord, Unknown
<1>5. QED
  BY <1>1, <1>2, <1>3, <1>4 DEF Good

\* The store changes in nothing, or in record k.
LocalOrSame(k) == UNCHANGED storeVars \/ Local(k)

LEMMA OthersUntouched ==
    ASSUME NEW r \in Requests, conf' = conf,
           \A x \in Requests \ {r} :
              /\ req'[x] = req[x] /\ receipts'[x] = receipts[x]
              /\ (x \in sent' <=> x \in sent) /\ (x \in lost' <=> x \in lost),
           LocalOrSame(Permit(r)) \/ LocalOrSame(Credential(r))
    PROVE  \A x \in Requests \ {r} : Untouched(x)
<1> SUFFICES ASSUME NEW x \in Requests \ {r}
             PROVE  SameRecord(Permit(x)) /\ SameRecord(Credential(x))
  BY DEF Untouched
<1>1. CASE UNCHANGED storeVars
  BY <1>1 DEF storeVars, SameRecord
<1>2. CASE Local(Permit(r)) \/ Local(Credential(r))
  BY <1>2, IdFacts DEF Local, SameRecord
<1>3. QED
  BY <1>1, <1>2 DEF LocalOrSame

\* A step of one request: the others are not concerned.
LEMMA OneMoves ==
    ASSUME RequestInv, NEW r \in Requests, Good(r)',
           \A x \in Requests \ {r} : Untouched(x)
    PROVE  RequestInv'
<1> SUFFICES ASSUME NEW x \in Requests PROVE Good(x)'
  BY DEF RequestInv, Good
<1>1. CASE x = r
  BY <1>1
<1>2. CASE x # r
  BY <1>2, UntouchedStays DEF RequestInv, Good
<1>3. QED
  BY <1>1, <1>2

\* The receipts of a request after _seal_outcome.
LEMMA SealStep ==
    ASSUME receipts \in [Requests -> Seq(Outcomes)], lost \subseteq Requests,
           NEW r \in Requests, NEW outcome \in Outcomes, Seal(r, outcome)
    PROVE  /\ receipts' \in [Requests -> Seq(Outcomes)] /\ lost' \subseteq Requests
           /\ \A x \in Requests \ {r} : receipts'[x] = receipts[x] /\ (x \in lost' <=> x \in lost)
           /\ receipts[r] = <<>> =>
                 /\ receipts'[r] \in {<<>>, <<outcome>>}
                 /\ conf["seals"] /\ r \notin lost' => receipts'[r] = <<outcome>>
<1>1. Append(receipts[r], outcome) \in Seq(Outcomes)
  OBVIOUS
<1>2. receipts[r] = <<>> => Append(receipts[r], outcome) = <<outcome>>
  OBVIOUS
<1>3. QED
  BY <1>1, <1>2 DEF Seal

LEMMA UnsealedStep ==
    ASSUME receipts \in [Requests -> Seq(Outcomes)], lost \subseteq Requests, Unsealed
    PROVE  /\ receipts' \in [Requests -> Seq(Outcomes)] /\ lost' \subseteq Requests
           /\ receipts' = receipts /\ lost' = lost
BY DEF Unsealed

\* The parts of TypeOK.
Typed ==
    /\ StoreType /\ req \in [Requests -> Request] /\ receipts \in [Requests -> Seq(Outcomes)]
    /\ lost \subseteq Requests /\ conf \in Confs /\ sent \subseteq Requests

LEMMA TypeParts ==
    TypeOK <=> /\ Typed /\ expired \subseteq Ids /\ redeem \in [Redemptions -> Redemption]
               /\ dead \in [Procs -> SUBSET Ids] /\ restarts \in 0..MaxRestarts
BY DEF TypeOK, Typed, Outcomes

-----------------------------------------------------------------------------
(* The steps of a request.                                                 *)

\* What every step of a request but the last leaves alone.
LEMMA OthersSame ==
    ASSUME Others
    PROVE  conf' = conf /\ sent' = sent
BY DEF Others

\* A request that is refused after the ruling.
LEMMA RefusedStep ==
    ASSUME Typed, RequestInv, NEW r \in Requests, Refuse(r), conf' = conf, sent' = sent,
           req[r].pc \notin {"new", "forward", "done"}
    PROVE  /\ Good(r)'
           /\ req' \in [Requests -> Request]
           /\ receipts' \in [Requests -> Seq(Outcomes)] /\ lost' \subseteq Requests
           /\ \A x \in Requests \ {r} : /\ req'[x] = req[x] /\ receipts'[x] = receipts[x]
                                        /\ x \in lost' <=> x \in lost
<1>1. /\ req' \in [Requests -> Request] /\ req'[r].pc = "done" /\ req'[r].answer = "refused"
      /\ \A x \in Requests \ {r} : req'[x] = req[x]
  BY AnsweredStep DEF Refuse, Typed
<1>2. /\ receipts' \in [Requests -> Seq(Outcomes)] /\ lost' \subseteq Requests
      /\ \A x \in Requests \ {r} : receipts'[x] = receipts[x] /\ (x \in lost' <=> x \in lost)
      /\ receipts[r] = <<>> =>
            /\ receipts'[r] \in {<<>>, <<"blocked">>}
            /\ conf["seals"] /\ r \notin lost' => receipts'[r] = <<"blocked">>
  BY SealStep DEF Refuse, Typed, Outcomes
<1>3. Gated(r) /\ Left(r) /\ Receipted(r)
  BY DEF RequestInv
<1>4. Gated(r)'
  BY <1>1 DEF Gated, None
<1>5. Left(r)'
  BY <1>3 DEF Left
<1>6. Receipted(r)'
  <2>1. receipts[r] = <<>>
    BY <1>3 DEF Receipted
  <2>2. r \notin sent'
    BY <1>3 DEF Left
  <2>3. <<"blocked">> # <<>>
    OBVIOUS
  <2>4. QED
    BY <1>1, <1>2, <2>1, <2>2, <2>3 DEF Receipted
<1>7. Fresh(r)'
  BY <1>1 DEF Fresh
<1>8. QED
  BY <1>1, <1>2, <1>4, <1>5, <1>6, <1>7 DEF Good

LEMMA StartKeeps ==
    ASSUME Typed, RequestInv, NEW r \in Requests, NEW p \in Procs,
           NEW verified \in BOOLEAN, NEW matches \in BOOLEAN,
           NEW identity \in Identities \union {"bad"},
           Start(r, p, verified, matches, identity)
    PROVE  Typed' /\ RequestInv'
<1>1. /\ conf' = conf /\ sent' = sent /\ receipts' = receipts /\ lost' = lost
      /\ UNCHANGED storeVars /\ req[r].pc = "new"
  BY DEF Start, Others, Unsealed, At
<1>2. /\ req' \in [Requests -> Request]
      /\ req'[r].proc = p /\ req'[r].opaque = req[r].opaque
      /\ req'[r].released = req[r].released
      /\ \/ /\ req'[r].pc = "decide" /\ req'[r].answer = req[r].answer
            /\ conf["strict"] => req'[r].identity # "none"
         \/ req'[r].pc = "done" /\ req'[r].answer = "refused"
      /\ \A x \in Requests \ {r} : req'[x] = req[x]
  BY StartStep DEF Typed
<1>3. Gated(r) /\ Left(r) /\ Receipted(r) /\ Fresh(r)
  BY DEF RequestInv
<1>4. Gated(r)'
  BY <1>1, <1>2, <1>3 DEF Gated, None
<1>5. Left(r)' /\ Receipted(r)'
  BY <1>1, <1>2, <1>3 DEF Gated, Left, Receipted
<1>6. Fresh(r)'
  BY <1>1, <1>2, <1>3 DEF Fresh, Unknown, storeVars
<1>7. RequestInv'
  BY <1>1, <1>2, <1>4, <1>5, <1>6, OthersUntouched, OneMoves DEF Good, LocalOrSame
<1>8. QED
  BY <1>1, <1>2, <1>7, SameStore DEF Typed

LEMMA StartOpaqueKeeps ==
    ASSUME Typed, RequestInv, NEW r \in Requests, NEW p \in Procs, StartOpaque(r, p)
    PROVE  Typed' /\ RequestInv'
<1>1. /\ conf' = conf /\ sent' = sent /\ receipts' = receipts /\ lost' = lost
      /\ UNCHANGED storeVars /\ req[r].pc = "new"
  BY DEF StartOpaque, Others, Unsealed, At
<1>2. /\ req' \in [Requests -> Request]
      /\ req'[r].proc = p /\ req'[r].opaque = TRUE /\ req'[r].pc = "decide"
      /\ req'[r].released = req[r].released /\ req'[r].answer = req[r].answer
      /\ \A x \in Requests \ {r} : req'[x] = req[x]
  BY StartOpaqueStep DEF Typed
<1>3. Gated(r) /\ Left(r) /\ Receipted(r) /\ Fresh(r)
  BY DEF RequestInv
<1>4. Gated(r)'
  BY <1>1, <1>2, <1>3 DEF Gated, None
<1>5. Left(r)' /\ Receipted(r)'
  BY <1>1, <1>2, <1>3 DEF Gated, Left, Receipted
<1>6. Fresh(r)'
  BY <1>1, <1>2, <1>3 DEF Fresh, Unknown, storeVars
<1>7. RequestInv'
  BY <1>1, <1>2, <1>4, <1>5, <1>6, OthersUntouched, OneMoves DEF Good, LocalOrSame
<1>8. QED
  BY <1>1, <1>2, <1>7, SameStore DEF Typed

LEMMA DecideKeeps ==
    ASSUME Typed, RequestInv, NEW r \in Requests, Decide(r)
    PROVE  Typed' /\ RequestInv'
<1>1. /\ conf' = conf /\ sent' = sent /\ UNCHANGED storeVars /\ req[r].pc = "decide"
      /\ ~req[r].opaque
  BY DEF Decide, Others, At
<1>2. CASE Refuse(r)
  <2>1. RequestInv'
    BY <1>1, <1>2, RefusedStep, OthersUntouched, OneMoves DEF LocalOrSame
  <2>2. QED
    BY <1>1, <1>2, <2>1, RefusedStep, SameStore DEF Typed
<1>3. ASSUME NEW body \in Bodies, Unsealed,
             req' = [req EXCEPT ![r] = [@ EXCEPT !.released = TRUE, !.body = body, !.pc = "mint"]]
      PROVE  Typed' /\ RequestInv'
  <2>1. Becomes(r, [req[r] EXCEPT !.released = TRUE, !.body = body, !.pc = "mint"])
    BY <1>3 DEF Becomes
  <2>2. /\ req' \in [Requests -> Request]
        /\ req'[r].released = TRUE /\ req'[r].pc = "mint"
        /\ req'[r].proc = req[r].proc /\ req'[r].opaque = req[r].opaque
        /\ req'[r].identity = req[r].identity /\ req'[r].answer = req[r].answer
        /\ \A x \in Requests \ {r} : req'[x] = req[x]
    BY <2>1, ReleasedStep DEF Typed
  <2>3. receipts' = receipts /\ lost' = lost
    BY <1>3 DEF Unsealed
  <2>4. Gated(r) /\ Left(r) /\ Receipted(r) /\ Fresh(r)
    BY DEF RequestInv
  <2>5. Gated(r)'
    BY <1>1, <2>2, <2>4 DEF Gated, None
  <2>6. Left(r)' /\ Receipted(r)'
    BY <1>1, <2>2, <2>3, <2>4 DEF None, Gated, Left, Receipted
  <2>7. Fresh(r)'
    BY <1>1, <2>2, <2>4 DEF Fresh, Unknown, storeVars
  <2>8. RequestInv'
    BY <1>1, <2>2, <2>3, <2>5, <2>6, <2>7, OthersUntouched, OneMoves DEF Good, LocalOrSame
  <2>9. QED
    BY <1>1, <2>2, <2>3, <2>8, SameStore DEF Typed
<1>4. QED
  BY <1>2, <1>3 DEF Decide

LEMMA DecideOpaqueKeeps ==
    ASSUME Typed, RequestInv, NEW r \in Requests, DecideOpaque(r)
    PROVE  Typed' /\ RequestInv'
<1>1. /\ conf' = conf /\ sent' = sent /\ UNCHANGED storeVars /\ req[r].pc = "decide"
      /\ req[r].opaque
  BY DEF DecideOpaque, Others, At
<1>2. CASE Refuse(r)
  <2>1. RequestInv'
    BY <1>1, <1>2, RefusedStep, OthersUntouched, OneMoves DEF LocalOrSame
  <2>2. QED
    BY <1>1, <1>2, <2>1, RefusedStep, SameStore DEF Typed
<1>3. CASE /\ req' = [req EXCEPT ![r] = [@ EXCEPT !.released = TRUE, !.pc = "forward"]]
           /\ Seal(r, "executed")
  <2>1. Becomes(r, [req[r] EXCEPT !.released = TRUE, !.pc = "forward"])
    BY <1>3 DEF Becomes
  <2>2. /\ req' \in [Requests -> Request]
        /\ req'[r].released = TRUE /\ req'[r].pc = "forward"
        /\ req'[r].proc = req[r].proc /\ req'[r].opaque = req[r].opaque
        /\ req'[r].answer = req[r].answer
        /\ \A x \in Requests \ {r} : req'[x] = req[x]
    BY <2>1, ReleasedOpaqueStep DEF Typed
  <2>3. /\ receipts' \in [Requests -> Seq(Outcomes)] /\ lost' \subseteq Requests
        /\ \A x \in Requests \ {r} : receipts'[x] = receipts[x] /\ (x \in lost' <=> x \in lost)
        /\ receipts[r] = <<>> =>
              /\ receipts'[r] \in {<<>>, <<"executed">>}
              /\ conf["seals"] /\ r \notin lost' => receipts'[r] = <<"executed">>
    BY <1>3, SealStep DEF Typed, Outcomes
  <2>4. Gated(r) /\ Left(r) /\ Receipted(r)
    BY DEF RequestInv
  <2>5. Gated(r)'
    BY <1>1, <2>2, <2>4 DEF Gated, None
  <2>6. Left(r)'
    BY <1>1, <2>2, <2>4 DEF Left
  <2>7. Receipted(r)'
    <3>1. receipts[r] = <<>> /\ req'[r].answer # "refused" /\ <<"executed">> # <<>>
      BY <1>1, <2>2, <2>4 DEF Receipted, Gated, None
    <3>2. QED
      BY <1>1, <2>2, <2>3, <3>1 DEF Receipted
  <2>8. Fresh(r)'
    BY <2>2 DEF Fresh
  <2>9. RequestInv'
    BY <1>1, <2>2, <2>3, <2>5, <2>6, <2>7, <2>8, OthersUntouched, OneMoves DEF Good, LocalOrSame
  <2>10. QED
    BY <1>1, <2>2, <2>3, <2>9, SameStore DEF Typed
<1>4. QED
  BY <1>2, <1>3 DEF DecideOpaque

LEMMA MintKeeps ==
    ASSUME Typed, RequestInv, NEW r \in Requests, Mint(r)
    PROVE  Typed' /\ RequestInv'
<1>1. conf' = conf /\ sent' = sent /\ req[r].pc = "mint"
  BY DEF Mint, Others, At
<1>2. Gated(r) /\ Left(r) /\ Receipted(r) /\ Fresh(r)
  BY DEF RequestInv
<1>3. req[r].proc \in Procs /\ Permit(r) \in Ids /\ StoreType
  BY <1>1, <1>2, IdFacts DEF Gated, Typed
<1>4. CASE Refuse(r) /\ (IssueFails(req[r].proc, Permit(r)) \/ UNCHANGED storeVars)
  <2>1. LocalOrSame(Permit(r)) /\ StoreType'
    BY <1>3, <1>4, IssueStore, SameStore DEF LocalOrSame
  <2>2. /\ Good(r)' /\ req' \in [Requests -> Request]
        /\ receipts' \in [Requests -> Seq(Outcomes)] /\ lost' \subseteq Requests
        /\ \A x \in Requests \ {r} : /\ req'[x] = req[x] /\ receipts'[x] = receipts[x]
                                     /\ x \in lost' <=> x \in lost
    BY <1>1, <1>4, RefusedStep
  <2>3. RequestInv'
    BY <1>1, <2>1, <2>2, OthersUntouched, OneMoves
  <2>4. QED
    BY <1>1, <2>1, <2>2, <2>3 DEF Typed
<1>5. CASE ~conf["permits"] /\ Moves(r, "broker") /\ Unsealed /\ UNCHANGED storeVars
  <2>1. /\ req' \in [Requests -> Request]
        /\ req'[r].pc = "broker" /\ req'[r].answer = req[r].answer
        /\ SameFindings(req'[r], req[r])
        /\ \A x \in Requests \ {r} : req'[x] = req[x]
    BY <1>5, MovesStep DEF Typed
  <2>2. receipts' = receipts /\ lost' = lost
    BY <1>5 DEF Unsealed
  <2>3. Gated(r)'
    BY <1>1, <1>2, <1>5, <2>1 DEF Gated, SameFindings
  <2>4. Left(r)' /\ Receipted(r)'
    BY <1>1, <1>2, <2>1, <2>2 DEF Left, Receipted, SameFindings
  <2>5. Fresh(r)'
    BY <1>1, <1>2, <1>5, <2>1 DEF Fresh, Unknown, storeVars
  <2>6. RequestInv'
    BY <1>1, <1>5, <2>1, <2>2, <2>3, <2>4, <2>5, OthersUntouched, OneMoves DEF Good, LocalOrSame
  <2>7. QED
    BY <1>1, <1>5, <2>1, <2>2, <2>6, SameStore DEF Typed
<1>6. CASE /\ req' = [req EXCEPT ![r] = [@ EXCEPT !.pc = "check", !.bound = req[r].body]]
           /\ Issue(req[r].proc, Permit(r))
           /\ Unsealed
  <2>1. Becomes(r, [req[r] EXCEPT !.pc = "check", !.bound = req[r].body])
    BY <1>6 DEF Becomes
  <2>2. /\ req' \in [Requests -> Request]
        /\ req'[r].pc = "check" /\ req'[r].bound = req'[r].body
        /\ req'[r].proc = req[r].proc /\ req'[r].opaque = req[r].opaque
        /\ req'[r].identity = req[r].identity /\ req'[r].answer = req[r].answer
        /\ req'[r].released = req[r].released
        /\ \A x \in Requests \ {r} : req'[x] = req[x]
    BY <2>1, BoundStep DEF Typed
  <2>3. receipts' = receipts /\ lost' = lost
    BY <1>6 DEF Unsealed
  <2>4. StoreType' /\ Local(Permit(r))
    BY <1>3, <1>6, IssueStore
  <2>5. Gated(r)'
    BY <1>1, <1>2, <2>2 DEF Gated
  <2>6. Left(r)' /\ Receipted(r)'
    BY <1>1, <1>2, <2>2, <2>3 DEF Left, Receipted
  <2>7. Fresh(r)'
    BY <1>1, <1>2, <2>2, <2>4, IdFacts DEF Fresh, Unknown, Local
  <2>8. RequestInv'
    BY <1>1, <2>2, <2>3, <2>4, <2>5, <2>6, <2>7, OthersUntouched, OneMoves DEF Good, LocalOrSame
  <2>9. QED
    BY <1>1, <2>2, <2>3, <2>4, <2>8 DEF Typed
<1>7. QED
  BY <1>4, <1>5, <1>6 DEF Mint

LEMMA CheckKeeps ==
    ASSUME Typed, RequestInv, NEW r \in Requests, Check(r)
    PROVE  Typed' /\ RequestInv'
<1>1. conf' = conf /\ sent' = sent /\ req[r].pc = "check" /\ UNCHANGED storeVars
  BY DEF Check, Others, At
<1>2. Gated(r) /\ Left(r) /\ Receipted(r) /\ Fresh(r)
  BY DEF RequestInv
<1>3. CASE Refuse(r)
  <2>1. RequestInv'
    BY <1>1, <1>3, RefusedStep, OthersUntouched, OneMoves DEF LocalOrSame
  <2>2. QED
    BY <1>1, <1>3, <2>1, RefusedStep, SameStore DEF Typed
<1>4. CASE Moves(r, "consume") /\ Unsealed
  <2>1. /\ req' \in [Requests -> Request]
        /\ req'[r].pc = "consume" /\ req'[r].answer = req[r].answer
        /\ SameFindings(req'[r], req[r])
        /\ \A x \in Requests \ {r} : req'[x] = req[x]
    BY <1>4, MovesStep DEF Typed
  <2>2. receipts' = receipts /\ lost' = lost
    BY <1>4 DEF Unsealed
  <2>3. Gated(r)'
    BY <1>1, <1>2, <2>1 DEF Gated, SameFindings
  <2>4. Left(r)' /\ Receipted(r)'
    BY <1>1, <1>2, <2>1, <2>2 DEF Left, Receipted, SameFindings
  <2>5. Fresh(r)'
    BY <1>1, <1>2, <2>1 DEF Fresh, Unknown, storeVars
  <2>6. RequestInv'
    BY <1>1, <2>1, <2>2, <2>3, <2>4, <2>5, OthersUntouched, OneMoves DEF Good, LocalOrSame
  <2>7. QED
    BY <1>1, <2>1, <2>2, <2>6, SameStore DEF Typed
<1>5. QED
  BY <1>3, <1>4 DEF Check

LEMMA ConsumePermitKeeps ==
    ASSUME Typed, RequestInv, NEW r \in Requests, ConsumePermit(r)
    PROVE  Typed' /\ RequestInv'
<1>1. /\ conf' = conf /\ sent' = sent /\ req[r].pc = "consume"
      /\ receipts' = receipts /\ lost' = lost
  BY DEF ConsumePermit, Others, At, Unsealed
<1>2. Gated(r) /\ Left(r) /\ Receipted(r) /\ Fresh(r)
  BY DEF RequestInv
<1>3. req[r].proc \in Procs /\ Permit(r) \in Ids /\ StoreType
  BY <1>1, <1>2, IdFacts DEF Gated, Typed
<1>4. CASE Consume(req[r].proc, Permit(r)) /\ Moves(r, "broker")
  <2>1. /\ req' \in [Requests -> Request]
        /\ req'[r].pc = "broker" /\ req'[r].answer = req[r].answer
        /\ SameFindings(req'[r], req[r])
        /\ \A x \in Requests \ {r} : req'[x] = req[x]
    BY <1>4, MovesStep DEF Typed
  <2>2. StoreType' /\ Local(Permit(r)) /\ "consumed" \in cache'[req[r].proc][Permit(r)]
    BY <1>3, <1>4, ConsumeStore
  <2>3. Gated(r)'
    BY <1>1, <1>2, <2>1, <2>2 DEF Gated, SameFindings, PermitUsed
  <2>4. Left(r)' /\ Receipted(r)'
    BY <1>1, <1>2, <2>1 DEF Left, Receipted, SameFindings
  <2>5. Fresh(r)'
    BY <1>1, <1>2, <2>1, <2>2, IdFacts DEF Fresh, Unknown, Local
  <2>6. RequestInv'
    BY <1>1, <2>1, <2>2, <2>3, <2>4, <2>5, OthersUntouched, OneMoves DEF Good, LocalOrSame
  <2>7. QED
    BY <1>1, <2>1, <2>2, <2>6 DEF Typed
<1>5. CASE ConsumeFails(req[r].proc, Permit(r)) /\ Answered(r, "raised")
  <2>1. /\ req' \in [Requests -> Request]
        /\ req'[r].pc = "done" /\ req'[r].answer = "raised"
        /\ SameFindings(req'[r], req[r])
        /\ \A x \in Requests \ {r} : req'[x] = req[x]
    BY <1>5, AnsweredStep DEF Typed
  <2>2. StoreType' /\ Local(Permit(r))
    BY <1>3, <1>5, ConsumeFailsStore
  <2>3. Gated(r)'
    BY <2>1 DEF Gated, None
  <2>4. Left(r)' /\ Receipted(r)' /\ Fresh(r)'
    BY <1>1, <1>2, <2>1 DEF Left, Receipted, SameFindings, Fresh
  <2>5. RequestInv'
    BY <1>1, <2>1, <2>2, <2>3, <2>4, OthersUntouched, OneMoves DEF Good, LocalOrSame
  <2>6. QED
    BY <1>1, <2>1, <2>2, <2>5 DEF Typed
<1>6. QED
  BY <1>4, <1>5 DEF ConsumePermit

LEMMA BrokerKeeps ==
    ASSUME Typed, RequestInv, NEW r \in Requests, Broker(r)
    PROVE  Typed' /\ RequestInv'
<1>1. conf' = conf /\ sent' = sent /\ req[r].pc = "broker"
  BY DEF Broker, Others, At
<1>2. Gated(r) /\ Left(r) /\ Receipted(r) /\ Fresh(r)
  BY DEF RequestInv
<1>3. req[r].proc \in Procs /\ Credential(r) \in Ids /\ StoreType
  BY <1>1, <1>2, IdFacts DEF Gated, Typed
<1>4. LocalOrSame(Credential(r)) /\ StoreType'
  BY <1>3, IssueStore, SameStore DEF LocalOrSame, Broker
<1>5. CASE Refuse(r)
  <2>1. /\ Good(r)' /\ req' \in [Requests -> Request]
        /\ receipts' \in [Requests -> Seq(Outcomes)] /\ lost' \subseteq Requests
        /\ \A x \in Requests \ {r} : /\ req'[x] = req[x] /\ receipts'[x] = receipts[x]
                                     /\ x \in lost' <=> x \in lost
    BY <1>1, <1>5, RefusedStep
  <2>2. RequestInv'
    BY <1>1, <1>4, <2>1, OthersUntouched, OneMoves
  <2>3. QED
    BY <1>1, <1>4, <2>1, <2>2 DEF Typed
<1>6. CASE /\ Moves(r, "seal") /\ Unsealed
           /\ conf["broker"] => req[r].identity = "keyed"
  <2>1. /\ req' \in [Requests -> Request]
        /\ req'[r].pc = "seal" /\ req'[r].answer = req[r].answer
        /\ SameFindings(req'[r], req[r])
        /\ \A x \in Requests \ {r} : req'[x] = req[x]
    BY <1>6, MovesStep DEF Typed
  <2>2. receipts' = receipts /\ lost' = lost
    BY <1>6 DEF Unsealed
  <2>3. Gated(r)'
    <3>1. PermitUsed(r) => PermitUsed(r)'
      BY <1>3, <1>4, <2>1, IdFacts DEF PermitUsed, LocalOrSame, Local, storeVars, SameFindings
    <3>2. QED
      BY <1>1, <1>2, <1>6, <2>1, <3>1 DEF Gated, SameFindings
  <2>4. Left(r)' /\ Receipted(r)' /\ Fresh(r)'
    BY <1>1, <1>2, <2>1, <2>2 DEF Left, Receipted, SameFindings, Fresh
  <2>5. RequestInv'
    BY <1>1, <1>4, <2>1, <2>2, <2>3, <2>4, OthersUntouched, OneMoves DEF Good
  <2>6. QED
    BY <1>1, <1>4, <2>1, <2>2, <2>5 DEF Typed
<1>7. QED
  BY <1>5, <1>6 DEF Broker

LEMMA SealExecutedKeeps ==
    ASSUME Typed, RequestInv, NEW r \in Requests, SealExecuted(r)
    PROVE  Typed' /\ RequestInv'
<1>1. conf' = conf /\ sent' = sent /\ req[r].pc = "seal" /\ UNCHANGED storeVars
  BY DEF SealExecuted, Others, At
<1>2. Gated(r) /\ Left(r) /\ Receipted(r) /\ Fresh(r)
  BY DEF RequestInv
<1>3. /\ req' \in [Requests -> Request]
      /\ req'[r].pc = "forward" /\ req'[r].answer = req[r].answer
      /\ SameFindings(req'[r], req[r])
      /\ \A x \in Requests \ {r} : req'[x] = req[x]
  BY MovesStep DEF Typed, SealExecuted
<1>4. /\ receipts' \in [Requests -> Seq(Outcomes)] /\ lost' \subseteq Requests
      /\ \A x \in Requests \ {r} : receipts'[x] = receipts[x] /\ (x \in lost' <=> x \in lost)
      /\ receipts[r] = <<>> =>
            /\ receipts'[r] \in {<<>>, <<"executed">>}
            /\ conf["seals"] /\ r \notin lost' => receipts'[r] = <<"executed">>
  BY SealStep DEF Typed, Outcomes, SealExecuted
<1>5. Gated(r)'
  <2>1. PermitUsed(r) => PermitUsed(r)'
    BY <1>1, <1>3 DEF PermitUsed, storeVars, SameFindings
  <2>2. QED
    BY <1>1, <1>2, <1>3, <2>1 DEF Gated, SameFindings
<1>6. Left(r)' /\ Fresh(r)'
  BY <1>1, <1>2, <1>3 DEF Left, Fresh
<1>7. Receipted(r)'
  <2>1. receipts[r] = <<>> /\ req'[r].answer # "refused" /\ req'[r].released
        /\ <<"executed">> # <<>>
    BY <1>1, <1>2, <1>3 DEF Receipted, Gated, None, SameFindings
  <2>2. QED
    BY <1>1, <1>3, <1>4, <2>1 DEF Receipted
<1>8. RequestInv'
  BY <1>1, <1>3, <1>4, <1>5, <1>6, <1>7, OthersUntouched, OneMoves DEF Good, LocalOrSame
<1>9. QED
  BY <1>1, <1>3, <1>4, <1>8, SameStore DEF Typed

LEMMA ForwardKeeps ==
    ASSUME Typed, RequestInv, NEW r \in Requests, Forward(r)
    PROVE  Typed' /\ RequestInv'
<1>1. /\ conf' = conf /\ req[r].pc = "forward" /\ UNCHANGED storeVars
      /\ receipts' = receipts /\ lost' = lost
  BY DEF Forward, Unsealed, At
<1>2. Gated(r) /\ Left(r) /\ Receipted(r)
  BY DEF RequestInv
<1>3. /\ req' \in [Requests -> Request]
      /\ req'[r].pc = "done" /\ req'[r].answer \in {"forwarded", "raised"}
      /\ SameFindings(req'[r], req[r])
      /\ \A x \in Requests \ {r} : req'[x] = req[x]
  BY AnsweredStep DEF Typed, Forward
<1>4. sent' \in {sent, sent \union {r}}
  BY DEF Forward
<1>5. Gated(r)' /\ Fresh(r)'
  BY <1>3 DEF Gated, None, Fresh
<1>6. Left(r)'
  BY <1>1, <1>2, <1>3 DEF Left, Gated, SameFindings
<1>7. Receipted(r)'
  BY <1>1, <1>2, <1>3 DEF Receipted, Gated, None, SameFindings
<1>8. RequestInv'
  BY <1>1, <1>3, <1>4, <1>5, <1>6, <1>7, OthersUntouched, OneMoves DEF Good, LocalOrSame
<1>9. QED
  BY <1>1, <1>3, <1>4, <1>8, SameStore DEF Typed

-----------------------------------------------------------------------------
(* The steps of others.                                                    *)

\* A step on the record of a credential that has left concerns no request.
LEMMA CredentialStep ==
    ASSUME Typed, RequestInv, NEW r \in sent, StoreType',
           LocalOrSame(Credential(r)),
           UNCHANGED <<conf, req, receipts, sent, lost>>
    PROVE  Typed' /\ RequestInv'
<1>1. r \in Requests
  BY DEF Typed
<1>2. Gated(r) /\ Left(r) /\ Receipted(r) /\ req[r].pc = "done"
  BY <1>1 DEF RequestInv, Left
<1>3. Good(r)'
  BY <1>2 DEF Good, Gated, Left, Receipted, Fresh
<1>4. RequestInv'
  BY <1>1, <1>3, OthersUntouched, OneMoves
<1>5. QED
  BY <1>4 DEF Typed

\* Steps that change neither the requests nor the records.
LEMMA AsideStep ==
    ASSUME Typed, RequestInv, StoreType', rows' = rows, cache' = cache,
           UNCHANGED <<conf, req, receipts, sent, lost>>
    PROVE  Typed' /\ RequestInv'
<1>1. \A x \in Requests : Untouched(x)
  BY DEF Untouched, SameRecord
<1>2. QED
  BY <1>1, UntouchedStays DEF RequestInv, Good, Typed

LEMMA CrashKeeps ==
    ASSUME Typed, RequestInv, NEW p \in Procs, CrashRestart(p)
    PROVE  Typed' /\ RequestInv'
<1>1. /\ conf' = conf /\ receipts' = receipts /\ sent' = sent /\ lost' = lost
      /\ rows' = rows
  BY RestartStore DEF CrashRestart, Typed
<1>2. /\ StoreType'
      /\ \A q \in Procs \ {p} : cache'[q] = cache[q]
      /\ cache'[p] = rows \/ cache'[p] = [k \in Ids |-> Nothing]
  BY RestartStore DEF CrashRestart, Typed
<1>3. /\ req' \in [Requests -> Request]
      /\ \A r \in Requests :
            \/ req'[r] = req[r] /\ (req[r].proc # p \/ req[r].pc = "done")
            \/ /\ req[r].pc # "done" /\ req'[r].pc = "done"
               /\ req'[r].answer = "crashed" /\ SameFindings(req'[r], req[r])
  BY CrashStep DEF Typed
<1>4. ASSUME NEW r \in Requests PROVE Good(r)'
  <2>1. Gated(r) /\ Left(r) /\ Receipted(r) /\ Fresh(r)
    BY DEF RequestInv
  <2>2. CASE req'[r] = req[r] /\ (req[r].proc # p \/ req[r].pc = "done")
    <3>1. Gated(r)'
      BY <1>1, <1>2, <2>1, <2>2 DEF Gated, PermitUsed
    <3>2. Left(r)' /\ Receipted(r)'
      BY <1>1, <2>1, <2>2 DEF Left, Receipted
    <3>3. \A k \in Ids : Unknown(k) => Unknown(k)'
      <4> SUFFICES ASSUME NEW k \in Ids, Unknown(k), NEW q \in Procs
                   PROVE  cache'[q][k] = Nothing
        BY <1>1 DEF Unknown
      <4>1. CASE q = p
        BY <1>2, <4>1 DEF Unknown
      <4>2. CASE q # p
        BY <1>2, <4>2 DEF Unknown
      <4>3. QED
        BY <4>1, <4>2
    <3>4. Fresh(r)'
      BY <2>1, <2>2, <3>3, IdFacts DEF Fresh
    <3>5. QED
      BY <3>1, <3>2, <3>4 DEF Good
  <2>3. CASE /\ req[r].pc # "done" /\ req'[r].pc = "done"
             /\ req'[r].answer = "crashed" /\ SameFindings(req'[r], req[r])
    <3>1. Gated(r)' /\ Fresh(r)'
      BY <2>3 DEF Gated, None, Fresh
    <3>2. Left(r)'
      BY <1>1, <2>1, <2>3 DEF Left
    <3>3. Receipted(r)'
      BY <1>1, <2>1, <2>3 DEF Left, Receipted, Gated, None, SameFindings
    <3>4. QED
      BY <3>1, <3>2, <3>3 DEF Good
  <2>4. QED
    BY <1>3, <2>2, <2>3
<1>5. RequestInv'
  BY <1>4 DEF Good, RequestInv
<1>6. QED
  BY <1>1, <1>2, <1>3, <1>5 DEF Typed

\* A redemption or a revocation touches the credential of a request that has
\* left, and nothing else.
LEMMA RedeemLocal ==
    ASSUME Typed, RedeemInv, NEW d \in Redemptions, RedeemConsume(d)
    PROVE  /\ redeem[d].proc \in Procs
           /\ \E r \in sent : /\ r \in Requests /\ redeem[d].id = Credential(r)
                              /\ LocalOrSame(Credential(r))
           /\ StoreType'
<1>1. redeem[d].pc = "passed"
  BY DEF RedeemConsume
<1>2. redeem[d].proc \in Procs
  BY <1>1 DEF RedeemInv
<1>3. PICK r \in sent : redeem[d].id = Credential(r)
  BY <1>1 DEF RedeemInv
<1>4. r \in Requests /\ Credential(r) \in Ids /\ StoreType
  BY IdFacts DEF Typed
<1>5. StoreType' /\ LocalOrSame(Credential(r))
  <2>1. CASE Consume(redeem[d].proc, redeem[d].id)
    BY <1>2, <1>3, <1>4, <2>1, ConsumeStore DEF LocalOrSame
  <2>2. CASE ConsumeFails(redeem[d].proc, redeem[d].id)
    BY <1>2, <1>3, <1>4, <2>2, ConsumeFailsStore DEF LocalOrSame
  <2>3. CASE UNCHANGED storeVars
    BY <1>4, <2>3, SameStore DEF LocalOrSame
  <2>4. QED
    BY <2>1, <2>2, <2>3 DEF RedeemConsume
<1>6. QED
  BY <1>2, <1>3, <1>4, <1>5

LEMMA RevokeLocal ==
    ASSUME Typed, NEW r \in Requests, NEW p \in Procs, RevokeCredential(r, p)
    PROVE  LocalOrSame(Credential(r)) /\ StoreType'
<1>1. Credential(r) \in Ids /\ StoreType
  BY IdFacts DEF Typed
<1>2. QED
  BY <1>1, RevokeStore, RevokeFailsStore DEF RevokeCredential, LocalOrSame

\* Every step keeps the types and what is known of the requests.
LEMMA RequestStep ==
    ASSUME Typed, RequestInv, RedeemInv, [Next]_vars
    PROVE  Typed' /\ RequestInv'
<1>1. ASSUME NEW r \in Requests,
             \/ \E p \in Procs, verified, matches \in BOOLEAN,
                   identity \in Identities \union {"bad"} :
                   Start(r, p, verified, matches, identity)
             \/ \E p \in Procs : StartOpaque(r, p)
             \/ Decide(r) \/ DecideOpaque(r) \/ Mint(r) \/ Check(r) \/ ConsumePermit(r)
             \/ Broker(r) \/ SealExecuted(r) \/ Forward(r)
      PROVE  Typed' /\ RequestInv'
  BY <1>1, StartKeeps, StartOpaqueKeeps, DecideKeeps, DecideOpaqueKeeps, MintKeeps,
     CheckKeeps, ConsumePermitKeeps, BrokerKeeps, SealExecutedKeeps, ForwardKeeps
<1>2. ASSUME NEW r \in Requests, NEW p \in Procs, RevokeCredential(r, p)
      PROVE  Typed' /\ RequestInv'
  <2>1. r \in sent /\ UNCHANGED <<conf, req, receipts, sent, lost>>
    BY <1>2 DEF RevokeCredential
  <2>2. QED
    BY <1>2, <2>1, RevokeLocal, CredentialStep
<1>3. ASSUME NEW d \in Redemptions, NEW r \in Requests, NEW p \in Procs, RedeemVerify(d, r, p)
      PROVE  Typed' /\ RequestInv'
  <2>1. UNCHANGED storeVars /\ UNCHANGED <<conf, req, receipts, sent, lost>>
    BY <1>3 DEF RedeemVerify
  <2>2. QED
    BY <2>1, SameStore, AsideStep DEF Typed
<1>4. ASSUME NEW d \in Redemptions, RedeemConsume(d)
      PROVE  Typed' /\ RequestInv'
  <2>1. UNCHANGED <<conf, req, receipts, sent, lost>>
    BY <1>4 DEF RedeemConsume
  <2>2. QED
    BY <1>4, <2>1, RedeemLocal, CredentialStep
<1>5. ASSUME NEW k \in Ids, Expire(k)
      PROVE  Typed' /\ RequestInv'
  <2>1. UNCHANGED storeVars /\ UNCHANGED <<conf, req, receipts, sent, lost>>
    BY <1>5 DEF Expire
  <2>2. QED
    BY <2>1, SameStore, AsideStep DEF Typed
<1>6. ASSUME NEW p \in Procs, DegradeStore(p)
      PROVE  Typed' /\ RequestInv'
  <2>1. /\ rows' = rows /\ cache' = cache /\ StoreType'
        /\ UNCHANGED <<conf, req, receipts, sent, lost>>
    BY <1>6 DEF DegradeStore, Degrade, StoreType, Typed, pepVars
  <2>2. QED
    BY <2>1, AsideStep
<1>7. ASSUME NEW p \in Procs, CrashRestart(p)
      PROVE  Typed' /\ RequestInv'
  BY <1>7, CrashKeeps
<1>8. CASE UNCHANGED vars
  <2>1. UNCHANGED storeVars /\ UNCHANGED <<conf, req, receipts, sent, lost>>
    BY <1>8 DEF vars, pepVars
  <2>2. QED
    BY <2>1, SameStore, AsideStep DEF Typed
<1>9. QED
  BY <1>1, <1>2, <1>3, <1>4, <1>5, <1>6, <1>7, <1>8 DEF Next

-----------------------------------------------------------------------------
(* Redemptions and what a process knows of dead records.                   *)

\* What a step does to the redemptions: nothing, a verification, a consume or
\* the end of those of a process that died.

Rest ==
    /\ expired \subseteq Ids /\ redeem \in [Redemptions -> Redemption]
    /\ dead \in [Procs -> SUBSET Ids] /\ restarts \in 0..MaxRestarts

\* The steps of a request leave redemptions, expiry and dead records alone.
LEMMA RequestLeaves ==
    ASSUME NEW r \in Requests,
           \/ \E p \in Procs, verified, matches \in BOOLEAN,
                 identity \in Identities \union {"bad"} :
                 Start(r, p, verified, matches, identity)
           \/ \E p \in Procs : StartOpaque(r, p)
           \/ Decide(r) \/ DecideOpaque(r) \/ Mint(r) \/ Check(r) \/ ConsumePermit(r)
           \/ Broker(r) \/ SealExecuted(r) \/ Forward(r)
    PROVE  /\ UNCHANGED <<redeem, expired, dead, restarts>> /\ sent \subseteq sent'
BY DEF Start, StartOpaque, Decide, DecideOpaque, Mint, Check, ConsumePermit, Broker,
       SealExecuted, Forward, Others

LEMMA RestStep ==
    ASSUME Typed, RedeemInv, Rest, [Next]_vars
    PROVE  Rest' /\ RedeemInv'
<1>1. ASSUME UNCHANGED <<redeem, expired, dead, restarts>>, sent \subseteq sent'
      PROVE  Rest' /\ RedeemInv'
  BY <1>1 DEF Rest, RedeemInv
<1>2. ASSUME NEW r \in Requests, NEW p \in Procs, RevokeCredential(r, p)
      PROVE  Rest' /\ RedeemInv'
  <2>1. Credential(r) \in Ids /\ UNCHANGED <<redeem, expired, restarts, sent>>
    BY <1>2, IdFacts DEF RevokeCredential
  <2>2. dead' \in [Procs -> SUBSET Ids]
    BY <1>2, <2>1 DEF RevokeCredential, Rest
  <2>3. QED
    BY <2>1, <2>2 DEF Rest, RedeemInv
<1>3. ASSUME NEW d \in Redemptions, NEW r \in Requests, NEW p \in Procs, RedeemVerify(d, r, p)
      PROVE  Rest' /\ RedeemInv'
  <2> DEFINE q == [pc |-> "passed", id |-> Credential(r), proc |-> p]
  <2>1. /\ Credential(r) \in Ids /\ r \in sent /\ UNCHANGED <<expired, dead, restarts, sent>>
        /\ redeem' = [redeem EXCEPT ![d] = q]
    BY <1>3, IdFacts DEF RedeemVerify
  <2>2. q \in Redemption /\ q.pc = "passed" /\ q.proc = p /\ q.id = Credential(r)
    BY <2>1 DEF Redemption
  <2>3. Rest'
    BY <2>1, <2>2 DEF Rest
  <2>4. RedeemInv'
    BY <2>1, <2>2 DEF RedeemInv, Rest
  <2>5. QED
    BY <2>3, <2>4
<1>4. ASSUME NEW d \in Redemptions, RedeemConsume(d)
      PROVE  Rest' /\ RedeemInv'
  <2>0. redeem[d].proc \in Procs /\ redeem[d].id \in Ids
    BY <1>4, RedeemLocal, IdFacts
  <2>1. /\ UNCHANGED <<expired, restarts, sent>>
        /\ redeem' = [redeem EXCEPT ![d].pc = "accepted"]
    BY <1>4 DEF RedeemConsume
  <2>2. dead' \in [Procs -> SUBSET Ids]
    BY <1>4, <2>0 DEF RedeemConsume, Rest
  <2>3. redeem' \in [Redemptions -> Redemption] /\ RedeemInv'
    BY <2>1 DEF Redemption, Rest, RedeemInv
  <2>4. QED
    BY <2>1, <2>2, <2>3 DEF Rest
<1>5. ASSUME NEW k \in Ids, Expire(k)
      PROVE  Rest' /\ RedeemInv'
  BY <1>5 DEF Expire, Rest, RedeemInv
<1>6. ASSUME NEW p \in Procs, CrashRestart(p)
      PROVE  Rest' /\ RedeemInv'
  <2>1. UNCHANGED <<expired, sent>>
    BY <1>6 DEF CrashRestart
  <2>2. restarts' \in 0..MaxRestarts
    <3>1. restarts < MaxRestarts /\ restarts' = restarts + 1
      BY <1>6 DEF CrashRestart
    <3>2. restarts \in 0..MaxRestarts
      BY DEF Rest
    <3>3. QED
      BY <3>1, <3>2, BoundAssumption
  <2>3. dead' \in [Procs -> SUBSET Ids]
    BY <1>6 DEF CrashRestart, Rest
  <2>4. redeem' \in [Redemptions -> Redemption] /\ RedeemInv'
    BY <1>6 DEF CrashRestart, Redemption, Rest, RedeemInv
  <2>5. QED
    BY <2>1, <2>2, <2>3, <2>4 DEF Rest
<1>7. ASSUME NEW p \in Procs, DegradeStore(p)
      PROVE  Rest' /\ RedeemInv'
  BY <1>1, <1>7 DEF DegradeStore, pepVars
<1>8. CASE UNCHANGED vars
  BY <1>1, <1>8 DEF vars, pepVars
<1>9. QED
  BY <1>1, <1>2, <1>3, <1>4, <1>5, <1>6, <1>7, <1>8, RequestLeaves DEF Next

\* Marks are only added to record k, and every process that learns of them or
\* is told has one in its cache.
LEMMA DeadKept ==
    ASSUME DeadInv, NEW k \in Ids, Local(k), Keeps(k),
           \A q \in Procs : cache'[q][k] = cache[q][k] \/ Used(cache'[q][k]),
           \A q \in Procs, j \in Ids : j \in dead'[q] => j \in dead[q] \/ (j = k /\ Used(cache'[q][k]))
    PROVE  DeadInv'
<1> SUFFICES ASSUME NEW q \in Procs, NEW j \in Ids, j \in dead'[q]
             PROVE  \/ Used(cache'[q][j])
                    \/ cache'[q][j] = Nothing /\ Used(rows'[j])
  BY DEF DeadInv, Used
<1>1. CASE j # k
  BY <1>1 DEF DeadInv, Local
<1>2. CASE j = k
  BY <1>2 DEF DeadInv, Keeps, Used
<1>3. QED
  BY <1>1, <1>2

\* A record that no store knows is not known to be dead, so issuing it
\* revives nothing.
LEMMA DeadIssued ==
    ASSUME DeadInv, NEW k \in Ids, Local(k), Unknown(k), dead' = dead
    PROVE  DeadInv'
<1> SUFFICES ASSUME NEW q \in Procs, NEW j \in Ids, j \in dead[q]
             PROVE  \/ Used(cache'[q][j])
                    \/ cache'[q][j] = Nothing /\ Used(rows'[j])
  BY DEF DeadInv, Used
<1>1. j # k
  BY DEF DeadInv, Unknown, Used, Nothing
<1>2. QED
  BY <1>1 DEF DeadInv, Local

LEMMA DeadStep ==
    ASSUME Typed, Rest, RequestInv, RedeemInv, DeadInv, [Next]_vars
    PROVE  DeadInv'
<1>0. StoreType /\ dead \in [Procs -> SUBSET Ids]
  BY DEF Typed, Rest
<1>1. ASSUME rows' = rows, cache' = cache, dead' = dead
      PROVE  DeadInv'
  BY <1>1 DEF DeadInv, Used
<1>2. ASSUME UNCHANGED storeVars, dead' = dead
      PROVE  DeadInv'
  BY <1>1, <1>2 DEF storeVars
<1>3. ASSUME NEW r \in Requests, Mint(r)
      PROVE  DeadInv'
  <2>1. /\ dead' = dead /\ req[r].proc \in Procs /\ Permit(r) \in Ids /\ Unknown(Permit(r))
    BY <1>3, IdFacts DEF Mint, Others, At, RequestInv, Gated, Fresh
  <2>2. UNCHANGED storeVars \/ Local(Permit(r))
    BY <1>0, <1>3, <2>1, IssueStore DEF Mint
  <2>3. QED
    BY <1>2, <2>1, <2>2, DeadIssued
<1>4. ASSUME NEW r \in Requests, Broker(r)
      PROVE  DeadInv'
  <2>1. /\ dead' = dead /\ req[r].proc \in Procs /\ Credential(r) \in Ids
        /\ Unknown(Credential(r))
    BY <1>4, IdFacts DEF Broker, Others, At, RequestInv, Gated, Fresh
  <2>2. UNCHANGED storeVars \/ Local(Credential(r))
    BY <1>0, <1>4, <2>1, IssueStore DEF Broker
  <2>3. QED
    BY <1>2, <2>1, <2>2, DeadIssued
<1>5. ASSUME NEW r \in Requests, ConsumePermit(r)
      PROVE  DeadInv'
  <2>1. /\ dead' = dead /\ req[r].proc \in Procs /\ Permit(r) \in Ids
    BY <1>5, IdFacts DEF ConsumePermit, Others, At, RequestInv, Gated
  <2>2. CASE Consume(req[r].proc, Permit(r))
    BY <1>0, <2>1, <2>2, ConsumeStore, DeadKept DEF Used
  <2>3. CASE ConsumeFails(req[r].proc, Permit(r))
    BY <1>0, <2>1, <2>3, ConsumeFailsStore, DeadKept
  <2>4. QED
    BY <1>5, <2>2, <2>3 DEF ConsumePermit
<1>6. ASSUME NEW r \in Requests, NEW p \in Procs, RevokeCredential(r, p)
      PROVE  DeadInv'
  <2>1. Credential(r) \in Ids
    BY IdFacts
  <2>2. CASE Revoke(p, Credential(r)) /\ dead' = [dead EXCEPT ![p] = @ \union {Credential(r)}]
    <3>1. /\ Local(Credential(r)) /\ Keeps(Credential(r)) /\ Used(cache'[p][Credential(r)])
          /\ \A q \in Procs \ {p} : cache'[q][Credential(r)] = cache[q][Credential(r)]
      BY <1>0, <2>1, <2>2, RevokeStore DEF Used
    <3>2. \A q \in Procs, j \in Ids :
             j \in dead'[q] => j \in dead[q] \/ (j = Credential(r) /\ q = p)
      BY <1>0, <2>2
    <3>3. QED
      BY <2>1, <3>1, <3>2, DeadKept
  <2>3. CASE RevokeFails(p, Credential(r)) /\ UNCHANGED dead
    BY <1>0, <2>1, <2>3, RevokeFailsStore, DeadKept
  <2>4. QED
    BY <1>6, <2>2, <2>3 DEF RevokeCredential
<1>7. ASSUME NEW d \in Redemptions, RedeemConsume(d)
      PROVE  DeadInv'
  <2> DEFINE p == redeem[d].proc
             k == redeem[d].id
  <2>1. p \in Procs /\ k \in Ids
    BY <1>7, RedeemLocal, IdFacts
  <2>2. \/ Consume(p, k) /\ dead' = [dead EXCEPT ![p] = @ \union {k}]
        \/ ConsumeFails(p, k) /\ UNCHANGED dead
        \/ UNCHANGED <<storeVars, dead>>
    BY <1>7 DEF RedeemConsume
  <2> HIDE DEF p, k
  <2>3. CASE Consume(p, k) /\ dead' = [dead EXCEPT ![p] = @ \union {k}]
    <3>1. /\ Local(k) /\ Keeps(k) /\ Used(cache'[p][k])
          /\ \A q \in Procs \ {p} : cache'[q][k] = cache[q][k]
      BY <1>0, <2>1, <2>3, ConsumeStore DEF Used
    <3>2. \A q \in Procs, j \in Ids : j \in dead'[q] => j \in dead[q] \/ (j = k /\ q = p)
      BY <1>0, <2>1, <2>3
    <3>3. QED
      BY <2>1, <3>1, <3>2, DeadKept
  <2>4. CASE ConsumeFails(p, k) /\ UNCHANGED dead
    BY <1>0, <2>1, <2>4, ConsumeFailsStore, DeadKept
  <2>5. QED
    BY <1>2, <2>2, <2>3, <2>4
<1>8. ASSUME NEW p \in Procs, CrashRestart(p)
      PROVE  DeadInv'
  <2>1. /\ rows' = rows
        /\ \A q \in Procs \ {p} : cache'[q] = cache[q]
        /\ cache'[p] = rows \/ cache'[p] = [k \in Ids |-> Nothing]
    BY <1>0, <1>8, RestartStore DEF CrashRestart
  <2>2. /\ \A q \in Procs \ {p} : dead'[q] = dead[q]
        /\ \A k \in dead'[p] : k \in Ids /\ Used(rows[k])
    BY <1>0, <1>8 DEF CrashRestart, Used
  <2>3. ASSUME NEW q \in Procs, NEW k \in Ids, k \in dead'[q]
        PROVE  \/ Used(cache'[q][k])
               \/ cache'[q][k] = Nothing /\ Used(rows'[k])
    <3>1. CASE q = p
      BY <2>1, <2>2, <2>3, <3>1
    <3>2. CASE q # p
      BY <2>1, <2>2, <2>3, <3>2 DEF DeadInv
    <3>3. QED
      BY <3>1, <3>2
  <2>4. QED
    BY <2>3 DEF DeadInv, Used
<1>9. ASSUME NEW p \in Procs, DegradeStore(p)
      PROVE  DeadInv'
  BY <1>1, <1>9 DEF DegradeStore, Degrade, pepVars
<1>10. ASSUME NEW r \in Requests,
              \/ \E p \in Procs, verified, matches \in BOOLEAN,
                    identity \in Identities \union {"bad"} :
                    Start(r, p, verified, matches, identity)
              \/ \E p \in Procs : StartOpaque(r, p)
              \/ Decide(r) \/ DecideOpaque(r) \/ Check(r) \/ SealExecuted(r) \/ Forward(r)
       PROVE  DeadInv'
  <2>1. UNCHANGED storeVars /\ dead' = dead
    BY <1>10 DEF Start, StartOpaque, Decide, DecideOpaque, Check, SealExecuted, Forward, Others
  <2>2. QED
    BY <1>2, <2>1
<1>11. ASSUME NEW d \in Redemptions, NEW r \in Requests, NEW p \in Procs, RedeemVerify(d, r, p)
       PROVE  DeadInv'
  BY <1>2, <1>11 DEF RedeemVerify
<1>12. ASSUME NEW k \in Ids, Expire(k)
       PROVE  DeadInv'
  BY <1>2, <1>12 DEF Expire
<1>13. CASE UNCHANGED vars
  BY <1>2, <1>13 DEF vars, pepVars
<1>14. QED
  BY <1>3, <1>4, <1>5, <1>6, <1>7, <1>8, <1>9, <1>10, <1>11, <1>12, <1>13 DEF Next

-----------------------------------------------------------------------------
(* The theorems.                                                           *)

IndInv == Typed /\ Rest /\ RequestInv /\ RedeemInv /\ DeadInv

LEMMA InitInv == Init => IndInv
<1> SUFFICES ASSUME Init PROVE IndInv
  OBVIOUS
<1>1. Typed /\ Rest
  <2>1. StoreType
    BY DEF Init, StoreInit, StoreType, Nothing
  <2>2. Arriving \in Request
    BY DEF Arriving, Request, Bodies, Identities, None
  <2>3. Idle \in Redemption
    BY DEF Idle, Redemption
  <2>4. QED
    BY <2>1, <2>2, <2>3, BoundAssumption DEF Init, Typed, Rest
<1>2. RequestInv
  <2> SUFFICES ASSUME NEW r \in Requests PROVE Gated(r) /\ Left(r) /\ Receipted(r) /\ Fresh(r)
    BY DEF RequestInv
  <2>1. /\ req[r].pc = "new" /\ req[r].answer = None /\ req[r].released = FALSE
        /\ req[r].opaque = FALSE /\ receipts[r] = <<>> /\ r \notin sent
    BY DEF Init, Arriving
  <2>2. Gated(r)
    BY <2>1 DEF Gated
  <2>3. Left(r) /\ Receipted(r)
    BY <2>1 DEF Left, Receipted, None
  <2>4. Fresh(r)
    BY IdFacts DEF Init, StoreInit, Fresh, Unknown
  <2>5. QED
    BY <2>2, <2>3, <2>4
<1>3. RedeemInv
  BY DEF Init, Idle, RedeemInv
<1>4. DeadInv
  BY DEF Init, DeadInv
<1>5. QED
  BY <1>1, <1>2, <1>3, <1>4 DEF IndInv

LEMMA Inductive == Spec => []IndInv
<1>1. IndInv /\ [Next]_vars => IndInv'
  BY RequestStep, RestStep, DeadStep DEF IndInv
<1>2. QED
  BY <1>1, InitInv, PTL DEF Spec

\* Every variable keeps its type, in every process and through every restart.
THEOREM TypeCorrect == Spec => []TypeOK
<1>1. IndInv => TypeOK
  BY TypeParts DEF IndInv, Rest
<1>2. QED
  BY <1>1, Inductive, PTL

\* Nothing reaches the upstream but by the whole gate (proxy.py, handle),
\* however many requests, processes, failures and restarts come between.
THEOREM EgressIsGated == Spec => []EgressGated
<1>1. IndInv => EgressGated
  BY DEF IndInv, RequestInv, Gated, Left, EgressGated, At
<1>2. QED
  BY <1>1, Inductive, PTL

\* A receipt is the terminal outcome of its request (proxy.py, _seal_outcome).
THEOREM ReceiptsAreTrue == Spec => []ReceiptTruth
<1>1. IndInv => ReceiptTruth
  <2> SUFFICES ASSUME IndInv, NEW r \in Requests
               PROVE  /\ Len(receipts[r]) <= 1
                      /\ receipts[r] = <<"blocked">> => req[r].answer = "refused" /\ r \notin sent
                      /\ r \in sent /\ conf["seals"] /\ r \notin lost
                            => receipts[r] = <<"executed">>
                      /\ receipts[r] = <<"executed">>
                            => req[r].released /\ req[r].answer # "refused"
                      /\ req[r].released /\ req[r].answer = "refused" /\ conf["seals"]
                         /\ r \notin lost => receipts[r] = <<"blocked">>
    BY DEF ReceiptTruth
  <2>1. Left(r) /\ Receipted(r)
    BY DEF IndInv, RequestInv
  <2>2. /\ <<"blocked">> # <<"executed">> /\ <<"blocked">> # <<>> /\ <<"executed">> # <<>>
        /\ Len(<<>>) = 0 /\ Len(<<"blocked">>) = 1 /\ Len(<<"executed">>) = 1
    OBVIOUS
  <2>3. receipts[r] \in {<<>>, <<"blocked">>, <<"executed">>}
    BY <2>1 DEF Receipted
  <2>4. Len(receipts[r]) <= 1
    <3>1. CASE receipts[r] = <<>>
      BY <3>1
    <3>2. CASE receipts[r] = <<"blocked">>
      BY <3>2
    <3>3. CASE receipts[r] = <<"executed">>
      BY <3>3
    <3>4. QED
      BY <2>3, <3>1, <3>2, <3>3
  <2>5. ASSUME receipts[r] = <<"blocked">>
        PROVE  req[r].answer = "refused" /\ r \notin sent
    BY <2>1, <2>2, <2>5 DEF Left, Receipted
  <2>6. ASSUME r \in sent, conf["seals"], r \notin lost
        PROVE  receipts[r] = <<"executed">>
    BY <2>1, <2>2, <2>6 DEF Left, Receipted
  <2>7. ASSUME receipts[r] = <<"executed">>
        PROVE  req[r].released /\ req[r].answer # "refused"
    BY <2>1, <2>2, <2>7 DEF Receipted
  <2>8. ASSUME req[r].released, req[r].answer = "refused", conf["seals"], r \notin lost
        PROVE  receipts[r] = <<"blocked">>
    BY <2>1, <2>2, <2>8 DEF Receipted
  <2>9. QED
    BY <2>4, <2>5, <2>6, <2>7, <2>8
<1>2. QED
  BY <1>1, Inductive, PTL

\* A process lets no redemption of a credential pass that it has consumed or
\* revoked, or found so when it started (broker.py, redeem and revoke).
THEOREM DeadStaysRefused == Spec => KnownDeadRefused
<1>1. ASSUME IndInv, [Next]_vars, NEW d \in Redemptions,
             redeem[d].pc = "idle", redeem'[d].pc = "passed"
      PROVE  redeem'[d].id \notin dead[redeem'[d].proc]
  <2>1. redeem \in [Redemptions -> Redemption]
    BY <1>1 DEF IndInv, Rest
  <2>2. redeem' # redeem
    BY <1>1
  <2>3. ASSUME NEW p \in Procs, CrashRestart(p) PROVE FALSE
    <3>1. redeem'[d] = IF redeem[d].proc = p /\ redeem[d].pc = "passed"
                       THEN [redeem[d] EXCEPT !.pc = "refused"] ELSE redeem[d]
      BY <1>1, <2>3 DEF CrashRestart
    <3>2. QED
      BY <1>1, <3>1
  <2>4. ASSUME NEW e \in Redemptions, RedeemConsume(e) PROVE FALSE
    <3>1. redeem' = [redeem EXCEPT ![e].pc = "accepted"]
      BY <2>4 DEF RedeemConsume
    <3>2. QED
      BY <1>1, <2>1, <3>1 DEF Redemption
  <2>5. PICK e \in Redemptions, r \in Requests, p \in Procs : RedeemVerify(e, r, p)
    <3>1. ASSUME NEW r \in Requests, NEW p \in Procs, RevokeCredential(r, p) PROVE FALSE
      BY <2>2, <3>1 DEF RevokeCredential
    <3>2. ASSUME NEW k \in Ids, Expire(k) PROVE FALSE
      BY <2>2, <3>2 DEF Expire
    <3>3. ASSUME NEW p \in Procs, DegradeStore(p) PROVE FALSE
      BY <2>2, <3>3 DEF DegradeStore, pepVars
    <3>4. ~UNCHANGED vars
      BY <2>2 DEF vars, pepVars
    <3>5. QED
      BY <1>1, <2>2, <2>3, <2>4, <3>1, <3>2, <3>3, <3>4, RequestLeaves DEF Next
  <2>6. e = d /\ redeem'[d].id = Credential(r) /\ redeem'[d].proc = p
    BY <1>1, <2>1, <2>5 DEF RedeemVerify
  <2>7. Credential(r) \in Ids
    BY IdFacts
  <2>8. PICK record \in Lookup(p, Credential(r)) : record = {"issued"}
    BY <2>5 DEF RedeemVerify, Redeemable
  <2>9. ~Used({"issued"}) /\ ~Used(Nothing) /\ {"issued"} # Nothing
    BY DEF Used, Nothing
  <2>10. SUFFICES ASSUME Credential(r) \in dead[p] PROVE FALSE
    BY <2>6
  <2>11. \/ Used(cache[p][Credential(r)])
         \/ cache[p][Credential(r)] = Nothing /\ Used(rows[Credential(r)])
    BY <1>1, <2>7, <2>10 DEF IndInv, DeadInv
  <2>12. QED
    BY <2>8, <2>9, <2>11 DEF Lookup
<1>2. IndInv /\ [Next]_vars
         => [\A d \in Redemptions : redeem[d].pc = "idle" /\ redeem'[d].pc = "passed"
                => redeem'[d].id \notin dead[redeem'[d].proc]]_vars
  BY <1>1
<1>3. QED
  BY <1>2, Inductive, PTL DEF Spec, KnownDeadRefused
=============================================================================
