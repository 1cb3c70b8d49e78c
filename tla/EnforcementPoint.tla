-------------------------- MODULE EnforcementPoint --------------------------
(***************************************************************************)
(* The enforcement-point proxy (src/src/tex/pep/proxy.py) and the          *)
(* credential broker (src/src/tex/authority/broker.py) on top of the       *)
(* permit store.  A request passes the destination, host and identity      *)
(* checks, the ruling, the emission gate, the egress permit, the broker    *)
(* and the receipt before it is forwarded; the credential that travels     *)
(* with it is redeemed, checked and revoked by others.  A step ends where  *)
(* the code calls the decision client, a store, the ledger or the          *)
(* upstream, so that other requests, crashes and degradations come         *)
(* between.                                                                *)
(***************************************************************************)
EXTENDS PermitStore, Sequences

CONSTANTS
    Requests,    \* requests
    Redemptions, \* redemptions of brokered credentials
    MaxRestarts  \* bound: restarts of processes

VARIABLES
    conf,      \* what is wired: permits, broker, receipts; and strict: a verified
               \* destination and an identity are required
    req,       \* per request: where it is, and what is known of it
    receipts,  \* per request: the sealed outcomes
    sent,      \* requests that have reached the upstream
    expired,   \* records past their expiry
    redeem,    \* per redemption: where it is
    dead,      \* history, per process: records it knows to be used or revoked
    lost,      \* history: requests whose receipt could not be appended
    restarts   \* history: restarts of processes

pepVars == <<conf, req, receipts, sent, expired, redeem, dead, lost, restarts>>
vars == <<storeVars, pepVars>>

Permit(r) == <<r, "permit">>
Credential(r) == <<r, "cred">>

ASSUME IdsAssumption == Ids = Requests \X {"permit", "cred"}
ASSUME BoundAssumption == MaxRestarts \in Nat

Bodies == {"asked", "tightened"}
Identities == {"none", "verified", "keyed"}  \* keyed: the card has a holder key
None == "none"

Confs ==
    {c \in [{"permits", "broker", "seals", "strict"} -> BOOLEAN] :
        c["broker"] => c["permits"]}

Redemption == [pc: {"idle", "passed", "accepted", "refused"},
               id: Ids \union {None}, proc: Procs \union {None}]
Idle == [pc |-> "idle", id |-> None, proc |-> None]

Request == [pc: {"new", "decide", "mint", "check", "consume", "broker", "seal",
                 "forward", "done"},
            proc: Procs \union {None}, opaque: BOOLEAN, identity: Identities,
            released: BOOLEAN, body: Bodies, bound: Bodies \union {None},
            answer: {None, "refused", "raised", "crashed", "forwarded"}]
Arriving == [pc |-> "new", proc |-> None, opaque |-> FALSE, identity |-> "none",
             released |-> FALSE, body |-> "asked", bound |-> None, answer |-> None]

TypeOK ==
    /\ StoreType
    /\ conf \in Confs
    /\ req \in [Requests -> Request]
    /\ receipts \in [Requests -> Seq({"executed", "blocked"})]
    /\ sent \subseteq Requests
    /\ expired \subseteq Ids
    /\ redeem \in [Redemptions -> Redemption]
    /\ dead \in [Procs -> SUBSET Ids]
    /\ lost \subseteq Requests
    /\ restarts \in 0..MaxRestarts

Init ==
    /\ StoreInit
    /\ conf \in Confs
    /\ req = [r \in Requests |-> Arriving]
    /\ receipts = [r \in Requests |-> <<>>]
    /\ sent = {}
    /\ expired = {}
    /\ redeem = [d \in Redemptions |-> Idle]
    /\ dead = [p \in Procs |-> {}]
    /\ lost = {}
    /\ restarts = 0

-----------------------------------------------------------------------------
(* A request *)

At(r, pc) == req[r].pc = pc
Moves(r, pc) == req' = [req EXCEPT ![r].pc = pc]
Answered(r, answer) == req' = [req EXCEPT ![r] = [@ EXCEPT !.pc = "done", !.answer = answer]]

\* _seal_outcome: one receipt, or nothing when receipts are off or the append
\* fails; the request goes on either way.
Seal(r, outcome) ==
    IF conf["seals"]
    THEN \/ /\ receipts' = [receipts EXCEPT ![r] = Append(@, outcome)]
            /\ UNCHANGED lost
         \/ lost' = lost \union {r} /\ UNCHANGED receipts
    ELSE UNCHANGED <<receipts, lost>>

\* A refusal after the ruling is sealed as blocked.
Refuse(r) ==
    /\ Answered(r, "refused")
    /\ Seal(r, "blocked")

Unsealed == UNCHANGED <<receipts, lost>>
Others == UNCHANGED <<conf, sent, expired, redeem, dead, restarts>>

\* _verify_identity: a bad credential always loses; none passes unless it is
\* required.
Identified(identity) == identity # "bad" /\ (conf["strict"] => identity # "none")

\* handle up to the ruling.  A destination the kernel has not verified is
\* refused when one is required, and so is a host that does not resolve to the
\* verified address; a refusal here leaves no receipt.
Start(r, p, verified, matches, identity) ==
    /\ At(r, "new")
    /\ LET known == [req[r] EXCEPT !.proc = p, !.identity = identity] IN
       req' = [req EXCEPT ![r] =
                  IF /\ conf["strict"] => verified
                     /\ verified => matches
                     /\ Identified(identity)
                  THEN [known EXCEPT !.pc = "decide"]
                  ELSE [req[r] EXCEPT !.proc = p, !.pc = "done", !.answer = "refused"]]
    /\ Unsealed
    /\ Others
    /\ UNCHANGED storeVars

\* rule_opaque up to the ruling: nothing of the request can be read.
StartOpaque(r, p) ==
    /\ At(r, "new")
    /\ req' = [req EXCEPT ![r] = [@ EXCEPT !.proc = p, !.opaque = TRUE, !.pc = "decide"]]
    /\ Unsealed
    /\ Others
    /\ UNCHANGED storeVars

\* decide: an error of the decision client is a refusal.
Decide(r) ==
    /\ At(r, "decide")
    /\ ~req[r].opaque
    /\ \/ \E body \in Bodies :  \* _apply_emission_gate
             /\ req' = [req EXCEPT ![r] = [@ EXCEPT !.released = TRUE, !.body = body,
                                                    !.pc = "mint"]]
             /\ Unsealed
       \/ Refuse(r)
    /\ Others
    /\ UNCHANGED storeVars

\* rule_opaque after the ruling: the outcome sealed is the ruling.
DecideOpaque(r) ==
    /\ At(r, "decide")
    /\ req[r].opaque
    /\ \/ /\ req' = [req EXCEPT ![r] = [@ EXCEPT !.released = TRUE, !.pc = "forward"]]
          /\ Seal(r, "executed")
       \/ Refuse(r)
    /\ Others
    /\ UNCHANGED storeVars

\* _mint_check_consume_permit, the permit bound to the bytes to be sent: no
\* secret, or an insert that raises, refuses.
Mint(r) ==
    /\ At(r, "mint")
    /\ IF ~conf["permits"]
       THEN Moves(r, "broker") /\ Unsealed /\ UNCHANGED storeVars
       ELSE \/ /\ req' = [req EXCEPT ![r] = [@ EXCEPT !.pc = "check", !.bound = req[r].body]]
               /\ Issue(req[r].proc, Permit(r))
               /\ Unsealed
            \/ IssueFails(req[r].proc, Permit(r)) /\ Refuse(r)
            \/ Refuse(r) /\ UNCHANGED storeVars
    /\ Others

Active(k, record) == record = {"issued"} /\ k \notin expired

\* The permit is verified against the bytes to be sent and looked up.
Check(r) ==
    /\ At(r, "check")
    /\ \E record \in Lookup(req[r].proc, Permit(r)) :
          IF Active(Permit(r), record) /\ req[r].bound = req[r].body
          THEN Moves(r, "consume") /\ Unsealed
          ELSE Refuse(r)
    /\ Others
    /\ UNCHANGED storeVars

\* Mutant: a consume that raises is caught and the request goes on.
ConsumeCaught(r) ==
    /\ At(r, "consume")
    /\ \/ Consume(req[r].proc, Permit(r)) /\ Moves(r, "broker")
       \/ ConsumeFails(req[r].proc, Permit(r)) /\ Moves(r, "broker")
    /\ Unsealed
    /\ Others

\* The permit is consumed; a consume that raises ends the request with the
\* exception, and without a receipt.
ConsumePermit(r) ==
    /\ At(r, "consume")
    /\ \/ Consume(req[r].proc, Permit(r)) /\ Moves(r, "broker")
       \/ ConsumeFails(req[r].proc, Permit(r)) /\ Answered(r, "raised")
    /\ Unsealed
    /\ Others

\* _broker_credential: a bound credential for the verified holder, or a
\* refusal.
Broker(r) ==
    /\ At(r, "broker")
    /\ IF ~conf["broker"]
       THEN Moves(r, "seal") /\ Unsealed /\ UNCHANGED storeVars
       ELSE \/ /\ req[r].identity = "keyed"
               /\ Issue(req[r].proc, Credential(r))
               /\ Moves(r, "seal")
               /\ Unsealed
            \/ /\ req[r].identity = "keyed"
               /\ IssueFails(req[r].proc, Credential(r))
               /\ Refuse(r)
            \/ Refuse(r) /\ UNCHANGED storeVars
    /\ Others

\* Mutant: the receipt is sealed as soon as the ruling releases the request.
SealAtRuling(r) ==
    /\ req[r].pc \in {"mint", "seal"}
    /\ receipts[r] = <<>>
    /\ Moves(r, IF req[r].pc = "mint" THEN "mint" ELSE "forward")
    /\ Seal(r, "executed")
    /\ Others
    /\ UNCHANGED storeVars

\* The whole gate let the request through: its receipt comes before it is
\* forwarded.
SealExecuted(r) ==
    /\ At(r, "seal")
    /\ Moves(r, "forward")
    /\ Seal(r, "executed")
    /\ Others
    /\ UNCHANGED storeVars

\* send, or the splice of an opaque connection: the bytes arrive, and the
\* answer may still be lost; or they do not, and the exception leaves handle.
Forward(r) ==
    /\ At(r, "forward")
    /\ \/ \E answer \in {"forwarded", "raised"} :
             sent' = sent \union {r} /\ Answered(r, answer)
       \/ Answered(r, "raised") /\ UNCHANGED sent
    /\ Unsealed
    /\ UNCHANGED <<storeVars, conf, expired, redeem, dead, restarts>>

-----------------------------------------------------------------------------
(* A credential after it has left *)

\* verify with check_single_use: the record must be there, neither revoked nor
\* used.
Redeemable(p, k) ==
    \E record \in Lookup(p, k) : record = {"issued"} /\ k \notin expired

\* redeem up to its verification.  Whoever has seen the request has its
\* credential.
RedeemVerify(d, r, p) ==
    /\ redeem[d].pc = "idle"
    /\ r \in sent
    /\ conf["broker"] /\ ~req[r].opaque
    /\ redeem' = [redeem EXCEPT ![d] =
                     [pc |-> "passed", id |-> Credential(r), proc |-> p]]
    /\ Redeemable(p, Credential(r))
    /\ UNCHANGED <<storeVars, conf, req, receipts, sent, expired, dead, lost, restarts>>

\* redeem after it: the record is looked up again and consumed; whatever goes
\* wrong with that is logged, and the answer is the verification's.
RedeemConsume(d) ==
    LET p == redeem[d].proc
        k == redeem[d].id
    IN
    /\ redeem[d].pc = "passed"
    /\ redeem' = [redeem EXCEPT ![d].pc = "accepted"]
    /\ \/ /\ Lookup(p, k) # {Nothing}
          /\ Consume(p, k)
          /\ dead' = [dead EXCEPT ![p] = @ \union {k}]
       \/ Lookup(p, k) # {Nothing} /\ ConsumeFails(p, k) /\ UNCHANGED dead
       \/ Nothing \in Lookup(p, k) /\ UNCHANGED <<storeVars, dead>>
    /\ UNCHANGED <<conf, req, receipts, sent, expired, lost, restarts>>

\* CredentialBroker.revoke of a credential that is out: True when the record
\* was found and marked.
RevokeCredential(r, p) ==
    /\ r \in sent
    /\ conf["broker"] /\ ~req[r].opaque
    /\ Lookup(p, Credential(r)) # {Nothing}
    /\ \/ /\ Revoke(p, Credential(r))
          /\ dead' = [dead EXCEPT ![p] = @ \union {Credential(r)}]
       \/ RevokeFails(p, Credential(r)) /\ UNCHANGED dead
    /\ UNCHANGED <<conf, req, receipts, sent, expired, redeem, lost, restarts>>

\* Time passes the expiry of a permit or credential, while it still matters.
Expire(k) ==
    /\ k \notin expired
    /\ \E r \in Requests :
          \/ k = Permit(r) /\ At(r, "check")
          \/ k = Credential(r) /\ r \in sent /\ conf["broker"]
    /\ expired' = expired \union {k}
    /\ UNCHANGED <<storeVars, conf, req, receipts, sent, redeem, dead, lost, restarts>>

\* The store of a process is marked degraded.
DegradeStore(p) == Degrade(p) /\ UNCHANGED pepVars

\* A process dies with its requests and redemptions and starts again.  It
\* knows of the uses and revocations it finds in the table.
CrashRestart(p) ==
    /\ restarts < MaxRestarts
    /\ restarts' = restarts + 1
    /\ Restart(p)
    /\ req' = [r \in Requests |->
                  IF req[r].proc = p /\ req[r].pc # "done"
                  THEN [req[r] EXCEPT !.pc = "done", !.answer = "crashed"]
                  ELSE req[r]]
    /\ redeem' = [d \in Redemptions |->
                     IF redeem[d].proc = p /\ redeem[d].pc = "passed"
                     THEN [redeem[d] EXCEPT !.pc = "refused"] ELSE redeem[d]]
    /\ dead' = [dead EXCEPT ![p] = {k \in Ids : rows[k] \cap {"consumed", "revoked"} # {}}]
    /\ UNCHANGED <<conf, receipts, sent, expired, lost>>

Next ==
    \/ \E r \in Requests :
          \/ \E p \in Procs, verified, matches \in BOOLEAN,
                identity \in Identities \union {"bad"} :
                Start(r, p, verified, matches, identity)
          \/ \E p \in Procs : StartOpaque(r, p)
          \/ Decide(r) \/ DecideOpaque(r) \/ Mint(r) \/ Check(r) \/ ConsumePermit(r)
          \/ Broker(r) \/ SealExecuted(r) \/ Forward(r)
          \/ \E p \in Procs : RevokeCredential(r, p)
    \/ \E d \in Redemptions :
          \/ \E r \in Requests, p \in Procs : RedeemVerify(d, r, p)
          \/ RedeemConsume(d)
    \/ \E k \in Ids : Expire(k)
    \/ \E p \in Procs : DegradeStore(p) \/ CrashRestart(p)

Spec == Init /\ [][Next]_vars

-----------------------------------------------------------------------------
(* Properties *)

\* The process that handled request r has it on record that the permit is used,
\* or has restarted since, when the table may not have it.
PermitUsed(r) ==
    \/ "consumed" \in rows[Permit(r)]
    \/ "consumed" \in cache[req[r].proc][Permit(r)]

\* A request that reached the upstream was released; and unless it was opaque,
\* its permit was bound to the very bytes that left and was used up before they
\* did, and its credential went to a holder whose key was verified.
\* (proxy.py, handle: what may lie between the ruling and send.)
EgressGated ==
    \A r \in Requests :
        (At(r, "forward") \/ r \in sent) =>
            /\ req[r].released
            /\ ~req[r].opaque /\ conf["permits"] =>
                  /\ req[r].bound = req[r].body
                  /\ At(r, "forward") => PermitUsed(r)
            /\ ~req[r].opaque /\ conf["broker"] => req[r].identity = "keyed"
            /\ conf["strict"] /\ ~req[r].opaque => req[r].identity # "none"

\* A request has at most one receipt.  A blocked one is of a request that is
\* over and never reached the upstream; a request that reached it has an
\* executed one, unless the append failed; and a request that the ruling
\* released and a later gate refused has a blocked one, unless the append
\* failed.  (proxy.py, _seal_outcome: the receipt is the terminal outcome.)
ReceiptTruth ==
    \A r \in Requests :
        /\ Len(receipts[r]) <= 1
        /\ receipts[r] = <<"blocked">> => req[r].answer = "refused" /\ r \notin sent
        /\ r \in sent /\ conf["seals"] /\ r \notin lost => receipts[r] = <<"executed">>
        /\ receipts[r] = <<"executed">> => req[r].released /\ req[r].answer # "refused"
        /\ req[r].released /\ req[r].answer = "refused" /\ conf["seals"] /\ r \notin lost
              => receipts[r] = <<"blocked">>

\* A process that has consumed or revoked a credential, or has found it used or
\* revoked when it started, lets no redemption of it pass its verification,
\* whatever happens to its store afterwards.
\* (broker.py, redeem and revoke; permit_store.py, _hydrate_cache.)
KnownDeadRefused ==
    [][\A d \in Redemptions :
          redeem[d].pc = "idle" /\ redeem'[d].pc = "passed"
             => redeem'[d].id \notin dead[redeem'[d].proc]]_vars

-----------------------------------------------------------------------------
(* Strengthenings that make the invariants above inductive.                *)

\* A request on its way: what each check it has passed has left behind, in
\* the order of the checks.
Gated(r) ==
    LET q == req[r] IN
    /\ q.pc # "done" <=> q.answer = None
    /\ q.pc \in {"new", "decide"} => ~q.released
    /\ q.pc \in {"mint", "check", "consume", "broker", "seal", "forward"} => q.released
    /\ q.opaque => q.pc \in {"decide", "forward", "done"}
    /\ q.pc \notin {"new", "done"} =>
          /\ q.proc \in Procs
          /\ ~q.opaque /\ conf["strict"] => q.identity # "none"
    /\ ~q.opaque /\ conf["permits"] =>
          /\ q.pc \in {"check", "consume", "broker", "seal", "forward"} => q.bound = q.body
          /\ q.pc \in {"broker", "seal", "forward"} => PermitUsed(r)
    /\ ~q.opaque /\ conf["broker"] /\ q.pc \in {"seal", "forward"} => q.identity = "keyed"

\* A request that has left is over, and keeps what the checks found.
Left(r) ==
    LET q == req[r] IN
    r \in sent =>
        /\ q.pc = "done" /\ q.answer # "refused" /\ q.released
        /\ ~q.opaque =>
              /\ conf["permits"] => q.bound = q.body
              /\ conf["broker"] => q.identity = "keyed"
              /\ conf["strict"] => q.identity # "none"

\* The receipts of a request follow from where it is and how it ended.
Receipted(r) ==
    LET q == req[r]
        owed == conf["seals"] /\ r \notin lost
    IN
    /\ q.pc \notin {"forward", "done"} => receipts[r] = <<>>
    /\ q.answer = "refused" => receipts[r] \in {<<>>, <<"blocked">>}
    /\ q.answer # "refused" => receipts[r] \in {<<>>, <<"executed">>}
    /\ q.answer = "refused" /\ q.released /\ owed => receipts[r] # <<>>
    /\ (q.pc = "forward" \/ r \in sent) /\ owed => receipts[r] # <<>>
    /\ receipts[r] # <<>> /\ q.answer # "refused" => q.released

\* No store knows a permit before it is minted, nor a credential before it is
\* brokered: a record is never issued twice.
Unknown(k) == rows[k] = Nothing /\ \A p \in Procs : cache[p][k] = Nothing
Fresh(r) ==
    /\ req[r].pc \in {"new", "decide", "mint"} => Unknown(Permit(r))
    /\ req[r].pc \in {"new", "decide", "mint", "check", "consume", "broker"}
          => Unknown(Credential(r))

RequestInv == \A r \in Requests : Gated(r) /\ Left(r) /\ Receipted(r) /\ Fresh(r)

\* A redemption under way is of a credential that has left.
RedeemInv ==
    \A d \in Redemptions : redeem[d].pc = "passed" =>
        /\ redeem[d].proc \in Procs
        /\ \E r \in sent : redeem[d].id = Credential(r)

\* A process that knows a record to be dead has the mark in its cache, or has
\* not cached the record and finds the mark in the table.
Used(record) == "consumed" \in record \/ "revoked" \in record
DeadInv ==
    \A p \in Procs, k \in Ids : k \in dead[p] =>
        \/ Used(cache[p][k])
        \/ cache[p][k] = Nothing /\ Used(rows[k])
=============================================================================
