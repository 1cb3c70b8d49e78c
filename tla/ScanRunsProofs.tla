--------------------------- MODULE ScanRunsProofs ---------------------------
(***************************************************************************)
(* Theorems about ScanRuns for any number of processes, threads, tenants,  *)
(* keys and runs.                                                          *)
(***************************************************************************)
EXTENDS ScanRuns, TLAPS

\* What MoveTo does, worker by worker.
Moved(w, where, rq, r) ==
    /\ pc' \in [Workers -> Places]
    /\ req' \in [Workers -> Requests \union {NoRequest}]
    /\ run' \in [Workers -> Runs \union {NoRun}]
    /\ own' \in [Workers -> BOOLEAN]
    /\ pc'[w] = where /\ req'[w] = rq /\ run'[w] = r /\ own'[w] = FALSE
    /\ \A v \in Workers : v # w =>
          /\ pc'[v] = pc[v] /\ req'[v] = req[v]
          /\ run'[v] = run[v] /\ own'[v] = own[v]

LEMMA MoveToFacts ==
    ASSUME TypeOK, NEW w \in Workers, NEW where, where \in Places,
           NEW rq, rq \in Requests \/ rq = NoRequest,
           NEW r, r \in Runs \/ r = NoRun, MoveTo(w, where, rq, r)
    PROVE  Moved(w, where, rq, r)
BY DEF MoveTo, TypeOK, Moved

\* What Close does, entry by entry.
Closing(p, r) ==
    /\ rows' \in [Runs -> Status]
    /\ cache' \in [Procs -> [Runs -> Status]]
    /\ stale' \in [Procs -> SUBSET Runs]
    /\ active' \in [Procs -> [Tenants -> Runs \union {NoRun}]]
    /\ \A x \in Runs : rows'[x] = "running" => rows[x] = "running"
    /\ \A x \in Runs : x # r => rows'[x] = rows[x]
    /\ \A x \in Runs : rows[x] = "none" => rows'[x] = "none"
    /\ \A q \in Procs, x \in Runs :
          q # p \/ x # r => cache'[q][x] = cache[q][x]
    /\ \A q \in Procs : stale'[q] \subseteq stale[q]
    /\ \A q \in Procs, t \in Tenants :
          active'[q][t] = IF q = p /\ active[q][t] = r
                            THEN NoRun ELSE active[q][t]

LEMMA CloseFacts ==
    ASSUME TypeOK, NEW p \in Procs, NEW r \in Runs, NEW status \in Closed,
           Close(p, r, status)
    PROVE  Closing(p, r)
<1> USE DEF TypeOK, Close, Closed
<1>1. status \in Status /\ status # "running" /\ status # "none"
  BY DEF Status
<1>2. /\ rows' \in [Runs -> Status]
      /\ \A x \in Runs : rows'[x] = "running" => rows[x] = "running"
      /\ \A x \in Runs : x # r => rows'[x] = rows[x]
      /\ \A x \in Runs : rows[x] = "none" => rows'[x] = "none"
  BY <1>1 DEF RowsClosed
<1>3. /\ cache' \in [Procs -> [Runs -> Status]]
      /\ \A q \in Procs, x \in Runs :
            q # p \/ x # r => cache'[q][x] = cache[q][x]
  BY <1>1
<1>4. /\ stale' \in [Procs -> SUBSET Runs]
      /\ \A q \in Procs : stale'[q] \subseteq stale[q]
  BY <1>1
<1>5. /\ active' \in [Procs -> [Tenants -> Runs \union {NoRun}]]
      /\ \A q \in Procs, t \in Tenants :
            active'[q][t] = IF q = p /\ active[q][t] = r
                              THEN NoRun ELSE active[q][t]
  BY DEF ActiveWithout
<1>6. QED
  BY <1>2, <1>3, <1>4, <1>5 DEF Closing

-----------------------------------------------------------------------------
(* Type correctness and the bookkeeping that holds whatever fails.           *)

Inv == TypeOK /\ CallInv /\ UnopenedInv /\ ActiveRunning

LEMMA InvInit == Init => Inv
<1> SUFFICES ASSUME Init PROVE Inv
  OBVIOUS
<1> USE DEF Init
<1>1. TypeOK
  BY BoundAssumption DEF TypeOK, Status, Places, Busy
<1>2. CallInv
  BY DEF CallInv, Busy
<1>3. UnopenedInv /\ ActiveRunning
  BY DEF UnopenedInv, ActiveRunning
<1>4. QED
  BY <1>1, <1>2, <1>3 DEF Inv

LEMMA FindKeyStep ==
    ASSUME Inv, NEW w \in Workers, NEW rq \in Requests, FindKey(w, rq)
    PROVE  Inv'
<1> USE DEF Inv
<1>1. PICK r \in Runs, where \in {"scanning", "replayed"} :
          MoveTo(w, where, rq, r)
  BY DEF FindKey
<1>2. UNCHANGED <<rows, asked, opened, cache, stale, active, crashes>>
  BY DEF FindKey
<1>3. where \in Places /\ where \in Busy \union {"replayed"}
  BY DEF Places, Busy
<1>4. Moved(w, where, rq, r)
  BY <1>1, <1>3, MoveToFacts
<1>5. TypeOK'
  BY <1>2, <1>4 DEF TypeOK, Moved
<1>6. CallInv'
  BY <1>4 DEF CallInv, Moved
<1>7. UnopenedInv' /\ ActiveRunning'
  BY <1>2 DEF UnopenedInv, ActiveRunning
<1>8. QED
  BY <1>5, <1>6, <1>7

LEMMA RefuseStep ==
    ASSUME Inv, NEW w \in Workers, NEW rq \in Requests, Refuse(w, rq)
    PROVE  Inv'
<1> USE DEF Inv
<1>1. /\ MoveTo(w, "refused", rq, NoRun)
      /\ UNCHANGED <<rows, asked, opened, cache, stale, active, crashes>>
  BY DEF Refuse
<1>2. "refused" \in Places /\ "refused" \notin Busy /\ "refused" # "scanning"
  BY DEF Places, Busy
<1>3. Moved(w, "refused", rq, NoRun)
  BY <1>1, <1>2, MoveToFacts
<1>4. TypeOK'
  BY <1>1, <1>3 DEF TypeOK, Moved
<1>5. CallInv'
  BY <1>2, <1>3 DEF CallInv, Moved
<1>6. UnopenedInv' /\ ActiveRunning'
  BY <1>1 DEF UnopenedInv, ActiveRunning
<1>7. QED
  BY <1>4, <1>5, <1>6

\* Closing a run in one process keeps the bookkeeping.
LEMMA CloseStep ==
    ASSUME Inv, NEW p \in Procs, NEW r \in Runs, NEW status \in Closed,
           Close(p, r, status), UNCHANGED <<asked, opened>>,
           cache[p][r] # "none"
    PROVE  Closing(p, r) /\ UnopenedInv' /\ ActiveRunning'
<1> USE DEF Inv
<1>1. Closing(p, r)
  BY CloseFacts
<1>2. UnopenedInv'
  <2> SUFFICES ASSUME NEW x \in Runs, x > opened
               PROVE  /\ rows'[x] = "none"
                      /\ \A q \in Procs : cache'[q][x] = "none" /\ x \notin stale'[q]
    BY DEF UnopenedInv
  <2>1. x # r /\ rows[x] = "none"
    BY DEF UnopenedInv
  <2>2. \A q \in Procs : cache[q][x] = "none" /\ x \notin stale[q]
    BY DEF UnopenedInv
  <2>3. QED
    BY <1>1, <2>1, <2>2 DEF Closing
<1>3. ActiveRunning'
  <2> SUFFICES ASSUME NEW q \in Procs, NEW t \in Tenants,
                      active'[q][t] # NoRun
               PROVE  /\ cache'[q][active'[q][t]] = "running"
                      /\ asked[active'[q][t]].tenant = t
    BY DEF ActiveRunning
  <2>1. active'[q][t] = active[q][t] /\ (q # p \/ active[q][t] # r)
    BY <1>1 DEF Closing
  <2>2. active[q][t] \in Runs
    BY <2>1 DEF TypeOK
  <2>3. cache'[q][active[q][t]] = cache[q][active[q][t]]
    BY <1>1, <2>1, <2>2 DEF Closing
  <2>4. QED
    BY <2>1, <2>3 DEF ActiveRunning
<1>4. QED
  BY <1>1, <1>2, <1>3

LEMMA CheckStep ==
    ASSUME Inv, NEW w \in Workers, NEW rq \in Requests, Check(w, rq)
    PROVE  Inv'
<1> USE DEF Inv
<1>0. w[1] \in Procs /\ rq.tenant \in Tenants
  BY WorkerAssumption DEF Requests
<1>1. MoveTo(w, "opening", rq, NoRun) /\ UNCHANGED <<asked, opened, crashes>>
  BY DEF Check
<1>2. "opening" \in Places /\ "opening" # "scanning"
  BY DEF Places, Busy
<1>3. Moved(w, "opening", rq, NoRun)
  BY <1>1, <1>2, MoveToFacts
<1>4. CallInv'
  BY <1>2, <1>3 DEF CallInv, Moved
<1>5. CASE UNCHANGED <<rows, cache, stale, active>>
  <2>1. TypeOK'
    BY <1>1, <1>3, <1>5 DEF TypeOK, Moved
  <2>2. UnopenedInv' /\ ActiveRunning'
    BY <1>1, <1>5 DEF UnopenedInv, ActiveRunning
  <2>3. QED
    BY <1>4, <2>1, <2>2
<1>6. CASE LET holder == active[w[1]][rq.tenant] IN
           /\ holder # NoRun
           /\ IsStale(w[1], holder)
           /\ Close(w[1], holder, "failed")
  <2> DEFINE holder == active[w[1]][rq.tenant]
  <2>1. holder \in Runs /\ cache[w[1]][holder] # "none" /\ "failed" \in Closed
    BY <1>0, <1>6 DEF TypeOK, IsStale, Closed
  <2>2. Close(w[1], holder, "failed")
    BY <1>6
  <2> HIDE DEF holder
  <2>3. Closing(w[1], holder) /\ UnopenedInv' /\ ActiveRunning'
    BY <1>0, <1>1, <2>1, <2>2, CloseStep
  <2>4. TypeOK'
    BY <1>1, <1>3, <2>3 DEF TypeOK, Moved, Closing
  <2>5. QED
    BY <1>4, <2>3, <2>4
<1>7. QED
  BY <1>5, <1>6 DEF Check

LEMMA OpenStep ==
    ASSUME Inv, NEW w \in Workers, Open(w)
    PROVE  Inv'
<1> USE DEF Inv, NextRun
<1> DEFINE r == opened + 1
<1>0. w[1] \in Procs /\ req[w] \in Requests /\ req[w].tenant \in Tenants
  BY WorkerAssumption DEF Requests, Open, CallInv, Busy
<1>1. r \in Runs /\ opened' = r /\ r > opened /\ opened \in Nat
  BY BoundAssumption DEF Open, TypeOK, Runs
<1>2. /\ asked' = [asked EXCEPT ![r] = req[w]]
      /\ rows' \in {rows, [rows EXCEPT ![r] = "running"]}
      /\ cache' = [cache EXCEPT ![w[1]][r] = "running"]
      /\ active' = [active EXCEPT ![w[1]][req[w].tenant] = r]
      /\ pc' = [pc EXCEPT ![w] = "scanning"]
      /\ run' = [run EXCEPT ![w] = r]
      /\ own' = [own EXCEPT ![w] = TRUE]
      /\ UNCHANGED <<stale, req, crashes>>
  BY DEF Open
<1> HIDE DEF r
<1>3. TypeOK'
  <2>1. "scanning" \in Places /\ "running" \in Status
    BY DEF Places, Busy, Status
  <2>2. opened' \in 0..MaxRuns
    BY <1>1 DEF Runs
  <2>3. /\ rows' \in [Runs -> Status]
        /\ asked' \in [Runs -> Requests \union {NoRequest}]
        /\ cache' \in [Procs -> [Runs -> Status]]
    BY <1>0, <1>1, <1>2, <2>1 DEF TypeOK
  <2>4. active' \in [Procs -> [Tenants -> Runs \union {NoRun}]]
    BY <1>0, <1>1, <1>2 DEF TypeOK
  <2>5. /\ pc' \in [Workers -> Places]
        /\ run' \in [Workers -> Runs \union {NoRun}]
        /\ own' \in [Workers -> BOOLEAN]
    BY <1>1, <1>2, <2>1 DEF TypeOK
  <2>6. QED
    BY <1>2, <2>2, <2>3, <2>4, <2>5 DEF TypeOK
<1>4. CallInv'
  BY <1>0, <1>1, <1>2 DEF CallInv, TypeOK
<1>5. UnopenedInv'
  <2> SUFFICES ASSUME NEW x \in Runs, x > opened'
               PROVE  /\ rows'[x] = "none"
                      /\ \A q \in Procs : cache'[q][x] = "none" /\ x \notin stale'[q]
    BY DEF UnopenedInv
  <2>1. x # r /\ x > opened
    BY <1>1 DEF Runs
  <2>2. rows'[x] = rows[x] /\ \A q \in Procs : cache'[q][x] = cache[q][x]
    BY <1>0, <1>1, <1>2, <2>1 DEF TypeOK
  <2>3. QED
    BY <1>2, <2>1, <2>2 DEF UnopenedInv
<1>6. ActiveRunning'
  <2> SUFFICES ASSUME NEW q \in Procs, NEW t \in Tenants,
                      active'[q][t] # NoRun
               PROVE  /\ cache'[q][active'[q][t]] = "running"
                      /\ asked'[active'[q][t]].tenant = t
    BY DEF ActiveRunning
  <2>1. CASE q = w[1] /\ t = req[w].tenant
    <3>1. active'[q][t] = r
      BY <1>0, <1>2, <2>1 DEF TypeOK
    <3>2. cache'[q][r] = "running" /\ asked'[r] = req[w]
      BY <1>0, <1>1, <1>2, <2>1 DEF TypeOK
    <3>3. QED
      BY <2>1, <3>1, <3>2
  <2>2. CASE q # w[1] \/ t # req[w].tenant
    <3>1. active'[q][t] = active[q][t]
      BY <1>0, <1>2, <2>2 DEF TypeOK
    <3>2. active[q][t] \in Runs /\ cache[q][active[q][t]] = "running"
      BY <3>1 DEF TypeOK, ActiveRunning
    <3>3. active[q][t] # r
      BY <1>1, <3>2 DEF UnopenedInv
    <3>4. /\ cache'[q][active[q][t]] = cache[q][active[q][t]]
          /\ asked'[active[q][t]] = asked[active[q][t]]
      BY <1>0, <1>1, <1>2, <3>2, <3>3 DEF TypeOK
    <3>5. QED
      BY <3>1, <3>4 DEF ActiveRunning
  <2>3. QED
    BY <2>1, <2>2
<1>7. QED
  BY <1>3, <1>4, <1>5, <1>6

LEMMA ConflictedStep ==
    ASSUME Inv, NEW w \in Workers, Conflicted(w)
    PROVE  Inv'
<1> USE DEF Inv
<1>1. w[1] \in Procs /\ req[w] \in Requests /\ req[w].tenant \in Tenants
  BY WorkerAssumption DEF Requests, Conflicted, CallInv, Busy
<1>2. PICK holder \in Runs :
          /\ rows[holder] = "running" /\ asked[holder].tenant = req[w].tenant
          /\ cache' = [cache EXCEPT ![w[1]][holder] = "running"]
          /\ stale' = [stale EXCEPT ![w[1]] = @ \ {holder}]
          /\ active' = [active EXCEPT ![w[1]][req[w].tenant] = holder]
          /\ MoveTo(w, "refused", req[w], NoRun)
  BY DEF Conflicted
<1>3. UNCHANGED <<rows, asked, opened, crashes>>
  BY DEF Conflicted
<1>4. "refused" \in Places /\ "refused" \notin Busy /\ "refused" # "scanning"
  BY DEF Places, Busy
<1>5. Moved(w, "refused", req[w], NoRun)
  BY <1>1, <1>2, <1>4, MoveToFacts
<1>6. TypeOK'
  <2>1. "running" \in Status
    BY DEF Status
  <2>2. cache' \in [Procs -> [Runs -> Status]]
    BY <1>1, <1>2, <2>1 DEF TypeOK
  <2>3. /\ stale' \in [Procs -> SUBSET Runs]
        /\ active' \in [Procs -> [Tenants -> Runs \union {NoRun}]]
    BY <1>1, <1>2 DEF TypeOK
  <2>4. QED
    BY <1>3, <1>5, <2>2, <2>3 DEF TypeOK, Moved
<1>7. CallInv'
  BY <1>4, <1>5 DEF CallInv, Moved
<1>8. UnopenedInv'
  <2> SUFFICES ASSUME NEW x \in Runs, x > opened, NEW q \in Procs
               PROVE  rows[x] = "none" /\ cache'[q][x] = "none" /\ x \notin stale'[q]
    BY <1>3 DEF UnopenedInv
  <2>1. x # holder /\ rows[x] = "none" /\ cache[q][x] = "none" /\ x \notin stale[q]
    BY <1>2 DEF UnopenedInv
  <2>2. QED
    BY <1>1, <1>2, <2>1 DEF TypeOK
<1>9. ActiveRunning'
  <2> SUFFICES ASSUME NEW q \in Procs, NEW t \in Tenants,
                      active'[q][t] # NoRun
               PROVE  /\ cache'[q][active'[q][t]] = "running"
                      /\ asked[active'[q][t]].tenant = t
    BY <1>3 DEF ActiveRunning
  <2>1. CASE q = w[1] /\ t = req[w].tenant
    <3>1. active'[q][t] = holder /\ cache'[q][holder] = "running"
      BY <1>1, <1>2, <2>1 DEF TypeOK
    <3>2. QED
      BY <1>2, <2>1, <3>1
  <2>2. CASE q # w[1] \/ t # req[w].tenant
    <3>1. active'[q][t] = active[q][t]
      BY <1>1, <1>2, <2>2 DEF TypeOK
    <3>2. active[q][t] \in Runs /\ cache[q][active[q][t]] = "running"
      BY <3>1 DEF TypeOK, ActiveRunning
    <3>3. cache'[q][active[q][t]] = "running"
      BY <1>1, <1>2, <3>2 DEF TypeOK
    <3>4. QED
      BY <3>1, <3>3 DEF ActiveRunning
  <2>3. QED
    BY <2>1, <2>2
<1>10. QED
  BY <1>6, <1>7, <1>8, <1>9

LEMMA ConflictErrsStep ==
    ASSUME Inv, NEW w \in Workers, ConflictErrs(w)
    PROVE  Inv'
<1> USE DEF Inv
<1>1. w[1] \in Procs /\ req[w].tenant \in Tenants
  BY WorkerAssumption DEF Requests, ConflictErrs, CallInv, Busy
<1>2. /\ active' = [active EXCEPT ![w[1]][req[w].tenant] = NoRun]
      /\ MoveTo(w, "idle", NoRequest, NoRun)
      /\ UNCHANGED <<rows, asked, opened, cache, stale, crashes>>
  BY DEF ConflictErrs
<1>3. "idle" \in Places /\ "idle" \notin Busy /\ "idle" # "scanning"
  BY DEF Places, Busy
<1>4. Moved(w, "idle", NoRequest, NoRun)
  BY <1>2, <1>3, MoveToFacts
<1>5. /\ active' \in [Procs -> [Tenants -> Runs \union {NoRun}]]
      /\ \A q \in Procs, t \in Tenants : active'[q][t] \in {active[q][t], NoRun}
  BY <1>1, <1>2 DEF TypeOK
<1>6. TypeOK'
  BY <1>2, <1>4, <1>5 DEF TypeOK, Moved
<1>7. CallInv'
  BY <1>3, <1>4 DEF CallInv, Moved
<1>8. UnopenedInv' /\ ActiveRunning'
  BY <1>2, <1>5 DEF UnopenedInv, ActiveRunning
<1>9. QED
  BY <1>6, <1>7, <1>8

LEMMA HeartbeatStep ==
    ASSUME Inv, NEW w \in Workers, Heartbeat(w)
    PROVE  Inv'
<1> USE DEF Inv
<1>1. /\ stale' = [stale EXCEPT ![w[1]] = @ \ {run[w]}]
      /\ UNCHANGED <<rows, asked, opened, cache, active, pc, req, run, own, crashes>>
  BY DEF Heartbeat
<1>2. /\ stale' \in [Procs -> SUBSET Runs]
      /\ \A q \in Procs : stale'[q] \subseteq stale[q]
  BY <1>1, WorkerAssumption DEF TypeOK
<1>3. TypeOK' /\ CallInv'
  BY <1>1, <1>2 DEF TypeOK, CallInv
<1>4. UnopenedInv' /\ ActiveRunning'
  BY <1>1, <1>2 DEF UnopenedInv, ActiveRunning
<1>5. QED
  BY <1>3, <1>4

LEMMA EndStep ==
    ASSUME Inv, NEW w \in Workers, NEW status \in Closed, End(w, status)
    PROVE  Inv'
<1> USE DEF Inv
<1>1. w[1] \in Procs /\ run[w] \in Runs
  BY WorkerAssumption DEF End, CallInv
<1>2. /\ MoveTo(w, "idle", NoRequest, NoRun)
      /\ UNCHANGED <<asked, opened, crashes>>
  BY DEF End
<1>3. "idle" \in Places /\ "idle" \notin Busy /\ "idle" # "scanning"
  BY DEF Places, Busy
<1>4. Moved(w, "idle", NoRequest, NoRun)
  BY <1>2, <1>3, MoveToFacts
<1>5. CallInv'
  BY <1>3, <1>4 DEF CallInv, Moved
<1>6. CASE cache[w[1]][run[w]] # "none"
  <2>1. Close(w[1], run[w], status)
    BY <1>6 DEF End
  <2>2. Closing(w[1], run[w]) /\ UnopenedInv' /\ ActiveRunning'
    BY <1>1, <1>2, <1>6, <2>1, CloseStep
  <2>3. TypeOK'
    BY <1>2, <1>4, <2>2 DEF TypeOK, Moved, Closing
  <2>4. QED
    BY <1>5, <2>2, <2>3
<1>7. CASE cache[w[1]][run[w]] = "none"
  <2>1. UNCHANGED <<rows, cache, stale, active>>
    BY <1>7 DEF End
  <2>2. TypeOK'
    BY <1>2, <1>4, <2>1 DEF TypeOK, Moved
  <2>3. UnopenedInv' /\ ActiveRunning'
    BY <1>2, <2>1 DEF UnopenedInv, ActiveRunning
  <2>4. QED
    BY <1>5, <2>2, <2>3
<1>8. QED
  BY <1>6, <1>7

LEMMA AgeStep ==
    ASSUME Inv, NEW p \in Procs, NEW r \in Runs, Age(p, r)
    PROVE  Inv'
<1> USE DEF Inv
<1>1. /\ stale' = [stale EXCEPT ![p] = @ \union {r}]
      /\ UNCHANGED <<rows, asked, opened, cache, active, pc, req, run, own, crashes>>
      /\ cache[p][r] = "running"
  BY DEF Age
<1>2. stale' \in [Procs -> SUBSET Runs]
  BY <1>1 DEF TypeOK
<1>3. TypeOK' /\ CallInv'
  BY <1>1, <1>2 DEF TypeOK, CallInv
<1>4. ActiveRunning'
  BY <1>1 DEF ActiveRunning
<1>5. UnopenedInv'
  <2> SUFFICES ASSUME NEW x \in Runs, x > opened, NEW q \in Procs
               PROVE  rows[x] = "none" /\ cache[q][x] = "none" /\ x \notin stale'[q]
    BY <1>1 DEF UnopenedInv
  <2>1. rows[x] = "none" /\ cache[q][x] = "none" /\ x \notin stale[q]
    BY DEF UnopenedInv
  <2>2. ~(q = p /\ x = r)
    BY <1>1, <2>1
  <2>3. QED
    BY <1>1, <2>1, <2>2 DEF TypeOK
<1>6. QED
  BY <1>3, <1>4, <1>5

LEMMA CrashStep ==
    ASSUME Inv, NEW p \in Procs, Crash(p)
    PROVE  Inv'
<1> USE DEF Inv
<1>1. /\ crashes < MaxCrashes /\ crashes' = crashes + 1
      /\ cache' = [cache EXCEPT ![p] = [r \in Runs |-> "none"]]
      /\ stale' = [stale EXCEPT ![p] = {}]
      /\ active' = [active EXCEPT ![p] = [t \in Tenants |-> NoRun]]
      /\ UNCHANGED <<rows, asked, opened>>
  BY DEF Crash
<1>2. /\ pc' = [w \in Workers |-> IF w[1] = p THEN "idle" ELSE pc[w]]
      /\ req' = [w \in Workers |-> IF w[1] = p THEN NoRequest ELSE req[w]]
      /\ run' = [w \in Workers |-> IF w[1] = p THEN NoRun ELSE run[w]]
      /\ own' = [w \in Workers |-> own[w] /\ w[1] # p]
  BY DEF Crash
<1>3. TypeOK'
  <2>1. "none" \in Status /\ "idle" \in Places
    BY DEF Status, Places
  <2>2. crashes' \in 0..MaxCrashes
    BY <1>1, BoundAssumption DEF TypeOK
  <2>3. /\ cache' \in [Procs -> [Runs -> Status]]
        /\ stale' \in [Procs -> SUBSET Runs]
        /\ active' \in [Procs -> [Tenants -> Runs \union {NoRun}]]
    BY <1>1, <2>1 DEF TypeOK
  <2>4. /\ pc' \in [Workers -> Places]
        /\ req' \in [Workers -> Requests \union {NoRequest}]
        /\ run' \in [Workers -> Runs \union {NoRun}]
    BY <1>2, <2>1 DEF TypeOK
  <2>5. own' \in [Workers -> BOOLEAN]
    BY <1>2, Zenon
  <2>6. QED
    BY <1>1, <2>2, <2>3, <2>4, <2>5 DEF TypeOK
<1>4. CallInv'
  BY <1>2 DEF CallInv, Busy
<1>5. UnopenedInv'
  BY <1>1 DEF UnopenedInv, TypeOK
<1>6. ActiveRunning'
  BY <1>1 DEF ActiveRunning, TypeOK
<1>7. QED
  BY <1>3, <1>4, <1>5, <1>6

LEMMA InvStep == Inv /\ [Next]_vars => Inv'
<1> SUFFICES ASSUME Inv, [Next]_vars PROVE Inv'
  OBVIOUS
<1>1. ASSUME NEW w \in Workers, Acquire(w) PROVE Inv'
  BY <1>1, FindKeyStep, RefuseStep, CheckStep, OpenStep, ConflictedStep,
     ConflictErrsStep DEF Acquire
<1>2. ASSUME NEW w \in Workers, Complete(w) \/ Fail(w) PROVE Inv'
  <2>1. "completed" \in Closed /\ "failed" \in Closed
    BY DEF Closed
  <2>2. QED
    BY <1>2, <2>1, EndStep DEF Complete, Fail
<1>3. CASE UNCHANGED vars
  BY <1>3 DEF vars, Inv, TypeOK, CallInv, UnopenedInv, ActiveRunning
<1>4. QED
  BY <1>1, <1>2, <1>3, HeartbeatStep, AgeStep, CrashStep DEF Next

LEMMA InvHolds == Spec => []Inv
<1>1. QED
  BY InvInit, InvStep, PTL DEF Spec

\* Every process, thread and row of the scan run store keeps its shape.
THEOREM TypeCorrect == Spec => []TypeOK
<1>1. Inv => TypeOK
  BY DEF Inv
<1>2. QED
  BY <1>1, InvHolds, PTL

\* _active_by_tenant never names a run that is closed in the same process, or
\* another tenant's, so that a stale holder can always be reclaimed.
THEOREM NoClosedHolder == Spec => []ActiveRunning
<1>1. Inv => ActiveRunning
  BY DEF Inv
<1>2. QED
  BY <1>1, InvHolds, PTL

-----------------------------------------------------------------------------
(* The scan lock.  No scan outlasts stale_lock_seconds, so that only the     *)
(* lock of a dead scan is reclaimed.                                         *)

LockInv == OwnerInv /\ OpeningInv /\ IndexInv /\ LockHeld /\ FreshInv

LEMMA LockInit == Init => LockInv
BY DEF Init, LockInv, OwnerInv, OpeningInv, IndexInv, LockHeld, LockedScan, FreshInv

\* A call that is not scanning afterwards disturbs no other call's run.
LEMMA NotScanning ==
    ASSUME Inv, LockInv, NEW w \in Workers, NEW where, where # "scanning",
           NEW rq, NEW r, Moved(w, where, rq, r), UNCHANGED <<asked, opened>>,
           \A q \in Procs : stale'[q] \subseteq stale[q]
    PROVE  OwnerInv' /\ FreshInv'
<1>1. \A v \in Workers : pc'[v] = "scanning" =>
          /\ pc[v] = "scanning" /\ req'[v] = req[v]
          /\ run'[v] = run[v] /\ own'[v] = own[v]
  BY DEF Moved
<1>2. OwnerInv'
  BY <1>1 DEF LockInv, OwnerInv
<1>3. FreshInv'
  BY <1>1 DEF LockInv, FreshInv
<1>4. QED
  BY <1>2, <1>3

\* Closing a run leaves the other runs' locks alone.
LEMMA ClosingKeepsLocks ==
    ASSUME Inv, LockInv, NEW p \in Procs, NEW r \in Runs, Closing(p, r),
           NEW v \in Workers, LockedScan(v), run[v] # r
    PROVE  /\ rows'[run[v]] \in {"running", "none"}
           /\ active'[v[1]][req[v].tenant] = run[v]
<1>1. v[1] \in Procs /\ req[v].tenant \in Tenants /\ run[v] \in Runs
  BY WorkerAssumption DEF LockedScan, Inv, CallInv, Busy, Requests
<1>2. /\ rows[run[v]] \in {"running", "none"}
      /\ active[v[1]][req[v].tenant] = run[v]
  BY DEF LockInv, LockHeld
<1>3. QED
  BY <1>1, <1>2 DEF Closing

LEMMA FindKeyLock ==
    ASSUME Inv, LockInv, NEW w \in Workers, NEW rq \in Requests, FindKey(w, rq)
    PROVE  LockInv'
<1>1. PICK r \in Runs, where \in {"scanning", "replayed"} :
          /\ MoveTo(w, where, rq, r)
          /\ asked[r] = rq /\ rq.key # NoKey
          /\ rows[r] # "none" \/ cache[w[1]][r] # "none"
  BY DEF FindKey, CachedHits, StoredHits
<1>2. UNCHANGED <<rows, asked, opened, cache, stale, active, crashes>>
  BY DEF FindKey
<1>3. where \in Places /\ where # "opening"
  BY DEF Places, Busy
<1>4. Moved(w, where, rq, r)
  BY <1>1, <1>3, MoveToFacts DEF Inv
<1>5. r <= opened
  BY <1>1, WorkerAssumption DEF Inv, UnopenedInv, TypeOK, Runs
<1>6. OwnerInv'
  <2>1. \A v \in Workers : pc'[v] = "scanning" =>
          /\ run'[v] <= opened
          /\ asked[run'[v]] = req'[v]
          /\ own'[v] \/ req'[v].key # NoKey
    BY <1>1, <1>4, <1>5 DEF Moved, LockInv, OwnerInv
  <2>2. \A v \in Workers : pc'[v] = "scanning" /\ own'[v] =>
            pc[v] = "scanning" /\ own[v] /\ run'[v] = run[v]
    BY <1>4 DEF Moved
  <2>3. QED
    BY <1>2, <2>1, <2>2 DEF LockInv, OwnerInv
<1>7. OpeningInv'
  <2>1. \A v \in Workers : pc'[v] = "opening" => pc[v] = "opening" /\ req'[v] = req[v]
    BY <1>3, <1>4 DEF Moved
  <2>2. QED
    BY <1>2, <2>1 DEF LockInv, OpeningInv
<1>8. IndexInv'
  BY <1>2 DEF LockInv, IndexInv
<1>9. LockHeld' /\ FreshInv'
  <2>1. \A v \in Workers : pc'[v] = "scanning" /\ own'[v] =>
            pc[v] = "scanning" /\ own[v] /\ run'[v] = run[v] /\ req'[v] = req[v]
    BY <1>4 DEF Moved
  <2>2. QED
    BY <1>2, <2>1 DEF LockInv, LockHeld, LockedScan, FreshInv
<1>10. QED
  BY <1>6, <1>7, <1>8, <1>9 DEF LockInv

LEMMA RefuseLock ==
    ASSUME Inv, LockInv, NEW w \in Workers, NEW rq \in Requests, Refuse(w, rq)
    PROVE  LockInv'
<1>1. /\ MoveTo(w, "refused", rq, NoRun)
      /\ UNCHANGED <<rows, asked, opened, cache, stale, active, crashes>>
  BY DEF Refuse
<1>2. "refused" \in Places /\ "refused" # "opening" /\ "refused" # "scanning"
  BY DEF Places, Busy
<1>3. Moved(w, "refused", rq, NoRun)
  BY <1>1, <1>2, MoveToFacts DEF Inv
<1>4. OwnerInv' /\ FreshInv'
  BY <1>1, <1>2, <1>3, NotScanning
<1>5. \A v \in Workers : pc'[v] \in Busy =>
          /\ pc[v] = pc'[v] /\ req'[v] = req[v]
          /\ run'[v] = run[v] /\ own'[v] = own[v]
  BY <1>3 DEF Moved, Busy
<1>6. OpeningInv'
  BY <1>1, <1>5 DEF LockInv, OpeningInv, Busy
<1>7. IndexInv'
  BY <1>1 DEF LockInv, IndexInv
<1>8. LockHeld'
  BY <1>1, <1>5 DEF LockInv, LockHeld, LockedScan, Busy
<1>9. QED
  BY <1>4, <1>6, <1>7, <1>8 DEF LockInv

LEMMA CheckLock ==
    ASSUME Inv, LockInv, NEW w \in Workers, NEW rq \in Requests, Check(w, rq)
    PROVE  LockInv'
<1> DEFINE holder == active[w[1]][rq.tenant]
<1>0. w[1] \in Procs /\ rq.tenant \in Tenants
  BY WorkerAssumption DEF Requests
<1>1. MoveTo(w, "opening", rq, NoRun) /\ UNCHANGED <<asked, opened, crashes>>
  BY DEF Check
<1>2. "opening" \in Places /\ "opening" # "scanning"
  BY DEF Places, Busy
<1>3. Moved(w, "opening", rq, NoRun)
  BY <1>1, <1>2, MoveToFacts DEF Inv
<1>4. \A v \in Workers : pc[v] = "opening" => v[1] # w[1]
  BY DEF Check, Unknown, CanCall, StoreLocked
<1>5. \A v \in Workers : pc'[v] = "scanning" =>
          /\ pc[v] = "scanning" /\ req'[v] = req[v]
          /\ run'[v] = run[v] /\ own'[v] = own[v]
  BY <1>2, <1>3 DEF Moved
<1>6. \A v \in Workers : pc'[v] = "opening" /\ v # w =>
          pc[v] = "opening" /\ req'[v] = req[v] /\ v[1] # w[1]
  BY <1>3, <1>4 DEF Moved
<1>7. CASE holder = NoRun /\ UNCHANGED <<rows, cache, stale, active>>
  <2>1. OwnerInv' /\ FreshInv'
    BY <1>1, <1>2, <1>3, <1>7, NotScanning
  <2>2. OpeningInv'
    BY <1>3, <1>6, <1>7 DEF LockInv, OpeningInv, Moved
  <2>3. IndexInv'
    BY <1>1, <1>7 DEF LockInv, IndexInv
  <2>4. LockHeld'
    BY <1>5, <1>7 DEF LockInv, LockHeld, LockedScan
  <2>5. QED
    BY <2>1, <2>2, <2>3, <2>4 DEF LockInv
<1>8. CASE holder # NoRun /\ IsStale(w[1], holder) /\ Close(w[1], holder, "failed")
  <2>1. holder \in Runs /\ holder \in stale[w[1]] /\ "failed" \in Closed
    BY <1>0, <1>8 DEF Inv, TypeOK, IsStale, Closed
  <2>2. Closing(w[1], holder)
    BY <1>0, <1>8, <2>1, CloseFacts DEF Inv
  <2>3. OwnerInv' /\ FreshInv'
    <3>1. \A q \in Procs : stale'[q] \subseteq stale[q]
      BY <2>2 DEF Closing
    <3>2. QED
      BY <1>1, <1>2, <1>3, <3>1, NotScanning
  <2>4. OpeningInv'
    <3>1. active'[w[1]][rq.tenant] = NoRun
      BY <1>0, <2>2 DEF Closing
    <3>2. ASSUME NEW v \in Workers, pc'[v] = "opening"
          PROVE  active'[v[1]][req'[v].tenant] = NoRun
      <4>1. CASE v = w
        BY <1>3, <3>1, <4>1 DEF Moved
      <4>2. CASE v # w
        <5>1. pc[v] = "opening" /\ req'[v] = req[v] /\ v[1] # w[1]
          BY <1>6, <3>2, <4>2
        <5>2. v[1] \in Procs /\ req[v].tenant \in Tenants
          BY <5>1, WorkerAssumption DEF Inv, CallInv, Busy, Requests
        <5>3. active[v[1]][req[v].tenant] = NoRun
          BY <5>1 DEF LockInv, OpeningInv
        <5>4. QED
          BY <2>2, <5>1, <5>2, <5>3 DEF Closing
      <4>3. QED
        BY <4>1, <4>2
    <3>3. QED
      BY <1>6, <3>2 DEF LockInv, OpeningInv
  <2>5. IndexInv'
    BY <1>1, <2>2 DEF LockInv, IndexInv, Closing
  <2>6. LockHeld'
    <3> SUFFICES ASSUME NEW v \in Workers, LockedScan(v)'
                 PROVE  /\ rows'[run'[v]] \in {"running", "none"}
                        /\ active'[v[1]][req'[v].tenant] = run'[v]
      BY DEF LockHeld
    <3>1. LockedScan(v) /\ req'[v] = req[v] /\ run'[v] = run[v]
      BY <1>5 DEF LockedScan
    <3>2. run[v] # holder
      BY <1>0, <2>1, <3>1 DEF LockInv, FreshInv, LockedScan
    <3>3. QED
      BY <1>0, <2>1, <2>2, <3>1, <3>2, ClosingKeepsLocks
  <2>7. QED
    BY <2>3, <2>4, <2>5, <2>6 DEF LockInv
<1>9. QED
  BY <1>7, <1>8 DEF Check

\* A tenant that a worker is opening a run for has no locked scan in that
\* process.
LEMMA OpeningExcludes ==
    ASSUME Inv, LockInv, NEW w \in Workers, pc[w] = "opening",
           NEW v \in Workers, LockedScan(v), v[1] = w[1]
    PROVE  req[v].tenant # req[w].tenant
<1>1. run[v] # NoRun
  BY DEF Inv, CallInv, LockedScan, Runs, NoRun
<1>2. QED
  BY <1>1 DEF LockInv, OpeningInv, LockHeld

LEMMA OpenLock ==
    ASSUME Inv, LockInv, NEW w \in Workers, Open(w)
    PROVE  LockInv'
<1> USE DEF NextRun
<1> DEFINE r == opened + 1
<1>0. /\ w[1] \in Procs /\ req[w] \in Requests /\ req[w].tenant \in Tenants
      /\ pc[w] = "opening"
  BY WorkerAssumption DEF Requests, Open, Inv, CallInv, Busy
<1>1. r \in Runs /\ opened' = r /\ r > opened /\ opened \in Nat
  BY BoundAssumption DEF Open, Inv, TypeOK, Runs
<1>2. /\ asked' = [asked EXCEPT ![r] = req[w]]
      /\ active' = [active EXCEPT ![w[1]][req[w].tenant] = r]
      /\ pc' = [pc EXCEPT ![w] = "scanning"]
      /\ run' = [run EXCEPT ![w] = r]
      /\ own' = [own EXCEPT ![w] = TRUE]
      /\ UNCHANGED <<stale, req, crashes>>
  BY DEF Open
<1>3. \/ rows' = rows
      \/ rows' = [rows EXCEPT ![r] = "running"] /\ ~Conflict(req[w])
  BY DEF Open
<1> HIDE DEF r
<1>4. /\ pc'[w] = "scanning" /\ run'[w] = r /\ own'[w]
      /\ \A v \in Workers : v # w =>
            pc'[v] = pc[v] /\ run'[v] = run[v] /\ own'[v] = own[v]
  BY <1>2 DEF Inv, TypeOK
<1>5. asked'[r] = req[w] /\ \A x \in Runs : x # r => asked'[x] = asked[x]
  BY <1>1, <1>2 DEF Inv, TypeOK
<1>6. \A v \in Workers : pc[v] = "scanning" =>
          /\ run[v] \in Runs /\ run[v] <= opened /\ run[v] # r
          /\ asked[run[v]] = req[v]
          /\ own[v] \/ req[v].key # NoKey
  <2> SUFFICES ASSUME NEW v \in Workers, pc[v] = "scanning"
               PROVE  /\ run[v] \in Runs /\ run[v] <= opened /\ run[v] # r
                      /\ asked[run[v]] = req[v]
                      /\ own[v] \/ req[v].key # NoKey
    OBVIOUS
  <2>1. run[v] \in Runs /\ run[v] <= opened
    BY DEF Inv, CallInv, LockInv, OwnerInv
  <2>2. run[v] # r
    BY <1>1, <2>1 DEF Runs
  <2>3. QED
    BY <2>1, <2>2 DEF LockInv, OwnerInv
<1>7. /\ rows[r] = "none" /\ \A q \in Procs : r \notin stale[q]
      /\ \A x \in Runs : x # r => rows'[x] = rows[x]
      /\ rows'[r] \in {"running", "none"}
  BY <1>1, <1>3 DEF Inv, UnopenedInv, TypeOK
<1>8. OwnerInv'
  <2>1. ASSUME NEW v \in Workers, pc'[v] = "scanning"
        PROVE  /\ run'[v] <= opened'
               /\ asked'[run'[v]] = req'[v]
               /\ own'[v] \/ req'[v].key # NoKey
    <3>1. CASE v = w
      <4>1. r <= opened'
        BY <1>1 DEF Runs
      <4>2. QED
        BY <1>2, <1>4, <1>5, <3>1, <4>1
    <3>2. CASE v # w
      <4>1. pc[v] = "scanning" /\ run'[v] = run[v] /\ own'[v] = own[v]
        BY <1>4, <2>1, <3>2
      <4>2. run[v] <= opened'
        BY <1>1, <1>6, <4>1 DEF Runs
      <4>3. QED
        BY <1>2, <1>5, <1>6, <4>1, <4>2
    <3>3. QED
      BY <3>1, <3>2
  <2>2. ASSUME NEW u \in Workers, NEW v \in Workers,
               pc'[u] = "scanning", own'[u], pc'[v] = "scanning", own'[v],
               run'[u] = run'[v]
        PROVE  u = v
    BY <1>4, <1>6, <2>2 DEF LockInv, OwnerInv
  <2>3. QED
    BY <2>1, <2>2 DEF OwnerInv
<1>9. OpeningInv'
  <2>1. \A v \in Workers : pc'[v] = "opening" => pc[v] = "opening" /\ v[1] # w[1]
    BY <1>0, <1>4 DEF LockInv, OpeningInv
  <2>2. \A v \in Workers : pc[v] = "opening" =>
            v[1] \in Procs /\ req[v].tenant \in Tenants
    BY WorkerAssumption DEF Inv, CallInv, Busy, Requests
  <2>3. \A v \in Workers : pc'[v] = "opening" =>
            active'[v[1]][req'[v].tenant] = NoRun
    BY <1>0, <1>2, <2>1, <2>2 DEF LockInv, OpeningInv, Inv, TypeOK
  <2>4. QED
    BY <2>1, <2>3 DEF LockInv, OpeningInv
<1>10. IndexInv'
  <2> SUFFICES ASSUME NEW x \in Runs, NEW y \in Runs,
                      rows'[x] = "running", rows'[y] = "running",
                      asked'[x].tenant = asked'[y].tenant
               PROVE  x = y
    BY DEF IndexInv
  <2>1. CASE x # r /\ y # r
    BY <1>5, <1>7, <2>1 DEF LockInv, IndexInv
  <2>2. CASE rows'[r] # "running"
    BY <2>1, <2>2
  <2>3. CASE rows'[r] = "running"
    <3>1. \A z \in Runs : rows[z] = "running" => asked[z].tenant # req[w].tenant
      BY <1>3, <1>7, <2>3 DEF Conflict
    <3>2. QED
      BY <1>5, <1>7, <2>1, <3>1
  <2>4. QED
    BY <2>2, <2>3
<1>11. LockHeld'
  <2> SUFFICES ASSUME NEW v \in Workers, LockedScan(v)'
               PROVE  /\ rows'[run'[v]] \in {"running", "none"}
                      /\ active'[v[1]][req'[v].tenant] = run'[v]
    BY DEF LockHeld
  <2>1. CASE v = w
    BY <1>0, <1>2, <1>4, <1>7, <2>1 DEF Inv, TypeOK
  <2>2. CASE v # w
    <3>1. LockedScan(v) /\ run'[v] = run[v] /\ req'[v] = req[v]
      BY <1>2, <1>4, <2>2 DEF LockedScan
    <3>2. v[1] # w[1] \/ req[v].tenant # req[w].tenant
      BY <1>0, <3>1, OpeningExcludes
    <3>3. v[1] \in Procs /\ req[v].tenant \in Tenants
      BY <3>1, WorkerAssumption DEF LockedScan, Inv, CallInv, Busy, Requests
    <3>4. active'[v[1]][req[v].tenant] = active[v[1]][req[v].tenant]
      BY <1>0, <1>2, <3>2, <3>3 DEF Inv, TypeOK
    <3>5. rows'[run[v]] = rows[run[v]]
      BY <1>6, <1>7, <3>1 DEF LockedScan
    <3>6. QED
      BY <3>1, <3>4, <3>5 DEF LockInv, LockHeld
  <2>3. QED
    BY <2>1, <2>2
<1>12. FreshInv'
  BY <1>2, <1>4, <1>7 DEF LockInv, FreshInv
<1>13. QED
  BY <1>8, <1>9, <1>10, <1>11, <1>12 DEF LockInv

\* A refused insert changes only the entry of the tenant it was for.
LEMMA RefusedInsert ==
    ASSUME Inv, LockInv, NEW w \in Workers, pc[w] = "opening",
           NEW where \in {"refused", "idle"}, NEW rq, NEW h,
           Moved(w, where, rq, NoRun), UNCHANGED <<rows, asked, opened>>,
           active' = [active EXCEPT ![w[1]][req[w].tenant] = h],
           \A q \in Procs : stale'[q] \subseteq stale[q]
    PROVE  LockInv'
<1>1. w[1] \in Procs /\ req[w].tenant \in Tenants
  BY WorkerAssumption DEF Requests, Inv, CallInv, Busy
<1>2. where # "scanning" /\ where # "opening"
  OBVIOUS
<1>3. OwnerInv' /\ FreshInv'
  BY <1>2, NotScanning
<1>4. \A v \in Workers : pc'[v] \in Busy =>
          /\ v # w /\ pc[v] = pc'[v] /\ req'[v] = req[v]
          /\ run'[v] = run[v] /\ own'[v] = own[v]
  BY <1>2 DEF Moved, Busy
<1>5. \A v \in Workers : pc'[v] \in Busy =>
          v[1] \in Procs /\ req[v].tenant \in Tenants
  BY <1>4, WorkerAssumption DEF Inv, CallInv, Requests
<1>6. OpeningInv'
  <2>1. \A v \in Workers : pc'[v] = "opening" => pc[v] = "opening" /\ v[1] # w[1]
    BY <1>4 DEF Busy, LockInv, OpeningInv
  <2>2. \A v \in Workers : pc'[v] = "opening" =>
            active'[v[1]][req'[v].tenant] = NoRun
    BY <1>1, <1>4, <1>5, <2>1 DEF Busy, LockInv, OpeningInv, Inv, TypeOK
  <2>3. QED
    BY <2>1, <2>2 DEF LockInv, OpeningInv
<1>7. IndexInv'
  BY DEF LockInv, IndexInv
<1>8. LockHeld'
  <2> SUFFICES ASSUME NEW v \in Workers, LockedScan(v)'
               PROVE  /\ rows[run'[v]] \in {"running", "none"}
                      /\ active'[v[1]][req'[v].tenant] = run'[v]
    BY DEF LockHeld
  <2>1. /\ LockedScan(v) /\ run'[v] = run[v] /\ req'[v] = req[v]
        /\ v[1] \in Procs /\ req[v].tenant \in Tenants
    BY <1>4, <1>5 DEF LockedScan, Busy
  <2>2. v[1] # w[1] \/ req[v].tenant # req[w].tenant
    BY <2>1, OpeningExcludes
  <2>3. active'[v[1]][req[v].tenant] = active[v[1]][req[v].tenant]
    BY <1>1, <2>1, <2>2 DEF Inv, TypeOK
  <2>4. QED
    BY <2>1, <2>3 DEF LockInv, LockHeld
<1>9. QED
  BY <1>3, <1>6, <1>7, <1>8 DEF LockInv

LEMMA ConflictedLock ==
    ASSUME Inv, LockInv, NEW w \in Workers, Conflicted(w)
    PROVE  LockInv'
<1>1. PICK holder \in Runs :
          /\ stale' = [stale EXCEPT ![w[1]] = @ \ {holder}]
          /\ active' = [active EXCEPT ![w[1]][req[w].tenant] = holder]
          /\ MoveTo(w, "refused", req[w], NoRun)
  BY DEF Conflicted
<1>2. UNCHANGED <<rows, asked, opened>> /\ pc[w] = "opening" /\ req[w] \in Requests
  BY DEF Conflicted, Inv, CallInv, Busy
<1>3. \A q \in Procs : stale'[q] \subseteq stale[q]
  BY <1>1, WorkerAssumption DEF Inv, TypeOK
<1>4. Moved(w, "refused", req[w], NoRun)
  <2>1. "refused" \in Places
    BY DEF Places
  <2>2. QED
    BY <1>1, <1>2, <2>1, MoveToFacts DEF Inv
<1>5. QED
  BY <1>1, <1>2, <1>3, <1>4, RefusedInsert

LEMMA ConflictErrsLock ==
    ASSUME Inv, LockInv, NEW w \in Workers, ConflictErrs(w)
    PROVE  LockInv'
<1>1. /\ active' = [active EXCEPT ![w[1]][req[w].tenant] = NoRun]
      /\ MoveTo(w, "idle", NoRequest, NoRun)
      /\ UNCHANGED <<rows, asked, opened, cache, stale, crashes>>
      /\ pc[w] = "opening"
  BY DEF ConflictErrs
<1>2. Moved(w, "idle", NoRequest, NoRun)
  <2>1. "idle" \in Places
    BY DEF Places
  <2>2. QED
    BY <1>1, <2>1, MoveToFacts DEF Inv
<1>3. QED
  BY <1>1, <1>2, RefusedInsert

LEMMA HeartbeatLock ==
    ASSUME Inv, LockInv, NEW w \in Workers, Heartbeat(w)
    PROVE  LockInv'
<1>1. /\ stale' = [stale EXCEPT ![w[1]] = @ \ {run[w]}]
      /\ UNCHANGED <<rows, asked, opened, cache, active, pc, req, run, own, crashes>>
  BY DEF Heartbeat
<1>2. \A q \in Procs : stale'[q] \subseteq stale[q]
  BY <1>1, WorkerAssumption DEF Inv, TypeOK
<1>3. OwnerInv' /\ OpeningInv'
  BY <1>1 DEF LockInv, OwnerInv, OpeningInv
<1>4. IndexInv' /\ LockHeld'
  BY <1>1 DEF LockInv, IndexInv, LockHeld, LockedScan
<1>5. FreshInv'
  BY <1>1, <1>2 DEF LockInv, FreshInv
<1>6. QED
  BY <1>3, <1>4, <1>5 DEF LockInv

LEMMA EndLock ==
    ASSUME Inv, LockInv, NEW w \in Workers, NEW status \in Closed, End(w, status)
    PROVE  LockInv'
<1>1. w[1] \in Procs /\ run[w] \in Runs /\ pc[w] = "scanning"
  BY WorkerAssumption DEF End, Inv, CallInv
<1>2. /\ MoveTo(w, "idle", NoRequest, NoRun)
      /\ UNCHANGED <<asked, opened, crashes>>
  BY DEF End
<1>3. "idle" \in Places /\ "idle" # "opening" /\ "idle" # "scanning"
  BY DEF Places, Busy
<1>4. Moved(w, "idle", NoRequest, NoRun)
  BY <1>2, <1>3, MoveToFacts DEF Inv
<1>5. \A v \in Workers : pc'[v] \in Busy =>
          /\ v # w /\ pc[v] = pc'[v] /\ req'[v] = req[v]
          /\ run'[v] = run[v] /\ own'[v] = own[v]
  BY <1>4 DEF Moved, Busy
<1>6. CASE cache[w[1]][run[w]] # "none"
  <2>1. Closing(w[1], run[w])
    BY <1>1, <1>6, CloseFacts DEF End, Inv
  <2>2. OwnerInv' /\ FreshInv'
    <3>1. \A q \in Procs : stale'[q] \subseteq stale[q]
      BY <2>1 DEF Closing
    <3>2. QED
      BY <1>2, <1>3, <1>4, <3>1, NotScanning
  <2>3. OpeningInv'
    <3>1. \A v \in Workers : pc'[v] = "opening" =>
              pc[v] = "opening" /\ req'[v] = req[v]
      BY <1>5 DEF Busy
    <3>2. \A v \in Workers : pc[v] = "opening" =>
              v[1] \in Procs /\ req[v].tenant \in Tenants
      BY WorkerAssumption DEF Inv, CallInv, Busy, Requests
    <3>3. \A v \in Workers : pc[v] = "opening" =>
              active'[v[1]][req[v].tenant] = NoRun
      BY <2>1, <3>2 DEF Closing, LockInv, OpeningInv
    <3>4. QED
      BY <3>1, <3>3 DEF LockInv, OpeningInv
  <2>4. IndexInv'
    BY <1>2, <2>1 DEF LockInv, IndexInv, Closing
  <2>5. LockHeld'
    <3> SUFFICES ASSUME NEW v \in Workers, LockedScan(v)'
                 PROVE  /\ rows'[run'[v]] \in {"running", "none"}
                        /\ active'[v[1]][req'[v].tenant] = run'[v]
      BY DEF LockHeld
    <3>1. v # w /\ LockedScan(v) /\ req'[v] = req[v] /\ run'[v] = run[v]
      BY <1>5 DEF LockedScan, Busy
    <3>2. run[v] # run[w]
      <4>1. CASE own[w]
        BY <1>1, <3>1, <4>1 DEF LockInv, OwnerInv, LockedScan
      <4>2. CASE ~own[w]
        BY <1>1, <3>1, <4>2 DEF LockInv, OwnerInv, LockedScan
      <4>3. QED
        BY <4>1, <4>2
    <3>3. QED
      BY <1>1, <2>1, <3>1, <3>2, ClosingKeepsLocks
  <2>6. QED
    BY <2>2, <2>3, <2>4, <2>5 DEF LockInv
<1>7. CASE cache[w[1]][run[w]] = "none"
  <2>1. UNCHANGED <<rows, cache, stale, active>>
    BY <1>7 DEF End
  <2>2. OwnerInv' /\ FreshInv'
    BY <1>2, <1>3, <1>4, <2>1, NotScanning
  <2>3. OpeningInv'
    BY <1>5, <2>1 DEF LockInv, OpeningInv, Busy
  <2>4. IndexInv'
    BY <1>2, <2>1 DEF LockInv, IndexInv
  <2>5. LockHeld'
    BY <1>5, <2>1 DEF LockInv, LockHeld, LockedScan, Busy
  <2>6. QED
    BY <2>2, <2>3, <2>4, <2>5 DEF LockInv
<1>8. QED
  BY <1>6, <1>7

LEMMA AgeLock ==
    ASSUME ScansAreShort, Inv, LockInv, NEW p \in Procs, NEW r \in Runs, Age(p, r)
    PROVE  LockInv'
<1>1. /\ stale' = [stale EXCEPT ![p] = @ \union {r}]
      /\ UNCHANGED <<rows, asked, opened, cache, active, pc, req, run, own, crashes>>
      /\ \A w \in Workers : pc[w] = "scanning" /\ own[w] => run[w] # r
  BY DEF Age
<1>2. OwnerInv' /\ OpeningInv'
  BY <1>1 DEF LockInv, OwnerInv, OpeningInv
<1>3. IndexInv' /\ LockHeld'
  BY <1>1 DEF LockInv, IndexInv, LockHeld, LockedScan
<1>4. FreshInv'
  <2>1. \A q \in Procs : stale'[q] \subseteq stale[q] \union {r}
    BY <1>1 DEF Inv, TypeOK
  <2>2. QED
    BY <1>1, <2>1 DEF LockInv, FreshInv
<1>5. QED
  BY <1>2, <1>3, <1>4 DEF LockInv

LEMMA CrashLock ==
    ASSUME Inv, LockInv, NEW p \in Procs, Crash(p)
    PROVE  LockInv'
<1>1. /\ \A q \in Procs : stale'[q] \subseteq stale[q]
      /\ \A q \in Procs : q # p => active'[q] = active[q]
      /\ UNCHANGED <<rows, asked, opened>>
  BY DEF Crash, Inv, TypeOK
<1>2. \A w \in Workers : pc'[w] \in Busy =>
          /\ w[1] # p /\ pc[w] = pc'[w] /\ req'[w] = req[w]
          /\ run'[w] = run[w] /\ own'[w] = (own[w] /\ w[1] # p)
  BY DEF Crash, Busy
<1>3. \A w \in Workers : pc'[w] \in Busy =>
          /\ w[1] \in Procs /\ active'[w[1]] = active[w[1]]
          /\ own'[w] = own[w]
  BY <1>1, <1>2, WorkerAssumption DEF Inv, TypeOK
<1>4. OwnerInv' /\ OpeningInv'
  BY <1>1, <1>2, <1>3 DEF LockInv, OwnerInv, OpeningInv, Busy
<1>5. IndexInv' /\ LockHeld'
  BY <1>1, <1>2, <1>3 DEF LockInv, IndexInv, LockHeld, LockedScan, Busy
<1>6. FreshInv'
  BY <1>1, <1>2, <1>3 DEF LockInv, FreshInv, Busy
<1>7. QED
  BY <1>4, <1>5, <1>6 DEF LockInv

LEMMA LockStep ==
    ASSUME ScansAreShort, Inv, LockInv, [Next]_vars
    PROVE  LockInv'
<1>1. ASSUME NEW w \in Workers, Acquire(w) PROVE LockInv'
  BY <1>1, FindKeyLock, RefuseLock, CheckLock, OpenLock, ConflictedLock,
     ConflictErrsLock DEF Acquire
<1>2. ASSUME NEW w \in Workers, Complete(w) \/ Fail(w) PROVE LockInv'
  <2>1. "completed" \in Closed /\ "failed" \in Closed
    BY DEF Closed
  <2>2. QED
    BY <1>2, <2>1, EndLock DEF Complete, Fail
<1>3. CASE UNCHANGED vars
  BY <1>3 DEF vars, LockInv, OwnerInv, OpeningInv, IndexInv, LockHeld,
              LockedScan, FreshInv
<1>4. QED
  BY <1>1, <1>2, <1>3, HeartbeatLock, AgeLock, CrashLock DEF Next

LEMMA LockHolds ==
    ASSUME ScansAreShort
    PROVE  Spec => [](Inv /\ LockInv)
<1>1. Inv /\ LockInv /\ [Next]_vars => LockInv'
  BY LockStep
<1>2. QED
  BY <1>1, LockInit, InvHolds, PTL DEF Spec

\* If no scan outlasts stale_lock_seconds, a scan that opened its own run
\* keeps the tenant's lock until it closes the run: acquire never fails it or
\* takes its entry of _active_by_tenant away, whatever crashes, conflicts and
\* lost updates happen.
THEOREM LockIsHeld ==
    ASSUME ScansAreShort
    PROVE  Spec => []LockHeld
<1>1. Inv /\ LockInv => LockHeld
  BY DEF LockInv
<1>2. QED
  BY <1>1, LockHolds, PTL

LEMMA LockInvOneScan == Inv /\ LockInv => OneScan
<1> SUFFICES ASSUME Inv, LockInv,
                    NEW v \in Workers, NEW w \in Workers, v # w,
                    LockedScan(v), LockedScan(w),
                    req[v].tenant = req[w].tenant
             PROVE  v[1] # w[1] /\ "none" \in {rows[run[v]], rows[run[w]]}
  BY DEF OneScan
<1>1. run[v] # run[w]
  BY DEF LockInv, OwnerInv, LockedScan
<1>2. v[1] # w[1]
  BY <1>1 DEF LockInv, LockHeld
<1>3. run[v] \in Runs /\ run[w] \in Runs
  BY DEF Inv, CallInv, LockedScan
<1>4. asked[run[v]].tenant = asked[run[w]].tenant
  BY DEF LockInv, OwnerInv, LockedScan
<1>5. ~(rows[run[v]] = "running" /\ rows[run[w]] = "running")
  BY <1>1, <1>3, <1>4 DEF LockInv, IndexInv
<1>6. QED
  BY <1>2, <1>5 DEF LockInv, LockHeld

\* If no scan outlasts stale_lock_seconds, two scans without idempotency keys
\* of one tenant overlap only in two processes of which one could not insert
\* its row: within a process the store's lock, and between processes the
\* unique index of running rows, keep them apart.
THEOREM OneScanAtATime ==
    ASSUME ScansAreShort
    PROVE  Spec => []OneScan
<1>1. QED
  BY LockInvOneScan, LockHolds, PTL
=============================================================================
