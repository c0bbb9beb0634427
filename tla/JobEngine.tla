------------------------------ MODULE JobEngine ------------------------------
(***************************************************************************)
(* Durable evaluation jobs: Engine.evaluate, status, cancel and            *)
(* _finish_job of src/src/compression_lab/engine.py, and the disposable    *)
(* worker process of worker.py.  Clients (CLI and MCP processes) reserve a *)
(* job in the ledger, write its job.json and spawn its worker; any client  *)
(* may poll it, and settles it as crashed when its worker looks dead.  The *)
(* ledger is the authority, jobs/<id>/job.json a cache several processes   *)
(* overwrite whole.  Processes die at any point; flocks die with them.     *)
(*                                                                         *)
(* Abstracted: a ledger update is one step (module Ledger); one track, one *)
(* candidate, no controller; a result is the job, its cost when eligible   *)
(* and its status: "failed" covers ineligible, "crashed" is the failed     *)
(* result with reason worker_crashed; wall time charged is a count of charges; the        *)
(* 30-second grace of _alive is the flag `young`, cleared at any time.     *)
(* operation.lock covers admission.lock, which only controllers contend.   *)
(***************************************************************************)
EXTENDS Integers, Sequences, FiniteSets

CONSTANTS Clients,    \* processes that use the engine
          Jobs,       \* job ids, each also naming the job's worker process
          Requests,   \* request ids clients may pass to evaluate
          NoRequest,  \* evaluate called without a request id
          None,       \* no job, no result, no file, lock not held
          Costs,      \* rank costs of eligible results
          MaxEvaluations, \* search_budget.candidate_evaluations
          MaxCrashes  \* bound on process deaths

ASSUME JobEngineAssumption ==
  /\ Clients \cap Jobs = {}
  /\ None \notin Clients \cup Jobs
  /\ NoRequest \notin Requests
  /\ Costs \subseteq Nat /\ MaxEvaluations \in Nat /\ MaxCrashes \in Nat

Actors == Clients \cup Jobs

VARIABLES
  \* the ledger
  active,     \* active_job
  pending,    \* pending_job: the job record kept for a lost job.json
  requests,   \* evaluation_requests: the job of each request id
  evaluations,\* budgets.evaluations
  results,    \* results, in commit order
  jobResults, \* job_results: the settlement of each job
  charges,    \* how often each job's wall time was added to the budget
  best,       \* best_eligible_result
  \* files under jobs/ and results/
  dir,        \* jobs whose directory exists
  file,       \* job.json of each job
  cancelled,  \* jobs with a cancel.json
  evidence,   \* results whose raw.json is on disk
  \* locks and processes
  operation,  \* holder of operation.lock
  host,       \* holder of the host benchmark lock
  completion, \* holder of each job's completion.lock
  reconcile,  \* holder of each job's reconcile.lock
  young,      \* jobs reserved less than 30 seconds ago
  pc,         \* where each client and worker is
  job,        \* the job each actor works on
  request,    \* the request id of each client's evaluate
  rec,        \* each actor's own copy of the job record
  seen,       \* the settlement each status call found in the state it read
  out,        \* the result each settling actor wants to commit
  crashes,    \* how many processes have died
  replies     \* history: <<request, job>> pairs returned by evaluate

ledger == <<active, pending, requests, evaluations, results, jobResults, charges, best>>
files  == <<dir, file, cancelled, evidence>>
locks  == <<operation, host, completion, reconcile>>
local  == <<job, request, rec, seen, out>>
vars   == <<ledger, files, locks, young, pc, local, crashes, replies>>

-----------------------------------------------------------------------------
Statuses == {"eligible", "failed", "cancelled", "crashed"}
Result   == [job : Jobs, status : Statuses, cost : Nat]
Record   == [status : {"queued", "running"} \cup Statuses, pid : BOOLEAN,
             result : Result \cup {None}]

(* None is told apart from every result and record. *)
ASSUME NoneAssumption == None \notin Result \cup Record

Queued    == [status |-> "queued", pid |-> FALSE, result |-> None]
Open(r)   == r.status \in {"queued", "running"}
Settled   == {j \in Jobs : jobResults[j] # None}
Reserved  == Settled \cup ({active} \ {None})

(* j.update(committed): the record as the ledger's settlement says. *)
Committed(r, result) == [r EXCEPT !.status = result.status, !.result = result]

WorkerLive == {"start", "loaded", "queued", "running", "settle", "check", "commit", "record"}

(* Mutant: a worker that never wrote its pid is waited for forever. *)
AliveWithoutPid(r, j) == r.pid => pc[j] \in WorkerLive

(* _alive: without a pid, only youth speaks for the worker. *)
Alive(r, j) == IF r.pid THEN pc[j] \in WorkerLive ELSE j \in young

(* Every lock x holds, released: at the end of a call or by its death. *)
Release(x) ==
  /\ operation' = IF operation = x THEN None ELSE operation
  /\ host' = IF host = x THEN None ELSE host
  /\ completion' = [j \in Jobs |-> IF completion[j] = x THEN None ELSE completion[j]]
  /\ reconcile' = [j \in Jobs |-> IF reconcile[j] = x THEN None ELSE reconcile[j]]

(* A call returns or raises; a worker exits. *)
Return(x) ==
  /\ Release(x)
  /\ pc' = [pc EXCEPT ![x] = IF x \in Clients THEN "idle" ELSE "exited"]
  /\ job' = [job EXCEPT ![x] = None]
  /\ request' = [request EXCEPT ![x] = NoRequest]
  /\ rec' = [rec EXCEPT ![x] = Queued]
  /\ seen' = [seen EXCEPT ![x] = None]
  /\ out' = [out EXCEPT ![x] = None]

Goto(x, label) == pc' = [pc EXCEPT ![x] = label]

Init ==
  /\ active = None /\ pending = None
  /\ requests = [r \in Requests |-> None]
  /\ evaluations = 0
  /\ results = <<>>
  /\ jobResults = [j \in Jobs |-> None]
  /\ charges = [j \in Jobs |-> 0]
  /\ best = None
  /\ dir = {} /\ cancelled = {} /\ evidence = {}
  /\ file = [j \in Jobs |-> None]
  /\ operation = None /\ host = None
  /\ completion = [j \in Jobs |-> None]
  /\ reconcile = [j \in Jobs |-> None]
  /\ young = {}
  /\ pc = [x \in Actors |-> IF x \in Clients THEN "idle" ELSE "none"]
  /\ job = [x \in Actors |-> None]
  /\ request = [x \in Actors |-> NoRequest]
  /\ rec = [x \in Actors |-> Queued]
  /\ seen = [x \in Actors |-> None]
  /\ out = [x \in Actors |-> None]
  /\ crashes = 0
  /\ replies = {}

-----------------------------------------------------------------------------
(* evaluate *)

(* operation.lock is taken without blocking: a busy lock is an error.  A   *)
(* request id already in the ledger is answered with its job.              *)
Replay(c, r) ==
  /\ pc[c] = "idle"
  /\ operation = None
  /\ requests[r] # None
  /\ replies' = replies \cup {<<r, requests[r]>>}
  /\ UNCHANGED <<ledger, files, locks, young, pc, local, crashes>>

(* Otherwise evaluate prepares a job record, under a fresh id. *)
Evaluate(c, r, j) ==
  /\ pc[c] = "idle"
  /\ operation = None
  /\ r # NoRequest => requests[r] = None
  /\ j \notin Reserved /\ \A d \in Clients : job[d] # j
  /\ operation' = c
  /\ job' = [job EXCEPT ![c] = j]
  /\ request' = [request EXCEPT ![c] = r]
  /\ Goto(c, "reserve")
  /\ UNCHANGED <<ledger, files, host, completion, reconcile, young, rec, seen, out,
                 crashes, replies>>

(* reserve: refused while a job is active or when the budget is spent. *)
ReserveRefused(c) ==
  /\ pc[c] = "reserve"
  /\ active # None \/ evaluations >= MaxEvaluations
  /\ Return(c)
  /\ UNCHANGED <<ledger, files, young, crashes, replies>>

(* Mutant: the request id is not recorded with the reservation. *)
ReserveAnonymous(c) ==
  /\ pc[c] = "reserve"
  /\ active = None /\ evaluations < MaxEvaluations
  /\ evaluations' = evaluations + 1
  /\ active' = job[c]
  /\ pending' = job[c]
  /\ young' = young \cup {job[c]}
  /\ Goto(c, "mkdir")
  /\ UNCHANGED <<requests, results, jobResults, charges, best, files, locks, local,
                 crashes, replies>>

Reserve(c) ==
  /\ pc[c] = "reserve"
  /\ active = None /\ evaluations < MaxEvaluations
  /\ evaluations' = evaluations + 1
  /\ active' = job[c]
  /\ pending' = job[c]
  /\ requests' = IF request[c] = NoRequest THEN requests
                 ELSE [requests EXCEPT ![request[c]] = job[c]]
  /\ young' = young \cup {job[c]}
  /\ Goto(c, "mkdir")
  /\ UNCHANGED <<results, jobResults, charges, best, files, locks, local, crashes, replies>>

(* jd.mkdir() raises when a status call has already recreated job.json. *)
MakeDir(c) ==
  /\ pc[c] = "mkdir"
  /\ \/ /\ job[c] \in dir
        /\ Return(c)
        /\ UNCHANGED dir
     \/ /\ job[c] \notin dir
        /\ dir' = dir \cup {job[c]}
        /\ Goto(c, "spawn")
        /\ UNCHANGED <<locks, local>>
  /\ UNCHANGED <<ledger, file, cancelled, evidence, young, crashes, replies>>

(* save(job.json), just before Popen. *)
SaveJob(c) == file' = [file EXCEPT ![job[c]] = Queued]

(* job.json is saved, the worker starts and evaluate returns the queued job. *)
Spawn(c) ==
  /\ pc[c] = "spawn"
  /\ SaveJob(c)
  /\ LET j == job[c] IN
       /\ Release(c)
       /\ pc' = [pc EXCEPT ![c] = "idle", ![j] = "start"]
       /\ job' = [job EXCEPT ![c] = None, ![j] = j]
       /\ request' = [request EXCEPT ![c] = NoRequest]
       /\ replies' = IF request[c] = NoRequest THEN replies
                     ELSE replies \cup {<<request[c], j>>}
  /\ UNCHANGED <<ledger, dir, cancelled, evidence, young, rec, seen, out, crashes>>

(* Popen raises OSError: evaluate settles the job itself. *)
SpawnFailed(c) ==
  /\ pc[c] = "spawn"
  /\ SaveJob(c)
  /\ rec' = [rec EXCEPT ![c] = Queued]
  /\ out' = [out EXCEPT ![c] = [job |-> job[c], status |-> "failed", cost |-> 0]]
  /\ Goto(c, "settle")
  /\ UNCHANGED <<ledger, dir, cancelled, evidence, locks, young, job, request, seen,
                 crashes, replies>>

-----------------------------------------------------------------------------
(* status(job), whose first steps cancel(job) shares *)

Status(c, j) ==
  /\ pc[c] = "idle"
  /\ j \in Reserved
  /\ job' = [job EXCEPT ![c] = j]
  /\ seen' = [seen EXCEPT ![c] = jobResults[j]]
  /\ Goto(c, "load")
  /\ UNCHANGED <<ledger, files, locks, young, request, rec, out, crashes, replies>>

(* _job: a missing job.json is recreated from pending_job, if it is there. *)
Load(c) ==
  /\ pc[c] = "load"
  /\ LET j == job[c] IN
     \/ /\ file[j] # None
        /\ rec' = [rec EXCEPT ![c] = file[j]]
        /\ Goto(c, "examine")
        /\ UNCHANGED <<locks, job, request, seen, out>>
     \/ /\ file[j] = None /\ pending = j
        /\ Goto(c, "recreate")
        /\ UNCHANGED <<locks, local>>
     \/ /\ file[j] = None /\ pending # j
        /\ Return(c)
  /\ UNCHANGED <<ledger, files, young, crashes, replies>>

Recreate(c) ==
  /\ pc[c] = "recreate"
  /\ dir' = dir \cup {job[c]}
  /\ file' = [file EXCEPT ![job[c]] = Queued]
  /\ Goto(c, "load")
  /\ UNCHANGED <<ledger, cancelled, evidence, locks, young, local, crashes, replies>>

(* A settlement missing from job.json is written there; a job without one  *)
(* is returned as it is, unless its worker looks dead.                     *)
Examine(c) ==
  /\ pc[c] = "examine"
  /\ LET j == job[c]
         r == IF rec[c].result = None /\ seen[c] # None
              THEN Committed(rec[c], seen[c]) ELSE rec[c]
     IN /\ file' = IF r # rec[c] THEN [file EXCEPT ![j] = r] ELSE file
        /\ \/ /\ Open(r) /\ ~Alive(r, j)
              /\ rec' = [rec EXCEPT ![c] = r]
              /\ Goto(c, "reconcile")
              /\ UNCHANGED <<locks, job, request, seen, out>>
           \/ /\ ~Open(r) \/ Alive(r, j)
              /\ Return(c)
  /\ UNCHANGED <<ledger, dir, cancelled, evidence, young, crashes, replies>>

LockReconcile(c) ==
  /\ pc[c] = "reconcile"
  /\ reconcile[job[c]] = None
  /\ reconcile' = [reconcile EXCEPT ![job[c]] = c]
  /\ Goto(c, "reload")
  /\ UNCHANGED <<ledger, files, operation, host, completion, young, local, crashes, replies>>

(* Both checks are made again under reconcile.lock. *)
Reload(c) ==
  /\ pc[c] = "reload"
  /\ LET j == job[c]
         r == file[j]
     IN \/ /\ Open(r) /\ ~Alive(r, j)
           /\ rec' = [rec EXCEPT ![c] = r]
           /\ out' = [out EXCEPT ![c] = [job |-> j, status |-> "crashed", cost |-> 0]]
           /\ Goto(c, "settle")
           /\ UNCHANGED <<locks, job, request, seen>>
        \/ /\ ~Open(r) \/ Alive(r, j)
           /\ Return(c)
  /\ UNCHANGED <<ledger, files, young, crashes, replies>>

(* cancel reads the record the same way and leaves a cancel.json beside it;  *)
(* a record that is no longer open it answers as status would.             *)
Cancel(c) ==
  /\ pc[c] = "examine"
  /\ Open(rec[c])
  /\ cancelled' = cancelled \cup {job[c]}
  /\ Return(c)
  /\ UNCHANGED <<ledger, dir, file, evidence, young, crashes, replies>>

-----------------------------------------------------------------------------
(* _finish_job, called by workers, status and evaluate *)

(* Mutant: no completion.lock. *)
LockNoCompletion(x) ==
  /\ pc[x] = "settle"
  /\ completion' = [completion EXCEPT ![job[x]] = x]
  /\ Goto(x, "check")
  /\ UNCHANGED <<ledger, files, operation, host, reconcile, young, local, crashes, replies>>

LockCompletion(x) ==
  /\ pc[x] = "settle"
  /\ completion[job[x]] = None
  /\ completion' = [completion EXCEPT ![job[x]] = x]
  /\ Goto(x, "check")
  /\ UNCHANGED <<ledger, files, operation, host, reconcile, young, local, crashes, replies>>

(* Mutant: raw.json is not saved before the ledger update. *)
CheckCommittedOnly(x) ==
  /\ pc[x] = "check"
  /\ LET j == job[x] IN
     \/ /\ jobResults[j] # None
        /\ file' = [file EXCEPT ![j] = Committed(rec[x], jobResults[j])]
        /\ Return(x)
     \/ /\ jobResults[j] = None /\ active # j
        /\ Return(x)
        /\ UNCHANGED file
     \/ /\ jobResults[j] = None /\ active = j
        /\ Goto(x, "commit")
        /\ UNCHANGED <<file, locks, local>>
  /\ UNCHANGED <<ledger, dir, cancelled, evidence, young, crashes, replies>>

(* Already settled: the caller's record is brought up to date and saved.   *)
(* Not active although not settled: an error.  Otherwise raw.json is saved *)
(* before the ledger names it.                                             *)
CheckCommitted(x) ==
  /\ pc[x] = "check"
  /\ LET j == job[x] IN
     \/ /\ jobResults[j] # None
        /\ file' = [file EXCEPT ![j] = Committed(rec[x], jobResults[j])]
        /\ Return(x)
        /\ UNCHANGED evidence
     \/ /\ jobResults[j] = None /\ active # j
        /\ Return(x)
        /\ UNCHANGED <<file, evidence>>
     \/ /\ jobResults[j] = None /\ active = j
        /\ evidence' = evidence \cup {out[x]}
        /\ Goto(x, "commit")
        /\ UNCHANGED <<file, locks, local>>
  /\ UNCHANGED <<ledger, dir, cancelled, young, crashes, replies>>

(* The change of the ledger update, its comparison with best_cost given. *)
Settlement(j, r, better) ==
  /\ active' = None /\ pending' = None
  /\ results' = Append(results, r)
  /\ jobResults' = [jobResults EXCEPT ![j] = r]
  /\ charges' = [charges EXCEPT ![j] = @ + 1]
  /\ best' = IF r.status = "eligible" /\ (best = None \/ better) THEN r ELSE best
CommitStep(x) ==
  /\ pc[x] = "commit"
  /\ Goto(x, "record")
  /\ UNCHANGED <<requests, evaluations, files, locks, young, local, crashes, replies>>
NotActive(x) ==
  /\ active # job[x]
  /\ UNCHANGED <<active, pending, results, jobResults, charges, best>>

(* Mutant: active_job is left in place. *)
CommitStillActive(x) ==
  /\ CommitStep(x)
  /\ \/ /\ active = job[x]
        /\ results' = Append(results, out[x])
        /\ jobResults' = [jobResults EXCEPT ![job[x]] = out[x]]
        /\ charges' = [charges EXCEPT ![job[x]] = @ + 1]
        /\ UNCHANGED <<active, pending, best>>
     \/ NotActive(x)

(* Mutant: an equal cost replaces the best result. *)
CommitLastCheapest(x) ==
  /\ CommitStep(x)
  /\ \/ active = job[x] /\ Settlement(job[x], out[x], out[x].cost <= best.cost)
     \/ NotActive(x)

(* The ledger update.  best_cost was read before it; completion.lock and   *)
(* the single active job keep it current.                                  *)
Commit(x) ==
  /\ CommitStep(x)
  /\ \/ active = job[x] /\ Settlement(job[x], out[x], out[x].cost < best.cost)
     \/ NotActive(x)

RecordResult(x) ==
  /\ pc[x] = "record"
  /\ file' = [file EXCEPT ![job[x]] = Committed(rec[x], out[x])]
  /\ Return(x)
  /\ UNCHANGED <<ledger, dir, cancelled, evidence, young, crashes, replies>>

-----------------------------------------------------------------------------
(* The worker process *)

(* It loads its record and adds its pid: two steps, the file in between is *)
(* anyone's.                                                               *)
WorkerLoad(j) ==
  /\ pc[j] = "start"
  /\ file[j] # None
  /\ rec' = [rec EXCEPT ![j] = file[j]]
  /\ Goto(j, "loaded")
  /\ UNCHANGED <<ledger, files, locks, young, job, request, seen, out, crashes, replies>>

WorkerPid(j) ==
  /\ pc[j] = "loaded"
  /\ rec' = [rec EXCEPT ![j].pid = TRUE]
  /\ file' = [file EXCEPT ![j] = rec'[j]]
  /\ Goto(j, "queued")
  /\ UNCHANGED <<ledger, dir, cancelled, evidence, locks, young, job, request, seen, out,
                 crashes, replies>>

(* Cancelled or out of patience while queued: settle without evaluating. *)
WorkerGiveUp(j) ==
  /\ pc[j] = "queued"
  /\ out' = [out EXCEPT ![j] =
       [job |-> j, status |-> IF j \in cancelled THEN "cancelled" ELSE "failed", cost |-> 0]]
  /\ Goto(j, "settle")
  /\ UNCHANGED <<ledger, files, locks, young, job, request, rec, seen, crashes, replies>>

(* Mutant: the host lock is not taken. *)
WorkerRunUnlocked(j) ==
  /\ pc[j] = "queued"
  /\ j \notin cancelled
  /\ rec' = [rec EXCEPT ![j].status = "running"]
  /\ file' = [file EXCEPT ![j] = rec'[j]]
  /\ Goto(j, "running")
  /\ UNCHANGED <<ledger, dir, cancelled, evidence, locks, young,
                 job, request, seen, out, crashes, replies>>

(* The host lock is tried, never waited for. *)
WorkerRun(j) ==
  /\ pc[j] = "queued"
  /\ j \notin cancelled
  /\ host = None
  /\ host' = j
  /\ rec' = [rec EXCEPT ![j].status = "running"]
  /\ file' = [file EXCEPT ![j] = rec'[j]]
  /\ Goto(j, "running")
  /\ UNCHANGED <<ledger, dir, cancelled, evidence, operation, completion, reconcile, young,
                 job, request, seen, out, crashes, replies>>

WorkerOutcome(j) ==
  [job : {j}, status : {"eligible"}, cost : Costs]
    \cup [job : {j}, status : {"failed"}, cost : {0}]
    \cup (IF j \in cancelled THEN [job : {j}, status : {"cancelled"}, cost : {0}] ELSE {})

WorkerEvaluate(j) ==
  /\ pc[j] = "running"
  /\ host' = None
  /\ \E r \in WorkerOutcome(j) : out' = [out EXCEPT ![j] = r]
  /\ Goto(j, "settle")
  /\ UNCHANGED <<ledger, files, operation, completion, reconcile, young,
                 job, request, rec, seen, crashes, replies>>

-----------------------------------------------------------------------------
(* Thirty seconds have passed since the job was reserved. *)
Age(j) ==
  /\ j \in young
  /\ young' = young \ {j}
  /\ UNCHANGED <<ledger, files, locks, pc, local, crashes, replies>>

(* SIGKILL of a client or a worker. *)
Crash(x) ==
  /\ crashes < MaxCrashes
  /\ pc[x] \notin {"idle", "none", "exited"}
  /\ crashes' = crashes + 1
  /\ Return(x)
  /\ UNCHANGED <<ledger, files, young, replies>>

Settle(x) ==
  LockCompletion(x) \/ CheckCommitted(x) \/ Commit(x) \/ RecordResult(x)

ClientStep(c) ==
  \/ ReserveRefused(c) \/ Reserve(c) \/ MakeDir(c)
  \/ Spawn(c) \/ SpawnFailed(c)
  \/ Load(c) \/ Recreate(c) \/ Examine(c) \/ LockReconcile(c) \/ Reload(c)
  \/ Settle(c)

WorkerStep(j) ==
  \/ WorkerLoad(j) \/ WorkerPid(j) \/ WorkerGiveUp(j) \/ WorkerRun(j) \/ WorkerEvaluate(j)
  \/ Settle(j)

Next ==
  \/ \E c \in Clients :
       \/ \E r \in Requests : Replay(c, r)
       \/ \E r \in Requests \cup {NoRequest}, j \in Jobs : Evaluate(c, r, j)
       \/ \E j \in Jobs : Status(c, j)
       \/ Cancel(c)
       \/ ClientStep(c)
  \/ \E j \in Jobs : WorkerStep(j) \/ Age(j)
  \/ \E x \in Actors : Crash(x)

Spec == Init /\ [][Next]_vars

(* Processes run until they die; time passes; and some client keeps polling *)
(* the active job to the end of a status call, as wait() and the            *)
(* controller's drain loop do, whatever else the clients do meanwhile.      *)
FairSpec ==
  /\ Spec
  /\ \A c \in Clients : WF_vars(ClientStep(c))
  /\ \A j \in Jobs : WF_vars(WorkerStep(j)) /\ WF_vars(Age(j))
  /\ \A j \in Jobs :
       /\ SF_vars(active = j /\ \E c \in Clients : Status(c, j))
       /\ SF_vars(\E c \in Clients : job[c] = j /\ Examine(c))

-----------------------------------------------------------------------------
Labels == {"idle", "reserve", "mkdir", "spawn", "load", "recreate",
           "examine", "reconcile", "reload", "settle", "check", "commit", "record",
           "none", "start", "loaded", "queued", "running", "exited"}

TypeOK ==
  /\ active \in Jobs \cup {None} /\ pending \in Jobs \cup {None}
  /\ requests \in [Requests -> Jobs \cup {None}]
  /\ evaluations \in Nat
  /\ results \in Seq(Result)
  /\ jobResults \in [Jobs -> Result \cup {None}]
  /\ charges \in [Jobs -> Nat]
  /\ best \in Result \cup {None}
  /\ dir \subseteq Jobs /\ cancelled \subseteq Jobs /\ evidence \subseteq Result
  /\ file \in [Jobs -> Record \cup {None}]
  /\ operation \in Clients \cup {None} /\ host \in Jobs \cup {None}
  /\ completion \in [Jobs -> Actors \cup {None}]
  /\ reconcile \in [Jobs -> Clients \cup {None}]
  /\ young \subseteq Jobs
  /\ pc \in [Actors -> Labels]
  /\ job \in [Actors -> Jobs \cup {None}]
  /\ request \in [Actors -> Requests \cup {NoRequest}]
  /\ rec \in [Actors -> Record]
  /\ seen \in [Actors -> Result \cup {None}]
  /\ out \in [Actors -> Result \cup {None}]
  /\ crashes \in Nat
  /\ replies \subseteq Requests \X Jobs

(* Whoever settles a job - its worker, a status call that found it dead,   *)
(* or evaluate itself - it is settled once: one entry in results, the one  *)
(* job_results names, one charge to the budget; and a settled job is never *)
(* active again.                                                           *)
SettledOnce ==
  /\ active # None => jobResults[active] = None
  /\ \A j \in Jobs :
       LET entries == {i \in 1 .. Len(results) : results[i].job = j} IN
       /\ Cardinality(entries) = charges[j]
       /\ charges[j] = IF jobResults[j] = None THEN 0 ELSE 1
       /\ \A i \in entries : results[i] = jobResults[j]

(* Every evaluation charged to the budget is a job that is active or has   *)
(* been settled, whatever crashed in between, and the budget is kept.      *)
EveryChargeAccounted ==
  /\ evaluations = Cardinality(Reserved)
  /\ evaluations <= MaxEvaluations

(* However the writers of job.json interleave, a result named there is the *)
(* ledger's settlement of that job.                                        *)
JobFileTruthful ==
  \A j \in Jobs : file[j] # None /\ file[j].result # None =>
     file[j].result = jobResults[j]

(* A result the ledger names has its raw.json on disk, although a crash    *)
(* may separate the two writes.                                            *)
ResultsHaveEvidence == \A i \in 1 .. Len(results) : results[i] \in evidence

(* The best eligible result is the first of the cheapest, although its     *)
(* cost was compared with one read before the ledger update.               *)
BestIsFirstCheapest ==
  LET eligible == {i \in 1 .. Len(results) : results[i].status = "eligible"} IN
  IF eligible = {} THEN best = None
  ELSE \E i \in eligible :
         /\ best = results[i]
         /\ \A k \in eligible : results[i].cost <= results[k].cost
         /\ \A k \in eligible : k < i => results[i].cost < results[k].cost

(* A request id retried after lost replies, crashes and competing clients  *)
(* is always answered with one job: retries never start another.           *)
RequestsIdempotent ==
  \A a, b \in replies : a[1] = b[1] => a[2] = b[2]

(* Only one evaluation runs under the host lock, even when a worker        *)
(* outlives its own settlement and the next job has been admitted.         *)
OneRunning ==
  Cardinality({j \in Jobs : pc[j] = "running"}) <= 1

(* The host is never overcommitted, by workers or by reservations. *)
HostNotOvercommitted == OneRunning /\ EveryChargeAccounted

(* A reservation is never lost: the job it made active is settled in the   *)
(* end, by its worker or, when worker or client died, by a poll.           *)
EveryJobSettles == \A j \in Jobs : (active = j) ~> (jobResults[j] # None)

(* Not kept by the code (README, Disagreements).                            *)
(* "Consume a crashed attempt": the attempt a poll declares crashed, under  *)
(* reconcile.lock, is one whose worker has died or never recorded its pid.  *)
OnlyDeadWorkersCrash ==
  [][\A c \in Clients :
       pc[c] = "reload" /\ pc'[c] = "settle" => pc[job[c]] \notin {"queued", "running"}]_vars
=============================================================================
