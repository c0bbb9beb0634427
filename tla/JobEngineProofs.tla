---------------------------- MODULE JobEngineProofs ----------------------------
(* Proofs about durable evaluation jobs, for any clients, jobs, request     *)
(* ids, budget and number of crashes.                                       *)
EXTENDS JobEngine, FiniteSetTheorems, TLAPS

-----------------------------------------------------------------------------
Admitting == {"reserve", "mkdir", "spawn"}      \* evaluate, under operation.lock
Polling   == {"load", "recreate", "examine", "reconcile", "reload"}
Settling  == {"settle", "check", "commit", "record"}
Guarded   == {"check", "commit", "record"}      \* under completion.lock
Holding   == {"examine", "reconcile", "reload", "loaded", "queued", "running"} \cup Settling

(* Which job an actor is at work on, and which locks it holds. *)
PlaceInv(x) ==
  /\ x \in Clients => pc[x] \in {"idle"} \cup Admitting \cup Polling \cup Settling
  /\ x \in Jobs => pc[x] \in {"none", "start", "loaded", "queued", "running", "exited"} \cup Settling
  /\ x \in Clients /\ pc[x] # "idle" => job[x] \in Jobs
  /\ x \in Jobs /\ pc[x] \notin {"none", "exited"} => job[x] = x
  /\ pc[x] \in Admitting => operation = x
  /\ pc[x] \in Guarded => completion[job[x]] = x
  /\ pc[x] = "running" => host = x

PlacesInv == \A x \in Actors : PlaceInv(x)

(* What evaluate has written to the ledger so far. *)
AdmitInv(c) ==
  /\ pc[c] = "reserve" => /\ job[c] \notin Reserved
                          /\ request[c] # NoRequest => requests[request[c]] = None
  /\ pc[c] \in {"mkdir", "spawn"} /\ request[c] # NoRequest => requests[request[c]] = job[c]

(* The copies a caller keeps of a record and of a settlement never name     *)
(* another result than the ledger's, however stale they are.                *)
CopyInv(x) ==
  /\ pc[x] \in Polling \cup {"examine"} /\ seen[x] # None => seen[x] = jobResults[job[x]]
  /\ pc[x] \in Holding /\ rec[x].result # None => rec[x].result = jobResults[job[x]]
  /\ pc[x] \in {"examine", "reconcile", "reload"} => file[job[x]] # None

(* A settlement under way: between the check and the commit the job stays   *)
(* active, because only the holder of its completion.lock can settle it.    *)
SettleInv(x) ==
  /\ pc[x] \in Settling => out[x] # None /\ out[x].job = job[x]
  /\ pc[x] = "commit" => active = job[x] /\ out[x] \in evidence
  /\ pc[x] = "record" => jobResults[job[x]] = out[x]

CallsInv == \A x \in Actors : AdmitInv(x) /\ CopyInv(x) /\ SettleInv(x)

(* results and job_results name the same settlements, each charged once. *)
LedgerInv ==
  /\ active # None => jobResults[active] = None
  /\ \A i \in 1 .. Len(results) : jobResults[results[i].job] = results[i]
  /\ \A i, k \in 1 .. Len(results) : results[i].job = results[k].job => i = k
  /\ \A j \in Settled : jobResults[j].job = j /\ \E i \in 1 .. Len(results) : results[i] = jobResults[j]
  /\ \A j \in Jobs : charges[j] = IF jobResults[j] = None THEN 0 ELSE 1

(* Cardinalities are defined for finite sets only. *)
BudgetInv == IsFiniteSet(Reserved) /\ EveryChargeAccounted

(* A reply names the job the ledger still has for the request. *)
RepliesInv == \A p \in replies : requests[p[1]] = p[2]

LedgerPart == LedgerInv /\ BudgetInv /\ RepliesInv /\ ResultsHaveEvidence /\ BestIsFirstCheapest

IInv == TypeOK /\ PlacesInv /\ CallsInv /\ LedgerPart /\ JobFileTruthful

-----------------------------------------------------------------------------
(* The other actors stay where they are and keep their locks. *)
Alone(X) ==
  \A y \in Actors \ X :
    /\ pc'[y] = pc[y] /\ job'[y] = job[y] /\ request'[y] = request[y]
    /\ rec'[y] = rec[y] /\ seen'[y] = seen[y] /\ out'[y] = out[y]
    /\ operation = y => operation' = y
    /\ host = y => host' = y
    /\ \A j \in Jobs : completion[j] = y => completion'[j] = y

(* A record written to job.json names no result but the settlement, a reply *)
(* no job but the one the ledger has for the request.                       *)
Kept ==
  /\ \A p \in replies' : p \in replies \/ requests[p[1]] = p[2]
  /\ evidence \subseteq evidence'
  /\ \A j \in Jobs :
       \/ file'[j] = file[j]
       \/ file'[j] # None /\ (file'[j].result = None \/ file'[j].result = jobResults[j])

Own(x) == PlaceInv(x) /\ AdmitInv(x) /\ CopyInv(x) /\ SettleInv(x)

(* A step that leaves the ledger alone keeps what is said of it. *)
LEMMA LedgerFrame ==
  ASSUME LedgerPart, UNCHANGED ledger, Kept
  PROVE  LedgerPart'
BY
   DEF Kept, LedgerPart, LedgerInv, BudgetInv, RepliesInv, ResultsHaveEvidence,
       BestIsFirstCheapest,
       EveryChargeAccounted, Reserved, Settled, ledger

(* The type invariant, by owner: locks and calls, ledger, files and history. *)
LocalType ==
  /\ operation \in Clients \cup {None} /\ host \in Jobs \cup {None}
  /\ completion \in [Jobs -> Actors \cup {None}]
  /\ reconcile \in [Jobs -> Clients \cup {None}]
  /\ pc \in [Actors -> Labels]
  /\ job \in [Actors -> Jobs \cup {None}]
  /\ request \in [Actors -> Requests \cup {NoRequest}]
  /\ rec \in [Actors -> Record]
  /\ seen \in [Actors -> Result \cup {None}]
  /\ out \in [Actors -> Result \cup {None}]

LedgerType ==
  /\ active \in Jobs \cup {None} /\ pending \in Jobs \cup {None}
  /\ requests \in [Requests -> Jobs \cup {None}]
  /\ evaluations \in Nat
  /\ results \in Seq(Result)
  /\ jobResults \in [Jobs -> Result \cup {None}]
  /\ charges \in [Jobs -> Nat]
  /\ best \in Result \cup {None}

RestType ==
  /\ dir \subseteq Jobs /\ cancelled \subseteq Jobs /\ evidence \subseteq Result
  /\ file \in [Jobs -> Record \cup {None}]
  /\ young \subseteq Jobs
  /\ crashes \in Nat
  /\ replies \subseteq Requests \X Jobs

(* The type invariant in three parts. *)
LEMMA TypeParts == TypeOK <=> LedgerType /\ RestType /\ LocalType
BY DEF TypeOK, LedgerType, RestType, LocalType

(* What the operators on records return. *)
LEMMA RecordNotNone == None \notin Record /\ None \notin Result
BY NoneAssumption

(* A job starts without a result. *)
LEMMA QueuedType == Queued \in Record /\ Queued.result = None /\ Queued # None
<1>. Queued \in Record
  BY DEF Queued, Record
<1>. QED
  BY RecordNotNone DEF Queued

(* What is committed of a job is its result. *)
LEMMA CommittedType ==
  ASSUME NEW r \in Record, NEW s \in Result
  PROVE  Committed(r, s) \in Record /\ Committed(r, s).result = s
BY DEF Committed, Record, Result, Statuses

(* Starting a job changes no result. *)
LEMMA RecordUpdate ==
  ASSUME NEW r \in Record
  PROVE  /\ [r EXCEPT !.pid = TRUE] \in Record
         /\ [r EXCEPT !.pid = TRUE].result = r.result
         /\ [r EXCEPT !.status = "running"] \in Record
         /\ [r EXCEPT !.status = "running"].result = r.result
BY DEF Record

(* An actor that takes no part in a step keeps its place. *)
LEMMA PlaceFrame ==
  ASSUME IInv, NEW X, Alone(X), NEW y \in Actors \ X
  PROVE  /\ PlaceInv(y)'
         /\ PlaceInv(y) /\ AdmitInv(y) /\ CopyInv(y) /\ SettleInv(y)
         /\ pc[y] \in Guarded \cup Holding \cup Polling => job[y] \in Jobs
<1>1. PlaceInv(y) /\ AdmitInv(y) /\ CopyInv(y) /\ SettleInv(y)
  BY DEF IInv, PlacesInv, CallsInv
<1>2. pc[y] \in Guarded \cup Holding \cup Polling => job[y] \in Jobs
  BY <1>1 DEF PlaceInv, Actors, Guarded, Holding, Admitting, Polling, Settling
<1>3. PlaceInv(y)'
  BY <1>1, <1>2 DEF PlaceInv, Alone, Guarded
<1>. QED
  BY <1>1, <1>2, <1>3

(* A step that leaves the ledger alone keeps the invariant if it keeps     *)
(* that of the actors in it.                                               *)
LEMMA StepInv ==
  ASSUME IInv, NEW X \in SUBSET Actors, UNCHANGED ledger, RestType', LocalType',
         Alone(X), Kept, \A x \in X : Own(x)'
  PROVE  IInv'
<1>1. TypeOK'
  <2>1. LedgerType'
    BY TypeParts DEF IInv, LedgerType, ledger
  <2>. QED
    BY <2>1 DEF TypeOK, LedgerType, RestType, LocalType
<1>2. ASSUME NEW y \in Actors \ X
      PROVE  PlaceInv(y)' /\ AdmitInv(y)' /\ CopyInv(y)' /\ SettleInv(y)'
  <2>1. AdmitInv(y)'
    BY PlaceFrame DEF AdmitInv, Alone, Reserved, Settled, ledger
  <2>2. CopyInv(y)'
    BY PlaceFrame DEF CopyInv, Alone, Kept, ledger, Holding, Polling
  <2>3. SettleInv(y)'
    BY PlaceFrame DEF SettleInv, Alone, Kept, ledger
  <2>. QED
    BY <2>1, <2>2, <2>3, PlaceFrame
<1>3. PlacesInv' /\ CallsInv'
  BY <1>2 DEF Own, PlacesInv, CallsInv
<1>4. JobFileTruthful'
  BY DEF IInv, JobFileTruthful, Kept, ledger
<1>5. LedgerPart'
  BY LedgerFrame DEF IInv
<1>. QED
  BY <1>1, <1>3, <1>4, <1>5 DEF IInv

(* A call that returns, raises or dies relies on nothing any more. *)
LEMMA ReturnInv ==
  ASSUME LocalType, NEW x \in Actors, Return(x)
  PROVE  LocalType' /\ Alone({x}) /\ Own(x)'
<1>. USE JobEngineAssumption DEF Return, Release, LocalType, Actors
<1>1. LocalType'
  BY QueuedType DEF Labels
<1>2. Alone({x})
  BY DEF Alone
<1>3. Own(x)'
  BY
     DEF Own, PlaceInv, AdmitInv, CopyInv, SettleInv, Admitting, Polling, Settling, Guarded,
         Holding
<1>. QED
  BY <1>1, <1>2, <1>3

(* Saving a record that names no other result than the settlement. *)
LEMMA SaveInv ==
  ASSUME RestType, NEW j \in Jobs, NEW r \in Record, r.result \in {None, jobResults[j]},
         file' = [file EXCEPT ![j] = r], UNCHANGED <<evidence, replies>>
  PROVE  Kept /\ file' \in [Jobs -> Record \cup {None}]
BY RecordNotNone DEF RestType, Kept

(* No step of any client or worker breaks what the others rely on. *)
LEMMA InvNext == IInv /\ [Next]_vars => IInv'
<1>. SUFFICES ASSUME IInv, [Next]_vars PROVE IInv'
  OBVIOUS
<1>. USE JobEngineAssumption
     DEF Actors, Own, Goto, Admitting, Polling, Settling, Guarded, Holding
<1>0. LedgerType /\ RestType /\ LocalType /\ JobFileTruthful
  BY TypeParts DEF IInv

<1>1. ASSUME NEW c \in Clients, NEW r \in Requests \cup {NoRequest}, NEW j \in Jobs, Evaluate(c, r, j)
      PROVE  IInv'
  <2>0. c \in Actors /\ Own(c)
    BY DEF IInv, PlacesInv, CallsInv
  <2>1. UNCHANGED ledger /\ RestType' /\ Kept
    BY <1>1, <1>0 DEF Evaluate, RestType, Kept, files, ledger
  <2>2. LocalType'
    BY <1>1, <1>0, <2>0 DEF Evaluate, LocalType, Labels, local, locks
  <2>3. Alone({c})
    BY <1>1, <1>0, <2>0 DEF Evaluate, Alone, LocalType, local, locks
  <2>4. Own(c)'
    BY <1>1, <1>0, <2>0
       DEF Evaluate, LocalType, PlaceInv, AdmitInv, CopyInv, SettleInv, local, locks,
           ledger, files, Reserved, Settled, LedgerType
  <2>. QED
    BY <2>0, <2>1, <2>2, <2>3, <2>4, StepInv

<1>2. ASSUME NEW c \in Clients, NEW j \in Jobs, Status(c, j) PROVE IInv'
  <2>0. c \in Actors /\ Own(c)
    BY DEF IInv, PlacesInv, CallsInv
  <2>1. UNCHANGED ledger /\ RestType' /\ Kept
    BY <1>2, <1>0 DEF Status, RestType, Kept, files, ledger
  <2>2. LocalType'
    BY <1>2, <1>0, <2>0 DEF Status, LocalType, Labels, local, locks, LedgerType
  <2>3. Alone({c})
    BY <1>2, <1>0, <2>0 DEF Status, Alone, LocalType, local, locks
  <2>4. Own(c)'
    BY <1>2, <1>0, <2>0
       DEF Status, LocalType, PlaceInv, AdmitInv, CopyInv, SettleInv, local, locks, ledger,
           files
  <2>. QED
    BY <2>0, <2>1, <2>2, <2>3, <2>4, StepInv

<1>3. ASSUME NEW c \in Clients, Cancel(c) PROVE IInv'
  <2>0. c \in Actors /\ Own(c)
    BY DEF IInv, PlacesInv, CallsInv
  <2>1. UNCHANGED ledger /\ RestType' /\ Kept
    BY <1>3, <1>0, <2>0 DEF Cancel, RestType, Kept, files, ledger, PlaceInv
  <2>2. LocalType' /\ Alone({c}) /\ Own(c)'
    BY <1>3, <1>0, <2>0, ReturnInv DEF Cancel
  <2>. QED
    BY <2>0, <2>1, <2>2, StepInv

<1>4. ASSUME NEW c \in Clients, ReserveRefused(c) PROVE IInv'
  <2>0. c \in Actors /\ Own(c)
    BY DEF IInv, PlacesInv, CallsInv
  <2>1. UNCHANGED ledger /\ RestType' /\ Kept
    BY <1>4, <1>0 DEF ReserveRefused, RestType, Kept, files, ledger
  <2>2. LocalType' /\ Alone({c}) /\ Own(c)'
    BY <1>4, <1>0, <2>0, ReturnInv DEF ReserveRefused
  <2>. QED
    BY <2>0, <2>1, <2>2, StepInv

<1>5. ASSUME NEW c \in Clients, MakeDir(c) PROVE IInv'
  <2>0. c \in Actors /\ Own(c)
    BY DEF IInv, PlacesInv, CallsInv
  <2>1. CASE job[c] \in dir
    <3>1. UNCHANGED ledger /\ RestType' /\ Kept
      BY <1>5, <2>1, <1>0 DEF MakeDir, RestType, Kept, files, ledger
    <3>2. LocalType' /\ Alone({c}) /\ Own(c)'
      BY <1>5, <2>1, <1>0, <2>0, ReturnInv DEF MakeDir
    <3>. QED
      BY <2>0, <3>1, <3>2, StepInv
  <2>2. CASE job[c] \notin dir
    <3>1. UNCHANGED ledger /\ RestType' /\ Kept
      BY <1>5, <2>2, <1>0, <2>0 DEF MakeDir, RestType, Kept, files, ledger, PlaceInv
    <3>2. LocalType'
      BY <1>5, <2>2, <1>0, <2>0 DEF MakeDir, LocalType, Labels, local, locks
    <3>3. Alone({c})
      BY <1>5, <2>2, <1>0, <2>0 DEF MakeDir, Alone, LocalType, local, locks
    <3>4. Own(c)'
      BY <1>5, <2>2, <1>0, <2>0
         DEF MakeDir, LocalType, PlaceInv, AdmitInv, CopyInv, SettleInv, local, locks,
             ledger, files
    <3>. QED
      BY <2>0, <3>1, <3>2, <3>3, <3>4, StepInv
  <2>. QED
    BY <2>1, <2>2

<1>6. ASSUME NEW c \in Clients, SpawnFailed(c) PROVE IInv'
  <2>0. c \in Actors /\ Own(c)
    BY DEF IInv, PlacesInv, CallsInv
  <2>a. [job |-> job[c], status |-> "failed", cost |-> 0] \in Result
    BY <1>6, <2>0 DEF SpawnFailed, PlaceInv, Result, Statuses
  <2>1. UNCHANGED ledger /\ RestType' /\ Kept
    BY <1>6, <1>0, <2>0, SaveInv, QueuedType
       DEF SpawnFailed, SaveJob, RestType, files, ledger, PlaceInv
  <2>2. LocalType'
    BY <1>6, <1>0, <2>0, <2>a, QueuedType
       DEF SpawnFailed, SaveJob, LocalType, Labels, local, locks
  <2>3. Alone({c})
    BY <1>6, <1>0, <2>0 DEF SpawnFailed, SaveJob, Alone, LocalType, local, locks
  <2>4. Own(c)'
    BY <1>6, <1>0, <2>0, <2>a, RecordNotNone, QueuedType
       DEF SpawnFailed, SaveJob, LocalType, PlaceInv, AdmitInv, CopyInv, SettleInv, local,
           locks, ledger, files
  <2>. QED
    BY <2>0, <2>1, <2>2, <2>3, <2>4, StepInv

<1>7. ASSUME NEW c \in Clients, Load(c) PROVE IInv'
  <2>0. c \in Actors /\ Own(c)
    BY DEF IInv, PlacesInv, CallsInv
  <2>a. job[c] \in Jobs
    BY <1>7, <2>0 DEF Load, PlaceInv
  <2>1. CASE file[job[c]] # None
    <3>1. UNCHANGED ledger /\ RestType' /\ Kept
      BY <1>7, <2>1, <1>0 DEF Load, RestType, Kept, files, ledger
    <3>2. LocalType'
      BY <1>7, <2>1, <1>0, <2>0, <2>a DEF Load, LocalType, Labels, local, locks, RestType
    <3>3. Alone({c})
      BY <1>7, <2>1, <1>0, <2>0 DEF Load, Alone, LocalType, local, locks
    <3>4. Own(c)'
      BY <1>7, <2>1, <1>0, <2>0, <2>a
         DEF Load, LocalType, PlaceInv, AdmitInv, CopyInv, SettleInv, local, locks, ledger,
             files, JobFileTruthful
    <3>. QED
      BY <2>0, <3>1, <3>2, <3>3, <3>4, StepInv
  <2>2. CASE file[job[c]] = None /\ pending = job[c]
    <3>1. UNCHANGED ledger /\ RestType' /\ Kept
      BY <1>7, <2>2, <1>0 DEF Load, RestType, Kept, files, ledger
    <3>2. LocalType'
      BY <1>7, <2>2, <1>0, <2>0 DEF Load, LocalType, Labels, local, locks
    <3>3. Alone({c})
      BY <1>7, <2>2, <1>0, <2>0 DEF Load, Alone, LocalType, local, locks
    <3>4. Own(c)'
      BY <1>7, <2>2, <1>0, <2>0
         DEF Load, LocalType, PlaceInv, AdmitInv, CopyInv, SettleInv, local, locks, ledger,
             files
    <3>. QED
      BY <2>0, <3>1, <3>2, <3>3, <3>4, StepInv
  <2>3. CASE file[job[c]] = None /\ pending # job[c]
    <3>1. UNCHANGED ledger /\ RestType' /\ Kept
      BY <1>7, <2>3, <1>0 DEF Load, RestType, Kept, files, ledger
    <3>2. LocalType' /\ Alone({c}) /\ Own(c)'
      BY <1>7, <2>3, <1>0, <2>0, ReturnInv DEF Load
    <3>. QED
      BY <2>0, <3>1, <3>2, StepInv
  <2>. QED
    BY <2>1, <2>2, <2>3

<1>8. ASSUME NEW c \in Clients, Recreate(c) PROVE IInv'
  <2>0. c \in Actors /\ Own(c)
    BY DEF IInv, PlacesInv, CallsInv
  <2>1. UNCHANGED ledger /\ RestType' /\ Kept
    BY <1>8, <1>0, <2>0, SaveInv, QueuedType DEF Recreate, RestType, files, ledger, PlaceInv
  <2>2. LocalType'
    BY <1>8, <1>0, <2>0 DEF Recreate, LocalType, Labels, local, locks
  <2>3. Alone({c})
    BY <1>8, <1>0, <2>0 DEF Recreate, Alone, LocalType, local, locks
  <2>4. Own(c)'
    BY <1>8, <1>0, <2>0, QueuedType
       DEF Recreate, LocalType, PlaceInv, AdmitInv, CopyInv, SettleInv, local, locks,
           ledger, files, RestType
  <2>. QED
    BY <2>0, <2>1, <2>2, <2>3, <2>4, StepInv

<1>9. ASSUME NEW c \in Clients, Examine(c) PROVE IInv'
  <2>0. c \in Actors /\ Own(c)
    BY DEF IInv, PlacesInv, CallsInv
  <2>. DEFINE j == job[c]
              r == IF rec[c].result = None /\ seen[c] # None
                   THEN Committed(rec[c], seen[c]) ELSE rec[c]
  <2>1. j \in Jobs /\ pc[c] = "examine"
    BY <1>9, <2>0 DEF Examine, PlaceInv
  <2>2. r \in Record /\ r.result \in {None, jobResults[j]}
    BY <1>0, <2>0, <2>1, CommittedType DEF LocalType, CopyInv
  <2>3. /\ file' = IF r # rec[c] THEN [file EXCEPT ![j] = r] ELSE file
        /\ UNCHANGED <<ledger, dir, cancelled, evidence, young, crashes, replies>>
        /\ \/ /\ rec' = [rec EXCEPT ![c] = r] /\ Goto(c, "reconcile")
              /\ UNCHANGED <<locks, job, request, seen, out>>
           \/ Return(c)
    BY <1>9 DEF Examine
  <2>. HIDE DEF r
  <2>4. RestType' /\ Kept
    <3>1. CASE file' = file
      BY <1>0, <2>3, <3>1 DEF RestType, Kept
    <3>2. CASE file' = [file EXCEPT ![j] = r]
      BY <1>0, <2>1, <2>2, <2>3, <3>2, SaveInv DEF RestType
    <3>. QED
      BY <2>3, <3>1, <3>2
  <2>5. CASE Return(c)
    BY <1>0, <2>0, <2>3, <2>4, <2>5, ReturnInv, StepInv
  <2>6. CASE rec' = [rec EXCEPT ![c] = r] /\ Goto(c, "reconcile")
             /\ UNCHANGED <<locks, job, request, seen, out>>
    <3>1. LocalType' /\ Alone({c})
      BY <1>0, <2>2, <2>6 DEF LocalType, Labels, Alone, locks
    <3>2. Own(c)'
      BY <1>0, <2>0, <2>1, <2>2, <2>3, <2>4, <2>6
         DEF LocalType, PlaceInv, AdmitInv, CopyInv, SettleInv, Kept, locks, ledger
    <3>. QED
      BY <2>0, <2>3, <2>4, <3>1, <3>2, StepInv
  <2>. QED
    BY <2>3, <2>5, <2>6

<1>10. ASSUME NEW c \in Clients, LockReconcile(c) PROVE IInv'
  <2>0. c \in Actors /\ Own(c)
    BY DEF IInv, PlacesInv, CallsInv
  <2>1. UNCHANGED ledger /\ RestType' /\ Kept
    BY <1>10, <1>0 DEF LockReconcile, RestType, Kept, files, ledger
  <2>2. LocalType'
    BY <1>10, <1>0, <2>0 DEF LockReconcile, LocalType, Labels, local, locks
  <2>3. Alone({c})
    BY <1>10, <1>0, <2>0 DEF LockReconcile, Alone, LocalType, local, locks
  <2>4. Own(c)'
    BY <1>10, <1>0, <2>0
       DEF LockReconcile, LocalType, PlaceInv, AdmitInv, CopyInv, SettleInv, local, locks,
           ledger, files
  <2>. QED
    BY <2>0, <2>1, <2>2, <2>3, <2>4, StepInv

<1>11. ASSUME NEW c \in Clients, Reload(c) PROVE IInv'
  <2>0. c \in Actors /\ Own(c)
    BY DEF IInv, PlacesInv, CallsInv
  <2>a. job[c] \in Jobs /\ file[job[c]] \in Record
    BY <1>11, <1>0, <2>0 DEF Reload, PlaceInv, CopyInv, RestType
  <2>b. [job |-> job[c], status |-> "crashed", cost |-> 0] \in Result
    BY <2>a DEF Result, Statuses
  <2>1. CASE Open(file[job[c]]) /\ ~Alive(file[job[c]], job[c])
    <3>1. UNCHANGED ledger /\ RestType' /\ Kept
      BY <1>11, <2>1, <1>0 DEF Reload, RestType, Kept, files, ledger
    <3>2. LocalType'
      BY <1>11, <2>1, <1>0, <2>0, <2>a, <2>b DEF Reload, LocalType, Labels, local, locks
    <3>3. Alone({c})
      BY <1>11, <2>1, <1>0, <2>0 DEF Reload, Alone, LocalType, local, locks
    <3>4. Own(c)'
      BY <1>11, <2>1, <1>0, <2>0, <2>a, <2>b, RecordNotNone
         DEF Reload, LocalType, PlaceInv, AdmitInv, CopyInv, SettleInv, local, locks,
             ledger, files, JobFileTruthful
    <3>. QED
      BY <2>0, <3>1, <3>2, <3>3, <3>4, StepInv
  <2>2. CASE ~Open(file[job[c]]) \/ Alive(file[job[c]], job[c])
    <3>1. UNCHANGED ledger /\ RestType' /\ Kept
      BY <1>11, <2>2, <1>0 DEF Reload, RestType, Kept, files, ledger
    <3>2. LocalType' /\ Alone({c}) /\ Own(c)'
      BY <1>11, <2>2, <1>0, <2>0, ReturnInv DEF Reload
    <3>. QED
      BY <2>0, <3>1, <3>2, StepInv
  <2>. QED
    BY <2>1, <2>2

<1>12. ASSUME NEW x \in Actors, LockCompletion(x) PROVE IInv'
  <2>0. x \in Actors /\ Own(x)
    BY DEF IInv, PlacesInv, CallsInv
  <2>1. UNCHANGED ledger /\ RestType' /\ Kept
    BY <1>12, <1>0 DEF LockCompletion, RestType, Kept, files, ledger
  <2>2. LocalType'
    BY <1>12, <1>0, <2>0 DEF LockCompletion, LocalType, Labels, local, locks
  <2>3. Alone({x})
    BY <1>12, <1>0, <2>0 DEF LockCompletion, Alone, LocalType, local, locks
  <2>4. Own(x)'
    BY <1>12, <1>0, <2>0
       DEF LockCompletion, LocalType, PlaceInv, AdmitInv, CopyInv, SettleInv, local, locks,
           ledger, files
  <2>. QED
    BY <2>0, <2>1, <2>2, <2>3, <2>4, StepInv

<1>13. ASSUME NEW x \in Actors, CheckCommitted(x) PROVE IInv'
  <2>0. x \in Actors /\ Own(x)
    BY DEF IInv, PlacesInv, CallsInv
  <2>. DEFINE j == job[x]
  <2>1. /\ j \in Jobs /\ pc[x] = "check" /\ out[x] \in Result /\ out[x] # None
        /\ UNCHANGED <<ledger, dir, cancelled, young, crashes, replies>>
    BY <1>13, <1>0, <2>0 DEF CheckCommitted, PlaceInv, SettleInv, LocalType
  <2>2. CASE jobResults[j] # None
    <3>1. Committed(rec[x], jobResults[j]) \in Record
          /\ Committed(rec[x], jobResults[j]).result = jobResults[j]
      <4>. rec[x] \in Record /\ jobResults[j] \in Result
        BY <1>0, <2>0, <2>1, <2>2 DEF LocalType, LedgerType
      <4>. QED
        BY CommittedType
    <3>2. file' = [file EXCEPT ![j] = Committed(rec[x], jobResults[j])]
          /\ UNCHANGED evidence /\ Return(x)
      BY <1>13, <2>2 DEF CheckCommitted
    <3>3. RestType' /\ Kept
      BY <1>0, <2>1, <3>1, <3>2, SaveInv DEF RestType
    <3>. QED
      BY <1>0, <2>0, <2>1, <3>2, <3>3, ReturnInv, StepInv
  <2>3. CASE jobResults[j] = None /\ active # j
    <3>1. UNCHANGED <<file, evidence>> /\ Return(x)
      BY <1>13, <2>3 DEF CheckCommitted
    <3>2. RestType' /\ Kept
      BY <1>0, <2>1, <3>1 DEF RestType, Kept
    <3>. QED
      BY <1>0, <2>0, <2>1, <3>1, <3>2, ReturnInv, StepInv
  <2>4. CASE jobResults[j] = None /\ active = j
    <3>1. evidence' = evidence \cup {out[x]} /\ Goto(x, "commit")
          /\ UNCHANGED <<file, locks, local>>
      BY <1>13, <2>4 DEF CheckCommitted
    <3>2. RestType' /\ Kept
      BY <1>0, <2>1, <3>1 DEF RestType, Kept
    <3>3. LocalType' /\ Alone({x})
      BY <1>0, <3>1 DEF LocalType, Labels, Alone, locks, local
    <3>4. Own(x)'
      BY <1>0, <2>0, <2>1, <2>4, <3>1
         DEF LocalType, PlaceInv, AdmitInv, CopyInv, SettleInv, locks, local, ledger
    <3>. QED
      BY <2>0, <2>1, <3>2, <3>3, <3>4, StepInv
  <2>. QED
    BY <2>2, <2>3, <2>4

<1>14. ASSUME NEW x \in Actors, RecordResult(x) PROVE IInv'
  <2>0. x \in Actors /\ Own(x)
    BY DEF IInv, PlacesInv, CallsInv
  <2>a. job[x] \in Jobs /\ Committed(rec[x], out[x]) \in Record
        /\ Committed(rec[x], out[x]).result = jobResults[job[x]]
    BY <1>14, <1>0, <2>0, CommittedType DEF RecordResult, LocalType, PlaceInv, SettleInv
  <2>1. UNCHANGED ledger /\ RestType' /\ Kept
    BY <1>14, <1>0, <2>0, <2>a, SaveInv DEF RecordResult, RestType, files, ledger
  <2>2. LocalType' /\ Alone({x}) /\ Own(x)'
    BY <1>14, <1>0, <2>0, ReturnInv DEF RecordResult
  <2>. QED
    BY <2>0, <2>1, <2>2, StepInv

<1>15. ASSUME NEW j \in Jobs, WorkerLoad(j) PROVE IInv'
  <2>0. j \in Actors /\ Own(j)
    BY DEF IInv, PlacesInv, CallsInv
  <2>1. UNCHANGED ledger /\ RestType' /\ Kept
    BY <1>15, <1>0 DEF WorkerLoad, RestType, Kept, files, ledger
  <2>2. LocalType'
    BY <1>15, <1>0, <2>0 DEF WorkerLoad, LocalType, Labels, local, locks, RestType
  <2>3. Alone({j})
    BY <1>15, <1>0, <2>0 DEF WorkerLoad, Alone, LocalType, local, locks
  <2>4. Own(j)'
    BY <1>15, <1>0, <2>0
       DEF WorkerLoad, LocalType, PlaceInv, AdmitInv, CopyInv, SettleInv, local, locks,
           ledger, files, JobFileTruthful
  <2>. QED
    BY <2>0, <2>1, <2>2, <2>3, <2>4, StepInv

<1>16. ASSUME NEW j \in Jobs, WorkerPid(j) PROVE IInv'
  <2>0. j \in Actors /\ Own(j)
    BY DEF IInv, PlacesInv, CallsInv
  <2>a. rec[j] \in Record /\ rec[j].result \in {None, jobResults[j]}
    BY <1>16, <1>0, <2>0 DEF WorkerPid, LocalType, PlaceInv, CopyInv
  <2>b. rec' = [rec EXCEPT ![j] = [rec[j] EXCEPT !.pid = TRUE]]
    BY <1>16, <1>0 DEF WorkerPid, LocalType
  <2>c. rec'[j] \in Record /\ rec'[j].result = rec[j].result
    BY <1>0, <2>a, <2>b, RecordUpdate DEF LocalType
  <2>1. UNCHANGED ledger /\ RestType' /\ Kept
    BY <1>16, <1>0, <2>0, <2>a, <2>c, SaveInv DEF WorkerPid, RestType, files, ledger
  <2>2. LocalType'
    BY <1>16, <1>0, <2>0, <2>b, <2>c DEF WorkerPid, LocalType, Labels, local, locks
  <2>3. Alone({j})
    BY <1>16, <1>0, <2>0, <2>b DEF WorkerPid, Alone, LocalType, local, locks
  <2>4. Own(j)'
    BY <1>16, <1>0, <2>0, <2>a, <2>c
       DEF WorkerPid, LocalType, PlaceInv, AdmitInv, CopyInv, SettleInv, local, locks,
           ledger, files
  <2>. QED
    BY <2>0, <2>1, <2>2, <2>3, <2>4, StepInv

<1>17. ASSUME NEW j \in Jobs, WorkerGiveUp(j) PROVE IInv'
  <2>0. j \in Actors /\ Own(j)
    BY DEF IInv, PlacesInv, CallsInv
  <2>a. \A s \in Statuses : [job |-> j, status |-> s, cost |-> 0] \in Result
    BY DEF Result
  <2>1. UNCHANGED ledger /\ RestType' /\ Kept
    BY <1>17, <1>0 DEF WorkerGiveUp, RestType, Kept, files, ledger
  <2>2. LocalType'
    BY <1>17, <1>0, <2>0, <2>a DEF WorkerGiveUp, LocalType, Labels, local, locks, Statuses
  <2>3. Alone({j})
    BY <1>17, <1>0, <2>0 DEF WorkerGiveUp, Alone, LocalType, local, locks
  <2>4. Own(j)'
    BY <1>17, <1>0, <2>0, <2>a, RecordNotNone
       DEF WorkerGiveUp, LocalType, PlaceInv, AdmitInv, CopyInv, SettleInv, local, locks,
           ledger, files, Statuses
  <2>. QED
    BY <2>0, <2>1, <2>2, <2>3, <2>4, StepInv

<1>18. ASSUME NEW j \in Jobs, WorkerRun(j) PROVE IInv'
  <2>0. j \in Actors /\ Own(j)
    BY DEF IInv, PlacesInv, CallsInv
  <2>a. rec[j] \in Record /\ rec[j].result \in {None, jobResults[j]}
    BY <1>18, <1>0, <2>0 DEF WorkerRun, LocalType, PlaceInv, CopyInv
  <2>b. rec' = [rec EXCEPT ![j] = [rec[j] EXCEPT !.status = "running"]]
    BY <1>18, <1>0 DEF WorkerRun, LocalType
  <2>c. rec'[j] \in Record /\ rec'[j].result = rec[j].result
    BY <1>0, <2>a, <2>b, RecordUpdate DEF LocalType
  <2>1. UNCHANGED ledger /\ RestType' /\ Kept
    BY <1>18, <1>0, <2>0, <2>a, <2>c, SaveInv DEF WorkerRun, RestType, files, ledger
  <2>2. LocalType'
    BY <1>18, <1>0, <2>0, <2>b, <2>c DEF WorkerRun, LocalType, Labels, local, locks
  <2>3. Alone({j})
    BY <1>18, <1>0, <2>0, <2>b DEF WorkerRun, Alone, LocalType, local, locks
  <2>4. Own(j)'
    BY <1>18, <1>0, <2>0, <2>a, <2>c
       DEF WorkerRun, LocalType, PlaceInv, AdmitInv, CopyInv, SettleInv, local, locks,
           ledger, files
  <2>. QED
    BY <2>0, <2>1, <2>2, <2>3, <2>4, StepInv

<1>19. ASSUME NEW j \in Jobs, WorkerEvaluate(j) PROVE IInv'
  <2>0. j \in Actors /\ Own(j)
    BY DEF IInv, PlacesInv, CallsInv
  <2>a. PICK r \in WorkerOutcome(j) : out' = [out EXCEPT ![j] = r]
    BY <1>19 DEF WorkerEvaluate
  <2>b. r \in Result /\ r.job = j
    <3>1. CASE r \in [job : {j}, status : {"eligible"}, cost : Costs]
      BY <3>1 DEF Result, Statuses
    <3>2. CASE r \in [job : {j}, status : {"failed"}, cost : {0}]
      BY <3>2 DEF Result, Statuses
    <3>3. CASE r \in [job : {j}, status : {"cancelled"}, cost : {0}]
      BY <3>3 DEF Result, Statuses
    <3>. QED
      BY <3>1, <3>2, <3>3 DEF WorkerOutcome
  <2>1. UNCHANGED ledger /\ RestType' /\ Kept
    BY <1>19, <1>0 DEF WorkerEvaluate, RestType, Kept, files, ledger
  <2>2. LocalType'
    BY <1>19, <1>0, <2>0, <2>a, <2>b DEF WorkerEvaluate, LocalType, Labels, local, locks
  <2>3. Alone({j})
    BY <1>19, <1>0, <2>0, <2>a DEF WorkerEvaluate, Alone, LocalType, local, locks, PlaceInv
  <2>4. Own(j)'
    BY <1>19, <1>0, <2>0, <2>a, <2>b, RecordNotNone
       DEF WorkerEvaluate, LocalType, PlaceInv, AdmitInv, CopyInv, SettleInv, local, locks,
           ledger, files
  <2>. QED
    BY <2>0, <2>1, <2>2, <2>3, <2>4, StepInv

<1>20. ASSUME NEW x \in Actors, Crash(x) PROVE IInv'
  <2>0. x \in Actors /\ Own(x)
    BY DEF IInv, PlacesInv, CallsInv
  <2>1. UNCHANGED ledger /\ RestType' /\ Kept
    BY <1>20, <1>0 DEF Crash, RestType, Kept, files, ledger
  <2>2. LocalType' /\ Alone({x}) /\ Own(x)'
    BY <1>20, <1>0, <2>0, ReturnInv DEF Crash
  <2>. QED
    BY <2>0, <2>1, <2>2, StepInv

<1>21. ASSUME NEW c \in Clients, NEW r \in Requests, Replay(c, r) PROVE IInv'
  <2>1. UNCHANGED ledger /\ RestType' /\ Kept
    BY <1>0, <1>21 DEF Replay, RestType, LedgerType, Kept, files
  <2>2. LocalType' /\ Alone({})
    BY <1>0, <1>21 DEF Replay, LocalType, Alone, local, locks
  <2>. QED
    BY <2>1, <2>2, StepInv

<1>22. ASSUME NEW c \in Clients, Reserve(c) PROVE IInv'
  <2>. DEFINE j == job[c]
  <2>0. c \in Actors /\ Own(c)
    BY DEF IInv, PlacesInv, CallsInv
  <2>1. /\ j \in Jobs /\ j # None /\ j \notin Reserved /\ operation = c
        /\ request[c] # NoRequest => requests[request[c]] = None
        /\ active = None /\ pc[c] = "reserve" /\ evaluations < MaxEvaluations
    BY <1>22, <2>0 DEF Reserve, PlaceInv, AdmitInv
  <2>2. /\ active' = j /\ pending' = j /\ evaluations' = evaluations + 1
        /\ requests' = IF request[c] = NoRequest THEN requests
                       ELSE [requests EXCEPT ![request[c]] = j]
        /\ young' = young \cup {j} /\ pc' = [pc EXCEPT ![c] = "mkdir"]
        /\ UNCHANGED <<results, jobResults, charges, best, files, locks, local, crashes, replies>>
    BY <1>22 DEF Reserve
  <2>3. TypeOK' /\ Alone({c})
    BY <1>0, <2>1, <2>2
       DEF TypeOK, LedgerType, RestType, LocalType, Labels, Alone, files, locks, local
  <2>4. PlacesInv'
    <3>1. PlaceInv(c)'
      BY <1>0, <2>0, <2>1, <2>2 DEF PlaceInv, LocalType, locks, local
    <3>. QED
      BY <2>3, <3>1, PlaceFrame DEF PlacesInv
  <2>5. CallsInv'
    <3>1. AdmitInv(c)' /\ CopyInv(c)' /\ SettleInv(c)'
      BY <1>0, <2>0, <2>1, <2>2
         DEF AdmitInv, CopyInv, SettleInv, LocalType, LedgerType, files, local
    <3>2. ASSUME NEW y \in Actors \ {c} PROVE AdmitInv(y)' /\ CopyInv(y)' /\ SettleInv(y)'
      <4>1. /\ pc[y] \notin Admitting /\ CopyInv(y) /\ SettleInv(y)
            /\ pc[y] \in Guarded \cup Holding \cup Polling => job[y] \in Jobs
        BY <2>1, <2>3, PlaceFrame DEF PlaceInv
      <4>2. pc[y] # "commit"
        BY <2>1, <4>1 DEF SettleInv
      <4>. QED
        BY <2>2, <2>3, <4>1, <4>2 DEF AdmitInv, CopyInv, SettleInv, Alone, files
    <3>. QED
      BY <3>1, <3>2 DEF CallsInv
  <2>6. BudgetInv'
    <3>1. Reserved' = Reserved \cup {j}
      BY <2>1, <2>2 DEF Reserved, Settled
    <3>2. QED
      <4>1. IsFiniteSet(Reserved) /\ evaluations = Cardinality(Reserved)
        BY DEF IInv, LedgerPart, BudgetInv, EveryChargeAccounted
      <4>2. IsFiniteSet(Reserved') /\ Cardinality(Reserved') = Cardinality(Reserved) + 1
        BY <2>1, <3>1, <4>1, FS_AddElement
      <4>. QED
        BY <1>0, <2>1, <2>2, <4>1, <4>2 DEF BudgetInv, EveryChargeAccounted, LedgerType
  <2>7. RepliesInv'
    BY <1>0, <2>1, <2>2 DEF IInv, LedgerPart, RepliesInv, RestType, LedgerType, LocalType
  <2>8. LedgerInv' /\ ResultsHaveEvidence' /\ BestIsFirstCheapest' /\ JobFileTruthful'
    BY <1>0, <2>1, <2>2
       DEF IInv, LedgerPart, LedgerInv, ResultsHaveEvidence, BestIsFirstCheapest,
       JobFileTruthful, Reserved, Settled, files
  <2>. QED
    BY <2>3, <2>4, <2>5, <2>6, <2>7, <2>8 DEF IInv, LedgerPart

<1>23. ASSUME NEW c \in Clients, Spawn(c) PROVE IInv'
  <2>0. c \in Actors /\ Own(c)
    BY DEF IInv, PlacesInv, CallsInv
  <2>1. PICK j \in Jobs :
        /\ j = job[c] /\ c # j /\ c \notin Jobs /\ j \notin Clients
        /\ request[c] # NoRequest => requests[request[c]] = j
    BY <1>23, <2>0 DEF Spawn, PlaceInv, AdmitInv
  <2>2. /\ file' = [file EXCEPT ![j] = Queued]
        /\ replies' = IF request[c] = NoRequest THEN replies
                      ELSE replies \cup {<<request[c], j>>}
        /\ UNCHANGED <<ledger, dir, cancelled, evidence, young, crashes>>
    BY <1>23, <2>1 DEF Spawn, SaveJob
  <2>3. RestType'
    BY <1>0, <2>1, <2>2, QueuedType DEF RestType, LocalType
  <2>4. Kept
    BY <1>0, <2>1, <2>2, QueuedType DEF RestType, Kept
  <2>5. LocalType'
    BY <1>0, <1>23, <2>1 DEF Spawn, Release, LocalType, Labels
  <2>6. Alone({c, j})
    BY <1>0, <1>23, <2>1 DEF Spawn, Release, LocalType, Alone
  <2>7. pc'[c] = "idle" /\ pc'[j] = "start" /\ job'[j] = j
    BY <1>0, <1>23, <2>1 DEF Spawn, LocalType
  <2>8. Own(c)'
    BY <2>1, <2>7 DEF PlaceInv, AdmitInv, CopyInv, SettleInv
  <2>9. Own(j)'
    BY <2>1, <2>7 DEF PlaceInv, AdmitInv, CopyInv, SettleInv
  <2>10. {c, j} \in SUBSET Actors /\ \A x \in {c, j} : Own(x)'
    BY <2>0, <2>1, <2>8, <2>9
  <2>. QED
    BY <2>2, <2>3, <2>4, <2>5, <2>6, <2>10, StepInv

<1>24. ASSUME NEW x \in Actors, Commit(x) PROVE IInv'
  <2>. DEFINE j == job[x]
              r == out[x]
              n == Len(results) + 1
  <2>0. x \in Actors /\ Own(x) /\ LedgerInv
    BY DEF IInv, PlacesInv, CallsInv, LedgerPart
  <2>1. /\ j \in Jobs /\ active = j /\ j # None /\ pc[x] = "commit" /\ completion[j] = x
        /\ jobResults[j] = None /\ r \in Result /\ r # None /\ r.job = j /\ r \in evidence
    BY <1>24, <1>0, <2>0 DEF Commit, CommitStep, PlaceInv, SettleInv, LedgerInv, LocalType
  <2>2. /\ active' = None /\ pending' = None /\ results' = Append(results, r)
        /\ jobResults' = [jobResults EXCEPT ![j] = r]
        /\ charges' = [charges EXCEPT ![j] = charges[j] + 1]
        /\ best' = IF r.status = "eligible" /\ (best = None \/ r.cost < best.cost)
                   THEN r ELSE best
        /\ pc' = [pc EXCEPT ![x] = "record"]
        /\ UNCHANGED <<requests, evaluations, files, locks, young, local, crashes, replies>>
    <3>1. CommitStep(x) /\ Settlement(j, r, r.cost < best.cost)
      BY <1>24, <2>1 DEF Commit, NotActive
    <3>2. pc' = [pc EXCEPT ![x] = "record"]
          /\ UNCHANGED <<requests, evaluations, files, locks, young, local, crashes, replies>>
      BY <3>1 DEF CommitStep
    <3>3. /\ active' = None /\ pending' = None /\ results' = Append(results, r)
          /\ jobResults' = [jobResults EXCEPT ![j] = r]
          /\ charges' = [charges EXCEPT ![j] = charges[j] + 1]
          /\ best' = IF r.status = "eligible" /\ (best = None \/ r.cost < best.cost)
                     THEN r ELSE best
      BY <3>1 DEF Settlement
    <3>. QED
      BY <3>2, <3>3
  <2>3. /\ results' \in Seq(Result) /\ Len(results') = n /\ n \in Nat /\ results'[n] = r
        /\ \A i \in 1 .. Len(results) : results'[i] = results[i] /\ results[i] \in Result
        /\ 1 .. n = (1 .. Len(results)) \cup {n}
    BY <1>0, <2>1, <2>2 DEF LedgerType
  <2>4. TypeOK' /\ Alone({x})
    BY <1>0, <2>1, <2>2, <2>3, SMTT(30)
       DEF TypeOK, LedgerType, RestType, LocalType, Labels, Alone, files, locks, local
  <2>5. PlacesInv'
    <3>1. PlaceInv(x)'
      BY <1>0, <2>0, <2>1, <2>2 DEF PlaceInv, LocalType, locks, local
    <3>. QED
      BY <2>4, <3>1, PlaceFrame DEF PlacesInv
  <2>6. Reserved' = Reserved
    BY <1>0, <2>1, <2>2 DEF Reserved, Settled, LedgerType
  <2>7. \A i \in Jobs : jobResults[i] # None => jobResults'[i] = jobResults[i]
    BY <1>0, <2>1, <2>2 DEF LedgerType
  <2>8. CallsInv'
    <3>1. AdmitInv(x)' /\ CopyInv(x)' /\ SettleInv(x)'
      BY <1>0, <2>0, <2>1, <2>2
         DEF AdmitInv, CopyInv, SettleInv, LocalType, LedgerType, files, local
    <3>2. ASSUME NEW y \in Actors \ {x} PROVE AdmitInv(y)' /\ CopyInv(y)' /\ SettleInv(y)'
      <4>1. /\ PlaceInv(y) /\ AdmitInv(y) /\ CopyInv(y) /\ SettleInv(y)
            /\ pc[y] \in Guarded \cup Holding \cup Polling => job[y] \in Jobs
        BY <2>4, PlaceFrame
      <4>2. pc[y] # "commit"
        BY <2>1, <4>1 DEF SettleInv, PlaceInv
      <4>3. AdmitInv(y)'
        BY <2>2, <2>4, <2>6, <4>1 DEF AdmitInv, Alone
      <4>4. CopyInv(y)'
        BY <2>2, <2>4, <2>7, <4>1 DEF CopyInv, Alone, files
      <4>5. SettleInv(y)'
        BY <2>2, <2>4, <2>7, <4>1, <4>2 DEF SettleInv, Alone, files
      <4>. QED
        BY <4>3, <4>4, <4>5
    <3>. QED
      BY <3>1, <3>2 DEF CallsInv
  <2>9. LedgerInv'
    <3>1. \A i \in 1 .. Len(results) : results[i].job # j /\ jobResults[results[i].job] # None
      BY <2>0, <2>1, <2>3, RecordNotNone DEF LedgerInv
    <3>2. ASSUME NEW i \in 1 .. n PROVE jobResults'[results'[i].job] = results'[i]
      <4>1. CASE i = n
        BY <1>0, <2>0, <2>1, <2>2, <2>3, <4>1 DEF LedgerType, Result
      <4>2. CASE i \in 1 .. Len(results)
        <5>1. /\ results'[i] = results[i] /\ results[i].job # j
              /\ jobResults[results[i].job] = results[i]
          <6>1. jobResults[results[i].job] = results[i]
            BY <2>0, <4>2 DEF LedgerInv
          <6>. QED
            BY <2>3, <3>1, <4>2, <6>1
        <5>2. results[i].job \in Jobs
          BY <2>3, <4>2 DEF Result
        <5>. QED
          BY <1>0, <2>1, <2>2, <5>1, <5>2 DEF LedgerType
      <4>. QED
        BY <2>3, <4>1, <4>2
    <3>3. \A i, k \in 1 .. n : results'[i].job = results'[k].job => i = k
      BY <2>0, <2>1, <2>3, <3>1 DEF LedgerInv
    <3>4. \A i \in Settled' : jobResults'[i].job = i /\ \E k \in 1 .. n : results'[k] = jobResults'[i]
      <4>1. ASSUME NEW i \in Settled'
            PROVE  jobResults'[i].job = i /\ \E k \in 1 .. n : results'[k] = jobResults'[i]
        <5>1. CASE i = j
          BY <1>0, <2>1, <2>2, <2>3, <5>1 DEF LedgerType
        <5>2. CASE i # j
          <6>1. i \in Settled /\ jobResults'[i] = jobResults[i]
            BY <1>0, <2>2, <4>1, <5>2 DEF Settled, LedgerType
          <6>. QED
            BY <2>0, <2>3, <6>1 DEF LedgerInv
        <5>. QED
          BY <5>1, <5>2
      <4>. QED
        BY <4>1
    <3>5. \A i \in Jobs : charges'[i] = IF jobResults'[i] = None THEN 0 ELSE 1
      <4>. charges \in [Jobs -> Nat] /\ jobResults \in [Jobs -> Result \cup {None}]
        BY <1>0 DEF LedgerType
      <4>. \A i \in Jobs : charges[i] = IF jobResults[i] = None THEN 0 ELSE 1
        BY <2>0 DEF LedgerInv
      <4>. charges[j] = 0
        BY <2>1
      <4>. charges'[j] = 1 /\ \A i \in Jobs \ {j} : charges'[i] = charges[i]
        BY <2>1, <2>2
      <4>. jobResults'[j] # None /\ \A i \in Jobs \ {j} : jobResults'[i] = jobResults[i]
        BY <2>1, <2>2
      <4>. QED
        OBVIOUS
    <3>. QED
      BY <2>2, <2>3, <3>2, <3>3, <3>4, <3>5 DEF LedgerInv
  <2>10. BudgetInv' /\ RepliesInv'
    BY <2>2, <2>6 DEF IInv, LedgerPart, BudgetInv, EveryChargeAccounted, RepliesInv
  <2>11. ResultsHaveEvidence'
    BY <2>1, <2>2, <2>3 DEF IInv, LedgerPart, ResultsHaveEvidence, files
  <2>12. BestIsFirstCheapest'
    <3>. DEFINE E == {i \in 1 .. Len(results) : results[i].status = "eligible"}
                F == {i \in 1 .. n : results'[i].status = "eligible"}
    <3>1. /\ E = {} => best = None
          /\ E # {} => \E i \in E : /\ best = results[i]
                                    /\ \A k \in E : results[i].cost <= results[k].cost
                                    /\ \A k \in E : k < i => results[i].cost < results[k].cost
      BY DEF IInv, LedgerPart, BestIsFirstCheapest
    <3>2. /\ F = E \cup (IF r.status = "eligible" THEN {n} ELSE {})
          /\ \A i \in E : i < n /\ results'[i] = results[i] /\ results[i].cost \in Nat
          /\ r.cost \in Nat
      <4>1. \A i \in 1 .. Len(results) : results[i].cost \in Nat /\ r.cost \in Nat
        BY <2>1, <2>3 DEF Result
      <4>2. r.cost \in Nat
        BY <2>1 DEF Result
      <4>3. \A i \in E : i < n /\ i \in 1 .. n /\ results'[i] = results[i]
        BY <1>0, <2>3 DEF LedgerType
      <4>4. \A i \in F : i \in E \/ (i = n /\ r.status = "eligible")
        BY <2>3
      <4>5. r.status = "eligible" => n \in F
        BY <2>3
      <4>. QED
        BY <4>1, <4>2, <4>3, <4>4, <4>5
    <3>3. CASE r.status = "eligible" /\ (best = None \/ r.cost < best.cost)
      <4>1. n \in F /\ best' = r /\ results'[n] = r
        BY <2>2, <2>3, <3>2, <3>3
      <4>2. \A k \in E : r.cost < results[k].cost
        BY <2>3, <3>1, <3>2, <3>3, RecordNotNone
      <4>3. \A k \in F : r.cost <= results'[k].cost /\ (k < n => r.cost < results'[k].cost)
        BY <2>3, <3>2, <4>1, <4>2
      <4>4. \E i \in F : /\ best' = results'[i]
                         /\ \A k \in F : results'[i].cost <= results'[k].cost
                         /\ \A k \in F : k < i => results'[i].cost < results'[k].cost
        BY <4>1, <4>3
      <4>. QED
        BY <2>3, <4>4 DEF BestIsFirstCheapest
    <3>4. CASE ~(r.status = "eligible" /\ (best = None \/ r.cost < best.cost))
      <4>1. best' = best
        BY <2>2, <3>4
      <4>2. CASE E = {}
        BY <2>2, <2>3, <3>1, <3>2, <3>4, <4>1, <4>2 DEF BestIsFirstCheapest
      <4>3. CASE E # {}
        <5>1. PICK i \in E : /\ best = results[i]
                             /\ \A k \in E : results[i].cost <= results[k].cost
                             /\ \A k \in E : k < i => results[i].cost < results[k].cost
          BY <3>1, <4>3
        <5>2. i \in F /\ results'[i] = best /\ best # None
          BY <2>3, <3>2, <5>1, RecordNotNone
        <5>3. \A k \in F : /\ results'[i].cost <= results'[k].cost
                           /\ k < i => results'[i].cost < results'[k].cost
          BY <2>3, <3>2, <3>4, <5>1, <5>2
        <5>. QED
          BY <2>2, <2>3, <4>1, <5>2, <5>3 DEF BestIsFirstCheapest
      <4>. QED
        BY <4>2, <4>3
    <3>. QED
      BY <3>3, <3>4
  <2>13. JobFileTruthful'
    BY <1>0, <2>2, <2>7 DEF JobFileTruthful, files
  <2>. QED
    BY <2>4, <2>5, <2>8, <2>9, <2>10, <2>11, <2>12, <2>13 DEF IInv, LedgerPart

<1>25. ASSUME NEW j \in Jobs, Age(j) PROVE IInv'
  <2>1. UNCHANGED ledger /\ RestType' /\ Kept
    BY <1>0, <1>25 DEF Age, RestType, Kept, files
  <2>2. LocalType' /\ Alone({})
    BY <1>0, <1>25 DEF Age, LocalType, Alone, local, locks
  <2>. QED
    BY <2>1, <2>2, StepInv

<1>26. ASSUME UNCHANGED vars PROVE IInv'
  <2>1. UNCHANGED ledger /\ RestType' /\ Kept /\ LocalType' /\ Alone({})
    BY <1>0, <1>26 DEF vars, ledger, files, locks, local, RestType, Kept, LocalType, Alone
  <2>. QED
    BY <2>1, StepInv
<1>. QED
  BY <1>1, <1>2, <1>3, <1>4, <1>5, <1>6, <1>7, <1>8, <1>9, <1>10, <1>11, <1>12, <1>13,
     <1>14, <1>15, <1>16, <1>17, <1>18, <1>19, <1>20, <1>21, <1>22, <1>23, <1>24, <1>25,
     <1>26
     DEF Next, ClientStep, WorkerStep, Settle

-----------------------------------------------------------------------------
(* Nothing is reserved, running or settled at first. *)
LEMMA InvInit == Init => IInv
<1>. SUFFICES ASSUME Init PROVE IInv
  OBVIOUS
<1>. USE JobEngineAssumption DEF Init, Actors
<1>1. TypeOK
  <2>1. LedgerType /\ RestType
    BY DEF LedgerType, RestType
  <2>2. LocalType
    BY QueuedType DEF LocalType, Labels
  <2>. QED
    BY <2>1, <2>2, TypeParts
<1>2. PlacesInv /\ CallsInv
  BY DEF PlacesInv, PlaceInv, CallsInv, AdmitInv, CopyInv, SettleInv,
         Admitting, Polling, Settling, Guarded, Holding
<1>3. Reserved = {} /\ Settled = {}
  BY DEF Reserved, Settled
<1>4. LedgerInv /\ RepliesInv /\ ResultsHaveEvidence /\ BestIsFirstCheapest /\ JobFileTruthful
  BY <1>3
     DEF LedgerInv, RepliesInv, ResultsHaveEvidence, BestIsFirstCheapest, JobFileTruthful
<1>5. BudgetInv
  BY <1>3, FS_EmptySet DEF BudgetInv, EveryChargeAccounted
<1>. QED
  BY <1>1, <1>2, <1>4, <1>5 DEF IInv, LedgerPart

(* Every reachable state satisfies the inductive invariant. *)
LEMMA Invariance == Spec => []IInv
BY InvInit, InvNext, PTL DEF Spec

(* The engine's variables keep their types. *)
THEOREM TypeCorrect == Spec => []TypeOK
<1>1. IInv => TypeOK
  BY DEF IInv
<1>. QED
  BY Invariance, <1>1, PTL

(* engine.py:_finish_job: a job is settled, and its wall time charged, once. *)
THEOREM SettlesOnce == Spec => []SettledOnce
<1>1. IInv => SettledOnce
  <2>. SUFFICES ASSUME IInv PROVE SettledOnce
    OBVIOUS
  <2>0. LedgerInv /\ results \in Seq(Result) /\ charges \in [Jobs -> Nat]
        /\ jobResults \in [Jobs -> Result \cup {None}]
    BY DEF IInv, LedgerPart, TypeOK
  <2>1. ASSUME NEW j \in Jobs
        PROVE  LET entries == {i \in 1 .. Len(results) : results[i].job = j} IN
               /\ Cardinality(entries) = charges[j]
               /\ charges[j] = IF jobResults[j] = None THEN 0 ELSE 1
               /\ \A i \in entries : results[i] = jobResults[j]
    <3>. DEFINE entries == {i \in 1 .. Len(results) : results[i].job = j}
    <3>1. \A i \in entries : results[i] = jobResults[j] /\ results[i] \in Result
      BY <2>0 DEF LedgerInv
    <3>2. charges[j] = IF jobResults[j] = None THEN 0 ELSE 1
      BY <2>0 DEF LedgerInv
    <3>3. CASE jobResults[j] = None
      <4>1. entries = {}
        BY <3>1, <3>3, RecordNotNone
      <4>. QED
        BY <3>1, <3>2, <3>3, <4>1, FS_EmptySet
    <3>4. CASE jobResults[j] # None
      <4>1. \E i \in 1 .. Len(results) : results[i] = jobResults[j] /\ jobResults[j].job = j
        BY <2>0, <3>4 DEF LedgerInv, Settled
      <4>2. PICK i \in entries : TRUE
        BY <4>1
      <4>3. entries = {i}
        BY <2>0, <4>2 DEF LedgerInv
      <4>. QED
        BY <3>1, <3>2, <3>4, <4>3, FS_Singleton
    <3>. QED
      BY <3>3, <3>4
  <2>. QED
    BY <2>0, <2>1 DEF SettledOnce, LedgerInv
<1>. QED
  BY Invariance, <1>1, PTL

(* Every writer of job.json, however late, names the ledger's settlement. *)
THEOREM FilesAreTruthful == Spec => []JobFileTruthful
<1>1. IInv => JobFileTruthful
  BY DEF IInv
<1>. QED
  BY Invariance, <1>1, PTL

(* raw.json is on disk before the ledger names the result. *)
THEOREM EvidenceFirst == Spec => []ResultsHaveEvidence
<1>1. IInv => ResultsHaveEvidence
  BY DEF IInv, LedgerPart
<1>. QED
  BY Invariance, <1>1, PTL

(* best_eligible_result is the first of the cheapest eligible results. *)
THEOREM BestIsKept == Spec => []BestIsFirstCheapest
<1>1. IInv => BestIsFirstCheapest
  BY DEF IInv, LedgerPart
<1>. QED
  BY Invariance, <1>1, PTL

(* A request id is answered with one job for ever. *)
THEOREM RetriesAreIdempotent == Spec => []RequestsIdempotent
<1>1. IInv => RequestsIdempotent
  BY DEF IInv, LedgerPart, RepliesInv, RequestsIdempotent
<1>. QED
  BY Invariance, <1>1, PTL

(* One evaluation runs at a time, and no reservation exceeds the budget. *)
THEOREM OneAtATime == Spec => []HostNotOvercommitted
<1>1. IInv => OneRunning
  <2>. SUFFICES ASSUME IInv PROVE OneRunning
    OBVIOUS
  <2>1. {j \in Jobs : pc[j] = "running"} \in SUBSET {host}
    BY DEF IInv, PlacesInv, PlaceInv, Actors
  <2>2. IsFiniteSet({host}) /\ Cardinality({host}) = 1
    BY FS_Singleton
  <2>. QED
    BY <2>1, <2>2, FS_Subset DEF OneRunning
<1>2. IInv => HostNotOvercommitted
  BY <1>1 DEF IInv, LedgerPart, BudgetInv, HostNotOvercommitted
<1>. QED
  BY Invariance, <1>2, PTL
=============================================================================
