----------------------------- MODULE Registration -----------------------------
(***************************************************************************)
(* How sources become registered candidates: Engine.register, the recipe   *)
(* factory and the reservation of an evaluation in                         *)
(* src/src/compression_lab/engine.py, the import, build and cache of       *)
(* candidate.py and workloads/registry.py, the hypotheses of               *)
(* instructions.py, and what ResearcherEngine shows of all this when the   *)
(* supplied baselines are hidden.  Several processes work on one           *)
(* workspace, die anywhere, and edit their sources while these are read.   *)
(*                                                                         *)
(* The workload is the dataset card's: a codec, or a mutable store, whose  *)
(* registration has no cache.  The card requires hypotheses.               *)
(*                                                                         *)
(* Abstracted: a ledger update is one step (module Ledger); a source tree  *)
(* is its manifest's hypothesis and its code; a candidate digest is what   *)
(* it digests, the sources and what the build made of them; a published    *)
(* directory is intact or damaged; wall time is not counted, only whether  *)
(* an operation was charged; a job runs and settles as module JobEngine    *)
(* says.  A call that is refused before it changes anything is no step.    *)
(***************************************************************************)
EXTENDS Integers, Sequences, FiniteSets, SequencesExt

CONSTANTS Procs,          \* processes that call the engine
          Public,         \* those of the researcher; the others are the owner's
          None,
          Hypotheses,     \* experiment ids
          Codes,          \* what the declared files may hold
          Recipe,         \* the code the recipe factory writes
          Builds,         \* what a compiler may make of one source
          MaxEvaluations, \* search_budget's candidate_evaluations
          MaxOperations,  \* bound on operations
          MaxEdits, MaxDamages, MaxCrashes, MaxResults, \* bounds
          MaxDisturbances \* bound on edits, damages and crashes together

RegistrationAssumption ==
  /\ Public \subseteq Procs
  /\ None \notin Procs \cup Hypotheses
  /\ Recipe \in Codes /\ Builds # {}
  /\ {MaxEvaluations, MaxOperations, MaxEdits, MaxDamages, MaxCrashes, MaxResults,
      MaxDisturbances} \subseteq Nat

Tracks   == {"agent", "baseline"}
Track(p) == IF p \in Public THEN "agent" ELSE "baseline"
Sources  == [hypothesis : Hypotheses \cup {None}, code : Codes]
Cids     == [source : Sources, build : Builds]
Ops      == [id : 1..MaxOperations, track : Tracks, charged : BOOLEAN]
Outcomes == [track : Tracks, cid : Cids, eligible : BOOLEAN]

NoOp    == [id |-> 0, track |-> "none", charged |-> FALSE]
NoJob   == [track |-> "none", cid |-> None]
NoDraft == [kind |-> "none", id |-> 0, before |-> None, source |-> None, cid |-> None,
            error |-> "none"]

VARIABLES
  workload,      \* the card's
  (* state/journal.jsonl *)
  active,        \* active_operation
  history,       \* operation_history
  evaluations,   \* budgets' evaluations, by track
  registrations, \* registrations, in order
  job,           \* active_job
  results,       \* results and result_index
  (* other files *)
  workbench,     \* each process's source directory
  hypotheses,    \* hypotheses/
  dirs,          \* candidates/: each digest's directory
  cache,         \* registration-cache/
  (* processes *)
  holder,        \* holder of operation.lock
  pc, draft,     \* where each process is, and what it has read and made
  (* history: which operations died, how often each was charged, and which *)
  (* were seen alive by a caller that has not entered yet.                 *)
  dead, charges, overlooked,
  (* bounds *)
  operations, edits, damages, crashes

files     == <<workbench, hypotheses, dirs, cache>>
ledger    == <<active, history, evaluations, registrations, job, results>>
processes == <<holder, pc, draft>>
ghosts    == <<dead, charges, overlooked>>
bounds    == <<operations, edits, damages, crashes>>
vars      == <<workload, ledger, files, processes, ghosts, bounds>>

Init ==
  /\ workload \in {"codec", "store"}
  /\ active = NoOp /\ history = {} /\ evaluations = [t \in Tracks |-> 0]
  /\ registrations = <<>> /\ job = NoJob /\ results = <<>>
  /\ workbench \in [Procs -> {s \in Sources : s.code = Recipe}]
  /\ \A p \in Procs \ Public : workbench[p].hypothesis = None
  /\ hypotheses = {} /\ dirs = [c \in Cids |-> "none"] /\ cache = [s \in Sources |-> None]
  /\ holder = None /\ pc = [p \in Procs |-> "idle"] /\ draft = [p \in Procs |-> NoDraft]
  /\ dead = {} /\ charges = [i \in 1..MaxOperations |-> 0] /\ overlooked = {}
  /\ operations = 0 /\ edits = 0 /\ damages = 0 /\ crashes = 0

Registered == {registrations[i].cid : i \in DOMAIN registrations}

(* verify: a published directory is what its digest says, file by file. *)
Intact(cid) == dirs[cid] = "intact"

(* Where an attempt can end early: every one of these has boundaries of    *)
(* check_limits.                                                           *)
Attempting == {"make", "hypothesis", "read", "copy", "lookup", "build", "publish"}

Goto(p, label) == pc' = [pc EXCEPT ![p] = label]
Set(p, d)      == draft' = [draft EXCEPT ![p] = d]
Failing(p, e)  == Goto(p, "charge") /\ Set(p, [draft[p] EXCEPT !.error = e])

Leave(p) ==
  /\ holder' = IF holder = p THEN None ELSE holder
  /\ Goto(p, "idle") /\ Set(p, NoDraft)

-----------------------------------------------------------------------------
(* An operation: _research_operation around _register or the factory. *)

(* recover_operation, before the lock is taken: the operation of a dead    *)
(* process is charged, if it was not, and ends.                            *)
Recovered ==
  /\ holder = None
  /\ LET due == ~active.charged
     IN /\ evaluations' = IF due THEN [evaluations EXCEPT ![active.track] = @ + 1]
                                 ELSE evaluations
        /\ charges' = IF due THEN [charges EXCEPT ![active.id] = @ + 1] ELSE charges
  /\ history' = history \cup {[id |-> active.id, status |-> "crashed"]}
  /\ active' = NoOp

Call(p, kind) ==
  /\ pc[p] = "idle"
  /\ kind # "evaluate" => operations < MaxOperations
  /\ IF active.id \in dead THEN Recovered
                           ELSE UNCHANGED <<active, history, evaluations, charges>>
  /\ Goto(p, "enter")
  /\ Set(p, [NoDraft EXCEPT !.kind = kind])
  /\ UNCHANGED <<registrations, job, results, files, holder, dead, overlooked, bounds>>

(* The lock is taken without waiting, and the operation is entered in the  *)
(* ledger, whatever stands there.                                          *)
Enter(p) ==
  /\ pc[p] = "enter" /\ draft[p].kind # "evaluate"
  /\ IF holder # None \/ operations = MaxOperations
     THEN Leave(p) /\ UNCHANGED <<active, operations>>
     ELSE /\ holder' = p
          /\ operations' = operations + 1
          /\ active' = [id |-> operations', track |-> Track(p), charged |-> FALSE]
          /\ Goto(p, "begin")
          /\ Set(p, [draft[p] EXCEPT !.id = operations'])
  /\ UNCHANGED <<history, evaluations, registrations, job, results, files, ghosts, edits, damages,
                 crashes>>

(* What _register and the factory refuse before they count as an attempt. *)
Begin(p) ==
  /\ pc[p] = "begin"
  /\ IF job # NoJob \/ evaluations[Track(p)] >= MaxEvaluations
     THEN Goto(p, "finish") /\ Set(p, [draft[p] EXCEPT !.error = "refused"])
     ELSE /\ Goto(p, IF draft[p].kind = "factory" THEN "make"
                     ELSE IF Track(p) = "agent" THEN "hypothesis" ELSE "read")
          /\ UNCHANGED draft
  /\ UNCHANGED <<ledger, files, holder, ghosts, bounds>>

(* _create_recipe_source writes a template. *)
Make(p) ==
  /\ pc[p] = "make"
  /\ workbench' = [workbench EXCEPT ![p] = [hypothesis |-> None, code |-> Recipe]]
  /\ Goto(p, "charge")
  /\ UNCHANGED <<ledger, hypotheses, dirs, cache, holder, draft, ghosts, bounds>>

(* verify_hypothesis, on the manifest as it stands. *)
CheckHypothesis(p) ==
  /\ pc[p] = "hypothesis"
  /\ IF workbench[p].hypothesis \in hypotheses
     THEN Goto(p, "read") /\ Set(p, [draft[p] EXCEPT !.before = workbench[p].hypothesis])
     ELSE Failing(p, "failed")
  /\ UNCHANGED <<ledger, files, holder, ghosts, bounds>>

(* The manifest is read first; the files it names are copied afterwards,   *)
(* and the manifest that was read is stored with them.                     *)
ReadManifest(p) ==
  /\ pc[p] = "read"
  /\ Goto(p, "copy")
  /\ Set(p, [draft[p] EXCEPT !.source = workbench[p]])
  /\ UNCHANGED <<ledger, files, holder, ghosts, bounds>>

CopySources(p) ==
  /\ pc[p] = "copy" /\ workload = "codec"
  /\ Goto(p, "lookup")
  /\ Set(p, [draft[p] EXCEPT !.source.code = workbench[p].code])
  /\ UNCHANGED <<ledger, files, holder, ghosts, bounds>>

(* A store's hypothesis is in a declared file like any other: it is copied *)
(* with the rest, and nothing is looked up.                                *)
CopyStore(p) ==
  /\ pc[p] = "copy" /\ workload = "store"
  /\ Goto(p, "build")
  /\ Set(p, [draft[p] EXCEPT !.source = workbench[p]])
  /\ UNCHANGED <<ledger, files, holder, ghosts, bounds>>

(* The cache is keyed by the copied files and the toolchain. *)
Lookup(p) ==
  LET cached == cache[draft[p].source]
  IN /\ pc[p] = "lookup"
     /\ CASE cached = None -> Goto(p, "build") /\ UNCHANGED draft
          [] cached # None /\ ~Intact(cached) -> Failing(p, "failed")
          [] OTHER -> Goto(p, "confirm") /\ Set(p, [draft[p] EXCEPT !.cid = cached])
     /\ UNCHANGED <<ledger, files, holder, ghosts, bounds>>

(* Mutant: what is built is the directory as it is now, not the copy. *)
BuildFromWorkbench(p, b) ==
  /\ pc[p] = "build"
  /\ Goto(p, "publish")
  /\ Set(p, [draft[p] EXCEPT !.cid = [source |-> workbench[p], build |-> b]])
  /\ UNCHANGED <<ledger, files, holder, ghosts, bounds>>

Build(p, b) ==
  /\ pc[p] = "build" /\ workload = "codec"
  /\ Goto(p, "publish")
  /\ Set(p, [draft[p] EXCEPT !.cid = [source |-> draft[p].source, build |-> b]])
  /\ UNCHANGED <<ledger, files, holder, ghosts, bounds>>

(* A store's runtime is a pinned interpreter with the copied program, or   *)
(* what a native build made of it.                                         *)
BuildStore(p, b) ==
  /\ pc[p] = "build" /\ workload = "store"
  /\ Goto(p, "publish")
  /\ Set(p, [draft[p] EXCEPT !.cid = [source |-> draft[p].source, build |-> b]])
  /\ UNCHANGED <<ledger, files, holder, ghosts, bounds>>

(* A directory of the same digest is verified, or the new one renamed. *)
Publish(p) ==
  LET cid == draft[p].cid
  IN /\ pc[p] = "publish" /\ workload = "codec"
     /\ IF dirs[cid] = "damaged"
        THEN Failing(p, "failed") /\ UNCHANGED dirs
        ELSE Goto(p, "cache") /\ dirs' = [dirs EXCEPT ![cid] = "intact"] /\ UNCHANGED draft
     /\ UNCHANGED <<ledger, workbench, hypotheses, cache, holder, ghosts, bounds>>

PublishStore(p) ==
  LET cid == draft[p].cid
  IN /\ pc[p] = "publish" /\ workload = "store"
     /\ IF dirs[cid] = "damaged"
        THEN Failing(p, "failed") /\ UNCHANGED dirs
        ELSE Goto(p, "confirm") /\ dirs' = [dirs EXCEPT ![cid] = "intact"] /\ UNCHANGED draft
     /\ UNCHANGED <<ledger, workbench, hypotheses, cache, holder, ghosts, bounds>>

SaveCache(p) ==
  /\ pc[p] = "cache"
  /\ cache' = [cache EXCEPT ![draft[p].source] = draft[p].cid]
  /\ Goto(p, "confirm")
  /\ UNCHANGED <<ledger, workbench, hypotheses, dirs, holder, draft, ghosts, bounds>>

(* The stored manifest has the hypothesis that was verified. *)
Confirm(p) ==
  /\ pc[p] = "confirm"
  /\ IF Track(p) = "agent" /\ draft[p].cid.source.hypothesis # draft[p].before
     THEN Failing(p, "failed")
     ELSE Goto(p, "charge") /\ UNCHANGED draft
  /\ UNCHANGED <<ledger, files, holder, ghosts, bounds>>

Refused(p, label, e) ==
  /\ pc[p] = label
  /\ Failing(p, e)
  /\ UNCHANGED <<ledger, files, holder, ghosts, bounds>>

(* The machine is not the one that was pinned, or someone else holds the   *)
(* host's lock, which is taken without waiting.                            *)
StaleRuntime(p) == \E at \in {"make", "read"} : Refused(p, at, "failed")
Busy(p)         == \E at \in {"make", "read"} : Refused(p, at, "busy")

(* The manifest, read a first time, is not of the card's workload. *)
RefuseWorkload(p) == Refused(p, "read", "failed")

(* The manifest is not one the contract admits. *)
RefuseManifest(p) == workload = "codec" /\ Refused(p, "read", "failed")
RefuseStore(p)    == workload = "store" /\ Refused(p, "read", "failed")

(* Its artifacts were fitted to data the card keeps for evaluation. *)
RefuseTraining(p) == Refused(p, "read", "failed")

(* A file is a link or grows while it is read; the copies are not the      *)
(* files the manifest declares, or too many.                               *)
RefuseImport(p) == Refused(p, "copy", "failed")
RefuseFiles(p)  == Refused(p, "copy", "failed")

(* The tools or the interpreter are not those the manifest pins, the build *)
(* fails, or its binaries need what neither manifest nor platform has.     *)
RefuseTools(p)       == Refused(p, "build", "failed")
RefuseClosure(p)     == Refused(p, "build", "failed")
RefuseInterpreter(p) == workload = "store" /\ Refused(p, "build", "failed")

(* The runtime directory would hold two files of one name. *)
RefuseRuntime(p) == Refused(p, "publish", "failed")

(* Cancelled, or out of wall time, at any boundary; the factory fails too. *)
Interrupted(p) == \E at \in Attempting : Refused(p, at, "failed")

(* Mutant: the operation is not marked as charged. *)
ChargeUnmarked(p) ==
  /\ pc[p] = "charge"
  /\ charges' = [charges EXCEPT ![draft[p].id] = @ + 1]
  /\ evaluations' = IF draft[p].error = "failed"
                    THEN [evaluations EXCEPT ![Track(p)] = @ + 1] ELSE evaluations
  /\ Goto(p, IF draft[p].error = "none" /\ draft[p].kind = "register" THEN "list" ELSE "finish")
  /\ UNCHANGED <<active, history, registrations, job, results, files, holder, draft, dead,
                 overlooked, bounds>>

(* registration_attempt or factory_attempt: a failure costs one evaluation,*)
(* unless the host was busy; a success, its wall time alone.               *)
Charge(p) ==
  /\ pc[p] = "charge"
  /\ active' = [active EXCEPT !.charged = TRUE]
  /\ charges' = [charges EXCEPT ![draft[p].id] = @ + 1]
  /\ evaluations' = IF draft[p].error = "failed"
                    THEN [evaluations EXCEPT ![Track(p)] = @ + 1] ELSE evaluations
  /\ Goto(p, IF draft[p].error = "none" /\ draft[p].kind = "register" THEN "list" ELSE "finish")
  /\ UNCHANGED <<history, registrations, job, results, files, holder, draft, dead, overlooked,
                 bounds>>

(* The `register' update. *)
List(p) ==
  /\ pc[p] = "list"
  /\ registrations' = Append(registrations, [cid |-> draft[p].cid, track |-> Track(p)])
  /\ Goto(p, "finish")
  /\ UNCHANGED <<active, history, evaluations, job, results, files, holder, draft, ghosts, bounds>>

(* operation_finished. *)
Finish(p) ==
  /\ pc[p] = "finish"
  /\ active' = IF active.id = draft[p].id THEN NoOp ELSE active
  /\ history' = IF active.id = draft[p].id
                THEN history \cup {[id |-> active.id, status |-> "finished"]} ELSE history
  /\ Leave(p)
  /\ UNCHANGED <<evaluations, registrations, job, results, files, ghosts, bounds>>

-----------------------------------------------------------------------------
(* Evaluations, and what the researcher is shown. *)

Shown(s) ==
  LET own[i \in 0..Len(s)] ==
        IF i = 0 THEN <<>>
        ELSE IF s[i].track = "agent" THEN Append(own[i - 1], s[i]) ELSE own[i - 1]
  IN own[Len(s)]

(* Mutant: the latest candidate is the ledger's, whoever registered it. *)
LatestOfAll ==
  CASE job.track = "agent" -> job.cid
    [] job.track # "agent" /\ registrations # <<>> -> Last(registrations).cid
    [] OTHER -> None

Latest ==
  CASE job.track = "agent" -> job.cid
    [] job.track # "agent" /\ Shown(registrations) # <<>> -> Last(Shown(registrations)).cid
    [] OTHER -> None

(* ResearcherEngine.state of a run whose baselines are hidden. *)
View ==
  [results    |-> Shown(results),
   registered |-> ToSet(Shown(registrations)),
   latest     |-> Latest,
   ready      |-> \E i \in DOMAIN Shown(results) : Shown(results)[i].eligible,
   spent      |-> evaluations["agent"],
   job        |-> IF job.track = "agent" THEN job ELSE NoJob,
   operation  |-> IF active.track = "agent" THEN active ELSE NoOp]

(* baseline_trial and prepare_baselines reuse a measured baseline. *)
Tried(cid) == \E i \in DOMAIN results : results[i].track = "baseline" /\ results[i].cid = cid

(* evaluate: operation.lock and admission.lock are held while the          *)
(* candidate is verified and the job reserved.  A researcher may name only *)
(* candidates it is shown.                                                 *)
Reserve(p, cid) ==
  /\ pc[p] = "enter" /\ draft[p].kind = "evaluate"
  /\ IF /\ holder = None
        /\ IF p \in Public THEN cid \in {r.cid : r \in View.registered}
                           ELSE cid \in Registered /\ ~Tried(cid)
        /\ Intact(cid)
        /\ job = NoJob /\ Len(results) < MaxResults
        /\ evaluations[Track(p)] < MaxEvaluations
     THEN /\ job' = [track |-> Track(p), cid |-> cid]
          /\ evaluations' = [evaluations EXCEPT ![Track(p)] = @ + 1]
     ELSE UNCHANGED <<job, evaluations>>
  /\ Leave(p)
  /\ UNCHANGED <<active, history, registrations, results, files, ghosts, bounds>>

(* The job's result is committed (module JobEngine). *)
Settle(eligible) ==
  /\ job # NoJob
  /\ results' = Append(results, [track |-> job.track, cid |-> job.cid, eligible |-> eligible])
  /\ job' = NoJob
  /\ UNCHANGED <<active, history, evaluations, registrations, files, processes, ghosts, bounds>>

-----------------------------------------------------------------------------
(* Around the engine. *)

Undisturbed == edits + damages + crashes < MaxDisturbances

(* record_hypothesis. *)
RecordHypothesis(h) ==
  /\ h \notin hypotheses
  /\ hypotheses' = hypotheses \cup {h}
  /\ UNCHANGED <<ledger, workbench, dirs, cache, processes, ghosts, bounds>>

(* The researcher edits its files whenever it likes. *)
Edit(p, s) ==
  /\ p \in Public /\ s # workbench[p] /\ edits < MaxEdits /\ Undisturbed
  /\ edits' = edits + 1
  /\ workbench' = [workbench EXCEPT ![p] = s]
  /\ UNCHANGED <<ledger, hypotheses, dirs, cache, processes, ghosts, operations, damages, crashes>>

Damage(cid) ==
  /\ Intact(cid) /\ damages < MaxDamages /\ Undisturbed
  /\ damages' = damages + 1
  /\ dirs' = [dirs EXCEPT ![cid] = "damaged"]
  /\ UNCHANGED <<ledger, workbench, hypotheses, cache, processes, ghosts, operations, edits,
                 crashes>>

(* A process dies: its lock is free, its operation stays in the ledger. *)
Crash(p) ==
  /\ pc[p] # "idle" /\ crashes < MaxCrashes /\ Undisturbed
  /\ crashes' = crashes + 1
  /\ dead' = dead \cup ({draft[p].id} \ {0})
  /\ overlooked' = IF active # NoOp /\ active.id = draft[p].id /\ \E q \in Procs \ {p} : pc[q] = "enter"
                   THEN overlooked \cup {draft[p].id} ELSE overlooked
  /\ Leave(p)
  /\ UNCHANGED <<ledger, files, charges, operations, edits, damages>>

Work ==
  \/ \E p \in Procs :
       \/ \E kind \in {"register", "factory", "evaluate"} : Call(p, kind)
       \/ Enter(p) \/ Begin(p) \/ Make(p) \/ CheckHypothesis(p) \/ ReadManifest(p)
       \/ CopySources(p) \/ CopyStore(p) \/ Lookup(p) \/ Publish(p) \/ PublishStore(p)
       \/ SaveCache(p) \/ Confirm(p)
       \/ \E b \in Builds : Build(p, b) \/ BuildStore(p, b)
       \/ StaleRuntime(p) \/ Busy(p) \/ RefuseManifest(p) \/ RefuseStore(p)
       \/ RefuseWorkload(p) \/ RefuseTraining(p) \/ RefuseImport(p) \/ RefuseFiles(p)
       \/ RefuseTools(p) \/ RefuseClosure(p) \/ RefuseInterpreter(p)
       \/ RefuseRuntime(p) \/ Interrupted(p)
       \/ Charge(p) \/ List(p) \/ Finish(p) \/ Crash(p)
       \/ \E cid \in Cids : Reserve(p, cid)
       \/ \E s \in Sources : Edit(p, s)
  \/ \E h \in Hypotheses : RecordHypothesis(h)
  \/ \E e \in BOOLEAN : Settle(e)
  \/ \E cid \in Cids : Damage(cid)

Next == Work /\ UNCHANGED workload

Spec == Init /\ [][Next]_vars

-----------------------------------------------------------------------------
(* The type invariant. *)
TypeOK ==
  /\ workload \in {"codec", "store"}
  /\ active \in Ops \cup {NoOp}
  /\ history \subseteq [id : 1..MaxOperations, status : {"finished", "crashed"}]
  /\ evaluations \in [Tracks -> Nat]
  /\ registrations \in Seq([cid : Cids, track : Tracks])
  /\ job \in [track : Tracks, cid : Cids] \cup {NoJob}
  /\ results \in Seq(Outcomes)
  /\ workbench \in [Procs -> Sources] /\ hypotheses \subseteq Hypotheses
  /\ dirs \in [Cids -> {"none", "intact", "damaged"}] /\ cache \in [Sources -> Cids \cup {None}]
  /\ holder \in Procs \cup {None}
  /\ dead \subseteq 1..operations /\ overlooked \subseteq dead
  /\ charges \in [1..MaxOperations -> Nat]

(* A registered candidate was built from one snapshot, whatever was edited *)
(* meanwhile: its directory exists, the researcher's carry a hypothesis    *)
(* that was recorded before, and the cache never leads from one source to  *)
(* the build of another (candidate.register and verify_hypothesis, which   *)
(* is asked before the import and again of what was imported).             *)
RegisteredIsSound ==
  /\ \A i \in DOMAIN registrations :
       /\ dirs[registrations[i].cid] # "none"
       /\ registrations[i].track = "agent" => registrations[i].cid.source.hypothesis \in hypotheses
  /\ \A s \in Sources : cache[s] # None => cache[s].source = s /\ dirs[cache[s]] # "none"

(* Every operation is charged once: never twice, though it may die between *)
(* its charge and its end, and never not at all once it is known to have   *)
(* died; only an operation that died after a caller had seen it alive, and *)
(* before that caller entered its own, is overwritten and forgotten        *)
(* (registration_attempt, recover_operation, operation_started).  So only  *)
(* deaths overdraw a budget: an operation that dies before its budget is   *)
(* looked at is charged all the same.                                      *)
ChargedOnce ==
  /\ \A id \in 1..operations :
       /\ charges[id] <= 1
       /\ [id |-> id, status |-> "crashed"] \in history => charges[id] = 1
       /\ active.id = id \/ id \in overlooked \/ \E e \in history : e.id = id
  /\ \A t \in Tracks : evaluations[t] <= MaxEvaluations + Cardinality(dead)

(* What the owner does with hidden baselines changes nothing the           *)
(* researcher is shown: no step of an owner's operation once it has begun, *)
(* and no baseline job that starts or settles (ResearcherEngine.state).    *)
OwnerStep ==
  \/ \E p \in Procs \ Public : pc[p] \notin {"idle", "enter"} /\ pc'[p] # pc[p]
  \/ job' # job /\ "baseline" \in {job.track, job'.track}

BaselinesStayHidden == [][OwnerStep => View' = View]_vars
=============================================================================
