------------------------------ MODULE Controller ------------------------------
(***************************************************************************)
(* The experiment's lifecycle: class Controller of                         *)
(* src/src/compression_lab/controller.py under a version 2 protocol, and   *)
(* the part of engine.py it is entangled with (admission of evaluations    *)
(* and of research operations).  Every host is a separate process - the    *)
(* native adapter's RPC calls, the MCP server, the CLI, a job's worker -   *)
(* and calls the same methods on the same two ledgers.  Two flocks order   *)
(* them: operation.lock, taken without blocking, and admission.lock.       *)
(*                                                                         *)
(* Abstracted: a ledger update is one step (module Ledger), and so is a    *)
(* read of both ledgers by _outstanding; the job is the summary of module  *)
(* JobEngine a controller sees; a result is counted, and `best' says that  *)
(* one of them qualifies; the objective is qualification; of the three     *)
(* limits the deadline and the continuations are modelled, the money limit *)
(* acts like the deadline.  Observations with a sequence that is not newer *)
(* and replayed request ids change nothing and are the same as a poll.     *)
(* admission.lock is held across steps only in the states AdmissionFree    *)
(* lists, always together with operation.lock.                             *)
(***************************************************************************)
EXTENDS Integers, FiniteSets

CONSTANTS Hosts,          \* processes that call the controller
          Root, Children, \* native sessions
          None,           \* no process, no argument
          StopReasons,    \* reasons a host may stop for
          FinishOutcomes, \* outcomes agents ask finish for
          StopOnSuccess,  \* the owner's option
          MaxFailures,    \* max_failure_continuations
          MaxEvaluations, \* search_budget.candidate_evaluations
          MaxSequence,    \* bound on a session's observations
          MaxRecoveries,  \* bound on infrastructure recoveries
          MaxCrashes      \* bound on process deaths

ASSUME ControllerAssumption ==
  /\ Root \notin Children /\ None \notin Hosts
  /\ StopReasons \subseteq {"operator_stop", "infrastructure_blocked"}
  /\ FinishOutcomes \subseteq {"success", "negative"} /\ StopOnSuccess \in BOOLEAN
  /\ MaxFailures \in Nat /\ MaxEvaluations \in Nat \ {0}
  /\ MaxSequence \in Nat /\ MaxRecoveries \in Nat /\ MaxCrashes \in Nat

Nodes == Children \cup {Root}

VARIABLES
  \* the controller's ledger
  lifecycle,    \* open, stopping or closed
  stop_request, \* stop_reason of the stop under way, "none" without one
  completion,   \* stop_reason of the completion receipt, "none" without one
  nodes,        \* status and sequence of each native session
  outbox,       \* feedback messages
  failure_continuations, \* continuations charged
  rejected,     \* root sequences whose auto-finish request was refused
  recoveries,   \* number of recovery receipts
  \* the engine's ledger
  job,          \* none, active or cancelling (its cancel.json exists)
  active_operation, \* the host whose research operation is recorded, or None
  evaluations,  \* budgets.agent.evaluations
  results,      \* number of committed results
  best,         \* one of them qualifies
  \* files, locks, time and processes
  cancel,       \* controller/cancel.json exists
  operation,    \* holder of operation.lock
  expired,      \* the deadline has passed
  pc, arg,      \* where each host is in its call, and what it works with
  crashes       \* how many processes have died

ctl    == <<lifecycle, stop_request, completion, nodes, outbox,
            failure_continuations, rejected, recoveries>>
engine == <<job, active_operation, evaluations, results, best>>
vars   == <<ctl, engine, cancel, operation, expired, pc, arg, crashes>>

-----------------------------------------------------------------------------
ACTIVE == {"admitted", "running", "idle"}
Status(n) == nodes[n].status
ActiveChildren == {c \in Children : Status(c) \in ACTIVE}

(* An unfinished message keeps every other one out of the outbox. *)
Undelivered == {m \in outbox : m.status \in {"pending", "dispatched"}}
Id(m) == <<m.sequence, m.results, m.children>>

(* The operation's process is in its body; _alive of the engine. *)
Alive(p) == pc[p] = "operating"
DeadOperation == active_operation # None /\ ~Alive(active_operation)

AdmissionFree == \A p \in Hosts : pc[p] \notin {"reserve", "start", "finishing"}

(* _outstanding, without and with the root's own turn. *)
Outstanding(root) ==
  \/ ActiveChildren # {}
  \/ root /\ Status(Root) = "running"
  \/ job # "none"
  \/ active_operation # None

(* _limit_reason: failures is None when attempts do not count. *)
LimitReason(failures) ==
  IF expired THEN "deadline"
  ELSE IF evaluations >= MaxEvaluations THEN "evaluation_budget"
  ELSE IF failures # None /\ failures >= MaxFailures THEN "attempt_limit"
  ELSE "none"

(* A call continues at another step, or returns or raises. *)
Goto(p, label, x) == /\ pc' = [pc EXCEPT ![p] = label]
                     /\ arg' = [arg EXCEPT ![p] = x]
Return(p) == /\ Goto(p, "idle", None)
             /\ operation' = IF operation = p THEN None ELSE operation

(* Mutant: dead operations are left to whoever starts the next one. *)
LeaveDeadOperation == UNCHANGED <<active_operation, evaluations>>

(* recover_operation: close and charge an operation whose process died.  *)
(* It may have died before or after its own charge.                      *)
RecoverOperation ==
  IF DeadOperation
  THEN /\ active_operation' = None
       /\ evaluations' \in {evaluations, evaluations + 1}
  ELSE UNCHANGED <<active_operation, evaluations>>
(* ... which raises busy while somebody holds operation.lock. *)
RecoveryBusy == DeadOperation /\ operation # None

Init ==
  /\ lifecycle = "open" /\ stop_request = "none" /\ completion = "none"
  /\ nodes = [n \in Nodes |-> [status |-> IF n = Root THEN "admitted" ELSE "absent",
                               sequence |-> -1]]
  /\ outbox = {} /\ failure_continuations = 0 /\ rejected = {} /\ recoveries = 0
  /\ job = "none" /\ active_operation = None
  /\ evaluations = 0 /\ results = 0 /\ best = FALSE
  /\ cancel = FALSE /\ operation = None /\ expired = FALSE
  /\ pc = [p \in Hosts |-> "idle"] /\ arg = [p \in Hosts |-> None]
  /\ crashes = 0

-----------------------------------------------------------------------------
(* Admission of work: evaluate and _research_operation *)

(* Both recover a dead operation, take operation.lock without blocking and *)
(* admission.lock, and ask guard_research.                                 *)
Enter(p, label) ==
  /\ pc[p] = "idle" /\ operation = None /\ AdmissionFree
  /\ lifecycle = "open" /\ ~expired
  /\ RecoverOperation
  /\ operation' = p
  /\ Goto(p, label, None)
  /\ UNCHANGED <<ctl, job, results, best, cancel, expired, crashes>>

Evaluate(p) == Enter(p, "reserve")
Register(p) == Enter(p, "start")

(* reserve_evaluation, refused while a job is active or the budget spent. *)
Reserve(p) ==
  /\ pc[p] = "reserve"
  /\ IF job = "none" /\ evaluations < MaxEvaluations
     THEN job' = "active" /\ evaluations' = evaluations + 1
     ELSE UNCHANGED <<job, evaluations>>
  /\ Return(p)
  /\ UNCHANGED <<ctl, active_operation, results, best, cancel, expired, crashes>>

(* operation_started; the operation's body runs without admission.lock. *)
OperationStarted(p) ==
  /\ pc[p] = "start"
  /\ active_operation' = p
  /\ Goto(p, "operating", None)
  /\ UNCHANGED <<ctl, job, evaluations, results, best, cancel, operation, expired, crashes>>

(* The body ends, charging an attempt when it failed after its checks, and *)
(* reconcile is called with operation.lock still held.                     *)
OperationFinished(p) ==
  /\ pc[p] = "operating"
  /\ active_operation' = None
  /\ \/ UNCHANGED evaluations
     \/ job = "none" /\ evaluations < MaxEvaluations /\ evaluations' = evaluations + 1
  /\ Goto(p, "reconcile", None)
  /\ UNCHANGED <<ctl, job, results, best, cancel, operation, expired, crashes>>

(* _finish_job, called by the job's worker or by a poller that found the *)
(* worker dead: the result is committed, then the controller reconciles. *)
FinishJob(p) ==
  /\ pc[p] = "idle" /\ job # "none"
  /\ job' = "none"
  /\ results' = results + 1
  /\ best' \in {best, TRUE}
  /\ Goto(p, "reconcile", None)
  /\ UNCHANGED <<ctl, active_operation, evaluations, cancel, operation, expired, crashes>>

-----------------------------------------------------------------------------
(* Native sessions *)

(* admit: a worker node, below an active root. *)
Admit(c) ==
  /\ lifecycle = "open" /\ ~expired
  /\ Status(c) = "absent" /\ Status(Root) \in ACTIVE
  /\ nodes' = [nodes EXCEPT ![c].status = "admitted"]
  /\ UNCHANGED <<lifecycle, stop_request, completion, outbox, failure_continuations,
                 rejected, recoveries, engine, cancel, operation, expired, pc, arg, crashes>>

(* The statuses the adapter reports: an aborted session is stopped. *)
Reports(n) == IF n = Root THEN {"running", "idle"}
                                 \cup (IF lifecycle = "open" THEN {} ELSE {"stopped"})
              ELSE {"running", "completed"}

(* observe: a newer observation replaces the status, then reconcile.  The *)
(* last sequence number is left to observations that end activity.        *)
Observe(p, n, status) ==
  /\ pc[p] = "idle"
  /\ Status(n) # "absent" /\ status # Status(n)
  /\ nodes[n].sequence + 1 < MaxSequence + (IF status \in ACTIVE THEN 0 ELSE 1)
  /\ nodes' = [nodes EXCEPT ![n] = [status |-> status, sequence |-> @.sequence + 1]]
  /\ Goto(p, "reconcile", None)
  /\ UNCHANGED <<lifecycle, stop_request, completion, outbox, failure_continuations,
                 rejected, recoveries, engine, cancel, operation, expired, crashes>>

-----------------------------------------------------------------------------
(* reconcile *)

Poll(p) ==
  /\ pc[p] = "idle"
  /\ Goto(p, "reconcile", None)
  /\ UNCHANGED <<ctl, engine, cancel, operation, expired, crashes>>

(* recover_operation and the first read, which decide whether the call     *)
(* drains, stops at a limit or goes on with the state it has read.         *)
Reconcile(p) ==
  /\ pc[p] = "reconcile"
  /\ UNCHANGED <<ctl, cancel, expired, crashes>>
  /\ \/ /\ RecoveryBusy \/ lifecycle = "closed"
        /\ Return(p)
        /\ IF RecoveryBusy THEN UNCHANGED engine
           ELSE RecoverOperation /\ UNCHANGED <<job, results, best>>
     \/ /\ ~RecoveryBusy /\ lifecycle # "closed"
        /\ RecoverOperation
        /\ LET reason == LimitReason(None)'
           IN  IF lifecycle = "stopping" THEN Goto(p, "drain", None)
               ELSE IF reason # "none" THEN Goto(p, "stop", [reason |-> reason])
               ELSE Goto(p, "view",
                         [idle     |-> Status(Root) = "idle",
                          sequence |-> nodes[Root].sequence,
                          children |-> [c \in Children |-> nodes[c]],
                          failures |-> failure_continuations,
                          blocked  |-> \/ Undelivered # {}
                                       \/ \E m \in outbox : m.sequence >= nodes[Root].sequence])
        /\ UNCHANGED <<job, results, best, operation>>

(* next_action asks for a successful finish, in a freshly read state. *)
FinishAction ==
  /\ lifecycle = "open" /\ ~Outstanding(FALSE) /\ best
  /\ StopOnSuccess \/ LimitReason(failure_continuations) # "none"

(* brief, a second read, and the decisions taken from both reads. *)
View(p) ==
  /\ pc[p] = "view"
  /\ LET state  == arg[p]
         reason == LimitReason(state.failures)
     IN  \/ /\ \/ ~state.idle \/ state.blocked
               \/ lifecycle = "open" /\ Outstanding(FALSE) /\ Status(Root) # "running"
            /\ Return(p)
         \/ /\ state.idle /\ ~state.blocked
            /\ ~(lifecycle = "open" /\ Outstanding(FALSE) /\ Status(Root) # "running")
            /\ IF reason # "none" THEN Goto(p, "stop", [reason |-> reason])
               ELSE IF FinishAction
               THEN Goto(p, "finish", [outcome |-> "success", sequence |-> state.sequence])
               ELSE Goto(p, "post", [sequence |-> state.sequence, results |-> results,
                                     children |-> state.children, failure |-> ~best])
            /\ UNCHANGED operation
  /\ UNCHANGED <<ctl, engine, cancel, expired, crashes>>

(* Mutant: the allowance is compared one short. *)
PostOffByOne(p) ==
  /\ pc[p] = "post"
  /\ LET m == [sequence |-> arg[p].sequence, results |-> arg[p].results,
               children |-> arg[p].children, failure |-> arg[p].failure,
               status |-> "pending", attempts |-> 0]
     IN  outbox' = IF /\ lifecycle = "open"
                      /\ nodes[Root].sequence = m.sequence
                      /\ \A x \in outbox : Id(x) # Id(m)
                      /\ Undelivered = {}
                      /\ m.failure => failure_continuations + 1 < MaxFailures
                   THEN outbox \cup {m} ELSE outbox
  /\ Return(p)
  /\ UNCHANGED <<lifecycle, stop_request, completion, nodes, failure_continuations,
                 rejected, recoveries, engine, cancel, expired, crashes>>

(* The outbox update, which checks the lifecycle, the root's sequence and *)
(* the outbox again.                                                      *)
Post(p) ==
  /\ pc[p] = "post"
  /\ LET m == [sequence |-> arg[p].sequence, results |-> arg[p].results,
               children |-> arg[p].children, failure |-> arg[p].failure,
               status |-> "pending", attempts |-> 0]
     IN  outbox' = IF /\ lifecycle = "open"
                      /\ nodes[Root].sequence = m.sequence
                      /\ \A x \in outbox : Id(x) # Id(m)
                      /\ Undelivered = {}
                   THEN outbox \cup {m} ELSE outbox
  /\ Return(p)
  /\ UNCHANGED <<lifecycle, stop_request, completion, nodes, failure_continuations,
                 rejected, recoveries, engine, cancel, expired, crashes>>

-----------------------------------------------------------------------------
(* Delivery of feedback *)

Becomes(m, new) == outbox' = (outbox \ {m}) \cup {new}

(* claim_delivery: the attempt is charged before it is dispatched. *)
ClaimDelivery(m) ==
  /\ lifecycle = "open" /\ ~expired
  /\ m.status = "pending"
  /\ m.failure => failure_continuations < MaxFailures
  /\ failure_continuations' = failure_continuations + (IF m.failure THEN 1 ELSE 0)
  /\ Becomes(m, [m EXCEPT !.status = "dispatched", !.attempts = @ + 1])
  /\ UNCHANGED <<lifecycle, stop_request, completion, nodes, rejected, recoveries,
                 engine, cancel, operation, expired, pc, arg, crashes>>

(* ack_delivery, when the native transcript shows the message. *)
AckDelivery(m) ==
  /\ m.status = "dispatched"
  /\ Becomes(m, [m EXCEPT !.status = "acknowledged"])
  /\ UNCHANGED <<lifecycle, stop_request, completion, nodes, failure_continuations,
                 rejected, recoveries, engine, cancel, operation, expired, pc, arg, crashes>>

Quiescent == ~Outstanding(TRUE) /\ \A n \in Nodes : Status(n) \notin ACTIVE
DrainedInfrastructureStop == lifecycle = "closed" /\ completion = "infrastructure_blocked"

(* Mutant: a rejected dispatch is refunded. *)
RequeueRefunded(m) ==
  /\ AdmissionFree /\ DrainedInfrastructureStop /\ Quiescent
  /\ m.status = "dispatched"
  /\ Becomes(m, [m EXCEPT !.status = "pending"])
  /\ failure_continuations' = failure_continuations - (IF m.failure THEN 1 ELSE 0)
  /\ UNCHANGED <<lifecycle, stop_request, completion, nodes, rejected,
                 recoveries, engine, cancel, operation, expired, pc, arg, crashes>>


(* requeue_rejected_delivery: a reviewed rejection, charges kept. *)
RequeueDelivery(m) ==
  /\ AdmissionFree /\ DrainedInfrastructureStop /\ Quiescent
  /\ m.status = "dispatched"
  /\ Becomes(m, [m EXCEPT !.status = "pending"])
  /\ UNCHANGED <<lifecycle, stop_request, completion, nodes, failure_continuations,
                 rejected, recoveries, engine, cancel, operation, expired, pc, arg, crashes>>

-----------------------------------------------------------------------------
(* finish *)

(* Asked for by an agent under a request id of its own, sequence None, or *)
(* by reconcile under auto-finish-<sequence of the root>.                 *)
FinishCall(p, outcome) ==
  /\ pc[p] = "idle"
  /\ Goto(p, "finish", [outcome |-> outcome, sequence |-> None])
  /\ UNCHANGED <<ctl, engine, cancel, operation, expired, crashes>>

(* operation.lock without blocking and admission.lock; a busy lock, even *)
(* the caller's own, is reported to _finish instead.                     *)
FinishLock(p) ==
  /\ pc[p] = "finish"
  /\ \/ /\ operation = None /\ AdmissionFree
        /\ operation' = p
        /\ Goto(p, "finishing", arg[p])
     \/ /\ operation # None
        /\ Goto(p, "finish_busy", arg[p])
        /\ UNCHANGED operation
  /\ UNCHANGED <<ctl, engine, cancel, expired, crashes>>

(* Mutant: finish does not look for outstanding work. *)
AcceptableAnyway(outcome) ==
  /\ lifecycle = "open"
  /\ IF outcome = "success" THEN best
     ELSE ~best /\ LimitReason(failure_continuations) # "none"

(* No reason against the requested outcome. *)
Acceptable(outcome) ==
  /\ lifecycle = "open" /\ ~Outstanding(FALSE)
  /\ IF outcome = "success" THEN best
     ELSE ~best /\ LimitReason(failure_continuations) # "none"

(* _finish: a request id that is known returns its receipt again. *)
Finish(p) ==
  /\ pc[p] \in {"finishing", "finish_busy"}
  /\ LET accepted == /\ pc[p] = "finishing"
                     /\ arg[p].sequence \notin rejected
                     /\ Acceptable(arg[p].outcome)
     IN  /\ IF accepted
            THEN lifecycle' = "closed" /\ completion' = "explicit_finish"
            ELSE UNCHANGED <<lifecycle, completion>>
         /\ rejected' = IF accepted \/ arg[p].sequence = None
                        THEN rejected ELSE rejected \cup {arg[p].sequence}
  /\ Return(p)
  /\ UNCHANGED <<stop_request, nodes, outbox, failure_continuations, recoveries,
                 engine, cancel, expired, crashes>>

-----------------------------------------------------------------------------
(* stop and _drain *)

StopCall(p, reason) ==
  /\ pc[p] = "idle"
  /\ Goto(p, "stop", [reason |-> reason])
  /\ UNCHANGED <<ctl, engine, cancel, operation, expired, crashes>>

(* Mutant: closure does not take admission.lock. *)
StopUnlocked(p) ==
  /\ pc[p] = "stop"
  /\ IF lifecycle = "open"
     THEN lifecycle' = "stopping" /\ stop_request' = arg[p].reason
     ELSE UNCHANGED <<lifecycle, stop_request>>
  /\ Goto(p, "drain", None)
  /\ UNCHANGED <<completion, nodes, outbox, failure_continuations, rejected, recoveries,
                 engine, cancel, operation, expired, crashes>>

(* Mutant: the lifecycle is not looked at. *)
StopAnyway(p) ==
  /\ pc[p] = "stop" /\ AdmissionFree
  /\ lifecycle' = "stopping" /\ stop_request' = arg[p].reason
  /\ Goto(p, "drain", None)
  /\ UNCHANGED <<completion, nodes, outbox, failure_continuations, rejected, recoveries,
                 engine, cancel, operation, expired, crashes>>

(* Under admission.lock: an open controller starts stopping. *)
Stop(p) ==
  /\ pc[p] = "stop" /\ AdmissionFree
  /\ IF lifecycle = "open"
     THEN lifecycle' = "stopping" /\ stop_request' = arg[p].reason
     ELSE UNCHANGED <<lifecycle, stop_request>>
  /\ Goto(p, "drain", None)
  /\ UNCHANGED <<completion, nodes, outbox, failure_continuations, rejected, recoveries,
                 engine, cancel, operation, expired, crashes>>

(* _drain reads both ledgers, and decides what it has to wait for. *)
Drain(p) ==
  /\ pc[p] = "drain"
  /\ UNCHANGED <<ctl, job, results, best, cancel, expired, crashes>>
  /\ \/ /\ RecoveryBusy \/ lifecycle = "closed"
        /\ Return(p)
        /\ IF RecoveryBusy THEN UNCHANGED <<active_operation, evaluations>>
           ELSE RecoverOperation
     \/ /\ ~RecoveryBusy /\ lifecycle # "closed"
        /\ RecoverOperation
        /\ IF active_operation' # None
           THEN Goto(p, "mark", [job |-> job # "none"]) /\ UNCHANGED operation
           ELSE IF job # "none" THEN Goto(p, "cancel", None) /\ UNCHANGED operation
           ELSE IF Outstanding(TRUE)' THEN Return(p)
           ELSE Goto(p, "close", None) /\ UNCHANGED operation

(* controller/cancel.json asks the operation that was read to end. *)
Mark(p) ==
  /\ pc[p] = "mark"
  /\ cancel' = TRUE
  /\ IF arg[p].job THEN Goto(p, "cancel", None) /\ UNCHANGED operation ELSE Return(p)
  /\ UNCHANGED <<ctl, engine, expired, crashes>>

(* engine.cancel of the job that was read: without effect when the job has *)
(* been settled since.                                                     *)
Cancel(p) ==
  /\ pc[p] = "cancel"
  /\ job' = IF job = "none" THEN "none" ELSE "cancelling"
  /\ Return(p)
  /\ UNCHANGED <<ctl, active_operation, evaluations, results, best, cancel, expired, crashes>>

(* drain_complete: only a closed lifecycle is looked at again.  Without a *)
(* stop_request, after a recovery, the update raises.                     *)
Close(p) ==
  /\ pc[p] = "close"
  /\ IF lifecycle = "closed" \/ stop_request = "none"
     THEN UNCHANGED <<lifecycle, completion>>
     ELSE lifecycle' = "closed" /\ completion' = stop_request
  /\ Return(p)
  /\ UNCHANGED <<stop_request, nodes, outbox, failure_continuations, rejected,
                 recoveries, engine, cancel, expired, crashes>>

(* The receipts recover_infrastructure asks for, cancel.json apart. *)
Recoverable ==
  /\ DrainedInfrastructureStop /\ Quiescent
  /\ LimitReason(failure_continuations) = "none"
  /\ \A m \in outbox : m.status # "dispatched"

RecoverInfrastructure ==
  /\ AdmissionFree /\ recoveries < MaxRecoveries
  /\ Recoverable /\ ~cancel
  /\ lifecycle' = "open" /\ completion' = "none" /\ stop_request' = "none"
  /\ recoveries' = recoveries + 1
  /\ UNCHANGED <<nodes, outbox, failure_continuations, rejected,
                 engine, cancel, operation, expired, pc, arg, crashes>>

-----------------------------------------------------------------------------
(* The deadline passes; a process dies and its locks are released. *)
Expire ==
  /\ ~expired /\ expired' = TRUE
  /\ UNCHANGED <<ctl, engine, cancel, operation, pc, arg, crashes>>

Crash(p) ==
  /\ pc[p] # "idle" /\ crashes < MaxCrashes
  /\ crashes' = crashes + 1
  /\ Return(p)
  /\ UNCHANGED <<ctl, engine, cancel, expired>>

(* The steps of a call a host is in. *)
Step(p) ==
  \/ Reserve(p) \/ OperationStarted(p) \/ OperationFinished(p)
  \/ Reconcile(p) \/ View(p) \/ Post(p) \/ FinishLock(p) \/ Finish(p)
  \/ Stop(p) \/ Drain(p) \/ Mark(p) \/ Cancel(p) \/ Close(p)

Call(p) ==
  \/ Evaluate(p) \/ Register(p) \/ FinishJob(p) \/ Poll(p)
  \/ \E n \in Nodes : \E status \in Reports(n) : Observe(p, n, status)
  \/ \E outcome \in FinishOutcomes : FinishCall(p, outcome)
  \/ \E reason \in StopReasons : StopCall(p, reason)

Next ==
  \/ \E p \in Hosts : Call(p) \/ Step(p) \/ Crash(p)
  \/ \E c \in Children : Admit(c)
  \/ \E m \in outbox : ClaimDelivery(m) \/ AckDelivery(m) \/ RequeueDelivery(m)
  \/ RecoverInfrastructure \/ Expire

Spec == Init /\ [][Next]_vars

(* Aborted sessions report their end. *)
ReportEnd == \E p \in Hosts : \E n \in Nodes :
               lifecycle # "open" /\ Observe(p, n, IF n = Root THEN "stopped" ELSE "completed")

(* A host finishes the call it is in; the driver polls; every job's       *)
(* worker, or a status call when the worker is dead, settles the job.     *)
(* Strong fairness because those processes are not the model's hosts, and *)
(* need not wait for one to be idle.                                      *)
FairSpec == /\ Spec
            /\ \A p \in Hosts : WF_vars(Step(p))
            /\ SF_vars(\E p \in Hosts : Poll(p))
            /\ SF_vars(\E p \in Hosts : FinishJob(p))
            /\ SF_vars(ReportEnd)

-----------------------------------------------------------------------------
Reasons == StopReasons \cup {"deadline", "evaluation_budget", "attempt_limit"}
Snapshots == [idle : BOOLEAN, sequence : -1 .. MaxSequence, failures : Nat, blocked : BOOLEAN,
              children : [Children -> [status : ACTIVE \cup {"absent", "completed"},
                                       sequence : -1 .. MaxSequence]]]
Messages == [sequence : Nat, results : Nat, failure : BOOLEAN, attempts : Nat,
             status : {"pending", "dispatched", "acknowledged"},
             children : [Children -> [status : ACTIVE \cup {"absent", "completed"},
                                      sequence : -1 .. MaxSequence]]]

(* Types; only charges for operations whose process died pass the budget of *)
(* evaluations; a receipt exists exactly when closed, a stop request always *)
(* while stopping; a host past the entry of an operation holds its lock.    *)
TypeOK ==
  /\ lifecycle \in {"open", "stopping", "closed"}
  /\ stop_request \in Reasons \cup {"none"}
  /\ completion \in Reasons \cup {"none", "explicit_finish"}
  /\ nodes \in [Nodes -> [status : ACTIVE \cup {"absent", "completed", "stopped"},
                          sequence : -1 .. MaxSequence]]
  /\ outbox \subseteq Messages
  /\ failure_continuations \in Nat /\ recoveries \in 0 .. MaxRecoveries
  /\ rejected \subseteq 0 .. MaxSequence
  /\ job \in {"none", "active", "cancelling"}
  /\ active_operation \in Hosts \cup {None}
  /\ evaluations \in 0 .. MaxEvaluations + crashes /\ results \in 0 .. MaxEvaluations
  /\ best \in BOOLEAN /\ cancel \in BOOLEAN /\ expired \in BOOLEAN
  /\ operation \in Hosts \cup {None}
  /\ \A p \in Hosts : pc[p] = "view" => arg[p] \in Snapshots
  /\ lifecycle = "closed" <=> completion # "none"
  /\ lifecycle = "stopping" => stop_request # "none"
  /\ \A p \in Hosts : pc[p] \in {"reserve", "start", "operating", "finishing"} => operation = p

(* Once a stop or a finish has been recorded no evaluation is reserved and *)
(* no research operation starts: guard and reservation are two ledger      *)
(* accesses, and only admission.lock keeps a closure from between them.    *)
AdmittedWhileOpen ==
  [][\/ job = "none" /\ job' # "none"
     \/ active_operation' \notin {active_operation, None}
     => lifecycle = "open"]_vars

(* A closed experiment has no active job and no live or dead operation      *)
(* recorded, however finish, stop and drain interleave.  After a recovery   *)
(* it may: a drain left over from before it closes on what it read then.    *)
ClosedHasNoWork ==
  recoveries = 0 /\ lifecycle = "closed" => job = "none" /\ active_operation = None

(* An accepted finish is final: no drain, stop or recovery under way in    *)
(* another process replaces its completion receipt or reopens it.          *)
ExplicitFinishFinal ==
  [][completion = "explicit_finish" => UNCHANGED <<lifecycle, completion>>]_vars

(* At most one feedback message is unfinished, whatever two reconciling    *)
(* processes have read before they post.                                   *)
OneUndelivered == Cardinality(Undelivered) <= 1

(* Every dispatch of a failure continuation is charged exactly once, and   *)
(* the owner's limit holds through rejections, requeues and recoveries.    *)
ContinuationsCharged ==
  LET dispatches == UNION {{Id(m)} \X (1 .. m.attempts) : m \in {x \in outbox : x.failure}}
  IN  /\ failure_continuations <= MaxFailures
      /\ failure_continuations = Cardinality(dispatches)

(* Feedback is delivered one message at a time, each dispatch charged. *)
FeedbackAccounted == OneUndelivered /\ ContinuationsCharged

(* A stop drains: from stopping the controller always gets to closed.      *)
StopDrains == lifecycle = "stopping" ~> lifecycle # "stopping"

(* The root waits, idle, for the controller to answer its last turn. *)
AwaitsAnswer ==
  /\ lifecycle = "open" /\ Status(Root) = "idle" /\ ~Outstanding(FALSE)
  /\ \A m \in outbox : /\ m.status = "acknowledged"
                       /\ m.sequence < nodes[Root].sequence

(* A turn that ended is answered: with feedback, a finish or a stop.       *)
TurnAnswered == []<>~AwaitsAnswer

(* Not kept by the code (README, Disagreements).                           *)
(* docs/COMPLETION_CONTROLS.md: with stop_on_success the commission should *)
(* "close as soon as committed full evidence meets the objective".         *)
ClosesOnSuccess == []<>~(AwaitsAnswer /\ best)

(* Not kept by the code (README, Disagreements).                           *)
(* recover_infrastructure is the "continuation after repairing and         *)
(* draining infrastructure": a drained, quiescent infrastructure stop with *)
(* allowance left is not refused for the drain's own cancel.json.          *)
RecoveryPossible == Recoverable => ~cancel
=============================================================================
