--------------------------- MODULE ControllerProofs ---------------------------
(* Proofs about the experiment's lifecycle, for any hosts, sessions and     *)
(* limits.                                                                  *)
EXTENDS Controller, FiniteSetTheorems, TLAPS

-----------------------------------------------------------------------------
(* Admission and closure *)

Labels == {"idle", "reserve", "start", "operating", "reconcile", "view", "post", "finish",
           "finish_busy", "finishing", "stop", "drain", "mark", "cancel", "close"}
Entered == {"reserve", "start", "operating", "finishing"}
Drains  == {"drain", "mark", "cancel", "close"}

NoWork == job = "none" /\ active_operation = None

(* A host past the entry of an operation holds its lock; it entered while   *)
(* the controller was open, and nobody closes or stops it until it has      *)
(* reserved or started; what is closed has a receipt.                       *)
AdmissionInv ==
  /\ pc \in [Hosts -> Labels]
  /\ lifecycle \in {"open", "stopping", "closed"}
  /\ \A p \in Hosts : pc[p] \in Entered => operation = p
  /\ \A p \in Hosts : pc[p] \in {"reserve", "start"} => lifecycle = "open"
  /\ lifecycle = "open" => stop_request = "none"
  /\ lifecycle = "closed" <=> completion # "none"
  /\ recoveries \in Nat

(* Before any recovery: who drains found the controller stopping, and who   *)
(* is about to close it found no work.                                      *)
DrainInv ==
  recoveries = 0 =>
    /\ \A p \in Hosts : pc[p] \in Drains => lifecycle # "open"
    /\ \A p \in Hosts : pc[p] = "close" => NoWork
    /\ lifecycle = "closed" => NoWork

LifecycleInv == AdmissionInv /\ DrainInv

-----------------------------------------------------------------------------
(* A host goes to a label, and its lock is as the label asks for. *)
LEMMA GotoPc ==
  ASSUME AdmissionInv, NEW p \in Hosts, NEW l \in Labels, NEW x, Goto(p, l, x)
  PROVE  /\ pc' \in [Hosts -> Labels] /\ pc'[p] = l
         /\ \A q \in Hosts : (q # p => pc'[q] = pc[q])
BY DEF AdmissionInv, Goto

(* One host at most is past an entry. *)
LEMMA OneEntered ==
  ASSUME AdmissionInv, NEW p \in Hosts, NEW q \in Hosts, pc[p] \in Entered, pc[q] \in Entered
  PROVE  p = q
BY DEF AdmissionInv

(* Steps of a host that neither open nor close, and admit no work. *)
LEMMA Passing ==
  ASSUME LifecycleInv, NEW p \in Hosts, NEW l \in Labels, NEW x, Goto(p, l, x),
         UNCHANGED <<lifecycle, stop_request, completion, recoveries>>,
         job' = job \/ job # "none", active_operation' \in {active_operation, None} \/ pc[p] = "start",
         \/ l \notin Entered /\ operation' \in {operation, IF operation = p THEN None ELSE operation}
         \/ operation' = p /\ operation \in {None, p},
         l \in {"reserve", "start"} => lifecycle = "open",
         recoveries = 0 /\ l \in Drains => lifecycle # "open",
         recoveries = 0 /\ l = "close" => NoWork'
  PROVE  LifecycleInv'
<1>1. /\ pc' \in [Hosts -> Labels] /\ pc'[p] = l
      /\ \A q \in Hosts : (q # p => pc'[q] = pc[q])
  BY GotoPc DEF LifecycleInv
<1>2. ASSUME NEW q \in Hosts, pc'[q] \in Entered PROVE operation' = q
  BY <1>1, <1>2, ControllerAssumption DEF LifecycleInv, AdmissionInv, Entered
<1>3. ASSUME NEW q \in Hosts, pc'[q] \in {"reserve", "start"} PROVE lifecycle = "open"
  BY <1>1, <1>3 DEF LifecycleInv, AdmissionInv
<1>4. AdmissionInv'
  BY <1>1, <1>2, <1>3 DEF LifecycleInv, AdmissionInv
<1>5. recoveries = 0 /\ lifecycle # "open" /\ NoWork => NoWork'
  BY DEF NoWork, LifecycleInv, AdmissionInv
<1>6. DrainInv'
  BY <1>1, <1>5 DEF LifecycleInv, AdmissionInv, DrainInv, Drains
<1>. QED BY <1>4, <1>6 DEF LifecycleInv

(* Steps that leave hosts and locks alone, and neither open nor close. *)
LEMMA Beside ==
  ASSUME LifecycleInv,
         UNCHANGED <<lifecycle, stop_request, completion, recoveries, job, active_operation, operation,
                     pc>>
  PROVE  LifecycleInv'
BY DEF LifecycleInv, AdmissionInv, DrainInv, NoWork

(* recover_operation ends an operation at most. *)
LEMMA RecoverOperationEnds ==
  ASSUME RecoverOperation
  PROVE  active_operation' \in {active_operation, None}
BY DEF RecoverOperation

(* A call that begins admits no work yet, and enters only what is open. *)
LEMMA CallLifecycle == ASSUME LifecycleInv, NEW p \in Hosts, Call(p) PROVE LifecycleInv'
<1>1. CASE Evaluate(p)
  BY <1>1, Passing, RecoverOperationEnds DEF Evaluate, Enter, Labels, ctl, Drains
<1>2. CASE Register(p)
  BY <1>2, Passing, RecoverOperationEnds DEF Register, Enter, Labels, ctl, Drains
<1>3. CASE FinishJob(p)
  BY <1>3, Passing DEF FinishJob, Labels, Entered, ctl, Drains
<1>4. CASE Poll(p)
  BY <1>4, Passing DEF Poll, Labels, Entered, ctl, engine, Drains
<1>5. CASE \E n \in Nodes : \E status \in Reports(n) : Observe(p, n, status)
  BY <1>5, Passing DEF Observe, Labels, Entered, engine, Drains
<1>6. CASE \E outcome \in FinishOutcomes : FinishCall(p, outcome)
  BY <1>6, Passing DEF FinishCall, Labels, Entered, ctl, engine, Drains
<1>7. CASE \E reason \in StopReasons : StopCall(p, reason)
  BY <1>7, Passing DEF StopCall, Labels, Entered, ctl, engine, Drains
<1>. QED BY <1>1, <1>2, <1>3, <1>4, <1>5, <1>6, <1>7 DEF Call

(* A call returns. *)
LEMMA Returning ==
  ASSUME LifecycleInv, NEW p \in Hosts, Return(p),
         UNCHANGED <<lifecycle, stop_request, completion, recoveries>>,
         job' = job \/ job # "none" \/ lifecycle = "open",
         active_operation' \in {active_operation, None}
  PROVE  LifecycleInv'
<1>1. Goto(p, "idle", None) /\ operation' = IF operation = p THEN None ELSE operation
  BY DEF Return
<1>2. /\ pc' \in [Hosts -> Labels] /\ pc'[p] = "idle"
      /\ \A q \in Hosts : (q # p => pc'[q] = pc[q])
  BY <1>1, GotoPc DEF LifecycleInv, Labels
<1>3. AdmissionInv'
  BY <1>1, <1>2 DEF LifecycleInv, AdmissionInv, Entered
<1>4. recoveries = 0 /\ lifecycle # "open" /\ NoWork => NoWork'
  BY DEF NoWork
<1>5. DrainInv'
  BY <1>2, <1>4 DEF LifecycleInv, DrainInv, Drains
<1>. QED BY <1>3, <1>5 DEF LifecycleInv

(* finish: it closes only under its lock, and without work. *)
LEMMA FinishLifecycle == ASSUME LifecycleInv, NEW p \in Hosts, Finish(p) PROVE LifecycleInv'
<1>1. CASE UNCHANGED <<lifecycle, completion>>
  BY <1>1, Returning DEF Finish, engine
<1>2. CASE /\ pc[p] = "finishing" /\ Acceptable(arg[p].outcome)
           /\ lifecycle' = "closed" /\ completion' = "explicit_finish"
  <2>1. /\ Goto(p, "idle", None) /\ operation' = IF operation = p THEN None ELSE operation
        /\ UNCHANGED <<stop_request, recoveries, job, active_operation>>
    BY DEF Finish, Return, engine
  <2>2. /\ pc' \in [Hosts -> Labels] /\ pc'[p] = "idle"
        /\ \A q \in Hosts : (q # p => pc'[q] = pc[q])
    BY <2>1, GotoPc DEF LifecycleInv, Labels
  <2>3. \A q \in Hosts : pc'[q] \notin Entered
    BY <1>2, <2>2, OneEntered DEF LifecycleInv, Entered
  <2>4. NoWork /\ lifecycle = "open"
    BY <1>2 DEF Acceptable, Outstanding, NoWork
  <2>5. AdmissionInv'
    BY <1>2, <2>1, <2>2, <2>3 DEF LifecycleInv, AdmissionInv, Entered
  <2>6. DrainInv'
    BY <1>2, <2>1, <2>2, <2>4 DEF LifecycleInv, DrainInv, Drains, NoWork
  <2>. QED BY <2>5, <2>6 DEF LifecycleInv
<1>. QED BY <1>1, <1>2 DEF Finish

(* stop: it waits for admission.lock. *)
LEMMA StopLifecycle == ASSUME LifecycleInv, NEW p \in Hosts, Stop(p) PROVE LifecycleInv'
<1>1. /\ Goto(p, "drain", None) /\ AdmissionFree /\ pc[p] = "stop"
      /\ UNCHANGED <<completion, recoveries, job, active_operation, operation>>
      /\ IF lifecycle = "open" THEN lifecycle' = "stopping"
                               ELSE UNCHANGED <<lifecycle, stop_request>>
  BY DEF Stop, engine
<1>2. /\ pc' \in [Hosts -> Labels] /\ pc'[p] = "drain"
      /\ \A q \in Hosts : (q # p => pc'[q] = pc[q])
  BY <1>1, GotoPc DEF LifecycleInv, Labels
<1>3. \A q \in Hosts : pc'[q] \notin {"reserve", "start"}
  BY <1>1, <1>2 DEF AdmissionFree
<1>4. AdmissionInv'
  BY <1>1, <1>2, <1>3 DEF LifecycleInv, AdmissionInv, Entered
<1>5. DrainInv'
  BY <1>1, <1>2 DEF LifecycleInv, AdmissionInv, DrainInv, Drains, NoWork
<1>. QED BY <1>4, <1>5 DEF LifecycleInv

(* drain_complete: before a recovery the drain found no work, and none came *)
(* since.                                                                   *)
LEMMA CloseLifecycle == ASSUME LifecycleInv, NEW p \in Hosts, Close(p) PROVE LifecycleInv'
<1>1. CASE UNCHANGED <<lifecycle, completion>>
  BY <1>1, Returning DEF Close, engine
<1>2. CASE stop_request # "none" /\ lifecycle' = "closed" /\ completion' = stop_request
  <2>1. /\ Goto(p, "idle", None) /\ operation' = IF operation = p THEN None ELSE operation
        /\ UNCHANGED <<stop_request, recoveries, job, active_operation>> /\ pc[p] = "close"
    BY DEF Close, Return, engine
  <2>2. /\ pc' \in [Hosts -> Labels] /\ pc'[p] = "idle"
        /\ \A q \in Hosts : (q # p => pc'[q] = pc[q])
    BY <2>1, GotoPc DEF LifecycleInv, Labels
  <2>3. lifecycle # "open"
    BY <1>2 DEF LifecycleInv, AdmissionInv
  <2>4. AdmissionInv'
    BY <1>2, <2>1, <2>2, <2>3 DEF LifecycleInv, AdmissionInv, Entered
  <2>5. DrainInv'
    BY <1>2, <2>1, <2>2 DEF LifecycleInv, DrainInv, Drains, NoWork
  <2>. QED BY <2>4, <2>5 DEF LifecycleInv
<1>. QED BY <1>1, <1>2 DEF Close

(* _drain: it goes on to close only when it found no work. *)
LEMMA DrainLifecycle == ASSUME LifecycleInv, NEW p \in Hosts, Drain(p) PROVE LifecycleInv'
<1>1. /\ UNCHANGED <<lifecycle, stop_request, completion, recoveries, job>> /\ pc[p] = "drain"
      /\ active_operation' \in {active_operation, None}
  BY RecoverOperationEnds DEF Drain, ctl
<1>2. CASE Return(p)
  BY <1>1, <1>2, Returning
<1>3. CASE (Goto(p, "mark", [job |-> job # "none"]) \/ Goto(p, "cancel", None)) /\ UNCHANGED operation
  BY <1>1, <1>3, Passing DEF LifecycleInv, DrainInv, Labels, Entered, Drains
<1>4. CASE Goto(p, "close", None) /\ UNCHANGED operation /\ active_operation' = None /\ job = "none"
  BY <1>1, <1>4, Passing DEF LifecycleInv, DrainInv, Labels, Entered, Drains, NoWork
<1>. QED BY <1>2, <1>3, <1>4 DEF Drain

(* reconcile: it drains what is stopping. *)
LEMMA ReconcileLifecycle == ASSUME LifecycleInv, NEW p \in Hosts, Reconcile(p) PROVE LifecycleInv'
<1>1. /\ UNCHANGED <<lifecycle, stop_request, completion, recoveries, job>> /\ pc[p] = "reconcile"
      /\ active_operation' \in {active_operation, None}
  BY RecoverOperationEnds DEF Reconcile, ctl, engine
<1>2. CASE Return(p)
  BY <1>1, <1>2, Returning
<1>3. CASE \E x : (Goto(p, "stop", x) \/ Goto(p, "view", x)) /\ UNCHANGED operation
  BY <1>1, <1>3, Passing DEF Labels, Entered, Drains
<1>4. CASE lifecycle = "stopping" /\ Goto(p, "drain", None) /\ UNCHANGED operation
  BY <1>1, <1>4, Passing DEF Labels, Entered
<1>. QED BY <1>2, <1>3, <1>4 DEF Reconcile

(* What follows a reconciliation is decided, not done. *)
LEMMA ViewLifecycle == ASSUME LifecycleInv, NEW p \in Hosts, View(p) PROVE LifecycleInv'
<1>1. UNCHANGED <<lifecycle, stop_request, completion, recoveries, job, active_operation>>
  BY DEF View, ctl, engine
<1>2. CASE Return(p)
  BY <1>1, <1>2, Returning
<1>3. CASE \E x : /\ Goto(p, "stop", x) \/ Goto(p, "finish", x) \/ Goto(p, "post", x)
                  /\ UNCHANGED operation
  BY <1>1, <1>3, Passing DEF Labels, Entered, Drains
<1>. QED BY <1>2, <1>3 DEF View

(* Every step of a call keeps admission and closure apart. *)
LEMMA StepLifecycle == ASSUME LifecycleInv, NEW p \in Hosts, Step(p) PROVE LifecycleInv'
<1>1. CASE Reserve(p)
  <2>1. lifecycle = "open"
    BY <1>1 DEF Reserve, LifecycleInv, AdmissionInv
  <2>. QED BY <1>1, <2>1, Returning DEF Reserve, ctl
<1>2. CASE OperationStarted(p)
  <2>1. operation = p
    BY <1>2 DEF OperationStarted, LifecycleInv, AdmissionInv, Entered
  <2>. QED BY <1>2, <2>1, Passing DEF OperationStarted, Labels, ctl, Drains
<1>3. CASE OperationFinished(p)
  BY <1>3, Passing DEF OperationFinished, Labels, Entered, ctl, Drains
<1>4. CASE Reconcile(p)
  BY <1>4, ReconcileLifecycle
<1>5. CASE View(p)
  BY <1>5, ViewLifecycle
<1>6. CASE Post(p)
  BY <1>6, Returning DEF Post, engine
<1>7. CASE FinishLock(p)
  BY <1>7, Passing DEF FinishLock, Labels, Entered, ctl, engine, Drains
<1>8. CASE Finish(p)
  BY <1>8, FinishLifecycle
<1>9. CASE Stop(p)
  BY <1>9, StopLifecycle
<1>10. CASE Drain(p)
  BY <1>10, DrainLifecycle
<1>11. CASE Mark(p)
  <2>1. CASE Return(p)
    BY <1>11, <2>1, Returning DEF Mark, ctl, engine
  <2>2. CASE Goto(p, "cancel", None) /\ UNCHANGED operation
    BY <1>11, <2>2, Passing
       DEF Mark, ctl, engine, LifecycleInv, DrainInv, Labels, Entered, Drains
  <2>. QED BY <1>11, <2>1, <2>2 DEF Mark
<1>12. CASE Cancel(p)
  BY <1>12, Returning DEF Cancel, ctl
<1>13. CASE Close(p)
  BY <1>13, CloseLifecycle
<1>. QED
  BY <1>1, <1>2, <1>3, <1>4, <1>5, <1>6, <1>7, <1>8, <1>9, <1>10, <1>11, <1>12, <1>13
     DEF Step

(* recover_infrastructure opens what nobody is admitted to. *)
LEMMA RecoverLifecycle == ASSUME LifecycleInv, RecoverInfrastructure PROVE LifecycleInv'
BY DEF RecoverInfrastructure, LifecycleInv, AdmissionInv, DrainInv

(* Every step of the system keeps admission and closure apart. *)
LEMMA NextLifecycle == ASSUME LifecycleInv, [Next]_vars PROVE LifecycleInv'
<1>1. CASE \E p \in Hosts : Call(p) \/ Step(p)
  BY <1>1, CallLifecycle, StepLifecycle
<1>2. CASE \E p \in Hosts : Crash(p)
  BY <1>2, Returning DEF Crash, ctl, engine
<1>3. CASE \E c \in Children : Admit(c)
  BY <1>3, Beside DEF Admit, engine
<1>4. CASE \E m \in outbox : ClaimDelivery(m) \/ AckDelivery(m) \/ RequeueDelivery(m)
  BY <1>4, Beside DEF ClaimDelivery, AckDelivery, RequeueDelivery, engine
<1>5. CASE RecoverInfrastructure
  BY <1>5, RecoverLifecycle
<1>6. CASE Expire \/ UNCHANGED vars
  BY <1>6, Beside DEF Expire, vars, ctl, engine
<1>. QED BY <1>1, <1>2, <1>3, <1>4, <1>5, <1>6 DEF Next

(* The controller starts open and without work. *)
LEMMA InitLifecycle == ASSUME Init PROVE LifecycleInv
BY ControllerAssumption
   DEF Init, LifecycleInv, AdmissionInv, DrainInv, Labels, Entered, Drains, NoWork

(* Hosts admit, drain and close under their locks. *)
THEOREM LifecycleInvariant == Spec => []LifecycleInv
BY InitLifecycle, NextLifecycle, PTL DEF Spec

(* Who a step belongs to, as far as work and the lifecycle are concerned:   *)
(* the steps of a delivery, and time, change neither.                       *)
Idles == UNCHANGED <<lifecycle, stop_request, completion, job, active_operation>>

(* A step belongs to a call, to a recovery, or to neither. *)
LEMMA NextCases ==
  ASSUME [Next]_vars
  PROVE  \/ Idles
         \/ \E p \in Hosts : Call(p) \/ Step(p)
         \/ RecoverInfrastructure /\ UNCHANGED <<job, active_operation>>
<1>1. CASE \E p \in Hosts : Crash(p)
  BY <1>1 DEF Crash, ctl, engine, Idles
<1>2. CASE (\E c \in Children : Admit(c)) \/ Expire \/ UNCHANGED vars
  BY <1>2 DEF Admit, Expire, vars, ctl, engine, Idles
<1>3. CASE \E m \in outbox : ClaimDelivery(m) \/ AckDelivery(m) \/ RequeueDelivery(m)
  BY <1>3 DEF ClaimDelivery, AckDelivery, RequeueDelivery, engine, Idles
<1>4. RecoverInfrastructure => UNCHANGED <<job, active_operation>>
  BY DEF RecoverInfrastructure, engine
<1>. QED BY <1>1, <1>2, <1>3, <1>4 DEF Next

(* No evaluation is reserved and no research operation starts unless the    *)
(* controller is open, however finish, stop and drain interleave with the   *)
(* admission (evaluate, _research_operation, stop, finish).                 *)
THEOREM AdmissionIsOpen == Spec => AdmittedWhileOpen
<1>1. ASSUME LifecycleInv, [Next]_vars, job = "none", job' # "none" PROVE lifecycle = "open"
  <2>1. ASSUME NEW p \in Hosts, Call(p) PROVE FALSE
    BY <1>1, <2>1
    DEF Call, Evaluate, Register, Enter, FinishJob, Poll, Observe, FinishCall, StopCall, engine
  <2>2. ASSUME NEW p \in Hosts, Step(p) PROVE Reserve(p)
    BY <1>1, <2>2
    DEF Step, OperationStarted, OperationFinished, Reconcile, View, Post, FinishLock, Finish, Stop,
        Drain, Mark, Cancel, Close, engine
  <2>3. PICK p \in Hosts : Reserve(p)
    BY <1>1, <2>1, <2>2, NextCases DEF Idles
  <2>. QED BY <1>1, <2>3 DEF Reserve, LifecycleInv, AdmissionInv
<1>2. ASSUME LifecycleInv, [Next]_vars, active_operation' \notin {active_operation, None}
      PROVE  lifecycle = "open"
  <2>1. ASSUME NEW p \in Hosts, Call(p) PROVE FALSE
    BY <1>2, <2>1, RecoverOperationEnds
    DEF Call, Evaluate, Register, Enter, FinishJob, Poll, Observe, FinishCall, StopCall, engine
  <2>2. ASSUME NEW p \in Hosts, Step(p) PROVE OperationStarted(p)
    <3>1. ~Reconcile(p)
      BY <1>2, RecoverOperationEnds DEF Reconcile, engine
    <3>2. ~Drain(p)
      BY <1>2, RecoverOperationEnds DEF Drain
    <3>3. ~(Reserve(p) \/ OperationFinished(p) \/ View(p) \/ Post(p) \/ FinishLock(p) \/ Finish(p)
              \/ Stop(p) \/ Mark(p) \/ Cancel(p) \/ Close(p))
      BY <1>2
      DEF Reserve, OperationFinished, View, Post, FinishLock, Finish, Stop, Mark, Cancel, Close,
          engine
    <3>. QED BY <2>2, <3>1, <3>2, <3>3 DEF Step
  <2>3. PICK p \in Hosts : OperationStarted(p)
    BY <1>2, <2>1, <2>2, NextCases DEF Idles
  <2>. QED BY <1>2, <2>3 DEF OperationStarted, LifecycleInv, AdmissionInv
<1>3. LifecycleInv /\ [Next]_vars
        => [\/ job = "none" /\ job' # "none"
            \/ active_operation' \notin {active_operation, None}
            => lifecycle = "open"]_vars
  BY <1>1, <1>2
<1>. QED BY <1>3, LifecycleInvariant, PTL DEF Spec, AdmittedWhileOpen

(* A closed experiment has no job and no operation, before any recovery of *)
(* its infrastructure (finish, stop, _drain).                              *)
THEOREM ClosedIsQuiet == Spec => []ClosedHasNoWork
<1>1. LifecycleInv => ClosedHasNoWork
  BY DEF LifecycleInv, DrainInv, NoWork, ClosedHasNoWork
<1>. QED BY <1>1, LifecycleInvariant, PTL

(* The completion of an accepted finish is never replaced, by a drain, a    *)
(* stop or a recovery that was under way.                                   *)
THEOREM FinishIsFinal == Spec => ExplicitFinishFinal
<1>1. ASSUME LifecycleInv, [Next]_vars, completion = "explicit_finish"
      PROVE  UNCHANGED <<lifecycle, completion>>
  <2>1. lifecycle = "closed"
    BY <1>1 DEF LifecycleInv, AdmissionInv
  <2>2. ASSUME NEW p \in Hosts, Call(p) PROVE UNCHANGED <<lifecycle, completion>>
    BY <2>2
    DEF Call, Evaluate, Register, Enter, FinishJob, Poll, Observe, FinishCall, StopCall, ctl
  <2>3. ASSUME NEW p \in Hosts, Step(p) PROVE UNCHANGED <<lifecycle, completion>>
    BY <2>1, <2>3
    DEF Step, Reserve, OperationStarted, OperationFinished, Reconcile, View, Post, FinishLock, Finish,
        Acceptable, Stop, Drain, Mark, Cancel, Close, ctl
  <2>4. ~RecoverInfrastructure
    BY <1>1 DEF RecoverInfrastructure, Recoverable, DrainedInfrastructureStop
  <2>. QED BY <1>1, <2>2, <2>3, <2>4, NextCases DEF Idles
<1>2. LifecycleInv /\ [Next]_vars
        => [completion = "explicit_finish" => UNCHANGED <<lifecycle, completion>>]_vars
  BY <1>1
<1>. QED BY <1>2, LifecycleInvariant, PTL DEF Spec, ExplicitFinishFinal

-----------------------------------------------------------------------------
(* Types *)

Sessions == [status : ACTIVE \cup {"absent", "completed"}, sequence : -1 .. MaxSequence]
Heads == [sequence : 0 .. MaxSequence, results : Nat, failure : BOOLEAN,
          children : [Children -> Sessions]]

(* What a host works with at the steps that use it. *)
WorksWith(label, x) ==
  /\ label = "view" => x \in Snapshots /\ (x.idle => x.sequence # -1)
  /\ label = "post" => x \in Heads
  /\ label \in {"finish", "finish_busy", "finishing"} =>
       x \in [outcome : {"success", "negative"}, sequence : 0 .. MaxSequence \cup {None}]
  /\ label = "stop" => x \in [reason : Reasons]

ArgInv == /\ DOMAIN arg = Hosts
          /\ \A p \in Hosts : WorksWith(pc[p], arg[p])

(* What the controller's ledger records of a stop. *)
StopInv == /\ stop_request \in Reasons \cup {"none"}
           /\ completion \in Reasons \cup {"none", "explicit_finish"}
           /\ lifecycle = "stopping" => stop_request # "none"

(* A root that was never observed is as it was admitted. *)
NodesInv == /\ nodes \in [Nodes -> [status : ACTIVE \cup {"absent", "completed", "stopped"},
                                    sequence : -1 .. MaxSequence]]
            /\ \A c \in Children : nodes[c] \in Sessions
            /\ Status(Root) # "admitted" => nodes[Root].sequence # -1

OutboxInv == /\ outbox \subseteq Messages
             /\ failure_continuations \in Nat
             /\ rejected \subseteq 0 .. MaxSequence

(* A dead operation is charged beyond the budget of evaluations, once for   *)
(* the crash; every result had an evaluation.                               *)
Due == IF DeadOperation THEN 1 ELSE 0
Jobs == IF job = "none" THEN 0 ELSE 1
BudgetInv ==
  /\ evaluations \in Nat /\ results \in Nat /\ crashes \in Nat
  /\ job \in {"none", "active", "cancelling"}
  /\ active_operation \in Hosts \cup {None}
  /\ Due <= crashes /\ evaluations + Due <= MaxEvaluations + crashes
  /\ results + Jobs <= evaluations /\ results + Jobs <= MaxEvaluations

RestInv == /\ best \in BOOLEAN /\ cancel \in BOOLEAN /\ expired \in BOOLEAN
           /\ operation \in Hosts \cup {None}
           /\ recoveries \in 0 .. MaxRecoveries

TypedInv == ArgInv /\ StopInv /\ NodesInv /\ OutboxInv /\ BudgetInv /\ RestInv

(* What is recorded of a stop is one of its reasons. *)
LEMMA StopTyped == ASSUME LifecycleInv, TypedInv, [Next]_vars PROVE StopInv'
<1>1. ASSUME NEW p \in Hosts, Call(p) \/ Crash(p) PROVE StopInv'
  BY <1>1
  DEF Call, Evaluate, Register, Enter, FinishJob, Poll, Observe, FinishCall, StopCall, Crash, ctl,
      TypedInv, StopInv
<1>2. ASSUME NEW p \in Hosts, Step(p) PROVE StopInv'
  <2>1. CASE Finish(p)
    BY <2>1 DEF Finish, TypedInv, StopInv
  <2>2. CASE Stop(p)
    <3>1. arg[p].reason \in Reasons
      BY <2>2 DEF Stop, TypedInv, ArgInv, WorksWith
    <3>2. "none" \notin Reasons
      BY ControllerAssumption DEF Reasons
    <3>. QED BY <2>2, <3>1, <3>2 DEF Stop, TypedInv, StopInv
  <2>3. CASE Close(p)
    BY <2>3 DEF Close, TypedInv, StopInv
  <2>. QED
    BY <1>2, <2>1, <2>2, <2>3
    DEF Step, Reserve, OperationStarted, OperationFinished, Reconcile, View, Post, FinishLock,
        Drain, Mark, Cancel, ctl, TypedInv, StopInv
<1>3. CASE (\E c \in Children : Admit(c)) \/ Expire \/ UNCHANGED vars
  BY <1>3 DEF Admit, Expire, vars, ctl, TypedInv, StopInv
<1>4. CASE \E m \in outbox : ClaimDelivery(m) \/ AckDelivery(m) \/ RequeueDelivery(m)
  BY <1>4 DEF ClaimDelivery, AckDelivery, RequeueDelivery, TypedInv, StopInv
<1>5. CASE RecoverInfrastructure
  BY <1>5 DEF RecoverInfrastructure, TypedInv, StopInv
<1>. QED BY <1>1, <1>2, <1>3, <1>4, <1>5 DEF Next

(* A session has the statuses its adapter reports, and a new number. *)
LEMMA NodesTyped == ASSUME TypedInv, [Next]_vars PROVE NodesInv'
<1>1. ASSUME NEW p \in Hosts, NEW n \in Nodes, NEW status \in Reports(n), Observe(p, n, status)
      PROVE  NodesInv'
  <2>1. /\ nodes \in [Nodes -> [status : ACTIVE \cup {"absent", "completed", "stopped"},
                                sequence : -1 .. MaxSequence]]
        /\ Root \notin Children /\ MaxSequence \in Nat
    BY ControllerAssumption DEF TypedInv, NodesInv
  <2>2. PICK k : k = nodes[n].sequence + 1
    OBVIOUS
  <2>3. /\ nodes' = [nodes EXCEPT ![n] = [status |-> status, sequence |-> k]]
        /\ k < MaxSequence + (IF status \in ACTIVE THEN 0 ELSE 1)
    BY <1>1, <2>1, <2>2 DEF Observe
  <2>4. k \in 0 .. MaxSequence
    BY <2>1, <2>2, <2>3
  <2>5. /\ status \in ACTIVE \cup {"absent", "completed", "stopped"}
        /\ n \in Children => status \in ACTIVE \cup {"absent", "completed"}
    BY <2>1 DEF Reports, ACTIVE
  <2>6. \A c \in Children : nodes'[c] \in Sessions
    BY <2>1, <2>3, <2>4, <2>5 DEF TypedInv, NodesInv, Sessions, Nodes
  <2>7. nodes' \in [Nodes -> [status : ACTIVE \cup {"absent", "completed", "stopped"},
                              sequence : -1 .. MaxSequence]]
    BY <2>1, <2>3, <2>4, <2>5
  <2>8. Status(Root)' # "admitted" => nodes'[Root].sequence # -1
    BY <2>1, <2>3, <2>4 DEF TypedInv, NodesInv, Nodes, Status
  <2>. QED BY <2>6, <2>7, <2>8 DEF NodesInv
<1>2. ASSUME NEW c \in Children, Admit(c) PROVE NodesInv'
  <2>1. /\ nodes \in [Nodes -> [status : ACTIVE \cup {"absent", "completed", "stopped"},
                                sequence : -1 .. MaxSequence]]
        /\ nodes' = [nodes EXCEPT ![c].status = "admitted"]
        /\ c # Root /\ c \in Nodes /\ Root \in Nodes
    BY <1>2, ControllerAssumption DEF TypedInv, NodesInv, Admit, Nodes
  <2>2. nodes' \in [Nodes -> [status : ACTIVE \cup {"absent", "completed", "stopped"},
                              sequence : -1 .. MaxSequence]]
    BY <2>1 DEF ACTIVE
  <2>3. \A d \in Children : nodes'[d] \in Sessions
    BY <2>1 DEF TypedInv, NodesInv, Sessions, Nodes, ACTIVE
  <2>4. nodes'[Root] = nodes[Root]
    BY <2>1
  <2>. QED BY <2>2, <2>3, <2>4 DEF TypedInv, NodesInv, Status
<1>3. ASSUME NEW p \in Hosts, Call(p) \/ Step(p) \/ Crash(p), UNCHANGED nodes
      PROVE  NodesInv'
  BY <1>3 DEF TypedInv, NodesInv, Status
<1>4. ASSUME NEW p \in Hosts, Step(p) \/ Crash(p) PROVE UNCHANGED nodes
  BY <1>4
  DEF Step, Reserve, OperationStarted, OperationFinished, Reconcile, View, Post, FinishLock,
      Finish, Stop, Drain, Mark, Cancel, Close, Crash, ctl
<1>5. ASSUME NEW p \in Hosts, Call(p),
             ~\E n \in Nodes : \E status \in Reports(n) : Observe(p, n, status)
      PROVE  UNCHANGED nodes
  BY <1>5 DEF Call, Evaluate, Register, Enter, FinishJob, Poll, FinishCall, StopCall, ctl
<1>6. CASE UNCHANGED nodes
  BY <1>6 DEF TypedInv, NodesInv, Status
<1>7. CASE \E m \in outbox : ClaimDelivery(m) \/ AckDelivery(m) \/ RequeueDelivery(m)
  BY <1>6, <1>7 DEF ClaimDelivery, AckDelivery, RequeueDelivery
<1>8. CASE RecoverInfrastructure \/ Expire \/ UNCHANGED vars
  BY <1>6, <1>8 DEF RecoverInfrastructure, Expire, vars, ctl
<1>. QED BY <1>1, <1>2, <1>3, <1>4, <1>5, <1>7, <1>8 DEF Next

(* The messages are those that were posted, at some step of delivery. *)
LEMMA OutboxTyped == ASSUME TypedInv, [Next]_vars PROVE OutboxInv'
<1>1. ASSUME NEW p \in Hosts, Post(p) PROVE OutboxInv'
  <2>1. arg[p] \in Heads
    BY <1>1 DEF Post, TypedInv, ArgInv, WorksWith
  <2>2. [sequence |-> arg[p].sequence, results |-> arg[p].results, children |-> arg[p].children,
         failure |-> arg[p].failure, status |-> "pending", attempts |-> 0] \in Messages
    BY <2>1, ControllerAssumption DEF Heads, Messages, Sessions
  <2>. QED BY <1>1, <2>2 DEF Post, TypedInv, OutboxInv
<1>2. ASSUME NEW p \in Hosts, Finish(p) PROVE OutboxInv'
  <2>1. arg[p].sequence \in 0 .. MaxSequence \cup {None}
    BY <1>2 DEF Finish, TypedInv, ArgInv, WorksWith
  <2>. QED BY <1>2, <2>1 DEF Finish, TypedInv, OutboxInv
<1>3. ASSUME NEW m \in outbox, ClaimDelivery(m) PROVE OutboxInv'
  <2>1. m \in Messages
    BY DEF TypedInv, OutboxInv
  <2>2. PICK k : k = m.attempts + 1
    OBVIOUS
  <2>3. [m EXCEPT !.status = "dispatched"] \in Messages /\ k \in Nat
    BY <2>1, <2>2 DEF Messages
  <2>5. [[m EXCEPT !.status = "dispatched"] EXCEPT !.attempts = k] \in Messages
    BY <2>3 DEF Messages
  <2>4. outbox' = (outbox \ {m}) \cup {[m EXCEPT !.status = "dispatched", !.attempts = k]}
    BY <1>3, <2>1, <2>2 DEF ClaimDelivery, Becomes
  <2>. QED BY <1>3, <2>4, <2>5 DEF ClaimDelivery, TypedInv, OutboxInv
<1>4. ASSUME NEW m \in outbox, AckDelivery(m) \/ RequeueDelivery(m) PROVE OutboxInv'
  <2>1. m \in Messages
    BY DEF TypedInv, OutboxInv
  <2>2. [m EXCEPT !.status = "acknowledged"] \in Messages /\ [m EXCEPT !.status = "pending"] \in Messages
    BY <2>1 DEF Messages
  <2>. QED BY <1>4, <2>2 DEF AckDelivery, RequeueDelivery, Becomes, TypedInv, OutboxInv
<1>5. CASE UNCHANGED <<outbox, failure_continuations, rejected>>
  BY <1>5 DEF TypedInv, OutboxInv
<1>6. ASSUME NEW p \in Hosts, Call(p) \/ Crash(p)
      PROVE  UNCHANGED <<outbox, failure_continuations, rejected>>
  BY <1>6
  DEF Call, Evaluate, Register, Enter, FinishJob, Poll, Observe, FinishCall, StopCall, Crash, ctl
<1>7. ASSUME NEW p \in Hosts, Step(p), ~Post(p), ~Finish(p)
      PROVE  UNCHANGED <<outbox, failure_continuations, rejected>>
  BY <1>7
  DEF Step, Reserve, OperationStarted, OperationFinished, Reconcile, View, FinishLock,
      Stop, Drain, Mark, Cancel, Close, ctl
<1>8. CASE (\E c \in Children : Admit(c)) \/ RecoverInfrastructure \/ Expire \/ UNCHANGED vars
  BY <1>5, <1>8 DEF Admit, RecoverInfrastructure, Expire, vars, ctl
<1>. QED BY <1>1, <1>2, <1>3, <1>4, <1>5, <1>6, <1>7, <1>8 DEF Next

(* Locks and switches. *)
LEMMA RestTyped == ASSUME TypedInv, [Next]_vars PROVE RestInv'
<1>1. ASSUME NEW p \in Hosts, Call(p) \/ Crash(p) PROVE RestInv'
  BY <1>1
  DEF Call, Evaluate, Register, Enter, FinishJob, Poll, Observe, FinishCall, StopCall, Crash, Return,
      ctl, engine, TypedInv, RestInv
<1>2. ASSUME NEW p \in Hosts, Step(p) PROVE RestInv'
  BY <1>2
  DEF Step, Reserve, OperationStarted, OperationFinished, Reconcile, View, Post, FinishLock, Finish,
      Stop, Drain, Mark, Cancel, Close, Return, ctl, engine, TypedInv, RestInv
<1>3. CASE (\E c \in Children : Admit(c)) \/ Expire \/ UNCHANGED vars
  BY <1>3 DEF Admit, Expire, vars, ctl, engine, TypedInv, RestInv
<1>4. CASE \E m \in outbox : ClaimDelivery(m) \/ AckDelivery(m) \/ RequeueDelivery(m)
  BY <1>4 DEF ClaimDelivery, AckDelivery, RequeueDelivery, engine, TypedInv, RestInv
<1>5. CASE RecoverInfrastructure
  BY <1>5, ControllerAssumption DEF RecoverInfrastructure, engine, TypedInv, RestInv
<1>. QED BY <1>1, <1>2, <1>3, <1>4, <1>5 DEF Next

(* A host goes to a label with what it works with there. *)
LEMMA GotoWorks ==
  ASSUME LifecycleInv, TypedInv, NEW p \in Hosts, NEW l, NEW x, Goto(p, l, x), WorksWith(l, x)
  PROVE  ArgInv'
<1>1. /\ DOMAIN arg' = Hosts /\ arg'[p] = x /\ pc'[p] = l
      /\ \A q \in Hosts : q # p => arg'[q] = arg[q] /\ pc'[q] = pc[q]
  BY DEF Goto, TypedInv, ArgInv, LifecycleInv, AdmissionInv
<1>2. ASSUME NEW q \in Hosts PROVE WorksWith(pc'[q], arg'[q])
  BY <1>1 DEF TypedInv, ArgInv
<1>. QED BY <1>1, <1>2 DEF ArgInv

(* The other labels ask for nothing. *)
LEMMA WorksWithout ==
  ASSUME NEW l, l \notin {"view", "post", "finish", "finish_busy", "finishing", "stop"}, NEW x
  PROVE  WorksWith(l, x)
BY DEF WorksWith

(* The state a reconciliation has read. *)
LEMMA ReconcileWorks == ASSUME LifecycleInv, TypedInv, NEW p \in Hosts, Reconcile(p) PROVE ArgInv'
<1>1. CASE Return(p)
  BY <1>1, GotoWorks, WorksWithout DEF Return
<1>2. CASE Goto(p, "drain", None)
  BY <1>2, GotoWorks, WorksWithout
<1>3. ASSUME NEW reason, reason = LimitReason(None)', reason # "none",
             Goto(p, "stop", [reason |-> reason])
      PROVE  ArgInv'
  <2>1. reason \in Reasons
    BY <1>3 DEF LimitReason, Reasons
  <2>. QED BY <1>3, <2>1, GotoWorks DEF WorksWith
<1>4. ASSUME Goto(p, "view",
                  [idle     |-> Status(Root) = "idle",
                   sequence |-> nodes[Root].sequence,
                   children |-> [c \in Children |-> nodes[c]],
                   failures |-> failure_continuations,
                   blocked  |-> \/ Undelivered # {}
                                \/ \E m \in outbox : m.sequence >= nodes[Root].sequence])
      PROVE  ArgInv'
  <2>1. PICK idle, blocked :
          /\ idle = (Status(Root) = "idle")
          /\ blocked = (\/ Undelivered # {}
                        \/ \E m \in outbox : m.sequence >= nodes[Root].sequence)
    OBVIOUS
  <2>2. idle \in BOOLEAN /\ blocked \in BOOLEAN
    BY <2>1
  <2>3. /\ nodes[Root].sequence \in -1 .. MaxSequence
        /\ idle => nodes[Root].sequence # -1
        /\ failure_continuations \in Nat
        /\ [c \in Children |-> nodes[c]] \in [Children -> Sessions]
    BY <2>1, ControllerAssumption DEF TypedInv, NodesInv, OutboxInv, Nodes
  <2>4. PICK s : s = [idle |-> idle, sequence |-> nodes[Root].sequence,
                      children |-> [c \in Children |-> nodes[c]],
                      failures |-> failure_continuations, blocked |-> blocked]
    OBVIOUS
  <2>5. s \in Snapshots /\ (s.idle => s.sequence # -1)
    BY <2>2, <2>3, <2>4 DEF Snapshots, Sessions
  <2>6. Goto(p, "view", s)
    BY <1>4, <2>1, <2>4
  <2>. QED BY <2>5, <2>6, GotoWorks DEF WorksWith
<1>. QED BY <1>1, <1>2, <1>3, <1>4 DEF Reconcile

(* What follows from the state read, and from the state seen. *)
LEMMA ViewWorks == ASSUME LifecycleInv, TypedInv, NEW p \in Hosts, View(p) PROVE ArgInv'
<1>1. arg[p] \in Snapshots /\ (arg[p].idle => arg[p].sequence # -1)
  BY DEF View, TypedInv, ArgInv, WorksWith
<1>2. CASE Return(p)
  BY <1>2, GotoWorks, WorksWithout DEF Return
<1>3. ASSUME NEW reason, reason = LimitReason(arg[p].failures), reason # "none",
             Goto(p, "stop", [reason |-> reason])
      PROVE  ArgInv'
  <2>1. reason \in Reasons
    BY <1>3 DEF LimitReason, Reasons
  <2>. QED BY <1>3, <2>1, GotoWorks DEF WorksWith
<1>4. CASE /\ arg[p].idle
           /\ Goto(p, "finish", [outcome |-> "success", sequence |-> arg[p].sequence])
  <2>1. arg[p].sequence \in 0 .. MaxSequence
    BY <1>1, <1>4, ControllerAssumption DEF Snapshots
  <2>2. PICK x : x = [outcome |-> "success", sequence |-> arg[p].sequence]
    OBVIOUS
  <2>3. WorksWith("finish", x)
    BY <2>1, <2>2 DEF WorksWith
  <2>. QED BY <1>4, <2>2, <2>3, GotoWorks
<1>5. CASE /\ arg[p].idle
           /\ Goto(p, "post", [sequence |-> arg[p].sequence, results |-> results,
                               children |-> arg[p].children, failure |-> ~best])
  <2>1. /\ arg[p].sequence \in 0 .. MaxSequence
        /\ arg[p].children \in [Children -> Sessions] /\ results \in Nat
    BY <1>1, <1>5, ControllerAssumption DEF Snapshots, Sessions, TypedInv, BudgetInv
  <2>2. PICK failure : failure = (~best) /\ failure \in BOOLEAN
    OBVIOUS
  <2>3. PICK x : x = [sequence |-> arg[p].sequence, results |-> results,
                      children |-> arg[p].children, failure |-> failure]
    OBVIOUS
  <2>4. x \in Heads
    BY <2>1, <2>2, <2>3 DEF Heads
  <2>5. Goto(p, "post", x)
    BY <1>5, <2>2, <2>3
  <2>6. WorksWith("post", x)
    BY <2>4 DEF WorksWith
  <2>. QED BY <2>5, <2>6, GotoWorks
<1>. QED BY <1>2, <1>3, <1>4, <1>5 DEF View

(* Every host works with what its step expects. *)
LEMMA ArgTyped == ASSUME LifecycleInv, TypedInv, [Next]_vars PROVE ArgInv'
<1>1. ASSUME NEW p \in Hosts, Call(p) PROVE ArgInv'
  <2>1. CASE Evaluate(p) \/ Register(p) \/ FinishJob(p) \/ Poll(p)
    BY <2>1, GotoWorks, WorksWithout DEF Evaluate, Register, Enter, FinishJob, Poll
  <2>2. CASE \E n \in Nodes : \E status \in Reports(n) : Observe(p, n, status)
    BY <2>2, GotoWorks, WorksWithout DEF Observe
  <2>3. ASSUME NEW outcome \in FinishOutcomes, FinishCall(p, outcome) PROVE ArgInv'
    <3>1. WorksWith("finish", [outcome |-> outcome, sequence |-> None])
      BY ControllerAssumption DEF WorksWith
    <3>. QED BY <2>3, <3>1, GotoWorks DEF FinishCall
  <2>4. ASSUME NEW reason \in StopReasons, StopCall(p, reason) PROVE ArgInv'
    <3>1. WorksWith("stop", [reason |-> reason])
      BY DEF WorksWith, Reasons
    <3>. QED BY <2>4, <3>1, GotoWorks DEF StopCall
  <2>. QED BY <1>1, <2>1, <2>2, <2>3, <2>4 DEF Call
<1>2. ASSUME NEW p \in Hosts, Return(p) PROVE ArgInv'
  BY <1>2, GotoWorks, WorksWithout DEF Return
<1>3. ASSUME NEW p \in Hosts, Step(p) PROVE ArgInv'
  <2>1. CASE Reserve(p) \/ Post(p) \/ Finish(p) \/ Cancel(p) \/ Close(p)
    BY <1>2, <2>1 DEF Reserve, Post, Finish, Cancel, Close
  <2>2. CASE OperationStarted(p) \/ OperationFinished(p) \/ Stop(p)
    BY <2>2, GotoWorks, WorksWithout DEF OperationStarted, OperationFinished, Stop
  <2>3. CASE Drain(p) \/ Mark(p)
    BY <1>2, <2>3, GotoWorks, WorksWithout DEF Drain, Mark
  <2>4. CASE FinishLock(p)
    <3>1. WorksWith("finishing", arg[p]) /\ WorksWith("finish_busy", arg[p])
      BY <2>4 DEF FinishLock, TypedInv, ArgInv, WorksWith
    <3>. QED BY <2>4, <3>1, GotoWorks DEF FinishLock
  <2>. QED BY <1>3, <2>1, <2>2, <2>3, <2>4, ReconcileWorks, ViewWorks DEF Step
<1>4. CASE UNCHANGED <<pc, arg>>
  BY <1>4 DEF TypedInv, ArgInv
<1>5. CASE (\E c \in Children : Admit(c)) \/ RecoverInfrastructure \/ Expire \/ UNCHANGED vars
  BY <1>4, <1>5 DEF Admit, RecoverInfrastructure, Expire, vars
<1>6. CASE \E m \in outbox : ClaimDelivery(m) \/ AckDelivery(m) \/ RequeueDelivery(m)
  BY <1>4, <1>6 DEF ClaimDelivery, AckDelivery, RequeueDelivery
<1>. QED BY <1>1, <1>2, <1>3, <1>5, <1>6 DEF Next, Crash

(* A dead operation stays dead, and no step but a crash makes one. *)
LEMMA DueStep ==
  ASSUME LifecycleInv, TypedInv, NEW p \in Hosts, NEW l, NEW x, Goto(p, l, x), pc[p] # "operating",
         active_operation' \in {active_operation, None}
  PROVE  Due' \in {0, Due}
<1>1. \A q \in Hosts : q # p => pc'[q] = pc[q]
  BY DEF Goto, LifecycleInv, AdmissionInv
<1>2. Due = 0 => ~DeadOperation
  BY DEF Due
<1>3. active_operation \in Hosts \cup {None}
  BY DEF TypedInv, BudgetInv
<1>4. ~DeadOperation => ~DeadOperation'
  BY <1>1, <1>3 DEF DeadOperation, Alive
<1>. QED BY <1>2, <1>4 DEF Due

(* What a step makes of the charges due and of the job. *)
LEMMA Charged ==
  ASSUME TypedInv, evaluations' \in Nat, results' \in Nat, crashes' \in Nat,
         job' \in {"none", "active", "cancelling"}, active_operation' \in Hosts \cup {None},
         Due' <= crashes', evaluations' + Due' <= MaxEvaluations + crashes',
         results' + Jobs' <= evaluations', results' + Jobs' <= MaxEvaluations
  PROVE  BudgetInv'
BY DEF BudgetInv

(* The numbers of BudgetInv. *)
LEMMA Numbers ==
  ASSUME TypedInv
  PROVE  /\ evaluations \in Nat /\ results \in Nat /\ crashes \in Nat /\ MaxEvaluations \in Nat
         /\ job \in {"none", "active", "cancelling"} /\ active_operation \in Hosts \cup {None}
         /\ Due \in {0, 1} /\ Jobs \in {0, 1}
         /\ Due <= crashes /\ evaluations + Due <= MaxEvaluations + crashes
         /\ results + Jobs <= evaluations /\ results + Jobs <= MaxEvaluations
<1>1. Due \in {0, 1} /\ Jobs \in {0, 1}
  BY DEF Due, Jobs
<1>2. MaxEvaluations \in Nat
  BY ControllerAssumption
<1>. QED BY <1>1, <1>2 DEF TypedInv, BudgetInv

(* recover_operation charges what was due. *)
LEMMA RecoverBudget ==
  ASSUME LifecycleInv, TypedInv, RecoverOperation, NEW p \in Hosts, NEW l, NEW x, Goto(p, l, x),
         pc[p] # "operating", UNCHANGED <<job, results, crashes>>
  PROVE  BudgetInv'
<1>1. CASE DeadOperation
  <2>1. active_operation' = None /\ evaluations' \in {evaluations, evaluations + 1}
    BY <1>1 DEF RecoverOperation
  <2>2. Due' = 0 /\ Due = 1
    BY <1>1, <2>1 DEF Due, DeadOperation
  <2>3. Jobs' = Jobs
    BY DEF Jobs
  <2>. QED BY <2>1, <2>2, <2>3, Numbers, Charged
<1>2. CASE ~DeadOperation
  <2>1. UNCHANGED <<active_operation, evaluations>>
    BY <1>2 DEF RecoverOperation
  <2>2. Due' = 0 /\ Due = 0
    BY <1>2, <2>1, DueStep DEF Due
  <2>3. Jobs' = Jobs
    BY DEF Jobs
  <2>. QED BY <2>1, <2>2, <2>3, Numbers, Charged
<1>. QED BY <1>1, <1>2

(* Steps of a host that charge nothing. *)
LEMMA PassingBudget ==
  ASSUME LifecycleInv, TypedInv, NEW p \in Hosts, NEW l, NEW x, Goto(p, l, x), pc[p] # "operating",
         UNCHANGED <<active_operation, evaluations, results, crashes>>,
         job' = job \/ (job # "none" /\ job' \in {"active", "cancelling"})
  PROVE  BudgetInv'
<1>1. Due' \in {0, Due}
  BY DueStep
<1>2. Jobs' = Jobs
  BY DEF Jobs
<1>3. job' \in {"none", "active", "cancelling"}
  BY Numbers
<1>. QED BY <1>1, <1>2, <1>3, Numbers, Charged

(* The budget holds, but for operations whose process died. *)
LEMMA BudgetTyped == ASSUME LifecycleInv, TypedInv, [Next]_vars PROVE BudgetInv'
<1>2. ASSUME NEW p \in Hosts, Call(p) PROVE BudgetInv'
  <2>1. CASE Evaluate(p) \/ Register(p)
    BY <2>1, RecoverBudget DEF Evaluate, Register, Enter
  <2>2. CASE FinishJob(p)
    <3>1. Due' \in {0, Due}
      BY <2>2, DueStep DEF FinishJob
    <3>2. Jobs = 1 /\ Jobs' = 0
      BY <2>2 DEF FinishJob, Jobs
    <3>. QED BY <2>2, <3>1, <3>2, Numbers, Charged DEF FinishJob
  <2>3. CASE Poll(p)
    BY <2>3, PassingBudget DEF Poll, engine
  <2>4. CASE \E n \in Nodes : \E status \in Reports(n) : Observe(p, n, status)
    BY <2>4, PassingBudget DEF Observe, engine
  <2>5. CASE \/ \E outcome \in FinishOutcomes : FinishCall(p, outcome)
             \/ \E reason \in StopReasons : StopCall(p, reason)
    BY <2>5, PassingBudget DEF FinishCall, StopCall, engine
  <2>. QED BY <1>2, <2>1, <2>2, <2>3, <2>4, <2>5 DEF Call
<1>3. ASSUME NEW p \in Hosts, Reserve(p) PROVE BudgetInv'
  <2>1. Due' \in {0, Due}
    BY <1>3, DueStep DEF Reserve, Return
  <2>2. \/ Jobs = 0 /\ Jobs' = 1 /\ evaluations < MaxEvaluations /\ evaluations' = evaluations + 1
        \/ Jobs' = Jobs /\ evaluations' = evaluations
    BY <1>3 DEF Reserve, Jobs
  <2>3. job' \in {"none", "active", "cancelling"}
    BY <1>3, Numbers DEF Reserve
  <2>. QED BY <1>3, <2>1, <2>2, <2>3, Numbers, Charged DEF Reserve
<1>4. ASSUME NEW p \in Hosts, OperationStarted(p) PROVE BudgetInv'
  <2>1. Due' = 0
    BY <1>4
       DEF OperationStarted, Goto, Due, DeadOperation, Alive, LifecycleInv, AdmissionInv
  <2>2. Jobs' = Jobs
    BY <1>4 DEF OperationStarted, Jobs
  <2>. QED BY <1>4, <2>1, <2>2, Numbers, Charged DEF OperationStarted
<1>5. ASSUME NEW p \in Hosts, OperationFinished(p) PROVE BudgetInv'
  <2>1. Due' = 0
    BY <1>5 DEF OperationFinished, Due, DeadOperation
  <2>2. \/ Jobs' = Jobs /\ evaluations' = evaluations
        \/ Jobs = 0 /\ Jobs' = 0 /\ evaluations < MaxEvaluations /\ evaluations' = evaluations + 1
    BY <1>5 DEF OperationFinished, Jobs
  <2>. QED BY <1>5, <2>1, <2>2, Numbers, Charged DEF OperationFinished
<1>6. ASSUME NEW p \in Hosts, Reconcile(p) PROVE BudgetInv'
  <2>1. PICK l, x : Goto(p, l, x)
    BY <1>6 DEF Reconcile, Return
  <2>. QED BY <1>6, <2>1, RecoverBudget, PassingBudget DEF Reconcile, engine, ctl
<1>7. ASSUME NEW p \in Hosts, Drain(p) PROVE BudgetInv'
  <2>1. PICK l, x : Goto(p, l, x)
    BY <1>7 DEF Drain, Return
  <2>. QED BY <1>7, <2>1, RecoverBudget, PassingBudget DEF Drain
<1>8. ASSUME NEW p \in Hosts,
             View(p) \/ Post(p) \/ FinishLock(p) \/ Finish(p) \/ Stop(p) \/ Mark(p) \/ Close(p)
      PROVE  BudgetInv'
  <2>1. PICK l, x : Goto(p, l, x)
    BY <1>8 DEF View, Post, FinishLock, Finish, Stop, Mark, Close, Return
  <2>. QED
    BY <1>8, <2>1, PassingBudget
       DEF View, Post, FinishLock, Finish, Stop, Mark, Close, engine
<1>9. ASSUME NEW p \in Hosts, Cancel(p) PROVE BudgetInv'
  BY <1>9, PassingBudget DEF Cancel, Return
<1>10. ASSUME NEW p \in Hosts, Crash(p) PROVE BudgetInv'
  <2>1. Due' \in {0, 1} /\ crashes' = crashes + 1 /\ Jobs' = Jobs
    BY <1>10 DEF Crash, Due, Jobs, engine
  <2>. QED BY <1>10, <2>1, Numbers, Charged DEF Crash, engine
<1>11. CASE UNCHANGED <<engine, pc, crashes>>
  BY <1>11 DEF engine, TypedInv, BudgetInv, Due, Jobs, DeadOperation, Alive
<1>12. CASE (\E c \in Children : Admit(c)) \/ RecoverInfrastructure \/ Expire \/ UNCHANGED vars
  BY <1>11, <1>12 DEF Admit, RecoverInfrastructure, Expire, vars
<1>13. CASE \E m \in outbox : ClaimDelivery(m) \/ AckDelivery(m) \/ RequeueDelivery(m)
  BY <1>11, <1>13 DEF ClaimDelivery, AckDelivery, RequeueDelivery
<1>. QED
  BY <1>2, <1>3, <1>4, <1>5, <1>6, <1>7, <1>8, <1>9, <1>10, <1>12, <1>13 DEF Next, Step

(* All types. *)
LEMMA InitTyped == ASSUME Init PROVE TypedInv
<1>1. ArgInv
  BY DEF Init, ArgInv, WorksWith
<1>2. MaxRecoveries \in Nat /\ MaxEvaluations \in Nat
  BY ControllerAssumption
<1>5. StopInv /\ OutboxInv
  BY DEF Init, StopInv, OutboxInv
<1>6. RestInv
  <2>1. best \in BOOLEAN /\ cancel \in BOOLEAN /\ expired \in BOOLEAN
    BY DEF Init
  <2>2. operation \in Hosts \cup {None} /\ recoveries \in 0 .. MaxRecoveries
    BY <1>2 DEF Init
  <2>. QED BY <2>1, <2>2 DEF RestInv
<1>3. NodesInv
  BY ControllerAssumption DEF Init, NodesInv, Nodes, Status, Sessions, ACTIVE
<1>4. BudgetInv
  BY ControllerAssumption DEF Init, BudgetInv, Due, Jobs, DeadOperation
<1>. QED BY <1>1, <1>3, <1>4, <1>5, <1>6 DEF TypedInv

(* Types, together with the locks they rest on, hold always (all of *)
(* Controller.tla).                                                 *)
THEOREM TypedInvariant == Spec => [](LifecycleInv /\ TypedInv)
<1>1. LifecycleInv /\ TypedInv /\ [Next]_vars => (LifecycleInv /\ TypedInv)'
  BY NextLifecycle, StopTyped, NodesTyped, OutboxTyped, RestTyped, ArgTyped, BudgetTyped
  DEF TypedInv
<1>. QED BY <1>1, InitLifecycle, InitTyped, PTL DEF Spec

(* Types, for any hosts, sessions and limits: the budget of evaluations is  *)
(* passed by charges for crashed operations only (reserve_evaluation,       *)
(* recover_operation), and a receipt exists exactly when closed.            *)
THEOREM TypeCorrect == Spec => []TypeOK
<1>1. ASSUME LifecycleInv, TypedInv PROVE TypeOK
  <2>1. /\ lifecycle \in {"open", "stopping", "closed"}
        /\ stop_request \in Reasons \cup {"none"}
        /\ completion \in Reasons \cup {"none", "explicit_finish"}
        /\ lifecycle = "closed" <=> completion # "none"
        /\ lifecycle = "stopping" => stop_request # "none"
        /\ \A p \in Hosts : pc[p] \in {"reserve", "start", "operating", "finishing"} => operation = p
    BY <1>1 DEF LifecycleInv, AdmissionInv, TypedInv, StopInv, Entered
  <2>2. evaluations \in 0 .. MaxEvaluations + crashes /\ results \in 0 .. MaxEvaluations
    BY <1>1, ControllerAssumption DEF TypedInv, BudgetInv, Due, Jobs
  <2>3. \A p \in Hosts : pc[p] = "view" => arg[p] \in Snapshots
    BY <1>1 DEF TypedInv, ArgInv, WorksWith
  <2>. QED
    BY <1>1, <2>1, <2>2, <2>3 DEF TypedInv, NodesInv, OutboxInv, BudgetInv, RestInv, TypeOK
<1>. QED BY <1>1, TypedInvariant, PTL

-----------------------------------------------------------------------------
(* Feedback *)

(* The dispatches of failure continuations, as ContinuationsCharged counts. *)
Dispatches == UNION {{Id(m)} \X (1 .. m.attempts) : m \in {x \in outbox : x.failure}}

(* Messages are told apart by what they were posted for, one at most is     *)
(* undelivered, and every dispatch was charged.                             *)
FeedbackInv ==
  /\ \A x, y \in outbox : Id(x) = Id(y) => x = y
  /\ \A x, y \in Undelivered : x = y
  /\ failure_continuations <= MaxFailures
  /\ IsFiniteSet(Dispatches) /\ Cardinality(Dispatches) = failure_continuations

(* A message at another step of its delivery. *)
At(m, status, attempts) ==
  [sequence |-> m.sequence, results |-> m.results, failure |-> m.failure, children |-> m.children,
   status |-> status, attempts |-> attempts]

(* A dispatch is the attempt of a message. *)
LEMMA DispatchOf ==
  ASSUME NEW e
  PROVE  /\ (e \in Dispatches <=>
               \E m \in outbox : \E k \in 1 .. m.attempts : m.failure /\ e = <<Id(m), k>>)
         /\ (e \in Dispatches' <=>
               \E m \in outbox' : \E k \in 1 .. m.attempts : m.failure /\ e = <<Id(m), k>>)
<1>1. e \in Dispatches <=>
        \E m \in outbox : \E k \in 1 .. m.attempts : m.failure /\ e = <<Id(m), k>>
  BY DEF Dispatches
<1>2. e \in Dispatches' <=>
        \E m \in outbox' : \E k \in 1 .. m.attempts : m.failure /\ e = <<Id(m), k>>
  BY DEF Dispatches
<1>. QED BY <1>1, <1>2

(* A message that replaces one is the same message. *)
LEMMA Replaced ==
  ASSUME TypedInv, FeedbackInv, NEW m \in outbox, NEW status, NEW k, NEW n, n = At(m, status, k),
         Becomes(m, n)
  PROVE  /\ \A x \in outbox' : x = n \/ (x \in outbox /\ x # m)
         /\ Id(n) = Id(m) /\ n.failure = m.failure /\ n.attempts = k /\ n.status = status
         /\ n \in outbox' /\ \A x \in outbox : x # m => x \in outbox'
         /\ \A x, y \in outbox' : Id(x) = Id(y) => x = y
<1>1. Id(n) = Id(m) /\ n.failure = m.failure /\ n.attempts = k /\ n.status = status
  BY DEF At, Id
<1>2. outbox' = (outbox \ {m}) \cup {n}
  BY DEF Becomes
<1>3. \A x \in outbox' : x = n \/ (x \in outbox /\ x # m)
  BY <1>2
<1>4. \A x, y \in outbox' : Id(x) = Id(y) => x = y
  BY <1>1, <1>3 DEF FeedbackInv
<1>. QED BY <1>1, <1>2, <1>3, <1>4

(* A step of the delivery that charges nothing keeps the dispatches. *)
LEMMA Delivered ==
  ASSUME TypedInv, FeedbackInv, NEW m \in outbox, NEW status \in {"pending", "acknowledged"},
         m.status = "dispatched", Becomes(m, At(m, status, m.attempts)), UNCHANGED failure_continuations
  PROVE  FeedbackInv'
<1>1. PICK n : n = At(m, status, m.attempts)
  OBVIOUS
<1>2. /\ \A x \in outbox' : x = n \/ (x \in outbox /\ x # m)
      /\ Id(n) = Id(m) /\ n.failure = m.failure /\ n.attempts = m.attempts /\ n.status = status
      /\ n \in outbox' /\ \A x \in outbox : x # m => x \in outbox'
      /\ \A x, y \in outbox' : Id(x) = Id(y) => x = y
  BY <1>1, Replaced
<1>3. \A x, y \in Undelivered' : x = y
  BY <1>2 DEF FeedbackInv, Undelivered
<1>4. Dispatches' = Dispatches
  <2>1. ASSUME NEW e \in Dispatches PROVE e \in Dispatches'
    <3>1. PICK x \in outbox : \E k \in 1 .. x.attempts : x.failure /\ e = <<Id(x), k>>
      BY DispatchOf
    <3>2. PICK y \in outbox' : y.attempts = x.attempts /\ y.failure = x.failure /\ Id(y) = Id(x)
      BY <1>2
    <3>. QED BY <3>1, <3>2, DispatchOf
  <2>2. ASSUME NEW e \in Dispatches' PROVE e \in Dispatches
    <3>1. PICK x \in outbox' : \E k \in 1 .. x.attempts : x.failure /\ e = <<Id(x), k>>
      BY DEF Dispatches
    <3>2. PICK y \in outbox : y.attempts = x.attempts /\ y.failure = x.failure /\ Id(y) = Id(x)
      BY <1>2
    <3>. QED BY <3>1, <3>2, DispatchOf
  <2>. QED BY <2>1, <2>2
<1>. QED BY <1>2, <1>3, <1>4 DEF FeedbackInv

(* claim_delivery charges the attempt it makes. *)
LEMMA Claimed == ASSUME TypedInv, FeedbackInv, NEW m \in outbox, ClaimDelivery(m) PROVE FeedbackInv'
<1>1. m \in Messages /\ m.attempts \in Nat
  BY DEF TypedInv, OutboxInv, Messages
<1>2. PICK k \in Nat : k = m.attempts + 1
  BY <1>1
<1>3. PICK n : n = At(m, "dispatched", k)
  OBVIOUS
<1>4. [m EXCEPT !.status = "dispatched", !.attempts = k] = n
  <2>1. [m EXCEPT !.status = "dispatched"] = At(m, "dispatched", m.attempts)
    BY <1>1 DEF At, Messages
  <2>2. [At(m, "dispatched", m.attempts) EXCEPT !.attempts = k] = n
    BY <1>3 DEF At
  <2>3. [m EXCEPT !.status = "dispatched", !.attempts = k]
          = [[m EXCEPT !.status = "dispatched"] EXCEPT !.attempts = k]
    OBVIOUS
  <2>. QED BY <2>1, <2>2, <2>3
<1>5. Becomes(m, n)
  BY <1>1, <1>2, <1>4 DEF ClaimDelivery
<1>6. /\ \A x \in outbox' : x = n \/ (x \in outbox /\ x # m)
      /\ Id(n) = Id(m) /\ n.failure = m.failure /\ n.attempts = k /\ n.status = "dispatched"
      /\ n \in outbox' /\ \A x \in outbox : x # m => x \in outbox'
      /\ \A x, y \in outbox' : Id(x) = Id(y) => x = y
  BY <1>3, <1>5, Replaced
<1>7. \A x, y \in Undelivered' : x = y
  BY <1>6 DEF ClaimDelivery, FeedbackInv, Undelivered
<1>8. CASE m.failure
  <2>1. Dispatches' = Dispatches \cup {<<Id(m), k>>}
    <3>1. ASSUME NEW e \in Dispatches PROVE e \in Dispatches'
      <4>1. PICK x \in outbox : \E j \in 1 .. x.attempts : x.failure /\ e = <<Id(x), j>>
        BY DispatchOf
      <4>2. PICK j \in 1 .. x.attempts : x.failure /\ e = <<Id(x), j>>
        BY <4>1
      <4>3. PICK y \in outbox' : j \in 1 .. y.attempts /\ y.failure = x.failure /\ Id(y) = Id(x)
        BY <1>1, <1>2, <1>6
      <4>. QED BY <4>2, <4>3, DispatchOf
    <3>2. <<Id(m), k>> \in Dispatches'
      <4>1. k \in 1 .. n.attempts
        BY <1>1, <1>2, <1>6
      <4>2. n.failure /\ <<Id(m), k>> = <<Id(n), k>>
        BY <1>6, <1>8
      <4>. QED BY <1>6, <4>1, <4>2, DispatchOf
    <3>3. ASSUME NEW e \in Dispatches', e # <<Id(m), k>> PROVE e \in Dispatches
      <4>1. PICK x \in outbox' : \E j \in 1 .. x.attempts : x.failure /\ e = <<Id(x), j>>
        BY DEF Dispatches
      <4>2. PICK j \in 1 .. x.attempts : x.failure /\ e = <<Id(x), j>>
        BY <4>1
      <4>3. PICK y \in outbox : j \in 1 .. y.attempts /\ y.failure = x.failure /\ Id(y) = Id(x)
        <5>1. CASE x = n
          <6>1. j \in 1 .. k /\ j # k
            BY <1>6, <3>3, <4>2, <5>1
          <6>2. j \in 1 .. m.attempts
            BY <1>1, <1>2, <6>1
          <6>3. m.failure = x.failure /\ Id(m) = Id(x)
            BY <1>6, <5>1
          <6>. QED BY <6>2, <6>3
        <5>. QED BY <1>6, <4>2, <5>1
      <4>. QED BY <4>2, <4>3, DispatchOf
    <3>. QED BY <3>1, <3>2, <3>3
  <2>2. <<Id(m), k>> \notin Dispatches
    <3>1. SUFFICES ASSUME <<Id(m), k>> \in Dispatches PROVE FALSE
      OBVIOUS
    <3>2. PICK x \in outbox : \E j \in 1 .. x.attempts : <<Id(m), k>> = <<Id(x), j>>
      BY <3>1, DispatchOf
    <3>3. x = m
      BY <3>2 DEF FeedbackInv
    <3>. QED BY <1>1, <1>2, <3>2, <3>3
  <2>3. IsFiniteSet(Dispatches') /\ Cardinality(Dispatches') = Cardinality(Dispatches) + 1
    BY <2>1, <2>2, FS_AddElement DEF FeedbackInv
  <2>4. /\ failure_continuations' = failure_continuations + 1
        /\ failure_continuations < MaxFailures /\ failure_continuations \in Nat /\ MaxFailures \in Nat
    BY <1>8, ControllerAssumption DEF ClaimDelivery, TypedInv, OutboxInv
  <2>5. failure_continuations' <= MaxFailures
    BY <2>4
  <2>. QED BY <1>6, <1>7, <2>3, <2>4, <2>5 DEF FeedbackInv
<1>9. CASE ~m.failure
  <2>1. \A x \in outbox' : x.failure <=> x \in outbox /\ x # m /\ x.failure
    BY <1>6, <1>9
  <2>2. Dispatches' = Dispatches
    BY <1>6, <1>9, <2>1 DEF Dispatches
  <2>3. failure_continuations' = failure_continuations
    BY <1>9 DEF ClaimDelivery, TypedInv, OutboxInv
  <2>. QED BY <1>6, <1>7, <2>2, <2>3 DEF FeedbackInv
<1>. QED BY <1>8, <1>9

(* A message is posted under an identity of its own, when none is underway. *)
LEMMA Posted == ASSUME TypedInv, FeedbackInv, NEW p \in Hosts, Post(p) PROVE FeedbackInv'
<1>1. PICK m : m = [sequence |-> arg[p].sequence, results |-> arg[p].results,
                    children |-> arg[p].children, failure |-> arg[p].failure,
                    status |-> "pending", attempts |-> 0]
  OBVIOUS
<1>2. UNCHANGED failure_continuations
  BY DEF Post
<1>3. CASE UNCHANGED outbox
  <2>1. Dispatches' = Dispatches
    BY <1>3 DEF Dispatches
  <2>. QED BY <1>2, <1>3, <2>1 DEF FeedbackInv, Undelivered
<1>4. CASE /\ outbox' = outbox \cup {m}
           /\ \A x \in outbox : Id(x) # Id(m)
           /\ Undelivered = {}
  <2>1. \A x, y \in outbox' : Id(x) = Id(y) => x = y
    BY <1>4 DEF FeedbackInv
  <2>2. \A x, y \in Undelivered' : x = y
    BY <1>4 DEF Undelivered
  <2>3. m.attempts = 0 /\ 1 .. 0 = {}
    BY <1>1
  <2>4. \A e : e \in Dispatches' => e \in Dispatches
    <3>1. ASSUME NEW e \in Dispatches' PROVE e \in Dispatches
      <4>1. PICK x \in outbox' : \E k \in 1 .. x.attempts : x.failure /\ e = <<Id(x), k>>
        BY DEF Dispatches
      <4>2. x \in outbox
        BY <1>4, <2>3, <4>1
      <4>. QED BY <4>1, <4>2, DispatchOf
    <3>. QED BY <3>1
  <2>5. \A e : e \in Dispatches => e \in Dispatches'
    BY <1>4 DEF Dispatches
  <2>6. Dispatches' = Dispatches
    BY <2>4, <2>5
  <2>. QED BY <1>2, <2>1, <2>2, <2>6 DEF FeedbackInv
<1>. QED BY <1>1, <1>3, <1>4 DEF Post

(* Every other step leaves the outbox alone. *)
LEMMA FeedbackStep == ASSUME TypedInv, FeedbackInv, [Next]_vars PROVE FeedbackInv'
<1>1. CASE UNCHANGED <<outbox, failure_continuations>>
  <2>1. Dispatches' = Dispatches
    BY <1>1 DEF Dispatches
  <2>. QED BY <1>1, <2>1 DEF FeedbackInv, Undelivered
<1>2. ASSUME NEW p \in Hosts, Call(p) \/ Crash(p)
      PROVE  UNCHANGED <<outbox, failure_continuations>>
  BY <1>2
  DEF Call, Evaluate, Register, Enter, FinishJob, Poll, Observe, FinishCall, StopCall, Crash, ctl
<1>3. ASSUME NEW p \in Hosts, Step(p), ~Post(p)
      PROVE  UNCHANGED <<outbox, failure_continuations>>
  BY <1>3
  DEF Step, Reserve, OperationStarted, OperationFinished, Reconcile, View, FinishLock, Finish,
      Stop, Drain, Mark, Cancel, Close, ctl
<1>4. CASE (\E c \in Children : Admit(c)) \/ RecoverInfrastructure \/ Expire \/ UNCHANGED vars
  BY <1>1, <1>4 DEF Admit, RecoverInfrastructure, Expire, vars, ctl
<1>5. ASSUME NEW m \in outbox, AckDelivery(m) PROVE FeedbackInv'
  <2>1. m \in Messages
    BY DEF TypedInv, OutboxInv
  <2>2. [m EXCEPT !.status = "acknowledged"] = At(m, "acknowledged", m.attempts)
    BY <2>1 DEF Messages, At
  <2>. QED BY <1>5, <2>2, Delivered DEF AckDelivery
<1>6. ASSUME NEW m \in outbox, RequeueDelivery(m) PROVE FeedbackInv'
  <2>1. m \in Messages
    BY DEF TypedInv, OutboxInv
  <2>2. [m EXCEPT !.status = "pending"] = At(m, "pending", m.attempts)
    BY <2>1 DEF Messages, At
  <2>. QED BY <1>6, <2>2, Delivered DEF RequeueDelivery
<1>. QED BY <1>1, <1>2, <1>3, <1>4, <1>5, <1>6, Claimed, Posted DEF Next

(* There is no message at first. *)
LEMMA InitFeedback == ASSUME Init PROVE FeedbackInv
<1>1. outbox = {} /\ failure_continuations = 0 /\ MaxFailures \in Nat
  BY ControllerAssumption DEF Init
<1>2. Dispatches = {}
  BY <1>1 DEF Dispatches
<1>. QED BY <1>1, <1>2, FS_EmptySet DEF FeedbackInv, Undelivered

(* However hosts reconcile, deliver, crash, stop and recover, one feedback  *)
(* message at most is undelivered, and the dispatches of failure            *)
(* continuations are as many as were charged and no more than the owner     *)
(* allows (the outbox update, claim_delivery, requeue_rejected_delivery).   *)
THEOREM FeedbackIsAccounted == Spec => []FeedbackAccounted
<1>1. ASSUME TypedInv, FeedbackInv PROVE FeedbackAccounted
  <2>1. Undelivered = {} \/ \E m : Undelivered = {m}
    BY <1>1 DEF FeedbackInv
  <2>2. Cardinality(Undelivered) <= 1
    BY <2>1, FS_EmptySet, FS_Singleton
  <2>. QED BY <1>1, <2>2
       DEF FeedbackInv, FeedbackAccounted, OneUndelivered, ContinuationsCharged, Dispatches
<1>2. TypedInv /\ FeedbackInv /\ [Next]_vars => FeedbackInv'
  BY FeedbackStep
<1>. QED BY <1>1, <1>2, InitFeedback, TypedInvariant, PTL DEF Spec
=============================================================================
