------------------------------ MODULE PrimeRunner ------------------------------
(***************************************************************************)
(* The supervised native session: the driver tools/prime_rpc_check.py with *)
(* its GoalBridge (prime_goal.py), the native process it talks to over two *)
(* pipes, the controller it reports to (controller.py, summarised: module  *)
(* Controller has the details) and, for a probe, the legacy observer       *)
(* (prime_observer.py) that writes to the driver's command file.  The      *)
(* driver and the observer can be killed anywhere; the driver is started   *)
(* again on the saved session, after a reviewed recovery if it had stopped.*)
(*                                                                         *)
(* The native process is external: it reads prompts in order, refuses some, *)
(* saves the others to its transcript some time after it answered, may not *)
(* report the end of a turn, and starts turns of its own.  Abstracted: a   *)
(* prompt is who sent it and its id; time stamps are positions in the      *)
(* transcript; the money meter and every other fatal report (provider or   *)
(* quota error, policy violation, a failing RPC, and the time limit, which *)
(* differs in the recorded reason only) are Ends; no round qualifies, so   *)
(* every message of the controller is a failure continuation.              *)
(***************************************************************************)
EXTENDS Integers, Sequences, FiniteSets, SequencesExt

CONSTANTS MaxFailures, \* max_failure_continuations
          MaxLaunches, \* bound on starts of the driver, and on kills of one to be started again
          MaxRecoveries, \* bound on reviewed recoveries
          MaxTurns,    \* bound on turns
          MaxEffort,   \* bound on turns and starts together, once there is a child
          MaxPipe,     \* bound on unread reports, as long as there is no child; then one
          MaxTicks     \* bound on ticks of the observer

ASSUME RunnerAssumption ==
  /\ MaxFailures \in Nat /\ MaxLaunches \in Nat /\ MaxRecoveries \in Nat
  /\ {MaxTurns, MaxEffort} \subseteq Nat /\ MaxPipe \in Nat \ {0} /\ MaxTicks \in Nat

VARIABLES
  supervised, \* not --probe-only
  ctl,        \* the controller
  d,          \* the driver
  saved,      \* its status.json
  commands, offset, newer, \* commands.jsonl, how far it was read, and whether it is newer than saved
  answers,    \* the replies to prompts in events.jsonl
  nat,        \* the native process
  stdin, stdout, \* its pipes
  transcript, \* the native session files
  kid,        \* the native child
  obs,        \* the observer's tick, and its state.json
  evaluated,  \* a full evaluation is complete (for the observer)
  doubled,    \* history: one end of a turn was recovered, and its report was in the pipe
  launches, recoveries, turns, ticks

native   == <<nat, stdin, stdout, transcript, kid, turns>>
driver   == <<d, saved, offset, answers, launches, doubled>>
files    == <<commands, newer>>
watching == <<obs, evaluated, ticks>>
rest     == <<supervised, recoveries>>
vars     == <<supervised, ctl, d, saved, commands, offset, newer, answers, nat, stdin, stdout,
              transcript, kid, obs, evaluated, doubled, launches, recoveries, turns, ticks>>

-----------------------------------------------------------------------------
(* Prompts, reports and transcripts. *)

Prompt(by, id)   == [by |-> by, id |-> id]
NoPrompt         == Prompt("nobody", 0)
Report(kind, p, streaming) == [kind |-> kind, prompt |-> p, streaming |-> streaming]
Entry(kind, p)   == [kind |-> kind, prompt |-> p, session |-> nat.session]
Says(session, p) == \E i \in 1..Len(transcript) :
                      transcript[i].kind = "user" /\ transcript[i].prompt = p
                        /\ transcript[i].session = session

(* native_idle_receipt: the session's last message is a final answer.      *)
IdleReceipt == transcript # <<>> /\ transcript[Len(transcript)].kind = "stop"

-----------------------------------------------------------------------------
(* The controller. *)

ACTIVE == {"admitted", "running", "idle"}
Guard(c) == c.lifecycle = "open"

Drained(c) ==
  IF c.lifecycle = "stopping" /\ c.child \notin ACTIVE /\ c.root # "running"
  THEN [c EXCEPT !.lifecycle = "closed"] ELSE c

Stopped(c, why) ==
  Drained(IF c.lifecycle = "open" THEN [c EXCEPT !.lifecycle = "stopping", !.reason = why] ELSE c)

Unfinished(c) == {i \in 1..Len(c.outbox) : c.outbox[i].status \in {"pending", "dispatched"}}
Dispatched(c) == {i \in 1..Len(c.outbox) : c.outbox[i].status = "dispatched"}
Pending(c)    == {i \in 1..Len(c.outbox) : c.outbox[i].status = "pending"}

(* reconcile: one feedback message for each idle boundary of the root. *)
Reconciled(c) ==
  CASE c.lifecycle = "closed"   -> c
    [] c.lifecycle = "stopping" -> Drained(c)
    [] OTHER ->
         IF c.root # "idle" \/ c.child \in ACTIVE \/ Unfinished(c) # {}
              \/ \E i \in 1..Len(c.outbox) : c.outbox[i].from >= c.seq
         THEN c
         ELSE IF c.failures >= MaxFailures THEN Stopped(c, "attempt_limit")
         ELSE [c EXCEPT !.outbox = Append(@, [status |-> "pending", from |-> c.seq])]

(* GoalBridge.observe: only once bound, only what is new; reconciles too.  *)
Observed(c, bound, node, status) ==
  IF ~bound \/ c[node] \in {status, "absent"} THEN c
  ELSE Reconciled([c EXCEPT ![node] = status, !.seq = IF node = "root" THEN @ + 1 ELSE @])

(* Mutant: the claim is counted, not marked. *)
ClaimedUnmarked(c, i) == [c EXCEPT !.failures = @ + 1]

Claimed(c, i) == [c EXCEPT !.outbox[i].status = "dispatched", !.failures = @ + 1]

-----------------------------------------------------------------------------
Off == [pc |-> "off", status |-> "off", session |-> 0, bound |-> FALSE, turn |-> FALSE,
        since |-> 0, sending |-> 0]

(* What status.json keeps of it. *)
Saved(x) == [status |-> x.status, session |-> x.session, since |-> x.since]

Init ==
  /\ supervised \in BOOLEAN
  /\ ctl = [lifecycle |-> "open", reason |-> "none", root |-> "absent", child |-> "absent",
            session |-> 0, seq |-> 0, outbox |-> <<>>, failures |-> 0]
  /\ d = Off /\ saved = Saved(Off)
  /\ commands = <<>> /\ offset = 0 /\ newer = FALSE /\ answers = {}
  /\ nat = [alive |-> FALSE, session |-> 0, streaming |-> FALSE, unsaved |-> NoPrompt]
  /\ stdin = <<>> /\ stdout = <<>> /\ transcript = <<>> /\ kid = "none"
  /\ obs = [pc |-> "off", mem |-> {}, disk |-> {}, key |-> 0]
  /\ evaluated = FALSE /\ doubled = FALSE
  /\ launches = 0 /\ recoveries = 0 /\ turns = 0 /\ ticks = 0

-----------------------------------------------------------------------------
(* The native process. *)

(* Nobody reads what a process reports whose driver is gone. *)
Reported(rs) == stdout' = IF d.pc = "off" THEN <<>> ELSE stdout \o rs
Reports(r)   == Len(stdout) < (IF kid = "none" THEN MaxPipe ELSE 1) /\ Reported(<<r>>)

(* Bounds. *)
ChildInBounds == kid # "none" => turns + launches < MaxEffort
TurnInBounds  == turns < MaxTurns /\ ChildInBounds

(* A prompt is taken up, or refused: the session may be busy.              *)
NativeReads ==
  /\ nat.alive /\ stdin # <<>>
  /\ stdin' = Tail(stdin)
  /\ \/ /\ ~nat.streaming /\ TurnInBounds
        /\ nat' = [nat EXCEPT !.streaming = TRUE, !.unsaved = stdin[1]]
        /\ turns' = turns + 1
        /\ Reported(<<Report("ok", stdin[1], TRUE), Report("start", NoPrompt, TRUE)>>)
     \/ /\ Reports(Report("refused", stdin[1], nat.streaming))
        /\ UNCHANGED <<nat, turns>>
  /\ UNCHANGED <<ctl, driver, files, watching, rest, transcript, kid>>

NativeSaves ==
  /\ nat.alive /\ nat.unsaved # NoPrompt
  /\ transcript' = Append(transcript, Entry("user", nat.unsaved))
  /\ nat' = [nat EXCEPT !.unsaved = NoPrompt]
  /\ UNCHANGED <<ctl, driver, files, watching, rest, stdin, stdout, kid, turns>>

(* The final answer; the report of it can be lost. *)
NativeEnds ==
  /\ nat.alive /\ nat.streaming /\ nat.unsaved = NoPrompt
  /\ transcript' = Append(transcript, Entry("stop", NoPrompt))
  /\ nat' = [nat EXCEPT !.streaming = FALSE]
  /\ Reports(Report("end", NoPrompt, FALSE)) \/ stdout' = stdout
  /\ UNCHANGED <<ctl, driver, files, watching, rest, stdin, kid, turns>>

(* A message of the child starts a turn that nobody prompted. *)
NativeRestarts ==
  /\ nat.alive /\ ~nat.streaming /\ kid # "none" /\ TurnInBounds
  /\ nat' = [nat EXCEPT !.streaming = TRUE, !.unsaved = Prompt("child", 0)]
  /\ turns' = turns + 1
  /\ Reports(Report("start", NoPrompt, TRUE))
  /\ UNCHANGED <<ctl, driver, files, watching, rest, stdin, transcript, kid>>

NativeState ==
  /\ nat.alive /\ d.pc = "loop" /\ stdout = <<>>
  /\ Reports(Report("state", NoPrompt, nat.streaming))
  /\ UNCHANGED <<ctl, driver, files, watching, rest, nat, stdin, transcript, kid, turns>>

(* The process dies with the driver, or at any time. *)
NativeDies ==
  /\ nat.alive
  /\ nat' = [nat EXCEPT !.alive = FALSE, !.streaming = FALSE, !.unsaved = NoPrompt]
  /\ stdin' = <<>>
  /\ UNCHANGED <<ctl, driver, files, watching, rest, stdout, transcript, kid, turns>>

(* Bounded to a child of the first turn. *)
Child ==
  /\ supervised /\ nat.alive /\ turns = 1
  /\ \/ kid = "none" /\ nat.streaming /\ kid' = "running"
     \/ kid = "running" /\ kid' = "idle"
  /\ UNCHANGED <<ctl, driver, files, watching, rest, nat, stdin, stdout, transcript, turns>>

(* finish, called by the root's own turn. *)
Finish ==
  /\ supervised /\ nat.alive /\ nat.streaming
  /\ ctl.lifecycle = "open" /\ ctl.child \notin ACTIVE
  /\ ctl' = [ctl EXCEPT !.lifecycle = "closed", !.reason = "explicit_finish"]
  /\ UNCHANGED <<driver, files, watching, rest, native>>

-----------------------------------------------------------------------------
(* The driver: start, and the top of its loop. *)

(* GoalBridge and main up to the loop.  A new session, unless the saved    *)
(* status names a verified one; its native process must be gone.           *)
Launch ==
  /\ d.pc = "off" /\ launches < (IF supervised THEN MaxLaunches ELSE 1) /\ ~nat.alive /\ ChildInBounds
  /\ LET c == Reconciled(ctl)
         resumed == supervised /\ saved.session # 0
     IN /\ ctl' = IF ~supervised THEN ctl
                  ELSE IF Guard(c) /\ c.root = "absent" THEN [c EXCEPT !.root = "admitted"] ELSE c
        /\ IF ~supervised \/ Guard(c)
           THEN /\ d' = [Off EXCEPT !.pc = "loop", !.status = "starting",
                                    !.session = IF resumed THEN saved.session ELSE 0,
                                    !.turn = resumed /\ saved.status = "running" /\ saved.since > 0,
                                    !.since = IF resumed THEN saved.since ELSE 0]
                /\ nat' = [alive |-> TRUE, streaming |-> FALSE, unsaved |-> NoPrompt,
                           session |-> IF resumed THEN saved.session ELSE launches + 1]
                /\ stdin' = <<>> /\ stdout' = <<>>
                /\ commands' = <<>> /\ newer' = FALSE /\ offset' = 0 /\ answers' = {}
                /\ saved' = Saved(d')
           ELSE UNCHANGED <<d, saved, nat, stdin, stdout, files, offset, answers>>
  /\ launches' = launches + 1
  /\ UNCHANGED <<doubled, watching, rest, transcript, kid, turns>>

To(label) == d' = [d EXCEPT !.pc = label]

(* Every way out of the loop goes through the finally clause. *)
Leave(status) == d' = [d EXCEPT !.pc = "closing", !.status = status]

(* send; a dead process has closed the pipe. *)
Prompted(p) ==
  IF ~nat.alive THEN Leave("failed") /\ stdin' = stdin
  ELSE
  /\ stdin' = Append(stdin, p)
  /\ d' = [d EXCEPT !.pc = "loop", !.status = "running", !.turn = TRUE,
                    !.since = Len(transcript) + 1, !.sending = 0]

(* A line of commands.jsonl. *)
ReadCommand ==
  /\ d.pc = "loop" /\ offset < Len(commands)
  /\ offset' = offset + 1
  /\ IF ~supervised
     THEN Prompted(commands[offset + 1]) /\ ctl' = ctl
     ELSE IF d.bound /\ Guard(ctl)
     THEN Prompted(commands[offset + 1]) /\ ctl' = Observed(ctl, TRUE, "root", "running")
     ELSE Leave("failed") /\ UNCHANGED <<ctl, stdin>>
  /\ UNCHANGED <<saved, answers, launches, doubled, files, watching, rest, nat, stdout, transcript,
                 kid, turns>>

(* The host prompts a session that is ready; stop_driver is one of Ends. *)
Command ==
  /\ commands = <<>> /\ d.status = "ready"
  /\ commands' = <<Prompt("host", 0)>> /\ newer' = ~supervised
  /\ UNCHANGED <<ctl, driver, watching, rest, native>>

(* Mutant: the final answer may be an old one. *)
RecoveredStale(e, status) == status = "running" /\ ~e.streaming /\ IdleReceipt

(* recovered_idle: quiet, and a final answer since the last prompt.        *)
RecoveredIdle(e, status) ==
  /\ status = "running" /\ ~e.streaming
  /\ IdleReceipt /\ Len(transcript) >= d.since

(* A reported state binds the session, and may make up for a lost end. *)
Verified(e) ==
  LET status == IF d.status # "starting" THEN d.status
                ELSE IF d.turn \/ e.streaming THEN "running" ELSE "ready"
      idle == RecoveredIdle(e, status)
  IN [d EXCEPT !.session = nat.session, !.bound = supervised,
               !.status = IF idle THEN "idle" ELSE status,
               !.turn = ~idle /\ @]

Mismatch == (d.session # 0 /\ d.session # nat.session)
            \/ (supervised /\ ctl.session \notin {0, nat.session})

Event ==
  /\ d.pc = "loop" /\ stdout # <<>>
  /\ stdout' = Tail(stdout)
  /\ LET e == stdout[1]
     IN /\ CASE e.kind = "start" ->
                  d' = [d EXCEPT !.status = "running", !.turn = TRUE,
                                 !.since = IF d.turn THEN @ ELSE Len(transcript) + 1]
             [] e.kind = "end"     -> d' = [d EXCEPT !.status = "idle", !.turn = FALSE]
             [] e.kind = "ok"      -> d' = d
             [] e.kind = "refused" -> Leave("failed")
             [] e.kind = "state"   -> IF Mismatch THEN Leave("failed") ELSE d' = Verified(e)
        /\ doubled' = \/ doubled
                      \/ /\ e.kind = "state" /\ ~Mismatch
                         /\ d.status # "idle" /\ Verified(e).status = "idle"
                         /\ \E k \in 2 .. Len(stdout) : stdout[k].kind = "end"
        /\ ctl' = IF e.kind = "state" /\ ~Mismatch /\ supervised
                  THEN [ctl EXCEPT !.session = nat.session] ELSE ctl
        /\ answers' = IF e.kind \in {"ok", "refused"} THEN answers \cup {<<e.prompt, e.kind>>}
                      ELSE answers
  /\ UNCHANGED <<saved, offset, launches, files, watching, rest, nat, stdin, transcript, kid, turns>>

SaveState ==
  /\ d.pc = "loop"
  /\ saved' = Saved(d)
  /\ newer' = FALSE
  /\ UNCHANGED <<ctl, d, offset, answers, launches, doubled, commands, watching, rest, native>>

(* The process ended, stop_driver, or a fatal report; only what raises can *)
(* happen inside a poll.                                                   *)
Ends ==
  /\ \/ d.pc = "loop" /\ Leave("stopped")
     \/ d.pc \in {"loop", "polling", "rooted", "viewed", "claimed", "told"}
        /\ Leave("failed")
  /\ UNCHANGED <<ctl, saved, offset, answers, launches, doubled, files, watching, rest, native>>

-----------------------------------------------------------------------------
(* GoalBridge.poll *)

Polls == d.pc = "loop" /\ supervised /\ d.bound

(* Mutant: a prompt the session answered counts as delivered. *)
ProvenByAnswer(i) == \E a \in answers : a[1] = Prompt("goal", i) /\ a[2] = "ok"

(* The marked user message, in a complete line of the bound session's file. *)
Proven(i) == Says(d.session, Prompt("goal", i))

(* acknowledge; an idle session without the claimed message is ambiguous.  *)
Acknowledge ==
  /\ Polls
  /\ LET proven == {i \in Dispatched(ctl) : Proven(i)}
         c == [ctl EXCEPT !.outbox = [i \in DOMAIN @ |-> IF i \in proven
                                        THEN [@[i] EXCEPT !.status = "acknowledged"] ELSE @[i]]]
     IN /\ ctl' = c
        /\ IF d.status = "idle" /\ Dispatched(c) # {} THEN Leave("failed") ELSE To("polling")
  /\ UNCHANGED <<saved, offset, answers, launches, doubled, files, watching, rest, native>>

(* The child is admitted when first seen; then both are reported. *)
ObserveNodes ==
  /\ d.pc = "polling"
  /\ IF kid # "none" /\ ctl.child = "absent" /\ ~Guard(ctl)
     THEN Leave("failed") /\ ctl' = ctl
     ELSE LET c == IF kid = "none" THEN ctl
                   ELSE Observed(IF ctl.child = "absent" THEN [ctl EXCEPT !.child = "admitted"] ELSE ctl,
                                 d.bound, "child", IF kid = "idle" THEN "completed" ELSE "running")
          IN /\ ctl' = IF d.status \in {"running", "idle"}
                       THEN Observed(c, d.bound, "root", d.status) ELSE c
             /\ To("rooted")
  /\ UNCHANGED <<saved, offset, answers, launches, doubled, files, watching, rest, native>>

(* The view decides; a final turn in which finish was called may end.      *)
View ==
  /\ d.pc = "rooted"
  /\ ctl' = Reconciled(ctl)
  /\ IF ctl'.lifecycle = "open" THEN To(IF d.status = "idle" THEN "viewed" ELSE "loop")
     ELSE IF ctl'.reason = "explicit_finish" /\ d.status = "running" THEN To("loop")
     ELSE Leave("failed")
  /\ UNCHANGED <<saved, offset, answers, launches, doubled, files, watching, rest, native>>

(* guard_research and claim_delivery. *)
Claim ==
  /\ d.pc = "viewed"
  /\ IF Pending(ctl) = {} THEN To("loop") /\ ctl' = ctl
     ELSE LET i == CHOOSE j \in Pending(ctl) : TRUE
          IN IF Guard(ctl) /\ ctl.failures < MaxFailures
             THEN ctl' = Claimed(ctl, i) /\ d' = [d EXCEPT !.pc = "claimed", !.sending = i]
             ELSE ctl' = ctl /\ Leave("failed")
  /\ UNCHANGED <<saved, offset, answers, launches, doubled, files, watching, rest, native>>

(* observe('running'); then send guards, and writes. *)
Tell ==
  /\ d.pc = "claimed"
  /\ ctl' = Observed(ctl, d.bound, "root", "running")
  /\ To("told")
  /\ UNCHANGED <<saved, offset, answers, launches, doubled, files, watching, rest, native>>

Send ==
  /\ d.pc = "told"
  /\ IF Guard(ctl) THEN Prompted(Prompt("goal", d.sending)) ELSE Leave("failed") /\ stdin' = stdin
  /\ UNCHANGED <<ctl, saved, offset, answers, launches, doubled, files, watching, rest, nat, stdout,
                 transcript, kid, turns>>

-----------------------------------------------------------------------------
(* The finally clause. *)

(* save_state, and shutdown_native until the process is gone. *)
Shutdown ==
  /\ d.pc = "closing" /\ ~nat.alive
  /\ To("halting") /\ saved' = Saved(d)
  /\ UNCHANGED <<ctl, offset, answers, launches, doubled, files, watching, rest, native>>

(* GoalBridge.stopped: stop, then report every node. *)
StopController ==
  /\ d.pc = "halting"
  /\ ctl' = IF ~supervised THEN ctl
            ELSE Stopped(ctl, IF d.status = "stopped" THEN "operator_stop"
                              ELSE "infrastructure_blocked")
  /\ d' = IF supervised THEN [d EXCEPT !.pc = "resting root"] ELSE Off
  /\ UNCHANGED <<saved, offset, answers, launches, doubled, files, watching, rest, native>>

Rest ==
  /\ \/ /\ d.pc = "resting root"
        /\ ctl' = Observed(ctl, d.bound, "root", "stopped") /\ To("resting child")
     \/ /\ d.pc = "resting child"
        /\ ctl' = Observed(ctl, d.bound, "child", "stopped") /\ d' = Off
  /\ UNCHANGED <<saved, offset, answers, launches, doubled, files, watching, rest, native>>

(* The driver is killed; its native process reads on until it sees EOF.    *)
Kill ==
  /\ d.pc # "off" /\ supervised /\ launches < MaxLaunches
  /\ d' = Off /\ stdout' = <<>>
  /\ UNCHANGED <<ctl, saved, offset, answers, launches, doubled, files, watching, rest, nat, stdin,
                 transcript, kid, turns>>

-----------------------------------------------------------------------------
(* The host, when the experiment stopped for infrastructure. *)

Quiescent == /\ d.pc = "off" /\ ctl.lifecycle = "closed" /\ ctl.reason = "infrastructure_blocked"
             /\ ctl.child \notin ACTIVE /\ ctl.root \notin ACTIVE

(* requeue_rejected_delivery, with the refusal on record. *)
Requeue ==
  /\ Quiescent
  /\ \E i \in Dispatched(ctl) :
       /\ <<Prompt("goal", i), "refused">> \in answers
       /\ ctl' = [ctl EXCEPT !.outbox[i].status = "pending"]
  /\ UNCHANGED <<driver, files, watching, rest, native>>

(* recover_infrastructure *)
Recover ==
  /\ Quiescent /\ recoveries < MaxRecoveries /\ launches < MaxLaunches
  /\ ctl.session # 0 /\ ctl.failures < MaxFailures /\ Dispatched(ctl) = {}
  /\ ctl' = [ctl EXCEPT !.lifecycle = "open", !.reason = "none"]
  /\ recoveries' = recoveries + 1
  /\ UNCHANGED <<driver, files, watching, supervised, native>>

-----------------------------------------------------------------------------
(* The observer's tick, over a probe. *)

Status(m, k)   == IF \E r \in m : r.key = k THEN (CHOOSE r \in m : r.key = k).status ELSE "none"
Put(m, k, s)   == {r \in m : r.key # k} \cup {[key |-> k, status |-> s]}

(* Mutant: the queue is not looked at after a restart. *)
SettledByAnswer(m) ==
  {[r EXCEPT !.status =
      IF r.status \in {"pending", "queued"} /\ <<Prompt("observer", r.key), "ok">> \in answers
      THEN "acknowledged"
      ELSE IF r.status \in {"pending", "queued"} /\ <<Prompt("observer", r.key), "refused">> \in answers
      THEN "rejected" ELSE r.status] : r \in m}

(* reconcile_delivery: by the native answer, else by the queue itself.     *)
Settled(m) ==
  {[r EXCEPT !.status =
      IF r.status \in {"pending", "queued"} /\ <<Prompt("observer", r.key), "ok">> \in answers
      THEN "acknowledged"
      ELSE IF r.status \in {"pending", "queued"} /\ <<Prompt("observer", r.key), "refused">> \in answers
      THEN "rejected"
      ELSE IF r.status = "pending" /\ \E i \in 1..Len(commands) : commands[i] = Prompt("observer", r.key)
      THEN "queued" ELSE r.status] : r \in m}

(* decide and feedback_basis: an idle session, and what it idles after; a  *)
(* completed evaluation is one event, whatever the session did since.      *)
Idle  == saved.status = "idle" /\ IdleReceipt
Basis == IF evaluated THEN 1 ELSE Len(transcript) + 1

Observe(o) == obs' = o /\ UNCHANGED <<supervised, ctl, driver, files, native, evaluated,
                                      recoveries, ticks>>

Tick ==
  /\ obs.pc = "off" /\ ~supervised /\ launches > 0 /\ ticks < MaxTicks
  /\ LET m == Settled(obs.disk)
         known == Status(m, Basis)
         opened == Settled(IF known = "none" THEN Put(m, Basis, "pending") ELSE m)
         blocked == Status(opened, Basis) # "pending" \/ newer
                    \/ \E r \in opened : r.status = "queued"
     IN obs' = IF ~Idle THEN [obs EXCEPT !.mem = {}, !.disk = m]
               ELSE IF blocked THEN [obs EXCEPT !.mem = {}, !.disk = opened]
               ELSE [obs EXCEPT !.pc = "guard", !.mem = opened, !.key = Basis]
  /\ ticks' = ticks + 1
  /\ UNCHANGED <<ctl, driver, files, rest, native, evaluated>>

(* The same basis a moment later, and the benchmark lease free.            *)
Reguard ==
  /\ obs.pc = "guard"
  /\ \/ Idle /\ Basis = obs.key /\ Observe([obs EXCEPT !.pc = "intent"])
     \/ Observe([obs EXCEPT !.pc = "off", !.mem = {}, !.disk = obs.mem])

SaveIntent == obs.pc = "intent" /\ Observe([obs EXCEPT !.pc = "append", !.disk = obs.mem])

AppendCommand ==
  /\ obs.pc = "append"
  /\ commands' = Append(commands, Prompt("observer", obs.key)) /\ newer' = TRUE
  /\ obs' = [obs EXCEPT !.pc = "queued", !.mem = Put(@, obs.key, "queued")]
  /\ UNCHANGED <<ctl, driver, rest, native, evaluated, ticks>>

SaveQueued == obs.pc = "queued" /\ Observe([obs EXCEPT !.pc = "off", !.mem = {}, !.disk = obs.mem])

ObserverKilled == obs.pc # "off" /\ Observe([obs EXCEPT !.pc = "off", !.mem = {}])

Evaluate ==
  /\ ~supervised /\ ~evaluated /\ nat.streaming /\ evaluated' = TRUE
  /\ UNCHANGED <<ctl, driver, files, obs, ticks, rest, native>>

Next ==
  \/ NativeReads \/ NativeSaves \/ NativeEnds \/ NativeRestarts \/ NativeState \/ NativeDies
  \/ Child \/ Finish
  \/ Launch \/ ReadCommand \/ Command \/ Event \/ SaveState \/ Ends
  \/ Acknowledge \/ ObserveNodes \/ View \/ Claim \/ Tell \/ Send
  \/ Shutdown \/ StopController \/ Rest \/ Kill \/ Requeue \/ Recover
  \/ Tick \/ Reguard \/ SaveIntent \/ AppendCommand \/ SaveQueued \/ ObserverKilled \/ Evaluate

Spec == Init /\ [][Next]_vars

-----------------------------------------------------------------------------
(* The type invariant. *)
TypeOK ==
  /\ ctl.lifecycle \in {"open", "stopping", "closed"}
  /\ ctl.root \in ACTIVE \cup {"absent", "stopped"}
  /\ ctl.child \in ACTIVE \cup {"absent", "completed", "stopped"}
  /\ \A i \in 1..Len(ctl.outbox) : ctl.outbox[i].status \in {"pending", "dispatched", "acknowledged"}
  /\ d.status \in {"off", "starting", "ready", "running", "idle", "stopped", "failed"}
  /\ offset \in 0..Len(commands) /\ kid \in {"none", "running", "idle"}

Times(seq, p) == Cardinality({i \in 1..Len(seq) : seq[i] = p})
Heard(p) == Cardinality({i \in 1..Len(transcript) :
                           transcript[i].kind = "user" /\ transcript[i].prompt = p})

(* The controller's feedback reaches the native session at most once, for  *)
(* all that the driver is killed, restarted, refused and recovered between *)
(* the claim, the write and the transcript (GoalBridge.poll, acknowledge   *)
(* and the reviewed requeue).                                              *)
HeardOnce == \A i \in 1..Len(ctl.outbox) : Heard(Prompt("goal", i)) <= 1

(* What the controller holds of a message is true: acknowledged, it is in  *)
(* the transcript; still pending, it is not and cannot get there.          *)
ReceiptsTruthful ==
  \A i \in 1..Len(ctl.outbox) :
    LET p == Prompt("goal", i)
    IN /\ ctl.outbox[i].status = "acknowledged" => Heard(p) = 1
       /\ ctl.outbox[i].status = "pending" => Heard(p) = 0 /\ nat.unsaved # p /\ Times(stdin, p) = 0

(* The observer wakes the session at most once for one event, wherever its *)
(* tick was killed (tick: the intent is saved before the queue is written, *)
(* and both are read back).                                                *)
WokenOnce == \A i \in 1..Len(commands) : commands[i].by = "observer" => Times(commands, commands[i]) = 1

(* As long as no child starts turns of its own, a further round begins     *)
(* only when the session gave its final answer to the one before: no lost  *)
(* report of an end, no stale answer or state, and no restart makes two    *)
(* rounds of one (recovered_idle, the single message for each idle         *)
(* boundary, and the acknowledgement that comes before anything else).     *)
(* Except: agent_end is believed as it comes, so an end that was recovered *)
(* from a state while its report was on the way ends two turns.            *)
RoundsAnswered ==
  kid = "none" /\ ~doubled =>
    \A i \in 1..(Len(ctl.outbox) - 1) :
      \E u, e \in 1..Len(transcript) :
        /\ u < e /\ transcript[e].kind = "stop"
        /\ transcript[u].kind = "user" /\ transcript[u].prompt = Prompt("goal", i)
=============================================================================
