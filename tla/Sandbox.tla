-------------------------------- MODULE Sandbox --------------------------------
(***************************************************************************)
(* How the evaluator runs a candidate's process: once, for a call          *)
(* (runner.execute), or for a session of requests and replies on its pipes *)
(* (workloads/session.py).  The process is launched under a parent-death   *)
(* guard (_launch.py) and may then do anything: write what nobody asked    *)
(* for, fall silent, exit, outgrow its limits.  A session has two threads, *)
(* the caller's and a monitor that samples the process and may kill it.    *)
(*                                                                         *)
(* Abstracted: a write or read is of whole lines; of a line only what      *)
(* response() looks at is kept, the request it answers, or that it answers *)
(* none; measurements are only within or over the limits; times are only   *)
(* in time or late.                                                        *)
(***************************************************************************)
EXTENDS Integers, Sequences

CONSTANTS MaxRequests, \* bound on the requests of a session
          MaxOutput    \* bound on the lines a process writes ahead

ASSUME SandboxAssumption == MaxRequests \in Nat /\ MaxOutput \in Nat \ {0}

None  == 0  \* no request
Junk  == -1 \* a line response() refuses
Flood == -2 \* output over a limit, or a sanitizer's report

VARIABLES
  kind,      \* session, or a call whose exit code is checked or is not
  process,   \* none, forked, guarded, running, exited or reaped
  doomed,    \* it was sent SIGKILL
  code,      \* what it exited with
  pipe,      \* lines written and not read, each with the request it answers,
             \* and the request that was last begun when it was written
  buffer,    \* lines read and not taken
  failure,   \* _failure, or a call's reason
  monitor,   \* looking, sampling, striking or stopped
  stopping,  \* _monitor_stop
  late,      \* no, operation (its deadline), session (cancelled or out of wall time)
  pc, op,    \* where the caller is, in which request
  seq, pending, rows, \* _seq, _pending and operations
  raised,    \* some call has raised an error
  begun, noticed      \* history: requests begun; the last one when _failure was set

sandbox == <<process, doomed, code>>
pipes   == <<pipe, buffer>>
watch   == <<failure, monitor, stopping, noticed>>
session == <<op, seq, pending, rows, begun>>
vars    == <<kind, sandbox, pipes, watch, late, pc, session, raised>>

Alive == process \in {"forked", "guarded", "running"}

Init ==
  /\ kind \in {"session", "checked", "unchecked"}
  /\ process = "none" /\ doomed = FALSE /\ code = "none"
  /\ pipe = <<>> /\ buffer = <<>>
  /\ failure = "none" /\ monitor = "stopped" /\ stopping = FALSE /\ noticed = 0
  /\ late = "no"
  /\ pc = "new" /\ op = "none" /\ seq = 0 /\ pending = None /\ rows = <<>> /\ begun = {}
  /\ raised = FALSE

-----------------------------------------------------------------------------
(* The process. *)

(* Popen; a session that finds no isolation, or a candidate that is not    *)
(* what was registered, never starts.                                      *)
OpenSession ==
  /\ pc = "new" /\ kind = "session"
  /\ process' = "forked" /\ monitor' = "looking" /\ pc' = "idle"
  /\ UNCHANGED <<kind, doomed, code, pipes, failure, stopping, noticed, late, session, raised>>

RefuseOpen ==
  /\ pc = "new" /\ kind = "session"
  /\ pc' = "closed" /\ raised' = TRUE
  /\ UNCHANGED <<kind, sandbox, pipes, watch, late, session>>

StartCall ==
  /\ pc = "new" /\ kind # "session"
  /\ process' = "forked" /\ pc' = "run"
  /\ UNCHANGED <<kind, doomed, code, pipes, watch, late, session, raised>>

Exited(c) == process' = "exited" /\ code' = c

(* The launcher asks to be killed when its parent dies, and then looks     *)
(* whether it has died already.                                            *)
Guard ==
  /\ process = "forked" /\ ~doomed
  /\ process' = "guarded"
  /\ UNCHANGED <<kind, doomed, code, pipes, watch, late, pc, session, raised>>

Exec ==
  /\ process = "guarded" /\ ~doomed
  /\ IF pc = "dead" THEN Exited("125") ELSE process' = "running" /\ UNCHANGED code
  /\ UNCHANGED <<kind, doomed, pipes, watch, late, pc, session, raised>>

Write(id) ==
  /\ process = "running" /\ ~doomed /\ kind = "session" /\ Len(pipe) + Len(buffer) < MaxOutput
  /\ pipe' = Append(pipe, [id |-> id, at |-> seq])
  /\ UNCHANGED <<kind, sandbox, buffer, watch, late, pc, session, raised>>

Exit(c) ==
  /\ Alive /\ ~doomed
  /\ Exited(c)
  /\ UNCHANGED <<kind, doomed, pipes, watch, late, pc, session, raised>>

Die ==
  /\ Alive /\ doomed
  /\ Exited("killed")
  /\ UNCHANGED <<kind, doomed, pipes, watch, late, pc, session, raised>>

(* killpg; it finds nobody once the process has exited. *)
Signal == doomed' = (doomed \/ Alive)

Reaped == process = "exited" /\ process' = "reaped"

-----------------------------------------------------------------------------
(* The caller of a session. *)

(* _check *)
CheckFails == failure # "none" \/ late # "no"

(* Mutant: the request that is cut off leaves no row. *)
KillUnrecorded ==
  /\ pending' = None /\ rows' = rows
  /\ Signal
  /\ pc' = "reap"
  /\ UNCHANGED <<kind, process, code, op, seq, begun>>

(* kill: the pending request gets its row, and the process is killed. *)
Kill ==
  /\ rows' = IF pending = None THEN rows ELSE Append(rows, [id |-> pending, ok |-> FALSE, at |-> 0])
  /\ pending' = None
  /\ Signal
  /\ pc' = "reap"
  /\ UNCHANGED <<kind, process, code, op, seq, begun>>

Abandon == Kill /\ raised' = TRUE

Goto(label) == pc' = label /\ UNCHANGED <<kind, sandbox, session, raised>>

(* request_bytes refuses a request that is too large; its number is spent. *)
RefuseRequest ==
  /\ pc = "idle" /\ seq < MaxRequests
  /\ seq' = seq + 1 /\ raised' = TRUE
  /\ UNCHANGED <<kind, sandbox, pipes, watch, late, pc, op, pending, rows, begun>>

Begin(o) ==
  /\ pc = "idle" /\ seq < MaxRequests
  /\ seq' = seq + 1 /\ pending' = seq' /\ begun' = begun \cup {seq'} /\ op' = o
  /\ late' = IF late = "operation" THEN "no" ELSE late
  /\ pc' = "look"
  /\ UNCHANGED <<kind, sandbox, pipes, watch, rows, raised>>

(* Whatever the process has written by now was written unasked. *)
Look ==
  /\ pc = "look"
  /\ pipe' = <<>> /\ buffer' = buffer \o pipe
  /\ IF buffer' # <<>> THEN Abandon ELSE Goto("send")
  /\ UNCHANGED <<watch, late>>

(* _read_ready takes some of the lines; a flood raises at once. *)
Read ==
  \E n \in 1..Len(pipe) :
    /\ buffer' = buffer \o SubSeq(pipe, 1, n)
    /\ pipe' = SubSeq(pipe, n + 1, Len(pipe))
    /\ IF \E i \in 1..n : pipe[i].id = Flood THEN Abandon ELSE Goto(pc)

(* The request is written, or the pipe is full and what arrives is read    *)
(* meanwhile, or there is nobody to read it.                               *)
Send ==
  /\ pc = "send"
  /\ \/ CheckFails /\ Abandon /\ UNCHANGED pipes
     \/ ~CheckFails /\ ~Alive /\ Abandon /\ UNCHANGED pipes
     \/ ~CheckFails /\ Alive /\ Goto("begun") /\ UNCHANGED pipes
     \/ ~CheckFails /\ Alive /\ Read
  /\ UNCHANGED <<watch, late>>

Finish ==
  /\ pc = "begun"
  /\ Goto("wait")
  /\ UNCHANGED <<pipes, watch, late>>

(* Waiting for a line, everything is checked; at its end, checked again.   *)
Await ==
  /\ pc = "wait" /\ buffer = <<>>
  /\ \/ CheckFails /\ Abandon /\ UNCHANGED pipes
     \/ ~CheckFails /\ Read
     \/ ~CheckFails /\ pipe = <<>> /\ ~Alive /\ Abandon /\ UNCHANGED pipes
  /\ UNCHANGED <<watch, late>>

(* response: the one line there is answers the pending request.  A line    *)
(* that has been read is taken without another look at the limits.         *)
Answers == Len(buffer) = 1 /\ buffer[1].id = pending

Misanswered ==
  /\ pc = "wait" /\ buffer # <<>> /\ ~Answers
  /\ Abandon
  /\ UNCHANGED <<pipes, watch, late>>

Take(accepted) ==
  /\ pc = "wait" /\ buffer # <<>> /\ Answers
  /\ rows' = Append(rows, [id |-> pending, ok |-> TRUE, at |-> buffer[1].at])
  /\ pending' = None /\ buffer' = <<>>
  /\ IF op # "close" THEN pc' = "idle" /\ UNCHANGED <<doomed, raised>>
     ELSE IF accepted THEN pc' = "shut" /\ UNCHANGED <<doomed, raised>>
     ELSE pc' = "reap" /\ Signal /\ raised' = TRUE
  /\ UNCHANGED <<kind, process, code, pipe, watch, late, op, seq, begun>>

(* The caller kills the session between requests, or with one in flight. *)
KillOutside ==
  /\ pc \in {"idle", "begun"} /\ ~(pc = "begun" /\ op = "close")
  /\ Kill
  /\ UNCHANGED <<pipes, watch, late, raised>>

(* close: the process exits, or is killed after five seconds.  _wait, for  *)
(* close and kill alike.                                                   *)
Wait ==
  /\ pc \in {"shut", "reap"}
  /\ \/ /\ Reaped \/ (process = "reaped" /\ UNCHANGED process)
        /\ pc' = IF pc = "shut" THEN "drain" ELSE "clean"
        /\ UNCHANGED doomed
     \/ /\ Alive /\ ~doomed /\ Signal
        /\ UNCHANGED <<process, pc>>
  /\ UNCHANGED <<kind, code, pipes, watch, late, session, raised>>

(* close: nothing more was written, and the exit code is zero. *)
Drain ==
  /\ pc = "drain"
  /\ pipe' = <<>> /\ buffer' = buffer \o pipe
  /\ IF buffer' # <<>> \/ code # "zero" THEN Abandon ELSE Goto("clean")
  /\ UNCHANGED <<watch, late>>

(* _cleanup: the monitor is told to stop, and is not waited for for long. *)
Clean ==
  /\ pc = "clean"
  /\ stopping' = TRUE
  /\ Goto("join")
  /\ UNCHANGED <<pipes, failure, monitor, noticed, late>>

Join ==
  /\ pc = "join"
  /\ Goto("closed")
  /\ UNCHANGED <<pipes, watch, late>>

-----------------------------------------------------------------------------
(* The monitor of a session. *)

Sample ==
  /\ monitor = "looking"
  /\ monitor' = IF stopping THEN "stopped" ELSE "sampling"
  /\ UNCHANGED <<kind, sandbox, pipes, failure, stopping, noticed, late, pc, session, raised>>

WithinLimits ==
  /\ monitor = "sampling"
  /\ monitor' = "looking"
  /\ UNCHANGED <<kind, sandbox, pipes, failure, stopping, noticed, late, pc, session, raised>>

(* Over a limit, or not to be sampled.  The store's files can be too large *)
(* whether or not the process still runs.                                  *)
Breach ==
  /\ monitor = "sampling"
  /\ failure' \in {"limit", "monitor_failed"}
  /\ noticed' = seq
  /\ monitor' = "striking"
  /\ UNCHANGED <<kind, sandbox, pipes, stopping, late, pc, session, raised>>

Strike ==
  /\ monitor = "striking"
  /\ monitor' = "stopped"
  /\ Signal
  /\ UNCHANGED <<kind, process, code, pipes, failure, stopping, noticed, late, pc, session, raised>>

-----------------------------------------------------------------------------
(* A call: execute. *)

ExitSeen ==
  /\ pc = "run"
  /\ Reaped
  /\ pc' = "judge"
  /\ UNCHANGED <<kind, doomed, code, pipes, watch, late, session, raised>>

(* A poll finds a limit exceeded or the time gone, or breaks; the process  *)
(* is killed and waited for.                                               *)
Poll(reason) ==
  /\ pc = "run" /\ process # "exited"
  /\ reason = "timeout" <=> late # "no"
  /\ failure' = reason
  /\ Signal
  /\ pc' = "collect"
  /\ UNCHANGED <<kind, process, code, pipes, monitor, stopping, noticed, late, session, raised>>

Collect ==
  /\ pc = "collect"
  /\ Reaped
  /\ pc' = "judge"
  /\ UNCHANGED <<kind, doomed, code, pipes, watch, late, session, raised>>

(* The outputs are measured once more, and the call raises or returns. *)
Judge(oversized) ==
  /\ pc = "judge"
  /\ failure' = IF oversized /\ failure # "broken" THEN "output_limit" ELSE failure
  /\ raised' = \/ failure' # "none"
               \/ code = "125"
               \/ kind = "checked" /\ code # "zero"
  /\ pc' = "closed"
  /\ UNCHANGED <<kind, sandbox, pipes, monitor, stopping, noticed, late, session>>

-----------------------------------------------------------------------------
(* Time, and the evaluator's own death. *)

Timeout ==
  /\ late = "no" /\ pc \in {"look", "send", "begun", "wait", "run"}
  /\ late' = "operation"
  /\ UNCHANGED <<kind, sandbox, pipes, watch, pc, session, raised>>

Cancel ==
  /\ late # "session" /\ pc \notin {"new", "closed", "dead"}
  /\ late' = "session"
  /\ UNCHANGED <<kind, sandbox, pipes, watch, pc, session, raised>>

Crash ==
  /\ pc \notin {"new", "closed", "dead"}
  /\ pc' = "dead" /\ monitor' = "stopped"
  /\ doomed' = (doomed \/ process \in {"guarded", "running"})
  /\ UNCHANGED <<kind, process, code, pipes, failure, stopping, noticed, late, session, raised>>

Caller ==
  \/ Look \/ Send \/ Await \/ Misanswered \/ Wait \/ Drain \/ Clean \/ Join
  \/ \E accepted \in BOOLEAN : Take(accepted)
  \/ ExitSeen \/ (\E reason \in {"timeout", "limit", "broken"} : Poll(reason))
  \/ Collect \/ \E oversized \in BOOLEAN : Judge(oversized)

Monitor == Sample \/ WithinLimits \/ Breach \/ Strike

Next ==
  \/ OpenSession \/ RefuseOpen \/ StartCall
  \/ Guard \/ Exec \/ Die
  \/ \E id \in {Flood, Junk} \cup 1..MaxRequests : Write(id)
  \/ \E c \in {"zero", "nonzero"} : Exit(c)
  \/ RefuseRequest \/ Finish \/ KillOutside \/ \E o \in {"request", "close"} : Begin(o)
  \/ Caller \/ Monitor
  \/ Timeout \/ Cancel \/ Crash

(* The caller's and the monitor's threads run, the clock goes on, the      *)
(* kernel delivers a SIGKILL, and a launched helper reaches its exec.      *)
Fairness ==
  /\ WF_vars(Caller) /\ WF_vars(Strike) /\ WF_vars(Timeout)
  /\ WF_vars(Die) /\ WF_vars(Guard) /\ WF_vars(Exec)

Spec == Init /\ [][Next]_vars /\ Fairness

-----------------------------------------------------------------------------
(* The type invariant. *)
TypeOK ==
  /\ kind \in {"session", "checked", "unchecked"}
  /\ process \in {"none", "forked", "guarded", "running", "exited", "reaped"}
  /\ doomed \in BOOLEAN /\ code \in {"none", "zero", "nonzero", "killed", "125"}
  /\ pipe \in Seq([id : {Flood, Junk} \cup 1..MaxRequests, at : 0..MaxRequests])
  /\ failure \in {"none", "limit", "monitor_failed", "timeout", "broken", "output_limit"}
  /\ monitor \in {"looking", "sampling", "striking", "stopped"} /\ stopping \in BOOLEAN
  /\ late \in {"no", "operation", "session"}
  /\ seq \in 0..MaxRequests /\ pending \in 0..seq /\ begun \subseteq 1..seq
  /\ rows \in Seq([id : 1..MaxRequests, ok : BOOLEAN, at : 0..MaxRequests])

(* Every request that is begun has one row, in order, or is pending; an    *)
(* answer taken for it was written after it was begun, and none is taken   *)
(* for a request begun after the monitor saw a breach; what is closed is   *)
(* reaped; and what ends without an error ended well.                      *)
Accounted ==
  /\ \A i, j \in 1..Len(rows) : i < j => rows[i].id < rows[j].id
  /\ begun = {rows[i].id : i \in 1..Len(rows)} \cup ({pending} \ {None})
  /\ \A i \in 1..Len(rows) : rows[i].ok =>
       /\ rows[i].at = rows[i].id
       /\ failure # "none" => rows[i].id <= noticed
  /\ pc = "closed" => process \in {"none", "reaped"} /\ pending = None
  /\ pc = "closed" /\ ~raised =>
       /\ kind = "checked" => code = "zero"
       /\ kind # "session" => failure = "none"
       /\ kind = "session" /\ op = "close" => code = "zero" /\ pipe = <<>>

Inside == pc \notin {"new", "idle", "begun", "closed", "dead"}

(* A session or call accounts for all it was asked (Accounted), every call *)
(* returns whatever the process does, and no process outlives an evaluator *)
(* that dies (Session.begin, finish, kill and close; execute; _launch.py). *)
SessionsAccounted ==
  [](/\ Accounted
     /\ Inside => <>~Inside
     /\ pc = "dead" => <>~Alive)
=============================================================================
