--------------------------- MODULE PrimeRunnerProofs ---------------------------
(* Proofs about the supervised native session, for any bounds.              *)
EXTENDS PrimeRunner, FiniteSetTheorems, TLAPS

-----------------------------------------------------------------------------
(* Types *)

Roots    == ACTIVE \cup {"absent", "stopped"}
Children == Roots \cup {"completed"}
Message  == [status : {"pending", "dispatched", "acknowledged"}, from : Nat]
Reasons  == {"none", "attempt_limit", "explicit_finish", "operator_stop",
             "infrastructure_blocked"}
CtlType  == [lifecycle : {"open", "stopping", "closed"}, reason : Reasons,
             root : Roots, child : Children, session : Nat, seq : Nat,
             outbox : Seq(Message), failures : Nat]

Labels     == {"off", "loop", "polling", "rooted", "viewed", "claimed", "told", "closing",
               "halting", "resting root", "resting child"}
DriverType == [pc : Labels,
               status : {"off", "starting", "ready", "running", "idle", "stopped", "failed"},
               session : Nat, bound : BOOLEAN, turn : BOOLEAN, since : Nat, sending : Nat]
SavedType  == [status : {"off", "starting", "ready", "running", "idle", "stopped", "failed"},
               session : Nat, since : Nat]

Prompts    == [by : {"nobody", "host", "goal", "child", "observer"}, id : Nat]
NativeType == [alive : BOOLEAN, session : Nat, streaming : BOOLEAN, unsaved : Prompts]
ReportType == [kind : {"ok", "refused", "start", "end", "state"}, prompt : Prompts,
               streaming : BOOLEAN]
EntryType  == [kind : {"user", "stop"}, prompt : Prompts, session : Nat]

Intents == [key : Nat, status : {"pending", "queued", "acknowledged", "rejected"}]
ObserverType == [pc : {"off", "guard", "intent", "append", "queued"}, mem : SUBSET Intents,
                 disk : SUBSET Intents, key : Nat]

ControllerTyped == ctl \in CtlType
DriverTyped == /\ supervised \in BOOLEAN /\ d \in DriverType /\ saved \in SavedType
               /\ answers \subseteq Prompts \X {"ok", "refused"}
               /\ launches \in Nat
NativeTyped == /\ nat \in NativeType /\ stdin \in Seq(Prompts) /\ stdout \in Seq(ReportType)
               /\ transcript \in Seq(EntryType) /\ kid \in {"none", "running", "idle"}
FilesTyped == /\ commands \in Seq(Prompts) /\ offset \in 0 .. Len(commands)
              /\ \A i \in 1 .. Len(commands) : commands[i].by \in {"host", "observer"}
              /\ obs \in ObserverType

Typed == ControllerTyped /\ DriverTyped /\ NativeTyped /\ FilesTyped

-----------------------------------------------------------------------------
(* The controller's own steps leave its messages as they are, and post new *)
(* ones.                                                                    *)
Posts(c, e) ==
  /\ e \in CtlType /\ Len(c.outbox) <= Len(e.outbox)
  /\ \A i \in 1 .. Len(c.outbox) : e.outbox[i] = c.outbox[i]
  /\ \A i \in 1 .. Len(e.outbox) : i > Len(c.outbox) => e.outbox[i].status = "pending"

(* Nothing is posted when the messages are the same; and posting adds up.  *)
LEMMA PostsNothing ==
  ASSUME NEW c \in CtlType, NEW e \in CtlType, e.outbox = c.outbox
  PROVE  Posts(c, e)
<1>1. c.outbox \in Seq(Message)
  BY DEF CtlType
<1>. QED BY <1>1 DEF Posts

(* What was posted stays posted when more is. *)
LEMMA PostsMore ==
  ASSUME NEW c \in CtlType, NEW e, NEW f, Posts(c, e), Posts(e, f)
  PROVE  Posts(c, f)
<1>1. c.outbox \in Seq(Message) /\ e.outbox \in Seq(Message) /\ f.outbox \in Seq(Message)
  BY DEF CtlType, Posts
<1>. QED BY <1>1 DEF Posts

(* _drain and stop. *)
LEMMA StoppedPosts ==
  ASSUME NEW c \in CtlType, NEW why \in Reasons
  PROVE  /\ Drained(c) \in CtlType /\ Drained(c).outbox = c.outbox
         /\ Stopped(c, why) \in CtlType /\ Stopped(c, why).outbox = c.outbox
<1>1. ASSUME NEW e \in CtlType PROVE Drained(e) \in CtlType /\ Drained(e).outbox = e.outbox
  BY DEF Drained, CtlType
<1>2. [c EXCEPT !.lifecycle = "stopping", !.reason = why] \in CtlType
      /\ [c EXCEPT !.lifecycle = "stopping", !.reason = why].outbox = c.outbox
  BY DEF CtlType
<1>. QED BY <1>1, <1>2 DEF Stopped

(* reconcile *)
LEMMA ReconciledPosts ==
  ASSUME NEW c \in CtlType
  PROVE  Posts(c, Reconciled(c))
<1>. DEFINE new == [status |-> "pending", from |-> c.seq]
            e == [c EXCEPT !.outbox = Append(c.outbox, new)]
<1>1. c.outbox \in Seq(Message) /\ c.seq \in Nat
  BY DEF CtlType
<1>2. new \in Message
  BY <1>1 DEF Message
<1>3. Append(c.outbox, new) \in Seq(Message)
  <2>. HIDE DEF new
  <2>. QED BY <1>1, <1>2
<1>4. Posts(c, e)
  <2>1. PICK o \in Seq(Message) : o = Append(c.outbox, new)
    BY <1>3
  <2>2. [c EXCEPT !.outbox = o] \in CtlType /\ [c EXCEPT !.outbox = o].outbox = o
    BY DEF CtlType
  <2>3. new.status = "pending"
    OBVIOUS
  <2>. HIDE DEF new
  <2>. QED BY <1>1, <1>2, <2>1, <2>2, <2>3 DEF Posts
<1>5. Posts(c, c) /\ Posts(c, Drained(c)) /\ Posts(c, Stopped(c, "attempt_limit"))
  BY StoppedPosts, PostsNothing DEF Reasons
<1>6. Reconciled(c) \in {c, Drained(c), Stopped(c, "attempt_limit"), e}
  BY DEF Reconciled
<1>. QED BY <1>4, <1>5, <1>6

(* GoalBridge.observe *)
LEMMA ObservedPosts ==
  ASSUME NEW c \in CtlType, NEW bound \in BOOLEAN, NEW node \in {"root", "child"},
         NEW status \in Children, node = "root" => status \in Roots
  PROVE  Posts(c, Observed(c, bound, node, status))
<1>. DEFINE e == [c EXCEPT ![node] = status, !.seq = IF node = "root" THEN c.seq + 1 ELSE c.seq]
<1>1. e \in CtlType /\ e.outbox = c.outbox
  <2>1. PICK s \in Nat : s = IF node = "root" THEN c.seq + 1 ELSE c.seq
    BY DEF CtlType
  <2>2. CASE node = "root"
    <3>1. [c EXCEPT !.root = status, !.seq = s] \in CtlType
          /\ [c EXCEPT !.root = status, !.seq = s].outbox = c.outbox
      BY <2>2 DEF CtlType
    <3>. QED BY <2>1, <2>2, <3>1
  <2>3. CASE node = "child"
    <3>1. [c EXCEPT !.child = status, !.seq = s] \in CtlType
          /\ [c EXCEPT !.child = status, !.seq = s].outbox = c.outbox
      BY DEF CtlType
    <3>. QED BY <2>1, <2>3, <3>1
  <2>. QED BY <2>2, <2>3
<1>2. Posts(c, Reconciled(e))
  <2>. HIDE DEF e
  <2>1. Posts(e, Reconciled(e))
    BY <1>1, ReconciledPosts
  <2>. QED BY <1>1, <2>1, PostsNothing, PostsMore
<1>3. Posts(c, c)
  BY PostsNothing
<1>4. Observed(c, bound, node, status) = c \/ Observed(c, bound, node, status) = Reconciled(e)
  BY DEF Observed
<1>. QED BY <1>2, <1>3, <1>4

-----------------------------------------------------------------------------
(* Where a message of the controller can be: owed by the driver that claimed *)
(* it, on its way, taken up by the session, in the transcript, or refused.   *)
Goal(i)    == Prompt("goal", i)
Owed(i)    == d.pc \in {"claimed", "told"} /\ d.sending = i
InPipe(i)  == \E k \in 1 .. Len(stdin) : stdin[k] = Goal(i)
Taken(i)   == nat.unsaved = Goal(i)
Line(k, i) == transcript[k].kind = "user" /\ transcript[k].prompt = Goal(i)
Written(i) == \E k \in 1 .. Len(transcript) : Line(k, i)
Denied(i)  == \E k \in 1 .. Len(stdout) : stdout[k].kind = "refused" /\ stdout[k].prompt = Goal(i)
Refused(i) == <<Goal(i), "refused">> \in answers \/ Denied(i)

Sent(i)  == i \in 1 .. Len(ctl.outbox) /\ ctl.outbox[i].status # "pending"
Acked(i) == i \in 1 .. Len(ctl.outbox) /\ ctl.outbox[i].status = "acknowledged"

(* It is in one place at most, and only when it was claimed; a refused one  *)
(* is nowhere else.  It was claimed as well as long as there is a driver,   *)
(* since a refused message is requeued when there is none.                  *)
TokenInv(i) ==
  /\ Owed(i) \/ InPipe(i) \/ Taken(i) \/ Written(i) => Sent(i)
  /\ d.pc # "off" /\ Refused(i) => Sent(i)
  /\ Owed(i)   => ~InPipe(i) /\ ~Taken(i) /\ ~Written(i) /\ ~Refused(i)
  /\ InPipe(i) => ~Taken(i) /\ ~Written(i) /\ ~Refused(i)
  /\ Taken(i)  => ~Written(i) /\ ~Refused(i)
  /\ Written(i) => ~Refused(i)
  /\ Acked(i) => Written(i)
  /\ \A j, k \in 1 .. Len(stdin) : stdin[j] = Goal(i) /\ stdin[k] = Goal(i) => j = k
  /\ \A j, k \in 1 .. Len(transcript) : Line(j, i) /\ Line(k, i) => j = k

TokensInv == \A i \in Nat : TokenInv(i)

(* How a step may move it. *)
Moves(i) ==
  /\ Owed(i)' => Owed(i) \/ (~Sent(i) /\ Sent(i)' /\ d.pc # "off")
  /\ InPipe(i)' => InPipe(i) \/ (Owed(i) /\ ~Owed(i)')
  /\ Taken(i)' => Taken(i) \/ (InPipe(i) /\ ~InPipe(i)')
  /\ Written(i)' => Written(i) \/ (Taken(i) /\ ~Taken(i)')
  /\ Refused(i)' => Refused(i) \/ (InPipe(i) /\ ~InPipe(i)' /\ ~Taken(i)')
  /\ Written(i) => Written(i)'
  /\ Acked(i)' => Acked(i) \/ Written(i)
  /\ Sent(i) => Sent(i)' \/ (d.pc = "off" /\ d'.pc = "off" /\ Refused(i))
  /\ d'.pc # "off" /\ Refused(i)' => d.pc # "off"

(* The pipe and the transcript get a message only once. *)
Once(i) ==
  /\ \A j, k \in 1 .. Len(stdin') : stdin'[j] = Goal(i) /\ stdin'[k] = Goal(i) => j = k
  /\ \A j, k \in 1 .. Len(transcript') : Line(j, i)' /\ Line(k, i)' => j = k

(* A move keeps the message in one place. *)
LEMMA TokenStep ==
  ASSUME NEW i \in Nat, TokenInv(i), Moves(i), Once(i)
  PROVE  TokenInv(i)'
<1>. DEFINE O == Owed(i)  P == InPipe(i)  T == Taken(i)  W == Written(i)
            R == Refused(i)  S == Sent(i)  A == Acked(i)  U == d.pc # "off"
<1>1. /\ O \/ P \/ T \/ W => S
      /\ U /\ R => S
      /\ O => ~P /\ ~T /\ ~W /\ ~R
      /\ P => ~T /\ ~W /\ ~R
      /\ T => ~W /\ ~R
      /\ W => ~R
      /\ A => W
  BY DEF TokenInv
<1>2. O => U
  BY DEF Owed
<1>3. /\ O' => O \/ (~S /\ S' /\ U)
      /\ P' => P \/ (O /\ ~O')
      /\ T' => T \/ (P /\ ~P')
      /\ W' => W \/ (T /\ ~T')
      /\ R' => R \/ (P /\ ~P' /\ ~T')
      /\ W => W'
      /\ A' => A \/ W
      /\ S => S' \/ (~U /\ ~U' /\ R)
      /\ U' /\ R' => U
  BY DEF Moves
<1>4. /\ (O \/ P \/ T \/ W => S)'
      /\ (U /\ R => S)'
      /\ (O => ~P /\ ~T /\ ~W /\ ~R)'
      /\ (P => ~T /\ ~W /\ ~R)'
      /\ (T => ~W /\ ~R)'
      /\ (W => ~R)'
      /\ (A => W)'
  <2>. HIDE DEF O, P, T, W, R, S, A, U
  <2>. QED BY <1>1, <1>2, <1>3
<1>5. Once(i)
  OBVIOUS
<1>. QED
  BY <1>4, <1>5 DEF TokenInv, Once

(* The controller posting messages moves none. *)
LEMMA PostsSent ==
  ASSUME ctl \in CtlType, Posts(ctl, ctl'), NEW i \in Nat
  PROVE  (Sent(i)' <=> Sent(i)) /\ (Acked(i)' <=> Acked(i))
<1>1. ctl.outbox \in Seq(Message) /\ ctl'.outbox \in Seq(Message)
  BY DEF CtlType, Posts
<1>. QED BY <1>1 DEF Posts, Sent, Acked

IInv == Typed /\ TokensInv

(* Steps that touch neither the pipes nor the transcript, and at most let   *)
(* the driver forget what it owed.                                          *)
LEMMA Elsewhere ==
  ASSUME IInv, UNCHANGED <<nat, stdin, stdout, transcript, answers>>, Posts(ctl, ctl'),
         \/ d' = d
         \/ d'.pc = "off"
         \/ d.pc # "off" /\ d'.pc \notin {"claimed", "told"}
         \/ d.pc # "off" /\ d.pc \in {"claimed", "told"} /\ d'.sending = d.sending
  PROVE  TokensInv'
<1>1. SUFFICES ASSUME NEW i \in Nat PROVE TokenInv(i)'
  BY DEF TokensInv
<1>2. TokenInv(i)
  BY DEF IInv, TokensInv
<1>3. (Sent(i)' <=> Sent(i)) /\ (Acked(i)' <=> Acked(i))
  BY PostsSent DEF IInv, Typed, ControllerTyped
<1>4. Once(i)
  BY <1>2 DEF TokenInv, Once, Line
<1>5. /\ InPipe(i)' <=> InPipe(i)
      /\ Taken(i)' <=> Taken(i)
      /\ Written(i)' <=> Written(i)
      /\ Refused(i)' <=> Refused(i)
  BY DEF InPipe, Taken, Written, Line, Refused, Denied
<1>6. Owed(i)' => Owed(i)
  BY DEF Owed
<1>7. d'.pc # "off" => d.pc # "off"
  OBVIOUS
<1>8. Acked(i) => Written(i)
  BY <1>2 DEF TokenInv
<1>9. Moves(i)
  BY <1>3, <1>5, <1>6, <1>7, <1>8 DEF Moves
<1>. QED BY <1>2, <1>4, <1>9, TokenStep

(* The driver goes on to a label, or leaves its loop. *)
LEMMA ToTyped ==
  ASSUME d \in DriverType, NEW label \in Labels, To(label)
  PROVE  d' \in DriverType /\ d'.pc = label /\ d'.sending = d.sending
BY DEF DriverType, To

(* The driver leaves its loop to close its session. *)
LEMMA LeaveTyped ==
  ASSUME d \in DriverType, NEW status \in {"stopped", "failed"}, Leave(status)
  PROVE  d' \in DriverType /\ d'.pc = "closing"
BY DEF DriverType, Leave, Labels

(* A prompt sent: one more in the pipe, or the driver gives up. *)
LEMMA PromptedTyped ==
  ASSUME Typed, NEW p \in Prompts, Prompted(p)
  PROVE  /\ d' \in DriverType /\ d'.pc \in {"loop", "closing"}
         /\ stdin' \in Seq(Prompts)
         /\ stdin' = stdin \/ stdin' = Append(stdin, p)
<1>1. PICK n \in Nat : n = Len(transcript) + 1
  BY DEF Typed, NativeTyped
<1>2. [d EXCEPT !.pc = "loop", !.status = "running", !.turn = TRUE, !.since = n, !.sending = 0]
        \in DriverType
  BY DEF Typed, DriverTyped, DriverType, Labels
<1>3. stdin \in Seq(Prompts) /\ d \in DriverType
  BY DEF Typed, NativeTyped, DriverTyped
<1>4. CASE Leave("failed") /\ stdin' = stdin
  BY <1>3, <1>4, LeaveTyped
<1>5. CASE /\ stdin' = Append(stdin, p)
           /\ d' = [d EXCEPT !.pc = "loop", !.status = "running", !.turn = TRUE,
                             !.since = Len(transcript) + 1, !.sending = 0]
  <2>1. d' \in DriverType /\ d'.pc = "loop"
    BY <1>1, <1>2, <1>3, <1>5 DEF DriverType
  <2>. QED BY <1>3, <1>5, <2>1
<1>. QED BY <1>4, <1>5 DEF Prompted

(* Saved state. *)
LEMMA SavedTyped == ASSUME NEW x \in DriverType PROVE Saved(x) \in SavedType
BY DEF DriverType, SavedType, Saved

-----------------------------------------------------------------------------
(* Steps of the controller's and the driver's that move no message *)

(* finish, called by the root itself. *)
LEMMA FinishInv == ASSUME IInv, Finish PROVE IInv'
<1>1. /\ ctl \in CtlType
      /\ ctl' = [ctl EXCEPT !.lifecycle = "closed", !.reason = "explicit_finish"]
  BY DEF IInv, Typed, ControllerTyped, Finish
<1>2. ctl' \in CtlType /\ ctl'.outbox = ctl.outbox
  BY <1>1 DEF CtlType, Reasons
<1>3. TokensInv'
  BY <1>1, <1>2, Elsewhere, PostsNothing DEF Finish, driver, native
<1>. QED BY <1>2, <1>3 DEF Finish, IInv, Typed, ControllerTyped, DriverTyped, NativeTyped, FilesTyped,
                 driver, files, watching, rest, native

(* A new child, and the observer's evaluation. *)
LEMMA ChildInv == ASSUME IInv, Child \/ Evaluate PROVE IInv'
<1>1. UNCHANGED <<ctl, d, nat, stdin, stdout, transcript, answers>> /\ ctl \in CtlType
  BY DEF Child, Evaluate, driver, native, IInv, Typed, ControllerTyped
<1>2. TokensInv'
  BY <1>1, Elsewhere, PostsNothing
<1>. QED BY <1>2 DEF Child, Evaluate, IInv, Typed, ControllerTyped, DriverTyped, NativeTyped,
                 FilesTyped, driver, files, watching, rest, native

(* The host's prompt, and what the driver saves and where it ends. *)
LEMMA CommandInv == ASSUME IInv, Command PROVE IInv'
<1>1. UNCHANGED <<ctl, d, nat, stdin, stdout, transcript, answers>> /\ ctl \in CtlType
  BY DEF Command, driver, native, IInv, Typed, ControllerTyped
<1>2. TokensInv'
  BY <1>1, Elsewhere, PostsNothing
<1>3. FilesTyped'
  <2>1. Prompt("host", 0) \in Prompts /\ Prompt("host", 0).by = "host"
    BY DEF Prompts, Prompt
  <2>2. commands' = <<Prompt("host", 0)>> /\ commands = <<>> /\ offset' = offset /\ obs' = obs
    BY DEF Command, driver, watching
  <2>3. offset \in Nat /\ offset <= 0
    BY <2>2 DEF IInv, Typed, FilesTyped
  <2>. HIDE DEF Prompt
  <2>4. commands' \in Seq(Prompts) /\ Len(commands') = 1 /\ commands'[1] = Prompt("host", 0)
    BY <2>1, <2>2
  <2>. QED BY <2>1, <2>2, <2>3, <2>4 DEF IInv, Typed, FilesTyped
<1>. QED BY <1>2, <1>3 DEF Command, IInv, Typed, ControllerTyped, DriverTyped, NativeTyped,
                 driver, watching, rest, native

(* The driver saves its state. *)
LEMMA SaveStateInv == ASSUME IInv, SaveState PROVE IInv'
<1>1. UNCHANGED <<ctl, d, nat, stdin, stdout, transcript, answers>> /\ ctl \in CtlType
      /\ saved' \in SavedType
  BY SavedTyped DEF SaveState, driver, native, IInv, Typed, ControllerTyped, DriverTyped
<1>2. TokensInv'
  BY <1>1, Elsewhere, PostsNothing
<1>. QED BY <1>1, <1>2 DEF SaveState, IInv, Typed, ControllerTyped, DriverTyped, NativeTyped,
                 FilesTyped, watching, rest, native

(* The loop ends at a limit, or with an error. *)
LEMMA EndsInv == ASSUME IInv, Ends PROVE IInv'
<1>1. UNCHANGED <<ctl, nat, stdin, stdout, transcript, answers>> /\ ctl \in CtlType
      /\ d \in DriverType
  BY DEF Ends, native, IInv, Typed, ControllerTyped, DriverTyped
<1>2. d' \in DriverType /\ d'.pc = "closing" /\ d.pc # "off"
  BY <1>1, LeaveTyped DEF Ends
<1>3. TokensInv'
  BY <1>1, <1>2, Elsewhere, PostsNothing
<1>. QED BY <1>1, <1>2, <1>3 DEF Ends, IInv, Typed, ControllerTyped, DriverTyped, NativeTyped,
                 FilesTyped, files, watching, rest, native

(* poll: the nodes and the view. *)
LEMMA ObserveNodesInv == ASSUME IInv, ObserveNodes PROVE IInv'
<1>1. /\ UNCHANGED <<nat, stdin, stdout, transcript, answers>> /\ ctl \in CtlType
      /\ d \in DriverType /\ d.bound \in BOOLEAN /\ d.pc = "polling" /\ kid \in {"none", "running", "idle"}
  BY
     DEF ObserveNodes, native, IInv, Typed, ControllerTyped, DriverTyped, DriverType,
         NativeTyped
<1>2. d' \in DriverType /\ d'.pc \in {"closing", "rooted"}
  BY <1>1, LeaveTyped, ToTyped DEF ObserveNodes, Labels
<1>3. Posts(ctl, ctl')
  <2>. DEFINE a == IF ctl.child = "absent" THEN [ctl EXCEPT !.child = "admitted"] ELSE ctl
              s == IF kid = "idle" THEN "completed" ELSE "running"
              c == IF kid = "none" THEN ctl ELSE Observed(a, d.bound, "child", s)
  <2>1. a \in CtlType /\ a.outbox = ctl.outbox
    BY <1>1 DEF CtlType, Children, Roots, ACTIVE
  <2>2. s \in Children
    BY DEF Children, Roots, ACTIVE
  <2>3. Posts(ctl, a) /\ Posts(ctl, ctl)
    <3>. HIDE DEF a
    <3>. QED BY <1>1, <2>1, PostsNothing
  <2>4. Posts(ctl, c)
    <3>. HIDE DEF a, s
    <3>1. Posts(a, Observed(a, d.bound, "child", s))
      BY <1>1, <2>1, <2>2, ObservedPosts
    <3>. QED BY <1>1, <2>1, <2>3, <3>1, PostsMore
  <2>5. c \in CtlType
    BY <2>4 DEF Posts
  <2>6. d.status \in {"running", "idle"} => Posts(c, Observed(c, d.bound, "root", d.status))
    <3>. HIDE DEF c
    <3>. QED BY <1>1, <2>5, ObservedPosts DEF Children, Roots, ACTIVE
  <2>7. ctl' \in {ctl, c} \/ (d.status \in {"running", "idle"} /\ ctl' = Observed(c, d.bound, "root", d.status))
    BY DEF ObserveNodes
  <2>. HIDE DEF c
  <2>. QED BY <1>1, <2>3, <2>4, <2>6, <2>7, PostsMore
<1>4. TokensInv'
  BY <1>1, <1>2, <1>3, Elsewhere
<1>5. ctl' \in CtlType
  BY <1>3 DEF Posts
<1>. QED BY <1>2, <1>4, <1>5 DEF ObserveNodes, IInv, Typed, ControllerTyped, DriverTyped, NativeTyped,
                 FilesTyped, files, watching, rest, native

(* The controller reconciles what the driver reported. *)
LEMMA ViewInv == ASSUME IInv, View PROVE IInv'
<1>1. /\ UNCHANGED <<nat, stdin, stdout, transcript, answers>> /\ ctl \in CtlType
      /\ d \in DriverType /\ d.pc = "rooted"
  BY DEF View, native, IInv, Typed, ControllerTyped, DriverTyped
<1>2. d' \in DriverType /\ d'.pc \in {"closing", "viewed", "loop"}
  BY <1>1, LeaveTyped, ToTyped DEF View, Labels
<1>3. Posts(ctl, ctl') /\ ctl' \in CtlType
  BY <1>1, ReconciledPosts DEF View, Posts
<1>4. TokensInv'
  BY <1>1, <1>2, <1>3, Elsewhere
<1>. QED BY <1>2, <1>3, <1>4 DEF View, IInv, Typed, ControllerTyped, DriverTyped, NativeTyped,
                 FilesTyped, files, watching, rest, native

(* The driver tells the controller that the root runs. *)
LEMMA TellInv == ASSUME IInv, Tell PROVE IInv'
<1>1. /\ UNCHANGED <<nat, stdin, stdout, transcript, answers>> /\ ctl \in CtlType
      /\ d \in DriverType /\ d.pc = "claimed" /\ d.bound \in BOOLEAN
  BY DEF Tell, native, IInv, Typed, ControllerTyped, DriverTyped, DriverType
<1>2. d' \in DriverType /\ d'.pc = "told" /\ d'.sending = d.sending
  BY <1>1, ToTyped DEF Tell, Labels
<1>3. Posts(ctl, ctl') /\ ctl' \in CtlType
  <2>1. "running" \in Children /\ "running" \in Roots
    BY DEF Children, Roots, ACTIVE
  <2>2. Posts(ctl, ctl')
    BY <1>1, <2>1, ObservedPosts DEF Tell
  <2>. QED BY <2>2 DEF Posts
<1>4. TokensInv'
  BY <1>1, <1>2, <1>3, Elsewhere
<1>. QED BY <1>2, <1>3, <1>4 DEF Tell, IInv, Typed, ControllerTyped, DriverTyped, NativeTyped,
                 FilesTyped, files, watching, rest, native

(* The finally clause. *)
LEMMA ShutdownInv == ASSUME IInv, Shutdown PROVE IInv'
<1>1. /\ UNCHANGED <<ctl, nat, stdin, stdout, transcript, answers>> /\ ctl \in CtlType
      /\ d \in DriverType /\ d.pc = "closing"
  BY DEF Shutdown, native, IInv, Typed, ControllerTyped, DriverTyped
<1>2. d' \in DriverType /\ d'.pc = "halting" /\ saved' \in SavedType
  BY <1>1, ToTyped, SavedTyped DEF Shutdown, Labels
<1>3. TokensInv'
  BY <1>1, <1>2, Elsewhere, PostsNothing
<1>. QED BY <1>1, <1>2, <1>3 DEF Shutdown, IInv, Typed, ControllerTyped, DriverTyped, NativeTyped,
                 FilesTyped, files, watching, rest, native

(* A driver that is not there. *)
LEMMA OffTyped == Off \in DriverType /\ Off.pc = "off" /\ NoPrompt \in Prompts
BY DEF Off, DriverType, Labels, NoPrompt, Prompt, Prompts

(* The driver stops the controller as it closes. *)
LEMMA StopControllerInv == ASSUME IInv, StopController PROVE IInv'
<1>1. /\ UNCHANGED <<nat, stdin, stdout, transcript, answers>> /\ ctl \in CtlType
      /\ d \in DriverType /\ d.pc = "halting"
  BY DEF StopController, native, IInv, Typed, ControllerTyped, DriverTyped
<1>2. d' \in DriverType /\ d'.pc \in {"off", "resting root"}
  BY <1>1, OffTyped DEF StopController, Labels, DriverType
<1>3. Posts(ctl, ctl') /\ ctl' \in CtlType
  BY <1>1, StoppedPosts, PostsNothing DEF StopController, Reasons
<1>4. TokensInv'
  BY <1>1, <1>2, <1>3, Elsewhere
<1>. QED BY <1>2, <1>3, <1>4 DEF StopController, IInv, Typed, ControllerTyped, DriverTyped, NativeTyped,
                 FilesTyped, files, watching, rest, native

(* The driver reports its sessions stopped. *)
LEMMA RestInv == ASSUME IInv, Rest PROVE IInv'
<1>1. /\ UNCHANGED <<nat, stdin, stdout, transcript, answers>> /\ ctl \in CtlType
      /\ d \in DriverType /\ d.pc # "off" /\ d.bound \in BOOLEAN
  BY DEF Rest, native, IInv, Typed, ControllerTyped, DriverTyped, DriverType
<1>2. d' \in DriverType /\ d'.pc \in {"off", "resting child"}
  BY <1>1, ToTyped, OffTyped DEF Rest, Labels
<1>3. Posts(ctl, ctl') /\ ctl' \in CtlType
  <2>1. "stopped" \in Children /\ "stopped" \in Roots
    BY DEF Children, Roots, ACTIVE
  <2>2. Posts(ctl, ctl')
    BY <1>1, <2>1, ObservedPosts DEF Rest
  <2>. QED BY <2>2 DEF Posts
<1>4. TokensInv'
  BY <1>1, <1>2, <1>3, Elsewhere
<1>. QED BY <1>2, <1>3, <1>4 DEF Rest, IInv, Typed, ControllerTyped, DriverTyped, NativeTyped,
                 FilesTyped, files, watching, rest, native

(* The owner recovers a drained experiment. *)
LEMMA RecoverInv == ASSUME IInv, Recover PROVE IInv'
<1>1. /\ UNCHANGED <<d, nat, stdin, stdout, transcript, answers>> /\ ctl \in CtlType
      /\ ctl' = [ctl EXCEPT !.lifecycle = "open", !.reason = "none"]
  BY DEF Recover, native, driver, IInv, Typed, ControllerTyped
<1>2. ctl' \in CtlType /\ ctl'.outbox = ctl.outbox
  BY <1>1 DEF CtlType, Reasons
<1>3. TokensInv'
  BY <1>1, <1>2, Elsewhere, PostsNothing
<1>. QED BY <1>2, <1>3 DEF Recover, IInv, Typed, ControllerTyped, DriverTyped, NativeTyped,
                 FilesTyped, driver, files, watching, native

-----------------------------------------------------------------------------
(* The native process *)

(* What the native steps keep of the rest. *)
LEMMA NativeFrame ==
  ASSUME IInv, UNCHANGED <<ctl, driver, files, watching, rest>>, NativeTyped',
         \A i \in Nat : Moves(i) /\ Once(i)
  PROVE  IInv'
<1>1. Typed'
  BY
     DEF IInv, Typed, ControllerTyped, DriverTyped, FilesTyped, driver, files, watching,
         rest
<1>2. \A i \in Nat : TokenInv(i)'
  BY TokenStep DEF IInv, TokensInv
<1>. QED BY <1>1, <1>2 DEF IInv, TokensInv

(* What those steps need of the invariant. *)
LEMMA NativeFacts ==
  ASSUME IInv
  PROVE  /\ nat \in NativeType /\ stdin \in Seq(Prompts) /\ stdout \in Seq(ReportType)
         /\ transcript \in Seq(EntryType) /\ kid \in {"none", "running", "idle"}
         /\ NoPrompt \in Prompts
         /\ \A i \in Nat : TokenInv(i) /\ Goal(i).by = "goal" /\ Goal(i) # NoPrompt
BY OffTyped DEF IInv, Typed, NativeTyped, TokensInv, Goal, Prompt, NoPrompt

(* Reports that refuse nothing add no refusal. *)
LEMMA ReportedTyped ==
  ASSUME stdout \in Seq(ReportType), NEW rs \in Seq(ReportType), Reported(rs)
  PROVE  /\ stdout' \in Seq(ReportType)
         /\ \A i \in Nat : Denied(i)' => \/ Denied(i)
                                         \/ \E k \in 1 .. Len(rs) : /\ rs[k].kind = "refused"
                                                                    /\ rs[k].prompt = Goal(i)
<1>1. CASE stdout' = <<>>
  BY <1>1 DEF Denied
<1>2. CASE stdout' = stdout \o rs
  <2>1. stdout' \in Seq(ReportType)
    BY <1>2
  <2>2. ASSUME NEW i \in Nat, NEW k \in 1 .. Len(stdout'), stdout'[k].kind = "refused",
               stdout'[k].prompt = Goal(i)
        PROVE  \/ Denied(i)
               \/ \E j \in 1 .. Len(rs) : rs[j].kind = "refused" /\ rs[j].prompt = Goal(i)
    <3>1. CASE k <= Len(stdout)
      BY <1>2, <2>2, <3>1 DEF Denied
    <3>2. CASE k > Len(stdout)
      <4>1. k - Len(stdout) \in 1 .. Len(rs) /\ stdout'[k] = rs[k - Len(stdout)]
        BY <1>2, <3>2
      <4>. QED BY <2>2, <4>1
    <3>. QED BY <3>1, <3>2
  <2>. QED BY <2>1, <2>2 DEF Denied
<1>. QED BY <1>1, <1>2 DEF Reported

(* The refusals a step of the native process leaves are old, or new ones.  *)
LEMMA NothingElse ==
  ASSUME IInv, NEW i \in Nat, UNCHANGED <<ctl, driver>>
  PROVE  /\ Owed(i)' <=> Owed(i)
         /\ Sent(i)' <=> Sent(i)
         /\ Acked(i)' <=> Acked(i)
         /\ d'.pc = d.pc
         /\ Acked(i) => Written(i)
         /\ Refused(i)' <=> <<Goal(i), "refused">> \in answers \/ Denied(i)'
  BY DEF driver, Owed, Sent, Acked, Refused, IInv, TokensInv, TokenInv

(* The native process takes a prompt from its pipe. *)
LEMMA NativeReadsInv == ASSUME IInv, NativeReads PROVE IInv'
<1>. DEFINE p == stdin[1]
<1>1. /\ stdin # <<>> /\ stdin' = Tail(stdin) /\ transcript' = transcript /\ kid' = kid
      /\ UNCHANGED <<ctl, driver, files, watching, rest>>
  BY DEF NativeReads
<1>2. p \in Prompts /\ stdin' \in Seq(Prompts) /\ Len(stdin') = Len(stdin) - 1
      /\ 1 \in 1 .. Len(stdin) /\ Len(stdin) \in Nat
      /\ \A k \in 1 .. Len(stdin') : k + 1 \in 1 .. Len(stdin) /\ stdin'[k] = stdin[k + 1]
  BY <1>1, NativeFacts
<1>3. ASSUME NEW i \in Nat
      PROVE  /\ InPipe(i)' => InPipe(i) /\ p # Goal(i)
             /\ p = Goal(i) => InPipe(i)
             /\ Written(i)' <=> Written(i)
             /\ Once(i)
  <2>1. TokenInv(i)
    BY NativeFacts
  <2>2. p = Goal(i) => InPipe(i)
    BY <1>2 DEF InPipe
  <2>3. InPipe(i)' => InPipe(i) /\ p # Goal(i)
    <3>1. ASSUME NEW k \in 1 .. Len(stdin'), stdin'[k] = Goal(i)
          PROVE  InPipe(i) /\ p # Goal(i)
      <4>1. stdin[k + 1] = Goal(i) /\ k + 1 \in 1 .. Len(stdin) /\ k + 1 # 1
        BY <1>2, <3>1
      <4>. QED BY <1>2, <2>1, <4>1 DEF TokenInv, InPipe
    <3>. QED BY <3>1 DEF InPipe
  <2>4. Once(i)
    <3>1. ASSUME NEW j \in 1 .. Len(stdin'), NEW k \in 1 .. Len(stdin'), stdin'[j] = Goal(i),
                 stdin'[k] = Goal(i)
          PROVE  j = k
      <4>1. j + 1 = k + 1
        BY <1>2, <2>1, <3>1 DEF TokenInv
      <4>. QED BY <4>1
    <3>2. \A j, k \in 1 .. Len(transcript') : Line(j, i)' /\ Line(k, i)' => j = k
      BY <1>1, <2>1 DEF TokenInv, Line
    <3>. QED BY <3>1, <3>2 DEF Once
  <2>. QED BY <1>1, <2>2, <2>3, <2>4 DEF Written, Line
<1>4. CASE /\ nat' = [nat EXCEPT !.streaming = TRUE, !.unsaved = p]
           /\ Reported(<<Report("ok", p, TRUE), Report("start", NoPrompt, TRUE)>>)
  <2>. DEFINE a == Report("ok", p, TRUE)  b == Report("start", NoPrompt, TRUE)
  <2>1. a \in ReportType /\ b \in ReportType /\ a.kind = "ok" /\ b.kind = "start"
    BY <1>2, NativeFacts DEF Report, ReportType
  <2>2. stdout' \in Seq(ReportType) /\ \A i \in Nat : Denied(i)' => Denied(i)
    <3>. HIDE DEF a, b, p
    <3>1. <<a, b>> \in Seq(ReportType) /\ Len(<<a, b>>) = 2 /\ <<a, b>>[1] = a /\ <<a, b>>[2] = b
      BY <2>1
    <3>2. Reported(<<a, b>>)
      BY <1>4 DEF a, b, p
    <3>3. \A k \in 1 .. Len(<<a, b>>) : <<a, b>>[k].kind # "refused"
      BY <2>1, <3>1
    <3>. QED BY <3>1, <3>2, <3>3, NativeFacts, ReportedTyped
  <2>3. nat' \in NativeType /\ nat'.unsaved = p
    BY <1>2, <1>4, NativeFacts DEF NativeType
  <2>4. ASSUME NEW i \in Nat PROVE Moves(i) /\ Once(i)
    <3>1. Taken(i)' <=> p = Goal(i)
      BY <2>3 DEF Taken
    <3>2. Refused(i)' => Refused(i)
      BY <1>1, <2>2, NothingElse DEF Refused
    <3>. QED BY <1>1, <1>3, <3>1, <3>2, NothingElse DEF Moves
  <2>. QED BY <1>1, <1>2, <2>2, <2>3, <2>4, NativeFacts, NativeFrame DEF NativeTyped
<1>5. CASE Reports(Report("refused", p, nat.streaming)) /\ UNCHANGED nat
  <2>. DEFINE a == Report("refused", p, nat.streaming)
  <2>1. a \in ReportType /\ a.prompt = p
    BY <1>2, NativeFacts DEF Report, ReportType, NativeType
  <2>2. stdout' \in Seq(ReportType) /\ \A i \in Nat : Denied(i)' => Denied(i) \/ p = Goal(i)
    <3>. HIDE DEF a, p
    <3>1. <<a>> \in Seq(ReportType) /\ Len(<<a>>) = 1 /\ <<a>>[1] = a
      BY <2>1
    <3>2. Reported(<<a>>)
      BY <1>5 DEF a, p, Reports
    <3>3. \A i \in Nat : \A k \in 1 .. Len(<<a>>) : <<a>>[k].prompt = Goal(i) => p = Goal(i)
      BY <2>1, <3>1
    <3>. QED BY <3>1, <3>2, <3>3, NativeFacts, ReportedTyped
  <2>3. ASSUME NEW i \in Nat PROVE Moves(i) /\ Once(i)
    <3>1. Taken(i)' <=> Taken(i)
      BY <1>5 DEF Taken
    <3>2. InPipe(i) => ~Taken(i)
      BY NativeFacts DEF TokenInv
    <3>3. Refused(i)' => Refused(i) \/ (InPipe(i) /\ ~InPipe(i)' /\ ~Taken(i)')
      BY <1>1, <1>3, <2>2, <3>1, <3>2, NothingElse DEF Refused
    <3>. QED BY <1>1, <1>3, <3>1, <3>3, NothingElse DEF Moves
  <2>. QED BY <1>1, <1>2, <1>5, <2>2, <2>3, NativeFacts, NativeFrame DEF NativeTyped
<1>. QED BY <1>4, <1>5 DEF NativeReads

(* The transcript grows by an entry: one message of the controller, or none. *)
LEMMA Grows ==
  ASSUME IInv, NEW e \in EntryType, transcript' = Append(transcript, e), NEW i \in Nat,
         NEW here \in BOOLEAN, here <=> e.kind = "user" /\ e.prompt = Goal(i),
         here => ~Written(i)
  PROVE  /\ Written(i)' <=> Written(i) \/ here
         /\ \A j, k \in 1 .. Len(transcript') : Line(j, i)' /\ Line(k, i)' => j = k
<1>1. PICK n \in Nat : n = Len(transcript) + 1
  BY NativeFacts
<1>2. /\ Len(transcript') = n
      /\ n \in 1 .. Len(transcript')
      /\ transcript'[n] = e
      /\ \A k \in 1 .. Len(transcript') : (k \in 1 .. Len(transcript) \/ k = n)
      /\ \A k \in 1 .. Len(transcript) : (k \in 1 .. Len(transcript') /\ transcript'[k] = transcript[k])
  BY <1>1, NativeFacts
<1>3. Line(n, i)' <=> here
  BY <1>2 DEF Line
<1>4. ASSUME NEW k \in 1 .. Len(transcript) PROVE Line(k, i)' <=> Line(k, i)
  BY <1>2, <1>4 DEF Line
<1>5. \A j, k \in 1 .. Len(transcript) : Line(j, i) /\ Line(k, i) => j = k
  BY NativeFacts DEF TokenInv
<1>6. Written(i)' <=> Written(i) \/ here
  BY <1>2, <1>3, <1>4 DEF Written
<1>7. ASSUME NEW j \in 1 .. Len(transcript'), NEW k \in 1 .. Len(transcript'), Line(j, i)', Line(k, i)'
      PROVE  j = k
  <2>1. CASE j = n /\ k = n
    BY <2>1
  <2>2. CASE j \in 1 .. Len(transcript) /\ k \in 1 .. Len(transcript)
    BY <1>4, <1>5, <1>7, <2>2
  <2>3. CASE j = n /\ k \in 1 .. Len(transcript)
    BY <1>3, <1>4, <1>7, <2>3 DEF Written
  <2>4. CASE k = n /\ j \in 1 .. Len(transcript)
    BY <1>3, <1>4, <1>7, <2>4 DEF Written
  <2>. QED BY <1>2, <2>1, <2>2, <2>3, <2>4
<1>. QED BY <1>6, <1>7

(* The native process writes the prompt to its transcript. *)
LEMMA NativeSavesInv == ASSUME IInv, NativeSaves PROVE IInv'
<1>1. PICK e : e = Entry("user", nat.unsaved)
  OBVIOUS
<1>2. /\ nat' = [nat EXCEPT !.unsaved = NoPrompt]
      /\ transcript' = Append(transcript, e)
      /\ UNCHANGED <<ctl, driver, files, watching, rest, stdin, stdout, kid>>
  BY <1>1 DEF NativeSaves
<1>3. e \in EntryType /\ e.kind = "user" /\ e.prompt = nat.unsaved
  BY <1>1, NativeFacts DEF Entry, EntryType, NativeType
<1>4. nat' \in NativeType /\ nat'.unsaved = NoPrompt
  BY <1>2, NativeFacts DEF NativeType
<1>5. transcript' \in Seq(EntryType)
  BY <1>2, <1>3, NativeFacts
<1>6. ASSUME NEW i \in Nat PROVE Moves(i) /\ Once(i)
  <2>1. TokenInv(i) /\ Goal(i) # NoPrompt
    BY NativeFacts
  <2>2. ~Taken(i)' /\ (InPipe(i)' <=> InPipe(i)) /\ (Denied(i)' <=> Denied(i))
    BY <1>2, <1>4, <2>1 DEF Taken, InPipe, Denied
  <2>3. PICK here \in BOOLEAN : here <=> e.kind = "user" /\ e.prompt = Goal(i)
    OBVIOUS
  <2>4. here <=> Taken(i)
    BY <1>3, <2>3 DEF Taken
  <2>5. here => ~Written(i)
    BY <2>1, <2>4 DEF TokenInv
  <2>6. /\ Written(i)' <=> Written(i) \/ Taken(i)
        /\ \A j, k \in 1 .. Len(transcript') : Line(j, i)' /\ Line(k, i)' => j = k
    BY <1>2, <1>3, <2>3, <2>4, <2>5, Grows
  <2>7. Once(i)
    BY <1>2, <2>1, <2>6 DEF Once, TokenInv
  <2>. QED BY <1>2, <2>2, <2>6, <2>7, NothingElse DEF Moves, Refused
<1>. QED BY <1>2, <1>4, <1>5, <1>6, NativeFacts, NativeFrame DEF NativeTyped

(* A turn ends, in the transcript and in the pipe. *)
LEMMA NativeEndsInv == ASSUME IInv, NativeEnds PROVE IInv'
<1>1. PICK e, a : e = Entry("stop", NoPrompt) /\ a = Report("end", NoPrompt, FALSE)
  OBVIOUS
<1>2. /\ nat' = [nat EXCEPT !.streaming = FALSE]
      /\ transcript' = Append(transcript, e)
      /\ Reported(<<a>>) \/ stdout' = stdout
      /\ UNCHANGED <<ctl, driver, files, watching, rest, stdin, kid>>
  BY <1>1 DEF NativeEnds, Reports
<1>3. e \in EntryType /\ e.kind = "stop" /\ a \in ReportType /\ a.kind = "end"
  BY <1>1, NativeFacts DEF Entry, EntryType, NativeType, Report, ReportType
<1>4. nat' \in NativeType /\ nat'.unsaved = nat.unsaved
  BY <1>2, NativeFacts DEF NativeType
<1>5. stdout' \in Seq(ReportType) /\ \A i \in Nat : Denied(i)' => Denied(i)
  <2>1. CASE stdout' = stdout
    BY <2>1, NativeFacts DEF Denied
  <2>2. CASE Reported(<<a>>)
    <3>1. <<a>> \in Seq(ReportType) /\ Len(<<a>>) = 1 /\ <<a>>[1] = a
      BY <1>3
    <3>2. \A k \in 1 .. Len(<<a>>) : <<a>>[k].kind # "refused"
      BY <1>3, <3>1
    <3>. QED BY <2>2, <3>1, <3>2, NativeFacts, ReportedTyped
  <2>. QED BY <1>2, <2>1, <2>2
<1>6. transcript' \in Seq(EntryType)
  BY <1>2, <1>3, NativeFacts
<1>7. ASSUME NEW i \in Nat PROVE Moves(i) /\ Once(i)
  <2>1. TokenInv(i)
    BY NativeFacts
  <2>2. (Taken(i)' <=> Taken(i)) /\ (InPipe(i)' <=> InPipe(i))
    BY <1>2, <1>4 DEF Taken, InPipe
  <2>3. PICK here \in BOOLEAN : here <=> e.kind = "user" /\ e.prompt = Goal(i)
    OBVIOUS
  <2>4. /\ Written(i)' <=> Written(i)
        /\ \A j, k \in 1 .. Len(transcript') : Line(j, i)' /\ Line(k, i)' => j = k
    BY <1>2, <1>3, <2>3, Grows
  <2>5. Once(i)
    BY <1>2, <2>1, <2>4 DEF Once, TokenInv
  <2>. QED BY <1>2, <1>5, <2>2, <2>4, <2>5, NothingElse DEF Moves, Refused
<1>. QED BY <1>2, <1>4, <1>5, <1>6, <1>7, NativeFacts, NativeFrame DEF NativeTyped

(* Steps of the native process that keep the pipe to it and the transcript, *)
(* take up no message of the controller and refuse none.                    *)
LEMMA NativeQuiet ==
  ASSUME IInv, UNCHANGED <<ctl, driver, files, watching, rest, transcript, kid>>,
         stdin' = stdin \/ stdin' = <<>>, nat' \in NativeType,
         nat'.unsaved = nat.unsaved \/ nat'.unsaved.by # "goal",
         stdout' \in Seq(ReportType), \A i \in Nat : Denied(i)' => Denied(i)
  PROVE  IInv'
<1>1. ASSUME NEW i \in Nat PROVE Moves(i) /\ Once(i)
  <2>1. TokenInv(i) /\ Goal(i).by = "goal"
    BY NativeFacts
  <2>2. (Taken(i)' => Taken(i)) /\ (InPipe(i)' => InPipe(i)) /\ (Written(i)' <=> Written(i))
    BY <2>1 DEF Taken, InPipe, Written, Line
  <2>3. Once(i)
    BY <2>1 DEF Once, TokenInv, Line
  <2>. QED BY <2>2, <2>3, NothingElse DEF Moves, Refused
<1>2. stdin' \in Seq(Prompts)
  <2>1. <<>> \in Seq(Prompts)
    OBVIOUS
  <2>. QED BY <2>1, NativeFacts
<1>. QED BY <1>1, <1>2, NativeFacts, NativeFrame DEF NativeTyped

(* The native process starts again, reports its state, or dies. *)
LEMMA NativeRestartsInv == ASSUME IInv, NativeRestarts \/ NativeState \/ NativeDies PROVE IInv'
<1>1. ASSUME NEW a \in ReportType, a.kind \in {"start", "state"}, Reported(<<a>>)
      PROVE  stdout' \in Seq(ReportType) /\ \A i \in Nat : Denied(i)' => Denied(i)
  <2>1. <<a>> \in Seq(ReportType) /\ Len(<<a>>) = 1 /\ <<a>>[1] = a
    OBVIOUS
  <2>2. \A k \in 1 .. Len(<<a>>) : <<a>>[k].kind # "refused"
    BY <1>1, <2>1
  <2>. QED BY <1>1, <2>1, <2>2, NativeFacts, ReportedTyped
<1>2. CASE NativeRestarts
  <2>1. Report("start", NoPrompt, TRUE) \in ReportType /\ Report("start", NoPrompt, TRUE).kind = "start"
    BY NativeFacts DEF Report, ReportType
  <2>2. stdout' \in Seq(ReportType) /\ \A i \in Nat : Denied(i)' => Denied(i)
    BY <1>1, <1>2, <2>1 DEF NativeRestarts, Reports
  <2>3. Prompt("child", 0) \in Prompts /\ Prompt("child", 0).by = "child"
    BY DEF Prompt, Prompts
  <2>4. nat' \in NativeType /\ nat'.unsaved = Prompt("child", 0)
    BY <1>2, <2>3, NativeFacts DEF NativeRestarts, NativeType
  <2>. QED BY <1>2, <2>2, <2>3, <2>4, NativeQuiet DEF NativeRestarts
<1>3. CASE NativeState
  <2>1. Report("state", NoPrompt, nat.streaming) \in ReportType
        /\ Report("state", NoPrompt, nat.streaming).kind = "state"
    BY NativeFacts DEF Report, ReportType, NativeType
  <2>2. stdout' \in Seq(ReportType) /\ \A i \in Nat : Denied(i)' => Denied(i)
    BY <1>1, <1>3, <2>1 DEF NativeState, Reports
  <2>. QED BY <1>3, <2>2, NativeFacts, NativeQuiet DEF NativeState
<1>4. CASE NativeDies
  <2>1. nat' \in NativeType /\ nat'.unsaved = NoPrompt /\ NoPrompt.by = "nobody"
    BY <1>4, NativeFacts DEF NativeDies, NativeType, NoPrompt, Prompt
  <2>. QED BY <1>4, <2>1, NativeFacts, NativeQuiet DEF NativeDies, Denied
<1>. QED BY <1>2, <1>3, <1>4

-----------------------------------------------------------------------------
(* Steps that move a message *)

(* Nothing but the driver and the controller changes. *)
LEMMA SamePlaces ==
  ASSUME IInv, UNCHANGED <<nat, stdin, stdout, transcript, answers>>, NEW i \in Nat
  PROVE  /\ Once(i)
         /\ InPipe(i)' <=> InPipe(i)
         /\ Taken(i)' <=> Taken(i)
         /\ Written(i)' <=> Written(i)
         /\ Refused(i)' <=> Refused(i)
<1>1. TokenInv(i)
  BY NativeFacts
<1>2. Once(i)
  BY <1>1 DEF TokenInv, Once, Line
<1>. QED BY <1>2 DEF InPipe, Taken, Written, Line, Refused, Denied

(* What the invariant says of a message that is owed or acknowledged. *)
LEMMA TokenFacts ==
  ASSUME IInv, NEW i \in Nat
  PROVE  /\ TokenInv(i)
         /\ Acked(i) => Written(i)
         /\ Owed(i) => d.pc # "off" /\ Sent(i)
BY NativeFacts DEF TokenInv, Owed

(* The driver writes to the pipe: what it owed, or a prompt of another. *)
LEMMA PipedInv ==
  ASSUME IInv, UNCHANGED <<nat, stdout, transcript, answers>>, Posts(ctl, ctl'),
         d.pc # "off", d'.pc \in {"loop", "closing"}, NEW p \in Prompts,
         stdin' = stdin \/ stdin' = Append(stdin, p),
         p.by # "goal" \/ (d.pc \in {"claimed", "told"} /\ p = Goal(d.sending))
  PROVE  TokensInv'
<1>1. SUFFICES ASSUME stdin' = Append(stdin, p) PROVE TokensInv'
  BY Elsewhere
<1>2. PICK n \in Nat : n = Len(stdin) + 1
  BY NativeFacts
<1>3. /\ Len(stdin') = n
      /\ n \in 1 .. Len(stdin')
      /\ stdin'[n] = p
      /\ \A k \in 1 .. Len(stdin') : (k \in 1 .. Len(stdin) \/ k = n)
      /\ \A k \in 1 .. Len(stdin) : (k \in 1 .. Len(stdin') /\ stdin'[k] = stdin[k])
  BY <1>1, <1>2, NativeFacts
<1>4. SUFFICES ASSUME NEW i \in Nat PROVE TokenInv(i)'
  BY DEF TokensInv
<1>5. TokenInv(i) /\ (Acked(i) => Written(i))
  BY TokenFacts
<1>6. (Sent(i)' <=> Sent(i)) /\ (Acked(i)' <=> Acked(i))
  BY PostsSent DEF IInv, Typed, ControllerTyped
<1>7. /\ Taken(i)' <=> Taken(i)
      /\ Written(i)' <=> Written(i)
      /\ Refused(i)' <=> Refused(i)
  BY DEF Taken, Written, Line, Refused, Denied
<1>8. InPipe(i)' <=> InPipe(i) \/ p = Goal(i)
  BY <1>3 DEF InPipe
<1>9. p = Goal(i) => Owed(i)
  BY DEF Owed, Goal, Prompt
<1>10. ~Owed(i)'
  BY DEF Owed
<1>11. Once(i)
  <2>1. ASSUME NEW j \in 1 .. Len(stdin'), NEW k \in 1 .. Len(stdin'),
               stdin'[j] = Goal(i), stdin'[k] = Goal(i)
        PROVE  j = k
    <3>1. CASE j = n /\ k = n
      BY <3>1
    <3>2. CASE j \in 1 .. Len(stdin) /\ k \in 1 .. Len(stdin)
      BY <1>3, <1>5, <2>1, <3>2 DEF TokenInv
    <3>3. CASE (j = n /\ k \in 1 .. Len(stdin)) \/ (k = n /\ j \in 1 .. Len(stdin))
      <4>1. p = Goal(i) /\ InPipe(i)
        BY <1>3, <2>1, <3>3 DEF InPipe
      <4>. QED BY <1>5, <1>9, <4>1 DEF TokenInv
    <3>. QED BY <1>3, <3>1, <3>2, <3>3
  <2>2. \A j, k \in 1 .. Len(transcript') : Line(j, i)' /\ Line(k, i)' => j = k
    BY <1>5 DEF TokenInv, Line
  <2>. QED BY <2>1, <2>2 DEF Once
<1>12. Moves(i)
  BY <1>5, <1>6, <1>7, <1>8, <1>9, <1>10 DEF Moves
<1>. QED BY <1>5, <1>11, <1>12, TokenStep

(* send of the feedback, and of a line of the command file. *)
LEMMA SendInv == ASSUME IInv, Send PROVE IInv'
<1>1. /\ UNCHANGED <<ctl, nat, stdout, transcript, answers>> /\ ctl \in CtlType
      /\ d \in DriverType /\ d.pc = "told" /\ d.sending \in Nat
  BY DEF Send, IInv, Typed, ControllerTyped, DriverTyped, DriverType
<1>2. PICK p : p = Goal(d.sending)
  OBVIOUS
<1>3. p \in Prompts
  BY <1>1, <1>2 DEF Goal, Prompt, Prompts
<1>4. /\ d' \in DriverType /\ d'.pc \in {"loop", "closing"} /\ stdin' \in Seq(Prompts)
      /\ stdin' = stdin \/ stdin' = Append(stdin, p)
  <2>1. CASE Prompted(p)
    BY <1>3, <2>1, PromptedTyped DEF IInv
  <2>2. CASE Leave("failed") /\ stdin' = stdin
    BY <1>1, <2>2, LeaveTyped, NativeFacts
  <2>. QED BY <1>2, <2>1, <2>2 DEF Send, Goal
<1>5. TokensInv'
  BY <1>1, <1>2, <1>3, <1>4, PostsNothing, PipedInv
<1>. QED BY <1>1, <1>4, <1>5 DEF Send, IInv, Typed, ControllerTyped, DriverTyped, NativeTyped,
                 FilesTyped, files, watching, rest

(* The driver reads the next line of the command file. *)
LEMMA ReadCommandInv == ASSUME IInv, ReadCommand PROVE IInv'
<1>1. /\ UNCHANGED <<nat, stdout, transcript, answers>> /\ ctl \in CtlType
      /\ d \in DriverType /\ d.pc = "loop" /\ offset' = offset + 1 /\ offset < Len(commands)
  BY DEF ReadCommand, IInv, Typed, ControllerTyped, DriverTyped
<1>2. PICK p : p = commands[offset + 1]
  OBVIOUS
<1>3. offset' \in 0 .. Len(commands) /\ p \in Prompts /\ p.by # "goal"
  BY <1>1, <1>2 DEF IInv, Typed, FilesTyped
<1>4. /\ d' \in DriverType /\ d'.pc \in {"loop", "closing"} /\ stdin' \in Seq(Prompts)
      /\ stdin' = stdin \/ stdin' = Append(stdin, p)
  <2>1. CASE Prompted(p)
    BY <1>3, <2>1, PromptedTyped DEF IInv
  <2>2. CASE Leave("failed") /\ stdin' = stdin
    BY <1>1, <2>2, LeaveTyped, NativeFacts
  <2>. QED BY <1>2, <2>1, <2>2 DEF ReadCommand
<1>5. Posts(ctl, ctl') /\ ctl' \in CtlType
  <2>1. "running" \in Children /\ "running" \in Roots
    BY DEF Children, Roots, ACTIVE
  <2>2. ctl' = ctl \/ ctl' = Observed(ctl, TRUE, "root", "running")
    BY DEF ReadCommand
  <2>3. Posts(ctl, ctl')
    BY <1>1, <2>1, <2>2, ObservedPosts, PostsNothing
  <2>. QED BY <2>3 DEF Posts
<1>6. TokensInv'
  BY <1>1, <1>3, <1>4, <1>5, PipedInv
<1>. QED BY <1>1, <1>3, <1>4, <1>5, <1>6 DEF ReadCommand, IInv, Typed, ControllerTyped, DriverTyped,
                 NativeTyped, FilesTyped, files, watching, rest

(* acknowledge: only what is proven, and that is written. *)
LEMMA AcknowledgeInv == ASSUME IInv, Acknowledge PROVE IInv'
<1>1. PICK proven, box : /\ proven = {i \in Dispatched(ctl) : Proven(i)}
                         /\ box = [i \in DOMAIN ctl.outbox |->
                                     IF i \in proven
                                     THEN [ctl.outbox[i] EXCEPT !.status = "acknowledged"]
                                     ELSE ctl.outbox[i]]
  OBVIOUS
<1>2. /\ UNCHANGED <<nat, stdin, stdout, transcript, answers>> /\ ctl \in CtlType
      /\ d \in DriverType /\ d.pc = "loop" /\ ctl' = [ctl EXCEPT !.outbox = box]
  BY <1>1 DEF Acknowledge, Polls, native, IInv, Typed, ControllerTyped, DriverTyped
<1>3. d' \in DriverType /\ d'.pc \in {"closing", "polling"}
  BY <1>2, LeaveTyped, ToTyped DEF Acknowledge, Labels
<1>4. ctl.outbox \in Seq(Message) /\ DOMAIN ctl.outbox = 1 .. Len(ctl.outbox)
      /\ Len(ctl.outbox) \in Nat
  BY <1>2 DEF CtlType
<1>5. /\ box \in Seq(Message) /\ Len(box) = Len(ctl.outbox)
      /\ \A i \in 1 .. Len(ctl.outbox) :
           box[i].status = IF i \in proven THEN "acknowledged" ELSE ctl.outbox[i].status
  <2>1. ASSUME NEW i \in 1 .. Len(ctl.outbox)
        PROVE  /\ box[i] \in Message
               /\ box[i].status = IF i \in proven THEN "acknowledged" ELSE ctl.outbox[i].status
    <3>1. ctl.outbox[i] \in Message
      BY <1>4
    <3>2. [ctl.outbox[i] EXCEPT !.status = "acknowledged"] \in Message
          /\ [ctl.outbox[i] EXCEPT !.status = "acknowledged"].status = "acknowledged"
      BY <3>1 DEF Message
    <3>. QED BY <1>1, <1>4, <3>1, <3>2
  <2>2. box \in [1 .. Len(ctl.outbox) -> Message]
    BY <1>1, <1>4, <2>1
  <2>3. box \in Seq(Message) /\ Len(box) = Len(ctl.outbox)
    BY <1>4, <2>2
  <2>. QED BY <2>1, <2>3
<1>6. ctl' \in CtlType /\ ctl'.outbox = box
  BY <1>2, <1>5 DEF CtlType
<1>7. ASSUME NEW i \in Nat PROVE TokenInv(i)'
  <2>1. TokenInv(i) /\ (Acked(i) => Written(i)) /\ (Owed(i) => d.pc # "off" /\ Sent(i))
    BY TokenFacts
  <2>2. i \in proven => Sent(i) /\ Written(i)
    BY <1>1 DEF Dispatched, Sent, Proven, Says, Written, Line, Goal
  <2>3. Sent(i)' <=> Sent(i)
    BY <1>4, <1>5, <1>6, <2>2 DEF Sent
  <2>4. Acked(i)' => Acked(i) \/ Written(i)
    BY <1>4, <1>5, <1>6, <2>2 DEF Acked
  <2>5. ~Owed(i)'
    BY <1>3 DEF Owed
  <2>6. Moves(i) /\ Once(i)
    BY <1>2, <2>1, <2>3, <2>4, <2>5, SamePlaces DEF Moves
  <2>. QED BY <2>1, <2>6, TokenStep
<1>. QED BY <1>3, <1>6, <1>7 DEF Acknowledge, IInv, TokensInv, Typed, ControllerTyped, DriverTyped,
                 NativeTyped, FilesTyped, files, watching, rest, native

(* A message claimed is owed. *)
LEMMA ClaimInv == ASSUME IInv, Claim PROVE IInv'
<1>1. /\ UNCHANGED <<nat, stdin, stdout, transcript, answers>> /\ ctl \in CtlType
      /\ d \in DriverType /\ d.pc = "viewed"
  BY DEF Claim, native, IInv, Typed, ControllerTyped, DriverTyped
<1>2. PICK i : i = CHOOSE j \in Pending(ctl) : TRUE
  OBVIOUS
<1>3. CASE ctl' = ctl /\ (To("loop") \/ Leave("failed"))
  <2>1. d' \in DriverType /\ d'.pc \in {"closing", "loop"}
    BY <1>1, <1>3, LeaveTyped, ToTyped DEF Labels
  <2>2. TokensInv'
    BY <1>1, <1>3, <2>1, Elsewhere, PostsNothing
  <2>. QED BY <1>3, <2>1, <2>2 DEF Claim, IInv, Typed, ControllerTyped, DriverTyped, NativeTyped,
                   FilesTyped, files, watching, rest, native
<1>4. CASE /\ Pending(ctl) # {} /\ ctl' = Claimed(ctl, i)
           /\ d' = [d EXCEPT !.pc = "claimed", !.sending = i]
  <2>1. i \in 1 .. Len(ctl.outbox) /\ ctl.outbox[i].status = "pending"
    <3>1. i \in Pending(ctl)
      BY <1>2, <1>4
    <3>. QED BY <3>1 DEF Pending
  <2>2. PICK box, n : /\ box = [ctl.outbox EXCEPT ![i] = [ctl.outbox[i] EXCEPT !.status = "dispatched"]]
                      /\ n = ctl.failures + 1
    OBVIOUS
  <2>3. ctl' = [ctl EXCEPT !.outbox = box, !.failures = n] /\ n \in Nat
    BY <1>1, <1>4, <2>2 DEF Claimed, CtlType
  <2>4. /\ box \in Seq(Message) /\ Len(box) = Len(ctl.outbox) /\ box[i].status = "dispatched"
        /\ \A j \in 1 .. Len(ctl.outbox) : j # i => box[j] = ctl.outbox[j]
    <3>1. PICK m : m = [ctl.outbox[i] EXCEPT !.status = "dispatched"]
      OBVIOUS
    <3>2. ctl.outbox \in Seq(Message) /\ Len(ctl.outbox) \in Nat
      BY <1>1 DEF CtlType
    <3>3. m \in Message /\ m.status = "dispatched"
      <4>1. ctl.outbox[i] \in Message
        BY <1>1, <2>1, <3>2
      <4>. QED BY <3>1, <4>1 DEF Message
    <3>4. box = [ctl.outbox EXCEPT ![i] = m]
      BY <2>2, <3>1
    <3>. QED BY <1>1, <2>1, <3>2, <3>3, <3>4
  <2>5. ctl' \in CtlType /\ ctl'.outbox = box
    BY <1>1, <2>3, <2>4 DEF CtlType
  <2>6. i \in Nat
    BY <1>1, <2>1 DEF CtlType
  <2>7. d' \in DriverType /\ d'.pc = "claimed" /\ d'.sending = i
    BY <1>1, <1>4, <2>6 DEF DriverType, Labels
  <2>8. ASSUME NEW j \in Nat PROVE TokenInv(j)'
    <3>1. TokenInv(j) /\ (Acked(j) => Written(j)) /\ (Owed(j) => d.pc # "off" /\ Sent(j))
      BY TokenFacts
    <3>2. Owed(j)' => ~Sent(j) /\ Sent(j)'
      BY <2>1, <2>4, <2>5, <2>7 DEF Owed, Sent
    <3>3. Sent(j) => Sent(j)'
      BY <2>1, <2>4, <2>5 DEF Sent
    <3>4. Acked(j)' => Acked(j)
      BY <2>1, <2>4, <2>5 DEF Acked
    <3>5. ~Owed(j)
      BY <1>1 DEF Owed
    <3>6. Moves(j) /\ Once(j)
      BY <1>1, <2>7, <3>1, <3>2, <3>3, <3>4, <3>5, SamePlaces DEF Moves
    <3>. QED BY <3>1, <3>6, TokenStep
  <2>. QED BY <2>5, <2>7, <2>8 DEF Claim, IInv, TokensInv, Typed, ControllerTyped, DriverTyped,
                   NativeTyped, FilesTyped, files, watching, rest, native
<1>. QED BY <1>2, <1>3, <1>4 DEF Claim

(* The host requeues what was refused, when no driver is there. *)
LEMMA RequeueInv == ASSUME IInv, Requeue PROVE IInv'
<1>1. /\ UNCHANGED <<d, nat, stdin, stdout, transcript, answers>> /\ ctl \in CtlType
      /\ d.pc = "off"
  BY DEF Requeue, Quiescent, native, driver, IInv, Typed, ControllerTyped, DriverTyped
<1>2. PICK i \in Dispatched(ctl) :
        /\ <<Prompt("goal", i), "refused">> \in answers
        /\ ctl' = [ctl EXCEPT !.outbox[i].status = "pending"]
  BY DEF Requeue
<1>3. PICK box : box = [ctl.outbox EXCEPT ![i] = [ctl.outbox[i] EXCEPT !.status = "pending"]]
  OBVIOUS
<1>4. i \in 1 .. Len(ctl.outbox) /\ ctl.outbox[i].status = "dispatched"
  BY DEF Dispatched
<1>5. ctl' = [ctl EXCEPT !.outbox = box]
  BY <1>2, <1>3
<1>6. /\ box \in Seq(Message) /\ Len(box) = Len(ctl.outbox) /\ box[i].status = "pending"
      /\ \A j \in 1 .. Len(ctl.outbox) : j # i => box[j] = ctl.outbox[j]
  <2>1. PICK m : m = [ctl.outbox[i] EXCEPT !.status = "pending"]
    OBVIOUS
  <2>2. ctl.outbox \in Seq(Message) /\ Len(ctl.outbox) \in Nat
    BY <1>1 DEF CtlType
  <2>3. m \in Message /\ m.status = "pending"
    <3>1. ctl.outbox[i] \in Message
      BY <1>1, <1>4, <2>2
    <3>. QED BY <2>1, <3>1 DEF Message
  <2>4. box = [ctl.outbox EXCEPT ![i] = m]
    BY <1>3, <2>1
  <2>. QED BY <1>1, <1>4, <2>2, <2>3, <2>4
<1>7. ctl' \in CtlType /\ ctl'.outbox = box
  BY <1>1, <1>5, <1>6 DEF CtlType
<1>8. ASSUME NEW j \in Nat PROVE TokenInv(j)'
  <2>1. TokenInv(j) /\ (Acked(j) => Written(j))
    BY TokenFacts
  <2>2. ~Owed(j) /\ ~Owed(j)'
    BY <1>1 DEF Owed
  <2>3. j = i => Refused(j)
    BY <1>2 DEF Refused, Goal
  <2>4. Sent(j) => Sent(j)' \/ Refused(j)
    BY <1>4, <1>6, <1>7, <2>3 DEF Sent
  <2>5. Acked(j)' => Acked(j)
    BY <1>4, <1>6, <1>7 DEF Acked
  <2>6. Moves(j) /\ Once(j)
    BY <1>1, <2>1, <2>2, <2>4, <2>5, SamePlaces DEF Moves
  <2>. QED BY <2>1, <2>6, TokenStep
<1>. QED BY <1>1, <1>7, <1>8 DEF Requeue, IInv, TokensInv, Typed, ControllerTyped, DriverTyped,
                 NativeTyped, FilesTyped, driver, files, watching, rest, native

(* The driver is gone, and with it what it owed and the reports to it. *)
LEMMA KillInv == ASSUME IInv, Kill PROVE IInv'
<1>1. /\ UNCHANGED <<ctl, nat, stdin, transcript, answers, saved, offset, launches, files, watching,
                     rest, kid>>
      /\ d' = Off /\ stdout' = <<>>
  BY DEF Kill
<1>2. ASSUME NEW i \in Nat PROVE TokenInv(i)'
  <2>1. TokenInv(i) /\ (Acked(i) => Written(i))
    BY TokenFacts
  <2>2. ~Owed(i)' /\ d'.pc = "off" /\ ~Denied(i)'
    BY <1>1, OffTyped DEF Owed, Denied
  <2>3. /\ InPipe(i)' <=> InPipe(i)
        /\ Taken(i)' <=> Taken(i)
        /\ Written(i)' <=> Written(i)
        /\ Sent(i)' <=> Sent(i)
        /\ Acked(i)' <=> Acked(i)
        /\ Refused(i)' => Refused(i)
    BY <1>1, <2>2 DEF InPipe, Taken, Written, Line, Sent, Acked, Refused
  <2>4. Moves(i)
    BY <2>1, <2>2, <2>3 DEF Moves
  <2>5. Once(i)
    BY <1>1, <2>1 DEF TokenInv, Once, Line
  <2>. QED BY <2>1, <2>4, <2>5, TokenStep
<1>3. stdout' \in Seq(ReportType)
  <2>1. <<>> \in Seq(ReportType)
    OBVIOUS
  <2>. QED BY <1>1, <2>1
<1>. QED BY <1>1, <1>2, <1>3, OffTyped DEF IInv, TokensInv, Typed, ControllerTyped, DriverTyped,
                 NativeTyped, FilesTyped, files, watching, rest

(* main up to the loop: a new driver finds the pipes empty. *)
LEMMA LaunchInv == ASSUME IInv, Launch PROVE IInv'
<1>1. /\ ctl \in CtlType /\ d \in DriverType /\ d.pc = "off" /\ saved \in SavedType
      /\ launches \in Nat /\ launches' = launches + 1 /\ supervised \in BOOLEAN
      /\ UNCHANGED <<watching, rest, transcript, kid>>
  BY DEF Launch, IInv, Typed, ControllerTyped, DriverTyped
<1>2. PICK c : c = Reconciled(ctl)
  OBVIOUS
<1>3. Posts(ctl, c) /\ c \in CtlType
  BY <1>1, <1>2, ReconciledPosts DEF Posts
<1>4. Posts(ctl, ctl') /\ ctl' \in CtlType
  <2>1. ctl' \in {ctl, c, [c EXCEPT !.root = "admitted"]}
    BY <1>2 DEF Launch
  <2>2. [c EXCEPT !.root = "admitted"] \in CtlType /\ [c EXCEPT !.root = "admitted"].outbox = c.outbox
    BY <1>3 DEF CtlType, Children, Roots, ACTIVE
  <2>3. Posts(c, [c EXCEPT !.root = "admitted"])
    BY <1>3, <2>2, PostsNothing
  <2>4. Posts(ctl, ctl')
    BY <1>1, <1>3, <2>1, <2>3, PostsNothing, PostsMore
  <2>. QED BY <2>4 DEF Posts
<1>5. CASE UNCHANGED <<d, saved, nat, stdin, stdout, files, offset, answers>>
  <2>1. TokensInv'
    BY <1>1, <1>4, <1>5, Elsewhere
  <2>. QED BY <1>1, <1>4, <1>5, <2>1 DEF IInv, Typed, ControllerTyped, DriverTyped, NativeTyped,
                   FilesTyped, files, watching, rest
<1>6. CASE \E resumed \in BOOLEAN :
             /\ d' = [Off EXCEPT !.pc = "loop", !.status = "starting",
                                 !.session = IF resumed THEN saved.session ELSE 0,
                                 !.turn = resumed /\ saved.status = "running" /\ saved.since > 0,
                                 !.since = IF resumed THEN saved.since ELSE 0]
             /\ nat' = [alive |-> TRUE, streaming |-> FALSE, unsaved |-> NoPrompt,
                        session |-> IF resumed THEN saved.session ELSE launches + 1]
             /\ stdin' = <<>> /\ stdout' = <<>>
             /\ commands' = <<>> /\ newer' = FALSE /\ offset' = 0 /\ answers' = {}
             /\ saved' = Saved(d')
  <2>1. PICK session \in Nat, since \in Nat, turn \in BOOLEAN, own \in Nat :
          /\ d' = [Off EXCEPT !.pc = "loop", !.status = "starting", !.session = session,
                              !.turn = turn, !.since = since]
          /\ nat' = [alive |-> TRUE, streaming |-> FALSE, unsaved |-> NoPrompt, session |-> own]
    <3>1. PICK resumed \in BOOLEAN :
             /\ d' = [Off EXCEPT !.pc = "loop", !.status = "starting",
                                 !.session = IF resumed THEN saved.session ELSE 0,
                                 !.turn = resumed /\ saved.status = "running" /\ saved.since > 0,
                                 !.since = IF resumed THEN saved.since ELSE 0]
             /\ nat' = [alive |-> TRUE, streaming |-> FALSE, unsaved |-> NoPrompt,
                        session |-> IF resumed THEN saved.session ELSE launches + 1]
      BY <1>6
    <3>2. /\ (IF resumed THEN saved.session ELSE 0) \in Nat
          /\ (IF resumed THEN saved.since ELSE 0) \in Nat
          /\ (resumed /\ saved.status = "running" /\ saved.since > 0) \in BOOLEAN
          /\ (IF resumed THEN saved.session ELSE launches + 1) \in Nat
      BY <1>1 DEF SavedType
    <3>. QED BY <3>1, <3>2
  <2>2. d' \in DriverType /\ d'.pc = "loop"
    BY <2>1 DEF Off, DriverType, Labels
  <2>3. nat' \in NativeType /\ nat'.unsaved = NoPrompt
    BY <2>1, NativeFacts DEF NativeType
  <2>4. /\ stdin' = <<>> /\ stdout' = <<>> /\ commands' = <<>> /\ offset' = 0 /\ answers' = {}
        /\ saved' \in SavedType
    BY <1>6, <2>2, SavedTyped
  <2>5. ASSUME NEW i \in Nat PROVE TokenInv(i)'
    <3>1. TokenInv(i) /\ (Acked(i) => Written(i)) /\ Goal(i) # NoPrompt
      BY TokenFacts, NativeFacts
    <3>2. (Sent(i)' <=> Sent(i)) /\ (Acked(i)' <=> Acked(i))
      BY <1>1, <1>4, PostsSent
    <3>3. ~Owed(i)' /\ ~InPipe(i)' /\ ~Taken(i)' /\ ~Refused(i)'
      BY <2>2, <2>3, <2>4, <3>1 DEF Owed, InPipe, Taken, Refused, Denied
    <3>4. Written(i)' <=> Written(i)
      BY <1>1 DEF Written, Line
    <3>5. Moves(i)
      BY <3>1, <3>2, <3>3, <3>4 DEF Moves
    <3>6. Once(i)
      BY <1>1, <2>4, <3>1 DEF TokenInv, Once, Line
    <3>. QED BY <3>1, <3>5, <3>6, TokenStep
  <2>6. <<>> \in Seq(Prompts) /\ <<>> \in Seq(ReportType) /\ Len(<<>>) = 0
    OBVIOUS
  <2>7. ControllerTyped' /\ DriverTyped' /\ NativeTyped'
    BY <1>1, <1>4, <2>2, <2>3, <2>4, <2>6, NativeFacts
    DEF ControllerTyped, DriverTyped, NativeTyped, rest
  <2>8. FilesTyped'
    BY <1>1, <2>4, <2>6 DEF IInv, Typed, FilesTyped, watching
  <2>. QED BY <2>5, <2>7, <2>8 DEF IInv, TokensInv, Typed
<1>7. (supervised /\ saved.session # 0) \in BOOLEAN
  OBVIOUS
<1>. QED BY <1>5, <1>6, <1>7 DEF Launch

(* A report is read: a refusal goes on record. *)
LEMMA EventInv == ASSUME IInv, Event PROVE IInv'
<1>1. PICK e : e = stdout[1]
  OBVIOUS
<1>2. /\ ctl \in CtlType /\ d \in DriverType /\ d.pc = "loop"
      /\ stdout # <<>> /\ stdout' = Tail(stdout)
      /\ UNCHANGED <<saved, offset, launches, files, watching, rest, nat, stdin, transcript, kid>>
  BY DEF Event, IInv, Typed, ControllerTyped, DriverTyped
<1>3. /\ e \in ReportType /\ stdout' \in Seq(ReportType)
      /\ \A k \in 1 .. Len(stdout') : (k + 1 \in 1 .. Len(stdout) /\ stdout'[k] = stdout[k + 1])
      /\ 1 \in 1 .. Len(stdout)
  BY <1>1, <1>2, NativeFacts
<1>4. ctl' = ctl \/ ctl' = [ctl EXCEPT !.session = nat.session]
  BY <1>1 DEF Event
<1>5. ctl' \in CtlType /\ ctl'.outbox = ctl.outbox
  <2>1. nat.session \in Nat
    BY NativeFacts DEF NativeType
  <2>. QED BY <1>2, <1>4, <2>1 DEF CtlType
<1>6. d' \in DriverType /\ d'.pc \in {"loop", "closing"}
  <2>1. CASE Leave("failed")
    BY <1>2, <2>1, LeaveTyped
  <2>2. CASE d' = [d EXCEPT !.status = "running", !.turn = TRUE,
                            !.since = IF d.turn THEN d.since ELSE Len(transcript) + 1]
    <3>1. PICK n : n = IF d.turn THEN d.since ELSE Len(transcript) + 1
      OBVIOUS
    <3>2. n \in Nat
      BY <1>2, <3>1, NativeFacts DEF DriverType
    <3>3. d' = [d EXCEPT !.status = "running", !.turn = TRUE, !.since = n]
      BY <2>2, <3>1
    <3>. QED BY <1>2, <3>2, <3>3 DEF DriverType
  <2>3. CASE d' = [d EXCEPT !.status = "idle", !.turn = FALSE] \/ d' = d
    BY <1>2, <2>3 DEF DriverType
  <2>4. CASE d' = Verified(e)
    <3>1. PICK session \in Nat, bound \in BOOLEAN, turn \in BOOLEAN,
               status \in {"off", "starting", "ready", "running", "idle", "stopped", "failed"} :
            d' = [d EXCEPT !.session = session, !.bound = bound, !.status = status, !.turn = turn]
      <4>1. PICK status, idle : /\ status = IF d.status # "starting" THEN d.status
                                            ELSE IF d.turn \/ e.streaming THEN "running" ELSE "ready"
                                /\ idle = RecoveredIdle(e, status)
        OBVIOUS
      <4>2. d' = [d EXCEPT !.session = nat.session, !.bound = supervised,
                           !.status = IF idle THEN "idle" ELSE status, !.turn = ~idle /\ d.turn]
        BY <2>4, <4>1 DEF Verified
      <4>3. nat.session \in Nat /\ supervised \in BOOLEAN
        BY NativeFacts DEF NativeType, IInv, Typed, DriverTyped
      <4>4. (IF idle THEN "idle" ELSE status)
               \in {"off", "starting", "ready", "running", "idle", "stopped", "failed"}
        BY <1>2, <4>1 DEF DriverType
      <4>. QED BY <4>2, <4>3, <4>4, ZenonT(60)
    <3>. QED BY <1>2, <3>1 DEF DriverType
  <2>. QED BY <1>1, <1>2, <1>3, <2>1, <2>2, <2>3, <2>4 DEF Event, ReportType
<1>7. /\ answers' \subseteq Prompts \X {"ok", "refused"}
      /\ \A i \in Nat : <<Goal(i), "refused">> \in answers' => Refused(i)
  <2>1. answers' = answers \/ (/\ e.kind \in {"ok", "refused"}
                              /\ answers' = answers \cup {<<e.prompt, e.kind>>})
    BY <1>1 DEF Event
  <2>2. e.kind \in {"ok", "refused"} => <<e.prompt, e.kind>> \in Prompts \X {"ok", "refused"}
    BY <1>3 DEF ReportType
  <2>3. answers \subseteq Prompts \X {"ok", "refused"}
    BY DEF IInv, Typed, DriverTyped
  <2>4. ASSUME NEW i \in Nat, <<Goal(i), "refused">> = <<e.prompt, e.kind>> PROVE Denied(i)
    <3>1. e.kind = "refused" /\ e.prompt = Goal(i)
      BY <2>4
    <3>. QED BY <1>1, <1>3, <3>1 DEF Denied
  <2>5. answers' \subseteq Prompts \X {"ok", "refused"}
    BY <2>1, <2>2, <2>3
  <2>6. ASSUME NEW i \in Nat, <<Goal(i), "refused">> \in answers' PROVE Refused(i)
    BY <2>1, <2>4, <2>6 DEF Refused
  <2>. QED BY <2>5, <2>6
<1>8. ASSUME NEW i \in Nat PROVE TokenInv(i)'
  <2>1. TokenInv(i) /\ (Acked(i) => Written(i))
    BY TokenFacts
  <2>2. Refused(i)' => Refused(i)
    <3>1. ASSUME NEW k \in 1 .. Len(stdout'), stdout'[k].kind = "refused", stdout'[k].prompt = Goal(i)
          PROVE  Denied(i)
      <4>1. k + 1 \in 1 .. Len(stdout) /\ stdout[k + 1] = stdout'[k]
        BY <1>3
      <4>. QED BY <3>1, <4>1 DEF Denied
    <3>2. Denied(i)' => Denied(i)
      BY <3>1 DEF Denied
    <3>3. <<Goal(i), "refused">> \in answers' => Refused(i)
      BY <1>7
    <3>. QED BY <3>2, <3>3 DEF Refused
  <2>3. ~Owed(i)'
    BY <1>6 DEF Owed
  <2>4. /\ InPipe(i)' <=> InPipe(i)
        /\ Taken(i)' <=> Taken(i)
        /\ Written(i)' <=> Written(i)
        /\ Sent(i)' <=> Sent(i)
        /\ Acked(i)' <=> Acked(i)
    BY <1>2, <1>5 DEF InPipe, Taken, Written, Line, Sent, Acked
  <2>5. Moves(i)
    BY <1>2, <2>1, <2>2, <2>3, <2>4 DEF Moves
  <2>6. Once(i)
    BY <1>2, <2>1 DEF TokenInv, Once, Line
  <2>. QED BY <2>1, <2>5, <2>6, TokenStep
<1>. QED BY <1>2, <1>3, <1>5, <1>6, <1>7, <1>8 DEF IInv, TokensInv, Typed, ControllerTyped, DriverTyped,
                 NativeTyped, FilesTyped, files, watching, rest

-----------------------------------------------------------------------------
(* The observer *)

(* It does not queue a command that is there, and queued none twice. *)
Queued(k) == \E i \in 1 .. Len(commands) : commands[i] = Prompt("observer", k)
QueueInv ==
  /\ obs.pc \in {"guard", "intent", "append"} => ~Queued(obs.key)
  /\ \A i, j \in 1 .. Len(commands) :
       commands[i].by = "observer" /\ commands[i] = commands[j] => i = j

(* reconcile_delivery: what it leaves pending is not in the queue. *)
LEMMA SettledFacts ==
  ASSUME NEW m \in SUBSET Intents
  PROVE  /\ Settled(m) \subseteq Intents
         /\ \A r \in Settled(m) : (r.status = "pending" => ~Queued(r.key))
<1>1. SUFFICES ASSUME NEW r \in Settled(m)
               PROVE  r \in Intents /\ (r.status = "pending" => ~Queued(r.key))
  OBVIOUS
<1>2. PICK s \in m :
        r = [s EXCEPT !.status =
               IF s.status \in {"pending", "queued"} /\ <<Prompt("observer", s.key), "ok">> \in answers
               THEN "acknowledged"
               ELSE IF s.status \in {"pending", "queued"}
                         /\ <<Prompt("observer", s.key), "refused">> \in answers
               THEN "rejected"
               ELSE IF s.status = "pending"
                         /\ \E i \in 1..Len(commands) : commands[i] = Prompt("observer", s.key)
               THEN "queued" ELSE s.status]
  BY <1>1 DEF Settled
<1>3. PICK status :
        status = IF s.status \in {"pending", "queued"} /\ <<Prompt("observer", s.key), "ok">> \in answers
                 THEN "acknowledged"
                 ELSE IF s.status \in {"pending", "queued"}
                           /\ <<Prompt("observer", s.key), "refused">> \in answers
                 THEN "rejected"
                 ELSE IF s.status = "pending"
                           /\ \E i \in 1..Len(commands) : commands[i] = Prompt("observer", s.key)
                 THEN "queued" ELSE s.status
  OBVIOUS
<1>4. r = [s EXCEPT !.status = status]
  BY <1>2, <1>3
<1>5. s \in [key : Nat, status : {"pending", "queued", "acknowledged", "rejected"}]
  BY DEF Intents
<1>6. /\ status \in {"pending", "queued", "acknowledged", "rejected"}
      /\ status = "pending" => ~Queued(s.key)
  BY <1>3, <1>5 DEF Queued
<1>. QED BY <1>4, <1>5, <1>6 DEF Intents

(* An intent that is put has the status it is given. *)
LEMMA PutTyped ==
  ASSUME NEW m \in SUBSET Intents, NEW k \in Nat,
         NEW s \in {"pending", "queued", "acknowledged", "rejected"}
  PROVE  Put(m, k, s) \subseteq Intents
BY DEF Put, Intents

(* The tick goes on only for an event that is pending. *)
LEMMA StatusPending ==
  ASSUME NEW m, NEW k, Status(m, k) = "pending"
  PROVE  \E r \in m : r.key = k /\ r.status = "pending"
BY DEF Status

(* Steps of the observer before it writes to the command file. *)
LEMMA ObserverFrame ==
  ASSUME IInv, obs' \in ObserverType, UNCHANGED <<ctl, driver, native, supervised, files>>
  PROVE  IInv'
<1>1. TokensInv'
  BY Elsewhere, PostsNothing DEF IInv, Typed, ControllerTyped, driver, native
<1>. QED BY <1>1 DEF IInv, Typed, ControllerTyped, DriverTyped, NativeTyped, FilesTyped, driver, native,
                 files

(* A tick of the observer begins. *)
LEMMA TickInv == ASSUME IInv, QueueInv, Tick PROVE IInv' /\ QueueInv'
<1>1. obs \in ObserverType /\ transcript \in Seq(EntryType)
  BY NativeFacts DEF IInv, Typed, FilesTyped
<1>2. PICK key, m, opened :
        /\ key = Basis /\ m = Settled(obs.disk)
        /\ opened = Settled(IF Status(m, key) = "none" THEN Put(m, key, "pending") ELSE m)
  OBVIOUS
<1>3. key \in Nat
  BY <1>1, <1>2 DEF Basis
<1>4. m \subseteq Intents
  BY <1>1, <1>2, SettledFacts DEF ObserverType
<1>5. opened \subseteq Intents /\ \A r \in opened : (r.status = "pending" => ~Queued(r.key))
  <2>1. Put(m, key, "pending") \in SUBSET Intents
    BY <1>3, <1>4, PutTyped
  <2>. QED BY <1>2, <1>4, <2>1, SettledFacts
<1>6. \/ obs' = [obs EXCEPT !.mem = {}, !.disk = m]
      \/ obs' = [obs EXCEPT !.mem = {}, !.disk = opened]
      \/ /\ obs' = [obs EXCEPT !.pc = "guard", !.mem = opened, !.key = key]
         /\ Status(opened, key) = "pending"
  BY <1>2 DEF Tick
<1>7. obs' \in ObserverType
  BY <1>1, <1>3, <1>4, <1>5, <1>6 DEF ObserverType
<1>8. IInv' /\ commands' = commands /\ obs.pc = "off"
  BY <1>7, ObserverFrame DEF Tick, rest, files
<1>9. CASE obs'.pc = "off"
  BY <1>8, <1>9 DEF QueueInv
<1>10. CASE obs'.pc = "guard" /\ obs'.key = key /\ Status(opened, key) = "pending"
  <2>1. ~Queued(key)
    BY <1>5, <1>10, StatusPending
  <2>. QED BY <1>8, <1>10, <2>1 DEF QueueInv, Queued
<1>. QED BY <1>1, <1>6, <1>8, <1>9, <1>10 DEF ObserverType

(* The observer saves its intent before it writes, or is killed. *)
LEMMA ReguardInv ==
  ASSUME IInv, QueueInv, Reguard \/ SaveIntent \/ SaveQueued \/ ObserverKilled
  PROVE  IInv' /\ QueueInv'
<1>1. obs \in ObserverType
  BY DEF IInv, Typed, FilesTyped
<1>2. /\ UNCHANGED <<ctl, driver, native, supervised, files>>
      /\ \/ obs' = [obs EXCEPT !.pc = "intent"] /\ obs.pc = "guard"
         \/ obs' = [obs EXCEPT !.pc = "off", !.mem = {}, !.disk = obs.mem]
         \/ obs' = [obs EXCEPT !.pc = "append", !.disk = obs.mem] /\ obs.pc = "intent"
         \/ obs' = [obs EXCEPT !.pc = "off", !.mem = {}]
  BY DEF Reguard, SaveIntent, SaveQueued, ObserverKilled, Observe
<1>3. /\ obs' \in ObserverType
      /\ \/ obs'.pc = "off"
         \/ obs'.key = obs.key /\ obs.pc \in {"guard", "intent", "append"}
  BY <1>1, <1>2 DEF ObserverType
<1>4. IInv' /\ commands' = commands
  BY <1>2, <1>3, ObserverFrame DEF files
<1>. QED BY <1>3, <1>4 DEF QueueInv, Queued

(* The observer writes its command, which was not queued. *)
LEMMA AppendCommandInv == ASSUME IInv, QueueInv, AppendCommand PROVE IInv' /\ QueueInv'
<1>1. PICK p, n : p = Prompt("observer", obs.key) /\ n = Len(commands) + 1
  OBVIOUS
<1>2. /\ obs \in ObserverType /\ obs.pc = "append" /\ commands \in Seq(Prompts)
      /\ commands' = Append(commands, p) /\ offset \in 0 .. Len(commands)
      /\ \A i \in 1 .. Len(commands) : commands[i].by \in {"host", "observer"}
      /\ UNCHANGED <<ctl, driver, rest, native>>
  BY <1>1 DEF AppendCommand, IInv, Typed, FilesTyped
<1>3. p \in Prompts /\ p.by = "observer"
  BY <1>1, <1>2 DEF ObserverType, Prompt, Prompts
<1>4. /\ commands' \in Seq(Prompts) /\ Len(commands') = n /\ n \in Nat /\ n > Len(commands)
      /\ n \in 1 .. Len(commands') /\ commands'[n] = p
      /\ \A i \in 1 .. Len(commands') : (i \in 1 .. Len(commands) \/ i = n)
      /\ \A i \in 1 .. Len(commands) : (i \in 1 .. Len(commands') /\ commands'[i] = commands[i])
  BY <1>1, <1>2, <1>3
<1>5. obs' \in ObserverType /\ obs'.pc = "queued"
  <2>1. PICK mem : mem = Put(obs.mem, obs.key, "queued")
    OBVIOUS
  <2>2. mem \subseteq Intents
    BY <1>2, <2>1, PutTyped DEF ObserverType
  <2>3. obs' = [obs EXCEPT !.pc = "queued", !.mem = mem]
    BY <2>1 DEF AppendCommand
  <2>. QED BY <1>2, <2>2, <2>3 DEF ObserverType
<1>6. TokensInv'
  BY <1>2, Elsewhere, PostsNothing DEF IInv, Typed, ControllerTyped, driver, native
<1>7. FilesTyped'
  BY <1>2, <1>3, <1>4, <1>5 DEF FilesTyped, driver
<1>8. IInv'
  BY <1>2, <1>6, <1>7
     DEF IInv, Typed, ControllerTyped, DriverTyped, NativeTyped, driver, rest, native
<1>9. ASSUME NEW i \in 1 .. Len(commands) PROVE commands[i] # p
  BY <1>1, <1>2 DEF QueueInv, Queued
<1>10. QueueInv'
  <2>1. ASSUME NEW i \in 1 .. Len(commands'), NEW j \in 1 .. Len(commands'),
               commands'[i].by = "observer", commands'[i] = commands'[j]
        PROVE  i = j
    <3>1. CASE i \in 1 .. Len(commands) /\ j \in 1 .. Len(commands)
      BY <1>4, <2>1, <3>1 DEF QueueInv
    <3>2. CASE i = n \/ j = n
      BY <1>4, <1>9, <2>1, <3>2
    <3>. QED BY <1>4, <3>1, <3>2
  <2>. QED BY <1>5, <2>1 DEF QueueInv
<1>. QED BY <1>8, <1>10

-----------------------------------------------------------------------------
(* The invariant *)

Inv == IInv /\ QueueInv

(* Nothing has been sent at first. *)
LEMMA InitInv == ASSUME Init PROVE Inv
<1>1. ctl \in CtlType /\ ctl.outbox = <<>>
  <2>1. <<>> \in Seq(Message)
    OBVIOUS
  <2>. QED BY <2>1 DEF Init, CtlType, Reasons, Children, Roots, ACTIVE
<1>2. d \in DriverType /\ d.pc = "off" /\ saved \in SavedType
  BY OffTyped, SavedTyped DEF Init
<1>3. nat \in NativeType /\ nat.unsaved = NoPrompt
  BY OffTyped DEF Init, NativeType
<1>4. stdin = <<>> /\ stdout = <<>> /\ transcript = <<>> /\ commands = <<>> /\ answers = {}
      /\ kid = "none" /\ offset = 0 /\ launches = 0 /\ supervised \in BOOLEAN
  BY DEF Init
<1>5. obs \in ObserverType /\ obs.pc = "off"
  BY DEF Init, ObserverType
<1>6. <<>> \in Seq(Prompts) /\ <<>> \in Seq(ReportType) /\ <<>> \in Seq(EntryType) /\ Len(<<>>) = 0
  OBVIOUS
<1>7. Typed
  BY <1>1, <1>2, <1>3, <1>4, <1>5, <1>6
  DEF Typed, ControllerTyped, DriverTyped, NativeTyped, FilesTyped
<1>8. ASSUME NEW i \in Nat PROVE TokenInv(i)
  <2>1. ~Taken(i)
    BY <1>3 DEF Taken, Goal, Prompt, NoPrompt
  <2>2. ~Owed(i) /\ ~InPipe(i) /\ ~Written(i) /\ ~Refused(i) /\ ~Acked(i)
    BY <1>1, <1>2, <1>4 DEF Owed, InPipe, Written, Refused, Denied, Acked
  <2>. QED BY <1>4, <2>1, <2>2 DEF TokenInv
<1>9. QueueInv
  BY <1>4, <1>5 DEF QueueInv
<1>. QED BY <1>7, <1>8, <1>9 DEF Inv, IInv, TokensInv

(* The command file and the tick are the observer's but for two steps.     *)
LEMMA QueueKept == ASSUME QueueInv, UNCHANGED <<commands, obs>> PROVE QueueInv'
BY DEF QueueInv, Queued

(* A command file started anew holds no command of the observer. *)
LEMMA QueueReset ==
  ASSUME QueueInv, obs' = obs, commands' = <<>> \/ (\E p : p.by = "host" /\ commands' = <<p>>)
  PROVE  QueueInv'
<1>1. CASE commands' = <<>>
  BY <1>1 DEF QueueInv, Queued
<1>2. ASSUME NEW p, p.by = "host", commands' = <<p>> PROVE QueueInv'
  <2>1. Len(commands') = 1 /\ commands'[1] = p
    BY <1>2
  <2>2. \A k : Prompt("observer", k).by = "observer"
    BY DEF Prompt
  <2>. QED BY <1>2, <2>1, <2>2 DEF QueueInv, Queued
<1>. QED BY <1>1, <1>2

(* Every step keeps messages in one place and commands distinct. *)
LEMMA NextInv == ASSUME Inv, [Next]_vars PROVE Inv'
<1>. USE DEF Inv
<1>1. CASE NativeReads
  BY <1>1, NativeReadsInv, QueueKept DEF NativeReads, files, watching
<1>2. CASE NativeSaves
  BY <1>2, NativeSavesInv, QueueKept DEF NativeSaves, files, watching
<1>3. CASE NativeEnds
  BY <1>3, NativeEndsInv, QueueKept DEF NativeEnds, files, watching
<1>4. CASE NativeRestarts \/ NativeState \/ NativeDies
  BY <1>4, NativeRestartsInv, QueueKept
     DEF NativeRestarts, NativeState, NativeDies, files, watching
<1>5. CASE Child \/ Evaluate
  BY <1>5, ChildInv, QueueKept DEF Child, Evaluate, files, watching
<1>6. CASE Finish
  BY <1>6, FinishInv, QueueKept DEF Finish, files, watching
<1>7. CASE Launch
  <2>1. obs' = obs /\ (commands' = <<>> \/ commands' = commands)
    BY <1>7 DEF Launch, files, watching
  <2>. QED BY <1>7, <2>1, LaunchInv, QueueKept, QueueReset
<1>8. CASE ReadCommand
  BY <1>8, ReadCommandInv, QueueKept DEF ReadCommand, files, watching
<1>9. CASE Command
  <2>1. obs' = obs /\ commands' = <<Prompt("host", 0)>> /\ Prompt("host", 0).by = "host"
    BY <1>9 DEF Command, watching, Prompt
  <2>. QED BY <1>9, <2>1, CommandInv, QueueReset
<1>10. CASE Event
  BY <1>10, EventInv, QueueKept DEF Event, files, watching
<1>11. CASE SaveState
  BY <1>11, SaveStateInv, QueueKept DEF SaveState, watching
<1>12. CASE Ends
  BY <1>12, EndsInv, QueueKept DEF Ends, files, watching
<1>13. CASE Acknowledge
  BY <1>13, AcknowledgeInv, QueueKept DEF Acknowledge, files, watching
<1>14. CASE ObserveNodes
  BY <1>14, ObserveNodesInv, QueueKept DEF ObserveNodes, files, watching
<1>15. CASE View
  BY <1>15, ViewInv, QueueKept DEF View, files, watching
<1>16. CASE Claim
  BY <1>16, ClaimInv, QueueKept DEF Claim, files, watching
<1>17. CASE Tell
  BY <1>17, TellInv, QueueKept DEF Tell, files, watching
<1>18. CASE Send
  BY <1>18, SendInv, QueueKept DEF Send, files, watching
<1>19. CASE Shutdown
  BY <1>19, ShutdownInv, QueueKept DEF Shutdown, files, watching
<1>20. CASE StopController
  BY <1>20, StopControllerInv, QueueKept DEF StopController, files, watching
<1>21. CASE Rest
  BY <1>21, RestInv, QueueKept DEF Rest, files, watching
<1>22. CASE Kill
  BY <1>22, KillInv, QueueKept DEF Kill, files, watching
<1>23. CASE Requeue
  BY <1>23, RequeueInv, QueueKept DEF Requeue, files, watching
<1>24. CASE Recover
  BY <1>24, RecoverInv, QueueKept DEF Recover, files, watching
<1>25. CASE Tick
  BY <1>25, TickInv
<1>26. CASE Reguard \/ SaveIntent \/ SaveQueued \/ ObserverKilled
  BY <1>26, ReguardInv
<1>27. CASE AppendCommand
  BY <1>27, AppendCommandInv
<1>28. CASE UNCHANGED vars
  <2>1. UNCHANGED <<ctl, d, nat, stdin, stdout, transcript, answers>> /\ ctl \in CtlType
    BY <1>28 DEF vars, IInv, Typed, ControllerTyped
  <2>2. TokensInv'
    BY <2>1, Elsewhere, PostsNothing
  <2>3. Typed'
    BY <1>28 DEF vars, IInv, Typed, ControllerTyped, DriverTyped, NativeTyped, FilesTyped
  <2>. QED BY <1>28, <2>2, <2>3, QueueKept DEF vars, IInv
<1>. QED
  BY <1>1, <1>2, <1>3, <1>4, <1>5, <1>6, <1>7, <1>8, <1>9, <1>10, <1>11, <1>12, <1>13,
     <1>14, <1>15,
     <1>16, <1>17, <1>18, <1>19, <1>20, <1>21, <1>22, <1>23, <1>24, <1>25, <1>26, <1>27, <1>28
  DEF Next

(* The driver, the session, the controller and the observer keep it.       *)
THEOREM Invariance == Spec => []Inv
BY InitInv, NextInv, PTL DEF Spec

-----------------------------------------------------------------------------
(* What follows from it *)

(* The states of the controller, the driver and the command file are those *)
(* of their types, whatever is killed and restarted.                       *)
THEOREM TypeCorrect == Spec => []TypeOK
<1>1. Inv => TypeOK
  <2>1. ASSUME Inv, NEW i \in 1 .. Len(ctl.outbox)
        PROVE  ctl.outbox[i].status \in {"pending", "dispatched", "acknowledged"}
    <3>1. ctl.outbox \in Seq(Message)
      BY <2>1 DEF Inv, IInv, Typed, ControllerTyped, CtlType
    <3>2. ctl.outbox[i] \in Message
      BY <2>1, <3>1
    <3>. QED BY <3>2 DEF Message
  <2>2. ASSUME Inv
        PROVE  /\ ctl.lifecycle \in {"open", "stopping", "closed"}
               /\ ctl.root \in ACTIVE \cup {"absent", "stopped"}
               /\ ctl.child \in ACTIVE \cup {"absent", "completed", "stopped"}
               /\ d.status \in {"off", "starting", "ready", "running", "idle", "stopped", "failed"}
               /\ offset \in 0..Len(commands) /\ kid \in {"none", "running", "idle"}
    BY <2>2
       DEF Inv, IInv, Typed, ControllerTyped, DriverTyped, NativeTyped, FilesTyped, CtlType,
                DriverType, Roots, Children
  <2>. QED BY <2>1, <2>2 DEF TypeOK
<1>. QED BY <1>1, Invariance, PTL

(* Positions counted: none, or one. *)
LEMMA CountedOnce ==
  ASSUME NEW S, \A x, y \in S : x = y
  PROVE  IsFiniteSet(S) /\ Cardinality(S) <= 1 /\ (S # {} => Cardinality(S) = 1)
<1>1. CASE S = {}
  BY <1>1, FS_EmptySet
<1>2. CASE S # {}
  <2>1. PICK x \in S : S = {x}
    BY <1>2
  <2>2. IsFiniteSet({x}) /\ Cardinality({x}) = 1
    BY FS_Singleton
  <2>. QED BY <2>1, <2>2
<1>. QED BY <1>1, <1>2

(* A message of the controller is heard at most once, and exactly once when *)
(* it is written.                                                           *)
LEMMA HeardFacts ==
  ASSUME Inv, NEW i \in Nat
  PROVE  /\ Heard(Goal(i)) <= 1
         /\ Written(i) => Heard(Goal(i)) = 1
         /\ ~Written(i) => Heard(Goal(i)) = 0
<1>1. PICK S : S = {k \in 1 .. Len(transcript) :
                      transcript[k].kind = "user" /\ transcript[k].prompt = Goal(i)}
  OBVIOUS
<1>2. \A x, y \in S : x = y
  BY <1>1, NativeFacts DEF Inv, TokenInv, Line
<1>3. Heard(Goal(i)) = Cardinality(S)
  BY <1>1 DEF Heard
<1>4. (Written(i) => S # {}) /\ (~Written(i) => S = {})
  BY <1>1 DEF Written, Line
<1>. QED BY <1>2, <1>3, <1>4, CountedOnce, FS_EmptySet

(* The feedback reaches the native session at most once, for any number of *)
(* kills, restarts, refusals and recoveries (GoalBridge.poll, acknowledge).*)
THEOREM FeedbackHeardOnce == Spec => []HeardOnce
<1>1. Inv => HeardOnce
  <2>1. ASSUME Inv, NEW i \in 1 .. Len(ctl.outbox) PROVE Heard(Prompt("goal", i)) <= 1
    <3>1. i \in Nat
      BY <2>1 DEF Inv, IInv, Typed, ControllerTyped, CtlType
    <3>. QED BY <2>1, <3>1, HeardFacts DEF Goal
  <2>. QED BY <2>1 DEF HeardOnce
<1>. QED BY <1>1, Invariance, PTL

(* What the controller holds of a message is true of the session: an        *)
(* acknowledged one was heard, a pending one was not and is not on its way. *)
THEOREM ReceiptsAreTruthful == Spec => []ReceiptsTruthful
<1>1. Inv => ReceiptsTruthful
  <2>1. ASSUME Inv, NEW i \in 1 .. Len(ctl.outbox)
        PROVE  /\ ctl.outbox[i].status = "acknowledged" => Heard(Goal(i)) = 1
               /\ ctl.outbox[i].status = "pending" =>
                    Heard(Goal(i)) = 0 /\ nat.unsaved # Goal(i) /\ Times(stdin, Goal(i)) = 0
    <3>1. i \in Nat
      BY <2>1 DEF Inv, IInv, Typed, ControllerTyped, CtlType
    <3>2. TokenInv(i)
      BY <2>1, <3>1, NativeFacts DEF Inv
    <3>3. CASE ctl.outbox[i].status = "acknowledged"
      <4>1. Written(i)
        BY <2>1, <3>2, <3>3 DEF TokenInv, Acked
      <4>. QED BY <2>1, <3>1, <3>3, <4>1, HeardFacts
    <3>4. CASE ctl.outbox[i].status = "pending"
      <4>1. ~InPipe(i) /\ ~Taken(i) /\ ~Written(i)
        BY <3>2, <3>4 DEF TokenInv, Sent
      <4>2. {k \in 1 .. Len(stdin) : stdin[k] = Goal(i)} = {}
        BY <4>1 DEF InPipe
      <4>3. Times(stdin, Goal(i)) = 0
        BY <4>2, FS_EmptySet DEF Times
      <4>. QED BY <2>1, <3>1, <3>4, <4>1, <4>3, HeardFacts DEF Taken
    <3>. QED BY <3>3, <3>4
  <2>. QED BY <2>1 DEF ReceiptsTruthful, Goal
<1>. QED BY <1>1, Invariance, PTL

(* The observer wakes the session at most once for one event, wherever its *)
(* tick was killed.                                                        *)
THEOREM ObserverWakesOnce == Spec => []WokenOnce
<1>1. Inv => WokenOnce
  <2>1. ASSUME Inv, NEW i \in 1 .. Len(commands), commands[i].by = "observer"
        PROVE  Times(commands, commands[i]) = 1
    <3>1. PICK S : S = {j \in 1 .. Len(commands) : commands[j] = commands[i]}
      OBVIOUS
    <3>2. S # {} /\ \A x, y \in S : x = y
      BY <2>1, <3>1 DEF Inv, QueueInv
    <3>3. Times(commands, commands[i]) = Cardinality(S)
      BY <3>1 DEF Times
    <3>. QED BY <3>2, <3>3, CountedOnce
  <2>. QED BY <2>1 DEF WokenOnce
<1>. QED BY <1>1, Invariance, PTL

-----------------------------------------------------------------------------
(* Rounds *)

(* Nobody starts a turn but the driver's prompts, and no end was believed   *)
(* twice.                                                                   *)
Regular == supervised /\ kid = "none" /\ ~doubled

(* No turn is on and none is on its way, and no end of one is reported.     *)
EndsAt(k) == k \in 1 .. Len(stdout) /\ stdout[k].kind = "end"
Resting   == stdin = <<>> /\ ~nat.streaming /\ nat.unsaved = NoPrompt
Quiet     == Resting /\ \A k \in 1 .. Len(stdout) : ~EndsAt(k)

(* A turn the driver knows of: its prompt is unread or unsaved, and the     *)
(* transcript has not grown since it was sent; or it is in the transcript,  *)
(* which has no answer yet; or it ended and its end is reported, or lost.   *)
TurnInv ==
  /\ nat.streaming \/ nat.unsaved # NoPrompt => stdin = <<>>
  /\ nat.unsaved # NoPrompt => nat.streaming
  /\ Len(stdin) <= 1 /\ (stdin # <<>> => stdin[1] # NoPrompt)
  /\ stdin # <<>> \/ nat.unsaved # NoPrompt => Len(transcript) < d.since
  /\ nat.streaming /\ nat.unsaved = NoPrompt => ~IdleReceipt
  /\ \A k \in 1 .. Len(stdout) : EndsAt(k) => Resting /\ IdleReceipt
  /\ \A j, k \in 1 .. Len(stdout) : EndsAt(j) /\ EndsAt(k) => j = k

(* What the driver's status says of the session.                            *)
OnlyStates == \A k \in 1 .. Len(stdout) : stdout[k].kind = "state" /\ ~stdout[k].streaming

StatusInv ==
  /\ d.status \in {"starting", "ready", "idle"} => Quiet
  /\ d.status \in {"starting", "ready"} => OnlyStates
  /\ d.status = "starting" => ~d.bound
  /\ d.status = "idle" => IdleReceipt
  /\ d.status = "running" => TurnInv
  /\ offset < Len(commands) => d.status \in {"off", "ready", "stopped", "failed"}

(* What a poll of the controller relies on.                                 *)
PollInv ==
  /\ d.pc \in {"polling", "rooted", "viewed", "claimed", "told"} => d.bound
  /\ d.pc \in {"viewed", "claimed", "told"} => d.status = "idle"
  /\ d.pc = "polling" /\ d.status = "idle" => Dispatched(ctl) = {}
  /\ d.pc = "told" => ctl.root = "running"
  /\ d.pc = "off" <=> d.status = "off"
  /\ d.status \in {"stopped", "failed"} <=>
       d.pc \in {"closing", "halting", "resting root", "resting child"}
  /\ d.pc # "off" => ctl.root # "absent"

(* The session gave its final answer to a message; it has nothing of it.    *)
Answered(i) == \E u, e \in 1 .. Len(transcript) : u < e /\ transcript[e].kind = "stop" /\ Line(u, i)
Unknown(i)  == ~InPipe(i) /\ ~Taken(i) /\ ~Written(i)

(* What the controller may rely on when the root is idle, and the rounds.   *)
AtRest(c) ==
  \A i \in 1 .. Len(c.outbox) :
    /\ c.outbox[i].status = "acknowledged" => Answered(i)
    /\ c.outbox[i].status = "dispatched" => Unknown(i)

RoundsInv(c) == /\ c.root = "idle" => AtRest(c)
                /\ \A i \in 1 .. Len(c.outbox) - 1 : Answered(i)

(* Only a supervised driver polls, and only a probe is observed.            *)
ProbeInv ==
  /\ ~supervised => ctl.outbox = <<>> /\ d.pc \in {"off", "loop", "closing", "halting"}
  /\ supervised  => obs.pc = "off" /\ Len(commands) <= 1

(* What a regular session keeps. *)
RegularInv == StatusInv /\ PollInv /\ RoundsInv(ctl)
SessionInv == ProbeInv /\ (Regular => RegularInv)

(* The types that the proofs below use. *)
LEMMA SessionFacts ==
  ASSUME IInv
  PROVE  /\ ctl \in CtlType /\ d \in DriverType /\ supervised \in BOOLEAN
         /\ commands \in Seq(Prompts) /\ offset \in 0 .. Len(commands)
         /\ \A i \in 1 .. Len(commands) : commands[i].by \in {"host", "observer"}
BY DEF IInv, Typed, ControllerTyped, DriverTyped, FilesTyped

(* The controller's entry of the root, and its messages: all its own steps  *)
(* but observations keep the entry.                                         *)
LEMMA RootStays ==
  ASSUME NEW c \in CtlType
  PROVE  /\ Drained(c).root = c.root /\ Reconciled(c).root = c.root
         /\ \A why \in Reasons : Stopped(c, why).root = c.root
<1>1. ASSUME NEW e \in CtlType PROVE Drained(e).root = e.root
  BY DEF Drained, CtlType
<1>2. ASSUME NEW why \in Reasons PROVE Stopped(c, why).root = c.root
  <2>1. PICK e : e = [c EXCEPT !.lifecycle = "stopping", !.reason = why]
    OBVIOUS
  <2>2. e \in CtlType /\ e.root = c.root
    BY <2>1 DEF CtlType
  <2>. QED BY <1>1, <2>1, <2>2 DEF Stopped
<1>3. Reconciled(c).root = c.root
  <2>1. PICK o : o = Append(c.outbox, [status |-> "pending", from |-> c.seq])
    OBVIOUS
  <2>2. [c EXCEPT !.outbox = o].root = c.root
    BY DEF CtlType
  <2>3. Stopped(c, "attempt_limit").root = c.root /\ Drained(c).root = c.root
    BY <1>1, <1>2 DEF Reasons
  <2>. QED BY <2>1, <2>2, <2>3 DEF Reconciled
<1>. QED BY <1>1, <1>2, <1>3

(* Rounds depend on the messages and on whether the root is idle. *)
LEMMA RoundsSame ==
  ASSUME NEW c \in CtlType, NEW e \in CtlType, e.outbox = c.outbox, RoundsInv(c),
         e.root = "idle" => c.root = "idle"
  PROVE  RoundsInv(e)
BY DEF RoundsInv, AtRest

(* reconcile posts a message when all were acknowledged, and answered. *)
LEMMA RoundsReconciled ==
  ASSUME NEW c \in CtlType, RoundsInv(c)
  PROVE  RoundsInv(Reconciled(c))
<1>. DEFINE new == [status |-> "pending", from |-> c.seq]
<1>1. PICK o : o = Append(c.outbox, new)
  OBVIOUS
<1>2. PICK e : e = [c EXCEPT !.outbox = o]
  OBVIOUS
<1>3. c.outbox \in Seq(Message) /\ new.status = "pending"
  BY DEF CtlType
<1>4. /\ Len(o) = Len(c.outbox) + 1 /\ Len(c.outbox) \in Nat /\ o[Len(c.outbox) + 1].status = "pending"
      /\ \A i \in 1 .. Len(c.outbox) : o[i] = c.outbox[i] /\ c.outbox[i] \in Message
  <2>. HIDE DEF new
  <2>. QED BY <1>1, <1>3
<1>5. e.outbox = o /\ e.root = c.root
  BY <1>2 DEF CtlType
<1>6. CASE c.root = "idle" /\ Unfinished(c) = {}
  <2>1. \A i \in 1 .. Len(c.outbox) : Answered(i)
    <3>1. ASSUME NEW i \in 1 .. Len(c.outbox) PROVE c.outbox[i].status = "acknowledged"
      BY <1>4, <1>6 DEF Unfinished, Message
    <3>. QED BY <1>6, <3>1 DEF RoundsInv, AtRest
  <2>2. AtRest(e)
    <3>1. ASSUME NEW i \in 1 .. Len(o)
          PROVE  /\ o[i].status = "acknowledged" => Answered(i)
                 /\ o[i].status = "dispatched" => Unknown(i)
      <4>1. CASE i = Len(c.outbox) + 1
        BY <1>4, <4>1
      <4>2. CASE i \in 1 .. Len(c.outbox)
        BY <1>4, <1>6, <4>2 DEF RoundsInv, AtRest
      <4>. QED BY <1>4, <4>1, <4>2
    <3>. QED BY <1>5, <3>1 DEF AtRest
  <2>3. \A i \in 1 .. Len(o) - 1 : Answered(i)
    BY <1>4, <2>1
  <2>. QED
    <3>1. RoundsInv(e)
      BY <1>5, <2>2, <2>3 DEF RoundsInv
    <3>2. RoundsInv(c) /\ RoundsInv(Drained(c)) /\ RoundsInv(Stopped(c, "attempt_limit"))
      BY StoppedPosts, RootStays, RoundsSame DEF Reasons
    <3>. QED BY <1>1, <1>2, <3>1, <3>2 DEF Reconciled
<1>7. CASE ~(c.root = "idle" /\ Unfinished(c) = {})
  <2>1. Reconciled(c) \in {c, Drained(c)}
    BY <1>7 DEF Reconciled
  <2>. QED BY <2>1, StoppedPosts, RootStays, RoundsSame DEF Reasons
<1>. QED BY <1>6, <1>7

(* An observation of the root: idle only when every message was answered or *)
(* is unknown to the session.                                               *)
LEMMA RoundsObserved ==
  ASSUME NEW c \in CtlType, RoundsInv(c), NEW bound \in BOOLEAN, NEW status \in Roots \ {"absent"},
         status = "idle" => AtRest(c)
  PROVE  /\ RoundsInv(Observed(c, bound, "root", status))
         /\ Observed(c, bound, "root", status).root \in {c.root, status}
         /\ bound /\ c.root # "absent" => Observed(c, bound, "root", status).root = status
<1>1. PICK n \in Nat : n = c.seq + 1
  BY DEF CtlType
<1>2. PICK e : e = [c EXCEPT !.root = status, !.seq = n]
  OBVIOUS
<1>3. e \in CtlType /\ e.outbox = c.outbox /\ e.root = status
  BY <1>1, <1>2 DEF CtlType
<1>4. RoundsInv(e)
  BY <1>3 DEF RoundsInv, AtRest
<1>5. RoundsInv(Reconciled(e)) /\ Reconciled(e).root = status
  BY <1>3, <1>4, RoundsReconciled, RootStays
<1>6. Observed(c, bound, "root", status) =
        IF ~bound \/ c.root \in {status, "absent"} THEN c ELSE Reconciled(e)
  BY <1>1, <1>2 DEF Observed
<1>. QED BY <1>5, <1>6

(* An observation of the child. *)
LEMMA RoundsChild ==
  ASSUME NEW c \in CtlType, RoundsInv(c), NEW bound \in BOOLEAN, NEW status \in Children
  PROVE  /\ RoundsInv(Observed(c, bound, "child", status))
         /\ Observed(c, bound, "child", status).root = c.root
<1>1. PICK n \in Nat : n = c.seq
  BY DEF CtlType
<1>2. PICK e : e = [c EXCEPT !.child = status, !.seq = n]
  OBVIOUS
<1>3. e \in CtlType /\ e.outbox = c.outbox /\ e.root = c.root
  BY <1>1, <1>2 DEF CtlType
<1>4. RoundsInv(Reconciled(e)) /\ Reconciled(e).root = c.root
  BY <1>3, RoundsSame, RoundsReconciled, RootStays
<1>5. Observed(c, bound, "child", status) =
        IF ~bound \/ c.child \in {status, "absent"} THEN c ELSE Reconciled(e)
  BY <1>1, <1>2 DEF Observed
<1>. QED BY <1>4, <1>5

(* Rounds stay answered while the transcript grows, and what the session    *)
(* does not know it does not learn of itself.                               *)
LEMMA RoundsStay ==
  ASSUME ctl' \in CtlType, RoundsInv(ctl'), \A i \in Nat : Answered(i) => Answered(i)',
         ctl'.root = "idle" => \A i \in Nat : Unknown(i) => Unknown(i)'
  PROVE  RoundsInv(ctl)'
<1>1. Len(ctl'.outbox) \in Nat
  BY DEF CtlType
<1>. QED BY <1>1 DEF RoundsInv, AtRest

(* The session as it was. *)
LEMMA RoundsFrame ==
  ASSUME ctl' \in CtlType, RoundsInv(ctl'), UNCHANGED <<nat, stdin, transcript>>
  PROVE  RoundsInv(ctl)'
<1>1. \A i \in Nat : (Answered(i) => Answered(i)') /\ (Unknown(i) => Unknown(i)')
  BY DEF Answered, Unknown, InPipe, Taken, Written, Line
<1>. QED BY <1>1, RoundsStay

(* What the status says stays so while the session is left alone. *)
LEMMA StatusFrame ==
  ASSUME StatusInv, UNCHANGED <<nat, stdin, stdout, transcript, offset, commands>>,
         \/ d'.status = d.status /\ d'.since = d.since /\ d'.bound = d.bound
         \/ d'.status \in {"off", "stopped", "failed"}
  PROVE  StatusInv'
BY DEF StatusInv, Quiet, Resting, EndsAt, OnlyStates, IdleReceipt, TurnInv

(* Nothing is said of a session whose driver is gone or leaves. *)
LEMMA StatusGone == ASSUME d'.status \in {"off", "stopped", "failed"} PROVE StatusInv'
BY DEF StatusInv

(* A regular session was regular before. *)
LEMMA RegularBefore == ASSUME Next, Regular' PROVE Regular
<1>1. supervised' = supervised
  BY
     DEF Next, NativeReads, NativeSaves, NativeEnds, NativeRestarts, NativeState,
         NativeDies, Child,
     Finish, Launch, ReadCommand, Command, Event, SaveState, Ends, Acknowledge, ObserveNodes, View,
     Claim, Tell, Send, Shutdown, StopController, Rest, Kill, Requeue, Recover, Tick, Reguard,
     SaveIntent, AppendCommand, SaveQueued, ObserverKilled, Evaluate, Observe, rest
<1>2. kid' = kid \/ kid' # "none"
  BY
     DEF Next, NativeReads, NativeSaves, NativeEnds, NativeRestarts, NativeState,
         NativeDies, Child,
     Finish, Launch, ReadCommand, Command, Event, SaveState, Ends, Acknowledge, ObserveNodes, View,
     Claim, Tell, Send, Shutdown, StopController, Rest, Kill, Requeue, Recover, Tick, Reguard,
     SaveIntent, AppendCommand, SaveQueued, ObserverKilled, Evaluate, Observe, native
<1>3. doubled' = doubled \/ (doubled' <=> doubled \/ doubled')
  BY
     DEF Next, NativeReads, NativeSaves, NativeEnds, NativeRestarts, NativeState,
         NativeDies, Child,
     Finish, Launch, ReadCommand, Command, Event, SaveState, Ends, Acknowledge, ObserveNodes, View,
     Claim, Tell, Send, Shutdown, StopController, Rest, Kill, Requeue, Recover, Tick, Reguard,
     SaveIntent, AppendCommand, SaveQueued, ObserverKilled, Evaluate, Observe, driver
<1>. QED BY <1>1, <1>2, <1>3 DEF Regular

(* Only its own status, label and root decide what a poll relies on. *)
LEMMA PollFrame ==
  ASSUME PollInv, UNCHANGED d, ctl'.root = ctl.root, Dispatched(ctl') = Dispatched(ctl)
  PROVE  PollInv'
BY DEF PollInv

(* A driver that leaves its loop, or is gone. *)
LEMMA LeavePoll ==
  ASSUME d \in DriverType, PollInv, ctl'.root # "absent",
         \E status \in {"stopped", "failed"} : Leave(status)
  PROVE  PollInv' /\ StatusInv'
<1>1. d'.pc = "closing" /\ d'.status \in {"stopped", "failed"}
  BY DEF Leave, DriverType
<1>. QED BY <1>1, StatusGone DEF PollInv

(* Reports that tell of no end add none. *)
LEMMA EndsReported ==
  ASSUME stdout \in Seq(ReportType), NEW rs \in Seq(ReportType), Reported(rs)
  PROVE  /\ Len(stdout') \in Nat
         /\ \A k \in 1 .. Len(stdout') :
              EndsAt(k)' => EndsAt(k) \/ \E j \in 1 .. Len(rs) : k = Len(stdout) + j /\ rs[j].kind = "end"
<1>1. CASE d.pc = "off"
  BY <1>1 DEF Reported, EndsAt
<1>2. CASE d.pc # "off"
  <2>1. stdout' = stdout \o rs
    BY <1>2 DEF Reported
  <2>2. ASSUME NEW k \in 1 .. Len(stdout'), EndsAt(k)'
        PROVE  EndsAt(k) \/ \E j \in 1 .. Len(rs) : k = Len(stdout) + j /\ rs[j].kind = "end"
    <3>1. CASE k <= Len(stdout)
      BY <2>1, <2>2, <3>1 DEF EndsAt
    <3>2. CASE k > Len(stdout)
      <4>1. k - Len(stdout) \in 1 .. Len(rs) /\ stdout'[k] = rs[k - Len(stdout)]
        BY <2>1, <3>2
      <4>. QED BY <2>2, <4>1 DEF EndsAt
    <3>. QED BY <3>1, <3>2
  <2>. QED BY <2>1, <2>2
<1>. QED BY <1>1, <1>2

(* The session reads a prompt: a turn was due. *)
LEMMA ReadsRound ==
  ASSUME IInv, IInv', RegularInv, NativeReads
  PROVE  RegularInv'
<1>. DEFINE p == stdin[1]
<1>1. /\ stdin # <<>> /\ stdin' = Tail(stdin) /\ nat.alive
      /\ UNCHANGED <<ctl, d, offset, commands, transcript>>
  BY DEF NativeReads, driver, files
<1>2. stdin \in Seq(Prompts) /\ stdout \in Seq(ReportType) /\ nat \in NativeType /\ p \in Prompts
  BY <1>1, NativeFacts
<1>3. PollInv'
  BY <1>1, PollFrame DEF RegularInv
<1>4. nat' = nat \/ (nat'.unsaved = p /\ nat'.streaming)
  BY <1>2 DEF NativeReads, NativeType
<1>5. RoundsInv(ctl)'
  <2>1. ASSUME NEW i \in Nat
        PROVE  (Answered(i) => Answered(i)') /\ (Unknown(i) => Unknown(i)')
    <3>1. p = Goal(i) => InPipe(i)
      BY <1>1, <1>2 DEF InPipe
    <3>2. InPipe(i)' => InPipe(i)
      <4>1. ASSUME NEW k \in 1 .. Len(stdin'), stdin'[k] = Goal(i) PROVE InPipe(i)
        <5>1. k + 1 \in 1 .. Len(stdin) /\ stdin[k + 1] = Goal(i)
          BY <1>1, <1>2, <4>1
        <5>. QED BY <5>1 DEF InPipe
      <4>. QED BY <4>1 DEF InPipe
    <3>3. Taken(i)' => Taken(i) \/ InPipe(i)
      BY <1>4, <3>1 DEF Taken
    <3>. QED BY <1>1, <3>2, <3>3 DEF Answered, Unknown, Written, Line
  <2>2. ctl' \in CtlType /\ RoundsInv(ctl')
    BY <1>1 DEF RegularInv, IInv, Typed, ControllerTyped
  <2>. QED BY <2>1, <2>2, RoundsStay
<1>6. d.status \notin {"starting", "ready", "idle"}
  BY <1>1 DEF RegularInv, StatusInv, Quiet, Resting
<1>7. ASSUME d.status = "running" PROVE TurnInv'
  <2>1. TurnInv
    BY <1>7 DEF RegularInv, StatusInv
  <2>2. /\ Len(stdin) = 1 /\ p # NoPrompt /\ Len(transcript) < d.since
        /\ ~nat.streaming /\ nat.unsaved = NoPrompt
        /\ \A k \in 1 .. Len(stdout) : ~EndsAt(k)
    <3>1. Len(stdin) = 1
      <4>1. Len(stdin) <= 1
        BY <2>1 DEF TurnInv
      <4>2. PICK n : n = Len(stdin)
        OBVIOUS
      <4>3. n \in Nat /\ n # 0
        BY <1>1, <1>2, <4>2
      <4>4. n <= 1
        BY <4>1, <4>2
      <4>5. n = 1
        BY <4>3, <4>4
      <4>. QED BY <4>2, <4>5
    <3>2. p # NoPrompt /\ Len(transcript) < d.since /\ ~nat.streaming /\ nat.unsaved = NoPrompt
      BY <1>1, <2>1 DEF TurnInv
    <3>3. \A k \in 1 .. Len(stdout) : ~EndsAt(k)
      BY <1>1, <2>1 DEF TurnInv, Resting
    <3>. QED BY <3>1, <3>2, <3>3
  <2>3. stdin' = <<>> /\ Len(stdin') = 0
    BY <1>1, <1>2, <2>2
  <2>4. PICK a, b, c : /\ a = Report("ok", p, TRUE) /\ b = Report("start", NoPrompt, TRUE)
                       /\ c = Report("refused", p, nat.streaming)
    OBVIOUS
  <2>5. a \in ReportType /\ b \in ReportType /\ c \in ReportType /\ a.kind # "end" /\ b.kind # "end" /\ c.kind # "end"
    BY <1>2, <2>4, NativeFacts DEF Report, ReportType, NativeType
  <2>6. Reported(<<a, b>>) \/ Reported(<<c>>)
    BY <2>4 DEF NativeReads, Reports
  <2>7. \A k \in 1 .. Len(stdout') : ~EndsAt(k)'
    <3>1. ASSUME NEW k \in 1 .. Len(stdout') PROVE ~EndsAt(k)
      BY <2>2 DEF EndsAt
    <3>2. CASE Reported(<<a, b>>)
      <4>1. PICK rs : rs = <<a, b>>
        OBVIOUS
      <4>2. rs \in Seq(ReportType) /\ Len(rs) = 2 /\ rs[1] = a /\ rs[2] = b
        BY <2>5, <4>1
      <4>3. \A j \in 1 .. Len(rs) : rs[j].kind # "end"
        BY <2>5, <4>2
      <4>. QED BY <1>2, <3>1, <3>2, <4>1, <4>2, <4>3, EndsReported
    <3>3. CASE Reported(<<c>>)
      <4>1. PICK rs : rs = <<c>>
        OBVIOUS
      <4>2. rs \in Seq(ReportType) /\ Len(rs) = 1 /\ rs[1] = c
        BY <2>5, <4>1
      <4>3. \A j \in 1 .. Len(rs) : rs[j].kind # "end"
        BY <2>5, <4>2
      <4>. QED BY <1>2, <3>1, <3>3, <4>1, <4>2, <4>3, EndsReported
    <3>. QED BY <2>6, <3>2, <3>3
  <2>8. (nat' = nat \/ (nat'.unsaved # NoPrompt /\ nat'.streaming))
    BY <1>4, <2>2
  <2>9. ~IdleReceipt' \/ nat'.unsaved # NoPrompt \/ ~nat'.streaming
    BY <2>2, <2>8
  <2>10. Len(transcript') < d'.since
    BY <1>1, <2>2
  <2>11. nat'.unsaved # NoPrompt => nat'.streaming
    BY <2>2, <2>8
  <2>. QED BY <2>3, <2>7, <2>9, <2>10, <2>11 DEF TurnInv
<1>8. StatusInv'
  BY <1>1, <1>6, <1>7 DEF RegularInv, StatusInv
<1>. QED BY <1>3, <1>5, <1>8 DEF RegularInv

(* Answers stay answers while the transcript grows. *)
LEMMA AnswersStay ==
  ASSUME transcript \in Seq(EntryType), NEW e \in EntryType, transcript' = Append(transcript, e),
         NEW i \in Nat
  PROVE  Answered(i) => Answered(i)'
<1>1. /\ Len(transcript') = Len(transcript) + 1 /\ Len(transcript) \in Nat
      /\ \A k \in 1 .. Len(transcript) : (k \in 1 .. Len(transcript') /\ transcript'[k] = transcript[k])
  OBVIOUS
<1>. QED BY <1>1 DEF Answered, Line

(* The session saves the prompt it had taken up. *)
LEMMA SavesRound ==
  ASSUME IInv, IInv', RegularInv, NativeSaves
  PROVE  RegularInv'
<1>. DEFINE e == Entry("user", nat.unsaved)
<1>1. /\ nat.alive /\ nat.unsaved # NoPrompt /\ transcript' = Append(transcript, e)
      /\ nat' = [nat EXCEPT !.unsaved = NoPrompt]
      /\ UNCHANGED <<ctl, d, offset, commands, stdin, stdout>>
  BY DEF NativeSaves, driver, files
<1>2. transcript \in Seq(EntryType) /\ nat \in NativeType /\ e \in EntryType /\ e.kind = "user"
      /\ e.prompt = nat.unsaved
  BY NativeFacts DEF Entry, EntryType, NativeType
<1>3. PollInv'
  BY <1>1, PollFrame DEF RegularInv
<1>4. nat'.unsaved = NoPrompt /\ nat'.streaming = nat.streaming
  BY <1>1, <1>2 DEF NativeType
<1>5. RoundsInv(ctl)'
  <2>1. ASSUME NEW i \in Nat
        PROVE  (Answered(i) => Answered(i)') /\ (Unknown(i) => Unknown(i)')
    <3>1. Answered(i) => Answered(i)'
      <4>. HIDE DEF e
      <4>. QED BY <1>1, <1>2, AnswersStay
    <3>2. PICK here \in BOOLEAN : here <=> e.kind = "user" /\ e.prompt = Goal(i)
      OBVIOUS
    <3>3. here => Taken(i)
      BY <1>2, <3>2 DEF Taken
    <3>4. Taken(i) => ~Written(i)
      BY NativeFacts DEF TokenInv
    <3>5. Written(i)' <=> Written(i) \/ here
      <4>. HIDE DEF e
      <4>. QED BY <1>1, <1>2, <3>2, <3>3, <3>4, Grows
    <3>6. Taken(i)' => FALSE
      BY <1>4, NativeFacts DEF Taken
    <3>7. InPipe(i)' <=> InPipe(i)
      BY <1>1 DEF InPipe
    <3>. QED BY <3>1, <3>3, <3>5, <3>6, <3>7 DEF Unknown
  <2>2. ctl' \in CtlType /\ RoundsInv(ctl')
    BY <1>1 DEF RegularInv, IInv, Typed, ControllerTyped
  <2>. QED BY <2>1, <2>2, RoundsStay
<1>6. d.status \notin {"starting", "ready", "idle"}
  BY <1>1 DEF RegularInv, StatusInv, Quiet, Resting
<1>7. ASSUME d.status = "running" PROVE TurnInv'
  <2>1. TurnInv
    BY <1>7 DEF RegularInv, StatusInv
  <2>2. stdin = <<>> /\ nat.streaming /\ \A k \in 1 .. Len(stdout) : ~EndsAt(k)
    BY <1>1, <2>1 DEF TurnInv, Resting
  <2>3. /\ Len(transcript') = Len(transcript) + 1 /\ Len(transcript) \in Nat
        /\ transcript'[Len(transcript')] = e
    <3>. HIDE DEF e
    <3>. QED BY <1>1, <1>2
  <2>4. ~IdleReceipt'
    BY <1>2, <2>3 DEF IdleReceipt
  <2>5. \A k \in 1 .. Len(stdout') : ~EndsAt(k)'
    BY <1>1, <2>2 DEF EndsAt
  <2>6. stdin' = <<>> /\ Len(stdin') = 0
    BY <1>1, <2>2
  <2>. QED BY <1>4, <2>2, <2>4, <2>5, <2>6 DEF TurnInv
<1>8. StatusInv'
  BY <1>1, <1>6, <1>7 DEF RegularInv, StatusInv
<1>. QED BY <1>3, <1>5, <1>8 DEF RegularInv

(* The session ends a turn, which is reported or not. *)
LEMMA EndsRound ==
  ASSUME IInv, IInv', RegularInv, NativeEnds
  PROVE  RegularInv'
<1>. DEFINE e == Entry("stop", NoPrompt)  r == Report("end", NoPrompt, FALSE)
<1>1. /\ nat.streaming /\ nat.unsaved = NoPrompt /\ transcript' = Append(transcript, e)
      /\ nat' = [nat EXCEPT !.streaming = FALSE] /\ (Reported(<<r>>) \/ stdout' = stdout)
      /\ UNCHANGED <<ctl, d, offset, commands, stdin>>
  BY DEF NativeEnds, driver, files, Reports
<1>2. transcript \in Seq(EntryType) /\ nat \in NativeType /\ e \in EntryType /\ e.kind = "stop"
  BY NativeFacts DEF Entry, EntryType, NativeType
<1>3. PollInv'
  BY <1>1, PollFrame DEF RegularInv
<1>4. nat'.unsaved = NoPrompt /\ ~nat'.streaming
  BY <1>1, <1>2 DEF NativeType
<1>5. RoundsInv(ctl)'
  <2>1. ASSUME NEW i \in Nat
        PROVE  (Answered(i) => Answered(i)') /\ (Unknown(i) => Unknown(i)')
    <3>1. Answered(i) => Answered(i)'
      <4>. HIDE DEF e
      <4>. QED BY <1>1, <1>2, AnswersStay
    <3>2. Written(i)' <=> Written(i) \/ FALSE
      <4>. HIDE DEF e
      <4>. QED BY <1>1, <1>2, Grows
    <3>3. Taken(i)' => FALSE
      BY <1>4, NativeFacts DEF Taken
    <3>4. InPipe(i)' <=> InPipe(i)
      BY <1>1 DEF InPipe
    <3>. QED BY <3>1, <3>2, <3>3, <3>4 DEF Unknown
  <2>2. ctl' \in CtlType /\ RoundsInv(ctl')
    BY <1>1 DEF RegularInv, IInv, Typed, ControllerTyped
  <2>. QED BY <2>1, <2>2, RoundsStay
<1>6. d.status \notin {"starting", "ready", "idle"}
  BY <1>1 DEF RegularInv, StatusInv, Quiet, Resting
<1>7. ASSUME d.status = "running" PROVE TurnInv'
  <2>1. TurnInv
    BY <1>7 DEF RegularInv, StatusInv
  <2>2. stdin = <<>> /\ \A k \in 1 .. Len(stdout) : ~EndsAt(k)
    BY <1>1, <2>1 DEF TurnInv, Resting
  <2>3. /\ Len(transcript') = Len(transcript) + 1 /\ Len(transcript) \in Nat
        /\ transcript'[Len(transcript')] = e
    <3>. HIDE DEF e
    <3>. QED BY <1>1, <1>2
  <2>4. transcript' # <<>> /\ IdleReceipt'
    BY <1>2, <2>3 DEF IdleReceipt
  <2>5. \A j, k \in 1 .. Len(stdout') : EndsAt(j)' /\ EndsAt(k)' => j = k
    <3>1. CASE stdout' = stdout
      BY <2>2, <3>1 DEF EndsAt
    <3>2. CASE Reported(<<r>>)
      <4>1. r \in ReportType /\ stdout \in Seq(ReportType)
        BY NativeFacts DEF Report, ReportType
      <4>. HIDE DEF r
      <4>2. PICK rs : rs = <<r>>
        OBVIOUS
      <4>3. rs \in Seq(ReportType) /\ Len(rs) = 1 /\ Len(stdout) \in Nat
        BY <4>1, <4>2
      <4>4. \A k \in 1 .. Len(stdout') :
              EndsAt(k)' => EndsAt(k) \/ \E j \in 1 .. Len(rs) : k = Len(stdout) + j
        BY <3>2, <4>1, <4>2, <4>3, EndsReported
      <4>6. \A k \in 1 .. Len(stdout') : EndsAt(k)' => EndsAt(k) \/ k = Len(stdout) + 1
        BY <4>3, <4>4
      <4>5. \A k \in 1 .. Len(stdout') : ~EndsAt(k)
        BY <2>2 DEF EndsAt
      <4>. QED BY <4>5, <4>6
    <3>. QED BY <1>1, <3>1, <3>2
  <2>6. stdin' = <<>> /\ Len(stdin') = 0 /\ Resting'
    BY <1>1, <1>4, <2>2 DEF Resting
  <2>. QED BY <1>4, <2>4, <2>5, <2>6 DEF TurnInv
<1>8. StatusInv'
  BY <1>1, <1>6, <1>7 DEF RegularInv, StatusInv
<1>. QED BY <1>3, <1>5, <1>8 DEF RegularInv

(* The session reports its state, dies, or calls finish. *)
LEMMA StateRound ==
  ASSUME IInv, IInv', RegularInv, NativeState
  PROVE  RegularInv'
<1>. DEFINE r == Report("state", NoPrompt, nat.streaming)
<1>1. /\ stdout = <<>> /\ stdout' = stdout \o <<r>>
      /\ UNCHANGED <<ctl, d, offset, commands, nat, stdin, transcript>>
  BY DEF NativeState, Reports, Reported, driver, files
<1>2. r.kind = "state" /\ r.streaming = nat.streaming
  BY DEF Report
<1>3. Len(stdout') = 1 /\ stdout'[1] = r
  <2>. HIDE DEF r
  <2>. QED BY <1>1
<1>4. \A k \in 1 .. Len(stdout') : ~EndsAt(k)'
  BY <1>2, <1>3 DEF EndsAt
<1>5. ~nat.streaming => OnlyStates'
  BY <1>2, <1>3 DEF OnlyStates
<1>6. StatusInv'
  <2>1. Quiet => Quiet' /\ OnlyStates'
    BY <1>1, <1>4, <1>5 DEF Quiet, Resting
  <2>2. TurnInv => TurnInv'
    BY <1>1, <1>4 DEF TurnInv, IdleReceipt
  <2>. QED BY <1>1, <2>1, <2>2 DEF RegularInv, StatusInv, IdleReceipt
<1>7. RoundsInv(ctl)'
  BY <1>1, RoundsFrame DEF RegularInv, IInv, Typed, ControllerTyped
<1>8. PollInv'
  BY <1>1, PollFrame DEF RegularInv
<1>. QED BY <1>6, <1>7, <1>8 DEF RegularInv

(* The session dies: what it had not saved is gone. *)
LEMMA DiesRound ==
  ASSUME IInv, IInv', RegularInv, NativeDies
  PROVE  RegularInv'
<1>1. /\ stdin' = <<>> /\ nat' = [nat EXCEPT !.alive = FALSE, !.streaming = FALSE, !.unsaved = NoPrompt]
      /\ UNCHANGED <<ctl, d, offset, commands, stdout, transcript>>
  BY DEF NativeDies, driver, files
<1>2. nat'.unsaved = NoPrompt /\ ~nat'.streaming
  <2>1. nat \in NativeType
    BY NativeFacts
  <2>. QED BY <1>1, <2>1 DEF NativeType
<1>3. Resting' /\ Len(stdin') = 0 /\ (IdleReceipt' <=> IdleReceipt)
      /\ \A k \in 1 .. Len(stdout) : (EndsAt(k)' <=> EndsAt(k))
  BY <1>1, <1>2 DEF Resting, EndsAt, IdleReceipt
<1>4. StatusInv'
  <2>1. (Quiet => Quiet') /\ (OnlyStates => OnlyStates')
    BY <1>1, <1>3 DEF Quiet, OnlyStates
  <2>2. TurnInv => TurnInv'
    BY <1>1, <1>2, <1>3 DEF TurnInv
  <2>. QED BY <1>1, <1>3, <2>1, <2>2 DEF RegularInv, StatusInv
<1>5. \A i \in Nat : (Answered(i) => Answered(i)') /\ (Unknown(i) => Unknown(i)')
  BY <1>1, <1>2, NativeFacts DEF Answered, Unknown, InPipe, Taken, Written, Line
<1>6. RoundsInv(ctl)'
  BY <1>1, <1>5, RoundsStay DEF RegularInv, IInv, Typed, ControllerTyped
<1>7. PollInv'
  BY <1>1, PollFrame DEF RegularInv
<1>. QED BY <1>4, <1>6, <1>7 DEF RegularInv

(* The controller's entries change, but for the root and its messages. *)
LEMMA CtlRound ==
  ASSUME IInv, IInv', RegularInv,
         UNCHANGED <<d, offset, commands, nat, stdin, stdout, transcript>>,
         ctl'.root = ctl.root, ctl'.outbox = ctl.outbox
  PROVE  RegularInv'
<1>1. ctl \in CtlType /\ ctl' \in CtlType
  BY DEF IInv, Typed, ControllerTyped
<1>2. RoundsInv(ctl)'
  BY <1>1, RoundsSame, RoundsFrame DEF RegularInv
<1>3. PollInv'
  BY PollFrame DEF RegularInv, Dispatched
<1>4. StatusInv'
  BY StatusFrame DEF RegularInv
<1>. QED BY <1>2, <1>3, <1>4 DEF RegularInv

(* finish, a reviewed recovery, and what is only saved. *)
LEMMA FinishRound ==
  ASSUME IInv, IInv', RegularInv, Finish \/ Recover \/ SaveState \/ UNCHANGED vars
  PROVE  RegularInv'
<1>1. UNCHANGED <<d, offset, commands, nat, stdin, stdout, transcript>>
  BY DEF Finish, Recover, SaveState, vars, driver, files, native
<1>2. /\ ctl \in CtlType
      /\ \/ ctl' = [ctl EXCEPT !.lifecycle = "closed", !.reason = "explicit_finish"]
         \/ ctl' = [ctl EXCEPT !.lifecycle = "open", !.reason = "none"]
         \/ ctl' = ctl
  BY DEF Finish, Recover, SaveState, vars, IInv, Typed, ControllerTyped
<1>3. ctl'.root = ctl.root /\ ctl'.outbox = ctl.outbox
  BY <1>2 DEF CtlType
<1>. QED BY <1>1, <1>3, CtlRound

(* The host prompts a session that is ready. *)
LEMMA CommandRound ==
  ASSUME IInv, IInv', RegularInv, Command
  PROVE  RegularInv'
<1>1. UNCHANGED <<ctl, d, offset, nat, stdin, stdout, transcript>> /\ d.status = "ready"
  BY DEF Command, driver, native
<1>2. RoundsInv(ctl)'
  BY <1>1, RoundsFrame DEF RegularInv, IInv, Typed, ControllerTyped
<1>3. PollInv'
  BY <1>1, PollFrame DEF RegularInv
<1>4. StatusInv'
  BY <1>1 DEF RegularInv, StatusInv, Quiet, Resting, EndsAt, OnlyStates
<1>. QED BY <1>2, <1>3, <1>4 DEF RegularInv

(* The driver is killed; what nobody reads is lost. *)
LEMMA KillRound ==
  ASSUME IInv, IInv', RegularInv, Kill
  PROVE  RegularInv'
<1>1. /\ UNCHANGED <<ctl, offset, commands, nat, stdin, transcript>> /\ d' = Off
      /\ d.pc # "off"
  BY DEF Kill, files
<1>2. RoundsInv(ctl)'
  BY <1>1, RoundsFrame DEF RegularInv, IInv, Typed, ControllerTyped
<1>3. PollInv' /\ StatusInv'
  BY <1>1, StatusGone DEF RegularInv, PollInv, Off
<1>. QED BY <1>2, <1>3 DEF RegularInv

(* The driver starts: a session of its own that knows of no turn. *)
LEMMA LaunchRound ==
  ASSUME IInv, IInv', RegularInv, supervised, Launch
  PROVE  RegularInv'
<1>1. PICK c : c = Reconciled(ctl)
  OBVIOUS
<1>2. ctl \in CtlType /\ c \in CtlType /\ ctl' \in CtlType /\ d \in DriverType
  BY <1>1, ReconciledPosts DEF Posts, IInv, Typed, ControllerTyped, DriverTyped
<1>3. RoundsInv(c)
  BY <1>1, <1>2, RoundsReconciled DEF RegularInv
<1>4. ctl' = IF Guard(c) /\ c.root = "absent" THEN [c EXCEPT !.root = "admitted"] ELSE c
  BY <1>1 DEF Launch
<1>5. ctl'.outbox = c.outbox /\ (ctl'.root = "idle" => c.root = "idle")
      /\ (Guard(c) => ctl'.root # "absent")
  BY <1>2, <1>4 DEF CtlType
<1>6. RoundsInv(ctl')
  BY <1>2, <1>3, <1>5, RoundsSame
<1>7. transcript' = transcript /\ d.pc = "off"
  BY DEF Launch
<1>8. CASE ~Guard(c)
  <2>1. UNCHANGED <<d, nat, stdin, stdout, commands, offset>>
    BY <1>1, <1>8 DEF Launch, files
  <2>2. RoundsInv(ctl)'
    BY <1>2, <1>6, <1>7, <2>1, RoundsFrame
  <2>3. d'.pc = "off" /\ d'.status = "off"
    BY <1>7, <2>1 DEF RegularInv, PollInv
  <2>. QED BY <2>2, <2>3, StatusGone DEF RegularInv, PollInv
<1>9. CASE Guard(c)
  <2>1. PICK s, t, n : d' = [Off EXCEPT !.pc = "loop", !.status = "starting", !.session = s,
                                        !.turn = t, !.since = n]
    <3>1. PICK resumed : resumed = (supervised /\ saved.session # 0)
      OBVIOUS
    <3>2. d' = [Off EXCEPT !.pc = "loop", !.status = "starting",
                           !.session = IF resumed THEN saved.session ELSE 0,
                           !.turn = resumed /\ saved.status = "running" /\ saved.since > 0,
                           !.since = IF resumed THEN saved.since ELSE 0]
      BY <1>1, <1>9, <3>1 DEF Launch
    <3>. QED BY <3>2
  <2>2. PICK own : nat' = [alive |-> TRUE, streaming |-> FALSE, unsaved |-> NoPrompt,
                          session |-> own]
    BY <1>1, <1>9 DEF Launch
  <2>3. stdin' = <<>> /\ stdout' = <<>> /\ commands' = <<>> /\ offset' = 0
    BY <1>1, <1>9 DEF Launch
  <2>4. d'.pc = "loop" /\ d'.status = "starting" /\ ~d'.bound
    BY <2>1 DEF Off
  <2>5. nat'.unsaved = NoPrompt /\ ~nat'.streaming
    BY <2>2
  <2>6. \A i \in Nat : (Answered(i) => Answered(i)') /\ (Unknown(i) => Unknown(i)')
    BY <1>7, <2>3, <2>5, NativeFacts DEF Answered, Unknown, InPipe, Taken, Written, Line
  <2>7. RoundsInv(ctl)'
    BY <1>2, <1>6, <2>6, RoundsStay
  <2>8. Len(stdout') = 0 /\ Len(commands') = 0
    BY <2>3
  <2>9. Quiet' /\ OnlyStates' /\ ~(offset < Len(commands))'
    BY <2>3, <2>5, <2>8 DEF Quiet, Resting, OnlyStates
  <2>10. StatusInv'
    BY <2>4, <2>9 DEF StatusInv
  <2>11. PollInv'
    BY <1>5, <1>9, <2>4 DEF PollInv
  <2>. QED BY <2>7, <2>10, <2>11 DEF RegularInv
<1>. QED BY <1>8, <1>9

(* The driver prompts a session that rests. *)
LEMMA PromptedRound ==
  ASSUME IInv, IInv', RegularInv, NEW p \in Prompts, p # NoPrompt, Prompted(p), Quiet,
         UNCHANGED <<nat, stdout, transcript, commands>>, ctl'.root = "running",
         RoundsInv(ctl'), offset' \in Nat, Len(commands) \in Nat, offset' >= Len(commands)
  PROVE  RegularInv'
<1>1. d \in DriverType /\ ctl' \in CtlType
  BY DEF IInv, Typed, ControllerTyped, DriverTyped
<1>2. \A i \in Nat : Answered(i) => Answered(i)'
  BY DEF Answered, Line
<1>3. RoundsInv(ctl)'
  BY <1>1, <1>2, RoundsStay
<1>4. CASE Leave("failed")
  BY <1>1, <1>3, <1>4, LeavePoll DEF RegularInv
<1>5. CASE /\ stdin' = Append(stdin, p)
           /\ d' = [d EXCEPT !.pc = "loop", !.status = "running", !.turn = TRUE,
                             !.since = Len(transcript) + 1, !.sending = 0]
  <2>1. d'.pc = "loop" /\ d'.status = "running" /\ d'.since = Len(transcript) + 1
    BY <1>1, <1>5 DEF DriverType
  <2>2. stdin = <<>> /\ Len(transcript) \in Nat
    BY NativeFacts DEF Quiet, Resting
  <2>3. Len(stdin') = 1 /\ stdin'[1] = p
    BY <1>5, <2>2
  <2>4. nat'.unsaved = NoPrompt /\ ~nat'.streaming /\ \A k \in 1 .. Len(stdout') : ~EndsAt(k)'
    BY DEF Quiet, Resting, EndsAt
  <2>5. Len(transcript') < d'.since
    BY <2>1, <2>2
  <2>6. TurnInv'
    BY <2>3, <2>4, <2>5 DEF TurnInv
  <2>7. StatusInv'
    BY <2>1, <2>6 DEF StatusInv
  <2>8. PollInv'
    BY <2>1 DEF PollInv
  <2>. QED BY <1>3, <2>7, <2>8 DEF RegularInv
<1>. QED BY <1>4, <1>5 DEF Prompted

(* A command is read: only the host's, by a session that is ready. *)
LEMMA ReadCommandRound ==
  ASSUME IInv, IInv', ProbeInv, RegularInv, supervised, ReadCommand
  PROVE  RegularInv'
<1>. DEFINE p == commands[offset + 1]
<1>1. /\ d.pc = "loop" /\ offset < Len(commands) /\ offset' = offset + 1
      /\ UNCHANGED <<nat, stdout, transcript, commands>>
  BY DEF ReadCommand, files
<1>2. ctl \in CtlType /\ d \in DriverType /\ ctl' \in CtlType /\ ctl.root # "absent"
  BY <1>1 DEF IInv, Typed, ControllerTyped, DriverTyped, RegularInv, PollInv
<1>3. CASE ~(d.bound /\ Guard(ctl))
  <2>1. Leave("failed") /\ ctl' = ctl /\ stdin' = stdin
    BY <1>3 DEF ReadCommand
  <2>2. RoundsInv(ctl)'
    BY <1>1, <1>2, <2>1, RoundsFrame DEF RegularInv
  <2>. QED BY <1>2, <2>1, <2>2, LeavePoll DEF RegularInv
<1>4. CASE d.bound /\ Guard(ctl)
  <2>1. Prompted(p) /\ ctl' = Observed(ctl, TRUE, "root", "running")
    BY <1>4 DEF ReadCommand
  <2>2. d.status = "ready"
    BY <1>1 DEF RegularInv, StatusInv, PollInv
  <2>3. Quiet
    BY <2>2 DEF RegularInv, StatusInv
  <2>4. RoundsInv(ctl') /\ ctl'.root = "running"
    BY <1>2, <2>1, RoundsObserved DEF RegularInv, Roots, ACTIVE
  <2>5. /\ commands \in Seq(Prompts) /\ offset \in Nat /\ Len(commands) \in Nat /\ Len(commands) <= 1
        /\ \A i \in 1 .. Len(commands) : commands[i].by \in {"host", "observer"}
    BY DEF IInv, Typed, FilesTyped, ProbeInv
  <2>6. p \in Prompts /\ p.by \in {"host", "observer"}
    BY <1>1, <2>5
  <2>7. p # NoPrompt
    BY <2>6 DEF NoPrompt, Prompt
  <2>. HIDE DEF p
  <2>8. offset' \in Nat /\ offset' >= Len(commands)
    BY <1>1, <2>5
  <2>. QED BY <1>1, <2>1, <2>3, <2>4, <2>5, <2>6, <2>7, <2>8, PromptedRound
<1>. QED BY <1>3, <1>4

(* The reports that are still unread. *)
LEMMA TailReports ==
  ASSUME stdout \in Seq(ReportType), stdout # <<>>, stdout' = Tail(stdout)
  PROVE  /\ Len(stdout') \in Nat /\ Len(stdout) \in Nat
         /\ \A k \in 1 .. Len(stdout') : (k + 1 \in 2 .. Len(stdout) /\ stdout'[k] = stdout[k + 1])
OBVIOUS

(* The driver believes a report of its session. *)
LEMMA EventRound ==
  ASSUME IInv, IInv', RegularInv, supervised, ~doubled', Event
  PROVE  RegularInv'
<1>. DEFINE e == stdout[1]
<1>1. /\ d.pc = "loop" /\ stdout # <<>> /\ stdout' = Tail(stdout)
      /\ UNCHANGED <<offset, commands, nat, stdin, transcript>>
  BY DEF Event, files
<1>2. /\ stdout \in Seq(ReportType) /\ e \in ReportType /\ ctl \in CtlType /\ ctl' \in CtlType
      /\ d \in DriverType /\ nat \in NativeType /\ Len(stdout) \in Nat /\ 1 \in 1 .. Len(stdout)
  BY <1>1, NativeFacts DEF IInv, Typed, ControllerTyped, DriverTyped
<1>3. /\ Len(stdout') \in Nat
      /\ \A k \in 1 .. Len(stdout') : (k + 1 \in 2 .. Len(stdout) /\ stdout'[k] = stdout[k + 1])
  BY <1>1, <1>2, TailReports
<1>4. /\ \A k \in 1 .. Len(stdout') : EndsAt(k)' => k + 1 \in 2 .. Len(stdout) /\ EndsAt(k + 1)
      /\ OnlyStates => OnlyStates'
  BY <1>2, <1>3 DEF EndsAt, OnlyStates
<1>5. (Resting' <=> Resting) /\ (IdleReceipt' <=> IdleReceipt)
  BY <1>1 DEF Resting, IdleReceipt
<1>6. (Quiet => Quiet') /\ (TurnInv /\ d'.since = d.since => TurnInv')
  <2>1. Quiet => Quiet'
    BY <1>4, <1>5 DEF Quiet
  <2>2. ASSUME TurnInv, d'.since = d.since PROVE TurnInv'
    <3>1. \A k \in 1 .. Len(stdout') : EndsAt(k)' => Resting' /\ IdleReceipt'
      BY <1>4, <1>5, <2>2 DEF TurnInv
    <3>2. ASSUME NEW j \in 1 .. Len(stdout'), NEW k \in 1 .. Len(stdout'), EndsAt(j)', EndsAt(k)'
          PROVE  j = k
      <4>1. j + 1 = k + 1
        BY <1>2, <1>4, <2>2, <3>2 DEF TurnInv
      <4>. QED BY <1>3, <4>1
    <3>3. /\ nat'.streaming \/ nat'.unsaved # NoPrompt => stdin' = <<>>
          /\ nat'.unsaved # NoPrompt => nat'.streaming
          /\ Len(stdin') <= 1 /\ (stdin' # <<>> => stdin'[1] # NoPrompt)
          /\ stdin' # <<>> \/ nat'.unsaved # NoPrompt => Len(transcript') < d'.since
      BY <1>1, <2>2 DEF TurnInv
    <3>4. nat'.streaming /\ nat'.unsaved = NoPrompt => ~IdleReceipt'
      BY <1>1, <1>5, <2>2 DEF TurnInv
    <3>. QED BY <3>1, <3>2, <3>3, <3>4 DEF TurnInv
  <2>. QED BY <2>1, <2>2
<1>7. ASSUME Quiet PROVE TurnInv'
  <2>1. stdin' = <<>> /\ ~nat'.streaming /\ nat'.unsaved = NoPrompt /\ Len(stdin') = 0
    BY <1>1, <1>7 DEF Quiet, Resting
  <2>2. \A k \in 1 .. Len(stdout') : ~EndsAt(k)'
    BY <1>6, <1>7 DEF Quiet
  <2>. QED BY <2>1, <2>2 DEF TurnInv
<1>8. d.status \in {"starting", "ready", "running", "idle"} /\ ctl.root # "absent"
      /\ (offset < Len(commands) => d.status = "ready")
  BY <1>1, <1>2 DEF RegularInv, StatusInv, PollInv, DriverType
<1>9. ctl'.outbox = ctl.outbox /\ ctl'.root = ctl.root
  <2>1. ctl' = ctl \/ ctl' = [ctl EXCEPT !.session = nat.session]
    BY DEF Event
  <2>. QED BY <1>2, <2>1 DEF CtlType
<1>10. RoundsInv(ctl)'
  BY <1>1, <1>2, <1>9, RoundsSame, RoundsFrame DEF RegularInv
<1>11. ASSUME Leave("failed") PROVE RegularInv'
  BY <1>2, <1>8, <1>9, <1>10, <1>11, LeavePoll DEF RegularInv
<1>12. ASSUME d'.pc = "loop", d'.status \in {"starting", "ready", "running", "idle"}
       PROVE  PollInv'
  BY <1>8, <1>9, <1>12 DEF PollInv
<1>13. CASE e.kind = "start"
  <2>1. d' = [d EXCEPT !.status = "running", !.turn = TRUE,
                       !.since = IF d.turn THEN d.since ELSE Len(transcript) + 1]
    BY <1>13 DEF Event
  <2>2. d'.pc = "loop" /\ d'.status = "running" /\ d'.since \in {d.since, Len(transcript) + 1}
    BY <1>1, <1>2, <2>1 DEF DriverType
  <2>3. d.status \in {"idle", "running"} /\ ~(offset < Len(commands))
    BY <1>2, <1>8, <1>13 DEF RegularInv, StatusInv, OnlyStates
  <2>4. TurnInv'
    <3>1. CASE d.status = "idle"
      BY <1>7, <3>1 DEF RegularInv, StatusInv
    <3>2. CASE d.status = "running" /\ d'.since = d.since
      BY <1>6, <3>2 DEF RegularInv, StatusInv
    <3>3. CASE d.status = "running" /\ d'.since = Len(transcript) + 1
      <4>1. TurnInv
        BY <3>3 DEF RegularInv, StatusInv
      <4>2. Len(transcript') < d'.since
        BY <1>1, <3>3, NativeFacts
      <4>3. \A k \in 1 .. Len(stdout') : EndsAt(k)' => Resting' /\ IdleReceipt'
        BY <1>4, <1>5, <4>1 DEF TurnInv
      <4>4. ASSUME NEW j \in 1 .. Len(stdout'), NEW k \in 1 .. Len(stdout'), EndsAt(j)', EndsAt(k)'
            PROVE  j = k
        <5>1. j + 1 = k + 1
          BY <1>2, <1>4, <4>1, <4>4 DEF TurnInv
        <5>. QED BY <1>3, <5>1
      <4>5. /\ nat'.streaming \/ nat'.unsaved # NoPrompt => stdin' = <<>>
            /\ nat'.unsaved # NoPrompt => nat'.streaming
            /\ Len(stdin') <= 1 /\ (stdin' # <<>> => stdin'[1] # NoPrompt)
        BY <1>1, <4>1 DEF TurnInv
      <4>6. nat'.streaming /\ nat'.unsaved = NoPrompt => ~IdleReceipt'
        BY <1>1, <1>5, <4>1 DEF TurnInv
      <4>. QED BY <4>2, <4>3, <4>4, <4>5, <4>6 DEF TurnInv
    <3>. QED BY <2>2, <2>3, <3>1, <3>2, <3>3
  <2>5. StatusInv'
    BY <1>1, <2>2, <2>3, <2>4 DEF StatusInv
  <2>. QED BY <1>10, <1>12, <2>2, <2>5 DEF RegularInv
<1>14. CASE e.kind = "end"
  <2>1. d' = [d EXCEPT !.status = "idle", !.turn = FALSE]
    BY <1>14 DEF Event
  <2>2. d'.pc = "loop" /\ d'.status = "idle"
    BY <1>1, <1>2, <2>1 DEF DriverType
  <2>3. EndsAt(1)
    BY <1>2, <1>14 DEF EndsAt
  <2>4. d.status = "running" /\ ~(offset < Len(commands)) /\ TurnInv
    BY <1>2, <1>8, <1>14, <2>3 DEF RegularInv, StatusInv, OnlyStates, Quiet
  <2>5. Resting /\ IdleReceipt
    BY <1>2, <2>3, <2>4 DEF TurnInv
  <2>6. \A k \in 1 .. Len(stdout') : ~EndsAt(k)'
    <3>1. ASSUME NEW k \in 1 .. Len(stdout'), EndsAt(k)' PROVE FALSE
      <4>1. k + 1 \in 2 .. Len(stdout) /\ EndsAt(k + 1)
        BY <1>4, <3>1
      <4>2. k + 1 = 1
        BY <1>2, <2>3, <2>4, <4>1 DEF TurnInv
      <4>. QED BY <1>3, <3>1, <4>2
    <3>. QED BY <3>1
  <2>7. StatusInv'
    BY <1>1, <1>5, <2>2, <2>4, <2>5, <2>6 DEF StatusInv, Quiet
  <2>. QED BY <1>10, <1>12, <2>2, <2>7 DEF RegularInv
<1>15. CASE e.kind = "ok"
  <2>1. d' = d
    BY <1>15 DEF Event
  <2>2. d.status \in {"running", "idle"} /\ ~(offset < Len(commands))
    BY <1>2, <1>8, <1>15 DEF RegularInv, StatusInv, OnlyStates
  <2>3. StatusInv'
    BY <1>1, <1>5, <1>6, <2>1, <2>2 DEF RegularInv, StatusInv
  <2>. QED BY <1>1, <1>8, <1>10, <1>12, <2>1, <2>3 DEF RegularInv
<1>16. CASE e.kind = "refused"
  <2>1. Leave("failed")
    BY <1>16 DEF Event
  <2>. QED BY <1>11, <2>1
<1>17. CASE e.kind = "state" /\ Mismatch
  <2>1. Leave("failed")
    BY <1>17 DEF Event
  <2>. QED BY <1>11, <2>1
<1>18. CASE e.kind = "state" /\ ~Mismatch
  <2>1. d' = Verified(e)
    BY <1>18 DEF Event
  <2>2. PICK status : status = IF d.status # "starting" THEN d.status
                               ELSE IF d.turn \/ e.streaming THEN "running" ELSE "ready"
    OBVIOUS
  <2>3. PICK idle \in BOOLEAN : idle <=> RecoveredIdle(e, status)
    OBVIOUS
  <2>4. d' = [d EXCEPT !.session = nat.session, !.bound = supervised,
                       !.status = IF idle THEN "idle" ELSE status, !.turn = ~idle /\ @]
    BY <2>1, <2>2, <2>3 DEF Verified
  <2>5. PICK t, s : /\ s = (IF idle THEN "idle" ELSE status)
                    /\ d' = [d EXCEPT !.session = nat.session, !.bound = supervised,
                                      !.status = s, !.turn = t]
    BY <2>4
  <2>6. d'.pc = "loop" /\ d'.status = s /\ d'.since = d.since /\ d'.bound = supervised
    BY <1>1, <1>2, <2>5 DEF DriverType
  <2>7. s \in {"ready", "running", "idle"} /\ (idle => status = "running" /\ IdleReceipt)
        /\ (idle => d.since <= Len(transcript))
    BY <1>8, <2>2, <2>3, <2>5 DEF RecoveredIdle
  <2>8. offset < Len(commands) => s = "ready"
    <3>1. ASSUME offset < Len(commands) PROVE s = "ready"
      <4>1. status = "ready"
        BY <1>8, <2>2, <3>1
      <4>. QED BY <2>5, <2>7, <4>1
    <3>. QED BY <3>1
  <2>9. CASE d.status # "running"
    <3>1. Quiet /\ Quiet' /\ TurnInv'
      BY <1>6, <1>7, <1>8, <2>9 DEF RegularInv, StatusInv
    <3>2. s = "ready" => OnlyStates'
      BY <1>4, <1>8, <2>2, <2>5, <2>7, <2>9 DEF RegularInv, StatusInv
    <3>3. s = "idle" => IdleReceipt'
      BY <1>5, <1>8, <2>2, <2>5, <2>7, <2>9 DEF RegularInv, StatusInv
    <3>4. StatusInv'
      BY <1>1, <2>6, <2>7, <2>8, <3>1, <3>2, <3>3 DEF StatusInv
    <3>. QED BY <1>10, <1>12, <2>6, <2>7, <3>4 DEF RegularInv
  <2>10. CASE d.status = "running" /\ ~idle
    <3>1. s = "running" /\ TurnInv'
      BY <1>6, <2>2, <2>5, <2>6, <2>10 DEF RegularInv, StatusInv
    <3>2. StatusInv'
      BY <1>1, <2>6, <2>8, <3>1 DEF StatusInv
    <3>. QED BY <1>10, <1>12, <2>6, <2>7, <3>2 DEF RegularInv
  <2>11. CASE d.status = "running" /\ idle
    <3>1. TurnInv /\ s = "idle" /\ Verified(e).status = "idle"
      BY <2>1, <2>5, <2>6, <2>11 DEF RegularInv, StatusInv
    <3>2. ~\E k \in 2 .. Len(stdout) : stdout[k].kind = "end"
      BY <1>18, <2>11, <3>1 DEF Event
    <3>3. \A k \in 1 .. Len(stdout') : ~EndsAt(k)'
      BY <1>4, <3>2 DEF EndsAt
    <3>4. stdin = <<>> /\ nat.unsaved = NoPrompt
      <4>1. ~(Len(transcript) < d.since)
        BY <1>2, <2>7, <2>11, NativeFacts DEF DriverType
      <4>. QED BY <3>1, <4>1 DEF TurnInv
    <3>5. Resting
      BY <2>7, <2>11, <3>1, <3>4 DEF TurnInv, Resting
    <3>6. StatusInv'
      BY <1>1, <1>5, <2>6, <2>7, <2>8, <2>11, <3>1, <3>3, <3>5 DEF StatusInv, Quiet
    <3>. QED BY <1>10, <1>12, <2>6, <3>1, <3>6 DEF RegularInv
  <2>. QED BY <2>9, <2>10, <2>11
<1>. QED BY <1>2, <1>13, <1>14, <1>15, <1>16, <1>17, <1>18 DEF ReportType

(* The controller's or the driver's own step, the session left alone. *)
LEMMA DriverRound ==
  ASSUME IInv, IInv', RegularInv, UNCHANGED <<offset, commands, nat, stdin, stdout, transcript>>,
         RoundsInv(ctl'), d'.status = d.status, d'.since = d.since, d'.bound = d.bound, PollInv'
  PROVE  RegularInv'
<1>1. RoundsInv(ctl)'
  BY RoundsFrame DEF IInv, Typed, ControllerTyped
<1>2. StatusInv'
  BY StatusFrame DEF RegularInv
<1>. QED BY <1>1, <1>2 DEF RegularInv

(* The driver leaves its loop, the session left alone. *)
LEMMA LeaveRound ==
  ASSUME IInv, IInv', RegularInv, UNCHANGED <<offset, commands, nat, stdin, transcript>>,
         RoundsInv(ctl'), ctl'.root # "absent", \E status \in {"stopped", "failed"} : Leave(status)
  PROVE  RegularInv'
<1>1. RoundsInv(ctl)'
  BY RoundsFrame DEF IInv, Typed, ControllerTyped
<1>2. PollInv' /\ StatusInv'
  BY LeavePoll DEF RegularInv, IInv, Typed, DriverTyped
<1>. QED BY <1>1, <1>2 DEF RegularInv

(* What a label tells of the driver that goes on. *)
LEMMA ToFacts ==
  ASSUME d \in DriverType, NEW label, To(label)
  PROVE  /\ d'.pc = label /\ d'.status = d.status /\ d'.since = d.since /\ d'.bound = d.bound
BY DEF DriverType, To

(* The process ended, stop_driver, or a fatal report. *)
LEMMA EndsDriverRound == ASSUME IInv, IInv', RegularInv, Ends PROVE RegularInv'
<1>1. /\ UNCHANGED <<ctl, offset, commands, nat, stdin, transcript>> /\ d.pc # "off"
      /\ \E status \in {"stopped", "failed"} : Leave(status)
  BY DEF Ends, files, native
<1>2. RoundsInv(ctl') /\ ctl'.root # "absent"
  BY <1>1 DEF RegularInv, PollInv
<1>. QED BY <1>1, <1>2, LeaveRound

(* Acknowledged is what the session has; at rest, nothing is. *)
LEMMA AcknowledgeRound == ASSUME IInv, IInv', RegularInv, Acknowledge PROVE RegularInv'
<1>1. PICK S : S = {i \in Dispatched(ctl) : Proven(i)}
  OBVIOUS
<1>2. /\ ctl' = [ctl EXCEPT !.outbox = [i \in DOMAIN ctl.outbox |->
                    IF i \in S THEN [ctl.outbox[i] EXCEPT !.status = "acknowledged"]
                    ELSE ctl.outbox[i]]]
      /\ IF d.status = "idle" /\ Dispatched(ctl') # {} THEN Leave("failed") ELSE To("polling")
      /\ d.pc = "loop" /\ d.bound
      /\ UNCHANGED <<offset, commands, nat, stdin, stdout, transcript>>
  BY <1>1 DEF Acknowledge, Polls, files, native
<1>3. ctl \in CtlType /\ ctl' \in CtlType /\ d \in DriverType /\ ctl.outbox \in Seq(Message)
  BY DEF IInv, Typed, ControllerTyped, DriverTyped, CtlType
<1>4. /\ ctl'.root = ctl.root /\ Len(ctl'.outbox) = Len(ctl.outbox) /\ Len(ctl.outbox) \in Nat
      /\ \A i \in 1 .. Len(ctl.outbox) : i \notin S => ctl'.outbox[i] = ctl.outbox[i]
      /\ \A i \in S : ctl.outbox[i].status = "dispatched" /\ i \in 1 .. Len(ctl.outbox) /\ Written(i)
  <2>1. PICK o : o = [i \in DOMAIN ctl.outbox |->
                    IF i \in S THEN [ctl.outbox[i] EXCEPT !.status = "acknowledged"]
                    ELSE ctl.outbox[i]]
    OBVIOUS
  <2>2. ctl' = [ctl EXCEPT !.outbox = o]
    BY <1>2, <2>1
  <2>3. ctl'.root = ctl.root /\ ctl'.outbox = o
    BY <1>3, <2>2 DEF CtlType
  <2>4. DOMAIN ctl.outbox = 1 .. Len(ctl.outbox) /\ Len(ctl.outbox) \in Nat
    BY <1>3
  <2>5. DOMAIN o = 1 .. Len(ctl.outbox)
    BY <2>1, <2>4
  <2>6. Len(o) = Len(ctl.outbox)
    <3>1. ctl'.outbox \in Seq(Message)
      BY <1>3 DEF CtlType
    <3>. QED BY <2>3, <2>4, <2>5, <3>1
  <2>7. \A i \in 1 .. Len(ctl.outbox) : i \notin S => o[i] = ctl.outbox[i]
    BY <2>1, <2>4
  <2>8. ASSUME NEW i \in S
        PROVE  ctl.outbox[i].status = "dispatched" /\ i \in 1 .. Len(ctl.outbox) /\ Written(i)
    BY <1>1 DEF Dispatched, Proven, Says, Written, Line, Goal
  <2>. QED BY <2>3, <2>4, <2>6, <2>7, <2>8
<1>5. RoundsInv(ctl')
  <2>1. \A i \in 1 .. Len(ctl'.outbox) - 1 : Answered(i)
    BY <1>4 DEF RegularInv, RoundsInv
  <2>2. ASSUME ctl'.root = "idle" PROVE AtRest(ctl')
    <3>1. AtRest(ctl)
      BY <1>4, <2>2 DEF RegularInv, RoundsInv
    <3>2. S = {}
      BY <1>4, <3>1 DEF AtRest, Unknown
    <3>. QED BY <1>4, <3>1, <3>2 DEF AtRest
  <2>. QED BY <2>1, <2>2 DEF RoundsInv
<1>6. ctl'.root # "absent"
  BY <1>2, <1>4 DEF RegularInv, PollInv
<1>7. CASE Leave("failed")
  BY <1>2, <1>5, <1>6, <1>7, LeaveRound
<1>8. CASE To("polling") /\ ~(d.status = "idle" /\ Dispatched(ctl') # {})
  <2>1. d'.pc = "polling" /\ d'.status = d.status /\ d'.since = d.since /\ d'.bound = d.bound
    BY <1>3, <1>8, ToFacts
  <2>2. PollInv'
    <3>1. d.status \notin {"off", "stopped", "failed"}
      BY <1>2 DEF RegularInv, PollInv
    <3>2. (d.status = "idle" => Dispatched(ctl) = {})'
      BY <1>8, <2>1
    <3>. QED BY <1>2, <1>6, <2>1, <3>1, <3>2 DEF PollInv
  <2>. QED BY <1>2, <1>5, <2>1, <2>2, DriverRound
<1>. QED BY <1>2, <1>7, <1>8

(* The root is reported; idle, it has answered what was acknowledged. *)
LEMMA ObserveNodesRound ==
  ASSUME IInv, IInv', RegularInv, kid = "none", ObserveNodes PROVE RegularInv'
<1>1. /\ d.pc = "polling" /\ To("rooted")
      /\ ctl' = IF d.status \in {"running", "idle"}
                THEN Observed(ctl, d.bound, "root", d.status) ELSE ctl
      /\ UNCHANGED <<offset, commands, nat, stdin, stdout, transcript>>
  BY DEF ObserveNodes, files, native
<1>2. ctl \in CtlType /\ ctl' \in CtlType /\ d \in DriverType
  BY DEF IInv, Typed, ControllerTyped, DriverTyped
<1>3. d'.pc = "rooted" /\ d'.status = d.status /\ d'.since = d.since /\ d'.bound = d.bound
  BY <1>1, <1>2, ToFacts
<1>4. /\ d.bound /\ (d.status = "idle" => Dispatched(ctl) = {}) /\ ctl.root # "absent"
      /\ d.status \notin {"off", "stopped", "failed"}
  BY <1>1 DEF RegularInv, PollInv
<1>5. ASSUME d.status = "idle" PROVE AtRest(ctl)
  <2>1. IdleReceipt /\ transcript \in Seq(EntryType)
    BY <1>5, NativeFacts DEF RegularInv, StatusInv
  <2>2. ASSUME NEW i \in 1 .. Len(ctl.outbox) PROVE ctl.outbox[i].status # "dispatched"
    BY <1>4, <1>5 DEF Dispatched
  <2>3. ASSUME NEW i \in 1 .. Len(ctl.outbox), ctl.outbox[i].status = "acknowledged"
        PROVE  Answered(i)
    <3>1. i \in Nat
      BY <1>2 DEF CtlType
    <3>2. Written(i)
      BY <2>3, <3>1, TokenFacts DEF Acked
    <3>3. PICK u \in 1 .. Len(transcript) : Line(u, i)
      BY <3>2 DEF Written
    <3>4. PICK n \in Nat : n = Len(transcript)
      BY <2>1
    <3>5. transcript[n].kind = "stop" /\ transcript[u].kind = "user"
      BY <2>1, <3>3, <3>4 DEF IdleReceipt, Line
    <3>6. u # n
      BY <3>5
    <3>7. n \in 1 .. Len(transcript) /\ u < n
      BY <3>3, <3>4, <3>6
    <3>. QED BY <3>3, <3>5, <3>7 DEF Answered
  <2>. QED BY <2>2, <2>3 DEF AtRest
<1>6. RoundsInv(ctl') /\ ctl'.root # "absent"
  <2>1. CASE d.status \in {"running", "idle"}
    <3>1. d.status \in Roots \ {"absent"} /\ d.bound \in BOOLEAN
      BY <1>2, <2>1 DEF Roots, ACTIVE, DriverType
    <3>. QED BY <1>1, <1>2, <1>4, <1>5, <2>1, <3>1, RoundsObserved DEF RegularInv
  <2>2. CASE d.status \notin {"running", "idle"}
    BY <1>1, <1>4, <2>2 DEF RegularInv
  <2>. QED BY <2>1, <2>2
<1>7. PollInv'
  BY <1>3, <1>4, <1>6 DEF PollInv
<1>. QED BY <1>1, <1>3, <1>6, <1>7, DriverRound

(* The view: the controller may post a message, when all were answered. *)
LEMMA ViewRound == ASSUME IInv, IInv', RegularInv, View PROVE RegularInv'
<1>1. /\ d.pc = "rooted" /\ ctl' = Reconciled(ctl)
      /\ \/ To(IF d.status = "idle" THEN "viewed" ELSE "loop")
         \/ To("loop") /\ d.status = "running"
         \/ Leave("failed")
      /\ UNCHANGED <<offset, commands, nat, stdin, stdout, transcript>>
  BY DEF View, files, native
<1>2. ctl \in CtlType /\ ctl' \in CtlType /\ d \in DriverType
  BY DEF IInv, Typed, ControllerTyped, DriverTyped
<1>3. d.bound /\ ctl.root # "absent" /\ d.status \notin {"off", "stopped", "failed"}
  BY <1>1 DEF RegularInv, PollInv
<1>4. RoundsInv(ctl') /\ ctl'.root = ctl.root
  BY <1>1, <1>2, RoundsReconciled, RootStays DEF RegularInv
<1>5. CASE Leave("failed")
  BY <1>1, <1>3, <1>4, <1>5, LeaveRound
<1>6. CASE \E label \in {"viewed", "loop"} : To(label) /\ (label = "viewed" => d.status = "idle")
  <2>1. PICK label \in {"viewed", "loop"} : To(label) /\ (label = "viewed" => d.status = "idle")
    BY <1>6
  <2>2. d'.pc = label /\ d'.status = d.status /\ d'.since = d.since /\ d'.bound = d.bound
    BY <1>2, <2>1, ToFacts
  <2>3. PollInv'
    BY <1>3, <1>4, <2>1, <2>2 DEF PollInv
  <2>. QED BY <1>1, <1>4, <2>2, <2>3, DriverRound
<1>. QED BY <1>1, <1>5, <1>6

(* A claimed message is unknown to the session. *)
LEMMA ClaimRound == ASSUME IInv, IInv', RegularInv, Claim PROVE RegularInv'
<1>1. /\ d.pc = "viewed" /\ UNCHANGED <<offset, commands, nat, stdin, stdout, transcript>>
      /\ \/ To("loop") /\ ctl' = ctl
         \/ Leave("failed") /\ ctl' = ctl
         \/ \E i \in Pending(ctl) : /\ ctl' = Claimed(ctl, i)
                                    /\ d' = [d EXCEPT !.pc = "claimed", !.sending = i]
  BY DEF Claim, files, native
<1>2. ctl \in CtlType /\ ctl' \in CtlType /\ d \in DriverType /\ ctl.outbox \in Seq(Message)
  BY DEF IInv, Typed, ControllerTyped, DriverTyped, CtlType
<1>3. d.bound /\ ctl.root # "absent" /\ d.status = "idle" /\ RoundsInv(ctl)
  BY <1>1 DEF RegularInv, PollInv
<1>4. CASE Leave("failed") /\ ctl' = ctl
  BY <1>1, <1>3, <1>4, LeaveRound
<1>5. CASE To("loop") /\ ctl' = ctl
  <2>1. d'.pc = "loop" /\ d'.status = d.status /\ d'.since = d.since /\ d'.bound = d.bound
    BY <1>2, <1>5, ToFacts
  <2>2. PollInv'
    BY <1>3, <1>5, <2>1 DEF PollInv
  <2>. QED BY <1>1, <1>3, <1>5, <2>1, <2>2, DriverRound
<1>6. ASSUME NEW i \in Pending(ctl), ctl' = Claimed(ctl, i),
             d' = [d EXCEPT !.pc = "claimed", !.sending = i]
      PROVE  RegularInv'
  <2>1. i \in 1 .. Len(ctl.outbox) /\ ctl.outbox[i].status = "pending" /\ Len(ctl.outbox) \in Nat
    BY <1>2, <1>6 DEF Pending
  <2>2. PICK o : o = [ctl.outbox EXCEPT ![i].status = "dispatched"]
    OBVIOUS
  <2>3. PICK n : n = ctl.failures + 1
    OBVIOUS
  <2>4. ctl' = [ctl EXCEPT !.outbox = o, !.failures = n]
    BY <1>2, <1>6, <2>2, <2>3 DEF Claimed, CtlType
  <2>5. ctl'.root = ctl.root /\ ctl'.outbox = o
    BY <1>2, <2>4 DEF CtlType
  <2>6. Len(o) = Len(ctl.outbox) /\ \A j \in 1 .. Len(ctl.outbox) : j # i => o[j] = ctl.outbox[j]
    BY <1>2, <2>2
  <2>7. o[i].status = "dispatched"
    BY <1>2, <2>1, <2>2 DEF Message
  <2>8. Unknown(i)
    <3>1. i \in Nat /\ ~Sent(i)
      BY <2>1 DEF Sent
    <3>. QED BY <3>1, NativeFacts DEF TokenInv, Unknown
  <2>9. RoundsInv(ctl')
    <3>1. ASSUME ctl'.root = "idle" PROVE AtRest(ctl')
      <4>1. AtRest(ctl)
        BY <1>3, <2>5, <3>1 DEF RoundsInv
      <4>2. ASSUME NEW j \in 1 .. Len(o)
            PROVE  /\ o[j].status = "acknowledged" => Answered(j)
                   /\ o[j].status = "dispatched" => Unknown(j)
        BY <2>6, <2>7, <2>8, <4>1 DEF AtRest
      <4>. QED BY <2>5, <4>2 DEF AtRest
    <3>. QED BY <1>3, <2>5, <2>6, <3>1 DEF RoundsInv
  <2>10. d'.pc = "claimed" /\ d'.status = d.status /\ d'.since = d.since /\ d'.bound = d.bound
    BY <1>2, <1>6 DEF DriverType
  <2>11. PollInv'
    BY <1>3, <2>5, <2>10 DEF PollInv
  <2>. QED BY <1>1, <2>9, <2>10, <2>11, DriverRound
<1>. QED BY <1>1, <1>4, <1>5, <1>6

(* The controller hears that the root runs before the message is sent. *)
LEMMA TellRound == ASSUME IInv, IInv', RegularInv, Tell PROVE RegularInv'
<1>1. /\ d.pc = "claimed" /\ To("told") /\ ctl' = Observed(ctl, d.bound, "root", "running")
      /\ UNCHANGED <<offset, commands, nat, stdin, stdout, transcript>>
  BY DEF Tell, files, native
<1>2. ctl \in CtlType /\ d \in DriverType /\ d.bound \in BOOLEAN
  BY DEF IInv, Typed, ControllerTyped, DriverTyped, DriverType
<1>3. d.bound /\ ctl.root # "absent" /\ d.status = "idle" /\ RoundsInv(ctl)
  BY <1>1 DEF RegularInv, PollInv
<1>4. RoundsInv(ctl') /\ ctl'.root = "running"
  BY <1>1, <1>2, <1>3, RoundsObserved DEF Roots, ACTIVE
<1>5. d'.pc = "told" /\ d'.status = d.status /\ d'.since = d.since /\ d'.bound = d.bound
  BY <1>1, <1>2, ToFacts
<1>6. PollInv'
  BY <1>3, <1>4, <1>5 DEF PollInv
<1>. QED BY <1>1, <1>4, <1>5, <1>6, DriverRound

(* The claimed message is sent to a session at rest. *)
LEMMA SendRound == ASSUME IInv, IInv', RegularInv, Send PROVE RegularInv'
<1>1. /\ d.pc = "told" /\ UNCHANGED <<ctl, offset, commands, nat, stdout, transcript>>
      /\ Prompted(Goal(d.sending)) \/ (Leave("failed") /\ stdin' = stdin)
  BY DEF Send, files, Goal
<1>2. /\ d \in DriverType /\ commands \in Seq(Prompts) /\ offset \in 0 .. Len(commands)
      /\ Len(commands) \in Nat
  BY DEF IInv, Typed, DriverTyped, FilesTyped
<1>3. ctl.root = "running" /\ d.status = "idle" /\ RoundsInv(ctl)
  BY <1>1 DEF RegularInv, PollInv
<1>4. CASE Leave("failed") /\ stdin' = stdin
  BY <1>1, <1>3, <1>4, LeaveRound
<1>5. CASE Prompted(Goal(d.sending))
  <2>1. Goal(d.sending) \in Prompts /\ Goal(d.sending) # NoPrompt
    BY <1>2 DEF DriverType, Goal, Prompt, Prompts, NoPrompt
  <2>2. Quiet /\ ~(offset < Len(commands))
    BY <1>3 DEF RegularInv, StatusInv
  <2>3. offset' \in Nat /\ offset' >= Len(commands)
    BY <1>1, <1>2, <2>2
  <2>. QED BY <1>1, <1>2, <1>3, <1>5, <2>1, <2>2, <2>3, PromptedRound
<1>. QED BY <1>1, <1>4, <1>5

(* The native process is gone, and the controller is stopped. *)
LEMMA ShutdownRound ==
  ASSUME IInv, IInv', RegularInv, supervised, Shutdown \/ StopController PROVE RegularInv'
<1>1. /\ UNCHANGED <<offset, commands, nat, stdin, stdout, transcript>>
      /\ \/ d.pc = "closing" /\ To("halting") /\ ctl' = ctl
         \/ /\ d.pc = "halting" /\ To("resting root")
            /\ \E why \in Reasons : ctl' = Stopped(ctl, why)
  BY DEF Shutdown, StopController, To, files, native, Reasons
<1>2. ctl \in CtlType /\ d \in DriverType
  BY DEF IInv, Typed, ControllerTyped, DriverTyped
<1>3. PICK label \in {"halting", "resting root"} : To(label)
  BY <1>1
<1>4. d'.pc = label /\ d'.status = d.status /\ d'.since = d.since /\ d'.bound = d.bound
  BY <1>2, <1>3, ToFacts
<1>5. ctl.root # "absent" /\ d.status \in {"stopped", "failed"} /\ RoundsInv(ctl)
  BY <1>1 DEF RegularInv, PollInv
<1>6. RoundsInv(ctl') /\ ctl'.root # "absent"
  BY <1>1, <1>2, <1>5, StoppedPosts, RootStays, RoundsSame
<1>7. PollInv'
  BY <1>4, <1>5, <1>6 DEF PollInv
<1>. QED BY <1>1, <1>4, <1>6, <1>7, DriverRound

(* The nodes are reported as stopped. *)
LEMMA RestRound == ASSUME IInv, IInv', RegularInv, Rest PROVE RegularInv'
<1>1. /\ UNCHANGED <<offset, commands, nat, stdin, stdout, transcript>>
      /\ \/ /\ d.pc = "resting root" /\ To("resting child")
            /\ ctl' = Observed(ctl, d.bound, "root", "stopped")
         \/ /\ d.pc = "resting child" /\ d' = Off
            /\ ctl' = Observed(ctl, d.bound, "child", "stopped")
  BY DEF Rest, files, native
<1>2. ctl \in CtlType /\ d \in DriverType /\ d.bound \in BOOLEAN /\ ctl' \in CtlType
  BY DEF IInv, Typed, ControllerTyped, DriverTyped, DriverType
<1>3. ctl.root # "absent" /\ d.status \in {"stopped", "failed"} /\ RoundsInv(ctl)
  BY <1>1 DEF RegularInv, PollInv
<1>4. RoundsInv(ctl') /\ ctl'.root # "absent"
  <2>1. "stopped" \in Roots \ {"absent"} /\ "stopped" \in Children
    BY DEF Roots, Children, ACTIVE
  <2>2. CASE ctl' = Observed(ctl, d.bound, "root", "stopped")
    BY <1>2, <1>3, <2>1, <2>2, RoundsObserved
  <2>3. CASE ctl' = Observed(ctl, d.bound, "child", "stopped")
    BY <1>2, <1>3, <2>1, <2>3, RoundsChild
  <2>. QED BY <1>1, <2>2, <2>3
<1>5. CASE To("resting child")
  <2>1. d'.pc = "resting child" /\ d'.status = d.status /\ d'.since = d.since
        /\ d'.bound = d.bound
    BY <1>2, <1>5, ToFacts
  <2>2. PollInv'
    BY <1>3, <1>4, <2>1 DEF PollInv
  <2>. QED BY <1>1, <1>4, <2>1, <2>2, DriverRound
<1>6. CASE d' = Off
  <2>1. PollInv' /\ StatusInv'
    BY <1>4, <1>6, StatusGone DEF PollInv, Off
  <2>. QED BY <1>1, <1>2, <1>4, <2>1, RoundsFrame DEF RegularInv
<1>. QED BY <1>1, <1>5, <1>6

(* A refused message is pending again, and nothing of the others changes. *)
LEMMA RequeueRound == ASSUME IInv, IInv', RegularInv, Requeue PROVE RegularInv'
<1>1. PICK i \in Dispatched(ctl) : ctl' = [ctl EXCEPT !.outbox[i].status = "pending"]
  BY DEF Requeue
<1>2. /\ UNCHANGED <<d, offset, commands, nat, stdin, stdout, transcript>> /\ d.pc = "off"
      /\ ctl \in CtlType /\ ctl' \in CtlType /\ ctl.outbox \in Seq(Message)
  BY DEF Requeue, Quiescent, driver, files, native, IInv, Typed, ControllerTyped, CtlType
<1>3. PICK o : o = [ctl.outbox EXCEPT ![i].status = "pending"]
  OBVIOUS
<1>4. ctl' = [ctl EXCEPT !.outbox = o]
  BY <1>1, <1>2, <1>3 DEF CtlType
<1>5. ctl'.root = ctl.root /\ ctl'.outbox = o
  BY <1>2, <1>4 DEF CtlType
<1>6. i \in 1 .. Len(ctl.outbox) /\ Len(ctl.outbox) \in Nat
  BY <1>1, <1>2 DEF Dispatched
<1>7. Len(o) = Len(ctl.outbox) /\ \A j \in 1 .. Len(ctl.outbox) : j # i => o[j] = ctl.outbox[j]
  BY <1>2, <1>3
<1>8. o[i].status = "pending"
  BY <1>2, <1>3, <1>6 DEF Message
<1>9. RoundsInv(ctl')
  <2>1. ASSUME ctl'.root = "idle" PROVE AtRest(ctl')
    <3>1. AtRest(ctl)
      BY <1>5, <2>1 DEF RegularInv, RoundsInv
    <3>2. ASSUME NEW j \in 1 .. Len(o)
          PROVE  /\ o[j].status = "acknowledged" => Answered(j)
                 /\ o[j].status = "dispatched" => Unknown(j)
      BY <1>7, <1>8, <3>1 DEF AtRest
    <3>. QED BY <1>5, <3>2 DEF AtRest
  <2>. QED BY <1>5, <1>7, <2>1 DEF RegularInv, RoundsInv
<1>10. PollInv'
  BY <1>2, <1>5 DEF RegularInv, PollInv
<1>. QED BY <1>2, <1>9, <1>10, DriverRound

(* A probe has no messages and never polls; a supervised session is not    *)
(* observed.                                                               *)
LEMMA ProbeStays ==
  ASSUME ProbeInv, supervised \in BOOLEAN, UNCHANGED <<supervised, obs>>,
         commands' = commands \/ Len(commands') <= 1,
         supervised \/ (/\ ctl'.outbox = ctl.outbox
                        /\ d'.pc \in {d.pc, "off", "loop", "closing", "halting"})
  PROVE  ProbeInv'
BY DEF ProbeInv

(* ... whatever step is taken. *)
LEMMA ProbeStep == ASSUME IInv, ProbeInv, [Next]_vars PROVE ProbeInv'
<1>1. supervised \in BOOLEAN /\ d \in DriverType
  BY DEF IInv, Typed, DriverTyped
<1>2. CASE \/ NativeReads \/ NativeSaves \/ NativeEnds \/ NativeRestarts \/ NativeState \/ NativeDies
           \/ Child \/ SaveState \/ UNCHANGED vars
  BY <1>1, <1>2, ProbeStays
  DEF NativeReads, NativeSaves, NativeEnds, NativeRestarts, NativeState, NativeDies, Child,
      SaveState, vars, driver, files, watching, rest
<1>3. CASE Finish \/ Kill
  BY <1>1, <1>3, ProbeStays DEF Finish, Kill, files, watching, rest
<1>4. CASE Launch
  <2>1. commands' = commands \/ commands' = <<>>
    BY <1>4 DEF Launch, files
  <2>2. commands' = commands \/ Len(commands') <= 1
    BY <2>1
  <2>3. CASE supervised
    BY <1>1, <1>4, <2>2, <2>3, ProbeStays DEF Launch, watching, rest
  <2>4. CASE ~supervised
    <3>1. ctl' = ctl /\ UNCHANGED <<supervised, obs>>
      BY <1>4, <2>4 DEF Launch, watching, rest
    <3>2. PICK s, t, n : d' = [Off EXCEPT !.pc = "loop", !.status = "starting", !.session = s,
                                          !.turn = t, !.since = n]
      BY <1>4, <2>4 DEF Launch
    <3>3. d'.pc = "loop"
      BY <3>2 DEF Off
    <3>. QED BY <1>1, <2>2, <3>1, <3>3, ProbeStays
  <2>. QED BY <1>1, <2>3, <2>4
<1>5. CASE ReadCommand \/ Send
  <2>1. UNCHANGED <<supervised, obs, commands>>
    BY <1>5 DEF ReadCommand, Send, files, watching, rest
  <2>2. ASSUME ~supervised PROVE ctl' = ctl /\ d'.pc \in {"loop", "closing"}
    <3>1. ctl' = ctl /\ (Leave("failed") \/ \E p : Prompted(p))
      BY <1>5, <2>2 DEF ReadCommand, Send, ProbeInv
    <3>2. d'.pc \in {"loop", "closing"}
      BY <1>1, <3>1 DEF Prompted, Leave, DriverType
    <3>. QED BY <3>1, <3>2
  <2>. QED BY <1>1, <2>1, <2>2, ProbeStays
<1>6. CASE Command
  <2>1. UNCHANGED <<supervised, obs, ctl, d>> /\ commands' = <<Prompt("host", 0)>>
    BY <1>6 DEF Command, driver, watching, rest
  <2>2. Len(commands') <= 1
    BY <2>1
  <2>. QED BY <1>1, <2>1, <2>2, ProbeStays
<1>7. CASE Event
  <2>1. UNCHANGED <<supervised, obs, commands>> /\ d.pc = "loop"
    BY <1>7 DEF Event, files, watching, rest
  <2>2. ~supervised => ctl' = ctl
    BY <1>7 DEF Event
  <2>3. d'.pc \in {"loop", "closing"}
    <3>1. stdout[1] \in ReportType
      BY <1>7, NativeFacts DEF Event
    <3>. QED BY <1>1, <1>7, <2>1, <3>1 DEF Event, Leave, Verified, DriverType, ReportType
  <2>. QED BY <1>1, <2>1, <2>2, <2>3, ProbeStays
<1>8. CASE Ends
  BY <1>1, <1>8, ProbeStays DEF Ends, Leave, DriverType, files, watching, rest
<1>9. CASE Acknowledge \/ ObserveNodes \/ View \/ Claim \/ Tell \/ Rest
  <2>1. UNCHANGED <<supervised, obs, commands>> /\ supervised
    BY <1>1, <1>9
    DEF Acknowledge, ObserveNodes, View, Claim, Tell, Rest, Polls, ProbeInv, files, watching, rest
  <2>. QED BY <1>1, <2>1, ProbeStays
<1>10. CASE Shutdown \/ StopController
  <2>1. UNCHANGED <<supervised, obs, commands>> /\ (~supervised => ctl' = ctl)
    BY <1>10 DEF Shutdown, StopController, files, watching, rest
  <2>2. ~supervised => d'.pc \in {"halting", "off"}
    BY <1>1, <1>10 DEF Shutdown, StopController, To, Off, DriverType
  <2>. QED BY <1>1, <2>1, <2>2, ProbeStays
<1>11. CASE Requeue
  <2>1. UNCHANGED <<supervised, obs, commands, d>> /\ Dispatched(ctl) # {}
    BY <1>11 DEF Requeue, driver, files, watching, rest
  <2>2. supervised
    <3>1. ctl.outbox # <<>>
      <4>1. ASSUME ctl.outbox = <<>> PROVE Dispatched(ctl) = {}
        BY <4>1 DEF Dispatched
      <4>. QED BY <2>1, <4>1
    <3>. QED BY <1>1, <3>1 DEF ProbeInv
  <2>. QED BY <1>1, <2>1, <2>2, ProbeStays
<1>12. CASE Recover
  <2>1. /\ UNCHANGED <<supervised, obs, commands, d>> /\ ctl \in CtlType
        /\ ctl' = [ctl EXCEPT !.lifecycle = "open", !.reason = "none"]
    BY <1>12 DEF Recover, driver, files, watching, IInv, Typed, ControllerTyped
  <2>2. ctl'.outbox = ctl.outbox
    BY <2>1 DEF CtlType
  <2>. QED BY <1>1, <2>1, <2>2, ProbeStays
<1>13. CASE \/ Tick \/ Reguard \/ SaveIntent \/ AppendCommand \/ SaveQueued \/ ObserverKilled
            \/ Evaluate
  <2>1. UNCHANGED <<supervised, ctl, d>> /\ ~supervised
    BY <1>1, <1>13
    DEF Tick, Reguard, SaveIntent, AppendCommand, SaveQueued, ObserverKilled, Evaluate, Observe,
        ProbeInv, driver, rest
  <2>. QED BY <2>1 DEF ProbeInv
<1>. QED
  BY <1>2, <1>3, <1>4, <1>5, <1>6, <1>7, <1>8, <1>9, <1>10, <1>11, <1>12, <1>13 DEF Next

(* Every step of a regular session keeps what its status and rounds say. *)
LEMMA SessionStep == ASSUME Inv, Inv', SessionInv, [Next]_vars PROVE SessionInv'
<1>1. IInv /\ IInv' /\ ProbeInv
  BY DEF Inv, SessionInv
<1>2. ProbeInv'
  BY <1>1, ProbeStep
<1>3. CASE UNCHANGED vars
  <2>1. Regular' => Regular
    BY <1>3 DEF vars, Regular
  <2>. QED BY <1>1, <1>2, <1>3, <2>1, FinishRound DEF SessionInv, RegularInv
<1>4. ASSUME Next, Regular' PROVE RegularInv'
  <2>1. Regular /\ RegularInv /\ supervised /\ kid = "none" /\ ~doubled'
    BY <1>4, RegularBefore DEF SessionInv, RegularInv, Regular
  <2>2. CASE NativeReads \/ NativeSaves \/ NativeEnds
    BY <1>1, <2>1, <2>2, ReadsRound, SavesRound, EndsRound
  <2>3. CASE NativeRestarts \/ Child
    BY <1>4, <2>1, <2>3 DEF NativeRestarts, Child, Regular
  <2>4. CASE NativeState \/ NativeDies
    BY <1>1, <2>1, <2>4, StateRound, DiesRound
  <2>5. CASE Finish \/ Recover \/ SaveState
    BY <1>1, <2>1, <2>5, FinishRound
  <2>6. CASE Launch \/ ReadCommand \/ Command
    BY <1>1, <2>1, <2>6, LaunchRound, ReadCommandRound, CommandRound
  <2>7. CASE Event \/ Ends
    BY <1>1, <2>1, <2>7, EventRound, EndsDriverRound
  <2>8. CASE Acknowledge \/ ObserveNodes \/ View
    BY <1>1, <2>1, <2>8, AcknowledgeRound, ObserveNodesRound, ViewRound
  <2>9. CASE Claim \/ Tell \/ Send
    BY <1>1, <2>1, <2>9, ClaimRound, TellRound, SendRound
  <2>10. CASE Shutdown \/ StopController \/ Rest \/ Kill \/ Requeue
    BY <1>1, <2>1, <2>10, ShutdownRound, RestRound, KillRound, RequeueRound
  <2>11. CASE Tick \/ Reguard \/ SaveIntent \/ AppendCommand \/ SaveQueued \/ ObserverKilled
    BY <1>1, <2>1, <2>11
    DEF ProbeInv, Tick, Reguard, SaveIntent, AppendCommand, SaveQueued, ObserverKilled
  <2>12. CASE Evaluate
    BY <2>1, <2>12 DEF Evaluate
  <2>. QED BY <1>4, <2>2, <2>3, <2>4, <2>5, <2>6, <2>7, <2>8, <2>9, <2>10, <2>11, <2>12 DEF Next
<1>. QED BY <1>2, <1>3, <1>4 DEF SessionInv, RegularInv

(* Before anything starts there is no status and no message. *)
LEMMA SessionInit == ASSUME Init PROVE SessionInv
<1>1. /\ ctl.root = "absent" /\ ctl.outbox = <<>> /\ d = Off /\ commands = <<>> /\ obs.pc = "off"
  BY DEF Init
<1>2. d.pc = "off" /\ d.status = "off" /\ Len(commands) = 0 /\ Len(ctl.outbox) = 0
  BY <1>1 DEF Off
<1>. QED BY <1>1, <1>2 DEF SessionInv, RegularInv, ProbeInv, StatusInv, PollInv, RoundsInv

(* As long as no child starts turns and no end was believed twice, a round *)
(* begins only when the session gave its final answer to the one before    *)
(* (recovered_idle, reconcile, acknowledge before observe in poll).        *)
THEOREM RoundsAreAnswered == Spec => []RoundsAnswered
<1>1. Init => SessionInv
  BY SessionInit
<1>2. Inv /\ Inv' /\ SessionInv /\ [Next]_vars => SessionInv'
  BY SessionStep
<1>3. Inv /\ SessionInv => RoundsAnswered
  <2>1. ASSUME Inv, SessionInv, kid = "none", ~doubled, NEW i \in 1 .. Len(ctl.outbox) - 1
        PROVE  \E u, e \in 1 .. Len(transcript) :
                 /\ u < e /\ transcript[e].kind = "stop"
                 /\ transcript[u].kind = "user" /\ transcript[u].prompt = Prompt("goal", i)
    <3>1. supervised \in BOOLEAN
      BY <2>1 DEF Inv, IInv, Typed, DriverTyped
    <3>2. CASE supervised
      BY <2>1, <3>2 DEF SessionInv, RegularInv, Regular, RoundsInv, Answered, Line, Goal
    <3>3. CASE ~supervised
      <4>1. Len(ctl.outbox) = 0
        BY <2>1, <3>3 DEF SessionInv, ProbeInv
      <4>. QED BY <2>1, <4>1
    <3>. QED BY <3>1, <3>2, <3>3
  <2>. QED BY <2>1 DEF RoundsAnswered
<1>. QED BY <1>1, <1>2, <1>3, Invariance, PTL DEF Spec
=============================================================================
