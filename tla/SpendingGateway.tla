--------------------------- MODULE SpendingGateway ---------------------------
(***************************************************************************)
(* What a commission may spend: the ledger of src/tools/openai_budget.py,  *)
(* the gateway of openai_gateway.py, which reserves in it before each paid *)
(* request, and openai_guardian.py, which closes admission.  The gateway   *)
(* serves each call in threads of its own; gateway.json, the control file, *)
(* is read and overwritten whole by the gateway and by the guardian, which *)
(* share no lock.                                                          *)
(*                                                                         *)
(* Abstracted: a ledger method is one step (flock around load and an       *)
(* atomic save); a request's price bound is its size, the same for every   *)
(* attempt, and a verified charge lies between 1 and it; refused requests  *)
(* that never get past validate only stop the ledger, like a closed        *)
(* admission; the deadline and the disk reserve act like a disabled        *)
(* control; provider, native client, supervisor and the end of the         *)
(* experiment are the environment.                                         *)
(***************************************************************************)
EXTENDS Integers, Sequences, FiniteSets

CONSTANTS Calls,        \* threads that may serve a call
          Root, Kids,   \* native sessions: the parent's and other ones
          None,         \* no session, no call, no ticket
          Cap,          \* cap_nano
          Sizes,        \* price bounds of requests
          Retries,      \* capacity retries: the length of CAPACITY_DELAYS
          MaxInflight,  \* maximum_inflight
          MaxRestarts   \* bound on deaths of the gateway

ASSUME SpendingGatewayAssumption ==
  /\ Root \notin Kids /\ None \notin Kids \cup Calls \cup {Root}
  /\ Cap \in Nat \ {0} /\ Sizes \subseteq Nat \ {0}
  /\ Retries \in Nat /\ MaxInflight \in Nat \ {0} /\ MaxRestarts \in Nat

VARIABLES
  \* budget.json
  stopped,    \* "none", "review" for a reason recover_infrastructure takes, or "final"
  requests,   \* the requests, by ticket
  \* gateway.json
  enabled, child_session,
  \* the gateway's process
  up,         \* it runs
  gate,       \* the call that holds Gateway.lock
  active,     \* Gateway.active
  pc, call,   \* where each call is, and what it serves
  \* the guardian's process
  guard, seen,\* where its round is, and the control it has read
  closed,     \* the experiment is closed, as the driver's status says
  \* history
  restarts

ledger  == <<stopped, requests>>
control == <<enabled, child_session>>
serving == <<gate, active, pc, call>>
guarded == <<guard, seen, closed>>
vars    == <<ledger, control, up, serving, guarded, restarts>>

Statuses == {"pending", "settled", "uncertain", "violation", "capacity_hold"}
NoCall == [session |-> None, size |-> 0, attempt |-> 0, ticket |-> 0,
           counted |-> FALSE, enabled |-> FALSE]

Init ==
  /\ stopped = "none" /\ requests = <<>>
  /\ enabled = TRUE /\ child_session = None
  /\ up = TRUE /\ gate = None /\ active = {}
  /\ pc = [c \in Calls |-> "idle"] /\ call = [c \in Calls |-> NoCall]
  /\ guard = "look" /\ seen = None /\ closed = FALSE
  /\ restarts = 0

-----------------------------------------------------------------------------
(* The ledger's methods *)

Charge(r) == IF r.status = "settled" THEN r.charged ELSE r.size
Total(s) ==
  LET total[t \in 0 .. Len(s)] == IF t = 0 THEN 0 ELSE total[t - 1] + Charge(s[t])
  IN  total[Len(s)]
Committed == Total(requests)
Has(statuses) == \E t \in DOMAIN requests : requests[t].status \in statuses

StopWith(reason) == stopped' = IF stopped = "none" THEN reason ELSE stopped

(* The reservation is refused, or refused and the ledger stopped, or made. *)
CannotReserve == stopped # "none" \/ Has({"uncertain", "violation"})

Fits(size) == Committed + size <= Cap
NewRequest(size) == [size |-> size, status |-> "pending", charged |-> 0]

(* uncertain: a pending ticket keeps its reservation, the ledger stops. *)
Uncertain(t, reason) ==
  /\ requests' = IF requests[t].status = "pending"
                 THEN [requests EXCEPT ![t].status = "uncertain"] ELSE requests
  /\ StopWith(reason)

(* Mutant: a capacity hold is given back on recovery. *)
RecoverForgiving ==
  /\ stopped = "review"
  /\ ~Has({"pending", "uncertain", "violation"}) /\ Committed < Cap
  /\ stopped' = "none"
  /\ requests' = [t \in DOMAIN requests |->
                    IF requests[t].status = "capacity_hold"
                    THEN [requests[t] EXCEPT !.size = 0] ELSE requests[t]]
  /\ UNCHANGED <<control, up, serving, guarded, restarts>>

(* recover_infrastructure, after a review by the owner. *)
Recover ==
  /\ stopped = "review"
  /\ ~Has({"pending", "uncertain", "violation"}) /\ Committed < Cap
  /\ stopped' = "none"
  /\ UNCHANGED <<requests, control, up, serving, guarded, restarts>>

-----------------------------------------------------------------------------
(* do_POST *)

Goto(c, label) == pc' = [pc EXCEPT ![c] = label]
Done(c) == /\ pc' = [pc EXCEPT ![c] = "idle"]
           /\ call' = [call EXCEPT ![c] = NoCall]
           /\ active' = active \ {c}

(* The session matters no more to what follows. *)
Admitted(c) == /\ active' = active \cup {c} /\ Goto(c, "allowed")
               /\ call' = [call EXCEPT ![c].session = None, ![c].enabled = FALSE]

Post(c, session, size) ==
  /\ up /\ pc[c] = "idle"
  /\ IF enabled
     THEN /\ Goto(c, "admit") /\ UNCHANGED stopped
          /\ call' = [call EXCEPT ![c] = [NoCall EXCEPT !.session = session, !.size = size]]
     ELSE StopWith("final") /\ UNCHANGED <<pc, call>>
  /\ UNCHANGED <<requests, control, up, gate, active, guarded, restarts>>

(* Under Gateway.lock: the limit, and the one child session.  A new child  *)
(* session is bound with the control that is read here.                    *)
Admit(c) ==
  /\ pc[c] = "admit" /\ gate = None
  /\ LET session  == call[c].session
         crowded  == Cardinality(active) >= MaxInflight
         stranger == session # Root /\ child_session \notin {None, session}
     IN  \/ /\ crowded \/ stranger
            /\ StopWith("final") /\ Done(c) /\ UNCHANGED gate
         \/ /\ ~crowded /\ session # Root /\ child_session = None
            /\ gate' = c /\ Goto(c, "bind")
            /\ call' = [call EXCEPT ![c].enabled = enabled]
            /\ UNCHANGED <<stopped, active>>
         \/ /\ ~crowded /\ session \in {Root, child_session}
            /\ Admitted(c)
            /\ UNCHANGED <<stopped, gate>>
  /\ UNCHANGED <<requests, control, up, guarded, restarts>>

Bind(c) ==
  /\ pc[c] = "bind"
  /\ enabled' = call[c].enabled /\ child_session' = call[c].session
  /\ gate' = None /\ Admitted(c)
  /\ UNCHANGED <<ledger, up, guarded, restarts>>

(* The client's connection breaks; the request goes on to its settlement. *)
Disconnect(c) ==
  /\ pc[c] \notin {"idle", "admit", "bind"}
  /\ StopWith("final")
  /\ UNCHANGED <<requests, control, up, serving, guarded, restarts>>

-----------------------------------------------------------------------------
(* upstream *)

(* Its handler of exceptions. *)
Fail(c, reason) ==
  /\ Done(c)
  /\ IF call[c].ticket = 0 THEN StopWith(reason) /\ UNCHANGED requests
     ELSE Uncertain(call[c].ticket, reason)

(* allowed, by do_POST, before an attempt and while one is waited for, reads *)
(* the control and then the ledger; until it is known, the unpaid token    *)
(* count is asked for, which may fail or meet an overload.                  *)
Permitted == enabled /\ stopped = "none"

Allowed(c) ==
  /\ pc[c] = "allowed"
  /\ \/ /\ Permitted
        /\ Goto(c, "reserve") /\ call' = [call EXCEPT ![c].counted = TRUE]
        /\ UNCHANGED <<ledger, active>>
     \/ /\ Permitted /\ ~call[c].counted
        /\ Goto(c, "retry")
        /\ UNCHANGED <<ledger, active, call>>
     \/ /\ Permitted => ~call[c].counted
        /\ Fail(c, "final")
  /\ UNCHANGED <<control, up, gate, guarded, restarts>>

Reserve(c) ==
  /\ pc[c] = "reserve"
  /\ \/ /\ CannotReserve \/ ~Fits(call[c].size)
        /\ Fail(c, "final")
     \/ /\ ~CannotReserve /\ Fits(call[c].size)
        /\ requests' = Append(requests, NewRequest(call[c].size))
        /\ call' = [call EXCEPT ![c].ticket = Len(requests) + 1]
        /\ Goto(c, "receive")
        /\ UNCHANGED <<stopped, active>>
  /\ UNCHANGED <<control, up, gate, guarded, restarts>>

Settle(t, charge) ==
  requests' = [requests EXCEPT ![t].status = "settled", ![t].charged = charge]

(* The paid request and its answer: settled with its usage, perhaps of a   *)
(* failed response, which stops the ledger; an overload, with or without   *)
(* usage, to be retried; usage beyond the reservation; or anything else.   *)
Receive(c) ==
  /\ pc[c] = "receive"
  /\ LET t == call[c].ticket
     IN  \/ \E charge \in 1 .. call[c].size :
              /\ Settle(t, charge)
              /\ \/ Goto(c, "emit") /\ (StopWith("final") \/ UNCHANGED stopped)
                 \/ Goto(c, "retry") /\ UNCHANGED stopped
              /\ UNCHANGED <<active, call>>
         \/ /\ requests' = [requests EXCEPT ![t].status = "capacity_hold"]
            /\ Goto(c, "retry") /\ UNCHANGED <<stopped, active, call>>
         \/ /\ requests' = [requests EXCEPT ![t].status = "violation"]
            /\ stopped' = "final" /\ Done(c)
         \/ Fail(c, "final")
  /\ UNCHANGED <<control, up, gate, guarded, restarts>>

(* Output is passed on only after settlement. *)
Emit(c) ==
  /\ pc[c] = "emit"
  /\ Done(c)
  /\ UNCHANGED <<ledger, control, up, gate, guarded, restarts>>

(* After an overload: the retries are counted, the funds are looked at when *)
(* a ticket was reserved, and the next attempt waits for its time.          *)
Retry(c) ==
  /\ pc[c] = "retry"
  /\ LET hopeless == \/ call[c].attempt = Retries
                     \/ call[c].ticket # 0 /\ Committed + call[c].size > Cap
     IN  \/ hopeless /\ Fail(c, "final")
         \/ /\ ~hopeless /\ Goto(c, "allowed")
            /\ call' = [call EXCEPT ![c].attempt = @ + 1, ![c].ticket = 0]
            /\ UNCHANGED <<ledger, active>>
  /\ UNCHANGED <<control, up, gate, guarded, restarts>>

-----------------------------------------------------------------------------
(* The gateway's process dies with every thread, and is started again. *)
Crash ==
  /\ up /\ restarts < MaxRestarts
  /\ up' = FALSE /\ restarts' = restarts + 1
  /\ gate' = None /\ active' = {}
  /\ pc' = [c \in Calls |-> "idle"] /\ call' = [c \in Calls |-> NoCall]
  /\ UNCHANGED <<ledger, control, guarded>>

(* Mutant: pending requests of an earlier process are overlooked. *)
StartUnchecked ==
  /\ ~up /\ up' = TRUE
  /\ UNCHANGED <<ledger, control, serving, guarded, restarts>>

Start ==
  /\ ~up /\ up' = TRUE
  /\ IF Has({"pending"}) THEN StopWith("final") ELSE UNCHANGED stopped
  /\ UNCHANGED <<requests, control, serving, guarded, restarts>>

-----------------------------------------------------------------------------
(* The guardian's round, every two seconds *)

(* A closed experiment or a stopped ledger closes admission, and so does a *)
(* fault, which stops the ledger first: the control is read ...            *)
ReadControl == guard' = "disable" /\ seen' = child_session

Look ==
  /\ guard = "look"
  /\ IF closed THEN enabled ELSE stopped # "none"
  /\ ReadControl
  /\ UNCHANGED <<ledger, control, up, serving, closed, restarts>>

Fault ==
  /\ guard = "look" /\ ~closed
  /\ StopWith("review")
  /\ ReadControl
  /\ UNCHANGED <<requests, control, up, serving, closed, restarts>>

(* Mutant: one round is enough. *)
DisableOnce ==
  /\ guard = "disable"
  /\ enabled' = FALSE /\ child_session' = seen
  /\ guard' = "finished" /\ seen' = None
  /\ UNCHANGED <<ledger, up, serving, closed, restarts>>

(* ... and written back, disabled. *)
Disable ==
  /\ guard = "disable"
  /\ enabled' = FALSE /\ child_session' = seen
  /\ guard' = "look" /\ seen' = None
  /\ UNCHANGED <<ledger, up, serving, closed, restarts>>

(* The environment: the controller closes the experiment, and the owner    *)
(* opens a campaign again that was not closed.                             *)
Close ==
  /\ ~closed /\ closed' = TRUE
  /\ UNCHANGED <<ledger, control, up, serving, guard, seen, restarts>>

Enable ==
  /\ ~closed /\ stopped = "none" /\ ~enabled /\ guard = "look"
  /\ enabled' = TRUE
  /\ UNCHANGED <<ledger, child_session, up, serving, guarded, restarts>>

-----------------------------------------------------------------------------
Step(c) ==
  \/ Admit(c) \/ Bind(c) \/ Allowed(c) \/ Reserve(c)
  \/ Receive(c) \/ Emit(c) \/ Retry(c)

Next ==
  \/ \E c \in Calls :
       \/ \E session \in Kids \cup {Root} : \E size \in Sizes : Post(c, session, size)
       \/ Step(c) \/ Disconnect(c)
  \/ Crash \/ Start \/ Recover
  \/ Look \/ Fault \/ Disable \/ Close \/ Enable

Spec == Init /\ [][Next]_vars

(* The guardian makes its rounds; nothing else need ever happen. *)
FairSpec == Spec /\ WF_vars(Look) /\ WF_vars(Disable)

-----------------------------------------------------------------------------
Requests == [size : Sizes, status : Statuses, charged : Nat]
Serving(c) == pc[c] \notin {"idle", "admit", "bind"}

(* Types; the calls being served are the active ones, no more than allowed; *)
(* a closed ticket belongs to no call that still waits for its answer.      *)
TypeOK ==
  /\ stopped \in {"none", "review", "final"} /\ requests \in Seq(Requests)
  /\ enabled \in BOOLEAN /\ child_session \in Kids \cup {None}
  /\ up \in BOOLEAN /\ gate \in Calls \cup {None} /\ closed \in BOOLEAN
  /\ guard \in {"look", "disable"} /\ seen \in Kids \cup {None}
  /\ active = {c \in Calls : Serving(c)} /\ Cardinality(active) <= MaxInflight
  /\ restarts \in 0 .. MaxRestarts
  /\ \A c \in Calls : /\ pc[c] = "bind" <=> gate = c
                      /\ pc[c] = "receive" => requests[call[c].ticket].status = "pending"

(* Charges and outstanding reservations together never pass the cap,       *)
(* however many calls reserve at once and whatever is recovered.           *)
WithinCap == Committed <= Cap

(* A request whose answer nobody waits for, because the gateway died, is   *)
(* never left behind by a running campaign: its charge is unknown.         *)
OrphansStop ==
  up /\ stopped = "none" =>
    \A t \in DOMAIN requests :
      requests[t].status = "pending" =>
        \E c \in Calls : pc[c] = "receive" /\ call[c].ticket = t

(* What was reserved is charged or kept: no request disappears, and one    *)
(* that is closed stays as it was, over retries, recoveries and restarts.  *)
ChargesKept ==
  [][\A t \in DOMAIN requests :
       /\ t \in DOMAIN requests'
       /\ requests'[t].size = requests[t].size
       /\ requests[t].status # "pending" => requests'[t] = requests[t]]_vars

(* The cap holds over everything ever reserved. *)
SpendingAccounted == []WithinCap /\ ChargesKept

(* Once the experiment is closed admission ends for good, although the     *)
(* gateway may write the control it read before over the guardian's.       *)
AdmissionEnds == closed ~> []~enabled
=============================================================================
