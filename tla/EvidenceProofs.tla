---------------------------- MODULE EvidenceProofs ----------------------------
(***************************************************************************)
(* Proofs about what a verdict rests on: the journal that records it       *)
(* (module Ledger), for any number of processes and any length, and the    *)
(* evaluation that reaches it (module Scoring), for any objects, cards,    *)
(* declarations, numbers of trials and measurements, and flaws.            *)
(***************************************************************************)
EXTENDS Ledger, Scoring, FiniteSetTheorems, WellFoundedInduction, TLAPS

-----------------------------------------------------------------------------
(* The journal. *)

Holding == {"locked", "append", "writing", "spoiled", "written"}

(* What the lock protects: only its holder is inside a call, the event it  *)
(* is about to append follows the journal as it stands, and no torn line   *)
(* precedes the one it writes.                                             *)
Follows(j, e) ==
  IF j = <<>> THEN e.state.stage = "created"
  ELSE Allowed(e.operation, Latest(j).stage, e.state.stage)

CallInv(p) ==
  /\ pc[p] \in Holding => holder = p
  /\ pc[p] # "spoiled"
  /\ pc[p] = "append" => ~torn
  /\ pc[p] = "writing" => torn
  /\ pc[p] \in {"append", "writing"} =>
       /\ draft[p] \in Event
       /\ draft[p].event_id = Len(journal) + 1
       /\ draft[p].previous_state = Latest(journal).stage
       /\ draft[p].state.count = Len(journal)
       /\ Follows(journal, draft[p])
  /\ pc[p] = "written" =>
       /\ draft[p] \in Event
       /\ draft[p].event_id = Len(journal)
       /\ Len(journal) > 0
       /\ journal[Len(journal)] = draft[p]

HolderInv == \A p \in Procs : CallInv(p)

IInv ==
  /\ TypeOK
  /\ torn \/ journal # <<>> => exists
  /\ journal \in Seq(Event)
  /\ HolderInv
  /\ NeverCorrupt
  /\ NoLostUpdate
  /\ AckedDurable
  /\ OneWay

-----------------------------------------------------------------------------
(* The latest state of a journal of events. *)
LEMMA LatestType ==
  ASSUME NEW j \in Seq(Event)
  PROVE  /\ Latest(j).stage \in Stages \cup {NoStage}
         /\ Latest(j).count \in Nat
         /\ j # <<>> => Latest(j) = j[Len(j)].state /\ Latest(j) \in State
<1>1. CASE j = <<>>
  BY <1>1 DEF Latest, StateAt, NoState
<1>2. CASE j # <<>>
  <2>1. Len(j) # 0 /\ j[Len(j)] \in Event
    BY <1>2
  <2>2. j[Len(j)].state \in State
    BY <2>1 DEF Event
  <2>. QED
    BY <1>2, <2>1, <2>2 DEF Latest, StateAt, State
<1>. QED
  BY <1>1, <1>2

(* Leaving a call keeps the types of everything it resets. *)
LEMMA LeaveType ==
  ASSUME NEW p \in Procs, TypeOK, Leave(p)
  PROVE  /\ holder' \in Procs \cup {NoOne}
         /\ pc' \in [Procs -> {"idle", "waiting", "locked", "append",
                               "writing", "spoiled", "written"}]
         /\ call' \in [Procs -> [op : Ops, stage : Stages]]
         /\ draft' \in [Procs -> Event \cup {NoEvent}]
BY DEF TypeOK, Leave, NoCall, Ops, Stages

(* Garbage has no place in a well-formed journal. *)
LEMMA WellFormedEvents ==
  ASSUME NEW j \in Seq(Event \cup {Garbage}), WellFormed(j)
  PROVE  j \in Seq(Event)
<1>1. ASSUME NEW i \in 1 .. Len(j) PROVE j[i] \in Event
  <2>1. j[i] \in Event \cup {Garbage} /\ j[i].event_id # 0
    BY DEF WellFormed
  <2>. QED
    BY <2>1 DEF Garbage, NoEvent
<1>. QED
  BY <1>1

(* An event that follows a well-formed journal extends it to a well-formed *)
(* one, and the update counts stay in step with the positions.             *)
LEMMA AppendWellFormed ==
  ASSUME NEW j \in Seq(Event), WellFormed(j),
         \A i \in 1 .. Len(j) : j[i].state.count = i - 1,
         NEW e \in Event, e.event_id = Len(j) + 1,
         e.previous_state = Latest(j).stage, e.state.count = Len(j)
  PROVE  /\ WellFormed(Append(j, e))
         /\ \A i \in 1 .. Len(Append(j, e)) : Append(j, e)[i].state.count = i - 1
<1> DEFINE k == Append(j, e)
<1>1. /\ Len(k) = Len(j) + 1
      /\ \A i \in 1 .. Len(j) : k[i] = j[i]
      /\ k[Len(j) + 1] = e
  OBVIOUS
<1>2. ASSUME NEW i \in 1 .. Len(k)
      PROVE  /\ k[i].event_id = i
             /\ k[i].previous_state = StateAt(k, i - 1).stage
             /\ k[i].state.count = i - 1
  <2>1. CASE i \in 1 .. Len(j)
    <3>1. StateAt(k, i - 1) = StateAt(j, i - 1)
      BY <1>1, <2>1 DEF StateAt
    <3>. QED
      BY <1>1, <2>1, <3>1 DEF WellFormed
  <2>2. CASE i = Len(j) + 1
    <3>1. StateAt(k, i - 1) = Latest(j)
      BY <1>1, <2>2 DEF StateAt, Latest
    <3>. QED
      BY <1>1, <2>2, <3>1
  <2>. QED
    BY <1>1, <2>1, <2>2, SMTT(30)
<1>. QED
  BY <1>2 DEF WellFormed

(* An event Allowed after the latest stage keeps the run one-way: the      *)
(* event before it carries what is known of all the earlier ones.          *)
LEMMA AppendOneWay ==
  ASSUME NEW j \in Seq(Event), NEW e \in Event, OneWayIn(j), Follows(j, e)
  PROVE  OneWayIn(Append(j, e))
<1> DEFINE k == Append(j, e)
           st(h) == k[h].state.stage
<1>1. /\ Len(k) = Len(j) + 1 /\ Len(j) \in Nat
      /\ \A i \in 1 .. Len(j) : k[i] = j[i]
      /\ k[Len(j) + 1] = e
  OBVIOUS
<1>2. ASSUME NEW i \in 1 .. Len(k) PROVE st(i) \in Stages
  <2>1. k[i] \in Event
    BY <1>1
  <2>. QED
    BY <2>1 DEF Event, State
<1>3. ASSUME j # <<>>
      PROVE  /\ Len(j) \in 1 .. Len(j) /\ Latest(j).stage = st(Len(j))
             /\ st(Len(j)) \in Terminal =>
                  st(Len(j) + 1) = st(Len(j)) /\ e.operation = "disclose"
             /\ st(Len(j) + 1) # st(Len(j)) => st(Len(j) + 1) \in NEXT[st(Len(j))]
  <2>1. Len(j) \in 1 .. Len(j) /\ Latest(j).stage = st(Len(j))
    BY <1>1, <1>3, LatestType
  <2>. QED
    BY <1>1, <1>3, <2>1 DEF Follows, Allowed
<1>4. ASSUME NEW h \in 1 .. Len(k), st(h) = "private_started"
      PROVE  \E f \in 1 .. h - 1 : st(f) = "frozen"
  <2>1. CASE h \in 1 .. Len(j)
    <3>1. PICK f \in 1 .. h - 1 : j[f].state.stage = "frozen"
      BY <1>1, <1>4, <2>1 DEF OneWayIn
    <3>. QED
      BY <1>1, <2>1, <3>1
  <2>2. CASE h = Len(j) + 1
    <3>1. j # <<>>
      BY <1>1, <1>4, <2>2 DEF Follows
    <3>2. st(Len(j)) \in {"frozen", "private_started"}
      BY <1>1, <1>2, <1>3, <1>4, <2>2, <3>1 DEF NEXT, Stages
    <3>3. CASE st(Len(j)) = "frozen"
      BY <1>1, <1>3, <2>2, <3>1, <3>3
    <3>4. CASE st(Len(j)) = "private_started"
      <4>1. PICK f \in 1 .. Len(j) - 1 : j[f].state.stage = "frozen"
        BY <1>1, <1>3, <3>1, <3>4 DEF OneWayIn
      <4>. QED
        BY <1>1, <2>2, <4>1
    <3>. QED
      BY <3>2, <3>3, <3>4
  <2>. QED
    BY <1>1, <2>1, <2>2
<1>5. ASSUME NEW i \in 1 .. Len(k), NEW h \in 1 .. Len(k), i < h
      PROVE  /\ st(i) \in {"frozen", "private_started"} \cup Terminal =>
                  st(h) \notin {"created", "public_search", "public_ready"}
             /\ st(i) \in Terminal => st(h) = st(i) /\ k[h].operation = "disclose"
  <2>1. CASE h \in 1 .. Len(j)
    BY <1>1, <1>5, <2>1 DEF OneWayIn
  <2>2. CASE h = Len(j) + 1
    <3> DEFINE m == Len(j)
    <3>1. j # <<>> /\ i <= m /\ i \in 1 .. Len(j) /\ m \in 1 .. Len(j)
      BY <1>1, <1>5, <2>2
    <3>2. /\ st(i) \in {"frozen", "private_started"} \cup Terminal =>
               st(m) \in {"frozen", "private_started"} \cup Terminal
          /\ st(i) \in Terminal => st(m) = st(i)
      <4>1. CASE i = m
        BY <4>1
      <4>2. CASE i < m
        BY <1>1, <1>2, <3>1, <4>2 DEF OneWayIn, Stages, Terminal
      <4>. QED
        BY <1>1, <3>1, <4>1, <4>2
    <3>3. st(m) \in {"frozen", "private_started"} \cup Terminal =>
            st(h) \notin {"created", "public_search", "public_ready"}
      BY <1>3, <2>2, <3>1 DEF NEXT, Terminal
    <3>. QED
      BY <1>1, <1>3, <2>2, <3>1, <3>2, <3>3
  <2>. QED
    BY <1>1, <2>1, <2>2
<1>. QED
  BY <1>4, <1>5 DEF OneWayIn

-----------------------------------------------------------------------------
(* The initial state has the right types. *)
LEMMA InitTypes == Init => TypeOK
<1> SUFFICES ASSUME Init PROVE TypeOK
  OBVIOUS
<1>1. NoCall \in [op : Ops, stage : Stages]
  BY DEF NoCall, Ops, Stages
<1>2. /\ exists \in BOOLEAN /\ torn \in BOOLEAN
      /\ holder \in Procs \cup {NoOne} /\ cache \in State \cup {NoState}
  BY DEF Init
<1>3. journal \in Seq(Event \cup {Garbage}) /\ acked \subseteq Event \cup {NoEvent}
  BY DEF Init
<1>4. /\ pc \in [Procs -> {"idle", "waiting", "locked", "append",
                           "writing", "spoiled", "written"}]
      /\ call \in [Procs -> [op : Ops, stage : Stages]]
      /\ draft \in [Procs -> Event \cup {NoEvent}]
  BY <1>1 DEF Init
<1>. QED
  BY <1>2, <1>3, <1>4 DEF TypeOK

(* Types are preserved by every step. *)
THEOREM TypeCorrect == Spec => []TypeOK
<1>1. Init => TypeOK
  BY InitTypes
<1>2. TypeOK /\ [Next]_vars => TypeOK'
  <2> SUFFICES ASSUME TypeOK, [Next]_vars
               PROVE  TypeOK'
    OBVIOUS
  <2>1. CASE UNCHANGED vars
    BY <2>1 DEF vars, TypeOK
  <2>2. ASSUME NEW p \in Procs, NEW op \in Ops, NEW stage \in Stages,
               Begin(p, op, stage)
        PROVE  TypeOK'
    BY <2>2 DEF Begin, TypeOK
  <2>3. ASSUME NEW p \in Procs, Acquire(p) PROVE TypeOK'
    BY <2>3 DEF Acquire, TypeOK
  <2>4. ASSUME NEW p \in Procs, CreateCheck(p) PROVE TypeOK'
    <3>1. CASE Leave(p)
      BY <2>4, <3>1, LeaveType DEF CreateCheck, TypeOK
    <3>2. CASE ~Leave(p)
      <4>1. NextEvent(<<>>, "create", [stage |-> "created", count |-> 0]) \in Event
        BY DEF NextEvent, Event, Latest, StateAt, NoState, State, Stages, Ops
      <4>. QED
        BY <2>4, <3>2, <4>1 DEF CreateCheck, TypeOK
    <3>. QED
      BY <3>1, <3>2
  <2>5. ASSUME NEW p \in Procs, ReadRefused(p) PROVE TypeOK'
    BY <2>5, LeaveType DEF ReadRefused, TypeOK
  <2>6. ASSUME NEW p \in Procs, Truncate(p) PROVE TypeOK'
    BY <2>6 DEF Truncate, TypeOK
  <2>7. ASSUME NEW p \in Procs, ReadState(p) PROVE TypeOK'
    <3>0. journal \in Seq(Event) /\ journal # <<>>
      BY <2>7, WellFormedEvents DEF ReadState, TypeOK
    <3>1. Latest(journal) \in State
      BY <3>0, LatestType
    <3>2. cache' \in State \cup {NoState}
      BY <2>7, <3>1 DEF ReadState
    <3>3. CASE Leave(p)
      BY <2>7, <3>2, <3>3, LeaveType DEF ReadState, TypeOK
    <3>4. CASE ~Leave(p)
      <4> DEFINE new == [stage |-> call[p].stage, count |-> Latest(journal).count + 1]
      <4>1. /\ pc' = [pc EXCEPT ![p] = "append"]
            /\ draft' = [draft EXCEPT ![p] = NextEvent(journal, call[p].op, new)]
            /\ UNCHANGED <<exists, journal, torn, acked, holder, call>>
        BY <2>7, <3>4 DEF ReadState
      <4>2. NextEvent(journal, call[p].op, new) \in Event
        BY <3>0, <3>1, LatestType DEF NextEvent, TypeOK, Event, State
      <4>. QED
        BY <3>2, <4>1, <4>2 DEF TypeOK
    <3>. QED
      BY <3>3, <3>4
  <2>8. ASSUME NEW p \in Procs, WritePart(p) PROVE TypeOK'
    BY <2>8 DEF WritePart, TypeOK
  <2>9. ASSUME NEW p \in Procs, WriteRest(p) PROVE TypeOK'
    <3>1. journal' \in Seq(Event \cup {Garbage})
      BY <2>9 DEF WriteRest, TypeOK, Garbage
    <3>. QED
      BY <2>9, <3>1 DEF WriteRest, TypeOK
  <2>10. ASSUME NEW p \in Procs, SaveCache(p) PROVE TypeOK'
    <3>1. draft[p] \in Event \cup {NoEvent} /\ draft[p].state \in State \cup {NoState}
      BY DEF TypeOK, Event, NoEvent
    <3>. QED
      BY <2>10, <3>1, LeaveType DEF SaveCache, TypeOK
  <2>11. ASSUME NEW p \in Procs, IOError(p) PROVE TypeOK'
    BY <2>11, LeaveType DEF IOError, TypeOK
  <2>12. ASSUME NEW p \in Procs, Crash(p) PROVE TypeOK'
    BY <2>12 DEF Crash, TypeOK, NoCall, Ops, Stages
  <2>. QED
    BY <2>1, <2>2, <2>3, <2>4, <2>5, <2>6, <2>7, <2>8, <2>9, <2>10, <2>11, <2>12
       DEF Next, Step
<1>. QED
  BY <1>1, <1>2, PTL DEF Spec

-----------------------------------------------------------------------------
(* The inductive invariant: types, the lock's protection and the journal's *)
(* properties.                                                             *)
LEMMA InvInit == Init => IInv
<1> SUFFICES ASSUME Init PROVE IInv
  OBVIOUS
<1>1. TypeOK
  BY InitTypes
<1>2. HolderInv
  BY DEF Init, HolderInv, CallInv, Holding
<1>3. NeverCorrupt /\ NoLostUpdate /\ AckedDurable /\ OneWay
  BY DEF Init, NeverCorrupt, WellFormed, NoLostUpdate, AckedDurable, OneWay, OneWayIn
<1>. QED
  BY <1>1, <1>2, <1>3 DEF Init, IInv

(* The lock is exclusive. *)
LEMMA Exclusive ==
  ASSUME HolderInv, NEW p \in Procs, pc[p] \in Holding,
         NEW q \in Procs, q # p
  PROVE  pc[q] \notin Holding
BY DEF HolderInv, CallInv

(* A process outside its critical section satisfies its part trivially. *)
LEMMA OutsideHolds ==
  ASSUME NEW q \in Procs, pc[q] \notin Holding
  PROVE  CallInv(q)
BY DEF CallInv, Holding

(* A step of the holder p, which leaves the others where they were. *)
LEMMA HolderStep ==
  ASSUME IInv, TypeOK', NEW p \in Procs, pc[p] \in Holding,
         \A q \in Procs \ {p} : pc'[q] = pc[q],
         CallInv(p)'
  PROVE  HolderInv'
<1> SUFFICES ASSUME NEW q \in Procs PROVE CallInv(q)'
  BY DEF HolderInv
<1>1. CASE q = p
  BY <1>1
<1>2. CASE q # p
  <2>1. pc'[q] \notin Holding
    BY <1>2, Exclusive DEF IInv
  <2>. QED
    BY <2>1 DEF CallInv, Holding
<1>. QED
  BY <1>1, <1>2

(* The end of a call, which every kind of failure shares. *)
LEMMA InvLeave ==
  ASSUME IInv, TypeOK', NEW p \in Procs, pc[p] \in Holding, Leave(p),
         UNCHANGED <<exists, journal, torn, acked>>
  PROVE  IInv'
<1>1. pc' = [pc EXCEPT ![p] = "idle"] /\ pc \in [Procs -> {"idle", "waiting", "locked",
              "append", "writing", "spoiled", "written"}]
  BY DEF Leave, IInv, TypeOK
<1>2. CallInv(p)'
  BY <1>1 DEF CallInv, Holding
<1>3. HolderInv'
  BY <1>1, <1>2, HolderStep
<1>. QED
  BY <1>3 DEF IInv, NeverCorrupt, NoLostUpdate, AckedDurable, OneWay

(* Every step of a client keeps the invariant. *)
LEMMA InvNext == IInv /\ TypeOK' /\ [Next]_vars => IInv'
<1> SUFFICES ASSUME IInv, TypeOK', [Next]_vars
             PROVE  IInv'
  OBVIOUS
<1> USE DEF Holding
<1>0. pc \in [Procs -> {"idle", "waiting", "locked", "append", "writing",
                       "spoiled", "written"}]
  BY DEF IInv, TypeOK
<1>1. CASE UNCHANGED vars
  BY <1>1
     DEF vars, IInv, TypeOK, HolderInv, CallInv, NeverCorrupt, NoLostUpdate, AckedDurable,
         OneWay
<1>2. ASSUME NEW p \in Procs, NEW op \in Ops, NEW stage \in Stages,
             Begin(p, op, stage)
      PROVE  IInv'
  <2>1. HolderInv'
    BY <1>0, <1>2 DEF IInv, Begin, HolderInv, CallInv
  <2>. QED
    BY <1>2, <2>1 DEF Begin, IInv, NeverCorrupt, NoLostUpdate, AckedDurable, OneWay
<1>3. ASSUME NEW p \in Procs, Acquire(p) PROVE IInv'
  <2>1. \A q \in Procs : pc[q] \notin Holding
    BY <1>3, LedgerAssumption DEF Acquire, IInv, HolderInv, CallInv
  <2>2. HolderInv'
    BY <1>0, <1>3, <2>1 DEF Acquire, HolderInv, CallInv
  <2>. QED
    BY <1>3, <2>2 DEF Acquire, IInv, NeverCorrupt, NoLostUpdate, AckedDurable, OneWay
<1>4. ASSUME NEW p \in Procs, CreateCheck(p) PROVE IInv'
  <2>1. CASE Leave(p)
    BY <1>4, <2>1, InvLeave DEF CreateCheck
  <2>2. CASE ~Leave(p)
    <3> DEFINE e == NextEvent(<<>>, "create", [stage |-> "created", count |-> 0])
    <3>1. /\ ~exists /\ pc[p] = "locked"
          /\ pc' = [pc EXCEPT ![p] = "append"]
          /\ draft' = [draft EXCEPT ![p] = e]
          /\ UNCHANGED <<exists, journal, torn, acked, holder>>
      BY <1>4, <2>2 DEF CreateCheck
    <3>2. journal = <<>> /\ ~torn
      BY <3>1 DEF IInv
    <3>3. e \in Event /\ e.event_id = 1 /\ e.state.count = 0
          /\ e.previous_state = Latest(<<>>).stage /\ Follows(<<>>, e)
      BY DEF Follows, NextEvent, Event, Latest, StateAt, NoState, State, Stages, Ops
    <3>4. draft'[p] = e
      BY <3>1 DEF IInv, TypeOK
    <3>5. CallInv(p)'
      BY <1>0, <3>1, <3>2, <3>3, <3>4 DEF CallInv, IInv, HolderInv
    <3>6. HolderInv'
      BY <1>0, <3>1, <3>5, HolderStep
    <3>. QED
      BY <3>1, <3>6 DEF IInv, NeverCorrupt, NoLostUpdate, AckedDurable, OneWay
  <2>. QED
    BY <2>1, <2>2
<1>5. ASSUME NEW p \in Procs, ReadRefused(p) PROVE IInv'
  BY <1>5, InvLeave DEF ReadRefused
<1>6. ASSUME NEW p \in Procs, Truncate(p) PROVE IInv'
  <2>1. CallInv(p)'
    BY <1>6 DEF Truncate, CallInv, IInv, HolderInv
  <2>2. HolderInv'
    BY <1>6, <2>1, HolderStep DEF Truncate
  <2>. QED
    BY <1>6, <2>2 DEF Truncate, IInv, NeverCorrupt, NoLostUpdate, AckedDurable, OneWay
<1>7. ASSUME NEW p \in Procs, ReadState(p) PROVE IInv'
  <2>1. CASE Leave(p)
    BY <1>7, <2>1, InvLeave DEF ReadState
  <2>2. CASE ~Leave(p)
    <3> DEFINE new == [stage |-> call[p].stage, count |-> Latest(journal).count + 1]
               e == NextEvent(journal, call[p].op, new)
    <3>1. /\ ~torn /\ pc[p] = "locked" /\ journal # <<>>
          /\ pc' = [pc EXCEPT ![p] = "append"]
          /\ draft' = [draft EXCEPT ![p] = e]
          /\ UNCHANGED <<exists, journal, torn, acked, holder, call>>
      BY <1>7, <2>2 DEF ReadState
    <3>2. journal \in Seq(Event) /\ Latest(journal) = journal[Len(journal)].state
          /\ Latest(journal) \in State /\ Latest(journal).stage \in Stages
      BY <3>1, LatestType DEF IInv, State
    <3>3. Latest(journal).count = Len(journal) - 1 /\ Len(journal) \in Nat
      BY <3>1, <3>2 DEF IInv, NoLostUpdate
    <3>4. call[p].op \in Ops /\ call[p].stage \in Stages
      BY DEF IInv, TypeOK
    <3>5. new \in State /\ new.count = Len(journal)
      BY <3>3, <3>4 DEF State
    <3>6. e \in Event /\ e.event_id = Len(journal) + 1 /\ e.state = new
          /\ e.previous_state = Latest(journal).stage /\ e.operation = call[p].op
      BY <3>2, <3>3, <3>4, <3>5 DEF NextEvent, Event
    <3>10. Follows(journal, e)
      BY <1>7, <2>2, <3>1, <3>6 DEF ReadState, Follows
    <3>7. draft'[p] = e
      BY <3>1 DEF IInv, TypeOK
    <3>8. CallInv(p)'
      BY <1>0, <3>1, <3>5, <3>6, <3>7, <3>10, ZenonT(60)
         DEF CallInv, IInv, HolderInv, Follows
    <3>9. HolderInv'
      BY <1>0, <3>1, <3>8, HolderStep
    <3>. QED
      BY <3>1, <3>9 DEF IInv, NeverCorrupt, NoLostUpdate, AckedDurable, OneWay
  <2>. QED
    BY <2>1, <2>2
<1>8. ASSUME NEW p \in Procs, WritePart(p) PROVE IInv'
  <2>1. CallInv(p)
    BY DEF IInv, HolderInv
  <2>2. CallInv(p)'
    BY <1>0, <1>8, <2>1 DEF WritePart, CallInv
  <2>3. HolderInv'
    BY <1>0, <1>8, <2>2, HolderStep DEF WritePart
  <2>. QED
    BY <1>8, <2>3 DEF WritePart, IInv, NeverCorrupt, NoLostUpdate, AckedDurable, OneWay
<1>9. ASSUME NEW p \in Procs, WriteRest(p) PROVE IInv'
  <2>1. CallInv(p) /\ pc[p] = "writing"
    BY <1>9 DEF IInv, HolderInv, WriteRest, CallInv
  <2>2. /\ draft[p] \in Event /\ draft[p].event_id = Len(journal) + 1
        /\ draft[p].previous_state = Latest(journal).stage
        /\ draft[p].state.count = Len(journal)
        /\ Follows(journal, draft[p])
        /\ journal \in Seq(Event)
        /\ journal' = Append(journal, draft[p])
        /\ pc' = [pc EXCEPT ![p] = "written"]
        /\ UNCHANGED <<exists, holder, draft, acked>>
    BY <1>9, <2>1 DEF CallInv, WriteRest, IInv
  <2>3. /\ WellFormed(journal')
        /\ \A i \in 1 .. Len(journal') : journal'[i].state.count = i - 1
    BY <2>2, AppendWellFormed DEF IInv, NeverCorrupt, NoLostUpdate
  <2>4. /\ Len(journal') = Len(journal) + 1 /\ Len(journal) \in Nat
        /\ \A i \in 1 .. Len(journal) : journal'[i] = journal[i]
        /\ journal'[Len(journal) + 1] = draft[p]
        /\ journal' \in Seq(Event) /\ journal' # <<>>
    BY <2>2
  <2>5. AckedDurable' /\ OneWay'
    BY <2>2, <2>4, AppendOneWay DEF IInv, AckedDurable, OneWay
  <2>6. CallInv(p)'
    BY <1>0, <2>1, <2>2, <2>4 DEF CallInv
  <2>7. HolderInv'
    BY <1>0, <2>1, <2>2, <2>6, HolderStep
  <2>8. exists'
    <3>1. torn
      BY <2>1 DEF CallInv
    <3>2. exists
      BY <3>1 DEF IInv
    <3>. QED
      BY <3>2, <2>2
  <2>. QED
    BY <2>3, <2>4, <2>5, <2>7, <2>8 DEF IInv, NeverCorrupt, NoLostUpdate
<1>10. ASSUME NEW p \in Procs, SaveCache(p) PROVE IInv'
  <2>1. CallInv(p) /\ pc[p] = "written"
    BY <1>10 DEF IInv, HolderInv, SaveCache
  <2>2. AckedDurable'
    BY <1>10, <2>1 DEF SaveCache, CallInv, IInv, AckedDurable
  <2>3. CallInv(p)'
    BY <1>0, <1>10 DEF SaveCache, Leave, CallInv
  <2>4. HolderInv'
    BY <1>0, <1>10, <2>1, <2>3, HolderStep DEF SaveCache, Leave
  <2>. QED
    BY <1>10, <2>2, <2>4 DEF SaveCache, IInv, NeverCorrupt, NoLostUpdate, OneWay
<1>11. ASSUME NEW p \in Procs, IOError(p) PROVE IInv'
  BY <1>11, InvLeave DEF IOError
<1>12. ASSUME NEW p \in Procs, Crash(p) PROVE IInv'
  <2>1. CASE pc[p] \in Holding
    <3>1. Leave(p)
      BY <1>12, <2>1 DEF Crash, Leave, IInv, HolderInv, CallInv
    <3>. QED
      BY <1>12, <2>1, <3>1, InvLeave DEF Crash
  <2>2. CASE pc[p] \notin Holding
    <3>1. HolderInv'
      BY <1>0, <1>12, <2>2 DEF Crash, IInv, HolderInv, CallInv
    <3>. QED
      BY <1>12, <3>1 DEF Crash, IInv, NeverCorrupt, NoLostUpdate, AckedDurable, OneWay
  <2>. QED
    BY <2>1, <2>2
<1>. QED
  BY <1>1, <1>2, <1>3, <1>4, <1>5, <1>6, <1>7, <1>8, <1>9, <1>10, <1>11, <1>12
     DEF Next, Step

(* The invariant holds always. *)
LEMMA Invariance == Spec => []IInv
BY InvInit, InvNext, TypeCorrect, PTL DEF Spec

(* No interleaving, crash or I/O error leaves a journal _read rejects. *)
THEOREM JournalNeverCorrupt == Spec => []NeverCorrupt
<1>1. IInv => NeverCorrupt
  BY DEF IInv
<1>. QED
  BY <1>1, Invariance, PTL

(* Every update was computed from the event just before its own. *)
THEOREM UpdatesNeverLost == Spec => []NoLostUpdate
<1>1. IInv => NoLostUpdate
  BY DEF IInv
<1>. QED
  BY <1>1, Invariance, PTL

(* Frozen runs never reopen the search, the private test is only reached   *)
(* through a freeze, and terminal stages are final.                        *)
THEOREM RunsAreOneWay == Spec => []OneWay
<1>1. IInv => OneWay
  BY DEF IInv
<1>. QED
  BY <1>1, Invariance, PTL

(* A call that returned normally stays in the journal. *)
THEOREM AcknowledgedDurable == Spec => []AckedDurable
<1>1. IInv => AckedDurable
  BY DEF IInv
<1>. QED
  BY <1>1, Invariance, PTL

(* Complete lines are never changed or removed. *)
THEOREM JournalAppendOnly == Spec => AppendOnly
<1>1. IInv /\ [Next]_vars =>
        [/\ Len(journal') >= Len(journal)
         /\ \A i \in 1 .. Len(journal) : journal'[i] = journal[i]]_vars
  <2> SUFFICES ASSUME IInv, Next
               PROVE  /\ Len(journal') >= Len(journal)
                      /\ \A i \in 1 .. Len(journal) : journal'[i] = journal[i]
    OBVIOUS
  <2>0. journal \in Seq(Event)
    BY DEF IInv
  <2>1. CASE journal' = journal
    BY <2>0, <2>1
  <2>2. ASSUME NEW p \in Procs, WriteRest(p)
        PROVE  /\ Len(journal') >= Len(journal)
               /\ \A i \in 1 .. Len(journal) : journal'[i] = journal[i]
    <3>1. pc[p] # "spoiled"
      BY DEF IInv, HolderInv, CallInv
    <3>2. draft[p] \in Event /\ journal' = Append(journal, draft[p])
      BY <2>2, <3>1 DEF WriteRest, IInv, HolderInv, CallInv
    <3>. QED
      BY <2>0, <3>2
  <2>. QED
    BY <2>1, <2>2 DEF Next, Step, Begin, Acquire, CreateCheck, ReadRefused,
       Truncate, ReadState, WritePart, SaveCache, IOError, Crash
<1>. QED
  BY <1>1, Invariance, PTL DEF Spec, AppendOnly

-----------------------------------------------------------------------------
(* Sequences whose elements lead from one label to the next, and least elements. *)

(* A set of natural numbers that is not empty has a least element: the      *)
(* intervals below its elements are finite sets, and inclusion of finite    *)
(* sets is well-founded.                                                    *)
LEMMA Least ==
  ASSUME NEW T \in SUBSET Nat, T # {}
  PROVE  \E k \in T : \A m \in T : k <= m
<1>. DEFINE Below(k) == 1 .. k
            U == {Below(k) : k \in T}
<1>1. U \in SUBSET FiniteSubsetsOf(Nat)
  <2>1. ASSUME NEW k \in T PROVE (1 .. k) \in SUBSET Nat /\ IsFiniteSet(1 .. k)
    <3>1. k \in Nat
      OBVIOUS
    <3>2. IsFiniteSet(1 .. k)
      BY <3>1, FS_Interval
    <3>. QED
      BY <3>1, <3>2
  <2>. QED
    BY <2>1 DEF FiniteSubsetsOf
<1>2. PICK x \in U : \A y \in U : ~ (<<y, x>> \in StrictSubsetOrdering(Nat))
  <2>. HIDE DEF U
  <2>1. U # {}
    BY DEF U
  <2>. QED
    BY <1>1, <2>1, FS_StrictSubsetOrderingWellFounded, WFMin
<1>3. PICK k \in T : x = Below(k)
  OBVIOUS
<1>4. ASSUME NEW m \in T, m < k PROVE FALSE
  <2>1. m \in Nat /\ k \in Nat
    OBVIOUS
  <2>2. (1 .. m) \subseteq (1 .. k) /\ k \in 1 .. k /\ k \notin 1 .. m
    BY <2>1, <1>4
  <2>3. <<Below(m), Below(k)>> \in StrictSubsetOrdering(Nat)
    BY <2>1, <2>2 DEF StrictSubsetOrdering
  <2>. QED
    BY <1>2, <1>3, <2>3
<1>5. \A m \in T : k \in Int /\ m \in Int
  OBVIOUS
<1>. QED
  BY <1>4, <1>5

(* What FlattenSeq makes of at least one sequence is the last value of the *)
(* function its definition chooses: that function exists.                  *)
LEMMA Flattening ==
  ASSUME NEW ss, NEW m \in Nat \ {0}, Len(ss) = m
  PROVE  \E F : /\ F = [i \in 1..m |-> IF i = 1 THEN ss[i] ELSE F[i-1] \o ss[i]]
                /\ Codec!FlattenSeq(ss) = F[m]
<1>. DEFINE Flat(F, k) == F = [i \in 1..k |-> IF i = 1 THEN ss[i] ELSE F[i-1] \o ss[i]]
            Bad == {k \in Nat : ~ \E F : Flat(F, k)}
<1>1. Bad = {}
  <2>1. SUFFICES ASSUME Bad # {} PROVE FALSE
    OBVIOUS
  <2>2. PICK k \in Bad : \A j \in Bad : k <= j
    BY <2>1, Least
  <2>3. k \in Nat /\ k # 0
    <3>1. Flat([i \in 1..0 |-> 0], 0)
      OBVIOUS
    <3>. QED
      BY <2>2, <3>1
  <2>4. PICK F : Flat(F, k - 1)
    <3>1. k - 1 \in Nat
      BY <2>3
    <3>2. k - 1 \notin Bad
      <4>. HIDE DEF Bad
      <4>. QED
        BY <2>2, <2>3
    <3>. QED
      BY <3>1, <3>2
  <2>. DEFINE G == [i \in 1..k |-> IF i = k THEN IF i = 1 THEN ss[i] ELSE F[i-1] \o ss[i]
                                   ELSE F[i]]
  <2>5. ASSUME NEW i \in 1..k
        PROVE  G[i] = IF i = 1 THEN ss[i] ELSE G[i-1] \o ss[i]
    <3>1. k \in Nat /\ i \in Int
      BY <2>2
    <3>2. CASE i = k
      <4>1. i # 1 => G[i-1] = F[i-1]
        BY <3>1, <3>2
      <4>. QED
        BY <3>2, <4>1
    <3>3. CASE i # k
      <4>1. i \in 1..(k-1)
        BY <3>1, <3>3
      <4>2. G[i] = F[i]
        BY <3>3
      <4>3. F[i] = IF i = 1 THEN ss[i] ELSE F[i-1] \o ss[i]
        BY <2>4, <4>1
      <4>4. i # 1 => G[i-1] = F[i-1]
        BY <3>1, <4>1
      <4>. QED
        BY <4>2, <4>3, <4>4
    <3>. QED
      BY <3>2, <3>3
  <2>6. Flat(G, k)
    <3>1. G = [i \in 1..k |-> G[i]]
      OBVIOUS
    <3>. HIDE DEF G
    <3>. QED
      BY <3>1, <2>5
  <2>. QED
    BY <2>2, <2>6
<1>2. \E F : Flat(F, m)
  <2>1. m \notin Bad
    BY <1>1
  <2>. QED
    BY <2>1
<1>3. Codec!FlattenSeq(ss) = (CHOOSE F : Flat(F, Len(ss)))[Len(ss)]
  BY DEF Codec!FlattenSeq
<1>. QED
  BY <1>2, <1>3
(* One step at a time: FlattenSeq of no sequence is the empty one, and the  *)
(* last sequence comes after the flattened rest.                            *)
LEMMA FlattenStep ==
  ASSUME NEW S, NEW ss \in Seq(Seq(S))
  PROVE  \E G : /\ Len(ss) # 0 => Codec!FlattenSeq(ss) = G[Len(ss)]
                /\ Len(ss) = 0 => Codec!FlattenSeq(ss) = <<>>
                /\ \A i \in 1..Len(ss) : G[i] = IF i = 1 THEN ss[i] ELSE G[i-1] \o ss[i]
<1>1. PICK m \in Nat : m = Len(ss)
  OBVIOUS
<1>2. CASE m = 0
  <2>1. ss = <<>>
    <3>1. PICK U : U = Seq(S)
      OBVIOUS
    <3>2. ss \in Seq(U) /\ Len(ss) = 0
      BY <1>1, <1>2, <3>1
    <3>. QED
      BY <3>2
  <2>2. Codec!FlattenSeq(ss) = <<>>
    BY <1>1, <1>2, <2>1 DEF Codec!FlattenSeq
  <2>. QED
    BY <1>1, <1>2, <2>2
<1>3. CASE m # 0
  <2>1. PICK F : /\ F = [i \in 1..m |-> IF i = 1 THEN ss[i] ELSE F[i-1] \o ss[i]]
                 /\ Codec!FlattenSeq(ss) = F[m]
    BY <1>1, <1>3, Flattening
  <2>2. \A i \in 1..m : F[i] = IF i = 1 THEN ss[i] ELSE F[i-1] \o ss[i]
    BY <2>1
  <2>. QED
    BY <1>1, <1>3, <2>1, <2>2
<1>. QED
  BY <1>2, <1>3

-----------------------------------------------------------------------------
(* A sequence of steps as a path through an automaton: T holds the moves    *)
(* <<label before, step, label after>>.                                     *)

Labelling(T, f, s) == \A i \in 1..Len(s) : <<f[i], s[i], f[i+1]>> \in T

Path(T, S, a, s, b) ==
  s \in Seq(S) /\ \E f : f[1] = a /\ f[Len(s) + 1] = b /\ Labelling(T, f, s)

(* A step is a path. *)
LEMMA PathOne ==
  ASSUME NEW T, NEW S, NEW a, NEW x \in S, NEW b, <<a, x, b>> \in T
  PROVE  Path(T, S, a, <<x>>, b)
<1>1. Labelling(T, <<a, b>>, <<x>>)
  BY DEF Labelling
<1>2. <<x>> \in Seq(S)
  OBVIOUS
<1>. QED
  BY <1>1, <1>2 DEF Path

(* No step is a path from a label to itself. *)
LEMMA PathNone ==
  ASSUME NEW T, NEW S, NEW a
  PROVE  Path(T, S, a, <<>>, a)
<1>1. Labelling(T, <<a>>, <<>>)
  BY DEF Labelling
<1>. QED
  BY <1>1 DEF Path

(* Paths that meet make a path. *)
LEMMA PathJoin ==
  ASSUME NEW T, NEW S, NEW s, NEW t, NEW a, NEW b, NEW c,
         Path(T, S, a, s, b), Path(T, S, b, t, c)
  PROVE  Path(T, S, a, s \o t, c)
<1>0. s \in Seq(S) /\ t \in Seq(S) /\ s \o t \in Seq(S)
  <2>1. s \in Seq(S) /\ t \in Seq(S)
    BY DEF Path
  <2>. QED
    BY <2>1
<1>1. PICK f : f[1] = a /\ f[Len(s) + 1] = b /\ Labelling(T, f, s)
  BY DEF Path
<1>2. PICK g : g[1] = b /\ g[Len(t) + 1] = c /\ Labelling(T, g, t)
  BY DEF Path
<1>3. PICK k \in Nat, m \in Nat : k = Len(s) /\ m = Len(t)
  BY <1>0
<1>4. PICK h : h = [i \in 1..(k + m + 1) |-> IF i <= k THEN f[i] ELSE g[i - k]]
  OBVIOUS
<1>5. Len(s \o t) = k + m
  BY <1>0, <1>3
<1>6. h[1] = a
  <2>1. CASE k = 0
    <3>1. h[1] = g[1]
      BY <1>4, <2>1
    <3>. QED
      BY <1>1, <1>2, <1>3, <2>1, <3>1
  <2>2. CASE k # 0
    <3>1. h[1] = f[1]
      BY <1>4, <2>2
    <3>. QED
      BY <1>1, <3>1
  <2>. QED
    BY <2>1, <2>2
<1>7. h[k + m + 1] = c
  <2>1. h[k + m + 1] = g[m + 1]
    BY <1>4
  <2>. QED
    BY <1>2, <1>3, <2>1
<1>8. ASSUME NEW i \in 1..(k + m)
      PROVE  <<h[i], (s \o t)[i], h[i + 1]>> \in T
  <2>1. CASE i <= k
    <3>1. h[i] = f[i]
      BY <1>4, <2>1
    <3>2. h[i + 1] = f[i + 1]
      <4>1. CASE i = k
        <5>1. h[i + 1] = g[1]
          BY <1>4, <4>1
        <5>. QED
          BY <1>1, <1>2, <1>3, <4>1, <5>1
      <4>2. CASE i # k
        BY <1>4, <2>1, <4>2
      <4>. QED
        BY <4>1, <4>2
    <3>3. (s \o t)[i] = s[i]
      BY <1>0, <1>3, <2>1
    <3>4. <<f[i], s[i], f[i + 1]>> \in T
      BY <1>1, <1>3, <2>1 DEF Labelling
    <3>. QED
      BY <3>1, <3>2, <3>3, <3>4
  <2>2. CASE ~ (i <= k)
    <3>1. h[i] = g[i - k]
      BY <1>4, <2>2
    <3>2. h[i + 1] = g[(i - k) + 1]
      BY <1>4, <2>2
    <3>3. (s \o t)[i] = t[i - k]
      BY <1>0, <1>3, <2>2
    <3>4. i - k \in 1..m
      BY <2>2
    <3>5. <<g[i - k], t[i - k], g[(i - k) + 1]>> \in T
      BY <1>2, <1>3, <3>4 DEF Labelling
    <3>. QED
      BY <3>1, <3>2, <3>3, <3>5
  <2>. QED
    BY <2>1, <2>2
<1>9. Labelling(T, h, s \o t)
  BY <1>5, <1>8 DEF Labelling
<1>. QED
  BY <1>0, <1>5, <1>6, <1>7, <1>9 DEF Path

(* Rounds that each lead from a label back to it do so one after another.   *)
LEMMA PathRounds ==
  ASSUME NEW T, NEW S, NEW ss \in Seq(Seq(S)), NEW a,
         \A i \in 1..Len(ss) : Path(T, S, a, ss[i], a)
  PROVE  Path(T, S, a, Codec!FlattenSeq(ss), a)
<1>1. PICK m \in Nat : m = Len(ss)
  OBVIOUS
<1>2. PICK G : /\ m # 0 => Codec!FlattenSeq(ss) = G[m]
               /\ m = 0 => Codec!FlattenSeq(ss) = <<>>
               /\ \A i \in 1..m : G[i] = IF i = 1 THEN ss[i] ELSE G[i-1] \o ss[i]
  BY Zenon, <1>1, FlattenStep
<1>. DEFINE Bad == {k \in 1..m : ~ Path(T, S, a, G[k], a)}
<1>3. Bad = {}
  <2>1. SUFFICES ASSUME Bad # {} PROVE FALSE
    OBVIOUS
  <2>2. Bad \in SUBSET Nat
    OBVIOUS
  <2>3. PICK k \in Bad : \A j \in Bad : k <= j
    BY <2>1, <2>2, Least
  <2>4. k \in 1..m
    OBVIOUS
  <2>5. Path(T, S, a, ss[k], a)
    BY <1>1, <2>4
  <2>6. CASE k = 1
    BY <1>2, <2>4, <2>5, <2>6
  <2>7. CASE k # 1
    <3>1. k - 1 \in 1..m
      BY <2>4, <2>7
    <3>2. k - 1 \notin Bad
      <4>. HIDE DEF Bad
      <4>. QED
        BY <2>3, <2>4
    <3>3. Path(T, S, a, G[k-1], a)
      BY <3>1, <3>2
    <3>4. G[k] = G[k-1] \o ss[k]
      BY <1>2, <2>4, <2>7
    <3>5. Path(T, S, a, G[k], a)
      BY <2>5, <3>3, <3>4, PathJoin
    <3>. QED
      BY <2>4, <3>5
  <2>. QED
    BY <2>6, <2>7
<1>4. CASE m = 0
  BY <1>2, <1>4, PathNone
<1>5. CASE m # 0
  <2>1. m \in 1..m
    BY <1>5
  <2>2. Path(T, S, a, G[m], a)
    BY <1>3, <2>1
  <2>. QED
    BY <1>2, <1>5, <2>2
<1>. QED
  BY <1>4, <1>5

(* x is one of the steps of s. *)
Has(s, x) == \E i \in 1..Len(s) : s[i] = x

(* What is in a part is in the whole. *)
LEMMA HasJoin ==
  ASSUME NEW S, NEW s \in Seq(S), NEW t \in Seq(S), NEW x, Has(s, x) \/ Has(t, x)
  PROVE  Has(s \o t, x)
<1>1. PICK k \in Nat, m \in Nat : k = Len(s) /\ m = Len(t)
  OBVIOUS
<1>2. Len(s \o t) = k + m
  BY <1>1
<1>3. CASE Has(s, x)
  <2>1. PICK i \in 1..k : s[i] = x
    BY <1>1, <1>3 DEF Has
  <2>2. (s \o t)[i] = s[i] /\ i \in 1..(k + m)
    BY <1>1
  <2>. QED
    BY <1>2, <2>1, <2>2 DEF Has
<1>4. CASE Has(t, x)
  <2>1. PICK i \in 1..m : t[i] = x
    BY <1>1, <1>4 DEF Has
  <2>2. (s \o t)[k + i] = t[i] /\ k + i \in 1..(k + m)
    BY <1>1
  <2>. QED
    BY <1>2, <2>1, <2>2 DEF Has
<1>. QED
  BY <1>3, <1>4

(* Nothing flattened is lost. *)
LEMMA HasFlatten ==
  ASSUME NEW S, NEW ss \in Seq(Seq(S)), NEW i \in 1..Len(ss), NEW x, Has(ss[i], x)
  PROVE  Has(Codec!FlattenSeq(ss), x)
<1>1. PICK m \in Nat : m = Len(ss)
  OBVIOUS
<1>2. PICK G : /\ m # 0 => Codec!FlattenSeq(ss) = G[m]
               /\ \A j \in 1..m : G[j] = IF j = 1 THEN ss[j] ELSE G[j-1] \o ss[j]
  BY Zenon, <1>1, FlattenStep
<1>. DEFINE Bad == {k \in 1..m : ~ (G[k] \in Seq(S) /\ (i <= k => Has(G[k], x)))}
<1>3. Bad = {}
  <2>1. SUFFICES ASSUME Bad # {} PROVE FALSE
    OBVIOUS
  <2>2. Bad \in SUBSET Nat
    OBVIOUS
  <2>3. PICK k \in Bad : \A j \in Bad : k <= j
    BY <2>1, <2>2, Least
  <2>4. k \in 1..m
    OBVIOUS
  <2>5. ss[k] \in Seq(S) /\ (k = i => Has(ss[k], x))
    BY <1>1, <2>4
  <2>6. i \in 1..m
    BY <1>1
  <2>7. CASE k = 1
    <3>1. G[k] = ss[k] /\ (i <= k => i = k)
      BY <1>2, <2>4, <2>6, <2>7
    <3>. QED
      BY <2>4, <2>5, <3>1
  <2>8. CASE k # 1
    <3>1. k - 1 \in 1..m
      BY <2>4, <2>8
    <3>2. k - 1 \notin Bad
      <4>. HIDE DEF Bad
      <4>. QED
        BY <2>3, <2>4
    <3>3. G[k-1] \in Seq(S) /\ (i <= k - 1 => Has(G[k-1], x))
      BY <3>1, <3>2
    <3>4. G[k] = G[k-1] \o ss[k]
      BY <1>2, <2>4, <2>8
    <3>5. i <= k => i <= k - 1 \/ i = k
      BY <2>4, <2>6
    <3>6. G[k] \in Seq(S)
      BY <2>5, <3>3, <3>4
    <3>7. i <= k => Has(G[k], x)
      BY <2>5, <3>3, <3>4, <3>5, HasJoin
    <3>. QED
      BY <2>4, <3>6, <3>7
  <2>. QED
    BY <2>7, <2>8
<1>4. m # 0 /\ m \in 1..m /\ i <= m
  BY <1>1
<1>. QED
  BY <1>2, <1>3, <1>4

(* A path of one step is a move. *)
LEMMA OneMove ==
  ASSUME NEW T, NEW S, NEW a, NEW x, NEW b, Path(T, S, a, <<x>>, b)
  PROVE  <<a, x, b>> \in T /\ x \in S
<1>1. PICK f : f[1] = a /\ f[2] = b /\ Labelling(T, f, <<x>>)
  BY DEF Path
<1>2. <<f[1], x, f[2]>> \in T
  BY <1>1 DEF Labelling
<1>3. <<x>> \in Seq(S) /\ <<x>>[1] = x
  BY DEF Path
<1>. QED
  BY <1>1, <1>2, <1>3

(* Two steps, or three, one after the other. *)
LEMMA PathTwo ==
  ASSUME NEW T, NEW S, NEW a, NEW b, NEW c, NEW x, NEW y,
         Path(T, S, a, <<x>>, b), Path(T, S, b, <<y>>, c)
  PROVE  Path(T, S, a, <<x, y>>, c)
<1>1. <<a, x, b>> \in T /\ x \in S
  BY OneMove
<1>2. <<b, y, c>> \in T /\ y \in S
  BY OneMove
<1>3. Labelling(T, <<a, b, c>>, <<x, y>>)
  BY <1>1, <1>2 DEF Labelling
<1>4. <<x, y>> \in Seq(S)
  BY <1>1, <1>2
<1>5. Len(<<x, y>>) + 1 = 3 /\ <<a, b, c>>[3] = c
  OBVIOUS
<1>. QED
  BY <1>3, <1>4, <1>5 DEF Path

(* Three steps. *)
LEMMA PathThree ==
  ASSUME NEW T, NEW S, NEW a, NEW b, NEW c, NEW d, NEW x, NEW y, NEW z,
         Path(T, S, a, <<x>>, b), Path(T, S, b, <<y>>, c), Path(T, S, c, <<z>>, d)
  PROVE  Path(T, S, a, <<x, y, z>>, d)
<1>1. <<a, x, b>> \in T /\ x \in S
  BY OneMove
<1>2. <<b, y, c>> \in T /\ y \in S
  BY OneMove
<1>3. <<c, z, d>> \in T /\ z \in S
  BY OneMove
<1>4. Labelling(T, <<a, b, c, d>>, <<x, y, z>>)
  BY <1>1, <1>2, <1>3 DEF Labelling
<1>5. <<x, y, z>> \in Seq(S)
  BY <1>1, <1>2, <1>3
<1>6. Len(<<x, y, z>>) + 1 = 4 /\ <<a, b, c, d>>[4] = d
  OBVIOUS
<1>. QED
  BY <1>4, <1>5, <1>6 DEF Path

(* A sequence written out has what is written. *)
LEMMA HasWritten ==
  /\ \A x : Has(<<x>>, x)
  /\ \A x, y : Has(<<x, y>>, x) /\ Has(<<x, y>>, y)
  /\ \A x, y, z : Has(<<x, y, z>>, x) /\ Has(<<x, y, z>>, y) /\ Has(<<x, y, z>>, z)
<1>1. ASSUME NEW x PROVE Has(<<x>>, x)
  BY DEF Has
<1>2. ASSUME NEW x, NEW y PROVE Has(<<x, y>>, x) /\ Has(<<x, y>>, y)
  BY DEF Has
<1>3. ASSUME NEW x, NEW y, NEW z
      PROVE  Has(<<x, y, z>>, x) /\ Has(<<x, y, z>>, y) /\ Has(<<x, y, z>>, z)
  <2>1. <<x, y, z>>[1] = x /\ <<x, y, z>>[2] = y /\ <<x, y, z>>[3] = z /\ Len(<<x, y, z>>) = 3
    OBVIOUS
  <2>. QED
    BY <2>1 DEF Has
<1>. QED
  BY <1>1, <1>2, <1>3

-----------------------------------------------------------------------------
(* The codec: the pipeline as a path, and the parts it is made of. *)

(* The labels of the codec's pipeline: before, inside or after the          *)
(* diagnostics; a fitted build was made and no trial has run on it; the     *)
(* rows have their archives; the fixtures have those of this side of the    *)
(* diagnostics.                                                             *)
Labels == [side : {"before", "inside", "after"}, fitted : BOOLEAN,
           first : BOOLEAN, unusual : BOOLEAN]

Label(side, fitted, first, unusual) ==
  [side |-> side, fitted |-> fitted, first |-> first, unusual |-> unusual]

CodecSteps == [op : Codec!Ops, on : SUBSET Codec!Data, how : Codec!Hows]

OnFitted == job.depth = "full" /\ Codec!Offline

(* What each kind of step asks of the label before it, and the label after. *)
Archives(l, s, m) ==
  /\ s.op = "encode" /\ s.how = "stream" /\ ~l.fitted
  /\ \/ s.on = rows /\ l.side = "before" /\ ~l.first /\ m = Label(l.side, l.fitted, TRUE, l.unusual)
     \/ s.on = Fixtures /\ l.side # "after" /\ ~l.unusual /\ m = Label(l.side, l.fitted, l.first, TRUE)

Compares(l, s, m) ==
  /\ s.op = "encode" /\ s.how \notin {"stream", "trial"} /\ ~l.fitted
  /\ \/ s.on \subseteq rows /\ l.side = "before" /\ l.first
     \/ s.on = Fixtures /\ l.side # "after" /\ l.unusual
  /\ m = l

Measures(l, s, m) ==
  /\ s.op = "encode" /\ s.how = "trial" /\ (l.fitted <=> OnFitted)
  /\ s.on \subseteq rows /\ l.side # "inside" /\ l.first
  /\ m = Label(l.side, FALSE, l.first, l.unusual)

Refits(l, s, m) ==
  /\ s.op = "prepare" /\ s.on = Objects \ HeldOut /\ OnFitted /\ ~l.fitted
  /\ \/ l.side = "inside" /\ m = l
     \/ l.side = "after" /\ m = Label(l.side, TRUE, l.first, l.unusual)

Swaps(l, s, m) ==
  /\ ~l.fitted
  /\ \/ s.op = "sanitize" /\ l.side = "before"
        /\ m = Label("inside", FALSE, l.first, FALSE)
     \/ s.op = "restore" /\ l.side = "inside"
        /\ m = Label("after", FALSE, l.first, FALSE)

Keeps(l, s, m) ==
  s.op \in {"build", "decode", "reject", "verify"} /\ s.on \subseteq rows \cup Fixtures /\ m = l

Legal(l, s, m) == \/ Archives(l, s, m) \/ Compares(l, s, m) \/ Measures(l, s, m)
                  \/ Refits(l, s, m) \/ Swaps(l, s, m) \/ Keeps(l, s, m)

Moves == {t \in Labels \X CodecSteps \X Labels : Legal(t[1], t[2], t[3])}

CodecPath(l, s, m) == Path(Moves, CodecSteps, l, s, m)

Setting == /\ card \in Cards /\ manifest \in Manifests /\ rows \subseteq Objects
           /\ job \in [depth : Codec!Depths, mode : {"required", "exploratory"}, primary : BOOLEAN]

Pristine == Label("before", FALSE, FALSE, FALSE)

(* What is legal is a path of one step. *)
LEMMA LegalPath ==
  ASSUME NEW l \in Labels, NEW op \in Codec!Ops, NEW S \in SUBSET Codec!Data,
         NEW how \in Codec!Hows, NEW m \in Labels, Legal(l, Codec!Step(op, S, how), m)
  PROVE  CodecPath(l, <<Codec!Step(op, S, how)>>, m)
<1>1. PICK s : s = Codec!Step(op, S, how)
  OBVIOUS
<1>2. s \in CodecSteps
  BY <1>1 DEF CodecSteps, Codec!Step
<1>3. <<l, s, m>> \in Moves
  <2>1. Legal(l, s, m)
    BY <1>1
  <2>. QED
    BY <1>2, <2>1 DEF Moves
<1>4. Path(Moves, CodecSteps, l, <<s>>, m)
  <2>. HIDE DEF Moves
  <2>. QED
    BY <1>2, <1>3, PathOne
<1>. QED
  BY <1>1, <1>4 DEF CodecPath

(* Paths of the pipeline join. *)
LEMMA CodecJoin ==
  ASSUME NEW l, NEW s, NEW m, NEW t, NEW o, CodecPath(l, s, m), CodecPath(m, t, o)
  PROVE  CodecPath(l, s \o t, o)
<1>1. PICK M, S : M = Moves /\ S = CodecSteps
  OBVIOUS
<1>2. Path(M, S, l, s \o t, o)
  BY <1>1, PathJoin DEF CodecPath
<1>. QED
  BY <1>1, <1>2 DEF CodecPath

(* The labels are records of four fields. *)
LEMMA LabelFields ==
  ASSUME NEW side \in {"before", "inside", "after"}, NEW f \in BOOLEAN, NEW g \in BOOLEAN,
         NEW h \in BOOLEAN
  PROVE  /\ Label(side, f, g, h) \in Labels
         /\ Label(side, f, g, h).side = side
         /\ Label(side, f, g, h).fitted = f
         /\ Label(side, f, g, h).first = g
         /\ Label(side, f, g, h).unusual = h
BY DEF Label, Labels

(* The kinds of steps, as paths. *)
LEMMA ArchiveRows ==
  ASSUME Setting, NEW h \in BOOLEAN
  PROVE  CodecPath(Label("before", FALSE, FALSE, h), <<Codec!Step("encode", rows, "stream")>>,
                   Label("before", FALSE, TRUE, h))
<1>1. rows \in SUBSET Codec!Data
  BY DEF Setting, Codec!Data
<1>2. PICK a, b, s : /\ a = Label("before", FALSE, FALSE, h) /\ b = Label("before", FALSE, TRUE, h)
                     /\ s = Codec!Step("encode", rows, "stream")
  OBVIOUS
<1>3. /\ a \in Labels /\ a.side = "before" /\ a.fitted = FALSE /\ a.first = FALSE /\ a.unusual = h
      /\ b \in Labels
  BY <1>2 DEF Label, Labels
<1>4. s.op = "encode" /\ s.how = "stream" /\ s.on = rows
  BY <1>2 DEF Codec!Step
<1>5. Archives(a, s, b)
  <2>1. b = Label(a.side, a.fitted, TRUE, a.unusual)
    BY <1>2, <1>3
  <2>. QED
    BY <1>3, <1>4, <2>1 DEF Archives
<1>. QED
  BY <1>1, <1>2, <1>3, <1>5, LegalPath DEF Legal, Codec!Ops, Codec!Hows

(* The first answer on the synthetic rows leads to the label that holds it. *)
LEMMA ArchiveFixtures ==
  ASSUME NEW e \in {"before", "inside"}, NEW g \in BOOLEAN
  PROVE  CodecPath(Label(e, FALSE, g, FALSE), <<Codec!Step("encode", Fixtures, "stream")>>,
                   Label(e, FALSE, g, TRUE))
<1>1. Fixtures \in SUBSET Codec!Data
  BY DEF Codec!Data
<1>2. PICK a, b, s : /\ a = Label(e, FALSE, g, FALSE) /\ b = Label(e, FALSE, g, TRUE)
                     /\ s = Codec!Step("encode", Fixtures, "stream")
  OBVIOUS
<1>3. /\ a \in Labels /\ a.side = e /\ a.fitted = FALSE /\ a.first = g /\ a.unusual = FALSE
      /\ b \in Labels
  BY <1>2 DEF Label, Labels
<1>4. s.op = "encode" /\ s.how = "stream" /\ s.on = Fixtures
  BY <1>2 DEF Codec!Step
<1>5. Archives(a, s, b)
  <2>1. b = Label(a.side, a.fitted, a.first, TRUE)
    BY <1>2, <1>3
  <2>. QED
    BY <1>3, <1>4, <2>1 DEF Archives
<1>. QED
  BY <1>1, <1>2, <1>3, <1>5, LegalPath DEF Legal, Codec!Ops, Codec!Hows

(* An answer compared with the first one leaves the label as it is. *)
LEMMA CompareRows ==
  ASSUME Setting, NEW h \in BOOLEAN, NEW S \in SUBSET rows,
         NEW how \in {"directory", "repeat", "reordered", "single"}
  PROVE  CodecPath(Label("before", FALSE, TRUE, h), <<Codec!Step("encode", S, how)>>,
                   Label("before", FALSE, TRUE, h))
<1>1. S \in SUBSET Codec!Data
  BY DEF Setting, Codec!Data
<1>2. PICK a, s : a = Label("before", FALSE, TRUE, h) /\ s = Codec!Step("encode", S, how)
  OBVIOUS
<1>3. a \in Labels /\ a.side = "before" /\ a.fitted = FALSE /\ a.first = TRUE
  BY <1>2 DEF Label, Labels
<1>4. s.op = "encode" /\ s.how = how /\ s.on = S
  BY <1>2 DEF Codec!Step
<1>5. Compares(a, s, a)
  BY <1>3, <1>4 DEF Compares
<1>. QED
  BY <1>1, <1>2, <1>3, <1>5, LegalPath DEF Legal, Codec!Ops, Codec!Hows

(* The same of the synthetic rows. *)
LEMMA CompareFixtures ==
  ASSUME NEW e \in {"before", "inside"}, NEW g \in BOOLEAN,
         NEW how \in {"directory", "repeat", "reordered", "single"}
  PROVE  CodecPath(Label(e, FALSE, g, TRUE), <<Codec!Step("encode", Fixtures, how)>>,
                   Label(e, FALSE, g, TRUE))
<1>1. Fixtures \in SUBSET Codec!Data
  BY DEF Codec!Data
<1>2. PICK a, s : a = Label(e, FALSE, g, TRUE) /\ s = Codec!Step("encode", Fixtures, how)
  OBVIOUS
<1>3. a \in Labels /\ a.side = e /\ a.fitted = FALSE /\ a.unusual = TRUE
  BY <1>2 DEF Label, Labels
<1>4. s.op = "encode" /\ s.how = how /\ s.on = Fixtures
  BY <1>2 DEF Codec!Step
<1>5. Compares(a, s, a)
  BY <1>3, <1>4 DEF Compares
<1>. QED
  BY <1>1, <1>2, <1>3, <1>5, LegalPath DEF Legal, Codec!Ops, Codec!Hows

(* A step that registers nothing leaves every label as it is. *)
LEMMA KeepPath ==
  ASSUME Setting, NEW l \in Labels, NEW op \in {"build", "decode", "reject", "verify"},
         NEW S \in SUBSET (rows \cup Fixtures), NEW how \in Codec!Hows
  PROVE  CodecPath(l, <<Codec!Step(op, S, how)>>, l)
<1>1. PICK s : s = Codec!Step(op, S, how)
  OBVIOUS
<1>2. s.op = op /\ s.on = S
  BY <1>1 DEF Codec!Step
<1>3. Keeps(l, s, l)
  BY <1>2 DEF Keeps
<1>4. op \in Codec!Ops
  BY DEF Codec!Ops
<1>5. S \in SUBSET Codec!Data
  BY DEF Setting, Codec!Data
<1>. QED
  BY <1>1, <1>3, <1>4, <1>5, LegalPath DEF Legal

(* A timed encoding spends the fitting of its trial, if there is one. *)
LEMMA TimePath ==
  ASSUME Setting, NEW e \in {"before", "after"}, NEW f \in BOOLEAN, f <=> OnFitted,
         NEW h \in BOOLEAN, NEW S \in SUBSET rows
  PROVE  CodecPath(Label(e, f, TRUE, h), <<Codec!Step("encode", S, "trial")>>,
                   Label(e, FALSE, TRUE, h))
<1>1. S \in SUBSET Codec!Data
  BY DEF Setting, Codec!Data
<1>2. PICK a, b, s : /\ a = Label(e, f, TRUE, h) /\ b = Label(e, FALSE, TRUE, h)
                     /\ s = Codec!Step("encode", S, "trial")
  OBVIOUS
<1>3. /\ a \in Labels /\ a.side = e /\ a.fitted = f /\ a.first = TRUE /\ a.unusual = h
      /\ b \in Labels
  BY <1>2 DEF Label, Labels
<1>4. s.op = "encode" /\ s.how = "trial" /\ s.on = S
  BY <1>2 DEF Codec!Step
<1>5. Measures(a, s, b)
  <2>1. b = Label(a.side, FALSE, a.first, a.unusual)
    BY <1>2, <1>3
  <2>. QED
    BY <1>3, <1>4, <2>1 DEF Measures
<1>. QED
  BY <1>1, <1>2, <1>3, <1>5, LegalPath DEF Legal, Codec!Ops, Codec!Hows

(* Two fittings: inside the swapped room, and before a trial is timed. *)
LEMMA FitPath ==
  ASSUME OnFitted, NEW h \in BOOLEAN
  PROVE  /\ CodecPath(Label("inside", FALSE, TRUE, h),
                      <<Codec!Step("prepare", Objects \ HeldOut, "trial")>>,
                      Label("inside", FALSE, TRUE, h))
         /\ CodecPath(Label("after", FALSE, TRUE, h),
                      <<Codec!Step("prepare", Objects \ HeldOut, "trial")>>,
                      Label("after", TRUE, TRUE, h))
<1>1. Objects \ HeldOut \in SUBSET Codec!Data
  BY DEF Codec!Data
<1>2. PICK i, a, b, s : /\ i = Label("inside", FALSE, TRUE, h)
                        /\ a = Label("after", FALSE, TRUE, h) /\ b = Label("after", TRUE, TRUE, h)
                        /\ s = Codec!Step("prepare", Objects \ HeldOut, "trial")
  OBVIOUS
<1>3. /\ i \in Labels /\ i.side = "inside" /\ i.fitted = FALSE
      /\ a \in Labels /\ a.side = "after" /\ a.fitted = FALSE /\ a.first = TRUE /\ a.unusual = h
      /\ b \in Labels
  BY <1>2 DEF Label, Labels
<1>4. s.op = "prepare" /\ s.on = Objects \ HeldOut
  BY <1>2 DEF Codec!Step
<1>5. Refits(i, s, i)
  BY <1>3, <1>4 DEF Refits
<1>6. Refits(a, s, b)
  <2>1. b = Label(a.side, TRUE, a.first, a.unusual)
    BY <1>2, <1>3
  <2>. QED
    BY <1>3, <1>4, <2>1 DEF Refits
<1>. QED
  BY <1>1, <1>2, <1>3, <1>5, <1>6, LegalPath DEF Legal, Codec!Ops, Codec!Hows

(* The working directory is taken away, and put back. *)
LEMMA SwapPath ==
  ASSUME NEW h \in BOOLEAN
  PROVE  /\ CodecPath(Label("before", FALSE, TRUE, h), <<Codec!Step("sanitize", {}, "stream")>>,
                      Label("inside", FALSE, TRUE, FALSE))
         /\ CodecPath(Label("inside", FALSE, TRUE, h), <<Codec!Step("restore", {}, "stream")>>,
                      Label("after", FALSE, TRUE, FALSE))
<1>1. {} \in SUBSET Codec!Data
  OBVIOUS
<1>2. PICK a, i, j, b, s, r :
        /\ a = Label("before", FALSE, TRUE, h) /\ i = Label("inside", FALSE, TRUE, FALSE)
        /\ j = Label("inside", FALSE, TRUE, h) /\ b = Label("after", FALSE, TRUE, FALSE)
        /\ s = Codec!Step("sanitize", {}, "stream") /\ r = Codec!Step("restore", {}, "stream")
  OBVIOUS
<1>3. /\ a \in Labels /\ a.side = "before" /\ a.fitted = FALSE /\ a.first = TRUE
      /\ j \in Labels /\ j.side = "inside" /\ j.fitted = FALSE /\ j.first = TRUE
      /\ i \in Labels /\ b \in Labels
  BY <1>2 DEF Label, Labels
<1>4. s.op = "sanitize" /\ r.op = "restore"
  BY <1>2 DEF Codec!Step
<1>5. Swaps(a, s, i)
  BY <1>2, <1>3, <1>4 DEF Swaps
<1>6. Swaps(j, r, b)
  BY <1>2, <1>3, <1>4 DEF Swaps
<1>. QED
  BY <1>1, <1>2, <1>3, <1>5, <1>6, LegalPath DEF Legal, Codec!Ops, Codec!Hows

(* An archive is made and read back; first, and in a directory. *)
LEMMA ExactPath ==
  ASSUME Setting, NEW h \in BOOLEAN, NEW e \in {"before", "inside"}
  PROVE  /\ CodecPath(Label("before", FALSE, FALSE, h), Codec!Exact(rows),
                      Label("before", FALSE, TRUE, h))
         /\ CodecPath(Label("before", FALSE, TRUE, h), Codec!Parity(rows),
                      Label("before", FALSE, TRUE, h))
         /\ CodecPath(Label(e, FALSE, h, FALSE), Codec!Exact(Fixtures),
                      Label(e, FALSE, h, TRUE))
         /\ CodecPath(Label(e, FALSE, h, TRUE), Codec!Parity(Fixtures),
                      Label(e, FALSE, h, TRUE))
<1>1. /\ rows \in SUBSET (rows \cup Fixtures) /\ Fixtures \in SUBSET (rows \cup Fixtures)
      /\ "stream" \in Codec!Hows /\ "directory" \in Codec!Hows
  BY DEF Setting, Codec!Data, Codec!Hows
<1>2. /\ Label("before", FALSE, TRUE, h) \in Labels /\ Label(e, FALSE, h, TRUE) \in Labels
  BY DEF Label, Labels
<1>3. CodecPath(Label("before", FALSE, FALSE, h), Codec!Exact(rows),
                Label("before", FALSE, TRUE, h))
  <2>1. CodecPath(Label("before", FALSE, TRUE, h), <<Codec!Step("decode", rows, "stream")>>,
                  Label("before", FALSE, TRUE, h))
    BY <1>1, <1>2, KeepPath
  <2>. QED
    BY <2>1, ArchiveRows, PathTwo DEF CodecPath, Codec!Exact
<1>4. CodecPath(Label("before", FALSE, TRUE, h), Codec!Parity(rows),
                Label("before", FALSE, TRUE, h))
  <2>1. CodecPath(Label("before", FALSE, TRUE, h), <<Codec!Step("decode", rows, "directory")>>,
                  Label("before", FALSE, TRUE, h))
    BY <1>1, <1>2, KeepPath
  <2>2. CodecPath(Label("before", FALSE, TRUE, h), <<Codec!Step("encode", rows, "directory")>>,
                  Label("before", FALSE, TRUE, h))
    BY CompareRows
  <2>. QED
    BY <2>1, <2>2, PathTwo DEF CodecPath, Codec!Parity
<1>5. CodecPath(Label(e, FALSE, h, FALSE), Codec!Exact(Fixtures), Label(e, FALSE, h, TRUE))
  <2>1. CodecPath(Label(e, FALSE, h, TRUE), <<Codec!Step("decode", Fixtures, "stream")>>,
                  Label(e, FALSE, h, TRUE))
    BY <1>1, <1>2, KeepPath
  <2>2. CodecPath(Label(e, FALSE, h, FALSE), <<Codec!Step("encode", Fixtures, "stream")>>,
                  Label(e, FALSE, h, TRUE))
    BY ArchiveFixtures
  <2>. QED
    BY <2>1, <2>2, PathTwo DEF CodecPath, Codec!Exact
<1>6. CodecPath(Label(e, FALSE, h, TRUE), Codec!Parity(Fixtures), Label(e, FALSE, h, TRUE))
  <2>1. CodecPath(Label(e, FALSE, h, TRUE), <<Codec!Step("decode", Fixtures, "directory")>>,
                  Label(e, FALSE, h, TRUE))
    BY <1>1, <1>2, KeepPath
  <2>2. CodecPath(Label(e, FALSE, h, TRUE), <<Codec!Step("encode", Fixtures, "directory")>>,
                  Label(e, FALSE, h, TRUE))
    BY CompareFixtures
  <2>. QED
    BY <2>1, <2>2, PathTwo DEF CodecPath, Codec!Parity
<1>. QED
  BY <1>3, <1>4, <1>5, <1>6

(* The notions of the module of finite sets are the same in the instance. *)
LEMMA SameNotions ==
  \A S : (Codec!IsFiniteSet(S) <=> IsFiniteSet(S)) /\ Codec!Cardinality(S) = Cardinality(S)
<1>1. ASSUME NEW S PROVE Codec!IsFiniteSet(S) <=> IsFiniteSet(S)
  BY DEF Codec!IsFiniteSet, IsFiniteSet
<1>2. ASSUME NEW S PROVE Codec!Cardinality(S) = Cardinality(S)
  BY DEF Codec!Cardinality, Cardinality
<1>. QED
  BY <1>1, <1>2

(* SetToSeq lists every element of a finite set. *)
LEMMA Listed ==
  ASSUME NEW S, IsFiniteSet(S)
  PROVE  /\ Cardinality(S) \in Nat
         /\ Codec!SetToSeq(S) \in [1..Cardinality(S) -> S]
         /\ \A o \in S : \E i \in 1..Cardinality(S) : Codec!SetToSeq(S)[i] = o
<1>1. PICK m \in Nat : m = Cardinality(S) /\ ExistsBijection(1..m, S)
  BY FS_CardinalityType
<1>2. PICK f : f \in Injection(1..m, S)
  BY <1>1 DEF ExistsBijection, Bijection
<1>3. f \in [1..m -> S] /\ Codec!IsInjective(f)
  BY <1>2 DEF Injection, IsInjective, Codec!IsInjective
<1>4. PICK g : g = Codec!SetToSeq(S)
  OBVIOUS
<1>5. g \in [1..m -> S] /\ Codec!IsInjective(g)
  BY <1>1, <1>3, <1>4, SameNotions DEF Codec!SetToSeq
<1>6. g \in Injection(1..m, S)
  BY <1>5 DEF Injection, IsInjective, Codec!IsInjective
<1>7. Cardinality(1..m) = m
  BY <1>1, FS_Interval
<1>8. g \in Surjection(1..m, S)
  BY <1>1, <1>6, <1>7, FS_Injection
<1>9. \A o \in S : \E i \in 1..m : g[i] = o
  BY <1>8 DEF Surjection
<1>. QED
  BY <1>1, <1>4, <1>5, <1>9

(* A function of an interval from 1 is a sequence. *)
LEMMA IntervalSeq ==
  ASSUME NEW U, NEW k \in Nat, NEW f \in [1..k -> U]
  PROVE  f \in Seq(U) /\ Len(f) = k
OBVIOUS

(* Every object alone. *)
LEMMA AlonePath ==
  ASSUME Setting, Codec!EvaluationAssumption, NEW h \in BOOLEAN
  PROVE  /\ CodecPath(Label("before", FALSE, TRUE, h), Codec!Alone(rows),
                      Label("before", FALSE, TRUE, h))
         /\ \A o \in rows : /\ Has(Codec!Alone(rows), Codec!Step("encode", {o}, "single"))
                            /\ Has(Codec!Alone(rows), Codec!Step("decode", {o}, "single"))
<1>1. IsFiniteSet(rows)
  <2>1. rows \in SUBSET Codec!Data
    BY DEF Setting, Codec!Data
  <2>. QED
    BY <2>1, FS_Subset, SameNotions DEF Codec!EvaluationAssumption
<1>2. PICK k, g : /\ k = Cardinality(rows) /\ g = Codec!SetToSeq(rows)
                  /\ k \in Nat /\ g \in [1..k -> rows]
                  /\ \A o \in rows : \E i \in 1..k : g[i] = o
  BY <1>1, Listed
<1>3. PICK ss : ss = [i \in 1..k |-> <<Codec!Step("encode", {g[i]}, "single"),
                                      Codec!Step("decode", {g[i]}, "single")>>]
  OBVIOUS
<1>4. Codec!Alone(rows) = Codec!FlattenSeq(ss)
  BY <1>2, <1>3, SameNotions DEF Codec!Alone
<1>5. PICK l : l = Label("before", FALSE, TRUE, h)
  OBVIOUS
<1>6. ASSUME NEW i \in 1..k PROVE CodecPath(l, ss[i], l)
  <2>1. PICK o \in rows : o = g[i]
    BY <1>2
  <2>2. {o} \in SUBSET (rows \cup Fixtures) /\ {o} \in SUBSET rows /\ "single" \in Codec!Hows
    BY DEF Setting, Codec!Data, Codec!Hows
  <2>3. l \in Labels
    BY <1>5 DEF Label, Labels
  <2>4. CodecPath(l, <<Codec!Step("encode", {o}, "single")>>, l)
    BY <1>5, <2>2, CompareRows
  <2>5. CodecPath(l, <<Codec!Step("decode", {o}, "single")>>, l)
    BY <2>2, <2>3, KeepPath
  <2>6. ss[i] = <<Codec!Step("encode", {o}, "single"), Codec!Step("decode", {o}, "single")>>
    BY <1>3, <2>1
  <2>. QED
    BY <2>4, <2>5, <2>6, PathTwo DEF CodecPath
<1>7. ss \in Seq(Seq(CodecSteps)) /\ Len(ss) = k
  <2>1. \A i \in 1..k : ss[i] \in Seq(CodecSteps)
    BY <1>6 DEF CodecPath, Path
  <2>2. ss \in [1..k -> Seq(CodecSteps)]
    BY <1>3, <2>1
  <2>. QED
    BY <1>2, <2>2, IntervalSeq
<1>8. CodecPath(l, Codec!FlattenSeq(ss), l)
  BY <1>6, <1>7, PathRounds DEF CodecPath
<1>9. ASSUME NEW o \in rows, NEW op \in {"encode", "decode"}
      PROVE  Has(Codec!FlattenSeq(ss), Codec!Step(op, {o}, "single"))
  <2>1. PICK i \in 1..k : g[i] = o
    BY <1>2
  <2>2. Has(ss[i], Codec!Step(op, {o}, "single"))
    BY <1>3, <2>1, HasWritten
  <2>. QED
    BY <1>7, <2>2, HasFlatten
<1>. QED
  BY <1>4, <1>5, <1>8, <1>9

(* The same steps several times. *)
LEMMA TimesPath ==
  ASSUME NEW k \in Nat, NEW s, NEW l, CodecPath(l, s, l)
  PROVE  /\ CodecPath(l, Codec!Times(k, s), l)
         /\ \A x : k # 0 /\ Has(s, x) => Has(Codec!Times(k, s), x)
<1>1. PICK ss : ss = [i \in 1..k |-> s]
  OBVIOUS
<1>2. Codec!Times(k, s) = Codec!FlattenSeq(ss)
  BY <1>1 DEF Codec!Times
<1>3. s \in Seq(CodecSteps)
  BY DEF CodecPath, Path
<1>4. ss \in Seq(Seq(CodecSteps)) /\ Len(ss) = k
  <2>1. ss \in [1..k -> Seq(CodecSteps)]
    BY <1>1, <1>3
  <2>. QED
    BY <2>1, IntervalSeq
<1>5. \A i \in 1..k : ss[i] = s
  BY <1>1
<1>6. CodecPath(l, Codec!FlattenSeq(ss), l)
  BY <1>4, <1>5, PathRounds DEF CodecPath
<1>7. ASSUME NEW x, k # 0, Has(s, x) PROVE Has(Codec!FlattenSeq(ss), x)
  <2>1. 1 \in 1..k /\ Has(ss[1], x)
    BY <1>5, <1>7
  <2>. QED
    BY <1>4, <2>1, HasFlatten
<1>. QED
  BY <1>2, <1>6, <1>7

(* A step of a part is a step of the whole. *)
LEMMA CodecHas ==
  ASSUME NEW a, NEW s, NEW b, NEW t, NEW c, CodecPath(a, s, b), CodecPath(b, t, c)
  PROVE  \A x : Has(s, x) \/ Has(t, x) => Has(s \o t, x)
BY HasJoin DEF CodecPath, Path

(* The gate of correctness: from the untouched directory to one whose       *)
(* first answers are registered, and all four ways of asking are met.       *)
LEMMA CorrectnessPath ==
  ASSUME Setting, Codec!EvaluationAssumption
  PROVE  /\ CodecPath(Pristine, Codec!Correctness, Label("before", FALSE, TRUE, TRUE))
         /\ \A how \in {"stream", "directory", "repeat", "reordered"} :
              Has(Codec!Correctness, Codec!Step("encode", rows, how))
         /\ \A how \in {"stream", "directory"} :
              Has(Codec!Correctness, Codec!Step("decode", rows, how))
         /\ \A o \in rows, op \in {"encode", "decode"} :
              Has(Codec!Correctness, Codec!Step(op, {o}, "single"))
<1>1. PICK l0, l1, l2 : /\ l0 = Label("before", FALSE, FALSE, FALSE)
                        /\ l1 = Label("before", FALSE, TRUE, FALSE)
                        /\ l2 = Label("before", FALSE, TRUE, TRUE)
  OBVIOUS
<1>2. PICK s1, s2, s3, s4, s5, s6 :
        /\ s1 = Codec!Exact(rows) /\ s2 = Codec!Parity(rows)
        /\ s3 = Codec!Exact(Fixtures) /\ s4 = Codec!Parity(Fixtures)
        /\ s5 = <<Codec!Step("encode", rows, "repeat"), Codec!Step("encode", rows, "reordered")>>
        /\ s6 = Codec!Alone(rows)
  OBVIOUS
<1>3. CodecPath(l0, s1, l1)
  BY <1>1, <1>2, ExactPath
<1>4. CodecPath(l1, s2, l1)
  BY <1>1, <1>2, ExactPath
<1>5. CodecPath(l1, s3, l2)
  BY <1>1, <1>2, ExactPath
<1>6. CodecPath(l2, s4, l2)
  BY <1>1, <1>2, ExactPath
<1>7. CodecPath(l2, s5, l2)
  <2>1. CodecPath(l2, <<Codec!Step("encode", rows, "repeat")>>, l2)
    BY <1>1, CompareRows
  <2>2. CodecPath(l2, <<Codec!Step("encode", rows, "reordered")>>, l2)
    BY <1>1, CompareRows
  <2>. QED
    BY <1>2, <2>1, <2>2, PathTwo DEF CodecPath
<1>8. CodecPath(l2, s6, l2)
  BY <1>1, <1>2, AlonePath
<1>9. CodecPath(l0, s1 \o s2, l1)
  BY <1>3, <1>4, CodecJoin
<1>10. CodecPath(l0, (s1 \o s2) \o s3, l2)
  BY <1>5, <1>9, CodecJoin
<1>11. CodecPath(l0, ((s1 \o s2) \o s3) \o s4, l2)
  BY <1>6, <1>10, CodecJoin
<1>12. CodecPath(l0, (((s1 \o s2) \o s3) \o s4) \o s5, l2)
  BY <1>7, <1>11, CodecJoin
<1>13. CodecPath(l0, ((((s1 \o s2) \o s3) \o s4) \o s5) \o s6, l2)
  BY <1>8, <1>12, CodecJoin
<1>14. Codec!Correctness = ((((s1 \o s2) \o s3) \o s4) \o s5) \o s6
  BY <1>2 DEF Codec!Correctness
<1>15. \A x : Has(s1, x) \/ Has(s2, x) \/ Has(s5, x) \/ Has(s6, x) => Has(Codec!Correctness, x)
  <2>1. \A x : Has(s1, x) \/ Has(s2, x) => Has(s1 \o s2, x)
    BY <1>3, <1>4, CodecHas
  <2>2. \A x : Has(s1 \o s2, x) => Has((s1 \o s2) \o s3, x)
    BY <1>5, <1>9, CodecHas
  <2>3. \A x : Has((s1 \o s2) \o s3, x) => Has(((s1 \o s2) \o s3) \o s4, x)
    BY <1>6, <1>10, CodecHas
  <2>4. \A x : Has(((s1 \o s2) \o s3) \o s4, x) \/ Has(s5, x)
               => Has((((s1 \o s2) \o s3) \o s4) \o s5, x)
    BY <1>7, <1>11, CodecHas
  <2>5. \A x : Has((((s1 \o s2) \o s3) \o s4) \o s5, x) \/ Has(s6, x)
               => Has(Codec!Correctness, x)
    BY <1>8, <1>12, <1>14, CodecHas
  <2>. QED
    BY <2>1, <2>2, <2>3, <2>4, <2>5
<1>16. /\ Has(s1, Codec!Step("encode", rows, "stream")) /\ Has(s1, Codec!Step("decode", rows, "stream"))
       /\ Has(s2, Codec!Step("encode", rows, "directory"))
       /\ Has(s2, Codec!Step("decode", rows, "directory"))
       /\ Has(s5, Codec!Step("encode", rows, "repeat"))
       /\ Has(s5, Codec!Step("encode", rows, "reordered"))
  BY <1>2, HasWritten DEF Codec!Exact, Codec!Parity
<1>17. \A o \in rows, op \in {"encode", "decode"} : Has(s6, Codec!Step(op, {o}, "single"))
  BY <1>2, AlonePath
<1>18. CodecPath(Pristine, Codec!Correctness, Label("before", FALSE, TRUE, TRUE))
  BY <1>1, <1>13, <1>14 DEF Pristine
<1>. QED
  BY <1>15, <1>16, <1>17, <1>18

(* The damaged archives are offered, and nothing is registered. *)
LEMMA RejectionsPath ==
  ASSUME Setting
  PROVE  /\ CodecPath(Label("before", FALSE, TRUE, TRUE), Codec!Rejections,
                      Label("before", FALSE, TRUE, TRUE))
         /\ \A how \in {"stream", "directory"} : Has(Codec!Rejections, Codec!Step("reject", rows, how))
<1>0. Label("before", FALSE, TRUE, TRUE) \in Labels
  BY DEF Label, Labels
<1>1. PICK l \in Labels : l = Label("before", FALSE, TRUE, TRUE)
  BY <1>0
<1>2. /\ rows \in SUBSET (rows \cup Fixtures) /\ Fixtures \in SUBSET (rows \cup Fixtures)
      /\ "stream" \in Codec!Hows /\ "directory" \in Codec!Hows
  BY DEF Setting, Codec!Data, Codec!Hows
<1>3. CodecPath(l, <<Codec!Step("reject", rows, "stream")>>, l)
  BY <1>1, <1>2, KeepPath
<1>4. CodecPath(l, <<Codec!Step("reject", Fixtures, "stream")>>, l)
  BY <1>1, <1>2, KeepPath
<1>5. CodecPath(l, <<Codec!Step("reject", rows, "directory")>>, l)
  BY <1>1, <1>2, KeepPath
<1>6. CodecPath(l, Codec!Rejections, l)
  BY <1>3, <1>4, <1>5, PathThree DEF CodecPath, Codec!Rejections
<1>. QED
  BY <1>1, <1>6, HasWritten DEF Codec!Rejections

(* What prepares a fitted candidate leads from a label that has no fitted   *)
(* build to one that has it, after the diagnostics, or nowhere.             *)
LEMMA PreparePath ==
  ASSUME job.depth = "full", NEW h \in BOOLEAN
  PROVE  /\ CodecPath(Label("inside", FALSE, TRUE, h), Codec!Prepare, Label("inside", FALSE, TRUE, h))
         /\ CodecPath(Label("after", FALSE, TRUE, h), Codec!Prepare, Label("after", OnFitted, TRUE, h))
<1>1. CASE Codec!Offline
  <2>1. OnFitted = TRUE
    BY <1>1 DEF OnFitted
  <2>. QED
    BY <1>1, <2>1, FitPath DEF Codec!Prepare
<1>2. CASE ~ Codec!Offline
  <2>1. OnFitted = FALSE
    BY <1>2 DEF OnFitted
  <2>2. Codec!Prepare = <<>>
    BY <1>2 DEF Codec!Prepare
  <2>3. \A l : CodecPath(l, <<>>, l)
    BY PathNone DEF CodecPath
  <2>. QED
    BY <2>1, <2>2, <2>3
<1>. QED
  BY <1>1, <1>2

(* The diagnostics take the directory away and put it back. *)
LEMMA DiagnosticsPath ==
  ASSUME Setting, job.depth = "full"
  PROVE  CodecPath(Label("before", FALSE, TRUE, TRUE), Codec!Diagnostics,
                   Label("after", FALSE, TRUE, FALSE))
<1>1. PICK l0, l1, l2, l3 : /\ l0 = Label("before", FALSE, TRUE, TRUE)
                            /\ l1 = Label("inside", FALSE, TRUE, FALSE)
                            /\ l2 = Label("inside", FALSE, TRUE, TRUE)
                            /\ l3 = Label("after", FALSE, TRUE, FALSE)
  OBVIOUS
<1>2. PICK s1, s2, s3, s4, s5 :
        /\ s1 = <<Codec!Step("sanitize", {}, "stream")>> /\ s2 = Codec!Prepare
        /\ s3 = Codec!Exact(Fixtures) /\ s4 = Codec!Parity(Fixtures)
        /\ s5 = <<Codec!Step("reject", Fixtures, "stream"), Codec!Step("restore", {}, "stream")>>
  OBVIOUS
<1>3. CodecPath(l0, s1, l1)
  BY <1>1, <1>2, SwapPath
<1>4. CodecPath(l1, s2, l1)
  BY <1>1, <1>2, PreparePath
<1>5. CodecPath(l1, s3, l2) /\ CodecPath(l2, s4, l2)
  BY <1>1, <1>2, ExactPath
<1>6. CodecPath(l2, s5, l3)
  <2>1. l2 \in Labels
    BY <1>1 DEF Label, Labels
  <2>2. Fixtures \in SUBSET (rows \cup Fixtures) /\ "stream" \in Codec!Hows
    BY DEF Codec!Data, Codec!Hows
  <2>3. CodecPath(l2, <<Codec!Step("reject", Fixtures, "stream")>>, l2)
    BY <2>1, <2>2, KeepPath
  <2>4. CodecPath(l2, <<Codec!Step("restore", {}, "stream")>>, l3)
    BY <1>1, SwapPath
  <2>. QED
    BY <1>2, <2>3, <2>4, PathTwo DEF CodecPath
<1>7. CodecPath(l0, s1 \o s2, l1)
  BY <1>3, <1>4, CodecJoin
<1>8. CodecPath(l0, (s1 \o s2) \o s3, l2)
  BY <1>5, <1>7, CodecJoin
<1>9. CodecPath(l0, ((s1 \o s2) \o s3) \o s4, l2)
  BY <1>5, <1>8, CodecJoin
<1>10. CodecPath(l0, (((s1 \o s2) \o s3) \o s4) \o s5, l3)
  BY <1>6, <1>9, CodecJoin
<1>. QED
  BY <1>1, <1>2, <1>10 DEF Codec!Diagnostics

(* The length of two sequences joined. *)
LEMMA LenJoin ==
  ASSUME NEW U, NEW a \in Seq(U), NEW b \in Seq(U)
  PROVE  a \o b \in Seq(U) /\ Len(a \o b) = Len(a) + Len(b)
OBVIOUS

(* The trials, each of which encodes and decodes what is timed. *)
LEMMA TimingPath ==
  ASSUME Setting, Codec!EvaluationAssumption, job.depth = "full"
  PROVE  /\ CodecPath(Label("after", FALSE, TRUE, FALSE), Codec!Timing(Trials),
                      Label("after", FALSE, TRUE, FALSE))
         /\ \A op \in {"encode", "decode"} :
              Has(Codec!Timing(Trials), Codec!Step(op, Codec!Timed, "trial"))
<1>1. PICK l, m : /\ l = Label("after", FALSE, TRUE, FALSE)
                  /\ m = Label("after", OnFitted, TRUE, FALSE)
  OBVIOUS
<1>2. PICK T : T = Codec!Timed /\ T \in SUBSET rows
  BY DEF Codec!Timed
<1>3. PICK s1, s2 : s1 = <<Codec!Step("encode", T, "trial")>> /\ s2 = <<Codec!Step("decode", T, "trial")>>
  OBVIOUS
<1>4. CodecPath(l, Codec!Prepare, m)
  BY <1>1, PreparePath
<1>5. CodecPath(m, s1, l)
  <2>1. OnFitted \in BOOLEAN
    BY DEF OnFitted
  <2>. QED
    BY <1>1, <1>2, <1>3, <2>1, TimePath
<1>6. CodecPath(l, Codec!Prepare \o s1, l)
  BY <1>4, <1>5, CodecJoin
<1>7. CodecPath(l, s2, l)
  <2>1. l \in Labels
    BY <1>1 DEF Label, Labels
  <2>2. T \in SUBSET (rows \cup Fixtures) /\ "trial" \in Codec!Hows
    BY <1>2 DEF Setting, Codec!Data, Codec!Hows
  <2>. QED
    BY <1>3, <2>1, <2>2, KeepPath
<1>8. Trials \in Nat /\ Trials # 0
  BY DEF Codec!EvaluationAssumption
<1>9. CodecPath(l, Codec!Times(Trials, Codec!Prepare \o s1), l)
  BY <1>6, <1>8, TimesPath
<1>10. CodecPath(l, Codec!Times(Trials, s2), l)
  BY <1>7, <1>8, TimesPath
<1>11. Codec!Timing(Trials) = Codec!Times(Trials, Codec!Prepare \o s1) \o Codec!Times(Trials, s2)
  BY <1>2, <1>3 DEF Codec!Timing
<1>12. CodecPath(l, Codec!Timing(Trials), l)
  BY <1>9, <1>10, <1>11, CodecJoin
<1>13. Has(Codec!Times(Trials, Codec!Prepare \o s1), Codec!Step("encode", T, "trial"))
  <2>1. Has(s1, Codec!Step("encode", T, "trial"))
    BY <1>3, HasWritten
  <2>2. Has(Codec!Prepare \o s1, Codec!Step("encode", T, "trial"))
    BY <1>4, <1>5, <2>1, CodecHas
  <2>. QED
    BY <1>6, <1>8, <2>2, TimesPath
<1>14. Has(Codec!Times(Trials, s2), Codec!Step("decode", T, "trial"))
  <2>1. Has(s2, Codec!Step("decode", T, "trial"))
    BY <1>3, HasWritten
  <2>. QED
    BY <1>7, <1>8, <2>1, TimesPath
<1>15. /\ Has(Codec!Timing(Trials), Codec!Step("encode", T, "trial"))
       /\ Has(Codec!Timing(Trials), Codec!Step("decode", T, "trial"))
  BY <1>9, <1>10, <1>11, <1>13, <1>14, CodecHas
<1>. QED
  BY <1>1, <1>2, <1>12, <1>15

(* Where each pipeline leads, and the steps the verdict asks for. *)
LEMMA FullPath ==
  ASSUME Setting, Codec!EvaluationAssumption, job.depth = "full"
  PROVE  /\ \E b : CodecPath(Pristine, Codec!Program, b)
         /\ \A x : \/ Has(Codec!Correctness, x) \/ Has(Codec!Rejections, x)
                  \/ Has(Codec!Timing(Trials), x)
                  => Has(Codec!Program, x)
         /\ Len(Codec!Program) > Len(Codec!Correctness) + 1
<1>1. PICK l2, l3 : /\ l2 = Label("before", FALSE, TRUE, TRUE)
                    /\ l3 = Label("after", FALSE, TRUE, FALSE)
  OBVIOUS
<1>2. PICK l0 : l0 = Pristine
  OBVIOUS
<1>3. PICK s1, s2, s3, s4, s5, s6 :
        /\ s1 = <<Codec!Step("build", {}, "stream")>> /\ s2 = Codec!Correctness
        /\ s3 = Codec!Rejections /\ s4 = Codec!Diagnostics /\ s5 = Codec!Timing(Trials)
        /\ s6 = <<Codec!Step("verify", {}, "stream")>>
  OBVIOUS
<1>4. {} \in SUBSET (rows \cup Fixtures) /\ "stream" \in Codec!Hows
  BY DEF Codec!Hows
<1>5. CodecPath(l0, s1, l0)
  <2>1. l0 \in Labels
    BY <1>2 DEF Pristine, Label, Labels
  <2>. QED
    BY <1>3, <1>4, <2>1, KeepPath
<1>6. CodecPath(l0, s2, l2)
  BY <1>1, <1>2, <1>3, CorrectnessPath
<1>7. CodecPath(l2, s3, l2)
  BY <1>1, <1>3, RejectionsPath
<1>8. CodecPath(l2, s4, l3)
  BY <1>1, <1>3, DiagnosticsPath
<1>9. CodecPath(l3, s5, l3)
  BY <1>1, <1>3, TimingPath
<1>10. CodecPath(l3, s6, l3)
  <2>1. l3 \in Labels
    BY <1>1 DEF Label, Labels
  <2>. QED
    BY <1>3, <1>4, <2>1, KeepPath
<1>11. CodecPath(l0, s1 \o s2, l2)
  BY <1>5, <1>6, CodecJoin
<1>12. CodecPath(l0, (s1 \o s2) \o s3, l2)
  BY <1>7, <1>11, CodecJoin
<1>13. CodecPath(l0, ((s1 \o s2) \o s3) \o s4, l3)
  BY <1>8, <1>12, CodecJoin
<1>14. CodecPath(l0, (((s1 \o s2) \o s3) \o s4) \o s5, l3)
  BY <1>9, <1>13, CodecJoin
<1>15. CodecPath(l0, ((((s1 \o s2) \o s3) \o s4) \o s5) \o s6, l3)
  BY <1>10, <1>14, CodecJoin
<1>16. Codec!Program = ((((s1 \o s2) \o s3) \o s4) \o s5) \o s6
  BY <1>3 DEF Codec!Program
<1>17. \A x : Has(s2, x) \/ Has(s3, x) \/ Has(s5, x) => Has(Codec!Program, x)
  <2>1. \A x : Has(s2, x) => Has(s1 \o s2, x)
    BY <1>5, <1>6, CodecHas
  <2>2. \A x : Has(s1 \o s2, x) \/ Has(s3, x) => Has((s1 \o s2) \o s3, x)
    BY <1>7, <1>11, CodecHas
  <2>3. \A x : Has((s1 \o s2) \o s3, x) => Has(((s1 \o s2) \o s3) \o s4, x)
    BY <1>8, <1>12, CodecHas
  <2>4. \A x : Has(((s1 \o s2) \o s3) \o s4, x) \/ Has(s5, x)
               => Has((((s1 \o s2) \o s3) \o s4) \o s5, x)
    BY <1>9, <1>13, CodecHas
  <2>5. \A x : Has((((s1 \o s2) \o s3) \o s4) \o s5, x) => Has(Codec!Program, x)
    BY <1>10, <1>14, <1>16, CodecHas
  <2>. QED
    BY <2>1, <2>2, <2>3, <2>4, <2>5
<1>18. Len(Codec!Program) > Len(s2) + 1
  <2>1. PICK U : U = CodecSteps
    OBVIOUS
  <2>2. /\ s1 \in Seq(U) /\ s2 \in Seq(U) /\ s3 \in Seq(U) /\ s4 \in Seq(U)
        /\ s5 \in Seq(U) /\ s6 \in Seq(U)
    BY <1>5, <1>6, <1>7, <1>8, <1>9, <1>10, <2>1 DEF CodecPath, Path
  <2>3. Len(s1) = 1 /\ Len(s6) = 1
    BY <1>3
  <2>4. /\ s1 \o s2 \in Seq(U)
        /\ Len(s1 \o s2) = Len(s1) + Len(s2)
    BY Zenon, <2>2, LenJoin
  <2>5. /\ (s1 \o s2) \o s3 \in Seq(U)
        /\ Len((s1 \o s2) \o s3) = Len(s1 \o s2) + Len(s3)
    BY Zenon, <2>2, <2>4, LenJoin
  <2>6. /\ ((s1 \o s2) \o s3) \o s4 \in Seq(U)
        /\ Len(((s1 \o s2) \o s3) \o s4) = Len((s1 \o s2) \o s3) + Len(s4)
    BY Zenon, <2>2, <2>5, LenJoin
  <2>7. /\ (((s1 \o s2) \o s3) \o s4) \o s5 \in Seq(U)
        /\ Len((((s1 \o s2) \o s3) \o s4) \o s5) = Len(((s1 \o s2) \o s3) \o s4) + Len(s5)
    BY Zenon, <2>2, <2>6, LenJoin
  <2>8. Len(((((s1 \o s2) \o s3) \o s4) \o s5) \o s6)
          = Len((((s1 \o s2) \o s3) \o s4) \o s5) + Len(s6)
    BY Zenon, <2>2, <2>7, LenJoin
  <2>9. PICK c \in Nat, d3 \in Nat, d4 \in Nat, d5 \in Nat :
          c = Len(s2) /\ d3 = Len(s3) /\ d4 = Len(s4) /\ d5 = Len(s5)
    BY <2>2
  <2>10. Len(((((s1 \o s2) \o s3) \o s4) \o s5) \o s6) = ((((1 + c) + d3) + d4) + d5) + 1
    BY Zenon, <2>3, <2>4, <2>5, <2>6, <2>7, <2>8, <2>9
  <2>11. ((((1 + c) + d3) + d4) + d5) + 1 > c + 1
    BY <2>9
  <2>. QED
    BY <1>16, <2>9, <2>10, <2>11
<1>. QED
  BY <1>2, <1>3, <1>15, <1>16, <1>17, <1>18

(* The quick pipeline is the gate of correctness and some trials. *)
LEMMA QuickPath ==
  ASSUME Setting, Codec!EvaluationAssumption, job.depth = "quick"
  PROVE  /\ \E b : CodecPath(Pristine, Codec!Program, b)
         /\ \A x : Has(Codec!Correctness, x) => Has(Codec!Program, x)
<1>1. PICK l2 : l2 = Label("before", FALSE, TRUE, TRUE)
  OBVIOUS
<1>2. PICK s2, s6 : s2 = Codec!Correctness /\ s6 = <<Codec!Step("verify", {}, "stream")>>
  OBVIOUS
<1>3. CodecPath(Pristine, s2, l2)
  BY <1>1, <1>2, CorrectnessPath
<1>4. CodecPath(l2, s6, l2)
  <2>1. l2 \in Labels /\ {} \in SUBSET (rows \cup Fixtures) /\ "stream" \in Codec!Hows
    BY <1>1 DEF Label, Labels, Codec!Hows
  <2>. QED
    BY <1>2, <2>1, KeepPath
<1>5. Codec!Program = s2 \o s6
  BY <1>2 DEF Codec!Program
<1>6. CodecPath(Pristine, s2 \o s6, l2)
  BY <1>3, <1>4, CodecJoin
<1>7. \A x : Has(s2, x) => Has(s2 \o s6, x)
  BY <1>3, <1>4, CodecHas
<1>. QED
  BY <1>2, <1>5, <1>6, <1>7

(* The screen is a part of the gate and some trials. *)
LEMMA ScreenPath ==
  ASSUME Setting, Codec!EvaluationAssumption, job.depth = "screen"
  PROVE  \E b : CodecPath(Pristine, Codec!Program, b)
<1>1. PICK l1, l2 : /\ l1 = Label("before", FALSE, TRUE, FALSE)
                    /\ l2 = Label("before", FALSE, TRUE, TRUE)
  OBVIOUS
<1>2. PICK s1, s2, s3, s4 :
        /\ s1 = Codec!Exact(rows) /\ s2 = Codec!Exact(Fixtures)
        /\ s3 = <<Codec!Step("encode", rows, "trial")>> /\ s4 = <<Codec!Step("decode", rows, "trial")>>
  OBVIOUS
<1>3. CodecPath(Pristine, s1, l1)
  BY <1>1, <1>2, ExactPath DEF Pristine
<1>4. CodecPath(l1, s2, l2)
  BY <1>1, <1>2, ExactPath
<1>5. CodecPath(l2, s3, l2)
  <2>1. FALSE <=> OnFitted
    BY DEF OnFitted
  <2>. QED
    BY <1>1, <1>2, <2>1, TimePath
<1>6. CodecPath(l2, s4, l2)
  <2>1. l2 \in Labels
    BY <1>1 DEF Label, Labels
  <2>2. rows \in SUBSET (rows \cup Fixtures) /\ "trial" \in Codec!Hows
    BY DEF Setting, Codec!Data, Codec!Hows
  <2>. QED
    BY <1>2, <2>1, <2>2, KeepPath
<1>7. ScreenTrials \in Nat
  BY DEF Codec!EvaluationAssumption
<1>8. CodecPath(l2, Codec!Times(ScreenTrials, s3), l2)
  BY <1>5, <1>7, TimesPath
<1>9. CodecPath(l2, Codec!Times(ScreenTrials, s4), l2)
  BY <1>6, <1>7, TimesPath
<1>10. CodecPath(Pristine, s1 \o s2, l2)
  BY <1>3, <1>4, CodecJoin
<1>11. CodecPath(Pristine, (s1 \o s2) \o Codec!Times(ScreenTrials, s3), l2)
  BY <1>8, <1>10, CodecJoin
<1>12. CodecPath(Pristine, ((s1 \o s2) \o Codec!Times(ScreenTrials, s3))
                          \o Codec!Times(ScreenTrials, s4), l2)
  BY <1>9, <1>11, CodecJoin
<1>13. Codec!Program = ((s1 \o s2) \o Codec!Times(ScreenTrials, s3)) \o Codec!Times(ScreenTrials, s4)
  BY <1>2 DEF Codec!Program
<1>. QED
  BY <1>12, <1>13

(* Whatever the depth, the pipeline is a path from the untouched directory. *)
LEMMA ProgramPath ==
  ASSUME Setting, Codec!EvaluationAssumption
  PROVE  \E b : CodecPath(Pristine, Codec!Program, b)
<1>1. job.depth \in {"full", "quick", "screen"}
  BY DEF Setting, Codec!Depths
<1>. QED
  BY <1>1, FullPath, QuickPath, ScreenPath

-----------------------------------------------------------------------------
(* The codec: the inductive invariant, and its initial states. *)

(* What an evaluation knows at a label of the pipeline: which programs run, *)
(* and what is on record of them.  The rows have one archive each; so do    *)
(* the fixtures on either side of the diagnostics.                          *)
RowEncode(e, l) == e.on \in rows /\ ~e.diagnosing /\ l.first /\ e.gave = archive[e.on]

FixtureEncode(e, l) ==
  /\ e.on \in Fixtures /\ e.diagnosing \in BOOLEAN
  /\ l.side = "before" => ~e.diagnosing
  /\ (l.side = "before" /\ ~e.diagnosing) \/ (l.side = "inside" /\ e.diagnosing)
       => l.unusual /\ e.gave = archive[e.on]

Recorded(l) ==
  \A e \in observed :
    /\ e.what \in {"encode", "decode", "reject", "prepare"}
    /\ e.what = "encode" => RowEncode(e, l) \/ FixtureEncode(e, l)
    /\ e.what = "decode" => e.gave = e.on
    /\ e.what = "reject" => e.gave = "refused"

Agreeing == \A e, f \in observed :
  (e.what = "encode" /\ f.what = "encode" /\ f.on = e.on /\ f.diagnosing = e.diagnosing)
    => f.gave = e.gave

Along(l) ==
  /\ l \in Labels
  /\ diagnosing \in BOOLEAN /\ (diagnosing <=> l.side = "inside")
  /\ decoder = IF l.side = "inside" THEN Codec!SanitizedDecoder ELSE Codec!RegisteredDecoder
  /\ runtime = IF l.side = "inside" THEN "sanitized" ELSE IF l.fitted THEN "prepared" ELSE "runtime"
  /\ Recorded(l)

Traced(f) == f[1] = Pristine /\ Labelling(Moves, f, Codec!Program) /\ Along(f[at + 1])

(* Every step behind has been run on everything it names. *)
Covered ==
  \A i \in 1..at : Codec!Program[i].op \in {"encode", "decode", "reject"} =>
    \A o \in Codec!Program[i].on : Codec!Ran(Codec!Program[i].op, Codec!Program[i].how, o)

Ranked == (card.decoderPolicy /\ manifest.schema # 2 /\ job.depth = "full")
            => at <= Len(Codec!Correctness) + 1

Underway == (\E f : Traced(f)) /\ Agreeing /\ Covered /\ Ranked

(* What stands once the quality has passed. *)
Concluded ==
  /\ job.depth # "screen"
  /\ Agreeing
  /\ \A e \in observed : /\ e.what \in {"encode", "decode", "reject", "prepare"}
                         /\ e.what = "decode" => e.gave = e.on
                         /\ e.what = "reject" => e.gave = "refused"
  /\ Covered /\ Ranked /\ at = Len(Codec!Program)
  /\ raw.eligible => job.mode = "required" /\ card.benchmark

CodecInv ==
  /\ Setting /\ at \in Nat
  /\ job.depth = "screen" => rows \subseteq Objects \ HeldOut
  /\ Codec!RunsWhatIsRegistered /\ Codec!HeldOutUnseen
  /\ raw = None => Underway
  /\ raw # None /\ raw.quality => Concluded
  /\ assessed # None /\ assessed.qualified => raw # None /\ Codec!Qualifies

(* The plan of a run depends on its setting alone. *)
LEMMA SettingKept ==
  ASSUME UNCHANGED Codec!setting
  PROVE  /\ Moves' = Moves /\ Codec!Program' = Codec!Program /\ Codec!Correctness' = Codec!Correctness
         /\ Setting' = Setting
         /\ Codec!RegisteredDecoder' = Codec!RegisteredDecoder
         /\ Codec!SanitizedDecoder' = Codec!SanitizedDecoder
<1>1. card' = card /\ manifest' = manifest /\ job' = job /\ rows' = rows
  BY DEF Codec!setting
<1>2. OnFitted' = OnFitted
  BY <1>1 DEF OnFitted, Codec!Offline
<1>3. Moves' = Moves
  BY <1>1, <1>2 DEF Moves, Legal, Archives, Compares, Measures, Refits, Swaps, Keeps
<1>4. Codec!Correctness' = Codec!Correctness
  BY <1>1 DEF Codec!Correctness, Codec!Exact, Codec!Parity, Codec!Alone
<1>5. /\ Codec!Rejections' = Codec!Rejections /\ Codec!Diagnostics' = Codec!Diagnostics
      /\ Codec!Timing(Trials)' = Codec!Timing(Trials)
  <2>1. Codec!Prepare' = Codec!Prepare /\ Codec!Timed' = Codec!Timed
    BY <1>1 DEF Codec!Prepare, Codec!Offline, Codec!Timed
  <2>2. Codec!Rejections' = Codec!Rejections
    BY <1>1 DEF Codec!Rejections
  <2>3. Codec!Diagnostics' = Codec!Diagnostics
    BY <2>1 DEF Codec!Diagnostics
  <2>4. Codec!Timing(Trials)' = Codec!Timing(Trials)
    BY <2>1 DEF Codec!Timing
  <2>. QED
    BY <2>2, <2>3, <2>4
<1>6. Codec!Program' = Codec!Program
  BY <1>1, <1>4, <1>5 DEF Codec!Program
<1>7. Setting' = Setting
  BY <1>1 DEF Setting
<1>8. /\ Codec!RegisteredDecoder' = Codec!RegisteredDecoder
      /\ Codec!SanitizedDecoder' = Codec!SanitizedDecoder
  BY <1>1 DEF Codec!RegisteredDecoder, Codec!SanitizedDecoder
<1>. QED
  BY <1>3, <1>4, <1>6, <1>7, <1>8

(* What a run of a program leaves on record. *)
LEMMA SeenRecords ==
  ASSUME NEW what, NEW how, NEW which, NEW outs, Codec!Seen(what, how, which, outs)
  PROVE  /\ observed \subseteq observed'
         /\ \A e \in observed' : e \in observed \/
              (/\ e.what = what /\ e.how = how /\ e.which = which /\ e.on \in DOMAIN outs
               /\ e.gave = outs[e.on] /\ e.diagnosing = diagnosing)
         /\ \A o \in DOMAIN outs : Codec!Ran(what, how, o)'
<1>. DEFINE Line(o) == [what |-> what, how |-> how, which |-> which, on |-> o,
                        gave |-> outs[o], diagnosing |-> diagnosing]
<1>1. observed' = observed \cup {Line(o) : o \in DOMAIN outs}
  BY DEF Codec!Seen
<1>2. \A o \in DOMAIN outs : /\ Line(o).what = what /\ Line(o).how = how /\ Line(o).which = which
                             /\ Line(o).on = o /\ Line(o).gave = outs[o]
                             /\ Line(o).diagnosing = diagnosing
  OBVIOUS
<1>. HIDE DEF Line
<1>3. \A o \in DOMAIN outs : Line(o) \in observed'
  BY <1>1
<1>4. \A e \in observed' : e \in observed \/ \E o \in DOMAIN outs : e = Line(o)
  BY <1>1
<1>5. \A o \in DOMAIN outs : Codec!Ran(what, how, o)'
  BY <1>2, <1>3 DEF Codec!Ran
<1>6. observed \subseteq observed'
  BY <1>1
<1>. QED
  BY <1>2, <1>4, <1>5, <1>6

(* The step at hand leads from where the run is to where it will be. *)
LEMMA Onward ==
  ASSUME CodecInv, raw = None, at < Len(Codec!Program)
  PROVE  \E l \in Labels, m \in Labels, s \in CodecSteps :
           /\ s = Codec!Now /\ Legal(l, s, m) /\ Along(l)
           /\ Codec!Advance /\ Along(m)' => (\E f : Traced(f))'
<1>1. PICK f : Traced(f)
  BY DEF CodecInv, Underway
<1>2. PICK P, M : P = Codec!Program /\ M = Moves
  OBVIOUS
<1>3. PICK k \in Nat, i \in Nat : k = Len(P) /\ i = at + 1 /\ i \in 1..k
  <2>1. P \in Seq(CodecSteps)
    BY <1>2, ProgramPath, ScoringAssumption DEF CodecInv, CodecPath, Path
  <2>2. Len(P) \in Nat /\ at \in Nat
    BY <2>1 DEF CodecInv
  <2>. QED
    BY <1>2, <2>2
<1>4. <<f[i], P[i], f[i + 1]>> \in M
  BY <1>1, <1>2, <1>3 DEF Traced, Labelling
<1>5. PICK l \in Labels, s \in CodecSteps, m \in Labels :
        l = f[i] /\ s = P[i] /\ m = f[i + 1] /\ Legal(l, s, m)
  BY <1>2, <1>4 DEF Moves
<1>6. s = Codec!Now
  BY <1>2, <1>3, <1>5 DEF Codec!Now
<1>7. Along(l)
  BY <1>1, <1>3, <1>5 DEF Traced
<1>8. ASSUME Codec!Advance, Along(m)' PROVE (\E g : Traced(g))'
  <2>1. at' = i /\ Codec!Program' = P /\ Moves' = M
    BY <1>2, <1>3, <1>8, SettingKept DEF Codec!Advance
  <2>2. Traced(f)'
    BY <1>1, <1>2, <1>5, <1>8, <2>1 DEF Traced, Labelling
  <2>. QED
    BY <2>2
<1>. QED
  BY <1>5, <1>6, <1>7, <1>8

-----------------------------------------------------------------------------
(* What a record must say for RunsWhatIsRegistered and HeldOutUnseen.       *)
RightRun(e) ==
  e.which = CASE e.what = "prepare" -> IF e.diagnosing THEN "sanitized" ELSE "runtime"
              [] e.what = "encode"  -> IF e.diagnosing THEN "sanitized"
                                       ELSE IF e.how = "trial" /\ Codec!Offline /\ job.depth = "full"
                                       THEN "prepared" ELSE "runtime"
              [] OTHER              -> IF e.diagnosing THEN Codec!SanitizedDecoder
                                       ELSE Codec!RegisteredDecoder

UnseenRun(e) == (e.what = "prepare" \/ job.depth = "screen") => e.on \notin HeldOut

(* The record e is of the step s, run where the label is l. *)
Records(e, s) ==
  /\ e.what = s.op /\ e.how = s.how /\ e.on \in s.on /\ e.diagnosing = diagnosing
  /\ e.which = IF s.op \in {"encode", "prepare"} THEN runtime ELSE decoder

(* A step runs what is registered, on what it may see. *)
LEMMA RecordsRight ==
  ASSUME CodecInv, NEW l \in Labels, NEW s \in CodecSteps, NEW m \in Labels,
         Along(l), Legal(l, s, m), NEW e, Records(e, s),
         s.op \in {"encode", "decode", "reject", "prepare"}
  PROVE  RightRun(e) /\ UnseenRun(e)
<1>1. l.side \in {"before", "inside", "after"} /\ l.fitted \in BOOLEAN
  BY DEF Labels
<1>2. CASE s.op = "encode"
  <2>1. s.on \subseteq rows \cup Fixtures
    BY <1>2 DEF Legal, Archives, Compares, Measures, Refits, Swaps, Keeps
  <2>2. UnseenRun(e)
    <3>1. HeldOut \subseteq Objects /\ Objects \cap Fixtures = {}
      BY ScoringAssumption DEF Codec!EvaluationAssumption
    <3>2. e.what = "encode" /\ e.on \in rows \cup Fixtures
      BY <1>2, <2>1 DEF Records
    <3>3. job.depth = "screen" => rows \subseteq Objects \ HeldOut
      BY DEF CodecInv
    <3>. QED
      BY <3>1, <3>2, <3>3 DEF UnseenRun
  <2>3. e.what = "encode" /\ e.how = s.how /\ e.which = runtime /\ e.diagnosing = diagnosing
    BY <1>2 DEF Records
  <2>4. (s.how = "trial" /\ (l.fitted <=> OnFitted) /\ l.side # "inside")
        \/ (s.how # "trial" /\ ~l.fitted)
    BY <1>2 DEF Legal, Archives, Compares, Measures, Refits, Swaps, Keeps
  <2>5. (diagnosing <=> l.side = "inside") /\ (diagnosing => runtime = "sanitized")
        /\ (~diagnosing => runtime = IF l.fitted THEN "prepared" ELSE "runtime")
    BY DEF Along
  <2>6. RightRun(e)
    BY <2>3, <2>4, <2>5 DEF RightRun, OnFitted
  <2>. QED
    BY <2>2, <2>6
<1>3. CASE s.op = "prepare"
  <2>1. s.on = Objects \ HeldOut /\ ~l.fitted
    BY <1>3 DEF Legal, Archives, Compares, Measures, Refits, Swaps, Keeps
  <2>2. e.what = "prepare" /\ e.on \in s.on /\ e.which = runtime /\ e.diagnosing = diagnosing
    BY <1>3 DEF Records
  <2>3. UnseenRun(e)
    BY <2>1, <2>2 DEF UnseenRun
  <2>4. (diagnosing => runtime = "sanitized") /\ (~diagnosing => runtime = "runtime")
    BY <2>1 DEF Along
  <2>5. RightRun(e)
    BY <2>2, <2>4 DEF RightRun
  <2>. QED
    BY <2>3, <2>5
<1>4. CASE s.op \in {"decode", "reject"}
  <2>1. s.on \subseteq rows \cup Fixtures
    BY <1>4 DEF Legal, Archives, Compares, Measures, Refits, Swaps, Keeps
  <2>2. e.what \in {"decode", "reject"} /\ e.on \in s.on /\ e.which = decoder /\ e.diagnosing = diagnosing
    BY <1>4 DEF Records
  <2>3. UnseenRun(e)
    <3>1. HeldOut \subseteq Objects /\ Objects \cap Fixtures = {}
      BY ScoringAssumption DEF Codec!EvaluationAssumption
    <3>2. job.depth = "screen" => rows \subseteq Objects \ HeldOut
      BY DEF CodecInv
    <3>. QED
      BY <2>1, <2>2, <3>1, <3>2 DEF UnseenRun
  <2>4. /\ diagnosing => decoder = Codec!SanitizedDecoder
        /\ ~diagnosing => decoder = Codec!RegisteredDecoder
    BY DEF Along
  <2>5. RightRun(e)
    BY <2>2, <2>4 DEF RightRun
  <2>. QED
    BY <2>3, <2>5
<1>. QED
  BY <1>2, <1>3, <1>4

(* So whatever the outcome, the record stays right. *)
LEMMA StillRight ==
  ASSUME CodecInv, UNCHANGED Codec!setting,
         \A e \in observed' : e \in observed \/ (RightRun(e) /\ UnseenRun(e))
  PROVE  Codec!RunsWhatIsRegistered' /\ Codec!HeldOutUnseen'
<1>1. card' = card /\ manifest' = manifest /\ job' = job
  BY DEF Codec!setting
<1>2. ASSUME NEW e \in observed' PROVE RightRun(e) /\ UnseenRun(e)
  BY <1>2 DEF CodecInv, Codec!RunsWhatIsRegistered, Codec!HeldOutUnseen, RightRun, UnseenRun
<1>4. Codec!RunsWhatIsRegistered'
  BY <1>1, <1>2, SettingKept DEF RightRun, Codec!Offline, Codec!RunsWhatIsRegistered
<1>5. Codec!HeldOutUnseen'
  BY <1>1, <1>2 DEF UnseenRun, Codec!HeldOutUnseen
<1>. QED
  BY <1>4, <1>5

(* Whatever is raised proves nothing. *)
LEMMA RaisedKept ==
  ASSUME CodecInv, raw = None, Codec!Raised,
         Codec!RunsWhatIsRegistered', Codec!HeldOutUnseen'
  PROVE  CodecInv'
<1>1. /\ card' = card /\ manifest' = manifest /\ job' = job /\ rows' = rows /\ at' = at
      /\ assessed' = assessed /\ raw' = Codec!Failed
  BY DEF Codec!Raised, Codec!setting
<1>2. raw' # None /\ ~raw'.quality
  <2>1. Codec!Failed \in [quality : BOOLEAN, eligible : BOOLEAN, screened : BOOLEAN]
        /\ Codec!Failed.quality = FALSE
    BY DEF Codec!Failed
  <2>. QED
    BY <1>1, <2>1, ScoringAssumption DEF Codec!EvaluationAssumption
<1>. QED
  BY <1>1, <1>2 DEF CodecInv, Setting

(* A step done is one more step covered. *)
LEMMA AdvancedKept ==
  ASSUME CodecInv, raw = None, at < Len(Codec!Program), ~Codec!Unranked, Codec!Advance,
         observed \subseteq observed', Codec!RunsWhatIsRegistered', Codec!HeldOutUnseen',
         (\E f : Traced(f))', Agreeing',
         NEW s, s = Codec!Now,
         s.op \in {"encode", "decode", "reject"} => \A o \in s.on : Codec!Ran(s.op, s.how, o)'
  PROVE  CodecInv'
<1>1. /\ card' = card /\ manifest' = manifest /\ job' = job /\ rows' = rows /\ at' = at + 1
      /\ raw' = raw /\ assessed' = assessed /\ UNCHANGED Codec!setting
  BY DEF Codec!Advance, Codec!setting, Codec!outcome
<1>2. PICK P : P = Codec!Program
  OBVIOUS
<1>3. P' = P /\ Codec!Program' = P
  BY <1>1, <1>2, SettingKept
<1>4. at \in Nat
  BY DEF CodecInv
<1>5. Covered'
  <2>1. ASSUME NEW i \in 1..(at + 1), P[i].op \in {"encode", "decode", "reject"}, NEW o \in P[i].on
        PROVE  Codec!Ran(P[i].op, P[i].how, o)'
    <3>1. CASE i = at + 1
      <4>1. s = P[i]
        BY <1>2, <3>1 DEF Codec!Now
      <4>. QED
        BY <2>1, <4>1
    <3>2. CASE i # at + 1
      <4>1. i \in 1..at
        BY <1>4, <3>2
      <4>2. Codec!Ran(P[i].op, P[i].how, o)
        BY <1>2, <2>1, <4>1 DEF CodecInv, Underway, Covered
      <4>. QED
        BY <4>2 DEF Codec!Ran
    <3>. QED
      BY <3>1, <3>2
  <2>. QED
    BY <1>1, <1>3, <2>1 DEF Covered
<1>6. Ranked'
  <2>1. PICK c \in Int : c = Len(Codec!Correctness)
    <3>1. Codec!Correctness \in Seq(CodecSteps)
      BY CorrectnessPath, ScoringAssumption DEF CodecInv, CodecPath, Path
    <3>. QED
      BY <3>1
  <2>2. Codec!Correctness' = Codec!Correctness
    BY <1>1, SettingKept
  <2>3. ASSUME card.decoderPolicy, manifest.schema # 2, job.depth = "full" PROVE at + 1 <= c + 1
    <3>1. at <= c + 1
      BY <2>1, <2>3 DEF CodecInv, Underway, Ranked
    <3>2. at # c + 1
      BY <2>1, <2>3 DEF Codec!Unranked
    <3>. QED
      BY <1>4, <2>1, <3>1, <3>2
  <2>. QED
    BY <1>1, <2>1, <2>2, <2>3 DEF Ranked
<1>7. at' \in Nat
  BY <1>1, <1>4
<1>8. Underway'
  BY <1>5, <1>6 DEF Underway
<1>. QED
  BY <1>1, <1>7, <1>8 DEF CodecInv, Setting

-----------------------------------------------------------------------------
(* The codec: every action keeps the invariant. *)

(* What an operation may do needs the step at hand, of its kind.            *)
LEMMA AtHand ==
  ASSUME CodecInv, NEW op, Codec!May(op)
  PROVE  /\ raw = None /\ at < Len(Codec!Program) /\ ~Codec!Unranked
         /\ \E l \in Labels, m \in Labels, s \in CodecSteps :
              /\ s = Codec!Now /\ s.op = op /\ Legal(l, s, m) /\ Along(l)
              /\ Codec!Advance /\ Along(m)' => (\E f : Traced(f))'
<1>1. raw = None /\ at < Len(Codec!Program) /\ ~Codec!Unranked /\ Codec!Now.op = op
  BY DEF Codec!May, Codec!Doing, Codec!Running
<1>. QED
  BY <1>1, Onward

(* The conditions under which a label still describes what is known: the    *)
(* programs it names, and records no worse than they were.                  *)
LEMMA SameRecords ==
  ASSUME NEW l \in Labels, NEW m \in Labels, Along(l), rows' = rows,
         m.side = l.side, m.first = l.first, m.unusual = l.unusual, archive' = archive,
         \A e \in observed' : e \in observed \/ e.what = "prepare"
                              \/ (e.what = "decode" /\ e.gave = e.on)
                              \/ (e.what = "reject" /\ e.gave = "refused")
  PROVE  Recorded(m)' /\ (Agreeing => Agreeing')
<1>1. ASSUME NEW e \in observed' PROVE
        /\ e.what \in {"encode", "decode", "reject", "prepare"}
        /\ e.what = "encode" => (RowEncode(e, m) \/ FixtureEncode(e, m))'
        /\ e.what = "decode" => e.gave = e.on
        /\ e.what = "reject" => e.gave = "refused"
  <2>1. CASE e \in observed
    BY <2>1 DEF Along, Recorded, RowEncode, FixtureEncode
  <2>2. CASE e \notin observed
    BY <2>2
  <2>. QED
    BY <2>1, <2>2
<1>2. Recorded(m)'
  BY <1>1 DEF Recorded
<1>3. Agreeing => Agreeing'
  BY DEF Agreeing
<1>. QED
  BY <1>2, <1>3

(* A build or a verification runs no program. *)
LEMMA QuietKept ==
  ASSUME CodecInv, NEW op \in {"build", "verify"}, Codec!May(op), Codec!Advance,
         UNCHANGED Codec!pipeline, UNCHANGED observed
  PROVE  CodecInv'
<1>1. PICK l \in Labels, m \in Labels, s \in CodecSteps :
        /\ s = Codec!Now /\ s.op = op /\ Legal(l, s, m) /\ Along(l)
        /\ Codec!Advance /\ Along(m)' => (\E f : Traced(f))'
  BY AtHand
<1>2. m = l
  BY <1>1 DEF Legal, Archives, Compares, Measures, Refits, Swaps, Keeps
<1>3. /\ archive' = archive /\ runtime' = runtime /\ decoder' = decoder
      /\ diagnosing' = diagnosing /\ rows' = rows /\ UNCHANGED Codec!setting
  BY DEF Codec!pipeline, Codec!Advance, Codec!setting
<1>4. Recorded(m)' /\ (Agreeing => Agreeing')
  BY <1>1, <1>2, <1>3, SameRecords
<1>5. Along(m)'
  BY <1>1, <1>2, <1>3, <1>4, SettingKept DEF Along
<1>6. Agreeing'
  BY <1>4, AtHand DEF CodecInv, Underway
<1>7. Codec!RunsWhatIsRegistered' /\ Codec!HeldOutUnseen'
  BY <1>3, StillRight
<1>8. raw = None /\ at < Len(Codec!Program) /\ ~Codec!Unranked
  BY AtHand
<1>. QED
  BY <1>1, <1>5, <1>6, <1>7, <1>8, AdvancedKept

(* Rebuild, and Verify whether or not the candidate is intact.              *)
LEMMA RebuildKept ==
  ASSUME CodecInv, Codec!Rebuild \/ Codec!Verify
  PROVE  CodecInv'
<1>1. CASE Codec!Rebuild
  BY <1>1, QuietKept DEF Codec!Rebuild
<1>2. CASE Codec!Verify /\ intact
  BY <1>2, QuietKept DEF Codec!Verify
<1>3. CASE Codec!Verify /\ ~intact
  <2>1. Codec!May("verify") /\ Codec!Raised /\ observed' = observed
    BY <1>3 DEF Codec!Verify
  <2>2. raw = None
    BY <2>1, AtHand
  <2>3. UNCHANGED Codec!setting
    BY <2>1 DEF Codec!Raised
  <2>4. Codec!RunsWhatIsRegistered' /\ Codec!HeldOutUnseen'
    BY <2>1, <2>3, StillRight
  <2>. QED
    BY <2>1, <2>2, <2>4, RaisedKept
<1>. QED
  BY <1>1, <1>2, <1>3

(* What is raised with nothing run. *)
LEMMA RaiseKept ==
  ASSUME CodecInv, Codec!Raise \/ Codec!Refuse \/ Codec!RefuseInventory
  PROVE  CodecInv'
<1>1. raw = None /\ Codec!Raised /\ observed' = observed
  BY DEF Codec!Raise, Codec!Refuse, Codec!RefuseInventory, Codec!Running
<1>2. UNCHANGED Codec!setting
  BY <1>1 DEF Codec!Raised
<1>3. Codec!RunsWhatIsRegistered' /\ Codec!HeldOutUnseen'
  BY <1>1, <1>2, StillRight
<1>. QED
  BY <1>1, <1>3, RaisedKept

(* The diagnostics begin and end with no archive of theirs on record. *)
LEMMA SwapKept ==
  ASSUME CodecInv, Codec!Sanitize \/ Codec!Restore
  PROVE  CodecInv'
<1>0. PICK op \in {"sanitize", "restore"} :
        Codec!May(op) /\ (op = "sanitize" => Codec!Sanitize) /\ (op = "restore" => Codec!Restore)
  BY DEF Codec!Sanitize, Codec!Restore
<1>1. PICK l \in Labels, m \in Labels, s \in CodecSteps :
        /\ s = Codec!Now /\ s.op = op /\ Legal(l, s, m) /\ Along(l)
        /\ Codec!Advance /\ Along(m)' => (\E f : Traced(f))'
  BY <1>0, AtHand
<1>2. Codec!Advance /\ archive' = archive /\ observed' = observed
  BY <1>0 DEF Codec!Sanitize, Codec!Restore
<1>3. rows' = rows /\ UNCHANGED Codec!setting
  BY <1>2 DEF Codec!Advance, Codec!setting
<1>4. Swaps(l, s, m)
  BY <1>0, <1>1 DEF Legal, Archives, Compares, Measures, Refits, Swaps, Keeps
<1>5. l.first \in BOOLEAN
  BY DEF Labels
<1>6. ASSUME op = "sanitize" PROVE Along(m)'
  <2>1. l.side = "before" /\ m = Label("inside", FALSE, l.first, FALSE)
    BY <1>1, <1>4, <1>6 DEF Swaps
  <2>2. m.side = "inside" /\ m.fitted = FALSE /\ m.first = l.first /\ m.unusual = FALSE
    BY Zenon, <2>1 DEF Label
  <2>3. runtime' = "sanitized" /\ decoder' = Codec!SanitizedDecoder /\ diagnosing' = TRUE
    BY <1>0, <1>6 DEF Codec!Sanitize
  <2>4. Recorded(m)'
    <3>1. ASSUME NEW e \in observed PROVE
        /\ e.what \in {"encode", "decode", "reject", "prepare"}
        /\ e.what = "encode" => (RowEncode(e, m) \/ FixtureEncode(e, m))'
        /\ e.what = "decode" => e.gave = e.on
        /\ e.what = "reject" => e.gave = "refused"
      <4>1. /\ e.what \in {"encode", "decode", "reject", "prepare"}
            /\ e.what = "decode" => e.gave = e.on
            /\ e.what = "reject" => e.gave = "refused"
            /\ e.what = "encode" => RowEncode(e, l) \/ FixtureEncode(e, l)
        BY <1>1, <3>1 DEF Along, Recorded
      <4>2. RowEncode(e, l) => RowEncode(e, m)'
        BY <1>2, <1>3, <2>2 DEF RowEncode
      <4>3. FixtureEncode(e, l) => FixtureEncode(e, m)'
        BY <1>2, <2>1, <2>2 DEF FixtureEncode
      <4>. QED
        BY <4>1, <4>2, <4>3
    <3>. QED
      BY <1>2, <3>1 DEF Recorded
  <2>5. Along(m)'
    BY <1>3, <2>2, <2>3, <2>4, SettingKept DEF Along
  <2>. QED
    BY <2>5
<1>7. ASSUME op = "restore" PROVE Along(m)'
  <2>1. l.side = "inside" /\ m = Label("after", FALSE, l.first, FALSE)
    BY <1>1, <1>4, <1>7 DEF Swaps
  <2>2. m.side = "after" /\ m.fitted = FALSE /\ m.first = l.first /\ m.unusual = FALSE
    BY Zenon, <2>1 DEF Label
  <2>3. runtime' = "runtime" /\ decoder' = Codec!RegisteredDecoder /\ diagnosing' = FALSE
    BY <1>0, <1>7 DEF Codec!Restore
  <2>4. Recorded(m)'
    <3>1. ASSUME NEW e \in observed PROVE
        /\ e.what \in {"encode", "decode", "reject", "prepare"}
        /\ e.what = "encode" => (RowEncode(e, m) \/ FixtureEncode(e, m))'
        /\ e.what = "decode" => e.gave = e.on
        /\ e.what = "reject" => e.gave = "refused"
      <4>1. /\ e.what \in {"encode", "decode", "reject", "prepare"}
            /\ e.what = "decode" => e.gave = e.on
            /\ e.what = "reject" => e.gave = "refused"
            /\ e.what = "encode" => RowEncode(e, l) \/ FixtureEncode(e, l)
        BY <1>1, <3>1 DEF Along, Recorded
      <4>2. RowEncode(e, l) => RowEncode(e, m)'
        BY <1>2, <1>3, <2>2 DEF RowEncode
      <4>3. FixtureEncode(e, l) => FixtureEncode(e, m)'
        BY <1>2, <2>1, <2>2 DEF FixtureEncode
      <4>. QED
        BY <4>1, <4>2, <4>3
    <3>. QED
      BY <1>2, <3>1 DEF Recorded
  <2>5. Along(m)'
    BY <1>3, <2>2, <2>3, <2>4, SettingKept DEF Along
  <2>. QED
    BY <2>5
<1>8. raw = None /\ at < Len(Codec!Program) /\ ~Codec!Unranked
  BY <1>0, AtHand
<1>9. Agreeing'
  BY <1>2, <1>8 DEF CodecInv, Underway, Agreeing
<1>10. Codec!RunsWhatIsRegistered' /\ Codec!HeldOutUnseen'
  BY <1>2, <1>3, StillRight
<1>11. Along(m)'
  BY <1>6, <1>7
<1>. QED
  BY <1>0, <1>1, <1>2, <1>8, <1>9, <1>10, <1>11, AdvancedKept

(* What is fitted is fitted to what is not held out, and compared.          *)
LEMMA PrepareKept ==
  ASSUME CodecInv, Codec!PrepareOffline
  PROVE  CodecInv'
<1>1. Codec!May("prepare")
  BY DEF Codec!PrepareOffline
<1>2. PICK l \in Labels, m \in Labels, s \in CodecSteps :
        /\ s = Codec!Now /\ s.op = "prepare" /\ Legal(l, s, m) /\ Along(l)
        /\ Codec!Advance /\ Along(m)' => (\E f : Traced(f))'
  BY <1>1, AtHand
<1>3. /\ Codec!Seen("prepare", s.how, runtime, [o \in s.on |-> o])
      /\ runtime' = (IF diagnosing THEN runtime ELSE "prepared")
      /\ Codec!Advance /\ archive' = archive /\ decoder' = decoder /\ diagnosing' = diagnosing
  BY <1>2 DEF Codec!PrepareOffline
<1>4. rows' = rows /\ UNCHANGED Codec!setting
  BY <1>3 DEF Codec!Advance, Codec!setting
<1>5. Refits(l, s, m)
  BY <1>2 DEF Legal, Archives, Compares, Measures, Refits, Swaps, Keeps
<1>6. /\ observed \subseteq observed'
      /\ \A e \in observed' : e \in observed \/ (e.what = "prepare" /\ Records(e, s))
  <2>1. \A e \in observed' : e \in observed \/
          (/\ e.what = "prepare" /\ e.how = s.how /\ e.which = runtime /\ e.on \in s.on
           /\ e.diagnosing = diagnosing)
    BY <1>3, SeenRecords
  <2>2. observed \subseteq observed'
    BY <1>3, SeenRecords
  <2>. QED
    BY <1>2, <2>1, <2>2 DEF Records
<1>7. Codec!RunsWhatIsRegistered' /\ Codec!HeldOutUnseen'
  <2>1. \A e \in observed' : e \in observed \/ (RightRun(e) /\ UnseenRun(e))
    BY <1>2, <1>6, RecordsRight
  <2>. QED
    BY <1>4, <2>1, StillRight
<1>8. /\ m.side = l.side /\ m.first = l.first /\ m.unusual = l.unusual
      /\ m.fitted = (l.side # "inside") /\ ~l.fitted
  <2>1. /\ l.side \in {"before", "inside", "after"} /\ l.fitted \in BOOLEAN /\ l.first \in BOOLEAN
        /\ l.unusual \in BOOLEAN
    BY DEF Labels
  <2>2. CASE l.side = "inside" /\ m = l
    BY <1>5, <2>1, <2>2 DEF Refits
  <2>3. CASE l.side = "after" /\ m = Label(l.side, TRUE, l.first, l.unusual)
    <3>1. PICK e \in {"before", "inside", "after"}, g \in BOOLEAN, h \in BOOLEAN :
            e = l.side /\ g = l.first /\ h = l.unusual
      BY <2>1
    <3>2. m = Label(e, TRUE, g, h)
      BY <2>3, <3>1
    <3>3. m.side = e /\ m.fitted = TRUE /\ m.first = g /\ m.unusual = h
      BY <3>2 DEF Label
    <3>4. ~l.fitted
      BY <1>5 DEF Refits
    <3>. QED
      BY <2>3, <3>1, <3>3, <3>4
  <2>. QED
    BY <1>5, <2>2, <2>3 DEF Refits
<1>9. Recorded(m)' /\ (Agreeing => Agreeing')
  BY <1>2, <1>3, <1>4, <1>6, <1>8, SameRecords
<1>10. Along(m)'
  <2>1. /\ diagnosing \in BOOLEAN /\ (diagnosing <=> l.side = "inside")
        /\ decoder = IF l.side = "inside" THEN Codec!SanitizedDecoder ELSE Codec!RegisteredDecoder
        /\ runtime = IF l.side = "inside" THEN "sanitized" ELSE "runtime"
    BY <1>2, <1>8 DEF Along
  <2>. QED
    BY <1>3, <1>4, <1>8, <1>9, <2>1, SettingKept DEF Along
<1>11. raw = None /\ at < Len(Codec!Program) /\ ~Codec!Unranked
  BY <1>1, AtHand
<1>12. Agreeing'
  BY <1>9, <1>11 DEF CodecInv, Underway
<1>. QED
  BY <1>2, <1>3, <1>6, <1>7, <1>10, <1>11, <1>12, AdvancedKept

(* Decoding: each object comes back, or nothing is proved. *)
LEMMA DecodeKept ==
  ASSUME CodecInv, NEW outs, outs \in [Codec!Now.on -> Codec!Now.on \cup {Junk}], Codec!Decode(outs)
  PROVE  CodecInv'
<1>1. Codec!May("decode")
  BY DEF Codec!Decode
<1>2. PICK l \in Labels, m \in Labels, s \in CodecSteps :
        /\ s = Codec!Now /\ s.op = "decode" /\ Legal(l, s, m) /\ Along(l)
        /\ Codec!Advance /\ Along(m)' => (\E f : Traced(f))'
  BY <1>1, AtHand
<1>3. /\ DOMAIN outs = s.on /\ Codec!Seen("decode", s.how, decoder, outs)
      /\ IF \A o \in s.on : outs[o] = o THEN Codec!Advance /\ UNCHANGED Codec!pipeline
                                        ELSE Codec!Raised
  BY <1>2 DEF Codec!Decode
<1>4. rows' = rows /\ UNCHANGED Codec!setting
  BY <1>3 DEF Codec!Advance, Codec!Raised, Codec!setting
<1>5. m = l
  BY <1>2 DEF Legal, Archives, Compares, Measures, Refits, Swaps, Keeps
<1>6. /\ observed \subseteq observed'
      /\ \A e \in observed' : e \in observed \/ (e.what = "decode" /\ e.gave = outs[e.on] /\ Records(e, s))
      /\ \A o \in s.on : Codec!Ran("decode", s.how, o)'
  <2>1. \A e \in observed' : e \in observed \/
          (/\ e.what = "decode" /\ e.how = s.how /\ e.which = decoder /\ e.on \in s.on
           /\ e.gave = outs[e.on] /\ e.diagnosing = diagnosing)
    BY <1>3, SeenRecords
  <2>2. observed \subseteq observed' /\ \A o \in s.on : Codec!Ran("decode", s.how, o)'
    BY <1>3, SeenRecords
  <2>. QED
    BY <1>2, <2>1, <2>2 DEF Records
<1>7. Codec!RunsWhatIsRegistered' /\ Codec!HeldOutUnseen'
  <2>1. \A e \in observed' : e \in observed \/ (RightRun(e) /\ UnseenRun(e))
    BY <1>2, <1>6, RecordsRight
  <2>. QED
    BY <1>4, <2>1, StillRight
<1>8. raw = None /\ at < Len(Codec!Program) /\ ~Codec!Unranked
  BY <1>1, AtHand
<1>9. CASE \A o \in s.on : outs[o] = o
  <2>1. /\ Codec!Advance /\ archive' = archive /\ runtime' = runtime /\ decoder' = decoder
        /\ diagnosing' = diagnosing
    BY <1>3, <1>9 DEF Codec!pipeline
  <2>2. \A e \in observed' : e \in observed \/ (e.what = "decode" /\ e.gave = e.on)
    BY <1>6, <1>9 DEF Records
  <2>3. Recorded(m)' /\ (Agreeing => Agreeing')
    BY <1>2, <1>4, <1>5, <2>1, <2>2, SameRecords
  <2>4. Along(m)'
    BY <1>2, <1>4, <1>5, <2>1, <2>3, SettingKept DEF Along
  <2>5. Agreeing'
    BY <1>8, <2>3 DEF CodecInv, Underway
  <2>. QED
    BY <1>2, <1>6, <1>7, <1>8, <2>1, <2>4, <2>5, AdvancedKept
<1>10. CASE ~(\A o \in s.on : outs[o] = o)
  <2>1. Codec!Raised
    BY <1>3, <1>10
  <2>. QED
    BY <1>7, <1>8, <2>1, RaisedKept
<1>. QED
  BY <1>9, <1>10

(* Refusing what is damaged: all of it, or nothing is proved. *)
LEMMA RejectKept ==
  ASSUME CodecInv, NEW accepted, Codec!Reject(accepted)
  PROVE  CodecInv'
<1>1. Codec!May("reject")
  BY DEF Codec!Reject
<1>2. PICK l \in Labels, m \in Labels, s \in CodecSteps :
        /\ s = Codec!Now /\ s.op = "reject" /\ Legal(l, s, m) /\ Along(l)
        /\ Codec!Advance /\ Along(m)' => (\E f : Traced(f))'
  BY <1>1, AtHand
<1>3. PICK outs : outs = [o \in s.on |-> accepted]
  OBVIOUS
<1>4. /\ DOMAIN outs = s.on /\ Codec!Seen("reject", s.how, decoder, outs)
      /\ IF accepted = "refused" THEN Codec!Advance /\ UNCHANGED Codec!pipeline ELSE Codec!Raised
  BY <1>2, <1>3 DEF Codec!Reject, Codec!Rejected
<1>5. rows' = rows /\ UNCHANGED Codec!setting
  BY <1>4 DEF Codec!Advance, Codec!Raised, Codec!setting
<1>6. m = l
  BY <1>2 DEF Legal, Archives, Compares, Measures, Refits, Swaps, Keeps
<1>7. /\ observed \subseteq observed'
      /\ \A e \in observed' : e \in observed \/ (e.what = "reject" /\ e.gave = accepted /\ Records(e, s))
      /\ \A o \in s.on : Codec!Ran("reject", s.how, o)'
  <2>1. \A e \in observed' : e \in observed \/
          (/\ e.what = "reject" /\ e.how = s.how /\ e.which = decoder /\ e.on \in s.on
           /\ e.gave = outs[e.on] /\ e.diagnosing = diagnosing)
    BY <1>4, SeenRecords
  <2>2. observed \subseteq observed' /\ \A o \in s.on : Codec!Ran("reject", s.how, o)'
    BY <1>4, SeenRecords
  <2>. QED
    BY <1>2, <1>3, <2>1, <2>2 DEF Records
<1>8. Codec!RunsWhatIsRegistered' /\ Codec!HeldOutUnseen'
  <2>1. \A e \in observed' : e \in observed \/ (RightRun(e) /\ UnseenRun(e))
    BY <1>2, <1>7, RecordsRight
  <2>. QED
    BY <1>5, <2>1, StillRight
<1>9. raw = None /\ at < Len(Codec!Program) /\ ~Codec!Unranked
  BY <1>1, AtHand
<1>10. CASE accepted = "refused"
  <2>1. /\ Codec!Advance /\ archive' = archive /\ runtime' = runtime /\ decoder' = decoder
        /\ diagnosing' = diagnosing
    BY <1>4, <1>10 DEF Codec!pipeline
  <2>2. \A e \in observed' : e \in observed \/ (e.what = "reject" /\ e.gave = "refused")
    BY <1>7, <1>10
  <2>3. Recorded(m)' /\ (Agreeing => Agreeing')
    BY <1>2, <1>5, <1>6, <2>1, <2>2, SameRecords
  <2>4. Along(m)'
    BY <1>2, <1>5, <1>6, <2>1, <2>3, SettingKept DEF Along
  <2>5. Agreeing'
    BY <1>9, <2>3 DEF CodecInv, Underway
  <2>. QED
    BY <1>2, <1>7, <1>8, <1>9, <2>1, <2>4, <2>5, AdvancedKept
<1>11. CASE accepted # "refused"
  <2>1. Codec!Raised
    BY <1>4, <1>11
  <2>. QED
    BY <1>8, <1>9, <2>1, RaisedKept
<1>. QED
  BY <1>10, <1>11

-----------------------------------------------------------------------------
(* A first archive of the rows or, on this side of the diagnostics, of the  *)
(* fixtures: nothing on record is of the same objects and side.             *)
LEMMA FirstKept ==
  ASSUME CodecInv, NEW l \in Labels, NEW m \in Labels, NEW s \in CodecSteps, NEW outs,
         Along(l), Archives(l, s, m), Agreeing, rows' = rows, observed \subseteq observed',
         archive' = [o \in Codec!Data |-> IF o \in s.on THEN outs[o] ELSE archive[o]],
         \A e \in observed' : e \in observed \/ (/\ e.what = "encode" /\ e.on \in s.on
                                                 /\ e.gave = outs[e.on] /\ e.diagnosing = diagnosing)
  PROVE  /\ Recorded(m)' /\ Agreeing' /\ m.side = l.side /\ m.fitted = l.fitted
<1>1. /\ l.side \in {"before", "inside", "after"} /\ l.fitted \in BOOLEAN /\ l.first \in BOOLEAN
      /\ l.unusual \in BOOLEAN
  BY DEF Labels
<1>2. rows \subseteq Codec!Data /\ Fixtures \subseteq Codec!Data /\ rows \cap Fixtures = {}
  BY ScoringAssumption DEF CodecInv, Setting, Codec!Data, Codec!EvaluationAssumption
<1>3. s.on \subseteq Codec!Data
  BY DEF CodecSteps
<1>4. diagnosing \in BOOLEAN /\ (diagnosing <=> l.side = "inside")
  BY DEF Along
<1>5. ASSUME NEW e \in observed, e.what = "encode"
      PROVE  /\ RowEncode(e, l) \/ FixtureEncode(e, l)
             /\ e.on \in s.on => e.diagnosing # diagnosing
  <2>1. RowEncode(e, l) \/ FixtureEncode(e, l)
    BY <1>5 DEF Along, Recorded
  <2>2. CASE RowEncode(e, l)
    <3>1. l.first /\ e.on \in rows
      BY <2>2 DEF RowEncode
    <3>2. s.on = Fixtures
      BY <3>1 DEF Archives
    <3>. QED
      BY <1>2, <2>1, <3>1, <3>2
  <2>3. CASE FixtureEncode(e, l)
    <3>1. CASE s.on = rows
      BY <1>2, <2>1, <2>3, <3>1 DEF FixtureEncode
    <3>2. CASE s.on = Fixtures /\ s.on # rows
      <4>1. l.side # "after" /\ ~l.unusual
        BY <3>2 DEF Archives
      <4>2. e.diagnosing # diagnosing
        BY <1>1, <1>4, <2>3, <4>1 DEF FixtureEncode
      <4>. QED
        BY <2>1, <4>2
    <3>. QED
      BY <3>1, <3>2 DEF Archives
  <2>. QED
    BY <2>1, <2>2, <2>3
<1>6. /\ m.side = l.side /\ m.fitted = l.fitted
      /\ (s.on = rows /\ m.first /\ m.unusual = l.unusual /\ l.side = "before")
         \/ (s.on = Fixtures /\ m.first = l.first /\ m.unusual /\ l.side # "after")
  <2>1. PICK e \in {"before", "inside", "after"}, f \in BOOLEAN, g \in BOOLEAN, h \in BOOLEAN :
          e = l.side /\ f = l.fitted /\ g = l.first /\ h = l.unusual
    BY <1>1
  <2>2. CASE s.on = rows /\ l.side = "before" /\ ~l.first /\ m = Label(l.side, l.fitted, TRUE, l.unusual)
    <3>1. m = Label(e, f, TRUE, h)
      BY <2>1, <2>2
    <3>2. m.side = e /\ m.fitted = f /\ m.first = TRUE /\ m.unusual = h
      BY <3>1 DEF Label
    <3>. QED
      BY <2>1, <2>2, <3>2
  <2>3. CASE s.on = Fixtures /\ l.side # "after" /\ ~l.unusual /\ m = Label(l.side, l.fitted, l.first, TRUE)
    <3>1. m = Label(e, f, g, TRUE)
      BY <2>1, <2>3
    <3>2. m.side = e /\ m.fitted = f /\ m.first = g /\ m.unusual = TRUE
      BY <3>1 DEF Label
    <3>. QED
      BY <2>1, <2>3, <3>2
  <2>. QED
    BY <2>2, <2>3 DEF Archives
<1>7. /\ \A o \in s.on : archive'[o] = outs[o]
      /\ \A o \in Codec!Data \ s.on : archive'[o] = archive[o]
  BY <1>3
<1>8. ASSUME NEW e \in observed', e \notin observed
      PROVE  e.what = "encode" /\ (RowEncode(e, m) \/ FixtureEncode(e, m))'
  <2>1. /\ e.what = "encode" /\ e.on \in s.on /\ e.gave = archive'[e.on]
        /\ e.diagnosing = diagnosing
    BY <1>7, <1>8
  <2>2. CASE s.on = rows /\ m.first /\ m.unusual = l.unusual /\ l.side = "before"
    <3>1. RowEncode(e, m)'
      BY <1>4, <2>1, <2>2 DEF RowEncode
    <3>. QED
      BY <2>1, <3>1
  <2>3. CASE s.on = Fixtures /\ m.first = l.first /\ m.unusual /\ l.side # "after"
    <3>1. FixtureEncode(e, m)'
      BY <1>4, <1>6, <2>1, <2>3 DEF FixtureEncode
    <3>. QED
      BY <2>1, <3>1
  <2>. QED
    BY <1>6, <2>2, <2>3
<1>9. ASSUME NEW e \in observed, e.what = "encode"
      PROVE  (RowEncode(e, m) \/ FixtureEncode(e, m))'
  <2>1. CASE RowEncode(e, l)
    <3>1. e.on \in rows /\ ~e.diagnosing /\ l.first /\ e.gave = archive[e.on]
      BY <2>1 DEF RowEncode
    <3>2. s.on = Fixtures /\ m.first
      BY <3>1, <1>6 DEF Archives
    <3>3. archive'[e.on] = archive[e.on]
      BY <1>2, <1>7, <3>1, <3>2
    <3>4. RowEncode(e, m)'
      BY <3>1, <3>2, <3>3 DEF RowEncode
    <3>. QED
      BY <3>4
  <2>2. CASE FixtureEncode(e, l)
    <3>1. e.on \in Fixtures /\ e.diagnosing \in BOOLEAN /\ (l.side = "before" => ~e.diagnosing)
      BY <2>2 DEF FixtureEncode
    <3>2. CASE e.on \in s.on
      <4>1. e.diagnosing # diagnosing
        BY <1>5, <1>9, <3>2
      <4>. QED
        BY <1>1, <1>4, <1>6, <3>1, <4>1 DEF FixtureEncode
    <3>3. CASE e.on \notin s.on
      <4>1. archive'[e.on] = archive[e.on]
        BY <1>2, <1>7, <3>1, <3>3
      <4>2. m.unusual = l.unusual /\ m.side = l.side
        BY <1>6, <3>1, <3>3
      <4>3. FixtureEncode(e, m)'
        BY <2>2, <4>1, <4>2 DEF FixtureEncode
      <4>. QED
        BY <4>3
    <3>. QED
      BY <3>2, <3>3
  <2>. QED
    BY <1>5, <1>9, <2>1, <2>2
<1>10. ASSUME NEW e \in observed, e.what # "encode"
       PROVE  /\ e.what \in {"decode", "reject", "prepare"}
              /\ e.what = "decode" => e.gave = e.on
              /\ e.what = "reject" => e.gave = "refused"
  BY <1>10 DEF Along, Recorded
<1>11. Recorded(m)'
  BY <1>8, <1>9, <1>10 DEF Recorded
<1>12. Agreeing'
  <2>1. ASSUME NEW e \in observed', NEW f \in observed', e.what = "encode", f.what = "encode",
               f.on = e.on, f.diagnosing = e.diagnosing
        PROVE  f.gave = e.gave
    <3>1. CASE e \in observed /\ f \in observed
      BY <2>1, <3>1 DEF Agreeing
    <3>2. CASE e \notin observed /\ f \notin observed
      BY <2>1, <3>2
    <3>3. CASE e \in observed /\ f \notin observed
      BY <1>5, <2>1, <3>3
    <3>4. CASE e \notin observed /\ f \in observed
      BY <1>5, <2>1, <3>4
    <3>. QED
      BY <3>1, <3>2, <3>3, <3>4
  <2>. QED
    BY <2>1 DEF Agreeing
<1>. QED
  BY <1>6, <1>11, <1>12

(* An archive that is the first again. *)
Repeats(l, s, m) == Compares(l, s, m) \/ Measures(l, s, m)

(* What is new on record is what encoding s gave. *)
Encoded(s, outs) ==
  \A e \in observed' : e \in observed \/ (/\ e.what = "encode" /\ e.on \in s.on
                                          /\ e.gave = outs[e.on] /\ e.diagnosing = diagnosing)

(* Its records stand beside those of the first. *)
LEMMA AgainKept ==
  ASSUME CodecInv, NEW l \in Labels, NEW m \in Labels, NEW s \in CodecSteps, NEW outs,
         Along(l), Repeats(l, s, m), Agreeing, rows' = rows,
         observed \subseteq observed', archive' = archive, Codec!SameAsFirst(s, outs), Encoded(s, outs)
  PROVE  /\ Recorded(m)' /\ Agreeing' /\ m.side = l.side /\ m.fitted = FALSE
<1>1. /\ l.side \in {"before", "inside", "after"} /\ l.fitted \in BOOLEAN /\ l.first \in BOOLEAN
      /\ l.unusual \in BOOLEAN
  BY DEF Labels
<1>2. rows \cap Fixtures = {}
  BY ScoringAssumption DEF CodecInv, Setting, Codec!EvaluationAssumption
<1>3. diagnosing \in BOOLEAN /\ (diagnosing <=> l.side = "inside")
  BY DEF Along
<1>4. /\ m.side = l.side /\ m.fitted = FALSE /\ m.first = l.first /\ m.unusual = l.unusual
      /\ (s.on \subseteq rows /\ l.first /\ l.side # "inside")
         \/ (s.on = Fixtures /\ l.unusual /\ l.side # "after")
  <2>1. CASE Compares(l, s, m)
    BY <1>1, <2>1 DEF Compares
  <2>2. CASE Measures(l, s, m)
    <3>1. PICK e \in {"before", "inside", "after"}, g \in BOOLEAN, h \in BOOLEAN :
            e = l.side /\ g = l.first /\ h = l.unusual
      BY <1>1
    <3>2. m = Label(e, FALSE, g, h)
      BY <2>2, <3>1 DEF Measures
    <3>3. m.side = e /\ m.fitted = FALSE /\ m.first = g /\ m.unusual = h
      BY <3>2 DEF Label
    <3>. QED
      BY <2>2, <3>1, <3>3 DEF Measures
  <2>. QED
    BY <2>1, <2>2 DEF Repeats
<1>5. ASSUME NEW e \in observed, e.what = "encode"
      PROVE  /\ (RowEncode(e, m) \/ FixtureEncode(e, m))'
             /\ e.on \in s.on /\ e.diagnosing = diagnosing => e.gave = archive[e.on]
  <2>1. RowEncode(e, l) \/ FixtureEncode(e, l)
    BY <1>5 DEF Along, Recorded
  <2>2. (RowEncode(e, m) \/ FixtureEncode(e, m))'
    BY <1>4, <2>1 DEF RowEncode, FixtureEncode
  <2>3. ASSUME e.on \in s.on, e.diagnosing = diagnosing PROVE e.gave = archive[e.on]
    BY <1>1, <1>2, <1>3, <1>4, <2>1, <2>3 DEF RowEncode, FixtureEncode
  <2>. QED
    BY <2>2, <2>3
<1>6. ASSUME NEW e \in observed', e \notin observed
      PROVE  /\ e.what = "encode" /\ e.on \in s.on /\ e.diagnosing = diagnosing
             /\ e.gave = archive[e.on] /\ (RowEncode(e, m) \/ FixtureEncode(e, m))'
  <2>1. e.what = "encode" /\ e.on \in s.on /\ e.gave = archive[e.on] /\ e.diagnosing = diagnosing
    BY <1>6 DEF Encoded, Codec!SameAsFirst
  <2>2. CASE s.on \subseteq rows /\ l.first /\ l.side # "inside"
    <3>1. RowEncode(e, m)'
      BY <1>3, <1>4, <2>1, <2>2 DEF RowEncode
    <3>. QED
      BY <2>1, <3>1
  <2>3. CASE s.on = Fixtures /\ l.unusual /\ l.side # "after"
    <3>1. FixtureEncode(e, m)'
      BY <1>3, <1>4, <2>1, <2>3 DEF FixtureEncode
    <3>. QED
      BY <2>1, <3>1
  <2>. QED
    BY <1>4, <2>2, <2>3
<1>7. ASSUME NEW e \in observed, e.what # "encode"
       PROVE  /\ e.what \in {"decode", "reject", "prepare"}
              /\ e.what = "decode" => e.gave = e.on
              /\ e.what = "reject" => e.gave = "refused"
  BY <1>7 DEF Along, Recorded
<1>8. Recorded(m)'
  BY <1>5, <1>6, <1>7 DEF Recorded
<1>9. Agreeing'
  <2>1. ASSUME NEW e \in observed', NEW f \in observed', e.what = "encode", f.what = "encode",
               f.on = e.on, f.diagnosing = e.diagnosing
        PROVE  f.gave = e.gave
    <3>1. CASE e \in observed /\ f \in observed
      BY <2>1, <3>1 DEF Agreeing
    <3>2. CASE e \notin observed
      BY <1>5, <1>6, <2>1, <3>2
    <3>3. CASE f \notin observed
      BY <1>5, <1>6, <2>1, <3>3
    <3>. QED
      BY <3>1, <3>2, <3>3
  <2>. QED
    BY <2>1 DEF Agreeing
<1>. QED
  BY <1>4, <1>8, <1>9

(* Encoding: a first archive, one more that is the same, or nothing proved. *)
LEMMA EncodeKept ==
  ASSUME CodecInv, NEW outs, outs \in [Codec!Now.on -> Payloads], Codec!Encode(outs)
  PROVE  CodecInv'
<1>1. Codec!May("encode")
  BY DEF Codec!Encode
<1>2. PICK l \in Labels, m \in Labels, s \in CodecSteps :
        /\ s = Codec!Now /\ s.op = "encode" /\ Legal(l, s, m) /\ Along(l)
        /\ Codec!Advance /\ Along(m)' => (\E f : Traced(f))'
  BY <1>1, AtHand
<1>3. /\ DOMAIN outs = s.on /\ Codec!Seen("encode", s.how, runtime, outs)
      /\ decoder' = decoder /\ diagnosing' = diagnosing
  BY <1>2 DEF Codec!Encode
<1>4. /\ observed \subseteq observed'
      /\ \A e \in observed' : e \in observed \/ (Records(e, s) /\ e.gave = outs[e.on])
      /\ \A o \in s.on : Codec!Ran("encode", s.how, o)'
  <2>1. \A e \in observed' : e \in observed \/
          (/\ e.what = "encode" /\ e.how = s.how /\ e.which = runtime /\ e.on \in s.on
           /\ e.gave = outs[e.on] /\ e.diagnosing = diagnosing)
    BY <1>3, SeenRecords
  <2>2. observed \subseteq observed' /\ \A o \in s.on : Codec!Ran("encode", s.how, o)'
    BY <1>3, SeenRecords
  <2>. QED
    BY <1>2, <2>1, <2>2 DEF Records
<1>5. \A e \in observed' : e \in observed \/ (/\ e.what = "encode" /\ e.on \in s.on
                                              /\ e.gave = outs[e.on] /\ e.diagnosing = diagnosing)
  BY <1>2, <1>4 DEF Records
<1>6. UNCHANGED Codec!setting => Codec!RunsWhatIsRegistered' /\ Codec!HeldOutUnseen'
  <2>1. \A e \in observed' : e \in observed \/ (RightRun(e) /\ UnseenRun(e))
    BY <1>2, <1>4, RecordsRight
  <2>. QED
    BY <2>1, StillRight
<1>7. raw = None /\ at < Len(Codec!Program) /\ ~Codec!Unranked /\ Agreeing
  <2>1. raw = None /\ at < Len(Codec!Program) /\ ~Codec!Unranked
    BY <1>1, AtHand
  <2>. QED
    BY <2>1 DEF CodecInv, Underway
<1>8. /\ diagnosing \in BOOLEAN /\ (diagnosing <=> l.side = "inside")
      /\ decoder = IF l.side = "inside" THEN Codec!SanitizedDecoder ELSE Codec!RegisteredDecoder
      /\ runtime = IF l.side = "inside" THEN "sanitized" ELSE IF l.fitted THEN "prepared" ELSE "runtime"
  BY <1>2 DEF Along
<1>9. Archives(l, s, m) \/ Compares(l, s, m) \/ Measures(l, s, m)
  BY <1>2 DEF Legal, Refits, Swaps, Keeps
<1>10. CASE s.how = "stream"
  <2>1. /\ Codec!Advance /\ runtime' = runtime
        /\ archive' = [o \in Codec!Data |-> IF o \in s.on THEN outs[o] ELSE archive[o]]
    BY <1>2, <1>10 DEF Codec!Encode
  <2>2. Archives(l, s, m)
    BY <1>9, <1>10 DEF Compares, Measures
  <2>3. rows' = rows /\ UNCHANGED Codec!setting
    BY <2>1 DEF Codec!Advance, Codec!setting
  <2>4. Recorded(m)' /\ Agreeing' /\ m.side = l.side /\ m.fitted = l.fitted
    BY <1>2, <1>4, <1>5, <1>7, <2>1, <2>2, <2>3, FirstKept
  <2>5. Along(m)'
    BY <1>3, <1>8, <2>1, <2>3, <2>4, SettingKept DEF Along
  <2>. QED
    BY <1>2, <1>4, <1>6, <1>7, <2>1, <2>3, <2>4, <2>5, AdvancedKept
<1>11. CASE s.how # "stream" /\ \A o \in s.on : outs[o] = archive[o]
  <2>1. Codec!SameAsFirst(s, outs)
    BY <1>11 DEF Codec!SameAsFirst
  <2>2. /\ Codec!Advance /\ archive' = archive
        /\ runtime' = IF diagnosing THEN runtime ELSE "runtime"
    BY <1>2, <1>11, <2>1 DEF Codec!Encode
  <2>3. Repeats(l, s, m)
    BY <1>9, <1>11 DEF Archives, Repeats
  <2>4. rows' = rows /\ UNCHANGED Codec!setting
    BY <2>2 DEF Codec!Advance, Codec!setting
  <2>5. Recorded(m)' /\ Agreeing' /\ m.side = l.side /\ m.fitted = FALSE
    <3>1. archive' = archive /\ rows' = rows /\ observed \subseteq observed' /\ Encoded(s, outs)
          /\ Along(l) /\ Agreeing
      BY <1>2, <1>4, <1>5, <1>7, <2>2, <2>4 DEF Encoded
    <3>. QED
      BY <2>1, <2>3, <3>1, AgainKept
  <2>6. Along(m)'
    BY <1>3, <1>8, <2>2, <2>4, <2>5, SettingKept DEF Along
  <2>. QED
    BY <1>2, <1>4, <1>6, <1>7, <2>2, <2>4, <2>5, <2>6, AdvancedKept
<1>12. CASE s.how # "stream" /\ ~(\A o \in s.on : outs[o] = archive[o])
  <2>1. ~Codec!SameAsFirst(s, outs)
    BY <1>12 DEF Codec!SameAsFirst
  <2>2. Codec!Raised
    BY <1>2, <1>12, <2>1 DEF Codec!Encode
  <2>3. UNCHANGED Codec!setting
    BY <2>2 DEF Codec!Raised
  <2>. QED
    BY <1>6, <1>7, <2>2, <2>3, RaisedKept
<1>. QED
  BY <1>10, <1>11, <1>12

-----------------------------------------------------------------------------
(* The codec: the end of an evaluation, and the theorems. *)

(* The invariant is about a run, its record and its conclusion alone. *)
LEMMA ConclusionKept ==
  ASSUME CodecInv, UNCHANGED Codec!setting, UNCHANGED Codec!pipeline,
         at' = at, observed' = observed, raw' = raw,
         assessed' # None /\ assessed'.qualified => raw # None /\ Codec!Qualifies
  PROVE  CodecInv'
<1>1. /\ card' = card /\ manifest' = manifest /\ job' = job /\ rows' = rows
      /\ archive' = archive /\ runtime' = runtime /\ decoder' = decoder /\ diagnosing' = diagnosing
  BY DEF Codec!setting, Codec!pipeline
<1>2. Codec!RunsWhatIsRegistered' /\ Codec!HeldOutUnseen'
  BY StillRight
<1>3. /\ Codec!Program' = Codec!Program /\ Codec!Correctness' = Codec!Correctness
      /\ Moves' = Moves
  BY SettingKept
<1>4. Agreeing' = Agreeing
  BY DEF Agreeing
<1>5. Covered' = Covered
  BY <1>3 DEF Covered, Codec!Ran
<1>6. Ranked' = Ranked
  BY <1>1, <1>3 DEF Ranked
<1>7. ASSUME Underway PROVE Underway'
  <2>1. PICK f : Traced(f)
    BY <1>7 DEF Underway
  <2>2. PICK l : l = f[at + 1]
    OBVIOUS
  <2>3. Along(l)
    BY <2>1, <2>2 DEF Traced
  <2>4. Recorded(l)'
    BY <1>1, <2>3 DEF Along, Recorded, RowEncode, FixtureEncode
  <2>5. Along(l)'
    BY <1>1, <2>3, <2>4, SettingKept DEF Along
  <2>6. Traced(f)'
    BY <1>3, <2>1, <2>2, <2>5 DEF Traced, Labelling
  <2>. QED
    BY <1>4, <1>5, <1>6, <1>7, <2>6 DEF Underway
<1>8. ASSUME Concluded PROVE Concluded'
  BY <1>1, <1>3, <1>4, <1>5, <1>6, <1>8 DEF Concluded
<1>9. Codec!Qualifies' = Codec!Qualifies
  BY <1>1 DEF Codec!Qualifies
<1>. QED
  BY <1>1, <1>2, <1>7, <1>8, <1>9 DEF CodecInv, Setting

(* The conclusion of a run that went all the way. *)
LEMMA ConcludeKept ==
  ASSUME CodecInv, NEW reading, Codec!Conclude(reading)
  PROVE  CodecInv'
<1>1. /\ raw = None /\ at = Len(Codec!Program) /\ at' = at /\ observed' = observed
      /\ assessed' = assessed /\ UNCHANGED Codec!setting
  BY DEF Codec!Conclude, Codec!Running
<1>2. /\ card' = card /\ manifest' = manifest /\ job' = job /\ rows' = rows
  BY <1>1 DEF Codec!setting
<1>3. PICK f : Traced(f) /\ Along(f[at + 1])
  BY <1>1 DEF CodecInv, Underway, Traced
<1>4. Agreeing /\ Covered /\ Ranked
  BY <1>1 DEF CodecInv, Underway
<1>5. Recorded(f[at + 1])
  BY <1>3 DEF Along
<1>6. raw' # None /\ raw'.quality =>
        /\ job.depth # "screen"
        /\ raw'.eligible => job.mode = "required" /\ card.benchmark
  <2>1. CASE ~pinned
    <3>1. raw'.quality = FALSE
      BY <2>1 DEF Codec!Conclude, Codec!Failed
    <3>. QED
      BY <3>1
  <2>2. CASE pinned /\ job.depth = "screen"
    <3>1. raw'.quality = FALSE
      BY <2>2 DEF Codec!Conclude, Codec!Failed
    <3>. QED
      BY <3>1
  <2>3. CASE pinned /\ job.depth # "screen"
    <3>1. raw'.eligible = (Codec!Reasons(reading) = {})
      BY <2>3 DEF Codec!Conclude, Codec!Failed
    <3>2. job.mode # "required" => "unsandboxed_exploratory" \in Codec!Reasons(reading)
      BY DEF Codec!Reasons
    <3>3. ~card.benchmark => "smoke_not_certified" \in Codec!Reasons(reading)
      BY DEF Codec!Reasons
    <3>. QED
      BY <2>3, <3>1, <3>2, <3>3
  <2>. QED
    BY <2>1, <2>2, <2>3
<1>7. raw' # None
  <2>1. Codec!Failed \in [quality : BOOLEAN, eligible : BOOLEAN, screened : BOOLEAN]
    BY DEF Codec!Failed
  <2>2. raw' \in [quality : BOOLEAN, eligible : BOOLEAN, screened : BOOLEAN]
    BY <2>1 DEF Codec!Conclude
  <2>. QED
    BY <2>2, ScoringAssumption DEF Codec!EvaluationAssumption
<1>8. /\ Codec!Program' = Codec!Program /\ Codec!Correctness' = Codec!Correctness
  BY <1>1, SettingKept
<1>9. Agreeing' /\ Covered' /\ Ranked'
  <2>1. Agreeing'
    BY <1>1, <1>4 DEF Agreeing
  <2>2. Covered'
    BY <1>1, <1>4, <1>8 DEF Covered, Codec!Ran
  <2>3. Ranked'
    BY <1>1, <1>2, <1>4, <1>8 DEF Ranked
  <2>. QED
    BY <2>1, <2>2, <2>3
<1>10. raw'.quality => Concluded'
  <2>1. \A e \in observed : /\ e.what \in {"encode", "decode", "reject", "prepare"}
                            /\ e.what = "decode" => e.gave = e.on
                            /\ e.what = "reject" => e.gave = "refused"
    BY <1>5 DEF Recorded
  <2>. QED
    BY <1>1, <1>2, <1>6, <1>7, <1>8, <1>9, <2>1 DEF Concluded
<1>11. Codec!RunsWhatIsRegistered' /\ Codec!HeldOutUnseen'
  BY <1>1, StillRight
<1>12. ~(assessed # None /\ assessed.qualified)
  BY <1>1 DEF CodecInv
<1>. QED
  BY <1>1, <1>2, <1>7, <1>10, <1>11, <1>12 DEF CodecInv, Setting

(* What the policy makes of a conclusion, and what changes around it. *)
LEMMA AfterwardsKept ==
  ASSUME CodecInv, Codec!Assess \/ Codec!Change \/ UNCHANGED codecVars
  PROVE  CodecInv'
<1>1. /\ UNCHANGED Codec!setting /\ UNCHANGED Codec!pipeline
      /\ at' = at /\ observed' = observed /\ raw' = raw
  <2>1. CASE Codec!Assess
    BY <2>1 DEF Codec!Assess
  <2>2. CASE Codec!Change
    BY <2>2 DEF Codec!Change, Codec!outcome
  <2>3. CASE UNCHANGED codecVars
    BY <2>3 DEF codecVars, Codec!setting, Codec!pipeline
  <2>. QED
    BY <2>1, <2>2, <2>3
<1>2. assessed' # None /\ assessed'.qualified => raw # None /\ Codec!Qualifies
  <2>1. CASE Codec!Assess
    <3>1. raw # None /\ assessed' = IF intact THEN [qualified |-> Codec!Qualifies] ELSE None
      BY <2>1 DEF Codec!Assess
    <3>2. [qualified |-> Codec!Qualifies].qualified = Codec!Qualifies
      OBVIOUS
    <3>. QED
      BY <3>1, <3>2
  <2>2. CASE Codec!Change
    BY <2>2 DEF Codec!Change, Codec!outcome, CodecInv
  <2>3. CASE UNCHANGED codecVars
    BY <2>3 DEF codecVars, CodecInv
  <2>. QED
    BY <2>1, <2>2, <2>3
<1>. QED
  BY <1>1, <1>2, ConclusionKept

(* An evaluation begins with nothing on record, at the head of its program. *)
LEMMA CodecBegins ==
  ASSUME Codec!Init
  PROVE  CodecInv
<1>1. /\ card \in Cards /\ manifest \in Manifests /\ rows \subseteq Objects
      /\ job \in [depth : Codec!Depths, mode : {"required", "exploratory"}, primary : BOOLEAN]
      /\ Codec!RowsOf(job.depth, rows) /\ at = 0 /\ runtime = "runtime"
      /\ decoder = Codec!RegisteredDecoder /\ diagnosing = FALSE
      /\ observed = {} /\ raw = None /\ assessed = None
  BY DEF Codec!Init
<1>2. Setting
  BY <1>1 DEF Setting
<1>3. job.depth = "screen" => rows \subseteq Objects \ HeldOut
  BY <1>1 DEF Codec!RowsOf, Codec!Screened
<1>4. Codec!RunsWhatIsRegistered /\ Codec!HeldOutUnseen
  BY <1>1 DEF Codec!RunsWhatIsRegistered, Codec!HeldOutUnseen
<1>5. PICK b : CodecPath(Pristine, Codec!Program, b)
  BY <1>2, ProgramPath, ScoringAssumption
<1>6. PICK f : f[1] = Pristine /\ Labelling(Moves, f, Codec!Program)
  BY <1>5 DEF CodecPath, Path
<1>7. Along(Pristine)
  <2>1. PICK l : l = Pristine
    OBVIOUS
  <2>2. l \in Labels /\ l.side = "before" /\ l.fitted = FALSE
    BY <2>1 DEF Pristine, Label, Labels
  <2>3. Recorded(l)
    BY <1>1 DEF Recorded
  <2>4. Along(l)
    BY <1>1, <2>2, <2>3 DEF Along
  <2>. QED
    BY <2>1, <2>4
<1>8. Traced(f)
  <2>1. f[at + 1] = Pristine
    BY <1>1, <1>6
  <2>. QED
    BY <1>6, <1>7, <2>1 DEF Traced
<1>9. Agreeing /\ Covered
  BY <1>1 DEF Agreeing, Covered
<1>10. Ranked
  <2>1. Codec!Correctness \in Seq(CodecSteps)
    BY <1>2, CorrectnessPath, ScoringAssumption DEF CodecPath, Path
  <2>2. PICK c \in Nat : c = Len(Codec!Correctness)
    BY <2>1
  <2>. QED
    BY <1>1, <2>2 DEF Ranked
<1>11. Underway
  BY <1>8, <1>9, <1>10 DEF Underway
<1>. QED
  BY <1>1, <1>2, <1>3, <1>4, <1>11 DEF CodecInv

(* Every step of the pipeline keeps the invariant. *)
LEMMA CodecStep ==
  ASSUME CodecInv, Codec!Next
  PROVE  CodecInv'
<1>1. CASE Codec!Raise \/ Codec!Refuse \/ Codec!RefuseInventory
  BY <1>1, RaiseKept
<1>2. CASE Codec!Rebuild \/ Codec!Verify
  BY <1>2, RebuildKept
<1>3. CASE Codec!Sanitize \/ Codec!Restore
  BY <1>3, SwapKept
<1>4. CASE Codec!PrepareOffline
  BY <1>4, PrepareKept
<1>5. CASE \E outs \in [Codec!Now.on -> Payloads] : Codec!Encode(outs)
  BY <1>5, EncodeKept
<1>6. CASE \E outs \in [Codec!Now.on -> Codec!Now.on \cup {Junk}] : Codec!Decode(outs)
  BY <1>6, DecodeKept
<1>7. CASE \E accepted \in {"refused", "success", "partial"} : Codec!Reject(accepted)
  BY <1>7, RejectKept
<1>8. CASE \E reading \in Codec!Readings : Codec!Conclude(reading)
  BY <1>8, ConcludeKept
<1>9. CASE Codec!Assess \/ Codec!Change
  BY <1>9, AfterwardsKept
<1>. QED
  BY <1>1, <1>2, <1>3, <1>4, <1>5, <1>6, <1>7, <1>8, <1>9 DEF Codec!Next

(* CodecEvaluated: whenever a codec is what is scored, what is on record is *)
(* what the pipeline put there up to where it is.                           *)
CodecEvaluated == workload = "codec" => CodecInv

(* CodecEvaluated holds of every behaviour of the evaluation: the inductive *)
(* invariant behind the two properties below.                               *)
THEOREM CodecEvaluation == ScoringSpec => []CodecEvaluated
<1>1. ScoringInit => CodecEvaluated
  BY CodecBegins DEF ScoringInit, CodecEvaluated
<1>2. CodecEvaluated /\ [ScoringNext]_scoringVars => CodecEvaluated'
  <2>1. SUFFICES ASSUME CodecEvaluated, [ScoringNext]_scoringVars, workload' = "codec"
                 PROVE  CodecInv'
    BY DEF CodecEvaluated
  <2>2. workload' = workload
    BY <2>1 DEF ScoringNext, scoringVars
  <2>3. CodecInv
    BY <2>1, <2>2 DEF CodecEvaluated
  <2>4. CASE Codec!Next
    BY <2>3, <2>4, CodecStep
  <2>5. CASE UNCHANGED codecVars
    BY <2>3, <2>5, AfterwardsKept
  <2>. QED
    BY <2>1, <2>2, <2>4, <2>5 DEF ScoringNext, scoringVars
<1>. QED
  BY <1>1, <1>2, PTL DEF ScoringSpec

(* The steps that are covered were run on all they name. *)
LEMMA Tried ==
  ASSUME Covered, at = Len(Codec!Program), NEW op \in {"encode", "decode", "reject"}, NEW S,
         NEW how, Has(Codec!Program, Codec!Step(op, S, how)), NEW o \in S
  PROVE  Codec!Ran(op, how, o)
<1>1. PICK i \in 1..at : Codec!Program[i] = Codec!Step(op, S, how)
  BY DEF Has
<1>2. Codec!Program[i].op = op /\ Codec!Program[i].on = S /\ Codec!Program[i].how = how
  BY <1>1 DEF Codec!Step
<1>. QED
  BY <1>2 DEF Covered

(* What ran is what was registered, and nothing held out was shown to a    *)
(* fitter or a screen (Evaluation.run and select_rows, gates.py).          *)
THEOREM CodecRegistered == ScoringSpec => []CodecAsRegistered
<1>1. CodecEvaluated => CodecAsRegistered
  BY DEF CodecEvaluated, CodecInv, CodecAsRegistered
<1>. QED
  BY <1>1, CodecEvaluation, PTL

(* A codec that passes agreed with itself in every way it was tried, and    *)
(* was tried in every way.                                                  *)
LEMMA PassedRight ==
  ASSUME CodecInv
  PROVE  Codec!PassedIsConsistent
<1>1. SUFFICES ASSUME raw # None, raw.quality PROVE Codec!PassedIsConsistent
  BY DEF Codec!PassedIsConsistent
<1>2. Concluded /\ Setting /\ Codec!EvaluationAssumption
  BY <1>1, ScoringAssumption DEF CodecInv
<1>3. job.depth \in {"full", "quick"}
  BY <1>2 DEF Concluded, Setting, Codec!Depths
<1>4. Covered /\ at = Len(Codec!Program)
  BY <1>2 DEF Concluded
<1>5. \A x : Has(Codec!Correctness, x) => Has(Codec!Program, x)
  BY <1>2, <1>3, FullPath, QuickPath
<1>6. ASSUME NEW o \in rows
      PROVE  /\ \A how \in Codec!Hows \ {"trial"} : Codec!Ran("encode", how, o)
             /\ \A how \in {"stream", "directory", "single"} : Codec!Ran("decode", how, o)
  <2>1. ASSUME NEW how \in {"stream", "directory", "repeat", "reordered"}
        PROVE  Codec!Ran("encode", how, o)
    <3>1. Has(Codec!Program, Codec!Step("encode", rows, how))
      BY <1>2, <1>5, CorrectnessPath
    <3>. QED
      BY <1>4, <3>1, Tried
  <2>2. ASSUME NEW how \in {"stream", "directory"}
        PROVE  Codec!Ran("decode", how, o)
    <3>1. Has(Codec!Program, Codec!Step("decode", rows, how))
      BY <1>2, <1>5, CorrectnessPath
    <3>. QED
      BY <1>4, <3>1, Tried
  <2>3. Codec!Ran("encode", "single", o) /\ Codec!Ran("decode", "single", o)
    <3>1. /\ Has(Codec!Program, Codec!Step("encode", {o}, "single"))
          /\ Has(Codec!Program, Codec!Step("decode", {o}, "single"))
      BY <1>2, <1>5, CorrectnessPath
    <3>2. o \in {o}
      OBVIOUS
    <3>. QED
      BY <1>4, <3>1, <3>2, Tried
  <2>. QED
    BY <2>1, <2>2, <2>3 DEF Codec!Hows
<1>7. ASSUME NEW o \in rows, job.depth = "full"
      PROVE  /\ Codec!Ran("reject", "stream", o) /\ Codec!Ran("reject", "directory", o)
             /\ o \in Codec!Timed => Codec!Ran("encode", "trial", o) /\ Codec!Ran("decode", "trial", o)
  <2>1. \A x : Has(Codec!Rejections, x) \/ Has(Codec!Timing(Trials), x) => Has(Codec!Program, x)
    BY <1>2, <1>7, FullPath
  <2>2. /\ Has(Codec!Program, Codec!Step("reject", rows, "stream"))
        /\ Has(Codec!Program, Codec!Step("reject", rows, "directory"))
    BY <1>2, <2>1, RejectionsPath
  <2>3. /\ Has(Codec!Program, Codec!Step("encode", Codec!Timed, "trial"))
        /\ Has(Codec!Program, Codec!Step("decode", Codec!Timed, "trial"))
    BY <1>2, <1>7, <2>1, TimingPath
  <2>4. Codec!Ran("reject", "stream", o) /\ Codec!Ran("reject", "directory", o)
    BY <1>4, <2>2, Tried
  <2>5. o \in Codec!Timed => Codec!Ran("encode", "trial", o) /\ Codec!Ran("decode", "trial", o)
    BY <1>4, <2>3, Tried
  <2>. QED
    BY <2>4, <2>5
<1>8. \A e \in observed :
        CASE e.what = "encode"  -> \A f \in observed :
                                     (f.what = "encode" /\ f.on = e.on
                                       /\ f.diagnosing = e.diagnosing) => f.gave = e.gave
          [] e.what = "decode"  -> e.gave = e.on
          [] e.what = "reject"  -> e.gave = "refused"
          [] e.what = "prepare" -> TRUE
  BY <1>2 DEF Concluded, Agreeing
<1>. QED
  BY <1>6, <1>7, <1>8 DEF Codec!PassedIsConsistent

(* A codec that qualifies was measured in full, under a benchmark card. *)
LEMMA QualifiedRight ==
  ASSUME CodecInv
  PROVE  Codec!QualifiedIsCertified
<1>1. SUFFICES ASSUME assessed # None, assessed.qualified PROVE Codec!QualifiedIsCertified
  BY DEF Codec!QualifiedIsCertified
<1>2. /\ raw # None /\ raw.quality /\ raw.eligible /\ job.depth = "full" /\ job.primary
      /\ Concluded /\ Setting /\ Codec!EvaluationAssumption
  BY <1>1, ScoringAssumption DEF CodecInv, Codec!Qualifies
<1>3. job.mode = "required" /\ card.benchmark /\ Covered /\ Ranked /\ at = Len(Codec!Program)
  BY <1>2 DEF Concluded
<1>4. ASSUME NEW o \in Codec!Timed PROVE Codec!Ran("decode", "trial", o)
  <2>1. Has(Codec!Program, Codec!Step("decode", Codec!Timed, "trial"))
    BY <1>2, FullPath, TimingPath
  <2>. QED
    BY <1>3, <2>1, Tried
<1>5. \A e \in observed : e.what = "decode" => e.gave = e.on
  BY <1>2 DEF Concluded
<1>6. ASSUME card.decoderPolicy, NEW e \in observed, e.what = "decode" PROVE e.which # "runtime"
  <2>1. manifest.schema = 2
    <3>1. Len(Codec!Program) > Len(Codec!Correctness) + 1
      BY <1>2, FullPath
    <3>2. PICK c \in Nat : c = Len(Codec!Correctness)
      <4>1. Codec!Correctness \in Seq(CodecSteps)
        BY <1>2, CorrectnessPath DEF CodecPath, Path
      <4>. QED
        BY <4>1
    <3>3. PICK p \in Nat : p = Len(Codec!Program) /\ p > c + 1
      BY <1>3, <3>1, <3>2 DEF CodecInv
    <3>. QED
      BY <1>2, <1>3, <1>6, <3>2, <3>3 DEF Ranked
  <2>2. e.which = Codec!SanitizedDecoder \/ e.which = Codec!RegisteredDecoder
    BY <1>6 DEF CodecInv, Codec!RunsWhatIsRegistered
  <2>. QED
    BY <2>1, <2>2 DEF Codec!SanitizedDecoder, Codec!RegisteredDecoder
<1>. QED
  BY <1>2, <1>3, <1>4, <1>5, <1>6 DEF Codec!QualifiedIsCertified

(* The verdict on a codec is right (PassedIsConsistent and                  *)
(* QualifiedIsCertified, whatever the programs do and whatever changes).    *)
THEOREM CodecJudged == ScoringSpec => []CodecVerdictRight
<1>1. CodecEvaluated => CodecVerdictRight
  BY PassedRight, QualifiedRight DEF CodecEvaluated, CodecVerdictRight
<1>. QED
  BY <1>1, CodecEvaluation, PTL

-----------------------------------------------------------------------------
(* The store: where a drive can stand, and the inductive invariant. *)

(* Where the drive of a store can stand, by what may be unsettled between   *)
(* its state and the oracle's; due: an export still follows the last open.  *)
Kinds == {"fresh", "first", "synced", "ahead", "stalled", "loose", "halted", "opened",
          "continued", "adopting", "merging"}

Stands == [kind : Kinds, due : BOOLEAN]

Stand(kind, due) == [kind |-> kind, due |-> due]

StoreOps == {"export", "stats", "query", "hello", "build", "open", "fault", "close", "kill",
             "transaction", "merge", "checkpoint", "reject", "kill_merge", "kill_transaction",
             "fail_transaction", "fail_merge", "continue", "adopt_first", "adopt"}

CaseSteps == [op : StoreOps, tok : Store!Tokens \cup {Store!NoBundle}, flag : BOOLEAN]

Known(o, t) == \E i \in 1..Len(o.accepted) : o.accepted[i] = t

(* What each kind of step asks of where it stands, and where it leads. *)
Passes(l, s, m) == s.op \in {"hello", "fault"} /\ m = l

Builds(l, s, m) == /\ s.op = "build" /\ l.kind = "fresh" /\ ~l.due
                   /\ m.kind \in {"first", "synced"} /\ ~m.due

Transacts(l, s, m) ==
  /\ s.op = "transaction" /\ s.tok \in Store!Tokens /\ m.due = l.due
  /\ \/ ~s.flag /\ l.kind = "synced" /\ m.kind = "synced"
     \/ ~s.flag /\ s.tok = 1 /\ l.kind = "first" /\ m.kind = "first"
     \/ s.flag /\ s.tok = 2 /\ l.kind = "opened" /\ m.kind = "synced"

Settles(l, s, m) ==
  /\ s.op \in {"merge", "checkpoint", "reject", "stats", "close"} /\ l.kind = "synced" /\ m = l

Exports(l, s, m) ==
  /\ s.op \in {"export", "query"} /\ l.kind = "synced" /\ m.kind = "synced" /\ ~m.due

Opens(l, s, m) ==
  /\ s.op = "open" /\ m.due
  /\ \/ ~s.flag /\ l.kind \in {"synced", "ahead"} /\ m.kind = "synced"
     \/ s.flag /\ s.tok \in {Store!NoBundle, 2} /\ l.kind = "loose" /\ m.kind = "opened"

Kills(l, s, m) ==
  /\ m.due = l.due
  /\ \/ s.op = "kill" /\ l.kind \in {"synced", "ahead", "loose"} /\ m.kind = l.kind
     \/ s.op = "kill_merge" /\ l.kind = "first" /\ m.kind = "ahead"
     \/ s.op = "kill_transaction" /\ s.tok = 2 /\ l.kind = "first" /\ m.kind = "loose"

Fails(l, s, m) ==
  /\ m.due = l.due /\ l.kind = "first"
  /\ \/ s.op = "fail_transaction" /\ s.tok = 2 /\ m.kind = "halted"
     \/ s.op = "fail_merge" /\ m.kind = "stalled"

Continues(l, s, m) ==
  /\ s.op = "continue" /\ m.due = l.due
  /\ \/ s.tok = 3 /\ l.kind = "halted" /\ m.kind = "continued"
     \/ s.tok = 2 /\ l.kind = "stalled" /\ m.kind = "merging"

Adopts(l, s, m) ==
  /\ m.due = l.due
  /\ \/ s.op = "adopt_first" /\ s.tok = 2 /\ l.kind = "continued" /\ m.kind = "adopting"
     \/ s.op = "adopt" /\ s.tok = 3 /\ l.kind = "adopting" /\ m.kind = "loose"
     \/ s.op = "adopt" /\ s.tok = 2 /\ l.kind = "merging" /\ m.kind = "ahead"

Drives(l, s, m) ==
  \/ Passes(l, s, m) \/ Builds(l, s, m) \/ Transacts(l, s, m) \/ Settles(l, s, m)
  \/ Exports(l, s, m) \/ Opens(l, s, m) \/ Kills(l, s, m) \/ Fails(l, s, m)
  \/ Continues(l, s, m) \/ Adopts(l, s, m)

Drive == {t \in Stands \X CaseSteps \X Stands : Drives(t[1], t[2], t[3])}

CasePath(l, s, m) == Path(Drive, CaseSteps, l, s, m)

Outset == Stand("fresh", FALSE)

-----------------------------------------------------------------------------
(* How oracle o, store st and the reply h put aside stand. *)

Level(o, st) == st.gen = o.gen /\ st.ckpt = o.ckpt /\ st.ckpt <= Len(o.accepted)
Above(o, st) == st.gen >= o.gen /\ st.ckpt >= o.ckpt /\ st.ckpt <= Len(o.accepted)
Few(o)       == \A t \in Store!Tokens : Known(o, t) => t = 1

Synced(o, st) == st.content = o.accepted /\ Level(o, st) /\ st.mode # "recovery"
Ahead(o, st)  == st.content = o.accepted /\ Above(o, st)
Loose(o, st)  == /\ Level(o, st)
                 /\ st.content = o.accepted
                    \/ (st.content = Append(o.accepted, 2) /\ ~Known(o, 2))

(* h is the reply to a transaction that was the store's last. *)
LastReply(h, st) == /\ h.ok /\ ~h.replayed /\ h.head = Len(st.content) /\ h.txid = Len(st.content)
                 /\ h.gen = st.gen /\ h.ckpt = st.ckpt

Standing(l, o, st, h) ==
  CASE l.kind = "fresh"     -> /\ o.accepted = <<>> /\ o.gen = 0 /\ o.ckpt = 0
                               /\ Synced(o, st)
    [] l.kind = "first"     -> Synced(o, st) /\ Few(o)
    [] l.kind = "synced"    -> Synced(o, st)
    [] l.kind = "ahead"     -> Ahead(o, st)
    [] l.kind = "stalled"   -> Ahead(o, st) /\ Few(o)
    [] l.kind = "loose"     -> Loose(o, st)
    [] l.kind = "halted"    -> Loose(o, st) /\ Few(o)
    [] l.kind = "opened"    -> Loose(o, st) /\ st.mode # "recovery"
    [] l.kind = "continued" -> /\ Few(o) /\ Level(o, st)
                               /\ IF h.ok
                                  THEN /\ LastReply(h, st) /\ st.mode # "recovery"
                                       /\ \/ st.content = Append(o.accepted, 3)
                                          \/ st.content = Append(Append(o.accepted, 2), 3)
                                  ELSE Loose(o, st)
    [] l.kind = "adopting"  -> IF h.ok
                               THEN /\ LastReply(h, st) /\ Level(o, st) /\ ~Known(o, 3)
                                    /\ st.content = Append(o.accepted, 3)
                               ELSE Loose(o, st)
    [] l.kind = "merging"   -> IF h.ok
                               THEN /\ LastReply(h, st) /\ Above(o, st) /\ ~Known(o, 2)
                                    /\ st.content = Append(o.accepted, 2)
                               ELSE Ahead(o, st)

(* A swap awaits the export that will show it. *)
Swapped(l, st) == /\ flaw = "swaps" /\ l.due
                  /\ \E i \in 1..Len(st.content) : st.content[i] = Store!Foreign

(* How things stand; w: the contract has been broken.  A store that kept it *)
(* is as the oracle thinks, and of one that did not nothing but a swap is   *)
(* still to be seen.                                                        *)
Sound(w, l, o, st, h) == /\ ~w => Standing(l, o, st, h)
                         /\ w => Swapped(l, st)

(* Good and Learned, of any oracle, store and reply (module                 *)
(* MutableEvaluation).                                                      *)
Fits(o, r, head, pending) ==
  /\ head <= r.head /\ r.head <= head + pending
  /\ r.gen >= o.gen /\ r.ckpt >= o.ckpt /\ r.ckpt <= r.head

Total(o) == Len(o.accepted)

Takes(o, t, r, resolving, after) ==
  /\ r.txid = IF Known(o, t) THEN Store!Place(o.accepted, t) ELSE Total(o) + 1
  /\ Known(o, t) => r.replayed
  /\ ~Known(o, t) /\ ~resolving => ~r.replayed
  /\ Fits(o, r, IF Known(o, t) THEN Total(o) ELSE Total(o) + 1, after)

Tells(o, r) == [accepted |-> o.accepted, gen |-> r.gen, ckpt |-> r.ckpt]

Took(o, t, r) == [accepted |-> IF Known(o, t) THEN o.accepted ELSE Append(o.accepted, t),
                  gen |-> r.gen, ckpt |-> r.ckpt]

Satisfies(s, o, st, r) ==
  CASE s.op = "build"       -> r.ok /\ Fits(o, r, Total(o), 0)
    [] s.op = "open"        -> r.ok /\ Fits(o, r, Total(o),
                                    IF s.flag /\ ~(s.tok # Store!NoBundle /\ Known(o, s.tok))
                                    THEN 1 ELSE 0)
    [] s.op = "transaction" -> r.ok /\ Takes(o, s.tok, r, s.flag, 0)
    [] s.op \in {"merge", "checkpoint"} -> r.ok /\ Fits(o, r, Total(o), 0) /\ r.gen > o.gen
                                           /\ r.ckpt = Total(o)
    [] s.op = "reject"      -> ~r.ok /\ st.content = o.accepted
                               /\ Fits(o, Store!Says(st, Store!NoBundle, FALSE), Total(o), 0)
    [] s.op \in {"export", "query"} -> r.ok /\ r.content = o.accepted
    [] s.op = "stats"       -> r.ok /\ Fits(o, r, Total(o), 0)
    [] s.op \in {"hello", "fault"} -> r.ok
    [] s.op \in {"fail_transaction", "fail_merge"} -> ~r.ok
    [] s.op = "adopt_first" -> r.ok /\ Takes(o, s.tok, r, TRUE, 1)
    [] OTHER                -> TRUE

After(s, o, r) ==
  CASE s.op \in {"build", "open", "merge", "checkpoint", "stats"} -> Tells(o, r)
    [] s.op \in {"transaction", "adopt_first"} -> Took(o, s.tok, r)
    [] OTHER -> o

InKill(s) == s.op \in {"kill_merge", "kill_transaction"}

Down(st) == [content |-> st.content, gen |-> st.gen, ckpt |-> st.ckpt, mode |-> "down"]

(* Once the store, now st, has answered r to s: the reply shows what was    *)
(* wrong, or will leave things as they should stand at m.                   *)
Answered(w, s, m, o, st, r, h) ==
  /\ InKill(s) => Sound(w, m, o, Down(st), h)
  /\ ~InKill(s) => IF Satisfies(s, o, st, r)
                   THEN Sound(w, m, After(s, o, r), st, IF s.op = "continue" THEN r ELSE h)
                   ELSE w

-----------------------------------------------------------------------------
(* The ledger. *)

(* What is stored was asked for. *)
Explained(c, l) ==
  \A i \in 1..Len(c) : c[i] = Store!Foreign \/
    \E e \in 1..Len(l) : l[e].kind = "request" /\ l[e].tok = c[i]

(* A transaction with token t was answered, and the answer is on record. *)
OnRecord(l, t) == \E e \in 1..Len(l) : l[e].kind = "response" /\ l[e].ok /\ l[e].tok = t

(* What is accepted was. *)
Vouched(a, l) == \A t \in Store!Tokens : (\E i \in 1..Len(a) : a[i] = t) => OnRecord(l, t)

(* The reply put aside is on record. *)
HeldRecorded(l) == held.ok => /\ l.kind \in {"continued", "adopting"} => OnRecord(ledger, 3)
                              /\ l.kind = "merging" => OnRecord(ledger, 2)

(* The last entry is the request of s, which is one that is sent. *)
Requested(s) == /\ Len(ledger) \in Nat \ {0} /\ s.op \notin {"kill", "adopt"}
                /\ ledger[Len(ledger)].kind = "request" /\ ledger[Len(ledger)].tok = s.tok

-----------------------------------------------------------------------------
(* The invariant. *)

(* Where the case is: before, in or after a step s that leads from l to m.  *)
Reached(l, s, m) ==
  /\ HeldRecorded(l)
  /\ phase \in {"ready", "asked"} => Sound(wronged, l, oracle, store, held)
  /\ phase # "ready" => Requested(s)
  /\ phase = "asked" /\ s.op = "adopt_first" => Store!FirstCommitted
  /\ phase = "answered" => Answered(wronged, s, m, oracle, store, reply, held)

(* f drives the steps P of the case that is run, and this is where it is. *)
Driving(f, P) ==
  /\ Labelling(Drive, f, P) /\ ~f[Len(P) + 1].due
  /\ step <= Len(P) + 1
  /\ phase # "ready" => step <= Len(P)
  /\ Reached(f[step], P[step], f[step + 1])

Driven(f) == Driving(f, Store!Steps(Store!Cases[n]))

Replies == [ok : BOOLEAN, head : Int, gen : Int, ckpt : Int, txid : Int, replayed : BOOLEAN,
            content : Seq(Int)]
Stores  == [content : Seq(Int), gen : Int, ckpt : Int, mode : {"down", "up", "recovery"}]
Oracles == [accepted : Seq(Store!Tokens), gen : Int, ckpt : Int]
Events  == [kind : {"request", "response", "note"}, of : Nat,
            op : StoreOps \cup {"external_process_kill", "fault_pause_observed",
                                "transport_failure", "torn"},
            tok : Int, ok : BOOLEAN]

StoreTyped ==
  /\ n \in Nat \ {0} /\ step \in Nat \ {0} /\ phase \in {"ready", "asked", "answered"}
  /\ wronged \in BOOLEAN /\ troubled \in BOOLEAN
  /\ oracle \in Oracles /\ store \in Stores /\ reply \in Replies /\ held \in Replies
  /\ ledger \in Seq(Events)
  /\ verdict \in [status : {"running", "failed", "crashed", "eligible", "ineligible"},
                  quality : BOOLEAN]

(* The verdict: no case is left behind with the contract broken, and none   *)
(* fails unless it is or something else goes wrong.                         *)
Judged ==
  /\ wronged => /\ ~verdict.quality /\ n <= Len(Store!Cases)
                /\ step <= Len(Store!Steps(Store!Cases[n]))
  /\ verdict.status = "failed" => wronged \/ troubled
  /\ verdict.status = "running" => ~verdict.quality

StoreInv ==
  /\ StoreTyped
  /\ Explained(store.content, ledger) /\ Vouched(oracle.accepted, ledger)
  /\ verdict.status # "crashed" => Store!Verified(ledger)
  /\ Judged
  /\ verdict.status = "running" /\ n <= Len(Store!Cases) => \E f : Driven(f)

-----------------------------------------------------------------------------
(* The store: every case is a path from its first stand to its last. *)

(* A step that drives a store from one stand to another is a path. *)
LEMMA DrivenPath ==
  ASSUME NEW l \in Stands, NEW m \in Stands, NEW s \in CaseSteps, Drives(l, s, m)
  PROVE  CasePath(l, <<s>>, m)
<1>1. <<l, s, m>> \in Drive
  BY DEF Drive
<1>2. Path(Drive, CaseSteps, l, <<s>>, m)
  <2>. HIDE DEF Drive
  <2>. QED
    BY <1>1, PathOne
<1>. QED
  BY <1>2 DEF CasePath

(* Paths of a case join. *)
LEMMA CaseJoin ==
  ASSUME NEW l, NEW s, NEW m, NEW t, NEW o, CasePath(l, s, m), CasePath(m, t, o)
  PROVE  CasePath(l, s \o t, o)
<1>1. PICK M, S : M = Drive /\ S = CaseSteps
  OBVIOUS
<1>2. Path(M, S, l, s \o t, o)
  BY <1>1, PathJoin DEF CasePath
<1>. QED
  BY <1>1, <1>2 DEF CasePath

(* Stands have two fields. *)
LEMMA StandFields ==
  ASSUME NEW k \in Kinds, NEW d \in BOOLEAN
  PROVE  Stand(k, d) \in Stands /\ Stand(k, d).kind = k /\ Stand(k, d).due = d
BY DEF Stand, Stands

(* The steps a case writes down. *)
LEMMA StepFields ==
  ASSUME NEW op \in StoreOps, NEW t \in Store!Tokens \cup {Store!NoBundle}
  PROVE  /\ Store!Step(op, t) \in CaseSteps
         /\ Store!Step(op, t).op = op /\ Store!Step(op, t).tok = t /\ Store!Step(op, t).flag = FALSE
         /\ Store!Flagged(op, t) \in CaseSteps
         /\ Store!Flagged(op, t).op = op /\ Store!Flagged(op, t).tok = t
         /\ Store!Flagged(op, t).flag = TRUE
BY DEF Store!Step, Store!Flagged, CaseSteps

(* The tokens the fixed cases use. *)
LEMMA FirstTokens ==
  /\ 1 \in Store!Tokens /\ 2 \in Store!Tokens /\ 3 \in Store!Tokens /\ 4 \in Store!Tokens
  /\ \A i \in 1..Inserts : i \in Store!Tokens
  /\ Store!Tokens \subseteq Nat \ {0} /\ Store!NoBundle = -1
<1>1. Inserts \in Nat
  BY ScoringAssumption DEF Store!MutableAssumption
<1>2. CASE Inserts > 4
  BY <1>1, <1>2 DEF Store!Tokens, Store!NoBundle
<1>3. CASE ~(Inserts > 4)
  BY <1>1, <1>3 DEF Store!Tokens, Store!NoBundle
<1>. QED
  BY <1>2, <1>3

(* A greeting, or arming a fault, changes nothing. *)
LEMMA PassPath ==
  ASSUME NEW l \in Stands, NEW op \in {"hello", "fault"}
  PROVE  CasePath(l, <<Store!Step(op, Store!NoBundle)>>, l)
<1>1. PICK s : s = Store!Step(op, Store!NoBundle)
  OBVIOUS
<1>2. op \in StoreOps
  BY DEF StoreOps
<1>3. s \in CaseSteps /\ s.op = op
  BY <1>1, <1>2, StepFields
<1>4. Passes(l, s, l)
  BY <1>3 DEF Passes
<1>. QED
  BY <1>1, <1>3, <1>4, DrivenPath DEF Drives

(* A greeting and the arming of a fault leave the stand as it is. *)
LEMMA GreetPath ==
  ASSUME NEW l \in Stands
  PROVE  CasePath(l, Store!Hello, l) /\ CasePath(l, Store!Arm, l)
BY PassPath DEF Store!Hello, Store!Arm

(* A store is built. *)
LEMMA BuildStep ==
  ASSUME NEW k \in {"first", "synced"}
  PROVE  CasePath(Stand("fresh", FALSE), <<Store!Step("build", Store!NoBundle)>>, Stand(k, FALSE))
<1>1. PICK l, m, s : l = Stand("fresh", FALSE) /\ m = Stand(k, FALSE) /\ s = Store!Step("build", Store!NoBundle)
  OBVIOUS
<1>2. /\ l \in Stands /\ l.kind = "fresh" /\ l.due = FALSE
      /\ m \in Stands /\ m.kind = k /\ m.due = FALSE
  BY <1>1 DEF Stand, Stands, Kinds
<1>3. "build" \in StoreOps /\ Store!NoBundle \in Store!Tokens \cup {Store!NoBundle}
  BY FirstTokens DEF StoreOps
<1>4. s \in CaseSteps /\ s.op = "build" /\ s.tok = Store!NoBundle /\ s.flag = FALSE
  BY <1>1, <1>3 DEF Store!Step, Store!Flagged, CaseSteps
<1>5. Builds(l, s, m)
  BY <1>2, <1>4 DEF Builds
<1>. QED
  BY <1>1, <1>2, <1>4, <1>5, DrivenPath DEF Drives

(* A transaction the oracle follows. *)
LEMMA InsertStep ==
  ASSUME NEW t \in Store!Tokens, NEW d \in BOOLEAN
  PROVE  CasePath(Stand("synced", d), <<Store!Step("transaction", t)>>, Stand("synced", d))
<1>1. PICK l, m, s : l = Stand("synced", d) /\ m = Stand("synced", d) /\ s = Store!Step("transaction", t)
  OBVIOUS
<1>2. /\ l \in Stands /\ l.kind = "synced" /\ l.due = d
      /\ m \in Stands /\ m.kind = "synced" /\ m.due = d
  BY <1>1 DEF Stand, Stands, Kinds
<1>3. "transaction" \in StoreOps /\ t \in Store!Tokens \cup {Store!NoBundle}
  BY FirstTokens DEF StoreOps
<1>4. s \in CaseSteps /\ s.op = "transaction" /\ s.tok = t /\ s.flag = FALSE
  BY <1>1, <1>3 DEF Store!Step, Store!Flagged, CaseSteps
<1>5. Transacts(l, s, m)
  BY <1>2, <1>4, FirstTokens DEF Transacts
<1>. QED
  BY <1>1, <1>2, <1>4, <1>5, DrivenPath DEF Drives

(* The first transaction. *)
LEMMA FirstStep ==
  ASSUME NEW d \in BOOLEAN
  PROVE  CasePath(Stand("first", d), <<Store!Step("transaction", 1)>>, Stand("first", d))
<1>1. PICK l, m, s : l = Stand("first", d) /\ m = Stand("first", d) /\ s = Store!Step("transaction", 1)
  OBVIOUS
<1>2. /\ l \in Stands /\ l.kind = "first" /\ l.due = d
      /\ m \in Stands /\ m.kind = "first" /\ m.due = d
  BY <1>1 DEF Stand, Stands, Kinds
<1>3. "transaction" \in StoreOps /\ 1 \in Store!Tokens \cup {Store!NoBundle}
  BY FirstTokens DEF StoreOps
<1>4. s \in CaseSteps /\ s.op = "transaction" /\ s.tok = 1 /\ s.flag = FALSE
  BY <1>1, <1>3 DEF Store!Step, Store!Flagged, CaseSteps
<1>5. Transacts(l, s, m)
  BY <1>2, <1>4, FirstTokens DEF Transacts
<1>. QED
  BY <1>1, <1>2, <1>4, <1>5, DrivenPath DEF Drives

(* A transaction that may have been done is resolved. *)
LEMMA ResolveStep ==
  ASSUME NEW d \in BOOLEAN
  PROVE  CasePath(Stand("opened", d), <<Store!Flagged("transaction", 2)>>, Stand("synced", d))
<1>1. PICK l, m, s : l = Stand("opened", d) /\ m = Stand("synced", d) /\ s = Store!Flagged("transaction", 2)
  OBVIOUS
<1>2. /\ l \in Stands /\ l.kind = "opened" /\ l.due = d
      /\ m \in Stands /\ m.kind = "synced" /\ m.due = d
  BY <1>1 DEF Stand, Stands, Kinds
<1>3. "transaction" \in StoreOps /\ 2 \in Store!Tokens \cup {Store!NoBundle}
  BY FirstTokens DEF StoreOps
<1>4. s \in CaseSteps /\ s.op = "transaction" /\ s.tok = 2 /\ s.flag = TRUE
  BY <1>1, <1>3 DEF Store!Step, Store!Flagged, CaseSteps
<1>5. Transacts(l, s, m)
  BY <1>2, <1>4, FirstTokens DEF Transacts
<1>. QED
  BY <1>1, <1>2, <1>4, <1>5, DrivenPath DEF Drives

(* What leaves a store as it is, or merges it. *)
LEMMA SettleStep ==
  ASSUME NEW op \in {"merge", "checkpoint", "reject", "stats", "close"}, NEW t \in {1, Store!NoBundle}, NEW d \in BOOLEAN
  PROVE  CasePath(Stand("synced", d), <<Store!Step(op, t)>>, Stand("synced", d))
<1>1. PICK l, m, s : l = Stand("synced", d) /\ m = Stand("synced", d) /\ s = Store!Step(op, t)
  OBVIOUS
<1>2. /\ m = l /\ l \in Stands /\ l.kind = "synced" /\ l.due = d
      /\ m \in Stands /\ m.kind = "synced" /\ m.due = d
  BY <1>1 DEF Stand, Stands, Kinds
<1>3. op \in StoreOps /\ t \in Store!Tokens \cup {Store!NoBundle}
  BY FirstTokens DEF StoreOps
<1>4. s \in CaseSteps /\ s.op = op /\ s.tok = t /\ s.flag = FALSE
  BY <1>1, <1>3 DEF Store!Step, Store!Flagged, CaseSteps
<1>5. Settles(l, s, m)
  BY <1>2, <1>4 DEF Settles
<1>. QED
  BY <1>1, <1>2, <1>4, <1>5, DrivenPath DEF Drives

(* An export, or a query, shows what is there. *)
LEMMA ExportStep ==
  ASSUME NEW op \in {"export", "query"}, NEW d \in BOOLEAN
  PROVE  CasePath(Stand("synced", d), <<Store!Step(op, Store!NoBundle)>>, Stand("synced", FALSE))
<1>1. PICK l, m, s : l = Stand("synced", d) /\ m = Stand("synced", FALSE) /\ s = Store!Step(op, Store!NoBundle)
  OBVIOUS
<1>2. /\ l \in Stands /\ l.kind = "synced" /\ l.due = d
      /\ m \in Stands /\ m.kind = "synced" /\ m.due = FALSE
  BY <1>1 DEF Stand, Stands, Kinds
<1>3. op \in StoreOps /\ Store!NoBundle \in Store!Tokens \cup {Store!NoBundle}
  BY FirstTokens DEF StoreOps
<1>4. s \in CaseSteps /\ s.op = op /\ s.tok = Store!NoBundle /\ s.flag = FALSE
  BY <1>1, <1>3 DEF Store!Step, Store!Flagged, CaseSteps
<1>5. Exports(l, s, m)
  BY <1>2, <1>4 DEF Exports
<1>. QED
  BY <1>1, <1>2, <1>4, <1>5, DrivenPath DEF Drives

(* A store is opened again. *)
LEMMA OpenStep ==
  ASSUME NEW k \in {"synced", "ahead"}, NEW d \in BOOLEAN
  PROVE  CasePath(Stand(k, d), <<Store!Step("open", Store!NoBundle)>>, Stand("synced", TRUE))
<1>1. PICK l, m, s : l = Stand(k, d) /\ m = Stand("synced", TRUE) /\ s = Store!Step("open", Store!NoBundle)
  OBVIOUS
<1>2. /\ l \in Stands /\ l.kind = k /\ l.due = d
      /\ m \in Stands /\ m.kind = "synced" /\ m.due = TRUE
  BY <1>1 DEF Stand, Stands, Kinds
<1>3. "open" \in StoreOps /\ Store!NoBundle \in Store!Tokens \cup {Store!NoBundle}
  BY FirstTokens DEF StoreOps
<1>4. s \in CaseSteps /\ s.op = "open" /\ s.tok = Store!NoBundle /\ s.flag = FALSE
  BY <1>1, <1>3 DEF Store!Step, Store!Flagged, CaseSteps
<1>5. Opens(l, s, m)
  BY <1>2, <1>4 DEF Opens
<1>. QED
  BY <1>1, <1>2, <1>4, <1>5, DrivenPath DEF Drives

(* A store is opened with a transaction that may have been done. *)
LEMMA ReopenStep ==
  ASSUME NEW t \in {2, Store!NoBundle}, NEW d \in BOOLEAN
  PROVE  CasePath(Stand("loose", d), <<Store!Flagged("open", t)>>, Stand("opened", TRUE))
<1>1. PICK l, m, s : l = Stand("loose", d) /\ m = Stand("opened", TRUE) /\ s = Store!Flagged("open", t)
  OBVIOUS
<1>2. /\ l \in Stands /\ l.kind = "loose" /\ l.due = d
      /\ m \in Stands /\ m.kind = "opened" /\ m.due = TRUE
  BY <1>1 DEF Stand, Stands, Kinds
<1>3. "open" \in StoreOps /\ t \in Store!Tokens \cup {Store!NoBundle}
  BY FirstTokens DEF StoreOps
<1>4. s \in CaseSteps /\ s.op = "open" /\ s.tok = t /\ s.flag = TRUE
  BY <1>1, <1>3 DEF Store!Step, Store!Flagged, CaseSteps
<1>5. Opens(l, s, m)
  BY <1>2, <1>4 DEF Opens
<1>. QED
  BY <1>1, <1>2, <1>4, <1>5, DrivenPath DEF Drives

(* A store is killed at rest. *)
LEMMA KillStep ==
  ASSUME NEW k \in {"synced", "ahead", "loose"}, NEW d \in BOOLEAN
  PROVE  CasePath(Stand(k, d), <<Store!Step("kill", Store!NoBundle)>>, Stand(k, d))
<1>1. PICK l, m, s : l = Stand(k, d) /\ m = Stand(k, d) /\ s = Store!Step("kill", Store!NoBundle)
  OBVIOUS
<1>2. /\ l \in Stands /\ l.kind = k /\ l.due = d
      /\ m \in Stands /\ m.kind = k /\ m.due = d
  BY <1>1 DEF Stand, Stands, Kinds
<1>3. "kill" \in StoreOps /\ Store!NoBundle \in Store!Tokens \cup {Store!NoBundle}
  BY FirstTokens DEF StoreOps
<1>4. s \in CaseSteps /\ s.op = "kill" /\ s.tok = Store!NoBundle /\ s.flag = FALSE
  BY <1>1, <1>3 DEF Store!Step, Store!Flagged, CaseSteps
<1>5. Kills(l, s, m)
  BY <1>2, <1>4 DEF Kills
<1>. QED
  BY <1>1, <1>2, <1>4, <1>5, DrivenPath DEF Drives

(* It is killed in a merge. *)
LEMMA KillMergeStep ==
  ASSUME NEW d \in BOOLEAN
  PROVE  CasePath(Stand("first", d), <<Store!Step("kill_merge", Store!NoBundle)>>, Stand("ahead", d))
<1>1. PICK l, m, s : l = Stand("first", d) /\ m = Stand("ahead", d) /\ s = Store!Step("kill_merge", Store!NoBundle)
  OBVIOUS
<1>2. /\ l \in Stands /\ l.kind = "first" /\ l.due = d
      /\ m \in Stands /\ m.kind = "ahead" /\ m.due = d
  BY <1>1 DEF Stand, Stands, Kinds
<1>3. "kill_merge" \in StoreOps /\ Store!NoBundle \in Store!Tokens \cup {Store!NoBundle}
  BY FirstTokens DEF StoreOps
<1>4. s \in CaseSteps /\ s.op = "kill_merge" /\ s.tok = Store!NoBundle /\ s.flag = FALSE
  BY <1>1, <1>3 DEF Store!Step, Store!Flagged, CaseSteps
<1>5. Kills(l, s, m)
  BY <1>2, <1>4 DEF Kills
<1>. QED
  BY <1>1, <1>2, <1>4, <1>5, DrivenPath DEF Drives

(* It is killed in a transaction. *)
LEMMA KillTransactionStep ==
  ASSUME NEW d \in BOOLEAN
  PROVE  CasePath(Stand("first", d), <<Store!Step("kill_transaction", 2)>>, Stand("loose", d))
<1>1. PICK l, m, s : l = Stand("first", d) /\ m = Stand("loose", d) /\ s = Store!Step("kill_transaction", 2)
  OBVIOUS
<1>2. /\ l \in Stands /\ l.kind = "first" /\ l.due = d
      /\ m \in Stands /\ m.kind = "loose" /\ m.due = d
  BY <1>1 DEF Stand, Stands, Kinds
<1>3. "kill_transaction" \in StoreOps /\ 2 \in Store!Tokens \cup {Store!NoBundle}
  BY FirstTokens DEF StoreOps
<1>4. s \in CaseSteps /\ s.op = "kill_transaction" /\ s.tok = 2 /\ s.flag = FALSE
  BY <1>1, <1>3 DEF Store!Step, Store!Flagged, CaseSteps
<1>5. Kills(l, s, m)
  BY <1>2, <1>4 DEF Kills
<1>. QED
  BY <1>1, <1>2, <1>4, <1>5, DrivenPath DEF Drives

(* A transaction fails. *)
LEMMA FailTransactionStep ==
  ASSUME NEW d \in BOOLEAN
  PROVE  CasePath(Stand("first", d), <<Store!Step("fail_transaction", 2)>>, Stand("halted", d))
<1>1. PICK l, m, s : l = Stand("first", d) /\ m = Stand("halted", d) /\ s = Store!Step("fail_transaction", 2)
  OBVIOUS
<1>2. /\ l \in Stands /\ l.kind = "first" /\ l.due = d
      /\ m \in Stands /\ m.kind = "halted" /\ m.due = d
  BY <1>1 DEF Stand, Stands, Kinds
<1>3. "fail_transaction" \in StoreOps /\ 2 \in Store!Tokens \cup {Store!NoBundle}
  BY FirstTokens DEF StoreOps
<1>4. s \in CaseSteps /\ s.op = "fail_transaction" /\ s.tok = 2 /\ s.flag = FALSE
  BY <1>1, <1>3 DEF Store!Step, Store!Flagged, CaseSteps
<1>5. Fails(l, s, m)
  BY <1>2, <1>4 DEF Fails
<1>. QED
  BY <1>1, <1>2, <1>4, <1>5, DrivenPath DEF Drives

(* A merge fails. *)
LEMMA FailMergeStep ==
  ASSUME NEW d \in BOOLEAN
  PROVE  CasePath(Stand("first", d), <<Store!Step("fail_merge", Store!NoBundle)>>, Stand("stalled", d))
<1>1. PICK l, m, s : l = Stand("first", d) /\ m = Stand("stalled", d) /\ s = Store!Step("fail_merge", Store!NoBundle)
  OBVIOUS
<1>2. /\ l \in Stands /\ l.kind = "first" /\ l.due = d
      /\ m \in Stands /\ m.kind = "stalled" /\ m.due = d
  BY <1>1 DEF Stand, Stands, Kinds
<1>3. "fail_merge" \in StoreOps /\ Store!NoBundle \in Store!Tokens \cup {Store!NoBundle}
  BY FirstTokens DEF StoreOps
<1>4. s \in CaseSteps /\ s.op = "fail_merge" /\ s.tok = Store!NoBundle /\ s.flag = FALSE
  BY <1>1, <1>3 DEF Store!Step, Store!Flagged, CaseSteps
<1>5. Fails(l, s, m)
  BY <1>2, <1>4 DEF Fails
<1>. QED
  BY <1>1, <1>2, <1>4, <1>5, DrivenPath DEF Drives

(* A transaction is sent after the failed one. *)
LEMMA ContinueStep ==
  ASSUME NEW d \in BOOLEAN
  PROVE  CasePath(Stand("halted", d), <<Store!Step("continue", 3)>>, Stand("continued", d))
<1>1. PICK l, m, s : l = Stand("halted", d) /\ m = Stand("continued", d) /\ s = Store!Step("continue", 3)
  OBVIOUS
<1>2. /\ l \in Stands /\ l.kind = "halted" /\ l.due = d
      /\ m \in Stands /\ m.kind = "continued" /\ m.due = d
  BY <1>1 DEF Stand, Stands, Kinds
<1>3. "continue" \in StoreOps /\ 3 \in Store!Tokens \cup {Store!NoBundle}
  BY FirstTokens DEF StoreOps
<1>4. s \in CaseSteps /\ s.op = "continue" /\ s.tok = 3 /\ s.flag = FALSE
  BY <1>1, <1>3 DEF Store!Step, Store!Flagged, CaseSteps
<1>5. Continues(l, s, m)
  BY <1>2, <1>4 DEF Continues
<1>. QED
  BY <1>1, <1>2, <1>4, <1>5, DrivenPath DEF Drives

(* One is sent after the failed merge. *)
LEMMA ContinueMergeStep ==
  ASSUME NEW d \in BOOLEAN
  PROVE  CasePath(Stand("stalled", d), <<Store!Step("continue", 2)>>, Stand("merging", d))
<1>1. PICK l, m, s : l = Stand("stalled", d) /\ m = Stand("merging", d) /\ s = Store!Step("continue", 2)
  OBVIOUS
<1>2. /\ l \in Stands /\ l.kind = "stalled" /\ l.due = d
      /\ m \in Stands /\ m.kind = "merging" /\ m.due = d
  BY <1>1 DEF Stand, Stands, Kinds
<1>3. "continue" \in StoreOps /\ 2 \in Store!Tokens \cup {Store!NoBundle}
  BY FirstTokens DEF StoreOps
<1>4. s \in CaseSteps /\ s.op = "continue" /\ s.tok = 2 /\ s.flag = FALSE
  BY <1>1, <1>3 DEF Store!Step, Store!Flagged, CaseSteps
<1>5. Continues(l, s, m)
  BY <1>2, <1>4 DEF Continues
<1>. QED
  BY <1>1, <1>2, <1>4, <1>5, DrivenPath DEF Drives

(* The failed transaction is accepted if it came first. *)
LEMMA AdoptFirstStep ==
  ASSUME NEW d \in BOOLEAN
  PROVE  CasePath(Stand("continued", d), <<Store!Step("adopt_first", 2)>>, Stand("adopting", d))
<1>1. PICK l, m, s : l = Stand("continued", d) /\ m = Stand("adopting", d) /\ s = Store!Step("adopt_first", 2)
  OBVIOUS
<1>2. /\ l \in Stands /\ l.kind = "continued" /\ l.due = d
      /\ m \in Stands /\ m.kind = "adopting" /\ m.due = d
  BY <1>1 DEF Stand, Stands, Kinds
<1>3. "adopt_first" \in StoreOps /\ 2 \in Store!Tokens \cup {Store!NoBundle}
  BY FirstTokens DEF StoreOps
<1>4. s \in CaseSteps /\ s.op = "adopt_first" /\ s.tok = 2 /\ s.flag = FALSE
  BY <1>1, <1>3 DEF Store!Step, Store!Flagged, CaseSteps
<1>5. Adopts(l, s, m)
  BY <1>2, <1>4 DEF Adopts
<1>. QED
  BY <1>1, <1>2, <1>4, <1>5, DrivenPath DEF Drives

(* Then the one that was sent after it. *)
LEMMA AdoptStep ==
  ASSUME NEW d \in BOOLEAN
  PROVE  CasePath(Stand("adopting", d), <<Store!Step("adopt", 3)>>, Stand("loose", d))
<1>1. PICK l, m, s : l = Stand("adopting", d) /\ m = Stand("loose", d) /\ s = Store!Step("adopt", 3)
  OBVIOUS
<1>2. /\ l \in Stands /\ l.kind = "adopting" /\ l.due = d
      /\ m \in Stands /\ m.kind = "loose" /\ m.due = d
  BY <1>1 DEF Stand, Stands, Kinds
<1>3. "adopt" \in StoreOps /\ 3 \in Store!Tokens \cup {Store!NoBundle}
  BY FirstTokens DEF StoreOps
<1>4. s \in CaseSteps /\ s.op = "adopt" /\ s.tok = 3 /\ s.flag = FALSE
  BY <1>1, <1>3 DEF Store!Step, Store!Flagged, CaseSteps
<1>5. Adopts(l, s, m)
  BY <1>2, <1>4 DEF Adopts
<1>. QED
  BY <1>1, <1>2, <1>4, <1>5, DrivenPath DEF Drives

(* And the one sent after the merge. *)
LEMMA AdoptMergeStep ==
  ASSUME NEW d \in BOOLEAN
  PROVE  CasePath(Stand("merging", d), <<Store!Step("adopt", 2)>>, Stand("ahead", d))
<1>1. PICK l, m, s : l = Stand("merging", d) /\ m = Stand("ahead", d) /\ s = Store!Step("adopt", 2)
  OBVIOUS
<1>2. /\ l \in Stands /\ l.kind = "merging" /\ l.due = d
      /\ m \in Stands /\ m.kind = "ahead" /\ m.due = d
  BY <1>1 DEF Stand, Stands, Kinds
<1>3. "adopt" \in StoreOps /\ 2 \in Store!Tokens \cup {Store!NoBundle}
  BY FirstTokens DEF StoreOps
<1>4. s \in CaseSteps /\ s.op = "adopt" /\ s.tok = 2 /\ s.flag = FALSE
  BY <1>1, <1>3 DEF Store!Step, Store!Flagged, CaseSteps
<1>5. Adopts(l, s, m)
  BY <1>2, <1>4 DEF Adopts
<1>. QED
  BY <1>1, <1>2, <1>4, <1>5, DrivenPath DEF Drives

-----------------------------------------------------------------------------
(* Steps that are written out one after another. *)
LEMMA CaseTwo ==
  ASSUME NEW a, NEW b, NEW c, NEW x, NEW y, CasePath(a, <<x>>, b), CasePath(b, <<y>>, c)
  PROVE  CasePath(a, <<x, y>>, c)
<1>1. PICK M, S : M = Drive /\ S = CaseSteps
  OBVIOUS
<1>2. Path(M, S, a, <<x, y>>, c)
  BY <1>1, PathTwo DEF CasePath
<1>. QED
  BY <1>1, <1>2 DEF CasePath

(* Three of them. *)
LEMMA CaseThree ==
  ASSUME NEW a, NEW b, NEW c, NEW d, NEW x, NEW y, NEW z,
         CasePath(a, <<x>>, b), CasePath(b, <<y>>, c), CasePath(c, <<z>>, d)
  PROVE  CasePath(a, <<x, y, z>>, d)
<1>1. PICK M, S : M = Drive /\ S = CaseSteps
  OBVIOUS
<1>2. Path(M, S, a, <<x, y, z>>, d)
  BY <1>1, PathThree DEF CasePath
<1>. QED
  BY <1>1, <1>2 DEF CasePath

(* And four. *)
LEMMA PathFour ==
  ASSUME NEW T, NEW S, NEW a, NEW b, NEW c, NEW d, NEW e, NEW w, NEW x, NEW y, NEW z,
         Path(T, S, a, <<w>>, b), Path(T, S, b, <<x>>, c),
         Path(T, S, c, <<y>>, d), Path(T, S, d, <<z>>, e)
  PROVE  Path(T, S, a, <<w, x, y, z>>, e)
<1>1. <<a, w, b>> \in T /\ w \in S
  BY OneMove
<1>2. <<b, x, c>> \in T /\ x \in S
  BY OneMove
<1>3. <<c, y, d>> \in T /\ y \in S
  BY OneMove
<1>4. <<d, z, e>> \in T /\ z \in S
  BY OneMove
<1>5. Labelling(T, <<a, b, c, d, e>>, <<w, x, y, z>>)
  BY <1>1, <1>2, <1>3, <1>4 DEF Labelling
<1>6. <<w, x, y, z>> \in Seq(S)
  BY <1>1, <1>2, <1>3, <1>4
<1>7. Len(<<w, x, y, z>>) + 1 = 5 /\ <<a, b, c, d, e>>[5] = e
  OBVIOUS
<1>. QED
  BY <1>5, <1>6, <1>7 DEF Path

(* Four steps of a case. *)
LEMMA CaseFour ==
  ASSUME NEW a, NEW b, NEW c, NEW d, NEW e, NEW w, NEW x, NEW y, NEW z,
         CasePath(a, <<w>>, b), CasePath(b, <<x>>, c), CasePath(c, <<y>>, d), CasePath(d, <<z>>, e)
  PROVE  CasePath(a, <<w, x, y, z>>, e)
<1>1. PICK M, S : M = Drive /\ S = CaseSteps
  OBVIOUS
<1>2. Path(M, S, a, <<w, x, y, z>>, e)
  BY <1>1, PathFour DEF CasePath
<1>. QED
  BY <1>1, <1>2 DEF CasePath

(* Four paths, one after another. *)
LEMMA CaseJoins ==
  ASSUME NEW a, NEW b, NEW c, NEW d, NEW e, NEW s, NEW t, NEW u, NEW v,
         CasePath(a, s, b), CasePath(b, t, c), CasePath(c, u, d), CasePath(d, v, e)
  PROVE  CasePath(a, s \o t \o u \o v, e)
<1>1. CasePath(a, s \o t, c)
  BY CaseJoin
<1>2. CasePath(a, s \o t \o u, d)
  BY <1>1, CaseJoin
<1>. QED
  BY <1>2, CaseJoin

-----------------------------------------------------------------------------
(* The parts of the cases. *)

(* A case builds its store. *)
LEMMA BuildPath ==
  ASSUME NEW k \in {"first", "synced"}
  PROVE  CasePath(Outset, Store!Build, Stand(k, FALSE))
<1>1. Outset \in Stands
  BY DEF Outset, Stand, Stands, Kinds
<1>2. CasePath(Outset, Store!Hello, Outset)
  BY <1>1, GreetPath
<1>3. CasePath(Outset, <<Store!Step("build", Store!NoBundle)>>, Stand(k, FALSE))
  BY BuildStep DEF Outset
<1>. QED
  BY <1>2, <1>3, CaseJoin DEF Store!Build

(* All that is there is shown. *)
LEMMA VerifyPath ==
  ASSUME NEW d \in BOOLEAN
  PROVE  CasePath(Stand("synced", d), Store!Verify, Stand("synced", FALSE))
<1>1. CasePath(Stand("synced", d), <<Store!Step("export", Store!NoBundle)>>, Stand("synced", FALSE))
  BY ExportStep
<1>2. CasePath(Stand("synced", FALSE), <<Store!Step("stats", Store!NoBundle)>>, Stand("synced", FALSE))
  BY SettleStep
<1>3. CasePath(Stand("synced", FALSE), <<Store!Step("query", Store!NoBundle)>>, Stand("synced", FALSE))
  BY ExportStep
<1>. QED
  BY <1>1, <1>2, <1>3, CaseThree DEF Store!Verify

(* The store is opened. *)
LEMMA OpenPath ==
  ASSUME NEW k \in {"synced", "ahead"}, NEW d \in BOOLEAN
  PROVE  CasePath(Stand(k, d), Store!Open, Stand("synced", TRUE))
<1>1. Stand(k, d) \in Stands
  BY DEF Stand, Stands, Kinds
<1>2. CasePath(Stand(k, d), Store!Hello, Stand(k, d))
  BY <1>1, GreetPath
<1>. QED
  BY <1>2, OpenStep, CaseJoin DEF Store!Open

(* It stops. *)
LEMMA StopPath ==
  ASSUME NEW d \in BOOLEAN
  PROVE  CasePath(Stand("synced", d), Store!Stop, Stand("synced", d))
BY SettleStep DEF Store!Stop

(* It stops, and is opened again. *)
LEMMA ReopenPath ==
  ASSUME NEW d \in BOOLEAN
  PROVE  CasePath(Stand("synced", d), Store!Reopen, Stand("synced", TRUE))
BY StopPath, OpenPath, CaseJoin DEF Store!Reopen

(* It merges. *)
LEMMA MergePath ==
  ASSUME NEW op \in {"merge", "checkpoint"}, NEW d \in BOOLEAN
  PROVE  CasePath(Stand("synced", d), Store!Merge(op), Stand("synced", d))
BY SettleStep DEF Store!Merge

(* It takes a transaction. *)
LEMMA TxPath ==
  ASSUME NEW t \in Store!Tokens, NEW d \in BOOLEAN
  PROVE  CasePath(Stand("synced", d), Store!Tx(t), Stand("synced", d))
BY InsertStep DEF Store!Tx

(* Its first one. *)
LEMMA FirstPath == CasePath(Stand("first", FALSE), Store!Tx(1), Stand("first", FALSE))
BY FirstStep DEF Store!Tx

(* It tells what became of the transaction in flight. *)
LEMMA ResolvePath ==
  ASSUME NEW d \in BOOLEAN
  PROVE  CasePath(Stand("opened", d), Store!Resolve(2), Stand("synced", d))
BY ResolveStep DEF Store!Resolve

(* It is told where to fail. *)
LEMMA ArmPath == CasePath(Stand("first", FALSE), Store!Arm, Stand("first", FALSE))
<1>1. Stand("first", FALSE) \in Stands
  BY DEF Stand, Stands, Kinds
<1>. QED
  BY <1>1, GreetPath

(* It is killed. *)
LEMMA KillPath ==
  ASSUME NEW k \in {"synced", "ahead", "loose"}, NEW d \in BOOLEAN
  PROVE  CasePath(Stand(k, d), Store!Kill, Stand(k, d))
BY KillStep DEF Store!Kill

(* It is opened, with a transaction that may be there. *)
LEMMA LooseOpenPath ==
  ASSUME NEW t \in {2, Store!NoBundle}, NEW d \in BOOLEAN
  PROVE  /\ CasePath(Stand("loose", d), Store!Hello, Stand("loose", d))
         /\ CasePath(Stand("loose", d), <<Store!Flagged("open", t)>>, Stand("opened", TRUE))
<1>1. Stand("loose", d) \in Stands
  BY DEF Stand, Stands, Kinds
<1>. QED
  BY <1>1, GreetPath, ReopenStep

-----------------------------------------------------------------------------
(* The cases. *)

(* What must be refused is. *)
LEMMA RejectPath == CasePath(Stand("synced", FALSE), <<Store!Step("reject", 1), Store!Step("reject", Store!NoBundle)>>, Stand("synced", FALSE))
<1>1. CasePath(Stand("synced", FALSE), <<Store!Step("reject", 1)>>, Stand("synced", FALSE))
  BY SettleStep
<1>2. CasePath(Stand("synced", FALSE), <<Store!Step("reject", Store!NoBundle)>>, Stand("synced", FALSE))
  BY SettleStep
<1>. QED
  BY <1>1, <1>2, CaseTwo

(* The case "basic". *)
LEMMA BasicPath == CasePath(Outset, Store!Basic, Stand("synced", FALSE))
<1>1. PICK p1 : p1 = Store!Build \o Store!Verify \o Store!Tx(1) \o Store!Tx(2)
  OBVIOUS
<1>2. CasePath(Outset, p1, Stand("synced", FALSE))
  <2>1. CasePath(Outset, Store!Build, Stand("synced", FALSE))
    BY BuildPath
  <2>2. CasePath(Stand("synced", FALSE), Store!Verify, Stand("synced", FALSE))
    BY VerifyPath
  <2>3. CasePath(Stand("synced", FALSE), Store!Tx(1), Stand("synced", FALSE))
    BY FirstTokens, TxPath
  <2>4. CasePath(Stand("synced", FALSE), Store!Tx(2), Stand("synced", FALSE))
    BY FirstTokens, TxPath
  <2>. QED
    BY <1>1, <2>1, <2>2, <2>3, <2>4, CaseJoins
<1>3. PICK p2 : p2 = p1 \o Store!Tx(1)
                     \o <<Store!Step("reject", 1), Store!Step("reject", Store!NoBundle)>> \o Store!Verify
  OBVIOUS
<1>4. CasePath(Outset, p2, Stand("synced", FALSE))
  <2>1. CasePath(Stand("synced", FALSE), Store!Tx(1), Stand("synced", FALSE))
    BY FirstTokens, TxPath
  <2>2. CasePath(Stand("synced", FALSE), <<Store!Step("reject", 1), Store!Step("reject", Store!NoBundle)>>, Stand("synced", FALSE))
    BY RejectPath
  <2>3. CasePath(Stand("synced", FALSE), Store!Verify, Stand("synced", FALSE))
    BY VerifyPath
  <2>. QED
    BY <1>2, <1>3, <2>1, <2>2, <2>3, CaseJoins
<1>5. PICK p3 : p3 = p2 \o Store!Merge("checkpoint") \o Store!Reopen \o Store!Verify
  OBVIOUS
<1>6. CasePath(Outset, p3, Stand("synced", FALSE))
  <2>1. CasePath(Stand("synced", FALSE), Store!Merge("checkpoint"), Stand("synced", FALSE))
    BY MergePath
  <2>2. CasePath(Stand("synced", FALSE), Store!Reopen, Stand("synced", TRUE))
    BY ReopenPath
  <2>3. CasePath(Stand("synced", TRUE), Store!Verify, Stand("synced", FALSE))
    BY VerifyPath
  <2>. QED
    BY <1>4, <1>5, <2>1, <2>2, <2>3, CaseJoins
<1>7. PICK p4 : p4 = p3 \o Store!Stop
  OBVIOUS
<1>8. CasePath(Outset, p4, Stand("synced", FALSE))
  <2>1. CasePath(Stand("synced", FALSE), Store!Stop, Stand("synced", FALSE))
    BY StopPath
  <2>. QED
    BY <1>6, <1>7, <2>1, CaseJoin
<1>9. Store!Basic = p4
  BY <1>1, <1>3, <1>5, <1>7 DEF Store!Basic
<1>. QED
  BY <1>8, <1>9

(* The case "merge_reopen_insert". *)
LEMMA MergeReopenInsertPath == CasePath(Outset, Store!MergeReopenInsert, Stand("synced", FALSE))
<1>1. PICK p1 : p1 = Store!Build \o Store!Tx(1) \o Store!Merge("merge") \o Store!Reopen
  OBVIOUS
<1>2. CasePath(Outset, p1, Stand("synced", TRUE))
  <2>1. CasePath(Outset, Store!Build, Stand("synced", FALSE))
    BY BuildPath
  <2>2. CasePath(Stand("synced", FALSE), Store!Tx(1), Stand("synced", FALSE))
    BY FirstTokens, TxPath
  <2>3. CasePath(Stand("synced", FALSE), Store!Merge("merge"), Stand("synced", FALSE))
    BY MergePath
  <2>4. CasePath(Stand("synced", FALSE), Store!Reopen, Stand("synced", TRUE))
    BY ReopenPath
  <2>. QED
    BY <1>1, <2>1, <2>2, <2>3, <2>4, CaseJoins
<1>3. PICK p2 : p2 = p1 \o Store!Tx(2) \o Store!Reopen \o Store!Verify
  OBVIOUS
<1>4. CasePath(Outset, p2, Stand("synced", FALSE))
  <2>1. CasePath(Stand("synced", TRUE), Store!Tx(2), Stand("synced", TRUE))
    BY FirstTokens, TxPath
  <2>2. CasePath(Stand("synced", TRUE), Store!Reopen, Stand("synced", TRUE))
    BY ReopenPath
  <2>3. CasePath(Stand("synced", TRUE), Store!Verify, Stand("synced", FALSE))
    BY VerifyPath
  <2>. QED
    BY <1>2, <1>3, <2>1, <2>2, <2>3, CaseJoins
<1>5. PICK p3 : p3 = p2 \o Store!Tx(1) \o Store!Verify \o Store!Stop
  OBVIOUS
<1>6. CasePath(Outset, p3, Stand("synced", FALSE))
  <2>1. CasePath(Stand("synced", FALSE), Store!Tx(1), Stand("synced", FALSE))
    BY FirstTokens, TxPath
  <2>2. CasePath(Stand("synced", FALSE), Store!Verify, Stand("synced", FALSE))
    BY VerifyPath
  <2>3. CasePath(Stand("synced", FALSE), Store!Stop, Stand("synced", FALSE))
    BY StopPath
  <2>. QED
    BY <1>4, <1>5, <2>1, <2>2, <2>3, CaseJoins
<1>7. Store!MergeReopenInsert = p3
  BY <1>1, <1>3, <1>5 DEF Store!MergeReopenInsert
<1>. QED
  BY <1>6, <1>7

(* What the cases of faults do between the first transaction and the rest. *)
KilledInMerge       == Store!Arm \o <<Store!Step("kill_merge", Store!NoBundle)>>
KilledInTransaction == Store!Arm \o <<Store!Step("kill_transaction", 2)>>
OpenedUnsure        == Store!Hello \o <<Store!Flagged("open", Store!NoBundle)>>
FailedTransaction   == <<Store!Step("fail_transaction", 2), Store!Step("continue", 3),
                         Store!Step("adopt_first", 2), Store!Step("adopt", 3)>>
FailedMerge         == <<Store!Step("fail_merge", Store!NoBundle), Store!Step("continue", 2),
                         Store!Step("adopt", 2)>>

(* The store is told where to pause, and is killed there in a merge. *)
LEMMA ArmedMergePath ==
  CasePath(Stand("first", FALSE), KilledInMerge, Stand("ahead", FALSE))
BY ArmPath, KillMergeStep, CaseJoin DEF KilledInMerge

(* Or in a transaction. *)
LEMMA ArmedTransactionPath ==
  CasePath(Stand("first", FALSE), KilledInTransaction, Stand("loose", FALSE))
BY ArmPath, KillTransactionStep, CaseJoin DEF KilledInTransaction

(* The store is opened then. *)
LEMMA UnsureOpenPath ==
  CasePath(Stand("loose", FALSE), OpenedUnsure, Stand("opened", TRUE))
BY LooseOpenPath, CaseJoin DEF OpenedUnsure

(* Where there is nothing to resolve, nothing is. *)
LEMMA EmptyPath == CasePath(Stand("synced", TRUE), <<>>, Stand("synced", TRUE))
<1>1. PICK M, S : M = Drive /\ S = CaseSteps
  OBVIOUS
<1>2. Path(M, S, Stand("synced", TRUE), <<>>, Stand("synced", TRUE))
  BY PathNone
<1>. QED
  BY <1>1, <1>2 DEF CasePath

(* A case that kills the store at rest. *)
LEMMA KilledIdlePath == CasePath(Outset, Store!Killed("idle"), Stand("synced", FALSE))
<1>1. PICK p1 : p1 = Store!Build \o Store!Tx(1) \o Store!Kill \o Store!Open
  OBVIOUS
<1>2. CasePath(Outset, p1, Stand("synced", TRUE))
  <2>1. CasePath(Outset, Store!Build, Stand("synced", FALSE))
    BY BuildPath
  <2>2. CasePath(Stand("synced", FALSE), Store!Tx(1), Stand("synced", FALSE))
    BY FirstTokens, TxPath
  <2>3. CasePath(Stand("synced", FALSE), Store!Kill, Stand("synced", FALSE))
    BY KillPath
  <2>4. CasePath(Stand("synced", FALSE), Store!Open, Stand("synced", TRUE))
    BY OpenPath
  <2>. QED
    BY <1>1, <2>1, <2>2, <2>3, <2>4, CaseJoins
<1>3. PICK p2 : p2 = p1 \o <<>> \o Store!Verify \o Store!Tx(3)
  OBVIOUS
<1>4. CasePath(Outset, p2, Stand("synced", FALSE))
  <2>1. CasePath(Stand("synced", TRUE), <<>>, Stand("synced", TRUE))
    BY EmptyPath
  <2>2. CasePath(Stand("synced", TRUE), Store!Verify, Stand("synced", FALSE))
    BY VerifyPath
  <2>3. CasePath(Stand("synced", FALSE), Store!Tx(3), Stand("synced", FALSE))
    BY FirstTokens, TxPath
  <2>. QED
    BY <1>2, <1>3, <2>1, <2>2, <2>3, CaseJoins
<1>5. PICK p3 : p3 = p2 \o Store!Merge("merge") \o Store!Reopen \o Store!Verify
  OBVIOUS
<1>6. CasePath(Outset, p3, Stand("synced", FALSE))
  <2>1. CasePath(Stand("synced", FALSE), Store!Merge("merge"), Stand("synced", FALSE))
    BY MergePath
  <2>2. CasePath(Stand("synced", FALSE), Store!Reopen, Stand("synced", TRUE))
    BY ReopenPath
  <2>3. CasePath(Stand("synced", TRUE), Store!Verify, Stand("synced", FALSE))
    BY VerifyPath
  <2>. QED
    BY <1>4, <1>5, <2>1, <2>2, <2>3, CaseJoins
<1>7. PICK p4 : p4 = p3 \o Store!Tx(1) \o Store!Tx(3) \o Store!Verify
  OBVIOUS
<1>8. CasePath(Outset, p4, Stand("synced", FALSE))
  <2>1. CasePath(Stand("synced", FALSE), Store!Tx(1), Stand("synced", FALSE))
    BY FirstTokens, TxPath
  <2>2. CasePath(Stand("synced", FALSE), Store!Tx(3), Stand("synced", FALSE))
    BY FirstTokens, TxPath
  <2>3. CasePath(Stand("synced", FALSE), Store!Verify, Stand("synced", FALSE))
    BY VerifyPath
  <2>. QED
    BY <1>6, <1>7, <2>1, <2>2, <2>3, CaseJoins
<1>9. PICK p5 : p5 = p4 \o Store!Stop
  OBVIOUS
<1>10. CasePath(Outset, p5, Stand("synced", FALSE))
  <2>1. CasePath(Stand("synced", FALSE), Store!Stop, Stand("synced", FALSE))
    BY StopPath
  <2>. QED
    BY <1>8, <1>9, <2>1, CaseJoin
<1>11. Store!Killed("idle") = p5
  BY <1>1, <1>3, <1>5, <1>7, <1>9 DEF Store!Killed, Store!AfterKill, KilledInMerge, KilledInTransaction, OpenedUnsure
<1>. QED
  BY <1>10, <1>11

(* One that kills it in a merge. *)
LEMMA KilledMergePath == CasePath(Outset, Store!Killed("merge"), Stand("synced", FALSE))
<1>1. PICK p1 : p1 = Store!Build \o Store!Tx(1) \o KilledInMerge \o Store!Open
  OBVIOUS
<1>2. CasePath(Outset, p1, Stand("synced", TRUE))
  <2>1. CasePath(Outset, Store!Build, Stand("first", FALSE))
    BY BuildPath
  <2>2. CasePath(Stand("first", FALSE), Store!Tx(1), Stand("first", FALSE))
    BY FirstPath
  <2>3. CasePath(Stand("first", FALSE), KilledInMerge, Stand("ahead", FALSE))
    BY ArmedMergePath
  <2>4. CasePath(Stand("ahead", FALSE), Store!Open, Stand("synced", TRUE))
    BY OpenPath
  <2>. QED
    BY <1>1, <2>1, <2>2, <2>3, <2>4, CaseJoins
<1>3. PICK p2 : p2 = p1 \o <<>> \o Store!Verify \o Store!Tx(3)
  OBVIOUS
<1>4. CasePath(Outset, p2, Stand("synced", FALSE))
  <2>1. CasePath(Stand("synced", TRUE), <<>>, Stand("synced", TRUE))
    BY EmptyPath
  <2>2. CasePath(Stand("synced", TRUE), Store!Verify, Stand("synced", FALSE))
    BY VerifyPath
  <2>3. CasePath(Stand("synced", FALSE), Store!Tx(3), Stand("synced", FALSE))
    BY FirstTokens, TxPath
  <2>. QED
    BY <1>2, <1>3, <2>1, <2>2, <2>3, CaseJoins
<1>5. PICK p3 : p3 = p2 \o Store!Merge("merge") \o Store!Reopen \o Store!Verify
  OBVIOUS
<1>6. CasePath(Outset, p3, Stand("synced", FALSE))
  <2>1. CasePath(Stand("synced", FALSE), Store!Merge("merge"), Stand("synced", FALSE))
    BY MergePath
  <2>2. CasePath(Stand("synced", FALSE), Store!Reopen, Stand("synced", TRUE))
    BY ReopenPath
  <2>3. CasePath(Stand("synced", TRUE), Store!Verify, Stand("synced", FALSE))
    BY VerifyPath
  <2>. QED
    BY <1>4, <1>5, <2>1, <2>2, <2>3, CaseJoins
<1>7. PICK p4 : p4 = p3 \o Store!Tx(1) \o Store!Tx(3) \o Store!Verify
  OBVIOUS
<1>8. CasePath(Outset, p4, Stand("synced", FALSE))
  <2>1. CasePath(Stand("synced", FALSE), Store!Tx(1), Stand("synced", FALSE))
    BY FirstTokens, TxPath
  <2>2. CasePath(Stand("synced", FALSE), Store!Tx(3), Stand("synced", FALSE))
    BY FirstTokens, TxPath
  <2>3. CasePath(Stand("synced", FALSE), Store!Verify, Stand("synced", FALSE))
    BY VerifyPath
  <2>. QED
    BY <1>6, <1>7, <2>1, <2>2, <2>3, CaseJoins
<1>9. PICK p5 : p5 = p4 \o Store!Stop
  OBVIOUS
<1>10. CasePath(Outset, p5, Stand("synced", FALSE))
  <2>1. CasePath(Stand("synced", FALSE), Store!Stop, Stand("synced", FALSE))
    BY StopPath
  <2>. QED
    BY <1>8, <1>9, <2>1, CaseJoin
<1>11. Store!Killed("merge") = p5
  BY <1>1, <1>3, <1>5, <1>7, <1>9 DEF Store!Killed, Store!AfterKill, KilledInMerge, KilledInTransaction, OpenedUnsure
<1>. QED
  BY <1>10, <1>11

(* One that kills it in a transaction. *)
LEMMA KilledTransactionPath == CasePath(Outset, Store!Killed("wal"), Stand("synced", FALSE))
<1>1. PICK p1 : p1 = Store!Build \o Store!Tx(1) \o KilledInTransaction \o OpenedUnsure
  OBVIOUS
<1>2. CasePath(Outset, p1, Stand("opened", TRUE))
  <2>1. CasePath(Outset, Store!Build, Stand("first", FALSE))
    BY BuildPath
  <2>2. CasePath(Stand("first", FALSE), Store!Tx(1), Stand("first", FALSE))
    BY FirstPath
  <2>3. CasePath(Stand("first", FALSE), KilledInTransaction, Stand("loose", FALSE))
    BY ArmedTransactionPath
  <2>4. CasePath(Stand("loose", FALSE), OpenedUnsure, Stand("opened", TRUE))
    BY UnsureOpenPath
  <2>. QED
    BY <1>1, <2>1, <2>2, <2>3, <2>4, CaseJoins
<1>3. PICK p2 : p2 = p1 \o Store!Resolve(2) \o Store!Verify \o Store!Tx(3)
  OBVIOUS
<1>4. CasePath(Outset, p2, Stand("synced", FALSE))
  <2>1. CasePath(Stand("opened", TRUE), Store!Resolve(2), Stand("synced", TRUE))
    BY ResolvePath
  <2>2. CasePath(Stand("synced", TRUE), Store!Verify, Stand("synced", FALSE))
    BY VerifyPath
  <2>3. CasePath(Stand("synced", FALSE), Store!Tx(3), Stand("synced", FALSE))
    BY FirstTokens, TxPath
  <2>. QED
    BY <1>2, <1>3, <2>1, <2>2, <2>3, CaseJoins
<1>5. PICK p3 : p3 = p2 \o Store!Merge("merge") \o Store!Reopen \o Store!Verify
  OBVIOUS
<1>6. CasePath(Outset, p3, Stand("synced", FALSE))
  <2>1. CasePath(Stand("synced", FALSE), Store!Merge("merge"), Stand("synced", FALSE))
    BY MergePath
  <2>2. CasePath(Stand("synced", FALSE), Store!Reopen, Stand("synced", TRUE))
    BY ReopenPath
  <2>3. CasePath(Stand("synced", TRUE), Store!Verify, Stand("synced", FALSE))
    BY VerifyPath
  <2>. QED
    BY <1>4, <1>5, <2>1, <2>2, <2>3, CaseJoins
<1>7. PICK p4 : p4 = p3 \o Store!Tx(1) \o Store!Tx(3) \o Store!Verify
  OBVIOUS
<1>8. CasePath(Outset, p4, Stand("synced", FALSE))
  <2>1. CasePath(Stand("synced", FALSE), Store!Tx(1), Stand("synced", FALSE))
    BY FirstTokens, TxPath
  <2>2. CasePath(Stand("synced", FALSE), Store!Tx(3), Stand("synced", FALSE))
    BY FirstTokens, TxPath
  <2>3. CasePath(Stand("synced", FALSE), Store!Verify, Stand("synced", FALSE))
    BY VerifyPath
  <2>. QED
    BY <1>6, <1>7, <2>1, <2>2, <2>3, CaseJoins
<1>9. PICK p5 : p5 = p4 \o Store!Stop
  OBVIOUS
<1>10. CasePath(Outset, p5, Stand("synced", FALSE))
  <2>1. CasePath(Stand("synced", FALSE), Store!Stop, Stand("synced", FALSE))
    BY StopPath
  <2>. QED
    BY <1>8, <1>9, <2>1, CaseJoin
<1>11. Store!Killed("wal") = p5
  BY <1>1, <1>3, <1>5, <1>7, <1>9 DEF Store!Killed, Store!AfterKill, KilledInMerge, KilledInTransaction, OpenedUnsure
<1>. QED
  BY <1>10, <1>11

(* A transaction fails, and what follows it is taken in. *)
LEMMA WalFaultPath ==
  CasePath(Stand("first", FALSE), FailedTransaction, Stand("loose", FALSE))
<1>1. PICK w, x, y, z : /\ w = Store!Step("fail_transaction", 2) /\ x = Store!Step("continue", 3)
                        /\ y = Store!Step("adopt_first", 2) /\ z = Store!Step("adopt", 3)
  OBVIOUS
<1>2. CasePath(Stand("first", FALSE), <<w>>, Stand("halted", FALSE))
  BY <1>1, FailTransactionStep
<1>3. CasePath(Stand("halted", FALSE), <<x>>, Stand("continued", FALSE))
  BY <1>1, ContinueStep
<1>4. CasePath(Stand("continued", FALSE), <<y>>, Stand("adopting", FALSE))
  BY <1>1, AdoptFirstStep
<1>5. CasePath(Stand("adopting", FALSE), <<z>>, Stand("loose", FALSE))
  BY <1>1, AdoptStep
<1>6. CasePath(Stand("first", FALSE), <<w, x, y, z>>, Stand("loose", FALSE))
  BY <1>2, <1>3, <1>4, <1>5, CaseFour
<1>. QED
  BY <1>1, <1>6 DEF FailedTransaction

(* A merge fails, and what follows it is. *)
LEMMA MergeFaultPath ==
  CasePath(Stand("first", FALSE), FailedMerge, Stand("ahead", FALSE))
<1>1. PICK x, y, z : /\ x = Store!Step("fail_merge", Store!NoBundle)
                     /\ y = Store!Step("continue", 2) /\ z = Store!Step("adopt", 2)
  OBVIOUS
<1>2. CasePath(Stand("first", FALSE), <<x>>, Stand("stalled", FALSE))
  BY <1>1, FailMergeStep
<1>3. CasePath(Stand("stalled", FALSE), <<y>>, Stand("merging", FALSE))
  BY <1>1, ContinueMergeStep
<1>4. CasePath(Stand("merging", FALSE), <<z>>, Stand("ahead", FALSE))
  BY <1>1, AdoptMergeStep
<1>5. CasePath(Stand("first", FALSE), <<x, y, z>>, Stand("ahead", FALSE))
  BY <1>2, <1>3, <1>4, CaseThree
<1>. QED
  BY <1>1, <1>5 DEF FailedMerge

(* The case of a transaction that fails. *)
LEMMA WalFailurePath == CasePath(Outset, Store!WalFailure, Stand("synced", FALSE))
<1>1. PICK p1 : p1 = Store!Build \o Store!Tx(1) \o Store!Arm \o FailedTransaction
  OBVIOUS
<1>2. CasePath(Outset, p1, Stand("loose", FALSE))
  <2>1. CasePath(Outset, Store!Build, Stand("first", FALSE))
    BY BuildPath
  <2>2. CasePath(Stand("first", FALSE), Store!Tx(1), Stand("first", FALSE))
    BY FirstPath
  <2>3. CasePath(Stand("first", FALSE), Store!Arm, Stand("first", FALSE))
    BY ArmPath
  <2>4. CasePath(Stand("first", FALSE), FailedTransaction, Stand("loose", FALSE))
    BY WalFaultPath
  <2>. QED
    BY <1>1, <2>1, <2>2, <2>3, <2>4, CaseJoins
<1>3. PICK p2 : p2 = p1 \o Store!Kill \o Store!Hello \o <<Store!Flagged("open", 2)>>
  OBVIOUS
<1>4. CasePath(Outset, p2, Stand("opened", TRUE))
  <2>1. CasePath(Stand("loose", FALSE), Store!Kill, Stand("loose", FALSE))
    BY KillPath
  <2>2. CasePath(Stand("loose", FALSE), Store!Hello, Stand("loose", FALSE))
    BY LooseOpenPath
  <2>3. CasePath(Stand("loose", FALSE), <<Store!Flagged("open", 2)>>, Stand("opened", TRUE))
    BY LooseOpenPath
  <2>. QED
    BY <1>2, <1>3, <2>1, <2>2, <2>3, CaseJoins
<1>5. PICK p3 : p3 = p2 \o Store!Resolve(2) \o Store!Verify \o Store!Tx(4)
  OBVIOUS
<1>6. CasePath(Outset, p3, Stand("synced", FALSE))
  <2>1. CasePath(Stand("opened", TRUE), Store!Resolve(2), Stand("synced", TRUE))
    BY ResolvePath
  <2>2. CasePath(Stand("synced", TRUE), Store!Verify, Stand("synced", FALSE))
    BY VerifyPath
  <2>3. CasePath(Stand("synced", FALSE), Store!Tx(4), Stand("synced", FALSE))
    BY FirstTokens, TxPath
  <2>. QED
    BY <1>4, <1>5, <2>1, <2>2, <2>3, CaseJoins
<1>7. PICK p4 : p4 = p3 \o Store!Merge("merge") \o Store!Reopen \o Store!Verify
  OBVIOUS
<1>8. CasePath(Outset, p4, Stand("synced", FALSE))
  <2>1. CasePath(Stand("synced", FALSE), Store!Merge("merge"), Stand("synced", FALSE))
    BY MergePath
  <2>2. CasePath(Stand("synced", FALSE), Store!Reopen, Stand("synced", TRUE))
    BY ReopenPath
  <2>3. CasePath(Stand("synced", TRUE), Store!Verify, Stand("synced", FALSE))
    BY VerifyPath
  <2>. QED
    BY <1>6, <1>7, <2>1, <2>2, <2>3, CaseJoins
<1>9. PICK p5 : p5 = p4 \o Store!Stop
  OBVIOUS
<1>10. CasePath(Outset, p5, Stand("synced", FALSE))
  <2>1. CasePath(Stand("synced", FALSE), Store!Stop, Stand("synced", FALSE))
    BY StopPath
  <2>. QED
    BY <1>8, <1>9, <2>1, CaseJoin
<1>11. Store!WalFailure = p5
  BY <1>1, <1>3, <1>5, <1>7, <1>9 DEF Store!WalFailure, FailedTransaction
<1>. QED
  BY <1>10, <1>11

(* The case of a merge that fails. *)
LEMMA MergeFailurePath == CasePath(Outset, Store!MergeFailure, Stand("synced", FALSE))
<1>1. PICK p1 : p1 = Store!Build \o Store!Tx(1) \o Store!Arm \o FailedMerge
  OBVIOUS
<1>2. CasePath(Outset, p1, Stand("ahead", FALSE))
  <2>1. CasePath(Outset, Store!Build, Stand("first", FALSE))
    BY BuildPath
  <2>2. CasePath(Stand("first", FALSE), Store!Tx(1), Stand("first", FALSE))
    BY FirstPath
  <2>3. CasePath(Stand("first", FALSE), Store!Arm, Stand("first", FALSE))
    BY ArmPath
  <2>4. CasePath(Stand("first", FALSE), FailedMerge, Stand("ahead", FALSE))
    BY MergeFaultPath
  <2>. QED
    BY <1>1, <2>1, <2>2, <2>3, <2>4, CaseJoins
<1>3. PICK p2 : p2 = p1 \o Store!Kill \o Store!Open \o Store!Verify
  OBVIOUS
<1>4. CasePath(Outset, p2, Stand("synced", FALSE))
  <2>1. CasePath(Stand("ahead", FALSE), Store!Kill, Stand("ahead", FALSE))
    BY KillPath
  <2>2. CasePath(Stand("ahead", FALSE), Store!Open, Stand("synced", TRUE))
    BY OpenPath
  <2>3. CasePath(Stand("synced", TRUE), Store!Verify, Stand("synced", FALSE))
    BY VerifyPath
  <2>. QED
    BY <1>2, <1>3, <2>1, <2>2, <2>3, CaseJoins
<1>5. PICK p3 : p3 = p2 \o Store!Tx(2) \o Store!Tx(3) \o Store!Merge("merge")
  OBVIOUS
<1>6. CasePath(Outset, p3, Stand("synced", FALSE))
  <2>1. CasePath(Stand("synced", FALSE), Store!Tx(2), Stand("synced", FALSE))
    BY FirstTokens, TxPath
  <2>2. CasePath(Stand("synced", FALSE), Store!Tx(3), Stand("synced", FALSE))
    BY FirstTokens, TxPath
  <2>3. CasePath(Stand("synced", FALSE), Store!Merge("merge"), Stand("synced", FALSE))
    BY MergePath
  <2>. QED
    BY <1>4, <1>5, <2>1, <2>2, <2>3, CaseJoins
<1>7. PICK p4 : p4 = p3 \o Store!Reopen \o Store!Verify \o Store!Stop
  OBVIOUS
<1>8. CasePath(Outset, p4, Stand("synced", FALSE))
  <2>1. CasePath(Stand("synced", FALSE), Store!Reopen, Stand("synced", TRUE))
    BY ReopenPath
  <2>2. CasePath(Stand("synced", TRUE), Store!Verify, Stand("synced", FALSE))
    BY VerifyPath
  <2>3. CasePath(Stand("synced", FALSE), Store!Stop, Stand("synced", FALSE))
    BY StopPath
  <2>. QED
    BY <1>6, <1>7, <2>1, <2>2, <2>3, CaseJoins
<1>9. Store!MergeFailure = p4
  BY <1>1, <1>3, <1>5, <1>7 DEF Store!MergeFailure, FailedMerge
<1>. QED
  BY <1>8, <1>9

(* A round of a measurement: a transaction, a query, and maybe a merge. *)
LEMMA RoundPath ==
  ASSUME NEW i \in 1..Inserts, NEW merge \in BOOLEAN
  PROVE  CasePath(Stand("synced", FALSE),
                  Store!Tx(i) \o <<Store!Step("query", Store!NoBundle)>>
                  \o (IF merge THEN Store!Merge("merge") ELSE <<>>), Stand("synced", FALSE))
<1>1. CasePath(Stand("synced", FALSE), Store!Tx(i), Stand("synced", FALSE))
  BY FirstTokens, TxPath
<1>2. CasePath(Stand("synced", FALSE), <<Store!Step("query", Store!NoBundle)>>, Stand("synced", FALSE))
  BY ExportStep
<1>3. CasePath(Stand("synced", FALSE), IF merge THEN Store!Merge("merge") ELSE <<>>,
               Stand("synced", FALSE))
  <2>1. CasePath(Stand("synced", FALSE), <<>>, Stand("synced", FALSE))
    <3>1. PICK M, S : M = Drive /\ S = CaseSteps
      OBVIOUS
    <3>2. Path(M, S, Stand("synced", FALSE), <<>>, Stand("synced", FALSE))
      BY PathNone
    <3>. QED
      BY <3>1, <3>2 DEF CasePath
  <2>2. CasePath(Stand("synced", FALSE), Store!Merge("merge"), Stand("synced", FALSE))
    BY MergePath
  <2>. QED
    BY <2>1, <2>2
<1>4. CasePath(Stand("synced", FALSE), Store!Tx(i) \o <<Store!Step("query", Store!NoBundle)>>,
               Stand("synced", FALSE))
  BY <1>1, <1>2, CaseJoin
<1>. QED
  BY <1>3, <1>4, CaseJoin

(* All of them, one after another. *)
LEMMA RoundsPath ==
  ASSUME NEW ss, NEW positions,
         ss = [i \in 1..Inserts |-> Store!Tx(i) \o <<Store!Step("query", Store!NoBundle)>>
                 \o (IF i \in positions THEN Store!Merge("merge") ELSE <<>>)]
  PROVE  CasePath(Stand("synced", FALSE), Store!FlattenSeq(ss), Stand("synced", FALSE))
<1>1. PICK M, S, a : M = Drive /\ S = CaseSteps /\ a = Stand("synced", FALSE)
  OBVIOUS
<1>2. Inserts \in Nat
  BY ScoringAssumption DEF Store!MutableAssumption
<1>3. ASSUME NEW i \in 1..Inserts PROVE Path(M, S, a, ss[i], a)
  <2>1. PICK merge \in BOOLEAN : merge <=> i \in positions
    OBVIOUS
  <2>2. ss[i] = Store!Tx(i) \o <<Store!Step("query", Store!NoBundle)>>
                \o (IF merge THEN Store!Merge("merge") ELSE <<>>)
    BY <2>1
  <2>3. CasePath(Stand("synced", FALSE), ss[i], Stand("synced", FALSE))
    BY <2>2, RoundPath
  <2>. QED
    BY <1>1, <2>3 DEF CasePath
<1>4. \A i \in 1..Inserts : ss[i] \in Seq(S)
  BY <1>3 DEF Path
<1>5. ss \in Seq(Seq(S)) /\ Len(ss) = Inserts
  <2>1. PICK U : U = Seq(S)
    OBVIOUS
  <2>2. ss \in [1..Inserts -> U]
    BY <1>4, <2>1
  <2>. QED
    BY <1>2, <2>1, <2>2
<1>6. Path(M, S, a, Codec!FlattenSeq(ss), a)
  BY <1>3, <1>5, PathRounds
<1>7. Store!FlattenSeq(ss) = Codec!FlattenSeq(ss)
  BY DEF Store!FlattenSeq, Codec!FlattenSeq
<1>. QED
  BY <1>1, <1>6, <1>7 DEF CasePath

(* A measurement. *)
LEMMA MeasurementPath == CasePath(Outset, Store!Measurement, Stand("synced", FALSE))
<1>1. PICK positions, ss, p1, p2, p3, p4, p5 :
         /\ positions = {(i * Inserts + Merges - 1) \div Merges : i \in 1..Merges}
         /\ ss = [i \in 1..Inserts |-> Store!Tx(i) \o <<Store!Step("query", Store!NoBundle)>>
                     \o (IF i \in positions THEN Store!Merge("merge") ELSE <<>>)]
         /\ p1 = Store!Build
         /\ p2 = p1 \o Store!FlattenSeq(ss)
         /\ p3 = p2 \o <<Store!Step("export", Store!NoBundle), Store!Step("stats", Store!NoBundle)>>
         /\ p4 = p3 \o Store!Reopen
         /\ p5 = p4 \o <<Store!Step("query", Store!NoBundle), Store!Step("export", Store!NoBundle)>>
  OBVIOUS
<1>2. CasePath(Outset, p1, Stand("synced", FALSE))
  BY <1>1, BuildPath
<1>3. CasePath(Outset, p2, Stand("synced", FALSE))
  <2>1. CasePath(Stand("synced", FALSE), Store!FlattenSeq(ss), Stand("synced", FALSE))
    BY <1>1, RoundsPath
  <2>. QED
    BY <1>1, <1>2, <2>1, CaseJoin
<1>4. CasePath(Outset, p3, Stand("synced", FALSE))
  <2>1. CasePath(Stand("synced", FALSE), <<Store!Step("export", Store!NoBundle)>>, Stand("synced", FALSE))
    BY ExportStep
  <2>2. CasePath(Stand("synced", FALSE), <<Store!Step("stats", Store!NoBundle)>>, Stand("synced", FALSE))
    BY SettleStep
  <2>3. CasePath(Stand("synced", FALSE), <<Store!Step("export", Store!NoBundle), Store!Step("stats", Store!NoBundle)>>, Stand("synced", FALSE))
    BY <2>1, <2>2, CaseTwo
  <2>. QED
    BY <1>1, <1>3, <2>3, CaseJoin
<1>5. CasePath(Outset, p4, Stand("synced", TRUE))
  <2>1. CasePath(Stand("synced", FALSE), Store!Reopen, Stand("synced", TRUE))
    BY ReopenPath
  <2>. QED
    BY <1>1, <1>4, <2>1, CaseJoin
<1>6. CasePath(Outset, p5, Stand("synced", FALSE))
  <2>1. CasePath(Stand("synced", TRUE), <<Store!Step("query", Store!NoBundle)>>, Stand("synced", FALSE))
    BY ExportStep
  <2>2. CasePath(Stand("synced", FALSE), <<Store!Step("export", Store!NoBundle)>>, Stand("synced", FALSE))
    BY ExportStep
  <2>3. CasePath(Stand("synced", TRUE), <<Store!Step("query", Store!NoBundle), Store!Step("export", Store!NoBundle)>>, Stand("synced", FALSE))
    BY <2>1, <2>2, CaseTwo
  <2>4. p5 = p4 \o <<Store!Step("query", Store!NoBundle), Store!Step("export", Store!NoBundle)>>
    BY <1>1
  <2>. QED
    BY Zenon, <1>5, <2>3, <2>4, CaseJoin
<1>7. CasePath(Outset, p5 \o Store!Stop, Stand("synced", FALSE))
  <2>1. CasePath(Stand("synced", FALSE), Store!Stop, Stand("synced", FALSE))
    BY StopPath
  <2>. QED
    BY <1>6, <2>1, CaseJoin
<1>8. Store!Measurement = p5 \o Store!Stop
  BY <1>1 DEF Store!Measurement
<1>. QED
  BY <1>7, <1>8

-----------------------------------------------------------------------------
(* The names of the cases. *)
Names == {"basic", "merge_reopen_insert", "measurement", "kill_idle",
          "kill_merge_before_manifest", "kill_merge_after_manifest",
          "kill_wal_short_write", "kill_wal_after_fsync", "io_wal_short_write", "io_wal_fsync",
          "io_manifest_rename", "io_merge_snapshot_fsync", "io_directory_fsync"}

(* Every case leads from a store not yet built to one with nothing due. *)
LEMMA CasesDriven ==
  ASSUME NEW c \in Names
  PROVE  CasePath(Outset, Store!Steps(c), Stand("synced", FALSE))
<1>1. c = "basic" => Store!Steps(c) = Store!Basic
  BY DEF Store!Steps
<1>2. c = "merge_reopen_insert" => Store!Steps(c) = Store!MergeReopenInsert
  BY DEF Store!Steps
<1>3. c = "measurement" => Store!Steps(c) = Store!Measurement
  BY DEF Store!Steps
<1>4. c = "kill_idle" => Store!Steps(c) = Store!Killed("idle")
  BY DEF Store!Steps
<1>5. c \in {"kill_merge_before_manifest", "kill_merge_after_manifest"}
        => Store!Steps(c) = Store!Killed("merge")
  BY DEF Store!Steps
<1>6. c \in {"kill_wal_short_write", "kill_wal_after_fsync"} => Store!Steps(c) = Store!Killed("wal")
  BY DEF Store!Steps
<1>7. c \in {"io_wal_short_write", "io_wal_fsync"} => Store!Steps(c) = Store!WalFailure
  BY DEF Store!Steps
<1>8. c \in {"io_manifest_rename", "io_merge_snapshot_fsync", "io_directory_fsync"}
        => Store!Steps(c) = Store!MergeFailure
  BY DEF Store!Steps
<1>. QED
  BY <1>1, <1>2, <1>3, <1>4, <1>5, <1>6, <1>7, <1>8, BasicPath, MergeReopenInsertPath,
     MeasurementPath, KilledIdlePath, KilledMergePath, KilledTransactionPath, WalFailurePath,
     MergeFailurePath DEF Names

(* What is joined is as long as both. *)
LEMMA JoinLength ==
  ASSUME NEW S, NEW s \in Seq(S), NEW t \in Seq(S)
  PROVE  s \o t \in Seq(S) /\ Len(s \o t) = Len(s) + Len(t)
OBVIOUS

(* What is run are these. *)
LEMMA CasesNamed == Store!Cases \in Seq(Names) /\ Len(Store!Cases) \in Nat \ {0}
<1>1. Metrics \in Nat
  BY ScoringAssumption DEF Store!MutableAssumption
<1>2. Store!SCENARIOS \in Seq(Names) /\ Len(Store!SCENARIOS) = 12
  BY DEF Store!SCENARIOS, Names
<1>3. \A b \in BOOLEAN : (IF b THEN Store!Diagnosed ELSE <<>>) \in Seq(Names)
  <2>1. Store!Diagnosed \in Seq(Names)
    BY DEF Store!Diagnosed, Names
  <2>2. <<>> \in Seq(Names)
    OBVIOUS
  <2>. QED
    BY <2>1, <2>2
<1>4. [i \in 1..Metrics |-> "measurement"] \in Seq(Names)
  BY <1>1 DEF Names
<1>5. <<"basic">> \in Seq(Names)
  BY DEF Names
<1>6. PICK M, x, y, z : /\ M = Names /\ x = Store!SCENARIOS
                        /\ y = (IF native THEN Store!Diagnosed ELSE <<>>)
                        /\ z = [i \in 1..Metrics |-> "measurement"]
  OBVIOUS
<1>7. x \in Seq(M) /\ y \in Seq(M) /\ z \in Seq(M) /\ Len(x) = 12
  BY <1>2, <1>3, <1>4, <1>6
<1>8. (x \o y) \o z \in Seq(M) /\ Len((x \o y) \o z) >= 12
  <2>1. PICK u : u = x \o y
    OBVIOUS
  <2>2. Len(y) \in Nat /\ Len(z) \in Nat /\ Len(x) \in Nat
    BY <1>7
  <2>3. u \in Seq(M) /\ Len(u) = Len(x) + Len(y)
    BY <1>7, <2>1, JoinLength
  <2>4. u \o z \in Seq(M) /\ Len(u \o z) = Len(u) + Len(z)
    BY <1>7, <2>3, JoinLength
  <2>. QED
    BY <1>7, <2>1, <2>2, <2>3, <2>4
<1>9. Store!Cases = IF depth = "quick" THEN <<"basic">> ELSE (x \o y) \o z
  BY <1>6 DEF Store!Cases
<1>10. <<"basic">> \in Seq(M) /\ Len(<<"basic">>) = 1
  BY <1>5, <1>6
<1>11. CASE depth = "quick"
  BY <1>6, <1>9, <1>10, <1>11
<1>12. CASE depth # "quick"
  <2>1. PICK w : w = (x \o y) \o z
    OBVIOUS
  <2>2. w \in Seq(M) /\ Len(w) >= 12
    BY <1>8, <2>1
  <2>3. Len(w) \in Nat \ {0}
    BY <2>2
  <2>4. Store!Cases = w
    BY <1>9, <1>12, <2>1
  <2>. QED
    BY <1>6, <2>2, <2>3, <2>4
<1>. QED
  BY <1>11, <1>12

-----------------------------------------------------------------------------
(* The store: what a step may be, what the store may do, what is asked of a reply. *)

(* What a step may be is settled by its operation. *)
LEMMA DrivesOp ==
  ASSUME NEW l, NEW m, NEW s, Drives(l, s, m)
  PROVE  /\ s.op \in {"hello", "fault"} => Passes(l, s, m)
         /\ s.op = "build" => Builds(l, s, m)
         /\ s.op = "transaction" => Transacts(l, s, m)
         /\ s.op \in {"merge", "checkpoint", "reject", "stats", "close"} => Settles(l, s, m)
         /\ s.op \in {"export", "query"} => Exports(l, s, m)
         /\ s.op = "open" => Opens(l, s, m)
         /\ s.op \in {"kill", "kill_merge", "kill_transaction"} => Kills(l, s, m)
         /\ s.op \in {"fail_transaction", "fail_merge"} => Fails(l, s, m)
         /\ s.op = "continue" => Continues(l, s, m)
         /\ s.op \in {"adopt_first", "adopt"} => Adopts(l, s, m)
BY DEF Drives, Passes, Builds, Transacts, Settles, Exports, Opens, Kills, Fails, Continues, Adopts

(* The first place of what comes last, or last but one. *)
LEMMA PlaceLast ==
  ASSUME NEW S, NEW c \in Seq(S), NEW t \in S, ~Has(c, t)
  PROVE  /\ Store!Place(Append(c, t), t) = Len(c) + 1
         /\ \A u \in S \ {t} : Store!Place(Append(Append(c, t), u), t) = Len(c) + 1
<1>1. PICK k \in Nat : k = Len(c)
  OBVIOUS
<1>2. PICK d : d = Append(c, t)
  OBVIOUS
<1>3. d \in Seq(S) /\ Len(d) = k + 1 /\ d[k + 1] = t /\ \A i \in 1..k : d[i] = c[i]
  BY <1>1, <1>2
<1>4. \A i \in 1..(k + 1) : d[i] = t <=> i = k + 1
  <2>1. \A i \in 1..k : d[i] # t
    BY <1>1, <1>3 DEF Has
  <2>. QED
    BY <1>3, <2>1
<1>5. k + 1 \in 1..(k + 1) /\ k + 1 \in 1..(k + 2)
  OBVIOUS
<1>6. Store!Place(d, t) = k + 1
  <2>1. Store!Place(d, t) = CHOOSE i \in 1..(k + 1) : d[i] = t
    BY <1>3 DEF Store!Place
  <2>. QED
    BY <1>4, <1>5, <2>1
<1>7. ASSUME NEW u \in S \ {t} PROVE Store!Place(Append(d, u), t) = k + 1
  <2>1. PICK e : e = Append(d, u)
    OBVIOUS
  <2>2. e \in Seq(S) /\ Len(e) = k + 2 /\ e[k + 2] = u /\ \A i \in 1..(k + 1) : e[i] = d[i]
    BY <1>1, <1>3, <2>1
  <2>3. \A i \in 1..(k + 2) : e[i] = t <=> i = k + 1
    <3>1. \A i \in 1..(k + 1) : e[i] = t <=> i = k + 1
      BY <1>4, <2>2
    <3>. QED
      BY <1>5, <2>2, <3>1
  <2>4. Store!Place(e, t) = CHOOSE i \in 1..(k + 2) : e[i] = t
    BY <2>2 DEF Store!Place
  <2>. QED
    BY <1>5, <2>1, <2>3, <2>4
<1>. QED
  BY <1>1, <1>2, <1>6, <1>7

(* What a sequence one longer has. *)
LEMMA HasAppend ==
  ASSUME NEW S, NEW c \in Seq(S), NEW t \in S
  PROVE  /\ Append(c, t) \in Seq(S) /\ Len(Append(c, t)) = Len(c) + 1
         /\ \A u : Has(Append(c, t), u) <=> (Has(c, u) \/ u = t)
<1>1. PICK k \in Nat : k = Len(c)
  OBVIOUS
<1>2. PICK d : d = Append(c, t)
  OBVIOUS
<1>3. d \in Seq(S) /\ Len(d) = k + 1 /\ d[k + 1] = t /\ \A i \in 1..k : d[i] = c[i]
  BY <1>1, <1>2
<1>4. ASSUME NEW u PROVE Has(d, u) <=> (Has(c, u) \/ u = t)
  <2>1. ASSUME NEW i \in 1..(k + 1), d[i] = u PROVE Has(c, u) \/ u = t
    <3>1. i = k + 1 \/ i \in 1..k
      OBVIOUS
    <3>. QED
      BY <1>1, <1>3, <2>1, <3>1 DEF Has
  <2>2. ASSUME NEW i \in 1..k, c[i] = u PROVE Has(d, u)
    <3>1. i \in 1..(k + 1) /\ d[i] = u
      BY <1>3, <2>2
    <3>. QED
      BY <1>3, <3>1 DEF Has
  <2>3. u = t => Has(d, u)
    <3>1. k + 1 \in 1..(k + 1)
      OBVIOUS
    <3>. QED
      BY <1>3, <3>1 DEF Has
  <2>. QED
    BY <1>1, <1>3, <2>1, <2>2, <2>3 DEF Has
<1>. QED
  BY <1>1, <1>2, <1>3, <1>4

(* Known is having, as is Store!Has. *)
LEMMA KnownHas ==
  /\ \A o, t : Known(o, t) <=> Has(o.accepted, t)
  /\ \A c, t : Store!Has(c, t) <=> Has(c, t)
  /\ \A t : Store!Acknowledged(t) <=> Has(oracle.accepted, t)
BY DEF Known, Has, Store!Has, Store!Acknowledged

(* The fields of what the store says. *)
LEMMA SaysFields ==
  ASSUME NEW st, NEW t, NEW r, r = Store!Says(st, t, FALSE)
  PROVE  /\ r.ok = TRUE /\ r.head = Len(st.content) /\ r.gen = st.gen /\ r.ckpt = st.ckpt
         /\ r.replayed = FALSE /\ r.content = st.content
         /\ t \in Store!Tokens /\ Has(st.content, t) =>
              r.txid = Store!Place(st.content, t)
<1>1. Store!Has(st.content, t) <=> Has(st.content, t)
  BY KnownHas
<1>. QED
  BY <1>1 DEF Store!Says

(* And of what it says again. *)
LEMMA ReplaysFields ==
  ASSUME NEW st, NEW t, NEW r, r = Store!Says(st, t, TRUE)
  PROVE  /\ r.ok = TRUE /\ r.head = Len(st.content) /\ r.gen = st.gen /\ r.ckpt = st.ckpt
         /\ r.replayed = TRUE /\ r.content = st.content
         /\ t \in Store!Tokens /\ Has(st.content, t) =>
              r.txid = Store!Place(st.content, t)
<1>1. Store!Has(st.content, t) <=> Has(st.content, t)
  BY KnownHas
<1>. QED
  BY <1>1 DEF Store!Says

(* A record of four fields, some of them changed. *)
LEMMA StoreExcept ==
  ASSUME NEW st \in Stores, NEW c, NEW g, NEW k
  PROVE  /\ [st EXCEPT !.content = c] = [content |-> c, gen |-> st.gen, ckpt |-> st.ckpt,
                                        mode |-> st.mode]
         /\ [st EXCEPT !.gen = g, !.ckpt = k] = [content |-> st.content, gen |-> g, ckpt |-> k,
                                                mode |-> st.mode]
         /\ [st EXCEPT !.content = c, !.ckpt = k] = [content |-> c, gen |-> st.gen, ckpt |-> k,
                                                    mode |-> st.mode]
<1>1. st \in [content : Seq(Int), gen : Int, ckpt : Int, mode : {"down", "up", "recovery"}]
  BY DEF Stores
<1>2. [st EXCEPT !.content = c] = [content |-> c, gen |-> st.gen, ckpt |-> st.ckpt,
                                   mode |-> st.mode]
  BY <1>1
<1>3. [st EXCEPT !.gen = g, !.ckpt = k] = [content |-> st.content, gen |-> g, ckpt |-> k,
                                           mode |-> st.mode]
  <2>1. PICK u : u = [st EXCEPT !.gen = g]
    OBVIOUS
  <2>2. u = [content |-> st.content, gen |-> g, ckpt |-> st.ckpt, mode |-> st.mode]
    BY <1>1, <2>1
  <2>3. [u EXCEPT !.ckpt = k] = [content |-> st.content, gen |-> g, ckpt |-> k, mode |-> st.mode]
    BY <2>2
  <2>4. [st EXCEPT !.gen = g, !.ckpt = k] = [u EXCEPT !.ckpt = k]
    BY <2>1
  <2>. QED
    BY <2>3, <2>4
<1>4. [st EXCEPT !.content = c, !.ckpt = k] = [content |-> c, gen |-> st.gen, ckpt |-> k,
                                               mode |-> st.mode]
  <2>1. PICK u : u = [st EXCEPT !.content = c]
    OBVIOUS
  <2>2. u = [content |-> c, gen |-> st.gen, ckpt |-> st.ckpt, mode |-> st.mode]
    BY <1>1, <2>1
  <2>3. [u EXCEPT !.ckpt = k] = [content |-> c, gen |-> st.gen, ckpt |-> k, mode |-> st.mode]
    BY <2>2
  <2>4. [st EXCEPT !.content = c, !.ckpt = k] = [u EXCEPT !.ckpt = k]
    BY <2>1
  <2>. QED
    BY <2>3, <2>4
<1>. QED
  BY <1>2, <1>3, <1>4

(* What the store's steps leave of its state. *)
LEMMA StoreFields ==
  ASSUME NEW st \in Stores, NEW t \in Int
  PROVE  /\ Store!With(st, t) \in Stores
         /\ Store!With(st, t).content = Append(st.content, t) /\ Store!With(st, t).gen = st.gen
         /\ Store!With(st, t).ckpt = st.ckpt /\ Store!With(st, t).mode = st.mode
         /\ Store!Merged(st) \in Stores
         /\ Store!Merged(st).content = st.content /\ Store!Merged(st).gen = st.gen + 1
         /\ Store!Merged(st).ckpt = Len(st.content) /\ Store!Merged(st).mode = st.mode
<1>1. st.content \in Seq(Int) /\ st.gen \in Int /\ st.ckpt \in Int
        /\ st.mode \in {"down", "up", "recovery"}
  BY DEF Stores
<1>2. Append(st.content, t) \in Seq(Int) /\ Len(st.content) \in Int
  BY <1>1
<1>3. Store!With(st, t) = [content |-> Append(st.content, t), gen |-> st.gen,
                           ckpt |-> st.ckpt, mode |-> st.mode]
  <2>1. Store!With(st, t) = [st EXCEPT !.content = Append(st.content, t)]
    BY DEF Store!With
  <2>. QED
    BY <2>1, StoreExcept
<1>4. Store!Merged(st) = [content |-> st.content, gen |-> st.gen + 1,
                          ckpt |-> Len(st.content), mode |-> st.mode]
  <2>1. Store!Merged(st) = [st EXCEPT !.gen = st.gen + 1, !.ckpt = Len(st.content)]
    BY DEF Store!Merged
  <2>. QED
    BY <2>1, StoreExcept
<1>. QED
  BY <1>1, <1>2, <1>3, <1>4 DEF Stores

(* Only the mode is set. *)
Moded(st, md) == [st EXCEPT !.mode = md]

(* The other fields stay. *)
LEMMA ModeFields ==
  ASSUME NEW st \in Stores, NEW md \in {"down", "up", "recovery"}
  PROVE  /\ Moded(st, md) = [content |-> st.content, gen |-> st.gen, ckpt |-> st.ckpt, mode |-> md]
         /\ Moded(st, md) \in Stores /\ Moded(st, md).content = st.content
         /\ Moded(st, md).gen = st.gen /\ Moded(st, md).ckpt = st.ckpt /\ Moded(st, md).mode = md
<1>1. Moded(st, md) = [content |-> st.content, gen |-> st.gen, ckpt |-> st.ckpt, mode |-> md]
  BY DEF Stores, Moded
<1>. QED
  BY <1>1 DEF Stores

(* A bundle less. *)
LEMMA ShorterFields ==
  ASSUME NEW st \in Stores, Len(st.content) # 0
  PROVE  /\ Store!Shorter(st) \in Stores
         /\ Store!Shorter(st).content = SubSeq(st.content, 1, Len(st.content) - 1)
         /\ Len(Store!Shorter(st).content) = Len(st.content) - 1
         /\ Store!Shorter(st).gen = st.gen
         /\ st.ckpt < Len(st.content) => Store!Shorter(st).ckpt = st.ckpt
         /\ Store!Shorter(st).mode = st.mode
<1>1. st.content \in Seq(Int) /\ st.gen \in Int /\ st.ckpt \in Int
        /\ st.mode \in {"down", "up", "recovery"}
  BY DEF Stores
<1>2. PICK k \in Nat : k = Len(st.content)
  BY <1>1
<1>3. SubSeq(st.content, 1, k - 1) \in Seq(Int) /\ Len(SubSeq(st.content, 1, k - 1)) = k - 1
  BY <1>1, <1>2
<1>4. Store!Shorter(st) = [content |-> SubSeq(st.content, 1, k - 1), gen |-> st.gen,
                           ckpt |-> IF st.ckpt < k THEN st.ckpt ELSE k - 1, mode |-> st.mode]
  <2>1. Store!Shorter(st) = [st EXCEPT !.content = SubSeq(st.content, 1, k - 1),
                                       !.ckpt = IF st.ckpt < k THEN st.ckpt ELSE k - 1]
    BY <1>2 DEF Store!Shorter
  <2>. QED
    BY <2>1, StoreExcept
<1>5. (IF st.ckpt < k THEN st.ckpt ELSE k - 1) \in Int
  BY <1>1, <1>2
<1>. QED
  BY <1>1, <1>2, <1>3, <1>4, <1>5 DEF Stores

-----------------------------------------------------------------------------
(* What the store may do is settled by the operation asked for. *)
LEMMA ActForms ==
  ASSUME NEW s, Store!Now = s, NEW a \in Store!Acts
  PROVE  /\ s.op = "build" => a = Store!Done([Store!NewStore EXCEPT !.mode = "up"], Store!NoBundle)
         /\ s.op = "open" => a \in Store!Openings
         /\ s.op \in {"transaction", "continue", "adopt_first"} => a \in Store!Inserting(s.tok)
         /\ s.op \in {"merge", "checkpoint"} => a \in Store!Merging
         /\ s.op = "reject" => a \in Store!Rejecting
         /\ s.op = "close" => a = Store!Done(Moded(store, "down"), Store!NoBundle)
         /\ s.op \in {"hello", "fault", "export", "stats", "query"} => a = Store!Done(store, Store!NoBundle)
         /\ s.op = "fail_transaction" => a \in Store!Failing(Store!With(store, s.tok))
         /\ s.op = "fail_merge" => a \in Store!Failing(Store!Merged(store))
         /\ s.op = "kill_transaction" =>
              /\ a.wrong = FALSE /\ a.reply = Store!NoReply
              /\ a.store \in {store, Store!With(store, s.tok)}
         /\ s.op = "kill_merge" => /\ a.wrong = FALSE /\ a.reply = Store!NoReply
                                   /\ a.store \in {store, Store!Merged(store)}
<1>1. s.op = "build" => a = Store!Done([Store!NewStore EXCEPT !.mode = "up"], Store!NoBundle)
  BY DEF Store!Acts
<1>2. s.op = "open" => a \in Store!Openings
  BY DEF Store!Acts
<1>3. s.op \in {"transaction", "continue", "adopt_first"} => a \in Store!Inserting(s.tok)
  BY DEF Store!Acts
<1>4. s.op \in {"merge", "checkpoint"} => a \in Store!Merging
  BY DEF Store!Acts
<1>5. s.op = "reject" => a \in Store!Rejecting
  BY DEF Store!Acts
<1>6. s.op = "close" => a = Store!Done(Moded(store, "down"), Store!NoBundle)
  BY DEF Store!Acts, Moded
<1>7. s.op \in {"hello", "fault", "export", "stats", "query"} => a = Store!Done(store, Store!NoBundle)
  BY DEF Store!Acts
<1>8. s.op = "fail_transaction" => a \in Store!Failing(Store!With(store, s.tok))
  BY DEF Store!Acts
<1>9. s.op = "fail_merge" => a \in Store!Failing(Store!Merged(store))
  BY DEF Store!Acts
<1>10. ASSUME s.op = "kill_transaction"
       PROVE  /\ a.wrong = FALSE /\ a.reply = Store!NoReply
              /\ a.store \in {store, Store!With(store, s.tok)}
  <2>1. a \in {Store!Act(st, Store!NoReply, FALSE) : st \in Store!Uncertain(Store!With(store, s.tok))}
    BY <1>10 DEF Store!Acts
  <2>. QED
    BY <2>1 DEF Store!Act, Store!Uncertain
<1>11. ASSUME s.op = "kill_merge"
       PROVE  /\ a.wrong = FALSE /\ a.reply = Store!NoReply
              /\ a.store \in {store, Store!Merged(store)}
  <2>1. a \in {Store!Act(st, Store!NoReply, FALSE) : st \in Store!Uncertain(Store!Merged(store))}
    BY <1>11 DEF Store!Acts
  <2>. QED
    BY <2>1 DEF Store!Act, Store!Uncertain
<1>. QED
  BY <1>1, <1>2, <1>3, <1>4, <1>5, <1>6, <1>7, <1>8, <1>9, <1>10, <1>11

(* What is done is said, and is not wrong unless it is said to be. *)
LEMMA DoneFields ==
  ASSUME NEW st, NEW t, NEW a, a = Store!Done(st, t)
  PROVE  a.store = st /\ a.reply = Store!Says(st, t, FALSE) /\ a.wrong = FALSE
BY DEF Store!Done, Store!Act

(* What is done, and is wrong. *)
Wronged(d) == [d EXCEPT !.wrong = TRUE]

(* Only that it is differs. *)
LEMMA WrongFields ==
  ASSUME NEW st, NEW t, NEW a, a = Wronged(Store!Done(st, t))
  PROVE  a.store = st /\ a.reply = Store!Says(st, t, FALSE) /\ a.wrong = TRUE
<1>1. PICK r : r = Store!Says(st, t, FALSE)
  OBVIOUS
<1>2. PICK d : d = [store |-> st, reply |-> r, wrong |-> FALSE]
  OBVIOUS
<1>3. Store!Done(st, t) = d
  BY <1>1, <1>2 DEF Store!Done, Store!Act
<1>4. PICK v : v = TRUE
  OBVIOUS
<1>5. [d EXCEPT !.wrong = v] = [store |-> st, reply |-> r, wrong |-> v]
  BY <1>2
<1>6. a = [d EXCEPT !.wrong = v]
  BY <1>3, <1>4 DEF Wronged
<1>. QED
  BY <1>1, <1>4, <1>5, <1>6

(* What is done, and is wrong if what the store kept last was acknowledged. *)
Lost(d) == [d EXCEPT !.wrong = Store!Acknowledged(Store!Kept)]

(* Only that it is differs. *)
LEMMA LostFields ==
  ASSUME NEW st, NEW t, NEW a, a = Lost(Store!Done(st, t))
  PROVE  a.store = st /\ a.reply = Store!Says(st, t, FALSE) /\ (a.wrong <=> Store!Acknowledged(Store!Kept))
<1>1. PICK r : r = Store!Says(st, t, FALSE)
  OBVIOUS
<1>2. PICK d : d = [store |-> st, reply |-> r, wrong |-> FALSE]
  OBVIOUS
<1>3. Store!Done(st, t) = d
  BY <1>1, <1>2 DEF Store!Done, Store!Act
<1>4. [d EXCEPT !.wrong = Store!Acknowledged(Store!Kept)] = [store |-> st, reply |-> r, wrong |-> Store!Acknowledged(Store!Kept)]
  BY <1>2
<1>5. a = [d EXCEPT !.wrong = Store!Acknowledged(Store!Kept)]
  BY <1>3 DEF Lost
<1>. QED
  BY <1>1, <1>4, <1>5

(* No reply is not an affirmative one. *)
LEMMA NoReplyFields == Store!NoReply.ok = FALSE
BY DEF Store!NoReply

(* How a transaction is taken. *)
LEMMA InsertForms ==
  ASSUME NEW t, NEW a \in Store!Inserting(t)
  PROVE  \/ /\ store.mode = "recovery"
            /\ a.store = store /\ a.reply = Store!NoReply /\ a.wrong = FALSE
         \/ /\ store.mode # "recovery" /\ ~Has(store.content, t)
            /\ a.store = Store!With(store, t)
            /\ a.reply = Store!Says(Store!With(store, t), t, FALSE) /\ a.wrong = FALSE
         \/ /\ store.mode # "recovery" /\ Has(store.content, t)
            /\ a.store = store /\ a.reply = Store!Says(store, t, TRUE) /\ a.wrong = FALSE
         \/ /\ flaw = "forgets" /\ Has(store.content, t) /\ Has(oracle.accepted, t)
            /\ a.store = Store!With(store, t) /\ a.reply.replayed = FALSE /\ a.wrong = TRUE
            /\ a.reply = [Store!Says(Store!With(store, t), t, FALSE) EXCEPT !.txid = Len(store.content) + 1]
<1>1. (Store!Has(store.content, t) <=> Has(store.content, t))
        /\ (Store!Acknowledged(t) <=> Has(oracle.accepted, t))
  BY KnownHas
<1>2. CASE store.mode = "recovery"
  <2>1. a = Store!Refusal
    BY <1>2 DEF Store!Inserting
  <2>. QED
    BY <1>2, <2>1 DEF Store!Refusal, Store!Act
<1>3. CASE store.mode # "recovery" /\ ~Has(store.content, t)
  <2>1. a = Store!Done(Store!With(store, t), t)
    BY <1>1, <1>3 DEF Store!Inserting
  <2>. QED
    BY <1>3, <2>1, DoneFields
<1>4. CASE store.mode # "recovery" /\ Has(store.content, t)
  <2>1. a = Store!Act(store, Store!Says(store, t, TRUE), FALSE)
        \/ (/\ flaw = "forgets" /\ Store!Acknowledged(t)
            /\ a = Store!Act(Store!With(store, t), [Store!Says(Store!With(store, t), t, FALSE)
                               EXCEPT !.txid = Len(store.content) + 1], TRUE))
    BY <1>1, <1>4 DEF Store!Inserting
  <2>2. CASE a = Store!Act(store, Store!Says(store, t, TRUE), FALSE)
    BY <1>4, <2>2 DEF Store!Act
  <2>3. ASSUME flaw = "forgets", Store!Acknowledged(t),
               a = Store!Act(Store!With(store, t), [Store!Says(Store!With(store, t), t, FALSE)
                               EXCEPT !.txid = Len(store.content) + 1], TRUE)
        PROVE  /\ flaw = "forgets" /\ Has(store.content, t) /\ Has(oracle.accepted, t)
               /\ a.store = Store!With(store, t) /\ a.reply.replayed = FALSE /\ a.wrong = TRUE
               /\ a.reply = [Store!Says(Store!With(store, t), t, FALSE) EXCEPT !.txid = Len(store.content) + 1]
    <3>1. PICK r, k : r = Store!Says(Store!With(store, t), t, FALSE) /\ k = Len(store.content) + 1
      OBVIOUS
    <3>2. [r EXCEPT !.txid = k].replayed = FALSE
      BY <3>1 DEF Store!Says
    <3>3. a.store = Store!With(store, t) /\ a.reply = [r EXCEPT !.txid = k] /\ a.wrong = TRUE
      BY <2>3, <3>1 DEF Store!Act
    <3>. QED
      BY <1>1, <1>4, <2>3, <3>1, <3>2, <3>3
  <2>. QED
    BY <2>1, <2>2, <2>3
<1>. QED
  BY <1>2, <1>3, <1>4

(* How the store is opened. *)
LEMMA OpenForms ==
  ASSUME NEW a \in Store!Openings, store \in Stores
  PROVE  \E up \in Stores :
           /\ up = [content |-> store.content, gen |-> store.gen, ckpt |-> store.ckpt, mode |-> "up"]
           /\ a.reply = Store!Says(a.store, Store!NoBundle, FALSE)
           /\ \/ a.store = up /\ a.wrong = FALSE
              \/ /\ flaw = "loses" /\ Len(store.content) # 0 /\ a.store = Store!Shorter(up)
                 /\ (a.wrong <=> Has(oracle.accepted, store.content[Len(store.content)]))
              \/ /\ flaw = "swaps" /\ Len(store.content) # 0
                 /\ a.store = Store!With(Store!Shorter(up), Store!Foreign) /\ a.wrong = TRUE
              \/ /\ flaw = "regresses" /\ oracle.gen = store.gen /\ a.wrong = TRUE
                 /\ a.store.gen = store.gen - 1
                 /\ a.store \in Stores /\ a.store.content = store.content
<1>1. PICK up : up = Moded(store, "up")
  OBVIOUS
<1>2. up = [content |-> store.content, gen |-> store.gen, ckpt |-> store.ckpt, mode |-> "up"]
        /\ up \in Stores
  BY <1>1, ModeFields
<1>3. Store!Opened = up
  BY <1>1 DEF Store!Opened, Moded
<1>4. Store!Kept # Store!NoBundle =>
        Len(store.content) # 0 /\ Store!Kept = store.content[Len(store.content)]
  BY DEF Store!Kept
<1>5. Store!Acknowledged(Store!Kept) <=> Has(oracle.accepted, Store!Kept)
  BY KnownHas
<1>6. PICK sh : sh = Store!Shorter(up)
  OBVIOUS
<1>7. \/ a = Store!Done(up, Store!NoBundle)
      \/ flaw = "loses" /\ Store!Kept # Store!NoBundle
           /\ a = [Store!Done(sh, Store!NoBundle) EXCEPT !.wrong = Store!Acknowledged(Store!Kept)]
      \/ flaw = "swaps" /\ Store!Kept # Store!NoBundle
           /\ a = [Store!Done(Store!With(sh, Store!Foreign), Store!NoBundle) EXCEPT !.wrong = TRUE]
      \/ flaw = "regresses" /\ oracle.gen = store.gen
           /\ a = [Store!Done([up EXCEPT !.gen = @ - 1], Store!NoBundle) EXCEPT !.wrong = TRUE]
  BY <1>3, <1>6 DEF Store!Openings
<1>8. CASE a = Store!Done(up, Store!NoBundle)
  <2>1. a.store = up /\ a.reply = Store!Says(up, Store!NoBundle, FALSE) /\ a.wrong = FALSE
    BY <1>8, DoneFields
  <2>. QED
    BY <1>2, <2>1
<1>9. CASE flaw = "loses" /\ Store!Kept # Store!NoBundle
             /\ a = [Store!Done(sh, Store!NoBundle) EXCEPT !.wrong = Store!Acknowledged(Store!Kept)]
  <2>1. /\ a.store = sh /\ (a.wrong <=> Store!Acknowledged(Store!Kept))
        /\ a.reply = Store!Says(sh, Store!NoBundle, FALSE)
    <3>1. a = Lost(Store!Done(sh, Store!NoBundle))
      BY <1>9 DEF Lost
    <3>. QED
      BY <3>1, LostFields
  <2>2. a.wrong = Has(oracle.accepted, store.content[Len(store.content)])
    BY <1>4, <1>9, <2>1 DEF Store!Acknowledged, Store!Has, Has
  <2>. QED
    BY <1>2, <1>4, <1>6, <1>9, <2>1, <2>2
<1>10. CASE flaw = "swaps" /\ Store!Kept # Store!NoBundle
              /\ a = [Store!Done(Store!With(sh, Store!Foreign), Store!NoBundle) EXCEPT !.wrong = TRUE]
  <2>1. /\ a.store = Store!With(sh, Store!Foreign) /\ a.wrong = TRUE
        /\ a.reply = Store!Says(Store!With(sh, Store!Foreign), Store!NoBundle, FALSE)
    <3>1. a = Wronged(Store!Done(Store!With(sh, Store!Foreign), Store!NoBundle))
      BY <1>10 DEF Wronged
    <3>. QED
      BY <3>1, WrongFields
  <2>. QED
    BY <1>2, <1>4, <1>6, <1>10, <2>1
<1>11. CASE flaw = "regresses" /\ oracle.gen = store.gen
              /\ a = [Store!Done([up EXCEPT !.gen = @ - 1], Store!NoBundle) EXCEPT !.wrong = TRUE]
  <2>1. PICK u : u = [up EXCEPT !.gen = @ - 1]
    OBVIOUS
  <2>4. u.gen = store.gen - 1 /\ u \in Stores /\ u.content = store.content
    <3>1. store.content \in Seq(Int) /\ store.gen \in Int /\ store.ckpt \in Int
      BY DEF Stores
    <3>2. PICK g \in Int : g = store.gen - 1
      BY <3>1
    <3>3. u = [content |-> store.content, gen |-> g, ckpt |-> store.ckpt, mode |-> "up"]
      BY <1>2, <2>1, <3>2
    <3>. QED
      BY <3>1, <3>2, <3>3 DEF Stores
  <2>2. a = [Store!Done(u, Store!NoBundle) EXCEPT !.wrong = TRUE]
    BY <1>11, <2>1
  <2>3. a.store = u /\ a.wrong = TRUE /\ a.reply = Store!Says(u, Store!NoBundle, FALSE)
    <3>1. a = Wronged(Store!Done(u, Store!NoBundle))
      BY <2>2 DEF Wronged
    <3>. QED
      BY <3>1, WrongFields
  <2>. QED
    BY <1>2, <1>11, <2>3, <2>4
<1>. QED
  BY <1>7, <1>8, <1>9, <1>10, <1>11

(* How it merges, refuses and fails. *)
LEMMA OtherForms ==
  /\ \A a \in Store!Merging :
       \/ a.store = Store!Merged(store) /\ a.wrong = FALSE
            /\ a.reply = Store!Says(Store!Merged(store), Store!NoBundle, FALSE)
       \/ flaw = "stays" /\ a.store = store /\ a.wrong = TRUE
            /\ a.reply = Store!Says(store, Store!NoBundle, FALSE)
  /\ \A a \in Store!Rejecting :
       \/ a.store = store /\ a.reply = Store!NoReply /\ a.wrong = FALSE
       \/ /\ flaw \in {"accepts", "applies"} /\ a.store = Store!With(store, Store!Foreign) /\ a.wrong = TRUE
          /\ a.reply = Store!NoReply \/ a.reply = Store!Says(store, Store!NoBundle, FALSE)
  /\ \A u : \A a \in Store!Failing(u) :
       /\ a.reply = Store!NoReply /\ a.wrong = FALSE
       /\ \E md \in {"up", "recovery"} :
            a.store = Moded(store, md) \/ a.store = Moded(u, md)
<1>1. ASSUME NEW a \in Store!Merging
      PROVE  \/ a.store = Store!Merged(store) /\ a.wrong = FALSE
                  /\ a.reply = Store!Says(Store!Merged(store), Store!NoBundle, FALSE)
             \/ flaw = "stays" /\ a.store = store /\ a.wrong = TRUE
                  /\ a.reply = Store!Says(store, Store!NoBundle, FALSE)
  <2>1. \/ a = Store!Done(Store!Merged(store), Store!NoBundle)
        \/ flaw = "stays" /\ a = [Store!Done(store, Store!NoBundle) EXCEPT !.wrong = TRUE]
    BY DEF Store!Merging
  <2>2. CASE a = Store!Done(Store!Merged(store), Store!NoBundle)
    <3>1. PICK u : u = Store!Merged(store)
      OBVIOUS
    <3>2. a = Store!Done(u, Store!NoBundle)
      BY <2>2, <3>1
    <3>3. a.store = u /\ a.reply = Store!Says(u, Store!NoBundle, FALSE) /\ a.wrong = FALSE
      BY <3>2, DoneFields
    <3>. QED
      BY <3>1, <3>3
  <2>3. CASE flaw = "stays" /\ a = [Store!Done(store, Store!NoBundle) EXCEPT !.wrong = TRUE]
    <3>1. a = Wronged(Store!Done(store, Store!NoBundle))
      BY <2>3 DEF Wronged
    <3>2. a.store = store /\ a.reply = Store!Says(store, Store!NoBundle, FALSE) /\ a.wrong = TRUE
      BY <3>1, WrongFields
    <3>. QED
      BY <2>3, <3>2
  <2>. QED
    BY <2>1, <2>2, <2>3
<1>2. ASSUME NEW a \in Store!Rejecting
      PROVE  \/ a.store = store /\ a.reply = Store!NoReply /\ a.wrong = FALSE
             \/ /\ flaw \in {"accepts", "applies"} /\ a.store = Store!With(store, Store!Foreign)
                /\ a.wrong = TRUE
                /\ a.reply = Store!NoReply \/ a.reply = Store!Says(store, Store!NoBundle, FALSE)
  <2>1. PICK u, r : u = Store!With(store, Store!Foreign) /\ r = Store!Says(store, Store!NoBundle, FALSE)
    OBVIOUS
  <2>2. \/ a = Store!Act(store, Store!NoReply, FALSE)
        \/ flaw = "accepts" /\ a = Store!Act(u, r, TRUE)
        \/ flaw = "applies" /\ a = Store!Act(u, Store!NoReply, TRUE)
    BY <2>1 DEF Store!Rejecting, Store!Refusal
  <2>3. CASE a = Store!Act(store, Store!NoReply, FALSE)
    BY <2>3 DEF Store!Act
  <2>4. CASE flaw = "accepts" /\ a = Store!Act(u, r, TRUE)
    BY <2>1, <2>4 DEF Store!Act
  <2>5. CASE flaw = "applies" /\ a = Store!Act(u, Store!NoReply, TRUE)
    BY <2>1, <2>5 DEF Store!Act
  <2>. QED
    BY <2>2, <2>3, <2>4, <2>5
<1>3. ASSUME NEW u, NEW a \in Store!Failing(u)
      PROVE  /\ a.reply = Store!NoReply /\ a.wrong = FALSE
             /\ \E md \in {"up", "recovery"} :
                  a.store = Moded(store, md) \/ a.store = Moded(u, md)
  <2>1. PICK st \in Store!Uncertain(u), md \in {"up", "recovery"} :
           a = Store!Act(Moded(st, md), Store!NoReply, FALSE)
    BY DEF Store!Failing, Moded
  <2>2. st = store \/ st = u
    BY DEF Store!Uncertain
  <2>3. a.store = Moded(st, md) /\ a.reply = Store!NoReply /\ a.wrong = FALSE
    BY <2>1 DEF Store!Act
  <2>. QED
    BY <2>2, <2>3
<1>. QED
  BY <1>1, <1>2, <1>3

-----------------------------------------------------------------------------
(* What is asked of a reply, and what is learned from it, by operation. *)
LEMMA SatisfiesOp ==
  ASSUME NEW s, NEW o, NEW st, NEW r
  PROVE  /\ s.op = "build" => (Satisfies(s, o, st, r) <=> r.ok /\ Fits(o, r, Total(o), 0))
         /\ s.op = "open" =>
              (Satisfies(s, o, st, r) <=>
                 r.ok /\ Fits(o, r, Total(o), IF s.flag /\ ~(s.tok # Store!NoBundle /\ Known(o, s.tok))
                                              THEN 1 ELSE 0))
         /\ s.op = "transaction" => (Satisfies(s, o, st, r) <=> r.ok /\ Takes(o, s.tok, r, s.flag, 0))
         /\ s.op \in {"merge", "checkpoint"} =>
              (Satisfies(s, o, st, r) <=> r.ok /\ Fits(o, r, Total(o), 0) /\ r.gen > o.gen
                                          /\ r.ckpt = Total(o))
         /\ s.op = "reject" =>
              (Satisfies(s, o, st, r) <=>
                 /\ ~r.ok /\ st.content = o.accepted
                 /\ Fits(o, Store!Says(st, Store!NoBundle, FALSE), Total(o), 0))
         /\ s.op \in {"export", "query"} => (Satisfies(s, o, st, r) <=> r.ok /\ r.content = o.accepted)
         /\ s.op = "stats" => (Satisfies(s, o, st, r) <=> r.ok /\ Fits(o, r, Total(o), 0))
         /\ s.op \in {"hello", "fault"} => (Satisfies(s, o, st, r) <=> r.ok)
         /\ s.op \in {"fail_transaction", "fail_merge"} => (Satisfies(s, o, st, r) <=> ~r.ok)
         /\ s.op = "adopt_first" => (Satisfies(s, o, st, r) <=> r.ok /\ Takes(o, s.tok, r, TRUE, 1))
         /\ s.op \in {"continue", "close"} => Satisfies(s, o, st, r)
<1>1. s.op = "build" => (Satisfies(s, o, st, r) <=> r.ok /\ Fits(o, r, Total(o), 0))
  BY DEF Satisfies
<1>2. s.op = "open" =>
        (Satisfies(s, o, st, r) <=>
           r.ok /\ Fits(o, r, Total(o), IF s.flag /\ ~(s.tok # Store!NoBundle /\ Known(o, s.tok))
                                        THEN 1 ELSE 0))
  BY DEF Satisfies
<1>3. s.op = "transaction" => (Satisfies(s, o, st, r) <=> r.ok /\ Takes(o, s.tok, r, s.flag, 0))
  BY DEF Satisfies
<1>4. s.op \in {"merge", "checkpoint"} =>
        (Satisfies(s, o, st, r) <=> r.ok /\ Fits(o, r, Total(o), 0) /\ r.gen > o.gen
                                    /\ r.ckpt = Total(o))
  BY DEF Satisfies
<1>5. s.op = "reject" =>
        (Satisfies(s, o, st, r) <=>
           /\ ~r.ok /\ st.content = o.accepted
           /\ Fits(o, Store!Says(st, Store!NoBundle, FALSE), Total(o), 0))
  BY DEF Satisfies
<1>6. s.op \in {"export", "query"} => (Satisfies(s, o, st, r) <=> r.ok /\ r.content = o.accepted)
  BY DEF Satisfies
<1>7. s.op = "stats" => (Satisfies(s, o, st, r) <=> r.ok /\ Fits(o, r, Total(o), 0))
  BY DEF Satisfies
<1>8. s.op \in {"hello", "fault"} => (Satisfies(s, o, st, r) <=> r.ok)
  BY DEF Satisfies
<1>9. s.op \in {"fail_transaction", "fail_merge"} => (Satisfies(s, o, st, r) <=> ~r.ok)
  BY DEF Satisfies
<1>10. s.op = "adopt_first" => (Satisfies(s, o, st, r) <=> r.ok /\ Takes(o, s.tok, r, TRUE, 1))
  BY DEF Satisfies
<1>11. s.op \in {"continue", "close"} => Satisfies(s, o, st, r)
  BY DEF Satisfies
<1>. QED
  BY <1>1, <1>2, <1>3, <1>4, <1>5, <1>6, <1>7, <1>8, <1>9, <1>10, <1>11

(* What is learned from it. *)
LEMMA AfterOp ==
  ASSUME NEW s, NEW o, NEW r
  PROVE  /\ s.op \in {"build", "open", "merge", "checkpoint", "stats"} => After(s, o, r) = Tells(o, r)
         /\ s.op \in {"transaction", "adopt_first"} => After(s, o, r) = Took(o, s.tok, r)
         /\ s.op \notin {"build", "open", "merge", "checkpoint", "stats", "transaction", "adopt_first"}
              => After(s, o, r) = o
BY DEF After

(* Four ways for an answer to be as it should. *)
LEMMA AnswerGood ==
  ASSUME NEW w \in BOOLEAN, ~w, NEW s, ~InKill(s), NEW m, NEW o, NEW st, NEW r, NEW h,
         Satisfies(s, o, st, r),
         Standing(m, After(s, o, r), st, IF s.op = "continue" THEN r ELSE h)
  PROVE  Answered(w, s, m, o, st, r, h)
BY DEF Answered, Sound

(* What was wrong shows. *)
LEMMA AnswerBad ==
  ASSUME NEW w \in BOOLEAN, w, NEW s, ~InKill(s), NEW m, NEW o, NEW st, NEW r, NEW h,
         ~Satisfies(s, o, st, r)
  PROVE  Answered(w, s, m, o, st, r, h)
BY DEF Answered

(* Or it will. *)
LEMMA AnswerSwap ==
  ASSUME NEW w \in BOOLEAN, w, NEW s, NEW m, NEW o, NEW st, NEW r, NEW h,
         flaw = "swaps", m.due, Has(st.content, Store!Foreign)
  PROVE  Answered(w, s, m, o, st, r, h)
<1>1. Swapped(m, st)
  BY DEF Swapped, Has
<1>2. Swapped(m, Down(st))
  BY DEF Swapped, Has, Down
<1>. QED
  BY <1>1, <1>2 DEF Answered, Sound

(* A store that is killed leaves what it had. *)
LEMMA AnswerKilled ==
  ASSUME NEW w \in BOOLEAN, ~w, NEW s, InKill(s), NEW m, NEW o, NEW st, NEW r, NEW h,
         Standing(m, o, Down(st), h)
  PROVE  Answered(w, s, m, o, st, r, h)
BY DEF Answered, Sound

-----------------------------------------------------------------------------
(* The store is about to answer s. *)
Served(s, l, m) ==
  /\ Store!Now = s /\ s \in CaseSteps /\ l \in Stands /\ m \in Stands /\ Drives(l, s, m)
  /\ oracle \in Oracles /\ store \in Stores /\ Sound(wronged, l, oracle, store, held)

(* Its state and the oracle's have the types they should. *)
LEMMA ServedTypes ==
  ASSUME NEW s, NEW l, NEW m, Served(s, l, m)
  PROVE  /\ store.content \in Seq(Int) /\ store.gen \in Int /\ store.ckpt \in Int
         /\ store.mode \in {"down", "up", "recovery"}
         /\ oracle.accepted \in Seq(Store!Tokens) /\ oracle.gen \in Int /\ oracle.ckpt \in Int
         /\ Len(store.content) \in Nat /\ Len(oracle.accepted) \in Nat
         /\ s.tok \in Int /\ Store!Foreign \in Int /\ Store!NoBundle \in Int
         /\ ~Has(oracle.accepted, Store!Foreign)
<1>1. store \in Stores /\ oracle \in Oracles /\ s \in CaseSteps
  BY DEF Served
<1>2. store.content \in Seq(Int) /\ store.gen \in Int /\ store.ckpt \in Int
        /\ store.mode \in {"down", "up", "recovery"}
  BY <1>1 DEF Stores
<1>3. oracle.accepted \in Seq(Store!Tokens) /\ oracle.gen \in Int /\ oracle.ckpt \in Int
  BY <1>1 DEF Oracles
<1>4. Store!NoBundle = -1 /\ Store!Foreign = 0 /\ Store!Tokens \subseteq Nat \ {0}
  BY FirstTokens DEF Store!Foreign
<1>5. s.tok \in Store!Tokens \cup {Store!NoBundle}
  BY <1>1 DEF CaseSteps
<1>6. PICK a, T : a = oracle.accepted /\ T = Store!Tokens
  OBVIOUS
<1>7. a \in Seq(T) /\ T \subseteq Nat \ {0}
  BY <1>3, <1>4, <1>6
<1>8. \A i \in 1..Len(a) : a[i] \in T
  BY <1>7
<1>9. ~Has(a, Store!Foreign)
  BY <1>4, <1>7, <1>8 DEF Has
<1>10. s.tok \in Int
  <2>1. s.tok \in T \/ s.tok = -1
    BY <1>4, <1>5, <1>6
  <2>2. s.tok \in T => s.tok \in Nat
    BY <1>7
  <2>. QED
    BY <2>1, <2>2
<1>11. Len(store.content) \in Nat /\ Len(a) \in Nat
  BY <1>2, <1>7
<1>. QED
  BY <1>2, <1>3, <1>4, <1>6, <1>9, <1>10, <1>11

(* A store that has swapped what it kept goes on to have done so until an   *)
(* export shows it.                                                         *)
LEMMA SwapAnswered ==
  ASSUME NEW s, NEW l, NEW m, Served(s, l, m), wronged, NEW a \in Store!Acts,
         NEW w \in BOOLEAN, w, s.op \notin {"adopt", "kill"}
  PROVE  Answered(w, s, m, oracle, a.store, a.reply, held)
<1>1. /\ flaw = "swaps" /\ l.due /\ Has(store.content, Store!Foreign)
      /\ Store!Now = s /\ s \in CaseSteps /\ Drives(l, s, m) /\ store \in Stores
  BY DEF Served, Sound, Swapped, Has
<1>2. /\ store.content \in Seq(Int) /\ store.mode \in {"down", "up", "recovery"}
      /\ s.tok \in Int /\ Store!Foreign \in Int /\ ~Has(oracle.accepted, Store!Foreign)
  BY ServedTypes
<1>3. s.op # "build"
  BY <1>1, DrivesOp DEF Builds
<1>4. CASE s.op \in {"export", "query"}
  <2>0. a = Store!Done(store, Store!NoBundle)
    BY <1>1, <1>4, ActForms
  <2>1. PICK r : r = Store!Says(store, Store!NoBundle, FALSE)
    OBVIOUS
  <2>2. a.reply.content = store.content
    <3>1. a.reply = r
      BY <2>0, <2>1, DoneFields
    <3>2. r.content = store.content
      BY <2>1, SaysFields
    <3>. QED
      BY <3>1, <3>2
  <2>3. a.reply.content # oracle.accepted
    BY <1>1, <1>2, <2>2
  <2>4. ~Satisfies(s, oracle, a.store, a.reply)
    BY <1>4, <2>3, SatisfiesOp
  <2>5. ~InKill(s)
    BY <1>4 DEF InKill
  <2>. QED
    BY <2>4, <2>5, AnswerBad
<1>5. CASE s.op \notin {"export", "query"}
  <2>1. m.due
    <3>1. s.op = "open" \/ m.due = l.due
      BY <1>1, <1>3, <1>5
         DEF Drives, Builds, Passes, Transacts, Settles, Exports, Opens, Kills, Fails, Continues, Adopts
    <3>2. s.op = "open" => m.due
      BY <1>1, DrivesOp DEF Opens
    <3>. QED
      BY <1>1, <3>1, <3>2
  <2>2. Has(a.store.content, Store!Foreign)
    <3>1. CASE s.op \in {"hello", "fault", "stats"}
      <4>1. a = Store!Done(store, Store!NoBundle)
        BY <1>1, <3>1, ActForms
      <4>2. a.store = store
        BY <4>1, DoneFields
      <4>. QED
        BY <1>1, <4>2
    <3>2. CASE s.op = "close"
      <4>1. a = Store!Done(Moded(store, "down"), Store!NoBundle)
        BY <1>1, <3>2, ActForms
      <4>2. a.store = Moded(store, "down")
        BY <4>1, DoneFields
      <4>3. a.store.content = store.content
        BY <1>1, <4>2, ModeFields
      <4>. QED
        BY <1>1, <4>3
    <3>3. CASE s.op = "open"
      <4>1. a \in Store!Openings
        BY <1>1, <3>3, ActForms
      <4>2. PICK up \in Stores :
              /\ up = [content |-> store.content, gen |-> store.gen, ckpt |-> store.ckpt, mode |-> "up"]
              /\ \/ a.store = up
                 \/ Len(store.content) # 0 /\ a.store = Store!With(Store!Shorter(up), Store!Foreign)
        BY <1>1, <4>1, OpenForms
      <4>3. CASE a.store = up
        BY <1>1, <4>2, <4>3
      <4>4. CASE Len(store.content) # 0 /\ a.store = Store!With(Store!Shorter(up), Store!Foreign)
        <5>1. Store!Shorter(up) \in Stores
          BY <4>2, <4>4, ShorterFields
        <5>2. PICK sh \in Stores : sh = Store!Shorter(up)
          BY <5>1
        <5>3. a.store.content = Append(sh.content, Store!Foreign) /\ sh.content \in Seq(Int)
          <6>1. sh.content \in Seq(Int)
            BY DEF Stores
          <6>. QED
            BY <1>2, <4>4, <5>2, <6>1, StoreFields
        <5>. QED
          BY <1>2, <5>3, HasAppend
      <4>. QED
        BY <4>2, <4>3, <4>4
    <3>4. CASE s.op \in {"transaction", "continue", "adopt_first"}
      <4>1. a \in Store!Inserting(s.tok)
        BY <1>1, <3>4, ActForms
      <4>2. a.store = store \/ a.store = Store!With(store, s.tok)
        BY <4>1, InsertForms
      <4>3. Store!With(store, s.tok).content = Append(store.content, s.tok)
        BY <1>1, <1>2, StoreFields
      <4>4. Has(Append(store.content, s.tok), Store!Foreign)
        BY <1>1, <1>2, HasAppend
      <4>. QED
        BY <1>1, <4>2, <4>3, <4>4
    <3>5. CASE s.op \in {"merge", "checkpoint"}
      <4>1. a \in Store!Merging
        BY <1>1, <3>5, ActForms
      <4>2. a.store = Store!Merged(store)
        BY <1>1, <4>1, OtherForms
      <4>. QED
        BY <1>1, <1>2, <4>2, StoreFields
    <3>6. CASE s.op = "reject"
      <4>1. a \in Store!Rejecting
        BY <1>1, <3>6, ActForms
      <4>. QED
        BY <1>1, <4>1, OtherForms
    <3>7. CASE s.op \in {"fail_transaction", "fail_merge"}
      <4>1. PICK u \in Stores : /\ u = Store!With(store, s.tok) \/ u = Store!Merged(store)
                                /\ a \in Store!Failing(u)
        BY <1>1, <1>2, <3>7, ActForms, StoreFields
      <4>2. u.content = store.content \/ u.content = Append(store.content, s.tok)
        BY <1>1, <1>2, <4>1, StoreFields
      <4>3. Has(u.content, Store!Foreign)
        <5>1. Has(Append(store.content, s.tok), Store!Foreign)
          BY <1>1, <1>2, HasAppend
        <5>. QED
          BY <1>1, <4>2, <5>1
      <4>4. PICK md \in {"up", "recovery"} :
              a.store = Moded(store, md) \/ a.store = Moded(u, md)
        BY <4>1, OtherForms
      <4>5. a.store.content = store.content \/ a.store.content = u.content
        BY <1>1, <4>4, ModeFields
      <4>. QED
        BY <1>1, <4>3, <4>5
    <3>8. CASE s.op \in {"kill_transaction", "kill_merge"}
      <4>1. \/ a.store = store \/ a.store = Store!With(store, s.tok) \/ a.store = Store!Merged(store)
        BY <1>1, <3>8, ActForms
      <4>2. a.store.content = store.content \/ a.store.content = Append(store.content, s.tok)
        BY <1>1, <1>2, <4>1, StoreFields
      <4>3. Has(Append(store.content, s.tok), Store!Foreign)
        BY <1>1, <1>2, HasAppend
      <4>. QED
        BY <1>1, <4>2, <4>3
    <3>. QED
      BY <1>1, <1>3, <1>5, <3>1, <3>2, <3>3, <3>4, <3>5, <3>6, <3>7, <3>8 DEF CaseSteps, StoreOps
  <2>. QED
    BY <1>1, <2>1, <2>2, AnswerSwap
<1>. QED
  BY <1>4, <1>5

-----------------------------------------------------------------------------
(* The store: every operation leaves the store and its oracle on the next stand. *)

(* As long as the contract is kept things are as the oracle thinks. *)
LEMMA ServedStanding ==
  ASSUME NEW s, NEW l, NEW m, Served(s, l, m), ~wronged
  PROVE  Standing(l, oracle, store, held) /\ Drives(l, s, m) /\ Store!Now = s
BY DEF Served, Sound

(* What the store says of itself. *)
LEMMA SaysPlain ==
  ASSUME NEW st, NEW r, r = Store!Says(st, Store!NoBundle, FALSE)
  PROVE  /\ r.ok /\ r.head = Len(st.content) /\ r.gen = st.gen /\ r.ckpt = st.ckpt
         /\ r.content = st.content
BY DEF Store!Says

(* What asks nothing of the data. *)
LEMMA ServesPlainly ==
  ASSUME NEW s, NEW l, NEW m, Served(s, l, m), ~wronged, NEW a \in Store!Acts,
         NEW w \in BOOLEAN, w <=> a.wrong, s.op \in {"hello", "fault", "stats", "close", "export", "query"}
  PROVE  Answered(w, s, m, oracle, a.store, a.reply, held)
<1>1. Standing(l, oracle, store, held) /\ Drives(l, s, m) /\ Store!Now = s /\ store \in Stores
  BY ServedStanding DEF Served
<1>2. ~InKill(s) /\ s.op # "continue"
  BY DEF InKill
<1>3. CASE s.op \in {"hello", "fault"}
  <2>1. a = Store!Done(store, Store!NoBundle)
    BY <1>1, <1>3, ActForms
  <2>2. PICK r : r = Store!Says(store, Store!NoBundle, FALSE)
    OBVIOUS
  <2>3. a.store = store /\ a.reply = r /\ a.wrong = FALSE
    BY <2>1, <2>2, DoneFields
  <2>4. r.ok
    BY Zenon, <2>2, SaysPlain
  <2>5. Satisfies(s, oracle, store, r) /\ After(s, oracle, r) = oracle
    BY <1>3, <2>4 DEF Satisfies, After
  <2>6. m = l
    BY <1>1, <1>3, DrivesOp DEF Passes
  <2>. QED
    BY <1>1, <1>2, <2>3, <2>5, <2>6, AnswerGood
<1>4. CASE s.op \in {"stats", "export", "query"}
  <2>1. a = Store!Done(store, Store!NoBundle)
    BY <1>1, <1>4, ActForms
  <2>2. PICK r : r = Store!Says(store, Store!NoBundle, FALSE)
    OBVIOUS
  <2>3. a.store = store /\ a.reply = r /\ a.wrong = FALSE
    BY <2>1, <2>2, DoneFields
  <2>4. /\ r.ok /\ r.head = Len(store.content) /\ r.gen = store.gen /\ r.ckpt = store.ckpt
        /\ r.content = store.content
    BY Zenon, <2>2, SaysPlain
  <2>5. l.kind = "synced" /\ m.kind = "synced"
    BY <1>1, <1>4
       DEF Drives, Builds, Passes, Transacts, Settles, Exports, Opens, Kills, Fails, Continues, Adopts
  <2>6. Synced(oracle, store)
    BY <1>1, <2>5 DEF Standing
  <2>7. Satisfies(s, oracle, store, r)
    <3>1. r.content = oracle.accepted
      BY <2>4, <2>6 DEF Synced
    <3>2. Fits(oracle, r, Total(oracle), 0)
      BY <2>4, <2>6, ServedTypes DEF Fits, Total, Synced, Level
    <3>. QED
      BY <1>4, <2>4, <3>1, <3>2, SatisfiesOp
  <2>8. Synced(After(s, oracle, r), store)
    <3>1. After(s, oracle, r) = oracle \/ After(s, oracle, r) = Tells(oracle, r)
      BY <1>4 DEF After
    <3>2. Synced(Tells(oracle, r), store)
      BY <2>4, <2>6 DEF Synced, Level, Tells
    <3>. QED
      BY <2>6, <3>1, <3>2
  <2>9. Standing(m, After(s, oracle, r), store, held)
    BY <2>5, <2>8 DEF Standing
  <2>. QED
    BY <1>2, <2>3, <2>7, <2>9, AnswerGood
<1>5. CASE s.op = "close"
  <2>1. a = Store!Done(Moded(store, "down"), Store!NoBundle)
    BY <1>1, <1>5, ActForms
  <2>2. a.store = Moded(store, "down") /\ a.wrong = FALSE
    BY <2>1, DoneFields
  <2>3. a.store.content = store.content /\ a.store.gen = store.gen /\ a.store.ckpt = store.ckpt
          /\ a.store.mode = "down"
    BY <1>1, <2>2, ModeFields
  <2>4. Satisfies(s, oracle, a.store, a.reply) /\ After(s, oracle, a.reply) = oracle
    BY <1>5 DEF Satisfies, After
  <2>5. l.kind = "synced" /\ m.kind = "synced"
    BY <1>1, <1>5
       DEF Drives, Builds, Passes, Transacts, Settles, Exports, Opens, Kills, Fails, Continues, Adopts
  <2>6. Synced(oracle, store)
    BY <1>1, <2>5 DEF Standing
  <2>7. Synced(oracle, a.store)
    BY <2>3, <2>6 DEF Synced, Level
  <2>8. Standing(m, oracle, a.store, held)
    BY <2>5, <2>7 DEF Standing
  <2>. QED
    BY <1>2, <2>2, <2>4, <2>8, AnswerGood
<1>. QED
  BY <1>3, <1>4, <1>5

(* A new store. *)
LEMMA ServesBuild ==
  ASSUME NEW s, NEW l, NEW m, Served(s, l, m), ~wronged, NEW a \in Store!Acts,
         NEW w \in BOOLEAN, w <=> a.wrong, s.op = "build"
  PROVE  Answered(w, s, m, oracle, a.store, a.reply, held)
<1>1. Standing(l, oracle, store, held) /\ Drives(l, s, m) /\ Store!Now = s
  BY ServedStanding
<1>2. ~InKill(s) /\ s.op # "continue"
  BY DEF InKill
<1>3. l.kind = "fresh" /\ m.kind \in {"first", "synced"}
  BY <1>1, DrivesOp DEF Builds
<1>4. oracle.accepted = <<>> /\ oracle.gen = 0 /\ oracle.ckpt = 0
  BY <1>1, <1>3 DEF Standing
<1>5. PICK st : st = [Store!NewStore EXCEPT !.mode = "up"]
  OBVIOUS
<1>6. st.content = <<>> /\ st.gen = 0 /\ st.ckpt = 0 /\ st.mode = "up"
  BY <1>5 DEF Store!NewStore
<1>7. PICK r : r = Store!Says(st, Store!NoBundle, FALSE)
  OBVIOUS
<1>8. a.store = st /\ a.reply = r /\ a.wrong = FALSE
  <2>1. a = Store!Done(st, Store!NoBundle)
    BY <1>1, <1>5, ActForms
  <2>. QED
    BY <1>7, <2>1, DoneFields
<1>9. r.ok /\ r.head = Len(st.content) /\ r.gen = 0 /\ r.ckpt = 0
  <2>1. /\ r.ok /\ r.head = Len(st.content) /\ r.gen = st.gen /\ r.ckpt = st.ckpt
        /\ r.content = st.content
    BY Zenon, <1>7, SaysPlain
  <2>. QED
    BY <1>6, <2>1
<1>10. Satisfies(s, oracle, st, r)
  <2>1. r.head = 0 /\ Total(oracle) = 0
    BY <1>4, <1>6, <1>9 DEF Total
  <2>2. Fits(oracle, r, Total(oracle), 0)
    BY <1>4, <1>9, <2>1 DEF Fits
  <2>. QED
    BY <1>9, <2>2, SatisfiesOp
<1>11. PICK p : p = Tells(oracle, r)
  OBVIOUS
<1>12. p.accepted = <<>> /\ p.gen = 0 /\ p.ckpt = 0
  BY <1>4, <1>9, <1>11 DEF Tells
<1>13. Synced(p, st)
  <2>1. Len(p.accepted) = 0
    BY <1>12
  <2>. QED
    BY <1>6, <1>12, <2>1 DEF Synced, Level
<1>14. Few(p)
  <2>1. Len(p.accepted) = 0
    BY <1>12
  <2>2. \A t : ~Known(p, t)
    BY <2>1 DEF Known
  <2>. QED
    BY <2>2 DEF Few
<1>15. Standing(m, p, st, held)
  BY <1>3, <1>13, <1>14 DEF Standing
<1>16. After(s, oracle, r) = p
  BY <1>11, AfterOp
<1>. QED
  BY <1>2, <1>8, <1>10, <1>15, <1>16, AnswerGood

(* A merge. *)
LEMMA ServesMerge ==
  ASSUME NEW s, NEW l, NEW m, Served(s, l, m), ~wronged, NEW a \in Store!Acts,
         NEW w \in BOOLEAN, w <=> a.wrong, s.op \in {"merge", "checkpoint"}
  PROVE  Answered(w, s, m, oracle, a.store, a.reply, held)
<1>1. Standing(l, oracle, store, held) /\ Drives(l, s, m) /\ Store!Now = s /\ store \in Stores
  BY ServedStanding DEF Served
<1>2. ~InKill(s) /\ s.op # "continue"
  BY DEF InKill
<1>3. l.kind = "synced" /\ m.kind = "synced"
  BY <1>1
     DEF Drives, Builds, Passes, Transacts, Settles, Exports, Opens, Kills, Fails, Continues, Adopts
<1>4. Synced(oracle, store)
  BY <1>1, <1>3 DEF Standing
<1>5. a \in Store!Merging
  BY <1>1, ActForms
<1>6. CASE a.store = Store!Merged(store) /\ a.wrong = FALSE
             /\ a.reply = Store!Says(Store!Merged(store), Store!NoBundle, FALSE)
  <2>1. PICK st, r : st = Store!Merged(store) /\ r = Store!Says(st, Store!NoBundle, FALSE)
    OBVIOUS
  <2>2. st.content = store.content /\ st.gen = store.gen + 1 /\ st.ckpt = Len(store.content)
          /\ st.mode = store.mode
    BY <1>1, <2>1, StoreFields DEF Store!NoBundle
  <2>3. r.ok /\ r.head = Len(st.content) /\ r.gen = st.gen /\ r.ckpt = st.ckpt
    BY Zenon, <2>1, SaysPlain
  <2>4. Fits(oracle, r, Total(oracle), 0) /\ r.gen > oracle.gen /\ r.ckpt = Total(oracle)
    BY <1>4, <2>2, <2>3, ServedTypes DEF Fits, Total, Synced, Level
  <2>5. Satisfies(s, oracle, st, r) /\ After(s, oracle, r) = Tells(oracle, r)
    BY <2>3, <2>4, SatisfiesOp, AfterOp
  <2>6. Synced(Tells(oracle, r), st)
    BY <1>4, <2>2, <2>3, ServedTypes DEF Synced, Level, Tells
  <2>7. Standing(m, Tells(oracle, r), st, held)
    BY <1>3, <2>6 DEF Standing
  <2>. QED
    BY <1>2, <1>6, <2>1, <2>5, <2>7, AnswerGood
<1>7. CASE a.store = store /\ a.wrong = TRUE /\ a.reply = Store!Says(store, Store!NoBundle, FALSE)
  <2>1. PICK r : r = Store!Says(store, Store!NoBundle, FALSE)
    OBVIOUS
  <2>2. r.gen = store.gen
    BY Zenon, <2>1, SaysPlain
  <2>3. ~ (r.gen > oracle.gen)
    BY <1>4, <2>2, ServedTypes DEF Synced, Level
  <2>4. ~Satisfies(s, oracle, store, r)
    BY <2>3, SatisfiesOp
  <2>. QED
    BY <1>2, <1>7, <2>1, <2>4, AnswerBad
<1>. QED
  BY <1>5, <1>6, <1>7, OtherForms

(* What it has to refuse. *)
LEMMA ServesReject ==
  ASSUME NEW s, NEW l, NEW m, Served(s, l, m), ~wronged, NEW a \in Store!Acts,
         NEW w \in BOOLEAN, w <=> a.wrong, s.op = "reject"
  PROVE  Answered(w, s, m, oracle, a.store, a.reply, held)
<1>1. Standing(l, oracle, store, held) /\ Drives(l, s, m) /\ Store!Now = s /\ store \in Stores
  BY ServedStanding DEF Served
<1>2. ~InKill(s) /\ s.op # "continue"
  BY DEF InKill
<1>3. l.kind = "synced" /\ m = l
  BY <1>1
     DEF Drives, Builds, Passes, Transacts, Settles, Exports, Opens, Kills, Fails, Continues, Adopts
<1>4. Synced(oracle, store)
  BY <1>1, <1>3 DEF Standing
<1>5. a \in Store!Rejecting
  BY <1>1, ActForms
<1>6. CASE a.store = store /\ a.reply = Store!NoReply /\ a.wrong = FALSE
  <2>1. PICK r : r = Store!Says(store, Store!NoBundle, FALSE)
    OBVIOUS
  <2>2. r.ok /\ r.head = Len(store.content) /\ r.gen = store.gen /\ r.ckpt = store.ckpt
    BY Zenon, <2>1, SaysPlain
  <2>3. Fits(oracle, r, Total(oracle), 0)
    BY <1>4, <2>2, ServedTypes DEF Fits, Total, Synced, Level
  <2>4. store.content = oracle.accepted
    BY <1>4 DEF Synced
  <2>5. Satisfies(s, oracle, a.store, a.reply)
    BY <1>6, <2>1, <2>3, <2>4, SatisfiesOp, NoReplyFields
  <2>6. After(s, oracle, a.reply) = oracle
    BY DEF After
  <2>. QED
    BY <1>1, <1>2, <1>3, <1>6, <2>5, <2>6, AnswerGood
<1>7. CASE a.store = Store!With(store, Store!Foreign) /\ a.wrong = TRUE
  <2>1. a.store.content = Append(store.content, Store!Foreign)
    BY <1>1, <1>7, ServedTypes, StoreFields
  <2>2. Has(a.store.content, Store!Foreign)
    BY <2>1, ServedTypes, HasAppend
  <2>3. a.store.content # oracle.accepted
    BY <2>2, ServedTypes
  <2>4. ~Satisfies(s, oracle, a.store, a.reply)
    BY <2>3, SatisfiesOp
  <2>. QED
    BY <1>2, <1>7, <2>4, AnswerBad
<1>. QED
  BY <1>5, <1>6, <1>7, OtherForms

-----------------------------------------------------------------------------
(* r tells how st stands. *)
Told(r, st) == r.ok /\ r.head = Len(st.content) /\ r.gen = st.gen /\ r.ckpt = st.ckpt

(* What the store says when it has taken a bundle. *)
LEMMA SaysOnce ==
  ASSUME NEW st, NEW t, t \in Store!Tokens, NEW r, Has(st.content, t), r = Store!Says(st, t, FALSE)
  PROVE  Told(r, st) /\ ~r.replayed /\ r.txid = Store!Place(st.content, t)
<1>1. r.ok = TRUE /\ r.head = Len(st.content) /\ r.gen = st.gen /\ r.ckpt = st.ckpt
  BY DEF Store!Says
<1>2. r.replayed = FALSE
  BY Zenon, SaysFields
<1>3. r.txid = Store!Place(st.content, t)
  BY Zenon, SaysFields
<1>. QED
  BY <1>1, <1>2, <1>3 DEF Told

(* What it says when it had. *)
LEMMA SaysAgain ==
  ASSUME NEW st, NEW t, t \in Store!Tokens, NEW r, Has(st.content, t), r = Store!Says(st, t, TRUE)
  PROVE  Told(r, st) /\ r.replayed /\ r.txid = Store!Place(st.content, t)
<1>1. r.ok = TRUE /\ r.head = Len(st.content) /\ r.gen = st.gen /\ r.ckpt = st.ckpt
  BY DEF Store!Says
<1>2. r.replayed = TRUE
  BY Zenon, ReplaysFields
<1>3. r.txid = Store!Place(st.content, t)
  BY Zenon, ReplaysFields
<1>. QED
  BY <1>1, <1>2, <1>3 DEF Told

(* What is stored and what is accepted, of the same type. *)
LEMMA ServedInts ==
  ASSUME NEW s, NEW l, NEW m, Served(s, l, m)
  PROVE  /\ store.content \in Seq(Int) /\ oracle.accepted \in Seq(Int)
         /\ store.gen \in Int /\ store.ckpt \in Int /\ oracle.gen \in Int /\ oracle.ckpt \in Int
<1>1. PICK T, b : T = Store!Tokens /\ b = oracle.accepted
  OBVIOUS
<1>2. b \in Seq(T)
  BY <1>1, ServedTypes
<1>3. T \subseteq Int
  <2>1. T \subseteq Nat \ {0}
    BY <1>1, FirstTokens
  <2>. QED
    BY <2>1
<1>4. b \in Seq(Int)
  <2>1. PICK k \in Nat : k = Len(b)
    BY <1>2
  <2>2. b \in [1..k -> T]
    BY <1>2, <2>1
  <2>3. b \in [1..k -> Int]
    BY <1>3, <2>2
  <2>. QED
    BY <2>1, <2>3
<1>. QED
  BY <1>1, <1>4, ServedTypes

(* A transaction, asked for once or again, of a store that is settled or    *)
(* has committed what was in flight.                                        *)
LEMMA ServesInsert ==
  ASSUME NEW s, NEW l, NEW m, Served(s, l, m), ~wronged, NEW a \in Store!Acts,
         NEW w \in BOOLEAN, w <=> a.wrong, s.op = "transaction"
  PROVE  Answered(w, s, m, oracle, a.store, a.reply, held)
<1>1. Standing(l, oracle, store, held) /\ Drives(l, s, m) /\ Store!Now = s /\ store \in Stores
  BY ServedStanding DEF Served
<1>2. ~InKill(s) /\ s.op # "continue"
  BY DEF InKill
<1>3. PICK t \in Int : t = s.tok
  BY ServedTypes
<1>4. /\ t \in Store!Tokens
      /\ \/ ~s.flag /\ l.kind = "synced" /\ m.kind = "synced"
         \/ ~s.flag /\ t = 1 /\ l.kind = "first" /\ m.kind = "first"
         \/ s.flag /\ t = 2 /\ l.kind = "opened" /\ m.kind = "synced"
  BY <1>1, <1>3
     DEF Drives, Builds, Passes, Transacts, Settles, Exports, Opens, Kills, Fails, Continues, Adopts
<1>5. a \in Store!Inserting(t)
  BY <1>1, <1>3, ActForms
<1>6. /\ Level(oracle, store) /\ store.mode # "recovery"
      /\ \/ store.content = oracle.accepted
         \/ s.flag /\ store.content = Append(oracle.accepted, t) /\ ~Has(oracle.accepted, t)
      /\ l.kind = "first" => Few(oracle)
  BY <1>1, <1>3, <1>4, KnownHas DEF Standing, Synced, Loose
<1>7. /\ store.content \in Seq(Int) /\ oracle.accepted \in Seq(Int)
      /\ store.gen \in Int /\ store.ckpt \in Int /\ oracle.gen \in Int /\ oracle.ckpt \in Int
  BY ServedInts
<1>8. PICK c \in Seq(Int), acc \in Seq(Int) : c = store.content /\ acc = oracle.accepted
  BY <1>7
<1>9. Len(c) \in Nat /\ Len(acc) \in Nat /\ Append(acc, t) \in Seq(Int) /\ Append(c, t) \in Seq(Int)
  OBVIOUS
<1>10. Known(oracle, t) <=> Has(acc, t)
  BY <1>8, KnownHas
<1>11. PICK p : p.accepted = IF Has(acc, t) THEN acc ELSE Append(acc, t)
  <2>1. PICK x : x = IF Has(acc, t) THEN acc ELSE Append(acc, t)
    OBVIOUS
  <2>2. [accepted |-> x].accepted = x
    OBVIOUS
  <2>. QED
    BY <2>1, <2>2
<1>12. Few(oracle) /\ t = 1 => Few(p)
  <2>1. SUFFICES ASSUME Few(oracle), t = 1, NEW u \in Store!Tokens, Known(p, u) PROVE u = 1
    BY DEF Few
  <2>2. Has(p.accepted, u)
    BY <2>1, KnownHas
  <2>3. Has(acc, u) \/ u = t
    <3>1. Has(Append(acc, t), u) <=> (Has(acc, u) \/ u = t)
      BY HasAppend
    <3>. QED
      BY <1>11, <2>2, <3>1
  <2>4. Has(acc, u) => Known(oracle, u)
    BY <1>8, KnownHas
  <2>. QED
    BY <2>1, <2>3, <2>4 DEF Few
<1>13. ASSUME NEW r, a.reply = r, r.ok, Takes(oracle, t, r, s.flag, 0), ~w,
              a.store.content = p.accepted, a.store.mode # "recovery",
              a.store.gen = r.gen, a.store.ckpt = r.ckpt, r.ckpt <= Len(p.accepted)
       PROVE  Answered(w, s, m, oracle, a.store, a.reply, held)
  <2>1. Satisfies(s, oracle, a.store, r)
    BY <1>3, <1>13 DEF Satisfies
  <2>2. PICK q : q = Took(oracle, t, r)
    OBVIOUS
  <2>3. q.accepted = p.accepted /\ q.gen = r.gen /\ q.ckpt = r.ckpt
    BY <1>8, <1>10, <1>11, <2>2 DEF Took
  <2>4. Synced(q, a.store)
    BY <1>13, <2>3 DEF Synced, Level
  <2>5. l.kind = "first" => Few(q)
    BY <1>4, <1>6, <1>12, <2>3 DEF Few, Known
  <2>6. Standing(m, q, a.store, held)
    BY <1>4, <2>4, <2>5 DEF Standing
  <2>7. After(s, oracle, r) = q
    BY <1>3, <2>2 DEF After
  <2>. QED
    BY <1>2, <1>13, <2>1, <2>6, <2>7, AnswerGood
<1>14. CASE /\ ~Has(c, t) /\ a.store = Store!With(store, t)
            /\ a.reply = Store!Says(Store!With(store, t), t, FALSE) /\ a.wrong = FALSE
  <2>1. PICK st, r : st = Store!With(store, t) /\ r = Store!Says(st, t, FALSE)
    OBVIOUS
  <2>2. /\ st.content = Append(c, t) /\ st.gen = store.gen /\ st.ckpt = store.ckpt
        /\ st.mode = store.mode
    BY <1>1, <1>8, <2>1, StoreFields
  <2>3. Has(Append(c, t), t) /\ Len(Append(c, t)) = Len(c) + 1
    BY HasAppend
  <2>4. c = acc
    <3>1. Has(Append(acc, t), t)
      BY HasAppend
    <3>. QED
      BY <1>6, <1>8, <1>14, <3>1
  <2>5. Store!Place(Append(c, t), t) = Len(c) + 1
    BY <1>14, PlaceLast
  <2>6. /\ r.ok /\ r.head = Len(c) + 1 /\ r.gen = store.gen /\ r.ckpt = store.ckpt
        /\ r.txid = Len(c) + 1 /\ ~r.replayed
    <3>1. Has(st.content, t)
      BY <2>2, <2>3
    <3>2. r = Store!Says(st, t, FALSE)
      BY <2>1
    <3>3. Told(r, st) /\ ~r.replayed /\ r.txid = Store!Place(st.content, t)
      BY <1>4, <3>1, <3>2, SaysOnce
    <3>. QED
      BY <2>2, <2>3, <2>5, <3>3 DEF Told
  <2>7. Takes(oracle, t, r, s.flag, 0)
    BY <1>6, <1>7, <1>8, <1>9, <1>10, <1>14, <2>4, <2>6 DEF Takes, Fits, Total, Level
  <2>8. a.store.content = p.accepted /\ store.ckpt <= Len(p.accepted)
    BY <1>6, <1>7, <1>8, <1>9, <1>11, <1>14, <2>1, <2>2, <2>3, <2>4 DEF Level
  <2>. QED
    BY <1>6, <1>13, <1>14, <2>1, <2>2, <2>6, <2>7, <2>8
<1>15. CASE /\ Has(c, t) /\ a.store = store
            /\ a.reply = Store!Says(store, t, TRUE) /\ a.wrong = FALSE
  <2>1. PICK r : r = Store!Says(store, t, TRUE)
    OBVIOUS
  <2>2. /\ r.ok /\ r.head = Len(c) /\ r.gen = store.gen /\ r.ckpt = store.ckpt
        /\ r.txid = Store!Place(c, t) /\ r.replayed
    <3>1. Told(r, store) /\ r.replayed /\ r.txid = Store!Place(store.content, t)
      BY <1>4, <1>8, <1>15, <2>1, SaysAgain
    <3>. QED
      BY <1>8, <3>1 DEF Told
  <2>3. c = p.accepted /\ store.ckpt <= Len(c) /\ Len(c) = (IF Has(acc, t) THEN Len(acc) ELSE Len(acc) + 1)
        /\ r.txid = (IF Has(acc, t) THEN Store!Place(acc, t) ELSE Len(acc) + 1)
        /\ (Has(acc, t) \/ s.flag)
    <3>1. CASE c = acc
      BY <1>6, <1>8, <1>11, <1>15, <2>2, <3>1 DEF Level
    <3>2. CASE s.flag /\ c = Append(acc, t) /\ ~Has(acc, t)
      <4>1. Store!Place(Append(acc, t), t) = Len(acc) + 1
        BY <3>2, PlaceLast
      <4>2. store.ckpt <= Len(acc)
        BY <1>6, <1>8 DEF Level
      <4>3. Len(c) = Len(acc) + 1
        BY <3>2
      <4>4. store.ckpt <= Len(c)
        BY <1>7, <1>9, <4>2, <4>3
      <4>. QED
        BY <1>11, <2>2, <3>2, <4>1, <4>3, <4>4
    <3>. QED
      BY <1>6, <1>8, <3>1, <3>2
  <2>4. Fits(oracle, r, IF Known(oracle, t) THEN Total(oracle) ELSE Total(oracle) + 1, 0)
    BY <1>6, <1>7, <1>8, <1>9, <1>10, <2>2, <2>3 DEF Fits, Total, Level
  <2>5. Takes(oracle, t, r, s.flag, 0)
    BY <1>8, <1>10, <2>2, <2>3, <2>4 DEF Takes, Total
  <2>. QED
    BY <1>6, <1>8, <1>13, <1>15, <2>1, <2>2, <2>3, <2>5
<1>16. CASE Has(acc, t) /\ a.reply.replayed = FALSE /\ a.wrong = TRUE
  <2>1. ~Takes(oracle, t, a.reply, s.flag, 0)
    BY <1>10, <1>16 DEF Takes
  <2>2. ~Satisfies(s, oracle, a.store, a.reply)
    BY <1>3, <2>1 DEF Satisfies
  <2>. QED
    BY <1>2, <1>16, <2>2, AnswerBad
<1>. QED
  BY <1>5, <1>6, <1>8, <1>14, <1>15, <1>16, InsertForms

-----------------------------------------------------------------------------
(* What it says of itself. *)
LEMMA SaysTold ==
  ASSUME NEW st, NEW r, r = Store!Says(st, Store!NoBundle, FALSE)
  PROVE  Told(r, st)
<1>1. r.ok /\ r.head = Len(st.content) /\ r.gen = st.gen /\ r.ckpt = st.ckpt
  BY SaysPlain
<1>. QED
  BY <1>1 DEF Told

(* The store is opened on what it has, with or without what was in flight:  *)
(* the oracle goes on from what it tells.                                   *)
LEMMA ServesOpen ==
  ASSUME NEW s, NEW l, NEW m, Served(s, l, m), ~wronged, NEW a \in Store!Acts,
         NEW w \in BOOLEAN, w <=> a.wrong, s.op = "open"
  PROVE  Answered(w, s, m, oracle, a.store, a.reply, held)
<1>1. Standing(l, oracle, store, held) /\ Drives(l, s, m) /\ Store!Now = s /\ store \in Stores
  BY ServedStanding DEF Served
<1>2. ~InKill(s) /\ s.op # "continue"
  BY DEF InKill
<1>3. /\ m.due
      /\ \/ ~s.flag /\ l.kind \in {"synced", "ahead"} /\ m.kind = "synced"
         \/ s.flag /\ s.tok \in {Store!NoBundle, 2} /\ l.kind = "loose" /\ m.kind = "opened"
  BY <1>1
     DEF Drives, Builds, Passes, Transacts, Settles, Exports, Opens, Kills, Fails, Continues, Adopts
<1>4. a \in Store!Openings
  BY <1>1, ActForms
<1>5. PICK c \in Seq(Int), acc \in Seq(Int) : c = store.content /\ acc = oracle.accepted
  BY ServedInts
<1>6. Len(c) \in Nat /\ Len(acc) \in Nat
      /\ store.gen \in Int /\ store.ckpt \in Int /\ oracle.gen \in Int /\ oracle.ckpt \in Int
  BY ServedInts
<1>7. /\ Above(oracle, store)
      /\ \/ c = acc
         \/ s.flag /\ c = Append(acc, 2) /\ ~Has(acc, 2)
  <2>1. Level(oracle, store) => Above(oracle, store)
    BY <1>6 DEF Level, Above
  <2>2. Known(oracle, 2) <=> Has(acc, 2)
    BY <1>5, KnownHas
  <2>3. CASE l.kind = "synced"
    <3>1. Synced(oracle, store)
      BY <1>1, <2>3 DEF Standing
    <3>. QED
      BY <1>5, <2>1, <3>1 DEF Synced
  <2>4. CASE l.kind = "ahead"
    <3>1. Ahead(oracle, store)
      BY <1>1, <2>4 DEF Standing
    <3>. QED
      BY <1>5, <3>1 DEF Ahead
  <2>5. CASE s.flag /\ l.kind = "loose"
    <3>1. Loose(oracle, store)
      BY <1>1, <2>5 DEF Standing
    <3>. QED
      BY <1>5, <2>1, <2>2, <2>5, <3>1 DEF Loose
  <2>. QED
    BY <1>3, <2>3, <2>4, <2>5
<1>8. PICK r : r = a.reply
  OBVIOUS
<1>10. s.flag => IF s.flag /\ ~(s.tok # Store!NoBundle /\ Known(oracle, s.tok)) THEN c = acc \/ c # acc
                 ELSE c = acc
  <2>1. Known(oracle, 2) <=> Has(acc, 2)
    BY <1>5, KnownHas
  <2>. QED
    BY <1>3, <1>7, <2>1
<1>11. PICK pending \in {0, 1} :
         /\ pending = IF s.flag /\ ~(s.tok # Store!NoBundle /\ Known(oracle, s.tok)) THEN 1 ELSE 0
         /\ c # acc => pending = 1
  BY <1>7, <1>10
<1>12. ASSUME ~w, NEW st, a.store = st, Told(r, st), st.mode = "up", st.gen = store.gen,
              st.ckpt = store.ckpt, st.content = c \/ (s.flag /\ st.content = acc)
       PROVE  Answered(w, s, m, oracle, a.store, a.reply, held)
  <2>1. r.ok /\ r.head = Len(st.content) /\ r.gen = store.gen /\ r.ckpt = store.ckpt
    BY <1>12 DEF Told
  <2>2. st.content = acc \/ (st.content = Append(acc, 2) /\ ~Has(acc, 2) /\ s.flag /\ pending = 1)
    <3>1. Len(Append(acc, 2)) # Len(acc)
      BY <1>6
    <3>. QED
      BY <1>7, <1>11, <1>12, <3>1
  <2>3. Len(acc) <= r.head /\ r.head <= Len(acc) + pending /\ store.ckpt <= Len(acc)
    <3>1. Len(Append(acc, 2)) = Len(acc) + 1
      OBVIOUS
    <3>2. r.head = Len(acc) \/ (r.head = Len(acc) + 1 /\ pending = 1)
      BY <2>1, <2>2, <3>1
    <3>3. store.ckpt <= Len(acc)
      BY <1>5, <1>7 DEF Above
    <3>. QED
      BY <1>6, <1>11, <3>2, <3>3
  <2>4. Fits(oracle, r, Total(oracle), pending)
    <3>1. r.gen >= oracle.gen /\ r.ckpt >= oracle.ckpt
      BY <1>7, <2>1 DEF Above
    <3>2. r.head \in Int /\ r.ckpt <= r.head
      <4>1. r.head = Len(acc) \/ r.head = Len(acc) + 1
        BY <1>6, <1>11, <2>1, <2>2
      <4>. QED
        BY <1>6, <2>1, <2>3, <4>1
    <3>. QED
      BY <1>5, <2>3, <3>1, <3>2 DEF Fits, Total
  <2>5. Satisfies(s, oracle, st, r)
    BY <1>11, <2>1, <2>4 DEF Satisfies
  <2>6. PICK q : q = Tells(oracle, r)
    OBVIOUS
  <2>7. q.accepted = acc /\ q.gen = store.gen /\ q.ckpt = store.ckpt
    BY <1>5, <2>1, <2>6 DEF Tells
  <2>8. Level(q, st)
    BY <1>12, <2>3, <2>7 DEF Level
  <2>9. Standing(m, q, st, held)
    <3>1. CASE s.flag
      <4>1. Loose(q, st)
        <5>1. Known(q, 2) <=> Has(acc, 2)
          BY <2>7, KnownHas
        <5>. QED
          BY <2>2, <2>7, <2>8, <5>1 DEF Loose
      <4>. QED
        BY <1>3, <1>12, <3>1, <4>1 DEF Standing
    <3>2. CASE ~s.flag
      <4>1. Synced(q, st)
        BY <1>12, <2>2, <2>7, <2>8, <3>2 DEF Synced
      <4>. QED
        BY <1>3, <3>2, <4>1 DEF Standing
    <3>. QED
      BY <3>1, <3>2
  <2>10. After(s, oracle, r) = q
    BY <2>6 DEF After
  <2>. QED
    BY <1>2, <1>8, <1>12, <2>5, <2>9, <2>10, AnswerGood
<1>13. PICK up \in Stores :
         /\ up = [content |-> c, gen |-> store.gen, ckpt |-> store.ckpt, mode |-> "up"]
         /\ r = Store!Says(a.store, Store!NoBundle, FALSE)
         /\ \/ a.store = up /\ a.wrong = FALSE
            \/ /\ flaw = "loses" /\ Len(c) # 0 /\ a.store = Store!Shorter(up)
               /\ (a.wrong <=> Has(acc, c[Len(c)]))
            \/ /\ flaw = "swaps" /\ Len(c) # 0
               /\ a.store = Store!With(Store!Shorter(up), Store!Foreign) /\ a.wrong = TRUE
            \/ /\ flaw = "regresses" /\ oracle.gen = store.gen /\ a.wrong = TRUE
               /\ a.store.gen = store.gen - 1
  BY <1>1, <1>4, <1>5, <1>8, OpenForms
<1>14. PICK st : st = a.store
  OBVIOUS
<1>15. Told(r, st)
  BY <1>13, <1>14, SaysTold
<1>16. up.content = c /\ up.gen = store.gen /\ up.ckpt = store.ckpt /\ up.mode = "up"
  BY <1>13
<1>17. CASE a.store = up /\ a.wrong = FALSE
  BY <1>12, <1>14, <1>15, <1>16, <1>17
<1>18. CASE /\ flaw = "loses" /\ Len(c) # 0 /\ a.store = Store!Shorter(up)
            /\ (a.wrong <=> Has(acc, c[Len(c)]))
  <2>1. /\ st.content = SubSeq(c, 1, Len(c) - 1) /\ Len(st.content) = Len(c) - 1
        /\ st.gen = store.gen /\ st.mode = "up"
        /\ store.ckpt < Len(c) => st.ckpt = store.ckpt
    BY <1>14, <1>16, <1>18, ShorterFields
  <2>2. CASE c = acc
    <3>1. w
      <4>1. Len(c) \in 1..Len(acc)
        BY <1>6, <1>18, <2>2
      <4>2. Has(acc, c[Len(c)])
        BY <2>2, <4>1 DEF Has
      <4>. QED
        BY <1>18, <4>2
    <3>2. r.head = Len(acc) - 1
      BY <1>15, <2>1, <2>2 DEF Told
    <3>3. ~Fits(oracle, r, Total(oracle), pending)
      BY <1>5, <1>6, <3>2 DEF Fits, Total
    <3>4. ~Satisfies(s, oracle, st, r)
      BY <1>11, <3>3 DEF Satisfies
    <3>. QED
      BY <1>2, <1>8, <1>14, <3>1, <3>4, AnswerBad
  <2>3. CASE s.flag /\ c = Append(acc, 2) /\ ~Has(acc, 2)
    <3>1. Len(c) = Len(acc) + 1 /\ c[Len(c)] = 2 /\ SubSeq(c, 1, Len(acc)) = acc
      BY <1>6, <2>3
    <3>2. ~w
      BY <1>18, <2>3, <3>1
    <3>3. Len(c) - 1 = Len(acc)
      BY <1>6, <3>1
    <3>4. store.ckpt < Len(c)
      <4>1. store.ckpt <= Len(acc)
        BY <1>5, <1>7 DEF Above
      <4>. QED
        BY <1>6, <3>1, <4>1
    <3>. QED
      BY <1>12, <1>14, <1>15, <2>1, <2>3, <3>1, <3>2, <3>3, <3>4
  <2>. QED
    BY <1>7, <2>2, <2>3
<1>19. CASE /\ flaw = "swaps" /\ Len(c) # 0
            /\ a.store = Store!With(Store!Shorter(up), Store!Foreign) /\ a.wrong = TRUE
  <2>1. PICK sh \in Stores : sh = Store!Shorter(up)
    BY <1>16, <1>19, ShorterFields
  <2>2. st.content = Append(sh.content, Store!Foreign) /\ sh.content \in Seq(Int)
    <3>1. sh.content \in Seq(Int)
      BY DEF Stores
    <3>2. PICK f \in Int : f = Store!Foreign
      BY ServedTypes
    <3>3. Store!With(sh, f).content = Append(sh.content, f)
      BY <2>1, <3>2, StoreFields
    <3>. QED
      BY <1>14, <1>19, <2>1, <3>1, <3>2, <3>3
  <2>3. Has(st.content, Store!Foreign)
    BY <2>2, ServedTypes, HasAppend
  <2>. QED
    BY <1>3, <1>8, <1>14, <1>19, <2>3, AnswerSwap
<1>20. CASE /\ flaw = "regresses" /\ oracle.gen = store.gen /\ a.wrong = TRUE
            /\ a.store.gen = store.gen - 1
  <2>1. r.gen = store.gen - 1
    BY <1>14, <1>15, <1>20 DEF Told
  <2>2. ~Fits(oracle, r, Total(oracle), pending)
    BY <1>6, <1>20, <2>1 DEF Fits
  <2>3. ~Satisfies(s, oracle, st, r)
    BY <1>11, <2>2 DEF Satisfies
  <2>. QED
    BY <1>2, <1>8, <1>14, <1>20, <2>3, AnswerBad
<1>. QED
  BY <1>13, <1>17, <1>18, <1>19, <1>20

-----------------------------------------------------------------------------
(* How one state of the store comes of another. *)
Same(u, st)      == u.content = st.content /\ u.gen = st.gen /\ u.ckpt = st.ckpt
Grown(u, st, t)  == /\ u.content = Append(st.content, t) /\ u.gen = st.gen /\ u.ckpt = st.ckpt
                    /\ u.mode = st.mode
Compacted(u, st) == u.content = st.content /\ u.gen = st.gen + 1 /\ u.ckpt = Len(st.content)

(* What comes of taking a bundle. *)
LEMMA GrownForm ==
  ASSUME NEW st \in Stores, NEW t \in Int
  PROVE  Store!With(st, t) \in Stores /\ Grown(Store!With(st, t), st, t)
<1>1. PICK u : u = Store!With(st, t)
  OBVIOUS
<1>2. u \in Stores /\ u.content = Append(st.content, t) /\ u.gen = st.gen
        /\ u.ckpt = st.ckpt /\ u.mode = st.mode
  BY Zenon, <1>1, StoreFields
<1>. QED
  BY <1>1, <1>2 DEF Grown

(* And of taking the second. *)
LEMMA GrownTwo ==
  ASSUME store \in Stores
  PROVE  Store!With(store, 2) \in Stores /\ Grown(Store!With(store, 2), store, 2)
<1>1. PICK t \in Int : t = 2
  OBVIOUS
<1>2. Store!With(store, t) \in Stores /\ Grown(Store!With(store, t), store, t)
  BY GrownForm
<1>. QED
  BY <1>1, <1>2

(* Of a merge. *)
LEMMA CompactedForm ==
  ASSUME NEW st \in Stores
  PROVE  Store!Merged(st) \in Stores /\ Compacted(Store!Merged(st), st)
<1>1. PICK u, z : u = Store!Merged(st) /\ z = 0
  OBVIOUS
<1>2. z \in Int
  BY <1>1
<1>3. u \in Stores /\ u.content = st.content /\ u.gen = st.gen + 1 /\ u.ckpt = Len(st.content)
  BY Zenon, <1>1, <1>2, StoreFields
<1>. QED
  BY <1>1, <1>3 DEF Compacted

(* Of being opened, closed or halted. *)
LEMMA SameForm ==
  ASSUME NEW st \in Stores, NEW md \in {"down", "up", "recovery"}
  PROVE  Moded(st, md) \in Stores /\ Same(Moded(st, md), st)
<1>1. PICK u : u = Moded(st, md)
  OBVIOUS
<1>2. u \in Stores /\ u.content = st.content /\ u.gen = st.gen /\ u.ckpt = st.ckpt
  BY Zenon, <1>1, ModeFields
<1>. QED
  BY <1>1, <1>2 DEF Same

(* Where a step that is cut short leads. *)
LEMMA CutForms ==
  ASSUME NEW s, NEW l, NEW m, Served(s, l, m), ~wronged
  PROVE  /\ s.op \in {"fail_transaction", "fail_merge", "kill_transaction", "kill_merge"} =>
              /\ Synced(oracle, store) /\ Few(oracle)
              /\ s.op \in {"fail_transaction", "kill_transaction"} => s.tok = 2
              /\ s.op = "fail_transaction" => m.kind = "halted"
              /\ s.op = "fail_merge" => m.kind = "stalled"
              /\ s.op = "kill_transaction" => m.kind = "loose"
              /\ s.op = "kill_merge" => m.kind = "ahead"
         /\ s.op = "continue" =>
              \/ s.tok = 3 /\ Loose(oracle, store) /\ Few(oracle) /\ m.kind = "continued"
              \/ s.tok = 2 /\ Ahead(oracle, store) /\ Few(oracle) /\ m.kind = "merging"
         /\ s.op = "adopt_first" =>
              s.tok = 2 /\ Standing([kind |-> "continued"], oracle, store, held) /\ m.kind = "adopting"
<1>1. Standing(l, oracle, store, held) /\ Drives(l, s, m)
  BY ServedStanding
<1>2. ASSUME s.op \in {"fail_transaction", "fail_merge", "kill_transaction", "kill_merge"}
      PROVE  /\ Synced(oracle, store) /\ Few(oracle)
             /\ s.op \in {"fail_transaction", "kill_transaction"} => s.tok = 2
             /\ s.op = "fail_transaction" => m.kind = "halted"
             /\ s.op = "fail_merge" => m.kind = "stalled"
             /\ s.op = "kill_transaction" => m.kind = "loose"
             /\ s.op = "kill_merge" => m.kind = "ahead"
  <2>1. /\ l.kind = "first"
        /\ s.op \in {"fail_transaction", "kill_transaction"} => s.tok = 2
        /\ s.op = "fail_transaction" => m.kind = "halted"
        /\ s.op = "fail_merge" => m.kind = "stalled"
        /\ s.op = "kill_transaction" => m.kind = "loose"
        /\ s.op = "kill_merge" => m.kind = "ahead"
    BY <1>1, <1>2
       DEF Drives, Builds, Passes, Transacts, Settles, Exports, Opens, Kills, Fails, Continues, Adopts
  <2>2. Synced(oracle, store) /\ Few(oracle)
    BY <1>1, <2>1 DEF Standing
  <2>. QED
    BY <2>1, <2>2
<1>3. ASSUME s.op = "continue"
      PROVE  \/ s.tok = 3 /\ Loose(oracle, store) /\ Few(oracle) /\ m.kind = "continued"
             \/ s.tok = 2 /\ Ahead(oracle, store) /\ Few(oracle) /\ m.kind = "merging"
  <2>1. \/ s.tok = 3 /\ l.kind = "halted" /\ m.kind = "continued"
        \/ s.tok = 2 /\ l.kind = "stalled" /\ m.kind = "merging"
    BY <1>1, <1>3
       DEF Drives, Builds, Passes, Transacts, Settles, Exports, Opens, Kills, Fails, Continues, Adopts
  <2>. QED
    BY <1>1, <2>1 DEF Standing
<1>4. ASSUME s.op = "adopt_first"
      PROVE  s.tok = 2 /\ Standing([kind |-> "continued"], oracle, store, held) /\ m.kind = "adopting"
  <2>1. s.tok = 2 /\ l.kind = "continued" /\ m.kind = "adopting"
    BY <1>1, <1>4
       DEF Drives, Builds, Passes, Transacts, Settles, Exports, Opens, Kills, Fails, Continues, Adopts
  <2>2. Standing([kind |-> "continued"], oracle, store, held)
    BY <1>1, <2>1 DEF Standing
  <2>. QED
    BY <2>1, <2>2
<1>. QED
  BY <1>2, <1>3, <1>4

(* What was in flight was committed, or was not. *)
LEMMA CutStanding ==
  ASSUME NEW s, NEW l, NEW m, Served(s, l, m), ~wronged,
         Synced(oracle, store), Few(oracle), NEW st,
         st.content = store.content \/ st.content = Append(store.content, 2),
         st.gen = store.gen, st.ckpt = store.ckpt
  PROVE  Loose(oracle, st)
<1>1. ~Known(oracle, 2)
  BY FirstTokens DEF Few
<1>. QED
  BY <1>1 DEF Loose, Synced, Level

(* And a merge that was. *)
LEMMA MergeStanding ==
  ASSUME NEW s, NEW l, NEW m, Served(s, l, m), ~wronged,
         Synced(oracle, store), NEW st, st.content = store.content,
         \/ st.gen = store.gen /\ st.ckpt = store.ckpt
         \/ st.gen = store.gen + 1 /\ st.ckpt = Len(store.content)
  PROVE  Ahead(oracle, st)
<1>1. /\ Len(oracle.accepted) \in Int
      /\ store.gen \in Int /\ store.ckpt \in Int /\ oracle.gen \in Int /\ oracle.ckpt \in Int
  BY ServedTypes
<1>. QED
  BY <1>1 DEF Ahead, Above, Synced, Level

(* What fails. *)
LEMMA ServesFail ==
  ASSUME NEW s, NEW l, NEW m, Served(s, l, m), ~wronged, NEW a \in Store!Acts,
         NEW w \in BOOLEAN, w <=> a.wrong, s.op \in {"fail_transaction", "fail_merge"}
  PROVE  Answered(w, s, m, oracle, a.store, a.reply, held)
<1>1. Store!Now = s /\ store \in Stores
  BY ServedStanding DEF Served
<1>2. ~InKill(s) /\ s.op # "continue"
  BY DEF InKill
<1>3. /\ Synced(oracle, store) /\ Few(oracle)
      /\ s.op = "fail_transaction" => s.tok = 2 /\ m.kind = "halted"
      /\ s.op = "fail_merge" => m.kind = "stalled"
  BY CutForms
<1>4. PICK st : st = a.store
  OBVIOUS
<1>5. ASSUME a.reply = Store!NoReply, a.wrong = FALSE, Standing(m, oracle, st, held)
      PROVE  Answered(w, s, m, oracle, a.store, a.reply, held)
  <2>1. Satisfies(s, oracle, st, a.reply)
    BY <1>5, NoReplyFields DEF Satisfies
  <2>2. After(s, oracle, a.reply) = oracle
    BY DEF After
  <2>. QED
    BY <1>2, <1>4, <1>5, <2>1, <2>2, AnswerGood
<1>6. CASE s.op = "fail_transaction"
  <2>1. PICK u \in Stores : u = Store!With(store, 2) /\ Grown(u, store, 2)
    BY <1>1, GrownTwo
  <2>2. a \in Store!Failing(u)
    BY <1>1, <1>3, <1>6, <2>1, ActForms
  <2>3. PICK md \in {"up", "recovery"} : st = Moded(store, md) \/ st = Moded(u, md)
    BY <1>4, <2>2, OtherForms
  <2>4. a.reply = Store!NoReply /\ a.wrong = FALSE
    BY <2>2, OtherForms
  <2>5. /\ st.content = store.content \/ st.content = Append(store.content, 2)
        /\ st.gen = store.gen /\ st.ckpt = store.ckpt
    <3>1. CASE st = Moded(store, md)
      BY <1>1, <3>1, SameForm DEF Same
    <3>2. CASE st = Moded(u, md)
      <4>1. Same(st, u) /\ Grown(u, store, 2)
        BY <2>1, <3>2, SameForm
      <4>. QED
        BY <4>1 DEF Same, Grown
    <3>. QED
      BY <2>3, <3>1, <3>2
  <2>6. Loose(oracle, st)
    BY <1>3, <2>5, CutStanding
  <2>7. Standing(m, oracle, st, held)
    BY <1>3, <1>6, <2>6 DEF Standing
  <2>. QED
    BY <1>5, <2>4, <2>7
<1>7. CASE s.op = "fail_merge"
  <2>1. PICK u \in Stores : u = Store!Merged(store) /\ Compacted(u, store)
    BY <1>1, CompactedForm
  <2>2. a \in Store!Failing(u)
    BY <1>1, <1>7, <2>1, ActForms
  <2>3. PICK md \in {"up", "recovery"} : st = Moded(store, md) \/ st = Moded(u, md)
    BY <1>4, <2>2, OtherForms
  <2>4. a.reply = Store!NoReply /\ a.wrong = FALSE
    BY <2>2, OtherForms
  <2>5. /\ st.content = store.content
        /\ \/ st.gen = store.gen /\ st.ckpt = store.ckpt
           \/ st.gen = store.gen + 1 /\ st.ckpt = Len(store.content)
    <3>1. CASE st = Moded(store, md)
      BY <1>1, <3>1, SameForm DEF Same
    <3>2. CASE st = Moded(u, md)
      <4>1. Same(st, u) /\ Compacted(u, store)
        BY <2>1, <3>2, SameForm
      <4>. QED
        BY <4>1 DEF Same, Compacted
    <3>. QED
      BY <2>3, <3>1, <3>2
  <2>6. Ahead(oracle, st)
    BY <1>3, <2>5, MergeStanding
  <2>7. Standing(m, oracle, st, held)
    BY <1>3, <1>7, <2>6 DEF Standing
  <2>. QED
    BY <1>5, <2>4, <2>7
<1>. QED
  BY <1>6, <1>7

(* What is killed. *)
LEMMA ServesKill ==
  ASSUME NEW s, NEW l, NEW m, Served(s, l, m), ~wronged, NEW a \in Store!Acts,
         NEW w \in BOOLEAN, w <=> a.wrong, s.op \in {"kill_transaction", "kill_merge"}
  PROVE  Answered(w, s, m, oracle, a.store, a.reply, held)
<1>1. Store!Now = s /\ store \in Stores
  BY ServedStanding DEF Served
<1>2. InKill(s)
  BY DEF InKill
<1>3. /\ Synced(oracle, store) /\ Few(oracle)
      /\ s.op = "kill_transaction" => s.tok = 2 /\ m.kind = "loose"
      /\ s.op = "kill_merge" => m.kind = "ahead"
  BY CutForms
<1>4. PICK st, dn : st = a.store /\ dn = Down(st)
  OBVIOUS
<1>5. dn.content = st.content /\ dn.gen = st.gen /\ dn.ckpt = st.ckpt
  BY <1>4 DEF Down
<1>6. ~w
  BY <1>1, ActForms
<1>7. CASE s.op = "kill_transaction"
  <2>1. st = store \/ st = Store!With(store, 2)
    BY <1>1, <1>3, <1>4, <1>7, ActForms
  <2>2. /\ st.content = store.content \/ st.content = Append(store.content, 2)
        /\ st.gen = store.gen /\ st.ckpt = store.ckpt
    <3>1. st = store \/ Grown(st, store, 2)
      BY <1>1, <2>1, GrownTwo
    <3>. QED
      BY <3>1 DEF Grown
  <2>3. Loose(oracle, dn)
    BY <1>3, <1>5, <2>2, CutStanding
  <2>4. Standing(m, oracle, dn, held)
    BY <1>3, <1>7, <2>3 DEF Standing
  <2>. QED
    BY <1>2, <1>4, <1>6, <2>4, AnswerKilled
<1>8. CASE s.op = "kill_merge"
  <2>1. st = store \/ st = Store!Merged(store)
    BY <1>1, <1>4, <1>8, ActForms
  <2>2. /\ st.content = store.content
        /\ \/ st.gen = store.gen /\ st.ckpt = store.ckpt
           \/ st.gen = store.gen + 1 /\ st.ckpt = Len(store.content)
    <3>1. st = store \/ Compacted(st, store)
      BY <1>1, <2>1, CompactedForm
    <3>. QED
      BY <3>1 DEF Compacted
  <2>3. Ahead(oracle, dn)
    BY <1>3, <1>5, <2>2, MergeStanding
  <2>4. Standing(m, oracle, dn, held)
    BY <1>3, <1>8, <2>3 DEF Standing
  <2>. QED
    BY <1>2, <1>4, <1>6, <2>4, AnswerKilled
<1>. QED
  BY <1>7, <1>8

-----------------------------------------------------------------------------
(* A transaction goes on from one that failed, on a store that took the     *)
(* first or did not, or refuses to take any.                                *)
LEMMA ServesContinue ==
  ASSUME NEW s, NEW l, NEW m, Served(s, l, m), ~wronged, NEW a \in Store!Acts,
         NEW w \in BOOLEAN, w <=> a.wrong, s.op = "continue"
  PROVE  Answered(w, s, m, oracle, a.store, a.reply, held)
<1>1. Store!Now = s /\ store \in Stores
  BY ServedStanding DEF Served
<1>2. ~InKill(s)
  BY DEF InKill
<1>3. PICK t \in Int : t = s.tok
  BY ServedTypes
<1>4. \/ t = 3 /\ Loose(oracle, store) /\ Few(oracle) /\ m.kind = "continued"
      \/ t = 2 /\ Ahead(oracle, store) /\ Few(oracle) /\ m.kind = "merging"
  BY <1>3, CutForms
<1>5. t \in Store!Tokens /\ ~Known(oracle, t) /\ Few(oracle)
  BY <1>4, FirstTokens DEF Few
<1>6. a \in Store!Inserting(t)
  BY <1>1, <1>3, ActForms
<1>7. PICK c \in Seq(Int), acc \in Seq(Int) : c = store.content /\ acc = oracle.accepted
  BY ServedInts
<1>8. Len(c) \in Nat /\ Len(acc) \in Nat
      /\ store.gen \in Int /\ store.ckpt \in Int /\ oracle.gen \in Int /\ oracle.ckpt \in Int
  BY ServedInts
<1>9. ~Has(acc, t)
  BY <1>5, <1>7, KnownHas
<1>10. c = acc \/ (t = 3 /\ c = Append(acc, 2))
  BY <1>4, <1>7 DEF Loose, Ahead
<1>11. ~Has(c, t)
  <2>1. Has(Append(acc, 2), t) <=> (Has(acc, t) \/ t = 2)
    <3>1. PICK u \in Int : u = 2
      OBVIOUS
    <3>2. Has(Append(acc, u), t) <=> (Has(acc, t) \/ t = u)
      BY HasAppend
    <3>. QED
      BY <3>1, <3>2
  <2>2. CASE c = acc
    BY <1>9, <2>2
  <2>3. CASE t = 3 /\ c = Append(acc, 2)
    BY <1>9, <2>1, <2>3
  <2>. QED
    BY <1>10, <2>2, <2>3
<1>12. \/ a.store = store /\ a.reply = Store!NoReply /\ a.wrong = FALSE
       \/ /\ store.mode # "recovery" /\ a.store = Store!With(store, t)
          /\ a.reply = Store!Says(Store!With(store, t), t, FALSE) /\ a.wrong = FALSE
  BY <1>6, <1>7, <1>9, <1>11, InsertForms
<1>13. PICK st, r : st = a.store /\ r = a.reply
  OBVIOUS
<1>14. Standing(m, oracle, st, r)
  <2>1. CASE a.store = store /\ a.reply = Store!NoReply
    <3>1. ~r.ok
      BY <1>13, <2>1, NoReplyFields
    <3>2. t = 3 => Loose(oracle, st) /\ Level(oracle, st)
      BY <1>4, <1>13, <2>1 DEF Loose
    <3>3. t = 2 => Ahead(oracle, st)
      BY <1>4, <1>13, <2>1
    <3>. QED
      BY <1>4, <3>1, <3>2, <3>3 DEF Standing
  <2>2. CASE /\ store.mode # "recovery" /\ a.store = Store!With(store, t)
             /\ a.reply = Store!Says(Store!With(store, t), t, FALSE)
    <3>1. Grown(st, store, t)
      BY <1>1, <1>13, <2>2, GrownForm
    <3>2. st.content = Append(c, t) /\ st.gen = store.gen /\ st.ckpt = store.ckpt /\ st.mode = store.mode
      BY <1>7, <3>1 DEF Grown
    <3>3. Has(st.content, t)
      <4>1. Has(Append(c, t), t)
        BY HasAppend
      <4>. QED
        BY <3>2, <4>1
    <3>4. Told(r, st) /\ ~r.replayed /\ r.txid = Store!Place(st.content, t)
      <4>1. r = Store!Says(st, t, FALSE)
        BY <1>13, <2>2
      <4>2. t \in Store!Tokens
        BY <1>5
      <4>. QED
        BY Zenon, <3>3, <4>1, <4>2, SaysOnce
    <3>5. Store!Place(st.content, t) = Len(c) + 1 /\ Len(st.content) = Len(c) + 1
      <4>1. Store!Place(Append(c, t), t) = Len(c) + 1
        BY <1>11, PlaceLast
      <4>. QED
        BY <3>2, <4>1
    <3>6. LastReply(r, st)
      BY <3>4, <3>5 DEF LastReply, Told
    <3>7. CASE t = 3
      <4>1. Loose(oracle, store) /\ Few(oracle) /\ m.kind = "continued"
        BY <1>4, <3>7
      <4>2. Level(oracle, st)
        BY <3>2, <4>1 DEF Loose, Level
      <4>3. \/ st.content = Append(acc, 3)
            \/ st.content = Append(Append(acc, 2), 3)
        BY <1>10, <3>2, <3>7
      <4>4. r.ok /\ st.mode # "recovery"
        BY <2>2, <3>2, <3>6 DEF LastReply
      <4>. QED
        BY <1>7, <3>6, <4>1, <4>2, <4>3, <4>4 DEF Standing
    <3>8. CASE t = 2
      <4>1. Ahead(oracle, store) /\ m.kind = "merging"
        BY <1>4, <3>8
      <4>2. Above(oracle, st)
        BY <3>2, <4>1 DEF Ahead, Above
      <4>3. st.content = Append(acc, 2)
        BY <1>10, <3>2, <3>8
      <4>4. r.ok
        BY <3>6 DEF LastReply
      <4>. QED
        BY <1>5, <1>7, <3>6, <3>8, <4>1, <4>2, <4>3, <4>4 DEF Standing
    <3>. QED
      BY <1>4, <3>7, <3>8
  <2>. QED
    BY <1>12, <2>1, <2>2
<1>15. ~w
  BY <1>12
<1>16. Satisfies(s, oracle, st, r) /\ After(s, oracle, r) = oracle
  BY DEF Satisfies, After
<1>. QED
  BY <1>2, <1>13, <1>14, <1>15, <1>16, AnswerGood

(* The reply h was to what follows a transaction that did commit. *)
Committed(h, o) == h.ok /\ h.txid = Len(o.accepted) + 2

(* The first is asked for again: the reply put aside says it was taken. *)
LEMMA ServesAdopt ==
  ASSUME NEW s, NEW l, NEW m, Served(s, l, m), ~wronged, NEW a \in Store!Acts,
         NEW w \in BOOLEAN, w <=> a.wrong, s.op = "adopt_first",
         Committed(held, oracle)
  PROVE  Answered(w, s, m, oracle, a.store, a.reply, held)
<1>1. Store!Now = s /\ store \in Stores
  BY ServedStanding DEF Served
<1>2. ~InKill(s) /\ s.op # "continue"
  BY DEF InKill
<1>3. s.tok = 2 /\ Standing([kind |-> "continued"], oracle, store, held) /\ m.kind = "adopting"
  BY CutForms
<1>4. PICK c \in Seq(Int), acc \in Seq(Int) : c = store.content /\ acc = oracle.accepted
  BY ServedInts
<1>5. Len(c) \in Nat /\ Len(acc) \in Nat
      /\ store.gen \in Int /\ store.ckpt \in Int /\ oracle.gen \in Int /\ oracle.ckpt \in Int
  BY ServedInts
<1>6. held.ok /\ held.txid = Len(acc) + 2
  BY <1>4 DEF Committed
<1>7. /\ Few(oracle) /\ Level(oracle, store) /\ LastReply(held, store) /\ store.mode # "recovery"
      /\ c = Append(acc, 3) \/ c = Append(Append(acc, 2), 3)
  BY <1>3, <1>4, <1>6 DEF Standing
<1>8. c = Append(Append(acc, 2), 3)
  <2>1. Len(c) = Len(acc) + 2
    BY <1>4, <1>6, <1>7 DEF LastReply
  <2>2. Len(Append(acc, 3)) = Len(acc) + 1
    OBVIOUS
  <2>. QED
    BY <1>5, <1>7, <2>1, <2>2
<1>9. 2 \in Store!Tokens /\ 3 \in Store!Tokens /\ ~Known(oracle, 2) /\ ~Known(oracle, 3)
  BY <1>7, FirstTokens DEF Few
<1>10. ~Has(acc, 2) /\ ~Has(acc, 3)
  BY <1>4, <1>9, KnownHas
<1>11. PICK t \in Int, u \in Int, b \in Seq(Int) : t = 2 /\ u = 3 /\ b = Append(acc, t)
  <2>1. PICK t \in Int, u \in Int : t = 2 /\ u = 3
    OBVIOUS
  <2>2. Append(acc, t) \in Seq(Int)
    OBVIOUS
  <2>. QED
    BY <2>1, <2>2
<1>12. /\ Has(c, t) /\ Len(c) = Len(acc) + 2 /\ Store!Place(c, t) = Len(acc) + 1
       /\ ~Has(b, u) /\ Len(b) = Len(acc) + 1
  <2>1. /\ \A v : Has(b, v) <=> (Has(acc, v) \/ v = t)
        /\ Len(b) = Len(acc) + 1
    BY <1>11, HasAppend
  <2>2. c = Append(b, u)
    BY <1>8, <1>11
  <2>3. /\ \A v : Has(c, v) <=> (Has(b, v) \/ v = u)
        /\ Len(c) = Len(b) + 1
    BY <2>2, HasAppend
  <2>4. Store!Place(Append(Append(acc, t), u), t) = Len(acc) + 1
    <3>1. u \in Int \ {t} /\ ~Has(acc, t)
      BY <1>10, <1>11
    <3>. QED
      BY <3>1, PlaceLast
  <2>. QED
    BY <1>5, <1>10, <1>11, <2>1, <2>2, <2>3, <2>4
<1>13. a \in Store!Inserting(t)
  BY <1>1, <1>3, <1>11, ActForms
<1>14. a.store = store /\ a.reply = Store!Says(store, t, TRUE) /\ a.wrong = FALSE
  BY <1>4, <1>7, <1>10, <1>11, <1>12, <1>13, InsertForms
<1>15. PICK r : r = a.reply
  OBVIOUS
<1>16. Told(r, store) /\ r.replayed /\ r.txid = Store!Place(store.content, t)
  <2>1. t \in Store!Tokens /\ Has(store.content, t) /\ r = Store!Says(store, t, TRUE)
    BY <1>4, <1>9, <1>11, <1>12, <1>14, <1>15
  <2>. QED
    BY <2>1, SaysAgain
<1>17. /\ r.ok /\ r.head = Len(acc) + 2 /\ r.gen = store.gen /\ r.ckpt = store.ckpt
       /\ r.txid = Len(acc) + 1
  BY <1>4, <1>12, <1>16 DEF Told
<1>18. Fits(oracle, r, Total(oracle) + 1, 1)
  BY <1>4, <1>5, <1>7, <1>17 DEF Fits, Total, Level
<1>19. Takes(oracle, 2, r, TRUE, 1)
  BY <1>4, <1>9, <1>16, <1>17, <1>18 DEF Takes, Total
<1>20. Satisfies(s, oracle, store, r)
  BY <1>3, <1>17, <1>19 DEF Satisfies
<1>21. PICK q : q = Took(oracle, 2, r)
  OBVIOUS
<1>22. q.accepted = b /\ q.gen = store.gen /\ q.ckpt = store.ckpt
  BY <1>4, <1>9, <1>11, <1>17, <1>21 DEF Took
<1>23. After(s, oracle, r) = q
  BY <1>3, <1>21 DEF After
<1>24. Standing(m, q, store, held)
  <2>1. Level(q, store)
    BY <1>4, <1>5, <1>7, <1>12, <1>22 DEF Level
  <2>2. ~Known(q, 3)
    BY <1>11, <1>12, <1>22, KnownHas
  <2>3. store.content = Append(q.accepted, 3)
    BY <1>4, <1>8, <1>11, <1>22
  <2>. QED
    BY <1>3, <1>6, <1>7, <2>1, <2>2, <2>3 DEF Standing
<1>. QED
  BY <1>2, <1>14, <1>15, <1>20, <1>23, <1>24, AnswerGood

(* However a store that kept its contract serves a request, the reply shows *)
(* whether it still does, unless a swap will; and what one that has swapped *)
(* what it kept does, does not undo it.                                     *)
LEMMA Serves ==
  ASSUME NEW s, NEW l, NEW m, Served(s, l, m), wronged \in BOOLEAN, NEW a \in Store!Acts,
         NEW w \in BOOLEAN, w <=> (wronged \/ a.wrong), s.op \notin {"adopt", "kill"},
         s.op = "adopt_first" => Store!FirstCommitted
  PROVE  Answered(w, s, m, oracle, a.store, a.reply, held)
<1>1. CASE wronged
  BY <1>1, SwapAnswered
<1>2. CASE ~wronged
  <2>1. w <=> a.wrong
    BY <1>2
  <2>2. s.op \in StoreOps \ {"adopt", "kill"}
    BY DEF Served, CaseSteps
  <2>3. CASE s.op \in {"hello", "fault", "stats", "close", "export", "query"}
    BY <1>2, <2>1, <2>3, ServesPlainly
  <2>4. CASE s.op = "build"
    BY <1>2, <2>1, <2>4, ServesBuild
  <2>5. CASE s.op \in {"merge", "checkpoint"}
    BY <1>2, <2>1, <2>5, ServesMerge
  <2>6. CASE s.op = "reject"
    BY <1>2, <2>1, <2>6, ServesReject
  <2>7. CASE s.op = "transaction"
    BY <1>2, <2>1, <2>7, ServesInsert
  <2>8. CASE s.op = "open"
    BY <1>2, <2>1, <2>8, ServesOpen
  <2>9. CASE s.op \in {"fail_transaction", "fail_merge"}
    BY <1>2, <2>1, <2>9, ServesFail
  <2>10. CASE s.op \in {"kill_transaction", "kill_merge"}
    BY <1>2, <2>1, <2>10, ServesKill
  <2>11. CASE s.op = "continue"
    BY <1>2, <2>1, <2>11, ServesContinue
  <2>12. CASE s.op = "adopt_first"
    <3>1. Committed(held, oracle)
      BY <2>12 DEF Committed, Store!FirstCommitted, Store!Count
    <3>. QED
      BY <1>2, <2>1, <2>12, <3>1, ServesAdopt
  <2>. QED
    BY <2>2, <2>3, <2>4, <2>5, <2>6, <2>7, <2>8, <2>9, <2>10, <2>11, <2>12 DEF StoreOps
<1>. QED
  BY <1>1, <1>2

-----------------------------------------------------------------------------
(* The store: every action keeps the invariant. *)

(* What the store says is a reply. *)
LEMMA SaysTyped ==
  ASSUME NEW st \in Stores, NEW t
  PROVE  Store!Says(st, t, FALSE) \in Replies /\ Store!Says(st, t, TRUE) \in Replies
<1>1. PICK c \in Seq(Int), g \in Int, k \in Int : c = st.content /\ g = st.gen /\ k = st.ckpt
  BY DEF Stores
<1>2. PICK x : x = IF t \in Store!Tokens /\ Store!Has(c, t) THEN Store!Place(c, t) ELSE 0
  OBVIOUS
<1>3. x \in Int
  <2>1. ASSUME Store!Has(c, t) PROVE Store!Place(c, t) \in Int
    <3>1. \E i \in 1..Len(c) : c[i] = t
      BY <2>1 DEF Store!Has
    <3>2. Store!Place(c, t) \in 1..Len(c)
      BY <3>1 DEF Store!Place
    <3>. QED
      BY <3>2
  <2>. QED
    BY <1>2, <2>1
<1>4. /\ Store!Says(st, t, FALSE) = [ok |-> TRUE, head |-> Len(c), gen |-> g, ckpt |-> k, txid |-> x,
                                     replayed |-> FALSE, content |-> c]
      /\ Store!Says(st, t, TRUE) = [ok |-> TRUE, head |-> Len(c), gen |-> g, ckpt |-> k, txid |-> x,
                                    replayed |-> TRUE, content |-> c]
  BY <1>1, <1>2 DEF Store!Says
<1>5. Len(c) \in Int
  OBVIOUS
<1>6. PICK d \in Int : d = Len(c)
  BY <1>5
<1>7. \A b \in BOOLEAN : [ok |-> TRUE, head |-> d, gen |-> g, ckpt |-> k, txid |-> x,
                         replayed |-> b, content |-> c] \in Replies
  BY <1>1, <1>3 DEF Replies
<1>. QED
  BY <1>4, <1>6, <1>7

(* So is none. *)
LEMMA NoReplyTyped == Store!NoReply \in Replies
<1>1. <<>> \in Seq(Int) /\ 0 \in Int
  OBVIOUS
<1>. QED
  BY <1>1 DEF Store!NoReply, Replies

(* c holds nothing but what is stored, the bundle t and a foreign one. *)
Within(c, t) == \A x : Has(c, x) => Has(store.content, x) \/ x = t \/ x = Store!Foreign

(* A store that has taken a bundle. *)
LEMMA WithinGrown ==
  ASSUME NEW st \in Stores, NEW t \in Int, NEW u, Within(st.content, u), t = u \/ t = Store!Foreign
  PROVE  Store!With(st, t) \in Stores /\ Within(Store!With(st, t).content, u)
<1>1. Store!With(st, t) \in Stores /\ Grown(Store!With(st, t), st, t)
  BY GrownForm
<1>2. PICK c \in Seq(Int) : c = st.content
  BY DEF Stores
<1>3. Store!With(st, t).content = Append(c, t)
  BY <1>1, <1>2 DEF Grown
<1>4. \A x : Has(Append(c, t), x) <=> (Has(c, x) \/ x = t)
  BY HasAppend
<1>. QED
  BY <1>1, <1>2, <1>3, <1>4 DEF Within

(* Or one less. *)
LEMMA WithinShorter ==
  ASSUME NEW st \in Stores, Len(st.content) # 0, NEW u, Within(st.content, u)
  PROVE  Store!Shorter(st) \in Stores /\ Within(Store!Shorter(st).content, u)
<1>1. PICK c \in Seq(Int) : c = st.content
  BY DEF Stores
<1>2. PICK d : d = SubSeq(c, 1, Len(c) - 1)
  OBVIOUS
<1>3. Store!Shorter(st) \in Stores /\ Store!Shorter(st).content = d
  BY <1>1, <1>2, ShorterFields
<1>4. ASSUME NEW x, Has(d, x) PROVE Has(c, x)
  <2>1. Len(d) = Len(c) - 1 /\ \A i \in 1..Len(d) : d[i] = c[i] /\ i \in 1..Len(c)
    BY <1>1, <1>2
  <2>. QED
    BY <1>4, <2>1 DEF Has
<1>. QED
  BY <1>1, <1>3, <1>4 DEF Within

(* Whatever the store does its state is one, its reply is one, and it holds *)
(* nothing it was not asked to hold, foreign bundles apart.                 *)
LEMMA ActTyped ==
  ASSUME NEW s \in CaseSteps, Store!Now = s, store \in Stores, NEW a \in Store!Acts,
         s.op \notin {"kill", "adopt"}
  PROVE  a.store \in Stores /\ a.reply \in Replies /\ Within(a.store.content, s.tok)
<1>1. PICK t \in Int : t = s.tok
  <2>1. PICK t : t = s.tok
    OBVIOUS
  <2>2. t \in Store!Tokens \/ t = -1
    BY <2>1, FirstTokens DEF CaseSteps
  <2>3. \A x \in Store!Tokens : x \in Int
    BY FirstTokens
  <2>4. t \in Int
    BY <2>2, <2>3
  <2>. QED
    BY <2>1, <2>4
<1>2. Within(store.content, t)
  BY DEF Within
<1>3. PICK f \in Int : f = Store!Foreign
  BY DEF Store!Foreign
<1>4. CASE s.op \in {"hello", "fault", "export", "stats", "query"}
  <2>1. a = Store!Done(store, Store!NoBundle)
    BY <1>4, ActForms
  <2>2. a.store = store /\ a.reply = Store!Says(store, Store!NoBundle, FALSE)
    BY <2>1, DoneFields
  <2>. QED
    BY <1>1, <1>2, <2>2, SaysTyped
<1>5. CASE s.op = "close"
  <2>1. PICK st : st = Moded(store, "down")
    OBVIOUS
  <2>2. a = Store!Done(st, Store!NoBundle)
    BY <1>5, <2>1, ActForms
  <2>3. a.store = st /\ a.reply = Store!Says(st, Store!NoBundle, FALSE)
    BY <2>2, DoneFields
  <2>4. st \in Stores /\ Same(st, store)
    BY <2>1, SameForm
  <2>. QED
    BY <1>1, <1>2, <2>3, <2>4, SaysTyped DEF Same
<1>6. CASE s.op = "build"
  <2>1. PICK st : st = [Store!NewStore EXCEPT !.mode = "up"]
    OBVIOUS
  <2>2. a = Store!Done(st, Store!NoBundle)
    BY <1>6, <2>1, ActForms
  <2>3. a.store = st /\ a.reply = Store!Says(st, Store!NoBundle, FALSE)
    BY <2>2, DoneFields
  <2>4. st = [content |-> <<>>, gen |-> 0, ckpt |-> 0, mode |-> "up"]
    BY <2>1 DEF Store!NewStore
  <2>5. st \in Stores
    <3>1. <<>> \in Seq(Int) /\ 0 \in Int
      OBVIOUS
    <3>. QED
      BY <2>4, <3>1 DEF Stores
  <2>6. Within(st.content, t)
    <3>1. Len(st.content) = 0
      BY <2>4
    <3>. QED
      BY <3>1 DEF Within, Has
  <2>. QED
    BY <1>1, <2>3, <2>5, <2>6, SaysTyped
<1>7. CASE s.op = "open"
  <2>1. a \in Store!Openings
    BY <1>7, ActForms
  <2>2. PICK up \in Stores :
           /\ up = [content |-> store.content, gen |-> store.gen, ckpt |-> store.ckpt, mode |-> "up"]
           /\ a.reply = Store!Says(a.store, Store!NoBundle, FALSE)
           /\ \/ a.store = up
              \/ Len(store.content) # 0 /\ a.store = Store!Shorter(up)
              \/ Len(store.content) # 0 /\ a.store = Store!With(Store!Shorter(up), f)
              \/ a.store \in Stores /\ a.store.content = store.content
    BY <1>3, <2>1, OpenForms
  <2>3. up.content = store.content
    BY <2>2
  <2>4. a.store \in Stores /\ Within(a.store.content, t)
    <3>1. CASE a.store = up
      BY <1>2, <2>3, <3>1
    <3>2. CASE Len(store.content) # 0 /\ a.store = Store!Shorter(up)
      BY <1>2, <2>3, <3>2, WithinShorter
    <3>3. CASE Len(store.content) # 0 /\ a.store = Store!With(Store!Shorter(up), f)
      <4>1. Store!Shorter(up) \in Stores /\ Within(Store!Shorter(up).content, t)
        BY <1>2, <2>3, <3>3, WithinShorter
      <4>2. PICK sh \in Stores : sh = Store!Shorter(up) /\ Within(sh.content, t)
        BY <4>1
      <4>. QED
        BY <1>3, <3>3, <4>2, WithinGrown
    <3>4. CASE a.store \in Stores /\ a.store.content = store.content
      BY <1>2, <3>4
    <3>. QED
      BY <2>2, <3>1, <3>2, <3>3, <3>4
  <2>. QED
    BY <1>1, <2>2, <2>4, SaysTyped
<1>8. CASE s.op \in {"transaction", "continue", "adopt_first"}
  <2>1. a \in Store!Inserting(t)
    BY <1>1, <1>8, ActForms
  <2>2. PICK u \in Stores : u = Store!With(store, t) /\ Within(u.content, t)
    BY <1>2, WithinGrown
  <2>3. Store!Says(u, t, FALSE) \in Replies /\ Store!Says(store, t, TRUE) \in Replies
    BY SaysTyped
  <2>4. \/ a.store = store /\ a.reply \in Replies
        \/ a.store = u /\ a.reply = Store!Says(u, t, FALSE)
        \/ a.store = u /\ a.reply = [Store!Says(u, t, FALSE) EXCEPT !.txid = Len(store.content) + 1]
    BY <2>1, <2>2, <2>3, InsertForms, NoReplyTyped
  <2>5. [Store!Says(u, t, FALSE) EXCEPT !.txid = Len(store.content) + 1] \in Replies
    <3>1. PICK r \in Replies, k \in Int : r = Store!Says(u, t, FALSE) /\ k = Len(store.content) + 1
      <4>1. Len(store.content) + 1 \in Int
        BY DEF Stores
      <4>. QED
        BY <2>3, <4>1
    <3>2. [r EXCEPT !.txid = k] \in Replies
      BY DEF Replies
    <3>. QED
      BY <3>1, <3>2
  <2>. QED
    BY <1>1, <1>2, <2>2, <2>3, <2>4, <2>5
<1>9. CASE s.op \in {"merge", "checkpoint"}
  <2>1. a \in Store!Merging
    BY <1>9, ActForms
  <2>2. PICK u \in Stores : u = Store!Merged(store) /\ Compacted(u, store)
    BY CompactedForm
  <2>3. \/ a.store = u /\ a.reply = Store!Says(u, Store!NoBundle, FALSE)
        \/ a.store = store /\ a.reply = Store!Says(store, Store!NoBundle, FALSE)
    BY <2>1, <2>2, OtherForms
  <2>4. Within(u.content, t)
    BY <1>2, <2>2 DEF Compacted
  <2>. QED
    BY <1>1, <1>2, <2>3, <2>4, SaysTyped
<1>10. CASE s.op = "reject"
  <2>1. a \in Store!Rejecting
    BY <1>10, ActForms
  <2>2. PICK u \in Stores : u = Store!With(store, f) /\ Within(u.content, t)
    BY <1>2, <1>3, WithinGrown
  <2>3. a.store = store \/ a.store = u
    BY <1>3, <2>1, <2>2, OtherForms
  <2>4. a.reply = Store!NoReply \/ a.reply = Store!Says(store, Store!NoBundle, FALSE)
    BY <2>1, OtherForms
  <2>. QED
    BY <1>1, <1>2, <2>2, <2>3, <2>4, SaysTyped, NoReplyTyped
<1>11. CASE s.op \in {"fail_transaction", "kill_transaction"}
  <2>1. PICK u \in Stores : u = Store!With(store, t) /\ Within(u.content, t)
    BY <1>2, WithinGrown
  <2>2. /\ a.reply = Store!NoReply
        /\ \/ \E md \in {"up", "recovery"} : a.store = Moded(store, md) \/ a.store = Moded(u, md)
           \/ a.store = store \/ a.store = u
    <3>1. CASE s.op = "fail_transaction"
      <4>1. a \in Store!Failing(u)
        BY <1>1, <2>1, <3>1, ActForms
      <4>. QED
        BY <4>1, OtherForms
    <3>2. CASE s.op = "kill_transaction"
      BY <1>1, <2>1, <3>2, ActForms
    <3>. QED
      BY <1>11, <3>1, <3>2
  <2>3. \A md \in {"up", "recovery"} : \A st \in Stores : Moded(st, md) \in Stores /\ Same(Moded(st, md), st)
    BY SameForm
  <2>. QED
    BY <1>1, <1>2, <2>1, <2>2, <2>3, NoReplyTyped DEF Same
<1>12. CASE s.op \in {"fail_merge", "kill_merge"}
  <2>1. PICK u \in Stores : u = Store!Merged(store) /\ Compacted(u, store)
    BY CompactedForm
  <2>2. /\ a.reply = Store!NoReply
        /\ \/ \E md \in {"up", "recovery"} : a.store = Moded(store, md) \/ a.store = Moded(u, md)
           \/ a.store = store \/ a.store = u
    <3>1. CASE s.op = "fail_merge"
      <4>1. a \in Store!Failing(u)
        BY <1>1, <2>1, <3>1, ActForms
      <4>. QED
        BY <4>1, OtherForms
    <3>2. CASE s.op = "kill_merge"
      BY <1>1, <2>1, <3>2, ActForms
    <3>. QED
      BY <1>12, <3>1, <3>2
  <2>3. \A md \in {"up", "recovery"} : \A st \in Stores : Moded(st, md) \in Stores /\ Same(Moded(st, md), st)
    BY SameForm
  <2>4. Within(u.content, t)
    BY <1>2, <2>1 DEF Compacted
  <2>. QED
    BY <1>1, <1>2, <2>1, <2>2, <2>3, <2>4, NoReplyTyped DEF Same
<1>13. s.op \in StoreOps \ {"kill", "adopt"}
  BY DEF CaseSteps
<1>. QED
  BY <1>4, <1>5, <1>6, <1>7, <1>8, <1>9, <1>10, <1>11, <1>12, <1>13 DEF StoreOps

-----------------------------------------------------------------------------
(* The ledger grows. *)

(* What it says of what is stored and accepted it goes on to say. *)
LEMMA LedgerGrows ==
  ASSUME NEW l \in Seq(Events), NEW e \in Events
  PROVE  /\ Append(l, e) \in Seq(Events) /\ Len(Append(l, e)) = Len(l) + 1
         /\ \A i \in 1..Len(l) : Append(l, e)[i] = l[i]
         /\ Append(l, e)[Len(l) + 1] = e
         /\ \A c : Explained(c, l) => Explained(c, Append(l, e))
         /\ \A t : OnRecord(l, t) => OnRecord(Append(l, e), t)
         /\ \A a : Vouched(a, l) => Vouched(a, Append(l, e))
<1>0. PICK h : h = Append(l, e)
  OBVIOUS
<1>1. PICK k \in Nat : k = Len(l)
  <2>1. PICK E : E = Events
    OBVIOUS
  <2>2. l \in Seq(E)
    BY <2>1
  <2>3. Len(l) \in Nat
    BY <2>2
  <2>. QED
    BY <2>3
<1>2. h \in Seq(Events) /\ Len(h) = k + 1 /\ h[k + 1] = e /\ \A i \in 1..k : h[i] = l[i]
  <2>1. PICK E : E = Events
    OBVIOUS
  <2>2. l \in Seq(E) /\ e \in E
    BY <2>1
  <2>3. h \in Seq(E) /\ Len(h) = k + 1 /\ h[k + 1] = e /\ \A i \in 1..k : h[i] = l[i]
    BY <1>0, <1>1, <2>2
  <2>. QED
    BY <2>1, <2>3
<1>3. \A i \in 1..k : i \in 1..(k + 1)
  OBVIOUS
<1>4. ASSUME NEW c, Explained(c, l) PROVE Explained(c, h)
  <2>1. SUFFICES ASSUME NEW i \in 1..Len(c), c[i] # Store!Foreign
                 PROVE  \E x \in 1..Len(h) : h[x].kind = "request" /\ h[x].tok = c[i]
    BY DEF Explained
  <2>2. PICK x \in 1..k : l[x].kind = "request" /\ l[x].tok = c[i]
    BY <1>0, <1>1, <1>4, <2>1 DEF Explained
  <2>. QED
    BY <1>2, <1>3, <2>2
<1>5. ASSUME NEW t, OnRecord(l, t) PROVE OnRecord(h, t)
  <2>1. PICK x \in 1..k : l[x].kind = "response" /\ l[x].ok /\ l[x].tok = t
    BY <1>0, <1>1, <1>5 DEF OnRecord
  <2>2. x \in 1..Len(h) /\ h[x] = l[x]
    BY <1>2, <1>3
  <2>. QED
    BY <2>1, <2>2 DEF OnRecord
<1>6. ASSUME NEW a, Vouched(a, l) PROVE Vouched(a, h)
  BY <1>5, <1>6 DEF Vouched
<1>. QED
  BY <1>0, <1>1, <1>2, <1>4, <1>5, <1>6

(* A request or a note does not disturb what was verified. *)
LEMMA VerifiedGrows ==
  ASSUME NEW l \in Seq(Events), Store!Verified(l), NEW e \in Events, e.op # "torn",
         \/ e.kind # "response"
         \/ Len(l) # 0 /\ e.of = Len(l) /\ l[Len(l)].kind = "request"
  PROVE  Store!Verified(Append(l, e))
<1>0. PICK h : h = Append(l, e)
  OBVIOUS
<1>1. PICK k \in Nat : k = Len(l)
  <2>1. PICK E : E = Events
    OBVIOUS
  <2>2. l \in Seq(E)
    BY <2>1
  <2>3. Len(l) \in Nat
    BY <2>2
  <2>. QED
    BY <2>3
<1>2. h \in Seq(Events) /\ Len(h) = k + 1 /\ h[k + 1] = e /\ \A i \in 1..k : h[i] = l[i]
  <2>1. PICK E : E = Events
    OBVIOUS
  <2>2. l \in Seq(E) /\ e \in E
    BY <2>1
  <2>3. h \in Seq(E) /\ Len(h) = k + 1 /\ h[k + 1] = e /\ \A i \in 1..k : h[i] = l[i]
    BY <1>0, <1>1, <2>2
  <2>. QED
    BY <2>1, <2>3
<1>3. ASSUME NEW x \in 1..k
      PROVE  /\ h[x].op # "torn"
             /\ h[x].kind = "response" =>
                  /\ h[x].of \in 1..(x - 1) /\ h[h[x].of].kind = "request"
                  /\ \A f \in 1..(x - 1) : h[f].kind = "response" => h[f].of # h[x].of
  <2>1. /\ l[x].op # "torn"
        /\ l[x].kind = "response" =>
             /\ l[x].of \in 1..(x - 1) /\ l[l[x].of].kind = "request"
             /\ \A f \in 1..(x - 1) : l[f].kind = "response" => l[f].of # l[x].of
    BY <1>0, <1>1 DEF Store!Verified
  <2>2. \A f \in 1..(x - 1) : f \in 1..k
    OBVIOUS
  <2>. QED
    BY <1>2, <2>1, <2>2
<1>4. ASSUME e.kind = "response"
      PROVE  /\ e.of \in 1..k /\ h[e.of].kind = "request"
             /\ \A f \in 1..k : h[f].kind = "response" => h[f].of # e.of
  <2>1. k # 0 /\ e.of = k /\ l[k].kind = "request"
    BY <1>0, <1>1, <1>4
  <2>2. k \in 1..k
    BY <2>1
  <2>3. ASSUME NEW f \in 1..k, h[f].kind = "response" PROVE h[f].of # k
    <3>1. h[f].of \in 1..(f - 1)
      BY <1>3, <2>3
    <3>. QED
      BY <3>1
  <2>. QED
    BY <1>2, <2>1, <2>2, <2>3
<1>5. ASSUME NEW x \in 1..(k + 1)
      PROVE  /\ h[x].op # "torn"
             /\ h[x].kind = "response" =>
                  /\ h[x].of \in 1..(x - 1) /\ h[h[x].of].kind = "request"
                  /\ \A f \in 1..(x - 1) : h[f].kind = "response" => h[f].of # h[x].of
  <2>1. CASE x \in 1..k
    BY <1>3, <2>1
  <2>2. CASE x = k + 1
    <3>1. x - 1 = k
      BY <2>2
    <3>. QED
      BY <1>2, <1>4, <2>2, <3>1
  <2>. QED
    BY <2>1, <2>2
<1>. QED
  BY <1>0, <1>1, <1>2, <1>5 DEF Store!Verified

(* A reply is recorded against the last request. *)
LEMMA AskedLast ==
  ASSUME NEW s, ledger \in Seq(Events), Requested(s)
  PROVE  Store!Asked = Len(ledger)
<1>1. PICK k \in Nat : k = Len(ledger) /\ k # 0 /\ ledger[k].kind = "request"
  BY DEF Requested
<1>. DEFINE S == {0} \cup {i \in 1..k : ledger[i].kind = "request"}
<1>2. k \in S /\ \A i \in S : i \in Int /\ k >= i
  BY <1>1
<1>3. Store!Asked = Store!Max(S)
  BY <1>1 DEF Store!Asked
<1>. HIDE DEF S
<1>4. Store!Max(S) = CHOOSE x \in S : \A y \in S : x >= y
  BY DEF Store!Max
<1>5. \A x \in S : (\A y \in S : x >= y) => x = k
  BY <1>1, <1>2
<1>. QED
  BY <1>1, <1>2, <1>3, <1>4, <1>5

-----------------------------------------------------------------------------
(* The cases of an evaluation depend on what was asked for alone. *)
LEMMA CasesKept ==
  ASSUME depth' = depth, native' = native
  PROVE  Store!Cases' = Store!Cases
BY DEF Store!Cases

(* The steps of a case, and what they lead through. *)
LEMMA CasePlanned ==
  ASSUME NEW c \in Names
  PROVE  /\ Store!Steps(c) \in Seq(CaseSteps) /\ Len(Store!Steps(c)) \in Nat
         /\ \E f : /\ f[1] = Outset /\ Labelling(Drive, f, Store!Steps(c))
                  /\ ~f[Len(Store!Steps(c)) + 1].due
<1>1. PICK P, Q : P = Store!Steps(c) /\ Q = CaseSteps
  OBVIOUS
<1>2. CasePath(Outset, P, Stand("synced", FALSE))
  BY <1>1, CasesDriven
<1>3. P \in Seq(Q)
  BY <1>1, <1>2 DEF CasePath, Path
<1>4. Len(P) \in Nat
  BY <1>3
<1>5. PICK f : f[1] = Outset /\ f[Len(P) + 1] = Stand("synced", FALSE) /\ Labelling(Drive, f, P)
  BY <1>2 DEF CasePath, Path
<1>6. ~f[Len(P) + 1].due
  BY <1>5 DEF Stand
<1>. QED
  BY <1>1, <1>3, <1>4, <1>5, <1>6

(* The case at hand has a name. *)
LEMMA CaseNamed ==
  ASSUME NEW C \in Seq(Names), NEW k \in Nat \ {0}, k <= Len(C)
  PROVE  C[k] \in Names
<1>1. k \in 1..Len(C)
  OBVIOUS
<1>. QED
  BY <1>1

(* The step at hand: it leads from where the case is, to where it will be   *)
(* once the step is done.                                                   *)
Stays(l, s, m) ==
  (UNCHANGED <<depth, native, n, step>> /\ Reached(l, s, m)') => (\E f : Driven(f))'

GoesOn(m) ==
  (/\ UNCHANGED <<depth, native, n>> /\ step' = step + 1 /\ phase' = "ready"
   /\ HeldRecorded(m)' /\ Sound(wronged, m, oracle, store, held)')
  => (/\ \E f : Driven(f)
      /\ wronged => step <= Len(Store!Steps(Store!Cases[n])))'

(* While the drive runs a step of its case is at hand. *)
LEMMA StoreAtHand ==
  ASSUME StoreInv, Store!Running, step <= Len(Store!Steps(Store!Cases[n]))
  PROVE  \E l \in Stands, m \in Stands, s \in CaseSteps :
           /\ Store!Now = s /\ Drives(l, s, m) /\ Reached(l, s, m)
           /\ Stays(l, s, m) /\ GoesOn(m)
<1>0. StoreTyped /\ n <= Len(Store!Cases) /\ \E f : Driven(f)
  BY DEF StoreInv, Store!Running
<1>1. PICK P : P = Store!Steps(Store!Cases[n])
  OBVIOUS
<1>2. PICK f : Driving(f, P)
  BY <1>0, <1>1 DEF Driven
<1>3. Len(P) \in Nat
  <2>1. Store!Cases[n] \in Names
    BY <1>0, CasesNamed, CaseNamed DEF StoreTyped
  <2>. QED
    BY <1>1, <2>1, CasePlanned
<1>4. PICK k \in Nat, i \in Nat : k = Len(P) /\ i = step /\ i \in 1..k
  BY <1>0, <1>1, <1>3 DEF StoreTyped
<1>5. <<f[i], P[i], f[i + 1]>> \in Drive
  BY <1>2, <1>4 DEF Driving, Labelling
<1>6. PICK l \in Stands, s \in CaseSteps, m \in Stands :
        l = f[i] /\ s = P[i] /\ m = f[i + 1] /\ Drives(l, s, m)
  BY <1>5 DEF Drive
<1>7. Store!Now = s /\ Reached(l, s, m)
  BY <1>1, <1>2, <1>4, <1>6 DEF Store!Now, Driving
<1>8. ASSUME UNCHANGED <<depth, native, n>>
      PROVE  Store!Steps(Store!Cases[n])' = P
  <2>1. Store!Cases' = Store!Cases /\ n' = n
    BY <1>8, CasesKept
  <2>. QED
    BY <1>1, <2>1
<1>9. Stays(l, s, m)
  <2>1. SUFFICES ASSUME UNCHANGED <<depth, native, n, step>>, Reached(l, s, m)'
                 PROVE  (\E g : Driven(g))'
    BY DEF Stays
  <2>2. step' = i /\ step' <= k + 1 /\ step' <= k
    BY <1>4, <2>1
  <2>3. Driving(f, P)'
    BY <1>2, <1>4, <1>6, <2>1, <2>2 DEF Driving
  <2>. QED
    BY <1>8, <2>1, <2>3 DEF Driven
<1>10. GoesOn(m)
  <2>1. SUFFICES ASSUME UNCHANGED <<depth, native, n>>, step' = step + 1, phase' = "ready",
                        HeldRecorded(m)', Sound(wronged, m, oracle, store, held)'
                 PROVE  (/\ \E g : Driven(g)
                         /\ wronged => step <= Len(Store!Steps(Store!Cases[n])))'
    BY DEF GoesOn
  <2>2. step' = i + 1 /\ step' <= k + 1
    BY <1>4, <2>1
  <2>3. Reached(m, P[i + 1], f[i + 2])'
    BY <2>1 DEF Reached
  <2>4. i + 1 + 1 = i + 2
    OBVIOUS
  <2>5. Driving(f, P)'
    BY <1>2, <1>4, <1>6, <2>1, <2>2, <2>3, <2>4 DEF Driving
  <2>6. ASSUME wronged' PROVE step' <= k
    <3>1. m.due
      BY <2>1, <2>6 DEF Sound, Swapped
    <3>2. ~f[k + 1].due
      BY <1>2, <1>4 DEF Driving
    <3>3. i # k
      BY <1>6, <3>1, <3>2
    <3>. QED
      BY <1>4, <2>2, <3>3
  <2>. QED
    BY <1>4, <1>8, <2>1, <2>5, <2>6 DEF Driven
<1>. QED
  BY <1>6, <1>7, <1>9, <1>10

-----------------------------------------------------------------------------
(* What the evaluator makes of a reply, said of the oracle it holds.        *)
LEMMA ReplyJudged ==
  /\ \A t : Store!Acknowledged(t) <=> Known(oracle, t)
  /\ Store!Count = Total(oracle)
  /\ \A r, head, pending : Store!Metadata(r, head, pending) <=> Fits(oracle, r, head, pending)
  /\ \A t, r, resolving, after :
       Store!Acceptable(t, r, resolving, after) <=> Takes(oracle, t, r, resolving, after)
<1>1. \A t : Store!Acknowledged(t) <=> Known(oracle, t)
  BY DEF Store!Acknowledged, Store!Has, Known
<1>2. Store!Count = Total(oracle)
  BY DEF Store!Count, Total
<1>3. \A r, head, pending : Store!Metadata(r, head, pending) <=> Fits(oracle, r, head, pending)
  BY DEF Store!Metadata, Fits
<1>4. ASSUME NEW t, NEW r, NEW resolving, NEW after
      PROVE  Store!Acceptable(t, r, resolving, after) <=> Takes(oracle, t, r, resolving, after)
  <2>1. CASE Known(oracle, t)
    BY <1>1, <1>2, <1>3, <2>1 DEF Store!Acceptable, Takes
  <2>2. CASE ~Known(oracle, t)
    BY <1>1, <1>2, <1>3, <2>2 DEF Store!Acceptable, Takes
  <2>. QED
    BY <2>1, <2>2
<1>. QED
  BY <1>1, <1>2, <1>3, <1>4

(* Good asks of a reply what Satisfies says. *)
LEMMA GoodSatisfies ==
  ASSUME NEW s, Store!Now = s, NEW r,
         s.op \in StoreOps \ {"kill", "adopt", "kill_merge", "kill_transaction"}
  PROVE  Store!Good(r) <=> Satisfies(s, oracle, store, r)
<1>1. CASE s.op = "build" \/ s.op = "stats"
  BY <1>1, ReplyJudged, SatisfiesOp DEF Store!Good
<1>2. CASE s.op = "open"
  BY <1>2, ReplyJudged, SatisfiesOp DEF Store!Good
<1>3. CASE s.op = "transaction"
  BY <1>3, ReplyJudged, SatisfiesOp DEF Store!Good
<1>4. CASE s.op \in {"merge", "checkpoint"}
  BY <1>4, ReplyJudged, SatisfiesOp DEF Store!Good
<1>5. CASE s.op = "reject"
  BY <1>5, ReplyJudged, SatisfiesOp DEF Store!Good, Store!Expected
<1>6. CASE s.op \in {"export", "query"}
  BY <1>6, SatisfiesOp DEF Store!Good, Store!Exported, Store!Expected
<1>7. CASE s.op \in {"hello", "fault", "fail_transaction", "fail_merge"}
  BY <1>7, SatisfiesOp DEF Store!Good
<1>8. CASE s.op = "adopt_first"
  BY <1>8, ReplyJudged, SatisfiesOp DEF Store!Good
<1>9. CASE s.op \in {"continue", "close"}
  BY <1>9, SatisfiesOp DEF Store!Good
<1>. QED
  BY <1>1, <1>2, <1>3, <1>4, <1>5, <1>6, <1>7, <1>8, <1>9 DEF StoreOps

(* Noted and accepted, the oracle tells what After says. *)
LEMMA OracleNotes ==
  ASSUME oracle \in Oracles, NEW t, NEW r
  PROVE  /\ Store!Noted(r) = Tells(oracle, r) /\ Store!Accepted(t, r) = Took(oracle, t, r)
<1>1. PICK o \in Oracles : o = oracle
  OBVIOUS
<1>2. ASSUME NEW g, NEW k
      PROVE  [o EXCEPT !.gen = g, !.ckpt = k] = [accepted |-> o.accepted, gen |-> g, ckpt |-> k]
  <2>1. PICK u : u = [o EXCEPT !.gen = g]
    OBVIOUS
  <2>2. u = [accepted |-> o.accepted, gen |-> g, ckpt |-> o.ckpt]
    BY <2>1 DEF Oracles
  <2>3. [u EXCEPT !.ckpt = k] = [accepted |-> o.accepted, gen |-> g, ckpt |-> k]
    BY <2>2
  <2>. QED
    BY <2>1, <2>3
<1>3. Store!Noted(r) = Tells(oracle, r)
  BY <1>1, <1>2 DEF Store!Noted, Tells
<1>4. Store!Prepared(t) = IF Known(oracle, t) THEN oracle.accepted ELSE Append(oracle.accepted, t)
  BY ReplyJudged DEF Store!Prepared
<1>5. PICK g, k, c, p : g = r.gen /\ k = r.ckpt /\ c = oracle.accepted /\ p = Store!Prepared(t)
  OBVIOUS
<1>6. [[accepted |-> c, gen |-> g, ckpt |-> k] EXCEPT !.accepted = p]
        = [accepted |-> p, gen |-> g, ckpt |-> k]
  OBVIOUS
<1>7. Store!Accepted(t, r) = [accepted |-> p, gen |-> g, ckpt |-> k]
  BY <1>3, <1>5, <1>6 DEF Store!Accepted, Tells
<1>. QED
  BY <1>3, <1>4, <1>5, <1>7 DEF Took

(* What the oracle has learned. *)
LEMMA LearnedAfter ==
  ASSUME NEW s, Store!Now = s, oracle \in Oracles, NEW r
  PROVE  Store!Learned(r) = After(s, oracle, r)
<1>1. CASE s.op \in {"build", "open", "merge", "checkpoint", "stats"}
  BY <1>1, OracleNotes, AfterOp DEF Store!Learned
<1>2. CASE s.op \in {"transaction", "adopt_first"}
  BY <1>2, OracleNotes, AfterOp DEF Store!Learned
<1>3. CASE s.op \notin {"build", "open", "merge", "checkpoint", "stats", "transaction", "adopt_first"}
  BY <1>3, AfterOp DEF Store!Learned
<1>. QED
  BY <1>1, <1>2, <1>3

(* It stays an oracle, and vouches for no more than it did and what was     *)
(* just accepted.                                                           *)
LEMMA AfterTyped ==
  ASSUME NEW s \in CaseSteps, oracle \in Oracles, NEW r \in Replies,
         s.op \in {"transaction", "adopt_first", "adopt"} => s.tok \in Store!Tokens
  PROVE  /\ Tells(oracle, r) \in Oracles /\ Tells(oracle, r).accepted = oracle.accepted
         /\ s.tok \in Store!Tokens =>
              /\ Took(oracle, s.tok, r) \in Oracles
              /\ \A x : Has(Took(oracle, s.tok, r).accepted, x) => Has(oracle.accepted, x) \/ x = s.tok
<1>0. PICK T : T = Store!Tokens
  OBVIOUS
<1>1. PICK g \in Int, k \in Int : g = r.gen /\ k = r.ckpt
  BY DEF Replies
<1>2. PICK c \in Seq(T) : c = oracle.accepted
  BY <1>0 DEF Oracles
<1>3. \A p \in Seq(T) : [accepted |-> p, gen |-> g, ckpt |-> k] \in Oracles
  BY <1>0 DEF Oracles
<1>4. Tells(oracle, r) \in Oracles /\ Tells(oracle, r).accepted = oracle.accepted
  BY <1>1, <1>2, <1>3 DEF Tells
<1>5. ASSUME s.tok \in Store!Tokens
      PROVE  /\ Took(oracle, s.tok, r) \in Oracles
             /\ \A x : Has(Took(oracle, s.tok, r).accepted, x) => Has(oracle.accepted, x) \/ x = s.tok
  <2>1. PICK t \in T : t = s.tok
    BY <1>0, <1>5
  <2>2. PICK p : p = IF Known(oracle, t) THEN c ELSE Append(c, t)
    OBVIOUS
  <2>3. p \in Seq(T) /\ \A x : Has(p, x) => Has(c, x) \/ x = t
    <3>1. Append(c, t) \in Seq(T) /\ \A x : Has(Append(c, t), x) <=> (Has(c, x) \/ x = t)
      BY HasAppend
    <3>. QED
      BY <2>2, <3>1
  <2>4. Took(oracle, t, r) = [accepted |-> p, gen |-> g, ckpt |-> k]
    BY <1>1, <1>2, <2>2 DEF Took
  <2>5. Took(oracle, t, r).accepted = p
    BY <2>4
  <2>. QED
    BY <1>2, <1>3, <2>1, <2>3, <2>4, <2>5
<1>. QED
  BY <1>4, <1>5

-----------------------------------------------------------------------------
(* A ledger that accounts for what is stored and what is accepted. *)
Accounts(c, a, l) == l \in Seq(Events) /\ Explained(c, l) /\ Vouched(a, l) /\ Store!Verified(l)

(* What a note says. *)
LEMMA NotingTyped ==
  \A op \in {"external_process_kill", "fault_pause_observed", "transport_failure", "torn"} :
    /\ Store!Noting(op) \in Events /\ Store!Noting(op).kind = "note" /\ Store!Noting(op).op = op
<1>1. -1 \in Int /\ 0 \in Nat
  OBVIOUS
<1>. QED
  BY <1>1 DEF Store!Noting, Store!NoBundle, Events

(* A note leaves the ledger accounting for what it did. *)
LEMMA NotingAccounts ==
  ASSUME NEW c, NEW a, NEW l, Accounts(c, a, l),
         NEW op \in {"external_process_kill", "fault_pause_observed", "transport_failure"}
  PROVE  Accounts(c, a, Append(l, Store!Noting(op)))
<1>1. PICK e \in Events : e = Store!Noting(op) /\ e.kind = "note" /\ e.op # "torn"
  BY NotingTyped
<1>2. l \in Seq(Events) /\ Explained(c, l) /\ Vouched(a, l) /\ Store!Verified(l)
  BY DEF Accounts
<1>3. Append(l, e) \in Seq(Events) /\ Explained(c, Append(l, e)) /\ Vouched(a, Append(l, e))
  BY <1>2, LedgerGrows
<1>4. Store!Verified(Append(l, e))
  BY <1>1, <1>2, VerifiedGrows
<1>. QED
  BY <1>1, <1>3, <1>4 DEF Accounts

(* A store that is taken down keeps what it holds. *)
LEMMA DownForm ==
  ASSUME NEW st \in Stores
  PROVE  /\ [st EXCEPT !.mode = "down"] = Down(st) /\ Down(st) \in Stores
         /\ Same(Down(st), st) /\ Down(st).mode = "down"
<1>1. /\ Moded(st, "down") = Down(st) /\ Moded(st, "down") \in Stores
      /\ Same(Moded(st, "down"), st) /\ Moded(st, "down").mode = "down"
  BY ModeFields DEF Down, Same
<1>2. [st EXCEPT !.mode = "down"] = Moded(st, "down")
  BY DEF Moded
<1>. QED
  BY <1>1, <1>2

(* What StoreInv says of the ledger while the evaluation runs. *)
LEMMA InvAccounts ==
  ASSUME StoreInv, verdict.status # "crashed"
  PROVE  Accounts(store.content, oracle.accepted, ledger)
BY DEF StoreInv, StoreTyped, Accounts

(* The verdict on what has ended. *)
LEMMA EndedTyped ==
  ASSUME NEW status \in {"failed", "crashed"}, Store!Ended(status)
  PROVE  /\ verdict' \in [status : {"running", "failed", "crashed", "eligible", "ineligible"},
                          quality : BOOLEAN]
         /\ verdict'.status = status /\ verdict'.quality = FALSE
BY DEF Store!Ended

(* An evaluation that fails, for a breach or for something else. *)
LEMMA FailKept ==
  ASSUME StoreInv, verdict.status = "running", NEW lg,
         Accounts(store.content, oracle.accepted, lg), Store!Fail(lg),
         UNCHANGED <<depth, native, n, step, phase, oracle, wronged>>,
         reply' \in Replies, held' \in Replies, troubled' \in BOOLEAN, wronged \/ troubled'
  PROVE  StoreInv'
<1>1. StoreTyped /\ Judged
  BY DEF StoreInv
<1>2. Store!Cases' = Store!Cases /\ Store!Steps(Store!Cases[n])' = Store!Steps(Store!Cases[n])
  BY CasesKept
<1>3. store' \in Stores /\ store'.content = store.content
  BY <1>1, DownForm DEF Store!Fail, Same, StoreTyped
<1>4. Accounts(store.content, oracle.accepted, ledger')
  BY NotingAccounts DEF Store!Fail
<1>5. /\ verdict' \in [status : {"running", "failed", "crashed", "eligible", "ineligible"},
                       quality : BOOLEAN]
      /\ verdict'.status = "failed" /\ verdict'.quality = FALSE
  BY EndedTyped DEF Store!Fail
<1>6. StoreTyped'
  BY <1>1, <1>3, <1>4, <1>5 DEF StoreTyped, Accounts
<1>7. Judged'
  BY <1>1, <1>2, <1>5 DEF Judged
<1>8. Explained(store.content, ledger)' /\ Vouched(oracle.accepted, ledger)' /\ Store!Verified(ledger)'
  BY <1>3, <1>4 DEF Accounts
<1>. QED
  BY <1>5, <1>6, <1>7, <1>8 DEF StoreInv

(* Whatever else goes wrong fails it. *)
LEMMA TroubledKept ==
  ASSUME StoreInv,
         \/ Store!Unprepared \/ Store!Interrupted \/ Store!Trouble \/ Store!Undiagnosed
         \/ Store!Unpackaged
  PROVE  StoreInv'
<1>1. PICK lg : Store!Troubled(lg) /\ (lg = ledger \/ lg = Store!Note("transport_failure"))
  BY DEF Store!Unprepared, Store!Interrupted, Store!Trouble, Store!Undiagnosed, Store!Unpackaged
<1>2. verdict.status = "running" /\ troubled' = TRUE /\ Store!Fail(lg)
  BY <1>1 DEF Store!Troubled
<1>3. UNCHANGED <<depth, native, n, step, phase, oracle, wronged, reply, held>>
  BY <1>1 DEF Store!Troubled, Store!setting
<1>4. Accounts(store.content, oracle.accepted, lg)
  BY <1>1, <1>2, InvAccounts, NotingAccounts DEF Store!Note
<1>. QED
  BY <1>2, <1>3, <1>4, FailKept DEF StoreInv, StoreTyped

(* The evaluator dies. *)
LEMMA CrashKept ==
  ASSUME StoreInv, Store!Crash
  PROVE  StoreInv'
<1>1. StoreTyped /\ Judged
  BY DEF StoreInv
<1>2. UNCHANGED <<depth, native, n, step, phase, reply, held, oracle, wronged>> /\ troubled' = TRUE
  BY DEF Store!Crash, Store!setting
<1>3. Store!Cases' = Store!Cases /\ Store!Steps(Store!Cases[n])' = Store!Steps(Store!Cases[n])
  BY <1>2, CasesKept
<1>4. store' \in Stores /\ store'.content = store.content
  BY <1>1, DownForm DEF Store!Crash, Same, StoreTyped
<1>5. /\ verdict' \in [status : {"running", "failed", "crashed", "eligible", "ineligible"},
                       quality : BOOLEAN]
      /\ verdict'.status = "crashed" /\ verdict'.quality = FALSE
  BY EndedTyped DEF Store!Crash
<1>6. /\ ledger' \in Seq(Events) /\ Explained(store.content, ledger')
      /\ Vouched(oracle.accepted, ledger')
  <2>1. PICK e \in Events : e = Store!Noting("torn")
    BY NotingTyped
  <2>2. ledger' = ledger \/ ledger' = Append(ledger, e)
    BY <2>1 DEF Store!Crash, Store!Note
  <2>3. ledger \in Seq(Events) /\ Explained(store.content, ledger) /\ Vouched(oracle.accepted, ledger)
    BY DEF StoreInv, StoreTyped
  <2>. QED
    BY <2>2, <2>3, LedgerGrows
<1>7. StoreTyped'
  BY <1>1, <1>2, <1>4, <1>5, <1>6 DEF StoreTyped
<1>8. Judged'
  BY <1>1, <1>2, <1>3, <1>5 DEF Judged
<1>. QED
  BY <1>2, <1>4, <1>5, <1>6, <1>7, <1>8 DEF StoreInv

(* All cases done, it concludes. *)
LEMMA StoreConcludeKept ==
  ASSUME StoreInv, Store!Conclude
  PROVE  StoreInv'
<1>1. StoreTyped /\ Judged
  BY DEF StoreInv
<1>2. UNCHANGED <<depth, native, n, step, phase, reply, held, ledger, oracle, store, wronged, troubled>>
  BY DEF Store!Conclude, Store!setting
<1>3. verdict.status = "running" /\ n > Len(Store!Cases)
  BY DEF Store!Conclude
<1>4. PICK status \in {"eligible", "ineligible"} : verdict' = [status |-> status, quality |-> TRUE]
  BY DEF Store!Conclude
<1>5. /\ verdict' \in [status : {"running", "failed", "crashed", "eligible", "ineligible"},
                       quality : BOOLEAN]
      /\ verdict'.status \in {"eligible", "ineligible"}
  BY <1>4
<1>6. ~wronged
  <2>1. n \in Nat /\ Len(Store!Cases) \in Nat
    BY <1>1, CasesNamed DEF StoreTyped
  <2>. QED
    BY <1>1, <1>3, <2>1 DEF Judged
<1>7. StoreTyped'
  BY <1>1, <1>2, <1>5 DEF StoreTyped
<1>8. Judged'
  BY <1>2, <1>5, <1>6 DEF Judged
<1>9. (/\ Explained(store.content, ledger) /\ Vouched(oracle.accepted, ledger)
       /\ Store!Verified(ledger))'
  BY <1>2, <1>3, InvAccounts DEF Accounts
<1>. QED
  BY <1>5, <1>7, <1>8, <1>9 DEF StoreInv

-----------------------------------------------------------------------------
(* While the evaluation runs. *)
LEMMA RunsOn ==
  ASSUME StoreInv, Store!Running, UNCHANGED <<depth, native, n, verdict>>, StoreTyped',
         Accounts(store.content, oracle.accepted, ledger)', (\E f : Driven(f))',
         (wronged => step <= Len(Store!Steps(Store!Cases[n])))'
  PROVE  StoreInv'
<1>1. Store!Cases' = Store!Cases
  BY CasesKept
<1>2. verdict'.status = "running" /\ verdict'.quality = FALSE /\ n' <= Len(Store!Cases')
  BY <1>1 DEF Store!Running, StoreInv, StoreTyped, Judged
<1>3. Judged'
  BY <1>2 DEF Judged
<1>. QED
  BY <1>2, <1>3 DEF StoreInv, Accounts

(* A step is at hand unless the case is over. *)
LEMMA StepAtHand ==
  ASSUME StoreInv, Store!Running, phase # "ready" \/ ~Store!Over
  PROVE  step <= Len(Store!Steps(Store!Cases[n]))
<1>1. Store!Cases[n] \in Names
  BY CasesNamed, CaseNamed DEF StoreInv, StoreTyped, Store!Running
<1>2. PICK k \in Nat, i \in Nat : k = Len(Store!Steps(Store!Cases[n])) /\ i = step
  BY <1>1, CasePlanned DEF StoreInv, StoreTyped
<1>3. CASE phase # "ready"
  BY <1>3 DEF StoreInv, Store!Running, Driven, Driving
<1>4. CASE ~Store!Over
  BY <1>2, <1>4 DEF Store!Over
<1>. QED
  BY <1>3, <1>4

(* The step's token is a number. *)
LEMMA StepTyped ==
  ASSUME NEW s \in CaseSteps
  PROVE  s.tok \in Int /\ s.op \in StoreOps
<1>1. PICK t : t = s.tok
  OBVIOUS
<1>2. t \in Store!Tokens \/ t = -1
  BY <1>1, FirstTokens DEF CaseSteps
<1>3. \A x \in Store!Tokens : x \in Int
  BY FirstTokens
<1>4. t \in Int
  BY <1>2, <1>3
<1>. QED
  BY <1>1, <1>4 DEF CaseSteps

(* What an entry of the ledger says, of the step at hand. *)
LEMMA EventTyped ==
  ASSUME NEW s \in CaseSteps, Store!Now = s, NEW kind \in {"request", "response"},
         NEW of \in Nat, NEW ok \in BOOLEAN
  PROVE  \E e \in Events : /\ e = Store!Event(kind, of, ok) /\ e.kind = kind /\ e.of = of /\ e.tok = s.tok
                           /\ e.ok = ok /\ e.op # "torn"
<1>1. PICK t \in Int, p \in StoreOps : t = s.tok /\ p = s.op
  BY StepTyped
<1>2. PICK e : e = [kind |-> kind, of |-> of, op |-> p, tok |-> t, ok |-> ok]
  OBVIOUS
<1>3. e = Store!Event(kind, of, ok)
  BY <1>1, <1>2 DEF Store!Event
<1>4. e \in Events
  BY <1>2 DEF Events
<1>5. p # "torn"
  BY DEF StoreOps
<1>. QED
  BY <1>1, <1>2, <1>3, <1>4, <1>5

(* How things stand is read off these alone. *)
LEMMA SoundKept ==
  ASSUME NEW w, NEW l, NEW o, NEW st, NEW h, flaw' = flaw, Sound(w, l, o, st, h)
  PROVE  Sound(w, l, o, st, h)'
BY DEF Sound, Swapped

(* What was on record is. *)
LEMMA RecordKept ==
  ASSUME NEW l, HeldRecorded(l), held' = held,
         \A t : OnRecord(ledger, t) => OnRecord(ledger', t)
  PROVE  HeldRecorded(l)'
BY DEF HeldRecorded

(* A request goes into the ledger before it is sent. *)
LEMMA AskKept ==
  ASSUME StoreInv, Store!Ask
  PROVE  StoreInv'
<1>1. /\ Store!Running /\ step <= Len(Store!Steps(Store!Cases[n]))
      /\ phase = "ready" /\ phase' = "asked"
      /\ Store!Now.op \notin {"kill", "adopt"} /\ (Store!Now.op = "adopt_first" => Store!FirstCommitted)
      /\ ledger' = Append(ledger, Store!Event("request", 0, FALSE))
  BY StepAtHand DEF Store!Ask, Store!IsCall, Store!Request
<1>2. UNCHANGED <<depth, native, flaw, n, step, reply, held, oracle, store, wronged, troubled, verdict>>
  BY DEF Store!Ask, Store!setting
<1>3. PICK l \in Stands, m \in Stands, s \in CaseSteps :
        Store!Now = s /\ Drives(l, s, m) /\ Reached(l, s, m) /\ Stays(l, s, m)
  BY <1>1, StoreAtHand
<1>4. PICK e \in Events : /\ e = Store!Event("request", 0, FALSE) /\ e.kind = "request" /\ e.tok = s.tok
                          /\ e.op # "torn"
  <2>1. PICK no \in BOOLEAN, z \in Nat, kind \in {"request", "response"} :
          no = FALSE /\ z = 0 /\ kind = "request"
    OBVIOUS
  <2>2. \E e \in Events : /\ e = Store!Event(kind, z, no) /\ e.kind = kind /\ e.tok = s.tok
                          /\ e.op # "torn"
    BY <1>3, EventTyped
  <2>. QED
    BY <2>1, <2>2
<1>5. Accounts(store.content, oracle.accepted, ledger) /\ StoreTyped
  BY <1>1, InvAccounts DEF Store!Running, StoreInv
<1>6. /\ ledger \in Seq(Events) /\ Store!Verified(ledger)
      /\ Explained(store.content, ledger) /\ Vouched(oracle.accepted, ledger)
  BY <1>5 DEF Accounts
<1>7. ledger' = Append(ledger, e)
  BY <1>1, <1>4
<1>8. PICK k \in Nat : k = Len(ledger)
  <2>1. PICK E : E = Events
    OBVIOUS
  <2>2. ledger \in Seq(E)
    BY <1>6, <2>1
  <2>. QED
    BY <2>2
<1>9. /\ ledger' \in Seq(Events) /\ Len(ledger') = k + 1 /\ ledger'[k + 1] = e
      /\ Explained(store.content, ledger') /\ Vouched(oracle.accepted, ledger')
      /\ \A t : OnRecord(ledger, t) => OnRecord(ledger', t)
  BY <1>6, <1>7, <1>8, LedgerGrows
<1>10. Store!Verified(ledger')
  BY <1>4, <1>6, <1>7, VerifiedGrows
<1>11. Accounts(store.content, oracle.accepted, ledger)'
  BY <1>2, <1>9, <1>10 DEF Accounts
<1>12. StoreTyped'
  BY <1>1, <1>2, <1>5, <1>9 DEF StoreTyped
<1>13. Requested(s)'
  <2>1. k + 1 \in Nat \ {0}
    BY <1>8
  <2>. QED
    BY <1>1, <1>3, <1>4, <1>9, <2>1 DEF Requested
<1>14. Reached(l, s, m)'
  <2>1. HeldRecorded(l) /\ Sound(wronged, l, oracle, store, held)
    BY <1>1, <1>3 DEF Reached
  <2>2. HeldRecorded(l)' /\ Sound(wronged, l, oracle, store, held)'
    BY <1>2, <1>9, <2>1, RecordKept DEF Sound, Swapped
  <2>3. s.op = "adopt_first" => Store!FirstCommitted'
    BY <1>1, <1>2, <1>3 DEF Store!FirstCommitted, Store!Count
  <2>. QED
    BY <1>1, <1>13, <2>2, <2>3 DEF Reached
<1>15. (\E f : Driven(f))'
  BY <1>2, <1>3, <1>14 DEF Stays
<1>16. (wronged => step <= Len(Store!Steps(Store!Cases[n])))'
  BY <1>1, <1>2, CasesKept
<1>. QED
  BY <1>1, <1>2, <1>11, <1>12, <1>15, <1>16, RunsOn

(* A step is done: the case goes on from where it led. *)
LEMMA StepKept ==
  ASSUME StoreInv, Store!Running, UNCHANGED <<depth, native, n, verdict>>, StoreTyped',
         Accounts(store.content, oracle.accepted, ledger)', Store!StepDone,
         NEW m, GoesOn(m), HeldRecorded(m)', Sound(wronged, m, oracle, store, held)'
  PROVE  StoreInv'
<1>1. step' = step + 1 /\ phase' = "ready"
  BY DEF Store!StepDone
<1>2. (/\ \E f : Driven(f)
       /\ wronged => step <= Len(Store!Steps(Store!Cases[n])))'
  BY <1>1 DEF GoesOn
<1>. QED
  BY <1>2, RunsOn

-----------------------------------------------------------------------------
(* A continuation that was not tried, for want of the transaction it would  *)
(* have followed.                                                           *)
LEMMA SkipKept ==
  ASSUME StoreInv, Store!Skip
  PROVE  StoreInv'
<1>1. /\ Store!Running /\ step <= Len(Store!Steps(Store!Cases[n])) /\ phase = "ready"
      /\ Store!Now.op = "adopt_first" /\ ~Store!FirstCommitted /\ Store!StepDone
  BY StepAtHand DEF Store!Skip
<1>2. UNCHANGED <<depth, native, flaw, n, reply, held, ledger, oracle, store, wronged, troubled, verdict>>
  BY DEF Store!Skip, Store!setting
<1>3. PICK l \in Stands, m \in Stands, s \in CaseSteps :
        Store!Now = s /\ Drives(l, s, m) /\ Reached(l, s, m) /\ GoesOn(m)
  BY <1>1, StoreAtHand
<1>4. m.due = l.due /\ l.kind = "continued" /\ m.kind = "adopting"
  BY <1>1, <1>3, DrivesOp DEF Adopts
<1>5. HeldRecorded(l) /\ Sound(wronged, l, oracle, store, held)
  BY <1>1, <1>3 DEF Reached
<1>6. Sound(wronged, m, oracle, store, held)
  <2>1. ASSUME ~wronged PROVE Standing(m, oracle, store, held)
    <3>1. Standing(l, oracle, store, held)
      BY <1>5, <2>1 DEF Sound
    <3>2. /\ Few(oracle) /\ Level(oracle, store)
          /\ IF held.ok
             THEN /\ LastReply(held, store)
                  /\ \/ store.content = Append(oracle.accepted, 3)
                     \/ store.content = Append(Append(oracle.accepted, 2), 3)
             ELSE Loose(oracle, store)
      BY <1>4, <3>1 DEF Standing
    <3>3. PICK c : c \in Seq(Store!Tokens) /\ c = oracle.accepted
      BY DEF StoreInv, StoreTyped, Oracles
    <3>4. PICK a, b : a = Append(c, 3) /\ b = Append(Append(c, 2), 3)
      OBVIOUS
    <3>5. 2 \in Store!Tokens /\ 3 \in Store!Tokens
      BY FirstTokens
    <3>6. Append(c, 2) \in Seq(Store!Tokens) /\ Len(Append(c, 2)) = Len(c) + 1
      BY <3>3, <3>5, HasAppend
    <3>7. Len(b) = Len(c) + 2
      <4>1. PICK d : d = Append(c, 2)
        OBVIOUS
      <4>2. Len(Append(d, 3)) = Len(d) + 1
        BY <3>5, <3>6, <4>1, HasAppend
      <4>3. PICK k \in Nat : k = Len(c)
        BY <3>3
      <4>. QED
        BY <3>4, <3>6, <4>1, <4>2, <4>3
    <3>8. ASSUME held.ok PROVE store.content = a
      <4>1. held.txid # Len(c) + 2
        BY <1>1, <3>3, <3>8 DEF Store!FirstCommitted, Store!Count
      <4>2. store.content # b
        BY <3>2, <3>7, <3>8, <4>1 DEF LastReply
      <4>. QED
        BY <3>2, <3>3, <3>4, <3>8, <4>2
    <3>9. ~Known(oracle, 3)
      BY <3>2, <3>5 DEF Few
    <3>. QED
      BY <1>4, <3>2, <3>3, <3>4, <3>8, <3>9 DEF Standing
  <2>2. ASSUME wronged PROVE Swapped(m, store)
    BY <1>4, <1>5, <2>2 DEF Sound, Swapped
  <2>. QED
    BY <2>1, <2>2 DEF Sound
<1>7. Sound(wronged, m, oracle, store, held)' /\ HeldRecorded(m)'
  BY <1>2, <1>4, <1>5, <1>6 DEF Sound, Swapped, HeldRecorded
<1>8. Accounts(store.content, oracle.accepted, ledger)'
  BY <1>1, <1>2, InvAccounts DEF Store!Running
<1>9. StoreTyped'
  BY <1>1, <1>2 DEF StoreInv, StoreTyped, Store!StepDone
<1>. QED
  BY <1>1, <1>2, <1>3, <1>7, <1>8, <1>9, StepKept

(* The store is killed: at rest, or in an operation. *)
LEMMA KillStoreKept ==
  ASSUME StoreInv, Store!KillStore
  PROVE  StoreInv'
<1>1. /\ Store!Running /\ step <= Len(Store!Steps(Store!Cases[n])) /\ Store!StepDone
      /\ \/ Store!Now.op = "kill" /\ phase = "ready"
         \/ Store!Now.op \in {"kill_merge", "kill_transaction"} /\ phase = "answered"
      /\ store' = [store EXCEPT !.mode = "down"]
  BY StepAtHand DEF Store!KillStore
<1>2. UNCHANGED <<depth, native, flaw, n, reply, held, oracle, wronged, troubled, verdict>>
  BY DEF Store!KillStore, Store!setting
<1>3. PICK l \in Stands, m \in Stands, s \in CaseSteps :
        Store!Now = s /\ Drives(l, s, m) /\ Reached(l, s, m) /\ GoesOn(m)
  BY <1>1, StoreAtHand
<1>4. Kills(l, s, m)
  BY <1>1, <1>3, DrivesOp
<1>5. store \in Stores
  BY DEF StoreInv, StoreTyped
<1>6. /\ store' = Down(store) /\ store' \in Stores /\ Same(Down(store), store)
      /\ Down(store).mode = "down"
  BY <1>1, <1>5, DownForm
<1>7. Sound(wronged, m, oracle, Down(store), held)
  <2>1. CASE s.op = "kill"
    <3>1. /\ Sound(wronged, l, oracle, store, held) /\ m.due = l.due /\ m.kind = l.kind
          /\ l.kind \in {"synced", "ahead", "loose"}
      BY <1>1, <1>3, <1>4, <2>1 DEF Kills, Reached
    <3>2. ASSUME wronged PROVE Swapped(m, Down(store))
      BY <1>6, <3>1, <3>2 DEF Sound, Swapped, Same
    <3>3. ASSUME ~wronged PROVE Standing(m, oracle, Down(store), held)
      <4>1. Standing(l, oracle, store, held)
        BY <3>1, <3>3 DEF Sound
      <4>2. CASE l.kind = "synced"
        <5>1. Synced(oracle, store)
          BY <4>1, <4>2 DEF Standing
        <5>2. Synced(oracle, Down(store))
          BY <1>6, <5>1 DEF Synced, Level, Same
        <5>. QED
          BY <3>1, <4>2, <5>2 DEF Standing
      <4>3. CASE l.kind = "ahead"
        <5>1. Ahead(oracle, store)
          BY <4>1, <4>3 DEF Standing
        <5>2. Ahead(oracle, Down(store))
          BY <1>6, <5>1 DEF Ahead, Above, Same
        <5>. QED
          BY <3>1, <4>3, <5>2 DEF Standing
      <4>4. CASE l.kind = "loose"
        <5>1. Loose(oracle, store)
          BY <4>1, <4>4 DEF Standing
        <5>2. Loose(oracle, Down(store))
          BY <1>6, <5>1 DEF Loose, Level, Same
        <5>. QED
          BY <3>1, <4>4, <5>2 DEF Standing
      <4>. QED
        BY <3>1, <4>2, <4>3, <4>4
    <3>. QED
      BY <3>2, <3>3 DEF Sound
  <2>2. CASE s.op \in {"kill_merge", "kill_transaction"}
    <3>1. Answered(wronged, s, m, oracle, store, reply, held) /\ InKill(s)
      BY <1>1, <1>3, <2>2 DEF Reached, InKill
    <3>. QED
      BY <3>1 DEF Answered
  <2>. QED
    BY <1>1, <1>3, <2>1, <2>2
<1>8. m.kind \notin {"continued", "adopting", "merging"}
  BY <1>4 DEF Kills
<1>9. Sound(wronged, m, oracle, store, held)' /\ HeldRecorded(m)'
  BY <1>2, <1>6, <1>7, <1>8 DEF Sound, Swapped, HeldRecorded
<1>10. Accounts(store.content, oracle.accepted, ledger')
  <2>1. Accounts(store.content, oracle.accepted, ledger)
    BY <1>1, InvAccounts DEF Store!Running
  <2>2. PICK lg : lg = Append(ledger, Store!Noting("fault_pause_observed"))
    OBVIOUS
  <2>3. Accounts(store.content, oracle.accepted, lg)
    BY <2>1, <2>2, NotingAccounts
  <2>4. \/ ledger' = Append(ledger, Store!Noting("external_process_kill"))
        \/ ledger' = Append(lg, Store!Noting("external_process_kill"))
    BY <2>2 DEF Store!KillStore, Store!Note
  <2>. QED
    BY <2>1, <2>3, <2>4, NotingAccounts
<1>11. Accounts(store.content, oracle.accepted, ledger)'
  BY <1>2, <1>6, <1>10 DEF Same
<1>12. StoreTyped'
  BY <1>1, <1>2, <1>6, <1>10 DEF StoreInv, StoreTyped, Store!StepDone, Accounts
<1>. QED
  BY <1>1, <1>2, <1>3, <1>9, <1>11, <1>12, StepKept

-----------------------------------------------------------------------------
(* The reply put aside may be accepted, and accepting it leaves the oracle  *)
(* as the store is, when the store has kept the contract.                   *)
LEMMA AdoptStanding ==
  ASSUME StoreTyped, NEW s \in CaseSteps, NEW l, NEW m, Adopts(l, s, m), s.op = "adopt",
         Standing(l, oracle, store, held)
  PROVE  /\ held.ok => /\ Takes(oracle, s.tok, held, FALSE, 0)
                       /\ Standing(m, Took(oracle, s.tok, held), store, held)
         /\ ~held.ok => Standing(m, oracle, store, held)
<1>1. PICK t \in Store!Tokens :
        /\ t = s.tok
        /\ \/ t = 3 /\ l.kind = "adopting" /\ m.kind = "loose"
           \/ t = 2 /\ l.kind = "merging" /\ m.kind = "ahead"
  BY FirstTokens DEF Adopts
<1>2. CASE ~held.ok
  BY <1>1, <1>2 DEF Standing
<1>3. CASE held.ok
  <2>1. /\ LastReply(held, store) /\ ~Known(oracle, t) /\ store.content = Append(oracle.accepted, t)
        /\ l.kind = "adopting" => Level(oracle, store)
        /\ l.kind = "merging" => Above(oracle, store)
    BY <1>1, <1>3 DEF Standing
  <2>2. PICK c \in Seq(Store!Tokens) : c = oracle.accepted
    BY DEF StoreTyped, Oracles
  <2>3. PICK g \in Int, k \in Int, og \in Int, ok \in Int :
          g = store.gen /\ k = store.ckpt /\ og = oracle.gen /\ ok = oracle.ckpt
    BY DEF StoreTyped, Oracles, Stores
  <2>4. PICK d \in Nat : d = Len(c)
    BY <2>2
  <2>5. Len(Append(c, t)) = d + 1
    BY <2>2, <2>4, HasAppend
  <2>6. /\ held.head = d + 1 /\ held.txid = d + 1 /\ ~held.replayed /\ held.gen = g /\ held.ckpt = k
        /\ Total(oracle) = d
    BY <2>1, <2>2, <2>3, <2>4, <2>5 DEF LastReply, Total
  <2>7. g >= og /\ k >= ok /\ k <= d
    BY <1>1, <2>1, <2>2, <2>3, <2>4 DEF Level, Above
  <2>8. Takes(oracle, t, held, FALSE, 0)
    <3>1. Fits(oracle, held, d + 1, 0)
      BY <2>3, <2>6, <2>7 DEF Fits
    <3>. QED
      BY <2>1, <2>6, <3>1 DEF Takes
  <2>9. PICK o : o = Took(oracle, t, held) /\ o.accepted = Append(c, t) /\ o.gen = g /\ o.ckpt = k
    <3>1. PICK b : b = Append(c, t)
      OBVIOUS
    <3>2. PICK o : o = [accepted |-> b, gen |-> g, ckpt |-> k]
      OBVIOUS
    <3>3. o = Took(oracle, t, held)
      BY <2>1, <2>2, <2>6, <3>1, <3>2 DEF Took
    <3>. QED
      BY <3>1, <3>2, <3>3
  <2>10. k <= d + 1
    BY <2>7
  <2>11. /\ store.content = o.accepted /\ Len(o.accepted) = d + 1 /\ store.gen = o.gen
         /\ store.ckpt = o.ckpt /\ store.ckpt <= d + 1 /\ store.gen >= o.gen /\ store.ckpt >= o.ckpt
    BY <2>1, <2>2, <2>3, <2>5, <2>9, <2>10
  <2>12. Loose(o, store) /\ Ahead(o, store)
    BY <2>11 DEF Loose, Ahead, Level, Above
  <2>13. Standing(m, o, store, held)
    BY <1>1, <2>12 DEF Standing
  <2>. QED
    BY <1>1, <1>3, <2>8, <2>9, <2>13
<1>. QED
  BY <1>2, <1>3

(* The receipt of what followed a failure is accepted in its turn. *)
LEMMA AdoptKept ==
  ASSUME StoreInv, Store!Adopt
  PROVE  StoreInv'
<1>1. /\ Store!Running /\ step <= Len(Store!Steps(Store!Cases[n])) /\ phase = "ready"
      /\ Store!Now.op = "adopt"
  BY StepAtHand DEF Store!Adopt
<1>2. UNCHANGED <<depth, native, flaw, n, reply, held, wronged, troubled>>
  BY DEF Store!Adopt, Store!setting
<1>3. PICK l \in Stands, m \in Stands, s \in CaseSteps :
        Store!Now = s /\ Drives(l, s, m) /\ Reached(l, s, m) /\ GoesOn(m)
  BY <1>1, StoreAtHand
<1>4. Adopts(l, s, m) /\ s.op = "adopt"
  BY <1>1, <1>3, DrivesOp
<1>5. HeldRecorded(l) /\ Sound(wronged, l, oracle, store, held) /\ StoreTyped
  BY <1>1, <1>3 DEF Reached, StoreInv
<1>6. Accounts(store.content, oracle.accepted, ledger)
  BY <1>1, InvAccounts DEF Store!Running
<1>7. CASE held.ok /\ ~Store!Acceptable(s.tok, held, FALSE, 0)
  <2>1. ~Takes(oracle, s.tok, held, FALSE, 0)
    BY <1>7, ReplyJudged
  <2>2. wronged
    BY <1>4, <1>5, <1>7, <2>1, AdoptStanding DEF Sound
  <2>3. Store!Fail(ledger) /\ UNCHANGED <<step, phase, oracle>>
    BY <1>3, <1>7 DEF Store!Adopt
  <2>4. verdict.status = "running"
    BY <1>1 DEF Store!Running
  <2>5. reply' \in Replies /\ held' \in Replies /\ troubled' \in BOOLEAN
    BY <1>2, <1>5 DEF StoreTyped
  <2>. QED
    BY <1>2, <1>6, <2>2, <2>3, <2>4, <2>5, FailKept
<1>8. CASE ~(held.ok /\ ~Store!Acceptable(s.tok, held, FALSE, 0))
  <2>1. /\ Store!StepDone /\ UNCHANGED <<ledger, store, verdict>>
        /\ oracle' = IF held.ok THEN Store!Accepted(s.tok, held) ELSE oracle
    BY <1>3, <1>8 DEF Store!Adopt
  <2>2. oracle' = IF held.ok THEN Took(oracle, s.tok, held) ELSE oracle
    BY <1>5, <2>1, OracleNotes DEF StoreTyped
  <2>3. s.tok \in Store!Tokens
    BY <1>4, FirstTokens DEF Adopts
  <2>4. /\ Took(oracle, s.tok, held) \in Oracles
        /\ \A x : Has(Took(oracle, s.tok, held).accepted, x) => Has(oracle.accepted, x) \/ x = s.tok
    BY <1>5, <2>3, AfterTyped DEF StoreTyped
  <2>5. oracle' \in Oracles
    BY <1>5, <2>2, <2>4 DEF StoreTyped
  <2>6. Vouched(oracle'.accepted, ledger)
    <3>1. held.ok => OnRecord(ledger, s.tok)
      BY <1>4, <1>5 DEF HeldRecorded, Adopts
    <3>2. Vouched(oracle.accepted, ledger)
      BY <1>6 DEF Accounts
    <3>3. ASSUME NEW t \in Store!Tokens, Has(oracle'.accepted, t) PROVE OnRecord(ledger, t)
      <4>1. Has(oracle.accepted, t) \/ (held.ok /\ t = s.tok)
        BY <2>2, <2>4, <3>3
      <4>. QED
        BY <3>1, <3>2, <4>1 DEF Vouched, Has
    <3>. QED
      BY <3>3 DEF Vouched, Has
  <2>7. Accounts(store.content, oracle.accepted, ledger)'
    BY <1>6, <2>1, <2>6 DEF Accounts
  <2>8. Sound(wronged, m, oracle', store, held)
    <3>1. ASSUME wronged PROVE Swapped(m, store)
      BY <1>4, <1>5, <3>1 DEF Sound, Swapped, Adopts
    <3>2. ASSUME ~wronged PROVE Standing(m, oracle', store, held)
      BY <1>4, <1>5, <2>2, <3>2, AdoptStanding DEF Sound
    <3>. QED
      BY <3>1, <3>2 DEF Sound
  <2>9. Sound(wronged, m, oracle, store, held)'
    BY <1>2, <2>1, <2>8 DEF Sound, Swapped
  <2>10. HeldRecorded(m)'
    BY <1>2, <1>4 DEF HeldRecorded, Adopts
  <2>11. StoreTyped'
    BY <1>2, <1>5, <2>1, <2>5 DEF StoreTyped, Store!StepDone
  <2>. QED
    BY <1>1, <1>2, <1>3, <2>1, <2>7, <2>9, <2>10, <2>11, StepKept
<1>. QED
  BY <1>7, <1>8

(* The store does what it does, and what it does is accounted for. *)
LEMMA ServeKept ==
  ASSUME StoreInv, Store!Serve
  PROVE  StoreInv'
<1>1. /\ Store!Running /\ phase = "asked" /\ phase' = "answered"
      /\ step <= Len(Store!Steps(Store!Cases[n]))
  BY StepAtHand DEF Store!Serve
<1>2. UNCHANGED <<depth, native, flaw, n, step, held, ledger, oracle, troubled, verdict>>
  BY DEF Store!Serve, Store!setting
<1>3. PICK a \in Store!Acts :
        store' = a.store /\ reply' = a.reply /\ wronged' = (wronged \/ a.wrong)
  BY DEF Store!Serve
<1>4. PICK l \in Stands, m \in Stands, s \in CaseSteps :
        Store!Now = s /\ Drives(l, s, m) /\ Reached(l, s, m) /\ Stays(l, s, m)
  BY <1>1, StoreAtHand
<1>5. /\ HeldRecorded(l) /\ Sound(wronged, l, oracle, store, held) /\ Requested(s)
      /\ s.op = "adopt_first" => Store!FirstCommitted
  BY <1>1, <1>4 DEF Reached
<1>6. s.op \notin {"kill", "adopt"}
  BY <1>5 DEF Requested
<1>7. StoreTyped /\ store \in Stores /\ oracle \in Oracles /\ wronged \in BOOLEAN
  BY DEF StoreInv, StoreTyped
<1>8. a.store \in Stores /\ a.reply \in Replies /\ Within(a.store.content, s.tok)
  BY <1>4, <1>6, <1>7, ActTyped
<1>9. PICK w \in BOOLEAN : (w <=> (wronged \/ a.wrong)) /\ wronged' = w
  BY <1>3
<1>10. Served(s, l, m)
  BY <1>4, <1>5, <1>7 DEF Served
<1>11. Answered(w, s, m, oracle, a.store, a.reply, held)
  BY <1>5, <1>6, <1>7, <1>9, <1>10, Serves
<1>12. Answered(wronged, s, m, oracle, store, reply, held)'
  BY <1>2, <1>3, <1>9, <1>11 DEF Answered, Sound, Swapped
<1>13. Requested(s)' /\ HeldRecorded(l)'
  BY <1>2, <1>5 DEF Requested, HeldRecorded
<1>14. Reached(l, s, m)'
  BY <1>1, <1>12, <1>13 DEF Reached
<1>15. (\E f : Driven(f))'
  BY <1>2, <1>4, <1>14 DEF Stays
<1>16. Accounts(store.content, oracle.accepted, ledger)
  BY <1>1, InvAccounts DEF Store!Running
<1>17. Explained(a.store.content, ledger)
  <2>1. SUFFICES ASSUME NEW i \in 1..Len(a.store.content), a.store.content[i] # Store!Foreign
                 PROVE  \E e \in 1..Len(ledger) : ledger[e].kind = "request"
                                                 /\ ledger[e].tok = a.store.content[i]
    BY DEF Explained
  <2>2. Has(store.content, a.store.content[i]) \/ a.store.content[i] = s.tok
    BY <1>8, <2>1 DEF Within, Has
  <2>3. CASE Has(store.content, a.store.content[i])
    BY <1>16, <2>1, <2>3 DEF Accounts, Explained, Has
  <2>4. CASE a.store.content[i] = s.tok
    <3>1. Len(ledger) \in 1..Len(ledger)
      BY <1>5 DEF Requested
    <3>. QED
      BY <1>5, <2>4, <3>1 DEF Requested
  <2>. QED
    BY <2>2, <2>3, <2>4
<1>18. Accounts(store.content, oracle.accepted, ledger)'
  BY <1>2, <1>3, <1>16, <1>17 DEF Accounts
<1>19. StoreTyped'
  BY <1>1, <1>2, <1>3, <1>7, <1>8, <1>9 DEF StoreTyped
<1>20. (wronged => step <= Len(Store!Steps(Store!Cases[n])))'
  BY <1>1, <1>2, CasesKept
<1>. QED
  BY <1>1, <1>2, <1>15, <1>18, <1>19, <1>20, RunsOn

-----------------------------------------------------------------------------
(* What is put aside was recorded before, except by what puts it aside. *)
LEMMA HeldOn ==
  ASSUME NEW l, NEW s, NEW m, Drives(l, s, m), s.op # "continue"
  PROVE  /\ m.kind \in {"continued", "adopting"} => l.kind \in {"continued", "adopting"}
         /\ m.kind = "merging" => l.kind = "merging"
<1>1. CASE Passes(l, s, m) \/ Builds(l, s, m) \/ Transacts(l, s, m)
  BY <1>1 DEF Passes, Builds, Transacts
<1>2. CASE Settles(l, s, m) \/ Exports(l, s, m) \/ Opens(l, s, m)
  BY <1>2 DEF Settles, Exports, Opens
<1>3. CASE Kills(l, s, m) \/ Fails(l, s, m)
  BY <1>3 DEF Kills, Fails
<1>4. CASE Continues(l, s, m) \/ Adopts(l, s, m)
  BY <1>4 DEF Continues, Adopts
<1>. QED
  BY <1>1, <1>2, <1>3, <1>4 DEF Drives

(* A reply is recorded against its request before it is judged.             *)
LEMMA ResponseAccounts ==
  ASSUME NEW s \in CaseSteps, Store!Now = s, Requested(s), NEW c, NEW a, Accounts(c, a, ledger),
         NEW ok \in BOOLEAN
  PROVE  /\ Accounts(c, a, Store!Response(ok))
         /\ \A t : OnRecord(ledger, t) => OnRecord(Store!Response(ok), t)
         /\ ok => OnRecord(Store!Response(ok), s.tok)
<1>1. /\ ledger \in Seq(Events) /\ Explained(c, ledger) /\ Vouched(a, ledger)
      /\ Store!Verified(ledger)
  BY DEF Accounts
<1>2. PICK k \in Nat \ {0} : k = Len(ledger) /\ ledger[k].kind = "request"
  BY DEF Requested
<1>3. Store!Asked = k
  BY <1>1, <1>2, AskedLast
<1>4. PICK e \in Events : /\ e = Store!Event("response", k, ok) /\ e.kind = "response" /\ e.of = k
                          /\ e.tok = s.tok /\ e.ok = ok /\ e.op # "torn"
  <2>1. PICK kind \in {"request", "response"}, of \in Nat : kind = "response" /\ of = k
    OBVIOUS
  <2>2. \E e \in Events : /\ e = Store!Event(kind, of, ok) /\ e.kind = kind /\ e.of = of /\ e.tok = s.tok
                          /\ e.ok = ok /\ e.op # "torn"
    BY EventTyped
  <2>. QED
    BY <2>1, <2>2
<1>5. Store!Response(ok) = Append(ledger, e)
  BY <1>3, <1>4 DEF Store!Response
<1>6. /\ Append(ledger, e) \in Seq(Events) /\ Len(Append(ledger, e)) = k + 1
      /\ Append(ledger, e)[k + 1] = e
      /\ Explained(c, Append(ledger, e)) /\ Vouched(a, Append(ledger, e))
      /\ \A t : OnRecord(ledger, t) => OnRecord(Append(ledger, e), t)
  BY <1>1, <1>2, LedgerGrows
<1>7. Store!Verified(Append(ledger, e))
  BY <1>1, <1>2, <1>4, VerifiedGrows
<1>8. ok => OnRecord(Append(ledger, e), s.tok)
  <2>1. PICK h : h = Append(ledger, e)
    OBVIOUS
  <2>2. k + 1 \in 1..Len(h) /\ h[k + 1] = e
    BY <1>6, <2>1
  <2>3. ok => OnRecord(h, s.tok)
    BY <1>4, <2>2 DEF OnRecord
  <2>. QED
    BY <2>1, <2>3
<1>. QED
  BY <1>5, <1>6, <1>7, <1>8 DEF Accounts

(* What the oracle learns was answered, and the answer is on record.        *)
LEMMA AfterVouched ==
  ASSUME NEW s \in CaseSteps, NEW l, NEW m, Drives(l, s, m), oracle \in Oracles, NEW r \in Replies,
         Satisfies(s, oracle, store, r), NEW lg, Vouched(oracle.accepted, lg),
         r.ok => OnRecord(lg, s.tok)
  PROVE  After(s, oracle, r) \in Oracles /\ Vouched(After(s, oracle, r).accepted, lg)
<1>1. CASE s.op \in {"build", "open", "merge", "checkpoint", "stats"}
  <2>1. Tells(oracle, r) \in Oracles /\ Tells(oracle, r).accepted = oracle.accepted
    <3>1. s.op \notin {"transaction", "adopt_first", "adopt"}
      BY <1>1
    <3>. QED
      BY <3>1, AfterTyped
  <2>2. After(s, oracle, r) = Tells(oracle, r)
    BY <1>1, AfterOp
  <2>. QED
    BY <2>1, <2>2
<1>2. CASE s.op \in {"transaction", "adopt_first"}
  <2>1. s.tok \in Store!Tokens
    BY <1>2, DrivesOp, FirstTokens DEF Transacts, Adopts
  <2>2. r.ok
    BY <1>2, SatisfiesOp
  <2>3. /\ Took(oracle, s.tok, r) \in Oracles
        /\ \A x : Has(Took(oracle, s.tok, r).accepted, x) => Has(oracle.accepted, x) \/ x = s.tok
    BY <2>1, AfterTyped
  <2>4. After(s, oracle, r) = Took(oracle, s.tok, r)
    BY <1>2, AfterOp
  <2>5. Vouched(Took(oracle, s.tok, r).accepted, lg)
    BY <2>2, <2>3 DEF Vouched, Has
  <2>. QED
    BY <2>3, <2>4, <2>5
<1>3. CASE s.op \notin {"build", "open", "merge", "checkpoint", "stats", "transaction", "adopt_first"}
  BY <1>3, AfterOp
<1>. QED
  BY <1>1, <1>2, <1>3

(* A reply is received: it is recorded, and judged. *)
LEMMA ReceiveKept ==
  ASSUME StoreInv, Store!Receive
  PROVE  StoreInv'
<1>1. /\ Store!Running /\ phase = "answered" /\ Store!Now.op \notin {"kill_merge", "kill_transaction"}
      /\ step <= Len(Store!Steps(Store!Cases[n]))
      /\ held' = IF Store!Now.op = "continue" THEN reply ELSE held
  BY StepAtHand DEF Store!Receive
<1>2. UNCHANGED <<depth, native, flaw, n, reply, wronged, troubled>>
  BY DEF Store!Receive, Store!setting
<1>3. PICK l \in Stands, m \in Stands, s \in CaseSteps :
        Store!Now = s /\ Drives(l, s, m) /\ Reached(l, s, m) /\ GoesOn(m)
  BY <1>1, StoreAtHand
<1>4. HeldRecorded(l) /\ Requested(s) /\ Answered(wronged, s, m, oracle, store, reply, held)
  BY <1>1, <1>3 DEF Reached
<1>5. /\ s.op \in StoreOps \ {"kill", "adopt", "kill_merge", "kill_transaction"} /\ ~InKill(s)
  BY <1>1, <1>3, <1>4, StepTyped DEF Requested, InKill
<1>6. /\ StoreTyped /\ oracle \in Oracles /\ store \in Stores /\ reply \in Replies /\ held \in Replies
      /\ reply.ok \in BOOLEAN
  BY DEF StoreInv, StoreTyped, Replies
<1>7. Accounts(store.content, oracle.accepted, ledger)
  BY <1>1, InvAccounts DEF Store!Running
<1>8. PICK lg : lg = Store!Response(reply.ok)
  OBVIOUS
<1>9. /\ Accounts(store.content, oracle.accepted, lg)
      /\ \A t : OnRecord(ledger, t) => OnRecord(lg, t)
      /\ reply.ok => OnRecord(lg, s.tok)
  BY <1>3, <1>4, <1>6, <1>7, <1>8, ResponseAccounts
<1>10. Store!Good(reply) <=> Satisfies(s, oracle, store, reply)
  BY <1>3, <1>5, GoodSatisfies
<1>11. held' \in Replies
  BY <1>1, <1>6
<1>12. CASE ~Store!Good(reply)
  <2>1. Store!Fail(lg) /\ UNCHANGED <<step, phase, oracle>>
    BY <1>8, <1>12 DEF Store!Receive
  <2>2. wronged
    BY <1>4, <1>5, <1>10, <1>12 DEF Answered
  <2>3. verdict.status = "running" /\ reply' \in Replies /\ troubled' \in BOOLEAN
    BY <1>1, <1>2, <1>6 DEF Store!Running, StoreTyped
  <2>. QED
    BY <1>2, <1>9, <1>11, <2>1, <2>2, <2>3, FailKept
<1>13. CASE Store!Good(reply)
  <2>1. /\ Store!StepDone /\ ledger' = lg /\ oracle' = Store!Learned(reply)
        /\ UNCHANGED <<store, verdict>>
    BY <1>8, <1>13 DEF Store!Receive
  <2>2. oracle' = After(s, oracle, reply)
    BY <1>3, <1>6, <2>1, LearnedAfter
  <2>3. Sound(wronged, m, oracle', store, held')
    BY <1>1, <1>3, <1>4, <1>5, <1>10, <1>13, <2>2 DEF Answered
  <2>4. Sound(wronged, m, oracle, store, held)'
    BY <1>2, <2>1, <2>3 DEF Sound, Swapped
  <2>5. oracle' \in Oracles /\ Vouched(oracle'.accepted, lg)
    BY <1>3, <1>6, <1>9, <1>10, <1>13, <2>2, AfterVouched DEF Accounts
  <2>6. Accounts(store.content, oracle.accepted, ledger)'
    BY <1>9, <2>1, <2>5 DEF Accounts
  <2>7. HeldRecorded(m)'
    <3>1. CASE s.op = "continue"
      <4>1. held' = reply /\ (\/ s.tok = 3 /\ m.kind = "continued"
                              \/ s.tok = 2 /\ m.kind = "merging")
        BY <1>1, <1>3, <3>1, DrivesOp DEF Continues
      <4>. QED
        BY <1>9, <2>1, <4>1 DEF HeldRecorded
    <3>2. CASE s.op # "continue"
      <4>1. held' = held
        BY <1>1, <1>3, <3>2
      <4>2. /\ m.kind \in {"continued", "adopting"} => l.kind \in {"continued", "adopting"}
            /\ m.kind = "merging" => l.kind = "merging"
        BY <1>3, <3>2, HeldOn
      <4>. QED
        BY <1>4, <1>9, <2>1, <4>1, <4>2 DEF HeldRecorded
    <3>. QED
      BY <3>1, <3>2
  <2>8. StoreTyped'
    BY <1>2, <1>6, <1>9, <1>11, <2>1, <2>5 DEF StoreTyped, Store!StepDone, Accounts
  <2>. QED
    BY <1>1, <1>2, <1>3, <2>1, <2>4, <2>6, <2>7, <2>8, StepKept
<1>. QED
  BY <1>12, <1>13

-----------------------------------------------------------------------------
(* The store: the end of an evaluation, and the theorems. *)

(* The ledger of a case that has not begun accounts for nothing. *)
LEMMA NothingAccounts == Accounts(<<>>, <<>>, <<>>)
<1>1. PICK E, d : E = Events /\ d = <<>>
  OBVIOUS
<1>2. d \in Seq(E) /\ Len(d) = 0
  BY <1>1
<1>. QED
  BY <1>1, <1>2 DEF Accounts, Explained, Vouched, Store!Verified

(* How everything stands when a case begins. *)
LEMMA FreshStanding ==
  /\ Store!NewOracle \in Oracles /\ Store!NewStore \in Stores /\ Store!NoReply \in Replies
  /\ Store!NewOracle.accepted = <<>> /\ Store!NewStore.content = <<>> /\ Store!NoReply.ok = FALSE
  /\ Outset \in Stands /\ Outset.kind = "fresh"
  /\ \A h : Standing(Outset, Store!NewOracle, Store!NewStore, h)
<1>1. PICK T, d : T = Store!Tokens /\ d = <<>>
  OBVIOUS
<1>2. d \in Seq(T) /\ d \in Seq(Int) /\ 0 \in Int /\ Len(d) = 0
  BY <1>1
<1>3. Store!NewOracle = [accepted |-> d, gen |-> 0, ckpt |-> 0]
  BY <1>1 DEF Store!NewOracle
<1>4. Store!NewStore = [content |-> d, gen |-> 0, ckpt |-> 0, mode |-> "down"]
  BY <1>1 DEF Store!NewStore
<1>5. Store!NewOracle \in Oracles
  BY <1>1, <1>2, <1>3 DEF Oracles
<1>6. Store!NewStore \in Stores
  BY <1>2, <1>4 DEF Stores
<1>7. Outset \in Stands /\ Outset.kind = "fresh"
  BY StandFields DEF Outset, Stand, Stands, Kinds
<1>8. ASSUME NEW h PROVE Standing(Outset, Store!NewOracle, Store!NewStore, h)
  <2>1. PICK o, st : o = Store!NewOracle /\ st = Store!NewStore
    OBVIOUS
  <2>2. /\ o.accepted = d /\ o.gen = 0 /\ o.ckpt = 0
        /\ st.content = d /\ st.gen = 0 /\ st.ckpt = 0 /\ st.mode = "down"
    BY <1>3, <1>4, <2>1
  <2>3. Synced(o, st)
    BY <1>2, <2>2 DEF Synced, Level
  <2>. QED
    BY <1>1, <1>7, <2>1, <2>2, <2>3 DEF Standing
<1>. QED
  BY <1>1, <1>3, <1>4, <1>5, <1>6, <1>7, <1>8, NoReplyTyped, NoReplyFields

(* A case begins where its steps lead from. *)
LEMMA CaseBegins ==
  ASSUME NEW c \in Names, step = 1, phase = "ready", ~wronged,
         oracle = Store!NewOracle, store = Store!NewStore, held = Store!NoReply
  PROVE  \E f : Driving(f, Store!Steps(c))
<1>1. PICK P : P = Store!Steps(c) /\ Len(P) \in Nat
  BY CasePlanned
<1>2. PICK f : f[1] = Outset /\ Labelling(Drive, f, P) /\ ~f[Len(P) + 1].due
  BY <1>1, CasePlanned
<1>3. Sound(wronged, Outset, oracle, store, held) /\ HeldRecorded(Outset)
  BY FreshStanding DEF Sound, HeldRecorded
<1>4. Reached(Outset, P[1], f[2])
  BY <1>3 DEF Reached
<1>5. 1 <= Len(P) + 1 /\ 1 + 1 = 2
  BY <1>1
<1>6. Driving(f, P)
  BY <1>2, <1>4, <1>5 DEF Driving
<1>. QED
  BY <1>1, <1>6

(* The evaluation of a store begins. *)
LEMMA StoreBegins ==
  ASSUME Store!Init
  PROVE  StoreInv
<1>1. /\ n = 1 /\ step = 1 /\ phase = "ready" /\ reply = Store!NoReply /\ held = Store!NoReply
      /\ ledger = <<>> /\ oracle = Store!NewOracle /\ store = Store!NewStore
      /\ wronged = FALSE /\ troubled = FALSE /\ verdict = [status |-> "running", quality |-> FALSE]
  BY DEF Store!Init, Store!NewLedger
<1>2. verdict.status = "running" /\ verdict.quality = FALSE
  BY <1>1
<1>3. verdict \in [status : {"running", "failed", "crashed", "eligible", "ineligible"},
                   quality : BOOLEAN]
  BY <1>1
<1>4. Accounts(store.content, oracle.accepted, ledger)
  BY <1>1, FreshStanding, NothingAccounts
<1>5. StoreTyped
  <2>1. n \in Nat \ {0} /\ step \in Nat \ {0}
    BY <1>1
  <2>2. wronged \in BOOLEAN /\ troubled \in BOOLEAN
    BY <1>1
  <2>3. phase \in {"ready", "asked", "answered"}
    BY <1>1
  <2>4. oracle \in Oracles /\ store \in Stores /\ reply \in Replies /\ held \in Replies
    BY <1>1, FreshStanding
  <2>. QED
    BY <1>3, <1>4, <2>1, <2>2, <2>3, <2>4 DEF StoreTyped, Accounts
<1>6. Judged
  BY <1>1, <1>2 DEF Judged
<1>7. Store!Cases[n] \in Names
  <2>1. PICK C \in Seq(Names) : C = Store!Cases /\ Len(C) \in Nat \ {0}
    BY CasesNamed
  <2>2. C[1] \in Names
    BY <2>1
  <2>. QED
    BY <1>1, <2>1, <2>2
<1>8. \E f : Driven(f)
  BY <1>1, <1>7, CaseBegins DEF Driven
<1>. QED
  BY <1>2, <1>4, <1>5, <1>6, <1>8 DEF StoreInv, Accounts

(* The next case begins, none having been left with the contract broken. *)
LEMMA NextCaseKept ==
  ASSUME StoreInv, Store!NextCase
  PROVE  StoreInv'
<1>1. Store!Running /\ Store!Over /\ StoreTyped /\ Judged /\ verdict.status = "running"
  BY DEF Store!NextCase, StoreInv, Store!Running
<1>2. PICK k \in Nat \ {0} : k = n
  BY <1>1 DEF StoreTyped
<1>3. ~wronged
  <2>1. Store!Cases[n] \in Names
    BY <1>1, CasesNamed, CaseNamed DEF StoreTyped, Store!Running
  <2>2. PICK d \in Nat, i \in Nat : d = Len(Store!Steps(Store!Cases[n])) /\ i = step
    BY <1>1, <2>1, CasePlanned DEF StoreTyped
  <2>3. i > d
    BY <1>1, <2>2 DEF Store!Over
  <2>. QED
    BY <1>1, <2>2, <2>3 DEF Judged
<1>4. Store!Verified(ledger)
  BY <1>1 DEF StoreInv
<1>5. /\ n' = k + 1 /\ step' = 1 /\ phase' = "ready"
      /\ reply' = Store!NoReply /\ held' = Store!NoReply
      /\ ledger' = <<>> /\ oracle' = Store!NewOracle /\ store' = Store!NewStore
      /\ UNCHANGED <<depth, native, wronged, troubled, verdict>>
  BY <1>2, <1>4 DEF Store!NextCase, Store!NewLedger, Store!setting
<1>6. Accounts(store.content, oracle.accepted, ledger)'
  BY <1>5, FreshStanding, NothingAccounts
<1>7. StoreTyped'
  <2>1. k + 1 \in Nat \ {0} /\ 1 \in Nat \ {0}
    OBVIOUS
  <2>. QED
    BY <1>1, <1>5, <1>6, <2>1, FreshStanding DEF StoreTyped, Accounts
<1>8. Judged'
  BY <1>1, <1>3, <1>5 DEF Judged
<1>9. ASSUME n' <= Len(Store!Cases') PROVE (\E f : Driven(f))'
  <2>1. Store!Cases' = Store!Cases
    BY <1>5, CasesKept
  <2>2. PICK c \in Names : c = Store!Cases[n]'
    <3>1. k + 1 \in Nat \ {0} /\ k + 1 <= Len(Store!Cases)
      BY <1>5, <1>9, <2>1
    <3>2. Store!Cases[k + 1] \in Names
      BY <3>1, CasesNamed, CaseNamed
    <3>. QED
      BY <1>5, <2>1, <3>2
  <2>3. PICK P : P = Store!Steps(c) /\ Len(P) \in Nat
    BY CasePlanned
  <2>4. PICK f : f[1] = Outset /\ Labelling(Drive, f, P) /\ ~f[Len(P) + 1].due
    BY <2>3, CasePlanned
  <2>5. Sound(wronged, Outset, oracle, store, held)' /\ HeldRecorded(Outset)'
    BY <1>3, <1>5, FreshStanding DEF Sound, HeldRecorded
  <2>6. Reached(Outset, P[1], f[2])'
    BY <1>5, <2>5 DEF Reached
  <2>7. 1 <= Len(P) + 1 /\ 1 + 1 = 2
    BY <2>3
  <2>8. Driving(f, P)'
    BY <1>5, <2>4, <2>6, <2>7 DEF Driving
  <2>. QED
    BY <2>2, <2>3, <2>8 DEF Driven
<1>. QED
  BY <1>1, <1>5, <1>6, <1>7, <1>8, <1>9 DEF StoreInv, Accounts

(* Nothing is disturbed by a step of nothing. *)
LEMMA StoreStill ==
  ASSUME StoreInv, UNCHANGED storeVars
  PROVE  StoreInv'
<1>1. UNCHANGED <<depth, native, flaw, n, step, phase, reply, held, ledger, oracle, store,
                  wronged, troubled, verdict>>
  BY DEF storeVars
<1>2. Store!Cases' = Store!Cases
  BY <1>1, CasesKept
<1>3. StoreTyped' /\ Judged'
  BY <1>1, <1>2 DEF StoreInv, StoreTyped, Judged
<1>4. ASSUME NEW f, NEW P, Driving(f, P) PROVE Driving(f, P)'
  BY <1>1, <1>4 DEF Driving, Reached, HeldRecorded, Sound, Swapped, Requested, Answered,
     Store!FirstCommitted, Store!Count
<1>5. \A f : Driven(f) => Driven(f)'
  BY <1>1, <1>2, <1>4 DEF Driven
<1>. QED
  BY <1>1, <1>2, <1>3, <1>5 DEF StoreInv

(* Every step of the evaluation of a store keeps StoreInv. *)
LEMMA StoreStep ==
  ASSUME StoreInv, Store!Next
  PROVE  StoreInv'
<1>1. CASE Store!Ask
  BY <1>1, AskKept
<1>2. CASE Store!Serve
  BY <1>2, ServeKept
<1>3. CASE Store!Receive
  BY <1>3, ReceiveKept
<1>4. CASE Store!KillStore
  BY <1>4, KillStoreKept
<1>5. CASE Store!Adopt
  BY <1>5, AdoptKept
<1>6. CASE Store!Skip
  BY <1>6, SkipKept
<1>7. CASE Store!NextCase
  BY <1>7, NextCaseKept
<1>8. CASE Store!Conclude
  BY <1>8, StoreConcludeKept
<1>9. CASE Store!Unprepared \/ Store!Interrupted \/ Store!Trouble \/ Store!Undiagnosed \/ Store!Unpackaged
  BY <1>9, TroubledKept
<1>10. CASE Store!Crash
  BY <1>10, CrashKept
<1>. QED
  BY <1>1, <1>2, <1>3, <1>4, <1>5, <1>6, <1>7, <1>8, <1>9, <1>10 DEF Store!Next

(* StoreEvaluated: whenever a store is what is scored, it and its oracle    *)
(* stand where the steps of its case lead.                                  *)
StoreEvaluated == workload = "mutable_store" => StoreInv

(* StoreEvaluated holds of every behaviour of the evaluation: the inductive *)
(* invariant behind the two properties below.                               *)
THEOREM StoreEvaluation == ScoringSpec => []StoreEvaluated
<1>1. ScoringInit => StoreEvaluated
  BY StoreBegins DEF ScoringInit, StoreEvaluated
<1>2. StoreEvaluated /\ [ScoringNext]_scoringVars => StoreEvaluated'
  <2>1. SUFFICES ASSUME StoreEvaluated, [ScoringNext]_scoringVars, workload' = "mutable_store"
                 PROVE  StoreInv'
    BY DEF StoreEvaluated
  <2>2. workload' = workload
    BY <2>1 DEF ScoringNext, scoringVars
  <2>3. StoreInv
    BY <2>1, <2>2 DEF StoreEvaluated
  <2>4. CASE Store!Next
    BY <2>3, <2>4, StoreStep
  <2>5. CASE UNCHANGED storeVars
    BY <2>3, <2>5, StoreStill
  <2>. QED
    BY <2>1, <2>2, <2>4, <2>5 DEF ScoringNext, scoringVars
<1>. QED
  BY <1>1, <1>2, PTL DEF ScoringSpec

(* No case passes a store that broke its contract, and none that kept it is *)
(* failed unless something else went wrong (BreachNeverPasses and           *)
(* KeepersPass).                                                            *)
THEOREM StoreJudged == ScoringSpec => []StoreVerdictRight
<1>1. StoreEvaluated => StoreVerdictRight
  <2>1. SUFFICES ASSUME StoreInv PROVE Store!BreachNeverPasses /\ Store!KeepersPass
    BY DEF StoreEvaluated, StoreVerdictRight
  <2>2. Store!KeepersPass
    BY <2>1 DEF StoreInv, Judged, Store!KeepersPass
  <2>3. SUFFICES ASSUME wronged
                 PROVE  ~(verdict.quality \/ n > Len(Store!Cases) \/ Store!Over)
    BY <2>2 DEF Store!BreachNeverPasses
  <2>4. /\ ~verdict.quality /\ n <= Len(Store!Cases)
        /\ step <= Len(Store!Steps(Store!Cases[n]))
    BY <2>1, <2>3 DEF StoreInv, Judged
  <2>5. PICK k \in Nat, i \in Nat \ {0}, j \in Nat : k = Len(Store!Cases) /\ i = n /\ j = step
    BY <2>1, CasesNamed DEF StoreInv, StoreTyped
  <2>6. PICK d \in Nat : d = Len(Store!Steps(Store!Cases[n]))
    <3>1. Store!Cases[n] \in Names
      BY <2>4, <2>5, CasesNamed, CaseNamed
    <3>. QED
      BY <3>1, CasePlanned
  <2>7. ~(i > k) /\ ~(j > d)
    BY <2>4, <2>5, <2>6
  <2>. QED
    BY <2>4, <2>5, <2>6, <2>7 DEF Store!Over
<1>. QED
  BY <1>1, StoreEvaluation, PTL

(* The ledger explains the store: what it holds was asked for, what the     *)
(* oracle has accepted was answered by a reply on record, and every reply   *)
(* on record is the only one to its request (RequestLedger).                *)
THEOREM StoreExplained == ScoringSpec => []LedgerExplainsStore
<1>1. StoreEvaluated => LedgerExplainsStore
  <2>1. SUFFICES ASSUME StoreInv PROVE Store!LedgerExplainsStore
    BY DEF StoreEvaluated, LedgerExplainsStore
  <2>2. /\ Explained(store.content, ledger) /\ Vouched(oracle.accepted, ledger)
        /\ verdict.status # "crashed" => Store!Verified(ledger)
    BY <2>1 DEF StoreInv
  <2>3. ASSUME NEW t \in Store!Tokens, Store!Acknowledged(t)
        PROVE  \E e \in 1..Len(ledger) : ledger[e].kind = "response" /\ ledger[e].ok /\ ledger[e].tok = t
    BY <2>2, <2>3 DEF Store!Acknowledged, Store!Has, Vouched, OnRecord
  <2>. QED
    BY <2>2, <2>3 DEF Store!LedgerExplainsStore, Explained
<1>. QED
  BY <1>1, StoreEvaluation, PTL
=============================================================================
