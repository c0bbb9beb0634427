------------------------------- MODULE Ledger -------------------------------
(***************************************************************************)
(* The journal every other component keeps its state in: class Ledger of   *)
(* src/src/compression_lab/util.py.  events.jsonl is authoritative and     *)
(* only ever appended to; state.json is a cache of the last event's state. *)
(* Each call holds state.lock (flock) from its first byte read to its last *)
(* byte written, and a crash of the caller releases the lock wherever it   *)
(* happened to be.  A write may be cut short by a crash or an I/O error;   *)
(* the line it leaves has no newline and the next reader truncates it.     *)
(*                                                                         *)
(* Abstracted: an event is its id, the stage it came from, the operation   *)
(* and the new state; a state is its stage and `count', which every update *)
(* function increments and which stands for all the other fields.  Hashes  *)
(* are positions: only Ledger writes the file in this model.  fsync has no *)
(* effect under process crashes, so it is not a step of its own.           *)
(***************************************************************************)
EXTENDS LedgerStages, Integers, Sequences, FiniteSets

CONSTANTS Procs,      \* processes that share the ledger's directory
          NoOne,      \* the value of `holder` when the lock is free
          MaxEvents   \* bound on the journal's length

ASSUME LedgerAssumption == NoOne \notin Procs /\ MaxEvents \in Nat

VARIABLES exists,    \* events.jsonl has been created
          journal,   \* its complete lines
          torn,      \* it ends in a line without a newline
          cache,     \* state.json, NoState before the first save
          holder,    \* the process that holds state.lock, or NoOne
          pc,        \* where each process is in its call
          call,      \* the operation and target stage of each process's call
          draft,     \* the event each process has computed and not yet appended
          acked      \* history: the events whose call returned normally

vars == <<exists, journal, torn, cache, holder, pc, call, draft, acked>>

-----------------------------------------------------------------------------
NoStage == "none"
NoState == [stage |-> NoStage, count |-> 0]
State   == [stage : Stages, count : Nat]
Ops     == {"create", "read", "update", "disclose"}
Event   == [event_id : Nat, previous_state : Stages \cup {NoStage},
            operation : Ops, state : State]

(* The state after the first n lines, and the latest one. *)
StateAt(j, n) == IF n = 0 THEN NoState ELSE j[n].state
Latest(j)     == StateAt(j, Len(j))

(* The checks _read makes on every complete line. *)
WellFormed(j) ==
  \A i \in 1 .. Len(j) :
     /\ j[i].event_id = i
     /\ j[i].previous_state = StateAt(j, i - 1).stage

(* The event _append builds from the journal its caller has read. *)
NextEvent(j, op, state) ==
  [event_id |-> Len(j) + 1, previous_state |-> Latest(j).stage,
   operation |-> op, state |-> state]
NoEvent == [event_id |-> 0, previous_state |-> NoStage,
            operation |-> "read", state |-> NoState]
(* A complete line that is not the event it should be. *)
Garbage == NoEvent

-----------------------------------------------------------------------------
NoCall == [op |-> "read", stage |-> "created"]

Init ==
  /\ exists = FALSE
  /\ journal = <<>>
  /\ torn = FALSE
  /\ cache = NoState
  /\ holder = NoOne
  /\ pc = [p \in Procs |-> "idle"]
  /\ call = [p \in Procs |-> NoCall]
  /\ draft = [p \in Procs |-> NoEvent]
  /\ acked = {}

(* The call ends, normally or by an exception, and the lock is released. *)
Leave(p) ==
  /\ holder' = NoOne
  /\ pc' = [pc EXCEPT ![p] = "idle"]
  /\ draft' = [draft EXCEPT ![p] = NoEvent]
  /\ call' = [call EXCEPT ![p] = NoCall]

(* Bound: the calls under way cannot take the journal past MaxEvents. *)
Room == Len(journal) + Cardinality({q \in Procs : pc[q] # "idle"}) < MaxEvents

(* A process calls create, read, update or transition.  Only the last two *)
(* have a target stage.                                                   *)
Begin(p, op, stage) ==
  /\ pc[p] = "idle"
  /\ op \in {"create", "read"} => stage = "created"
  /\ op = "read" \/ Room
  /\ pc' = [pc EXCEPT ![p] = "waiting"]
  /\ call' = [call EXCEPT ![p] = [op |-> op, stage |-> stage]]
  /\ UNCHANGED <<exists, journal, torn, cache, holder, draft, acked>>

(* Mutant: a lock that two callers can hold. *)
AcquireShared(p) ==
  /\ pc[p] = "waiting"
  /\ holder' = p
  /\ pc' = [pc EXCEPT ![p] = "locked"]
  /\ UNCHANGED <<exists, journal, torn, cache, call, draft, acked>>

(* lock(state.lock): blocking flock. *)
Acquire(p) ==
  /\ pc[p] = "waiting"
  /\ holder = NoOne
  /\ holder' = p
  /\ pc' = [pc EXCEPT ![p] = "locked"]
  /\ UNCHANGED <<exists, journal, torn, cache, call, draft, acked>>

(* create: refused when events.jsonl exists, otherwise the first append. *)
CreateCheck(p) ==
  /\ pc[p] = "locked"
  /\ call[p].op = "create"
  /\ \/ /\ exists
        /\ Leave(p)
     \/ /\ ~exists
        /\ pc' = [pc EXCEPT ![p] = "append"]
        /\ draft' = [draft EXCEPT ![p] =
             NextEvent(<<>>, "create", [stage |-> "created", count |-> 0])]
        /\ UNCHANGED <<holder, call>>
  /\ UNCHANGED <<exists, journal, torn, cache, acked>>

(* _read refuses a missing, an empty or a corrupt journal; an empty journal *)
(* is refused before a torn line is truncated.                              *)
ReadRefused(p) ==
  /\ pc[p] = "locked"
  /\ call[p].op # "create"
  /\ ~exists \/ journal = <<>> \/ ~WellFormed(journal)
  /\ Leave(p)
  /\ UNCHANGED <<exists, journal, torn, cache, acked>>

(* Mutant: the last complete line is not counted in `good'. *)
TruncateOneMore(p) ==
  /\ pc[p] = "locked"
  /\ call[p].op # "create"
  /\ journal # <<>> /\ WellFormed(journal)
  /\ torn
  /\ torn' = FALSE
  /\ journal' = SubSeq(journal, 1, Len(journal) - 1)
  /\ UNCHANGED <<exists, cache, holder, pc, call, draft, acked>>

(* _read truncates the interrupted final append. *)
Truncate(p) ==
  /\ pc[p] = "locked"
  /\ call[p].op # "create"
  /\ journal # <<>> /\ WellFormed(journal)
  /\ torn
  /\ torn' = FALSE
  /\ UNCHANGED <<exists, journal, cache, holder, pc, call, draft, acked>>

(* Mutant: the interrupted append is skipped, not truncated. *)
ReadStateTorn(p) ==
  /\ pc[p] = "locked"
  /\ call[p].op # "create"
  /\ journal # <<>> /\ WellFormed(journal)
  /\ cache' = Latest(journal)
  /\ LET old == Latest(journal)
         new == [stage |-> call[p].stage, count |-> old.count + 1]
     IN \/ /\ call[p].op = "read" \/ ~Allowed(call[p].op, old.stage, new.stage)
           /\ Leave(p)
        \/ /\ call[p].op # "read" /\ Allowed(call[p].op, old.stage, new.stage)
           /\ pc' = [pc EXCEPT ![p] = "append"]
           /\ draft' = [draft EXCEPT ![p] = NextEvent(journal, call[p].op, new)]
           /\ UNCHANGED <<holder, call>>
  /\ UNCHANGED <<exists, journal, torn, acked>>

(* _read refreshes the cache and returns the latest state.  read() ends     *)
(* here; update() applies its function and checks the result.               *)
ReadState(p) ==
  /\ pc[p] = "locked"
  /\ call[p].op # "create"
  /\ journal # <<>> /\ WellFormed(journal)
  /\ ~torn
  /\ cache' = Latest(journal)
  /\ LET old == Latest(journal)
         new == [stage |-> call[p].stage, count |-> old.count + 1]
     IN \/ /\ call[p].op = "read" \/ ~Allowed(call[p].op, old.stage, new.stage)
           /\ Leave(p)
        \/ /\ call[p].op # "read" /\ Allowed(call[p].op, old.stage, new.stage)
           /\ pc' = [pc EXCEPT ![p] = "append"]
           /\ draft' = [draft EXCEPT ![p] = NextEvent(journal, call[p].op, new)]
           /\ UNCHANGED <<holder, call>>
  /\ UNCHANGED <<exists, journal, torn, acked>>

(* _append opens the file for appending and part of the line reaches it. *)
WritePart(p) ==
  /\ pc[p] = "append"
  /\ exists' = TRUE
  /\ torn' = TRUE
  /\ pc' = [pc EXCEPT ![p] = IF torn THEN "spoiled" ELSE "writing"]
  /\ UNCHANGED <<journal, cache, holder, call, draft, acked>>

(* The rest of the line, with its newline.  Behind an earlier torn line it  *)
(* completes a line that is no event.                                       *)
WriteRest(p) ==
  /\ pc[p] \in {"writing", "spoiled"}
  /\ torn' = FALSE
  /\ journal' = Append(journal, IF pc[p] = "spoiled" THEN Garbage ELSE draft[p])
  /\ pc' = [pc EXCEPT ![p] = "written"]
  /\ UNCHANGED <<exists, cache, holder, call, draft, acked>>

(* save(state.json); the call returns the new state to its caller. *)
SaveCache(p) ==
  /\ pc[p] = "written"
  /\ cache' = draft[p].state
  /\ acked' = acked \cup {draft[p]}
  /\ Leave(p)
  /\ UNCHANGED <<exists, journal, torn>>

(* An OSError at any I/O of the call reaches the caller as a failure,       *)
(* although the event may already be in the journal.                        *)
IOError(p) ==
  /\ pc[p] \in {"locked", "append", "writing", "spoiled", "written"}
  /\ Leave(p)
  /\ UNCHANGED <<exists, journal, torn, cache, acked>>

(* SIGKILL of a process; the kernel releases its lock. *)
Crash(p) ==
  /\ pc[p] # "idle"
  /\ holder' = IF holder = p THEN NoOne ELSE holder
  /\ pc' = [pc EXCEPT ![p] = "idle"]
  /\ draft' = [draft EXCEPT ![p] = NoEvent]
  /\ call' = [call EXCEPT ![p] = NoCall]
  /\ UNCHANGED <<exists, journal, torn, cache, acked>>

Step(p) ==
  \/ Acquire(p)
  \/ CreateCheck(p)
  \/ ReadRefused(p)
  \/ Truncate(p)
  \/ ReadState(p)
  \/ WritePart(p)
  \/ WriteRest(p)
  \/ SaveCache(p)

Next ==
  \E p \in Procs :
     \/ \E op \in Ops, stage \in Stages : Begin(p, op, stage)
     \/ Step(p)
     \/ IOError(p)
     \/ Crash(p)

Spec == Init /\ [][Next]_vars

-----------------------------------------------------------------------------
TypeOK ==
  /\ exists \in BOOLEAN
  /\ journal \in Seq(Event \cup {Garbage})
  /\ torn \in BOOLEAN
  /\ cache \in State \cup {NoState}
  /\ holder \in Procs \cup {NoOne}
  /\ pc \in [Procs -> {"idle", "waiting", "locked", "append", "writing",
                       "spoiled", "written"}]
  /\ call \in [Procs -> [op : Ops, stage : Stages]]
  /\ draft \in [Procs -> Event \cup {NoEvent}]
  /\ acked \subseteq Event \cup {NoEvent}

(* No crash, I/O error or interleaving of callers leaves a journal that    *)
(* _read rejects: every complete line is an event, numbered in order,      *)
(* chained to the stage before it.                                         *)
NeverCorrupt == WellFormed(journal)

(* Every update ran its function on the state of the event just before its *)
(* own, so no caller's change is overwritten: `count` counts the updates.  *)
NoLostUpdate ==
  \A i \in 1 .. Len(journal) : journal[i].state.count = i - 1

(* The one-way life of a run: once frozen it is never searched again, and  *)
(* the private test starts only from a frozen candidate.  After a terminal *)
(* stage nothing but disclosures is recorded.                              *)
OneWayIn(j) ==
  /\ \A k \in 1 .. Len(j) : j[k].state.stage = "private_started" =>
       \E f \in 1 .. k - 1 : j[f].state.stage = "frozen"
  /\ \A i, k \in 1 .. Len(j) : i < k =>
       LET before == j[i].state.stage
           after  == j[k].state.stage
       IN /\ before \in {"frozen", "private_started"} \cup Terminal =>
               after \notin {"created", "public_search", "public_ready"}
          /\ before \in Terminal => after = before /\ j[k].operation = "disclose"
OneWay == OneWayIn(journal)

(* A call that returned normally is in the journal, in its place, after    *)
(* any number of later crashes and truncations.                            *)
AckedDurable ==
  \A e \in acked : e.event_id \in 1 .. Len(journal) /\ journal[e.event_id] = e

(* Complete lines are never changed or removed: truncation only drops the  *)
(* line that has no newline.                                               *)
AppendOnly ==
  [][/\ Len(journal') >= Len(journal)
     /\ \A i \in 1 .. Len(journal) : journal'[i] = journal[i]]_vars
=============================================================================
