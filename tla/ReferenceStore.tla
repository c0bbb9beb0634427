---------------------------- MODULE ReferenceStore ----------------------------
(***************************************************************************)
(* The reference mutable store: class Store of src/src/compression_lab/    *)
(* workloads/reference_store.py.  The store lives in one directory: a      *)
(* snapshot and a write-ahead log per generation, and CURRENT, the only    *)
(* file that says which generation is live.  One process at a time holds   *)
(* LOCK, keeps the tables in memory, appends transactions to the log and   *)
(* merges them into a new generation.                                      *)
(*                                                                         *)
(* A process may be killed between any two file operations, and any file   *)
(* operation may fail, by itself or through the `fault' test interface     *)
(* (trip): dispatch then refuses everything until the process is replaced. *)
(* Files survive kills in the order they were written: the store certifies *)
(* process crashes, not power loss, so fsync is no step.                   *)
(*                                                                         *)
(* Abstracted: checksums, formats and limits; a file's contents is what    *)
(* its reader gets from it.  A frame that follows a fragment is `Bad'.     *)
(***************************************************************************)
EXTENDS StoreData, Sequences

CONSTANTS Procs,   \* processes that run the store program
          NoProc,  \* LOCK is free
          Absent,  \* a file that does not exist
          Partial, \* a file that has been created and not yet written
          MaxGeneration  \* bound on merges

ASSUME ReferenceStoreAssumption ==
  /\ NoProc \notin Procs
  /\ MaxGeneration \in Nat
  /\ Tokens # {}

Generations == 0 .. MaxGeneration

VARIABLES
  data,    \* data-<g>.json, the snapshot of each generation
  wal,     \* wal-<g>.log of each generation
  tmp,     \* CURRENT.tmp
  CURRENT, \* the manifest
  holder,  \* the process that holds LOCK
  pc,      \* where each process is
  memory,  \* its Store object
  staged,  \* the transaction it is writing
  target,  \* the generation it is writing
  acked    \* history: the replies clients have received

files == <<data, wal, tmp, CURRENT>>
vars  == <<files, holder, pc, memory, staged, target, acked>>

-----------------------------------------------------------------------------
Entry    == [txid : Nat, token : Tokens, body : SUBSET Rows]
Bad      == [txid |-> 0, token |-> CHOOSE t \in Tokens : TRUE, body |-> {}]
Snapshot == [generation : Generations, head : Nat, rows : SUBSET Rows, receipts : Receipts]
Log      == [frames : Seq(Entry), torn : BOOLEAN]
Manifest == [generation : Generations, checkpoint : Nat]
EmptyLog == [frames |-> <<>>, torn |-> FALSE]

ASSUME FileAssumption ==
  /\ Absent # Partial
  /\ \A none \in {Absent, Partial} : none \notin Snapshot /\ none \notin Log /\ none \notin Manifest

(* Store.__init__ *)
Memory  == [generation : Generations, checkpoint : Nat, head : Nat,
            rows : SUBSET Rows, receipts : Receipts]
Blank   == [generation |-> 0, checkpoint |-> 0, head |-> 0,
            rows |-> {}, receipts |-> NoReceipts]
NoEntry == Bad

(* The transaction that `stage' accepts on these tables, and its effect. *)
Applied(m, e) ==
  [m EXCEPT !.head = e.txid, !.rows = @ \cup e.body,
            !.receipts[e.token] = [txid |-> e.txid, body |-> e.body]]

(* The state after a snapshot and the first n frames of its log. *)
Replayed(s, frames, n) ==
  LET tokens == {frames[i].token : i \in 1 .. n}
  IN [generation |-> s.generation, checkpoint |-> s.head, head |-> s.head + n,
      rows |-> s.rows \cup UNION {frames[i].body : i \in 1 .. n},
      receipts |-> [t \in Tokens |->
        IF t \in tokens
        THEN LET i == CHOOSE k \in 1 .. n : frames[k].token = t
             IN [txid |-> frames[i].txid, body |-> frames[i].body]
        ELSE s.receipts[t]]]

(* The checks open makes on every frame, each on the state before it. *)
Replayable(s, frames) ==
  \A n \in 1 .. Len(frames) :
     LET before == Replayed(s, frames, n - 1) IN
     /\ frames[n] # Bad
     /\ frames[n].txid = before.head + 1
     /\ before.receipts[frames[n].token] = NoReceipt
     /\ Fits(before.rows, frames[n].body)

(* The files CURRENT selects pass every check of open. *)
Recoverable ==
  /\ CURRENT # Absent
  /\ LET g == CURRENT.generation IN
       /\ data[g] \notin {Absent, Partial} /\ wal[g] \notin {Absent, Partial}
       /\ data[g].generation = g /\ data[g].head = CURRENT.checkpoint
       /\ Closed(data[g].rows)
       /\ Cardinality(Committed(data[g].receipts)) = data[g].head
       /\ {data[g].receipts[t].txid : t \in Committed(data[g].receipts)} = 1 .. data[g].head
       /\ Replayable(data[g], wal[g].frames)

(* What open would load. *)
Recovered ==
  LET g == CURRENT.generation
  IN Replayed(data[g], wal[g].frames, Len(wal[g].frames))

Goto(p, label) == pc' = [pc EXCEPT ![p] = label]

(* Files of a generation other than memory's, and CURRENT.tmp. *)
OrphanGenerations(p) ==
  {g \in Generations \ {memory[p].generation} : data[g] # Absent \/ wal[g] # Absent}
NoFiles == CURRENT = Absent /\ tmp = Absent /\ \A g \in Generations : data[g] = Absent /\ wal[g] = Absent

Init ==
  /\ data = [g \in Generations |-> Absent]
  /\ wal = [g \in Generations |-> Absent]
  /\ tmp = Absent
  /\ CURRENT = Absent
  /\ holder = NoProc
  /\ pc = [p \in Procs |-> "new"]
  /\ memory = [p \in Procs |-> Blank]
  /\ staged = [p \in Procs |-> NoEntry]
  /\ target = [p \in Procs |-> 0]
  /\ acked = {}

-----------------------------------------------------------------------------
(* Mutant: LOCK is not exclusive. *)
AcquireShared(p, label) ==
  /\ pc[p] = "new"
  /\ holder' = p
  /\ Goto(p, label)

(* acquire: a busy LOCK is refused, and the process may try again. *)
Acquire(p, label) ==
  /\ pc[p] = "new"
  /\ holder = NoProc
  /\ holder' = p
  /\ Goto(p, label)

(* build takes LOCK and refuses a directory with any other file in it, and *)
(* a bundle that is not `checked'; the process keeps LOCK and can only be  *)
(* closed.                                                                 *)
Buildable == NoFiles /\ Closed(Initial)
Build(p) ==
  /\ Acquire(p, IF Buildable THEN "snapshot" ELSE "refusing")
  /\ memory' = IF Buildable THEN [memory EXCEPT ![p].rows = Initial] ELSE memory
  /\ target' = [target EXCEPT ![p] = 0]
  /\ UNCHANGED <<files, staged, acked>>

Open(p) ==
  /\ Acquire(p, "opening")
  /\ UNCHANGED <<files, memory, staged, target, acked>>

(* Mutant: the transaction counter restarts at the checkpoint. *)
RecoverCounter(p) ==
  /\ pc[p] = "opening"
  /\ IF Recoverable
     THEN /\ memory' = [memory EXCEPT ![p] = [Recovered EXCEPT !.head = Recovered.checkpoint]]
          /\ Goto(p, "truncating")
     ELSE UNCHANGED memory /\ Goto(p, "refusing")
  /\ UNCHANGED <<files, holder, staged, target, acked>>

(* A missing, partial or corrupt file is refused, never repaired. *)
Recover(p) ==
  /\ pc[p] = "opening"
  /\ IF Recoverable
     THEN memory' = [memory EXCEPT ![p] = Recovered] /\ Goto(p, "truncating")
     ELSE UNCHANGED memory /\ Goto(p, "refusing")
  /\ UNCHANGED <<files, holder, staged, target, acked>>

(* Only an incomplete final record is truncated. *)
TruncateLog(p) ==
  /\ pc[p] = "truncating"
  /\ wal' = [wal EXCEPT ![memory[p].generation].torn = FALSE]
  /\ Goto(p, "cleaning")
  /\ UNCHANGED <<data, tmp, CURRENT, holder, memory, staged, target, acked>>

(* remove_orphans: one file at a time, in any order. *)
RemoveOrphan(p) ==
  /\ pc[p] = "cleaning"
  /\ \/ /\ tmp # Absent
        /\ tmp' = Absent
        /\ UNCHANGED <<data, wal>>
     \/ \E g \in OrphanGenerations(p) :
          \/ /\ data[g] # Absent
             /\ data' = [data EXCEPT ![g] = Absent]
             /\ UNCHANGED <<wal, tmp>>
          \/ /\ wal[g] # Absent
             /\ wal' = [wal EXCEPT ![g] = Absent]
             /\ UNCHANGED <<data, tmp>>
  /\ UNCHANGED <<CURRENT, holder, pc, memory, staged, target, acked>>

(* build, open and merge end here: the store is open. *)
Ready(p) ==
  /\ pc[p] = "cleaning"
  /\ OrphanGenerations(p) = {} /\ tmp = Absent
  /\ Goto(p, "ready")
  /\ UNCHANGED <<files, holder, memory, staged, target, acked>>

-----------------------------------------------------------------------------
(* transaction *)

(* A token already committed is answered with its receipt, before its rows *)
(* are looked at; with other contents it is refused, and nothing changes.  *)
Replay(p, t, body) ==
  /\ pc[p] = "ready"
  /\ memory[p].receipts[t] # NoReceipt
  /\ memory[p].receipts[t].body = body
  /\ acked' = acked \cup {[token |-> t, txid |-> memory[p].receipts[t].txid, body |-> body]}
  /\ UNCHANGED <<files, holder, pc, memory, staged, target>>

(* A bundle that does not fit is refused whole: `stage' works on copies. *)
Transaction(p, t, body) ==
  /\ pc[p] = "ready"
  /\ memory[p].receipts[t] = NoReceipt
  /\ Fits(memory[p].rows, body)
  /\ staged' = [staged EXCEPT
       ![p] = [txid |-> memory[p].head + 1, token |-> t, body |-> body]]
  /\ Goto(p, "append")
  /\ UNCHANGED <<files, holder, memory, target, acked>>

(* write_all may stop within the frame; behind a fragment left by an       *)
(* earlier call no complete frame can be read.                             *)
WriteFragment(p) ==
  /\ pc[p] = "append"
  /\ LET g == memory[p].generation IN
       /\ wal' = [wal EXCEPT ![g].torn = TRUE]
       /\ staged' = IF wal[g].torn THEN [staged EXCEPT ![p] = Bad] ELSE staged
  /\ Goto(p, "fragment")
  /\ UNCHANGED <<data, tmp, CURRENT, holder, memory, target, acked>>

WriteFrame(p) ==
  /\ pc[p] = "fragment"
  /\ LET g == memory[p].generation IN
       wal' = [wal EXCEPT ![g] = [frames |-> Append(@.frames, staged[p]), torn |-> FALSE]]
  /\ Goto(p, "apply")
  /\ UNCHANGED <<data, tmp, CURRENT, holder, memory, staged, target, acked>>

Apply(p) ==
  /\ pc[p] = "apply"
  /\ memory' = [memory EXCEPT ![p] = Applied(@, staged[p])]
  /\ acked' = acked \cup {staged[p]}
  /\ staged' = [staged EXCEPT ![p] = NoEntry]
  /\ Goto(p, "ready")
  /\ UNCHANGED <<files, holder, target>>

-----------------------------------------------------------------------------
(* checkpoint_to, called by merge and by build *)

Merge(p) ==
  /\ pc[p] = "ready"
  /\ memory[p].generation < MaxGeneration
  /\ target' = [target EXCEPT ![p] = memory[p].generation + 1]
  /\ Goto(p, "snapshot")
  /\ UNCHANGED <<files, holder, memory, staged, acked>>

(* put_new creates a file exclusively: an existing one is an OSError. *)
CreateSnapshot(p) ==
  /\ pc[p] = "snapshot"
  /\ data[target[p]] = Absent
  /\ data' = [data EXCEPT ![target[p]] = Partial]
  /\ Goto(p, "write_snapshot")
  /\ UNCHANGED <<wal, tmp, CURRENT, holder, memory, staged, target, acked>>

WriteSnapshot(p) ==
  /\ pc[p] = "write_snapshot"
  /\ data' = [data EXCEPT ![target[p]] =
       [generation |-> target[p], head |-> memory[p].head,
        rows |-> memory[p].rows, receipts |-> memory[p].receipts]]
  /\ Goto(p, "log")
  /\ UNCHANGED <<wal, tmp, CURRENT, holder, memory, staged, target, acked>>

CreateLog(p) ==
  /\ pc[p] = "log"
  /\ wal[target[p]] = Absent
  /\ wal' = [wal EXCEPT ![target[p]] = Partial]
  /\ Goto(p, "write_log")
  /\ UNCHANGED <<data, tmp, CURRENT, holder, memory, staged, target, acked>>

WriteLog(p) ==
  /\ pc[p] = "write_log"
  /\ wal' = [wal EXCEPT ![target[p]] = EmptyLog]
  /\ Goto(p, "manifest")
  /\ UNCHANGED <<data, tmp, CURRENT, holder, memory, staged, target, acked>>

CreateManifest(p) ==
  /\ pc[p] = "manifest"
  /\ tmp = Absent
  /\ tmp' = Partial
  /\ Goto(p, "write_manifest")
  /\ UNCHANGED <<data, wal, CURRENT, holder, memory, staged, target, acked>>

WriteManifest(p) ==
  /\ pc[p] = "write_manifest"
  /\ tmp' = [generation |-> target[p], checkpoint |-> memory[p].head]
  /\ Goto(p, "rename")
  /\ UNCHANGED <<data, wal, CURRENT, holder, memory, staged, target, acked>>

(* os.replace: the commit point of the merge. *)
Rename(p) ==
  /\ pc[p] = "rename"
  /\ CURRENT' = tmp
  /\ tmp' = Absent
  /\ Goto(p, "adopt")
  /\ UNCHANGED <<data, wal, holder, memory, staged, target, acked>>

(* The new log is opened and memory follows; old files become orphans. *)
Adopt(p) ==
  /\ pc[p] = "adopt"
  /\ memory' = [memory EXCEPT ![p].generation = target[p], ![p].checkpoint = memory[p].head]
  /\ Goto(p, "cleaning")
  /\ UNCHANGED <<files, holder, staged, target, acked>>

-----------------------------------------------------------------------------
(* Mutant: LOCK outlives its process. *)
ExitLocked(p) ==
  /\ Goto(p, "new")
  /\ memory' = [memory EXCEPT ![p] = Blank]
  /\ staged' = [staged EXCEPT ![p] = NoEntry]
  /\ target' = [target EXCEPT ![p] = 0]
  /\ UNCHANGED <<files, holder, acked>>

(* The process ends and another may take its place. *)
Exit(p) ==
  /\ holder' = IF holder = p THEN NoProc ELSE holder
  /\ Goto(p, "new")
  /\ memory' = [memory EXCEPT ![p] = Blank]
  /\ staged' = [staged EXCEPT ![p] = NoEntry]
  /\ target' = [target EXCEPT ![p] = 0]
  /\ UNCHANGED <<files, acked>>

(* close is accepted between requests, poisoned or not. *)
Close(p) == pc[p] \in {"ready", "refusing"} /\ Exit(p)

(* SIGKILL. *)
Crash(p) == pc[p] # "new" /\ Exit(p)

(* Mutant: the store goes on after a failed file operation. *)
IOErrorIgnored(p) ==
  /\ pc[p] \notin {"new", "ready", "refusing"}
  /\ Goto(p, IF pc[p] \in {"append", "fragment", "apply"} THEN "ready" ELSE "refusing")
  /\ UNCHANGED <<files, holder, memory, staged, target, acked>>

(* An OSError in a request poisons the store: `refusing' until replaced. *)
IOError(p) ==
  /\ pc[p] \notin {"new", "ready", "refusing"}
  /\ Goto(p, "refusing")
  /\ UNCHANGED <<files, holder, memory, staged, target, acked>>

Step(p) ==
  \/ Recover(p) \/ TruncateLog(p) \/ RemoveOrphan(p) \/ Ready(p)
  \/ WriteFragment(p) \/ WriteFrame(p) \/ Apply(p)
  \/ CreateSnapshot(p) \/ WriteSnapshot(p) \/ CreateLog(p) \/ WriteLog(p)
  \/ CreateManifest(p) \/ WriteManifest(p) \/ Rename(p) \/ Adopt(p)

Next ==
  \E p \in Procs :
     \/ Build(p) \/ Open(p) \/ Step(p) \/ Merge(p)
     \/ \E t \in Tokens, body \in Bodies : Replay(p, t, body) \/ Transaction(p, t, body)
     \/ Close(p) \/ Crash(p) \/ IOError(p)

Spec == Init /\ [][Next]_vars

(* A process that is not killed runs its request to the end; a refusing    *)
(* process is closed by its client; some client keeps asking to open.      *)
FairSpec ==
  /\ Spec
  /\ \A p \in Procs : WF_vars(Step(p)) /\ WF_vars(pc[p] = "refusing" /\ Close(p))
  /\ SF_vars(\E p \in Procs : Open(p))

-----------------------------------------------------------------------------
Labels == {"new", "opening", "truncating", "cleaning", "ready", "append", "fragment",
           "apply", "snapshot", "write_snapshot", "log", "write_log", "manifest",
           "write_manifest", "rename", "adopt", "refusing"}

TypeOK ==
  /\ data \in [Generations -> Snapshot \cup {Absent, Partial}]
  /\ wal \in [Generations -> Log \cup {Absent, Partial}]
  /\ tmp \in Manifest \cup {Absent, Partial}
  /\ CURRENT \in Manifest \cup {Absent}
  /\ holder \in Procs \cup {NoProc}
  /\ pc \in [Procs -> Labels]
  /\ memory \in [Procs -> Memory]
  /\ staged \in [Procs -> Entry]
  /\ target \in [Procs -> Generations]
  /\ acked \subseteq Entry

(* Once a build has committed, no crash or failed file operation, at any   *)
(* point of a transaction or a merge, leaves files that open refuses.      *)
NeverUnopenable == CURRENT # Absent => Recoverable

(* The tables an open store answers from are the ones recovery would load, *)
(* so an acknowledged or visible transaction is a durable one and none is  *)
(* durable without being visible.                                          *)
MemoryMatchesFiles ==
  \A p \in Procs : pc[p] = "ready" => Recoverable /\ memory[p] = Recovered /\ ~wal[CURRENT.generation].torn

(* A merge never meets the files of an earlier, interrupted one: O_EXCL    *)
(* would turn every later merge into an error.                             *)
MergeNeverCollides ==
  \A p \in Procs :
     /\ pc[p] = "snapshot" => data[target[p]] = Absent /\ wal[target[p]] = Absent /\ tmp = Absent
     /\ pc[p] = "log" => wal[target[p]] = Absent
     /\ pc[p] = "manifest" => tmp = Absent

(* Memory and files are in step, and the files in order. *)
FilesInOrder == MemoryMatchesFiles /\ MergeNeverCollides

(* When processes are no longer killed and files no longer fail, a store   *)
(* that has been built is open again in the end, whatever was interrupted  *)
(* before, even the recovery itself.                                       *)
Failure == \E p \in Procs : Crash(p) \/ IOError(p)
Recovers ==
  <>[][~Failure]_vars =>
    [](CURRENT # Absent => <>(\E p \in Procs : pc[p] = "ready"))

(* The files, read as recovery would, are the abstract store: a merge and  *)
(* every crash change nothing, a transaction happens at one moment, whole, *)
(* and every reply tells the transaction that the store keeps.             *)
Durable == INSTANCE DurableStore WITH
  built    <- CURRENT # Absent,
  rows     <- IF CURRENT = Absent THEN {} ELSE Recovered.rows,
  receipts <- IF CURRENT = Absent THEN NoReceipts ELSE Recovered.receipts
KeepsPromise == Durable!Spec
=============================================================================
