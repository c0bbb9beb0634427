-------------------------- MODULE ReferenceStoreProofs -------------------------
(***************************************************************************)
(* Proofs about the reference mutable store, for any tables, tokens,       *)
(* processes and number of merges.                                         *)
(***************************************************************************)
EXTENDS ReferenceStore, FiniteSetTheorems, TLAPS

(* The state that a snapshot and its log stand for is one a store can have. *)
Sound(m) ==
  /\ Closed(m.rows)
  /\ Cardinality(Committed(m.receipts)) = m.head
  /\ {m.receipts[t].txid : t \in Committed(m.receipts)} = 1 .. m.head

StoredInv == CURRENT # Absent => Recoverable /\ Sound(Recovered)

LockInv == \A p \in Procs : /\ pc[p] = "new" <=> holder # p
                            /\ pc[p] = "new" => memory[p] = Blank

(* From its recovery to the reply of its last transaction a process has in  *)
(* memory what the files say, and no others are left when it answers.       *)
Serving == {"truncating", "cleaning", "ready", "append", "fragment", "apply"}

Alone(g) == /\ \A o \in Generations \ {g} : data[o] = Absent /\ wal[o] = Absent
            /\ tmp = Absent

StagedInv(m, e) ==
  /\ e \in Entry /\ e.body \in Bodies
  /\ e.txid = m.head + 1 /\ m.receipts[e.token] = NoReceipt /\ Fits(m.rows, e.body)

ServeInv(p) ==
  pc[p] \in Serving =>
    /\ CURRENT # Absent
    /\ Recovered = IF pc[p] = "apply" THEN Applied(memory[p], staged[p]) ELSE memory[p]
    /\ pc[p] \notin {"truncating", "fragment"} => ~wal[CURRENT.generation].torn
    /\ pc[p] \in {"ready", "append", "fragment", "apply"} => Alone(CURRENT.generation)
    /\ pc[p] \in {"append", "fragment", "apply"} => StagedInv(memory[p], staged[p])

(* A merge writes files of a generation that is not the live one, from what *)
(* the live one stands for.                                                 *)
Merging == {"snapshot", "write_snapshot", "log", "write_log", "manifest", "write_manifest", "rename"}

Image(g, m) == [generation |-> g, head |-> m.head, rows |-> m.rows, receipts |-> m.receipts]

MergeInv(p) ==
  pc[p] \in Merging =>
    /\ Sound(memory[p])
    /\ CURRENT = Absent => memory[p] = [Blank EXCEPT !.rows = Initial]
    /\ CURRENT # Absent => memory[p] = Recovered /\ target[p] # CURRENT.generation
    /\ pc[p] = "snapshot" => data[target[p]] = Absent
    /\ pc[p] \in {"snapshot", "write_snapshot", "log"} => wal[target[p]] = Absent
    /\ pc[p] \notin {"write_manifest", "rename"} => tmp = Absent
    /\ pc[p] \notin {"snapshot", "write_snapshot"} => data[target[p]] = Image(target[p], memory[p])
    /\ pc[p] \in {"manifest", "write_manifest", "rename"} => wal[target[p]] = EmptyLog
    /\ pc[p] = "rename" => tmp = [generation |-> target[p], checkpoint |-> memory[p].head]

AdoptInv(p) ==
  pc[p] = "adopt" =>
    /\ CURRENT # Absent /\ CURRENT.generation = target[p] /\ ~wal[target[p]].torn
    /\ Recovered = [memory[p] EXCEPT !.generation = target[p], !.checkpoint = memory[p].head]

StoreInv ==
  /\ TypeOK /\ StoredInv /\ LockInv
  /\ \A p \in Procs : ServeInv(p) /\ MergeInv(p) /\ AdoptInv(p)

-----------------------------------------------------------------------------
(* What a log stands for *)

(* Two states are one when they agree in every part. *)
LEMMA MemoryEqual ==
  ASSUME NEW a \in Memory, NEW b \in Memory, a.generation = b.generation,
         a.checkpoint = b.checkpoint, a.head = b.head, a.rows = b.rows, a.receipts = b.receipts
  PROVE  a = b
BY DEF Memory

(* A transaction adds its rows and its receipt. *)
LEMMA AppliedParts ==
  ASSUME NEW m \in Memory, NEW e \in Entry
  PROVE  /\ Applied(m, e) \in Memory
         /\ Applied(m, e).generation = m.generation /\ Applied(m, e).checkpoint = m.checkpoint
         /\ Applied(m, e).head = e.txid /\ Applied(m, e).rows = m.rows \cup e.body
         /\ Applied(m, e).receipts[e.token] = [txid |-> e.txid, body |-> e.body]
         /\ \A t \in Tokens : t # e.token => Applied(m, e).receipts[t] = m.receipts[t]
<1>1. PICK r, c : /\ r = [txid |-> e.txid, body |-> e.body]
                  /\ c = [m.receipts EXCEPT ![e.token] = r]
  OBVIOUS
<1>2. /\ r \in [txid : Nat, body : SUBSET Rows] /\ m.receipts \in Receipts /\ e.token \in Tokens
  BY <1>1 DEF Entry, Memory
<1>3. /\ c \in Receipts /\ c[e.token] = r
      /\ \A t \in Tokens : t # e.token => c[t] = m.receipts[t]
  BY <1>1, <1>2 DEF Receipts
<1>4. Applied(m, e) = [m EXCEPT !.head = e.txid, !.rows = m.rows \cup e.body, !.receipts = c]
  BY <1>1 DEF Applied, Memory
<1>5. e.txid \in Nat /\ m.rows \cup e.body \in SUBSET Rows
  BY DEF Entry, Memory
<1>. QED BY <1>1, <1>3, <1>4, <1>5 DEF Memory

(* Its receipts, as the durable store writes them. *)
LEMMA AppliedReceipts ==
  ASSUME NEW m \in Memory, NEW e
  PROVE  Applied(m, e).receipts =
           [m.receipts EXCEPT ![e.token] = [txid |-> e.txid, body |-> e.body]]
<1>1. PICK r, c : /\ r = [txid |-> e.txid, body |-> e.body]
                  /\ c = [m.receipts EXCEPT ![e.token] = r]
  OBVIOUS
<1>2. Applied(m, e) = [m EXCEPT !.head = e.txid, !.rows = m.rows \cup e.body, !.receipts = c]
  BY <1>1 DEF Applied, Memory
<1>. QED BY <1>1, <1>2 DEF Memory

(* No token stands twice in a log. *)
Distinct(frames) == \A i, j \in 1 .. Len(frames) : frames[i].token = frames[j].token => i = j

(* The frames of a log. *)
LEMMA Frames ==
  ASSUME NEW frames \in Seq(Entry), NEW i \in 1 .. Len(frames)
  PROVE  /\ frames[i] \in Entry /\ frames[i].token \in Tokens /\ frames[i].txid \in Nat
         /\ frames[i].body \in SUBSET Rows
<1>1. frames[i] \in Entry
  OBVIOUS
<1>. QED BY <1>1 DEF Entry

(* After a replay a token has the receipt of its frame, or of the snapshot. *)
LEMMA ReplayedReceipts ==
  ASSUME NEW s \in Snapshot, NEW frames \in Seq(Entry), Distinct(frames),
         NEW n \in 0 .. Len(frames), NEW t \in Tokens
  PROVE  /\ \A i \in 1 .. n : frames[i].token = t =>
              Replayed(s, frames, n).receipts[t] = [txid |-> frames[i].txid, body |-> frames[i].body]
         /\ (\A i \in 1 .. n : frames[i].token # t) =>
              Replayed(s, frames, n).receipts[t] = s.receipts[t]
<1>1. CASE \A i \in 1 .. n : frames[i].token # t
  BY <1>1 DEF Replayed
<1>2. ASSUME NEW i \in 1 .. n, frames[i].token = t
      PROVE  Replayed(s, frames, n).receipts[t] = [txid |-> frames[i].txid, body |-> frames[i].body]
  <2>1. PICK k : k = CHOOSE j \in 1 .. n : frames[j].token = t
    OBVIOUS
  <2>2. k \in 1 .. n /\ frames[k].token = t
    BY <1>2, <2>1
  <2>3. k = i
    BY <1>2, <2>2 DEF Distinct
  <2>4. t \in {frames[j].token : j \in 1 .. n}
    BY <1>2
  <2>5. Replayed(s, frames, n).receipts[t] = [txid |-> frames[k].txid, body |-> frames[k].body]
    BY <2>1, <2>4 DEF Replayed
  <2>. QED BY <2>3, <2>5
<1>. QED BY <1>1, <1>2

(* A replay leads to a state of the store. *)
LEMMA ReplayedTyped ==
  ASSUME NEW s \in Snapshot, NEW frames \in Seq(Entry), Distinct(frames), NEW n \in 0 .. Len(frames)
  PROVE  /\ Replayed(s, frames, n) \in Memory
         /\ Replayed(s, frames, n).generation = s.generation
         /\ Replayed(s, frames, n).checkpoint = s.head
         /\ Replayed(s, frames, n).head = s.head + n
         /\ Replayed(s, frames, n).rows = s.rows \cup UNION {frames[i].body : i \in 1 .. n}
<1>1. /\ s.generation \in Generations /\ s.head \in Nat /\ s.rows \in SUBSET Rows
      /\ s.receipts \in [Tokens -> [txid : Nat, body : SUBSET Rows]]
  BY DEF Snapshot, Receipts
<1>2. PICK c : c = Replayed(s, frames, n).receipts
  OBVIOUS
<1>3. ASSUME NEW t \in Tokens PROVE c[t] \in [txid : Nat, body : SUBSET Rows]
  <2>1. CASE \A i \in 1 .. n : frames[i].token # t
    BY <1>1, <1>2, <2>1, ReplayedReceipts
  <2>2. ASSUME NEW i \in 1 .. n, frames[i].token = t
        PROVE  c[t] \in [txid : Nat, body : SUBSET Rows]
    <3>1. frames[i].txid \in Nat /\ frames[i].body \in SUBSET Rows
      BY Frames
    <3>2. c[t] = [txid |-> frames[i].txid, body |-> frames[i].body]
      BY <1>2, <2>2, ReplayedReceipts
    <3>. QED BY <3>1, <3>2
  <2>. QED BY <2>1, <2>2
<1>4. c \in Receipts
  <2>1. c = [t \in Tokens |-> c[t]]
    BY <1>2 DEF Replayed
  <2>. QED BY <1>3, <2>1 DEF Receipts
<1>5. PICK r : r = s.rows \cup UNION {frames[i].body : i \in 1 .. n}
  OBVIOUS
<1>6. r \in SUBSET Rows
  <2>1. ASSUME NEW i \in 1 .. n PROVE frames[i].body \in SUBSET Rows
    BY Frames
  <2>. QED BY <1>1, <1>5, <2>1
<1>7. Replayed(s, frames, n) =
        [generation |-> s.generation, checkpoint |-> s.head, head |-> s.head + n,
         rows |-> r, receipts |-> c]
  BY <1>2, <1>5 DEF Replayed
<1>8. s.head + n \in Nat
  BY <1>1
<1>. QED BY <1>1, <1>4, <1>5, <1>6, <1>7, <1>8 DEF Memory

(* Logs that begin alike stand for the same states. *)
LEMMA ReplayedAlike ==
  ASSUME NEW s \in Snapshot, NEW f \in Seq(Entry), NEW g \in Seq(Entry), Distinct(f), Distinct(g),
         NEW n \in Nat, n <= Len(f), n <= Len(g), \A i \in 1 .. n : f[i] = g[i]
  PROVE  Replayed(s, f, n) = Replayed(s, g, n)
<1>1. n \in 0 .. Len(f) /\ n \in 0 .. Len(g)
  OBVIOUS
<1>2. PICK a, b : a = Replayed(s, f, n) /\ b = Replayed(s, g, n)
  OBVIOUS
<1>3. /\ a \in Memory /\ b \in Memory /\ a.generation = b.generation
      /\ a.checkpoint = b.checkpoint /\ a.head = b.head
  BY <1>1, <1>2, ReplayedTyped
<1>4. a.rows = b.rows
  <2>1. {f[i].body : i \in 1 .. n} = {g[i].body : i \in 1 .. n}
    OBVIOUS
  <2>2. a.rows = s.rows \cup UNION {f[i].body : i \in 1 .. n}
    BY <1>1, <1>2, ReplayedTyped
  <2>3. b.rows = s.rows \cup UNION {g[i].body : i \in 1 .. n}
    BY <1>1, <1>2, ReplayedTyped
  <2>. QED BY <2>1, <2>2, <2>3
<1>5. ASSUME NEW t \in Tokens PROVE a.receipts[t] = b.receipts[t]
  <2>1. CASE \A i \in 1 .. n : f[i].token # t
    BY <1>1, <1>2, <2>1, ReplayedReceipts
  <2>2. CASE \E i \in 1 .. n : f[i].token = t
    <3>1. PICK i \in 1 .. n : f[i].token = t
      BY <2>2
    <3>2. a.receipts[t] = [txid |-> f[i].txid, body |-> f[i].body]
      BY <1>1, <1>2, <3>1, ReplayedReceipts
    <3>3. g[i] = f[i] /\ g[i].token = t
      BY <3>1
    <3>4. b.receipts[t] = [txid |-> g[i].txid, body |-> g[i].body]
      BY <1>1, <1>2, <3>3, ReplayedReceipts
    <3>. QED BY <3>2, <3>3, <3>4
  <2>. QED BY <2>1, <2>2
<1>6. a.receipts = b.receipts
  <2>1. a.receipts \in [Tokens -> [txid : Nat, body : SUBSET Rows]]
        /\ b.receipts \in [Tokens -> [txid : Nat, body : SUBSET Rows]]
    BY <1>3 DEF Memory, Receipts
  <2>. QED BY <1>5, <2>1
<1>. QED BY <1>2, <1>3, <1>4, <1>6, MemoryEqual

(* What recovery accepts has each token once, and the numbers in order. *)
LEMMA ReplayableDistinct ==
  ASSUME NEW s \in Snapshot, NEW frames \in Seq(Entry), Replayable(s, frames)
  PROVE  /\ Distinct(frames)
         /\ \A i \in 1 .. Len(frames) : frames[i].txid = s.head + i
<1>1. s.head \in Nat
  BY DEF Snapshot
<1>2. ASSUME NEW i \in 1 .. Len(frames)
      PROVE  /\ frames[i].txid = s.head + i
             /\ Replayed(s, frames, i - 1).receipts[frames[i].token] = NoReceipt
  <2>1. Replayed(s, frames, i - 1).head = s.head + (i - 1)
    BY DEF Replayed
  <2>2. /\ frames[i].txid = Replayed(s, frames, i - 1).head + 1
        /\ Replayed(s, frames, i - 1).receipts[frames[i].token] = NoReceipt
    BY DEF Replayable
  <2>. QED BY <1>1, <2>1, <2>2
<1>3. ASSUME NEW i \in 1 .. Len(frames), NEW j \in 1 .. Len(frames), i < j,
             frames[i].token = frames[j].token
      PROVE  FALSE
  <2>1. PICK t, n : t = frames[j].token /\ n = j - 1
    OBVIOUS
  <2>2. i \in 1 .. n /\ t \in Tokens /\ \A k \in 1 .. n : k \in 1 .. Len(frames)
    BY <1>3, <2>1, Frames
  <2>3. PICK k : k = CHOOSE l \in 1 .. n : frames[l].token = t
    OBVIOUS
  <2>4. k \in 1 .. n /\ frames[k].token = t
    BY <1>3, <2>1, <2>2, <2>3
  <2>5. t \in {frames[l].token : l \in 1 .. n}
    BY <2>4
  <2>6. Replayed(s, frames, n).receipts[t] = [txid |-> frames[k].txid, body |-> frames[k].body]
    BY <2>2, <2>3, <2>5 DEF Replayed
  <2>7. frames[k].txid = s.head + k
    BY <1>2, <2>2, <2>4
  <2>8. [txid |-> frames[k].txid, body |-> frames[k].body] = NoReceipt
    BY <1>2, <2>1, <2>6
  <2>9. frames[k].txid = 0
    BY <2>8 DEF NoReceipt
  <2>. QED BY <1>1, <2>4, <2>7, <2>9
<1>4. ASSUME NEW i \in 1 .. Len(frames), NEW j \in 1 .. Len(frames), frames[i].token = frames[j].token
      PROVE  i = j
  BY <1>3, <1>4
<1>. QED BY <1>2, <1>4 DEF Distinct

(* A frame that `stage' accepted extends the state by its transaction, and  *)
(* recovery accepts it.                                                     *)
LEMMA Appended ==
  ASSUME NEW s \in Snapshot, NEW frames \in Seq(Entry), Replayable(s, frames), NEW e,
         NEW m, m = Replayed(s, frames, Len(frames)), StagedInv(m, e)
  PROVE  /\ Replayable(s, Append(frames, e))
         /\ Replayed(s, Append(frames, e), Len(frames) + 1) = Applied(m, e)
         /\ Append(frames, e) \in Seq(Entry) /\ Len(Append(frames, e)) = Len(frames) + 1
<1>1. PICK n, f : n = Len(frames) /\ f = Append(frames, e)
  OBVIOUS
<1>2. e \in Entry /\ e.token \in Tokens /\ e.txid \in Nat /\ e.body \in SUBSET Rows
  BY DEF StagedInv, Entry
<1>3. /\ n \in Nat /\ f \in Seq(Entry) /\ Len(f) = n + 1 /\ f[n + 1] = e
      /\ \A i \in 1 .. n : f[i] = frames[i]
  BY <1>1, <1>2
<1>4. Distinct(frames) /\ \A i \in 1 .. n : frames[i].txid = s.head + i
  BY <1>1, ReplayableDistinct
<1>5. s.head \in Nat
  BY DEF Snapshot
<1>6. m \in Memory /\ m.head = s.head + n /\ e.txid = s.head + n + 1
  BY <1>1, <1>3, <1>4, ReplayedTyped DEF StagedInv
<1>7. ASSUME NEW i \in 1 .. n PROVE frames[i].token # e.token
  <2>1. SUFFICES ASSUME frames[i].token = e.token PROVE FALSE
    OBVIOUS
  <2>2. m.receipts[e.token] = [txid |-> frames[i].txid, body |-> frames[i].body]
    BY <1>1, <1>2, <1>3, <1>4, <2>1, ReplayedReceipts
  <2>3. frames[i].txid = 0
    BY <2>2 DEF StagedInv, NoReceipt
  <2>. QED BY <1>4, <1>5, <2>3
<1>8. Distinct(f)
  <2>1. ASSUME NEW i \in 1 .. Len(f), NEW j \in 1 .. Len(f), f[i].token = f[j].token
        PROVE  i = j
    <3>1. CASE i \in 1 .. n /\ j \in 1 .. n
      BY <1>1, <1>3, <1>4, <2>1, <3>1 DEF Distinct
    <3>2. CASE i = n + 1 \/ j = n + 1
      BY <1>3, <1>7, <2>1, <3>2
    <3>. QED BY <1>3, <3>1, <3>2
  <2>. QED BY <2>1 DEF Distinct
<1>9. ASSUME NEW k \in 0 .. n PROVE Replayed(s, f, k) = Replayed(s, frames, k)
  <2>1. k \in Nat /\ k <= Len(f) /\ k <= Len(frames) /\ \A i \in 1 .. k : f[i] = frames[i]
    BY <1>1, <1>3
  <2>. QED BY <1>3, <1>4, <1>8, <2>1, ReplayedAlike
<1>10. Replayable(s, f)
  <2>1. ASSUME NEW k \in 1 .. Len(f)
        PROVE  /\ f[k] # Bad
               /\ f[k].txid = Replayed(s, f, k - 1).head + 1
               /\ Replayed(s, f, k - 1).receipts[f[k].token] = NoReceipt
               /\ Fits(Replayed(s, f, k - 1).rows, f[k].body)
    <3>1. Replayed(s, f, k - 1) = Replayed(s, frames, k - 1)
      BY <1>3, <1>9
    <3>2. CASE k \in 1 .. n
      BY <1>1, <1>3, <3>1, <3>2 DEF Replayable
    <3>3. CASE k = n + 1
      <4>1. f[k] = e /\ Replayed(s, f, k - 1) = m
        BY <1>1, <1>3, <3>1, <3>3
      <4>2. e # Bad
        BY <1>3, <1>5, <1>6 DEF Bad
      <4>. QED BY <4>1, <4>2 DEF StagedInv
    <3>. QED BY <1>3, <3>2, <3>3
  <2>. QED BY <2>1 DEF Replayable
<1>11. Replayed(s, f, n + 1) = Applied(m, e)
  <2>1. PICK a, b : a = Replayed(s, f, n + 1) /\ b = Applied(m, e)
    OBVIOUS
  <2>2. n + 1 \in 0 .. Len(f)
    BY <1>3
  <2>3. /\ a \in Memory /\ b \in Memory /\ a.generation = b.generation
        /\ a.checkpoint = b.checkpoint /\ a.head = b.head
    <3>1. /\ a \in Memory /\ a.generation = s.generation /\ a.checkpoint = s.head
          /\ a.head = s.head + (n + 1)
      BY <1>3, <1>8, <2>1, <2>2, ReplayedTyped
    <3>2. /\ m.generation = s.generation /\ m.checkpoint = s.head
      BY <1>1, <1>3, <1>4, ReplayedTyped
    <3>3. /\ b \in Memory /\ b.generation = m.generation /\ b.checkpoint = m.checkpoint
          /\ b.head = e.txid
      BY <1>2, <1>6, <2>1, AppliedParts
    <3>4. a.head = b.head
      <4>1. a.head = s.head + (n + 1) /\ b.head = s.head + n + 1
        BY <1>6, <3>1, <3>3
      <4>2. s.head + (n + 1) = s.head + n + 1
        BY <1>3, <1>5, SMTT(30)
      <4>. QED BY <4>1, <4>2
    <3>. QED BY <3>1, <3>2, <3>3, <3>4
  <2>4. a.rows = b.rows
    <3>1. a.rows = s.rows \cup UNION {f[i].body : i \in 1 .. n + 1}
      BY <1>3, <1>8, <2>1, <2>2, ReplayedTyped
    <3>2. m.rows = s.rows \cup UNION {frames[i].body : i \in 1 .. n}
      BY <1>1, <1>3, <1>4, ReplayedTyped, SMTT(30)
    <3>3. PICK u, w : /\ u = UNION {frames[i].body : i \in 1 .. n}
                      /\ w = UNION {f[i].body : i \in 1 .. n + 1}
      OBVIOUS
    <3>4. w = u \cup e.body
      <4>1. {f[i].body : i \in 1 .. n + 1} = {frames[i].body : i \in 1 .. n} \cup {e.body}
        <5>1. 1 .. n + 1 = (1 .. n) \cup {n + 1}
          BY <1>3
        <5>. QED BY <1>3, <5>1
      <4>. QED BY <3>3, <4>1
    <3>5. Applied(m, e).rows = m.rows \cup e.body
      BY <1>2, <1>6, AppliedParts
    <3>6. a.rows = s.rows \cup w /\ m.rows = s.rows \cup u /\ b.rows = m.rows \cup e.body
      BY <2>1, <3>1, <3>2, <3>3, <3>5
    <3>. QED BY <3>4, <3>6
  <2>5. ASSUME NEW t \in Tokens PROVE a.receipts[t] = b.receipts[t]
    <3>1. CASE t = e.token
      <4>1. a.receipts[t] = [txid |-> f[n + 1].txid, body |-> f[n + 1].body]
        BY <1>3, <1>8, <2>1, <2>2, <3>1, ReplayedReceipts
      <4>. QED BY <1>2, <1>3, <1>6, <2>1, <3>1, <4>1, AppliedParts
    <3>2. CASE t # e.token
      <4>1. b.receipts[t] = m.receipts[t]
        <5>1. \A u \in Tokens : u # e.token => Applied(m, e).receipts[u] = m.receipts[u]
          BY <1>2, <1>6, AppliedParts
        <5>2. Applied(m, e).receipts[t] = m.receipts[t]
          BY <3>2, <5>1
        <5>. QED BY <2>1, <5>2
      <4>2. CASE \E i \in 1 .. n : frames[i].token = t
        <5>1. PICK i \in 1 .. n : frames[i].token = t
          BY <4>2
        <5>2. i \in 1 .. n + 1 /\ f[i].token = t /\ f[i] = frames[i]
          BY <1>3, <5>1
        <5>3. a.receipts[t] = [txid |-> f[i].txid, body |-> f[i].body]
          BY <1>3, <1>8, <2>1, <2>2, <5>2, ReplayedReceipts
        <5>4. m.receipts[t] = [txid |-> frames[i].txid, body |-> frames[i].body]
          BY <1>1, <1>3, <1>4, <5>1, ReplayedReceipts
        <5>. QED BY <4>1, <5>2, <5>3, <5>4
      <4>3. CASE \A i \in 1 .. n : frames[i].token # t
        <5>1. \A i \in 1 .. n + 1 : f[i].token # t
          BY <1>3, <3>2, <4>3
        <5>2. a.receipts[t] = s.receipts[t]
          BY <1>3, <1>8, <2>1, <2>2, <5>1, ReplayedReceipts
        <5>3. m.receipts[t] = s.receipts[t]
          BY <1>1, <1>3, <1>4, <4>3, ReplayedReceipts
        <5>. QED BY <4>1, <5>2, <5>3
      <4>. QED BY <4>2, <4>3
    <3>. QED BY <3>1, <3>2
  <2>6. a.receipts = b.receipts
    <3>1. /\ a.receipts \in [Tokens -> [txid : Nat, body : SUBSET Rows]]
          /\ b.receipts \in [Tokens -> [txid : Nat, body : SUBSET Rows]]
      BY <2>3 DEF Memory, Receipts
    <3>. QED BY <2>5, <3>1
  <2>. QED BY <2>1, <2>3, <2>4, <2>6, MemoryEqual
<1>. QED BY <1>1, <1>3, <1>10, <1>11

(* A sound state with a transaction that fits is sound. *)
LEMMA AppliedSound ==
  ASSUME NEW m \in Memory, NEW e, Sound(m), StagedInv(m, e)
  PROVE  /\ Sound(Applied(m, e)) /\ Committed(Applied(m, e).receipts) = Committed(m.receipts) \cup {e.token}
         /\ e.txid = Cardinality(Committed(m.receipts)) + 1
<1>1. e \in Entry /\ e.token \in Tokens /\ e.txid \in Nat /\ m.head \in Nat /\ e.txid = m.head + 1
  BY DEF StagedInv, Entry, Memory
<1>2. PICK a, old, new : /\ a = Applied(m, e) /\ old = Committed(m.receipts)
                         /\ new = Committed(Applied(m, e).receipts)
  OBVIOUS
<1>3. /\ a.head = e.txid /\ a.rows = m.rows \cup e.body
      /\ a.receipts[e.token] = [txid |-> e.txid, body |-> e.body]
      /\ \A t \in Tokens : t # e.token => a.receipts[t] = m.receipts[t]
  BY <1>1, <1>2, AppliedParts
<1>4. /\ a.receipts[e.token].txid = e.txid /\ a.receipts[e.token] # NoReceipt
  BY <1>1, <1>3 DEF NoReceipt
<1>5. new = old \cup {e.token} /\ e.token \notin old
  BY <1>1, <1>2, <1>3, <1>4 DEF Committed, StagedInv
<1>6. IsFiniteSet(old)
  BY <1>2, StoreDataAssumption, FS_Subset DEF Committed
<1>7. Cardinality(new) = Cardinality(old) + 1
  BY <1>5, <1>6, FS_AddElement
<1>8. Cardinality(old) = m.head
  BY <1>2 DEF Sound
<1>9. {a.receipts[t].txid : t \in new} = 1 .. a.head
  <2>1. {m.receipts[t].txid : t \in old} = 1 .. m.head
    BY <1>2 DEF Sound
  <2>2. \A t \in old : a.receipts[t] = m.receipts[t]
    BY <1>2, <1>3, <1>5 DEF Committed
  <2>3. {a.receipts[t].txid : t \in new} = (1 .. m.head) \cup {e.txid}
    BY <1>4, <1>5, <2>1, <2>2
  <2>4. (1 .. m.head) \cup {e.txid} = 1 .. e.txid
    BY <1>1
  <2>. QED BY <1>3, <2>3, <2>4
<1>10. Closed(a.rows)
  BY <1>3 DEF StagedInv, Fits
<1>. QED BY <1>1, <1>2, <1>3, <1>5, <1>7, <1>8, <1>9, <1>10 DEF Sound

-----------------------------------------------------------------------------
(* The live generation *)

(* What recovery accepts is a snapshot and a log, and a state. *)
LEMMA LiveTyped ==
  ASSUME TypeOK, Recoverable, NEW g, g = CURRENT.generation
  PROVE  /\ g \in Generations /\ data[g] \in Snapshot /\ wal[g] \in Log
         /\ data[g].generation = g /\ wal[g].frames \in Seq(Entry)
         /\ Replayable(data[g], wal[g].frames)
         /\ Recovered = Replayed(data[g], wal[g].frames, Len(wal[g].frames))
         /\ Recovered \in Memory /\ Recovered.generation = g
<1>1. /\ CURRENT \in Manifest /\ data[g] \notin {Absent, Partial} /\ wal[g] \notin {Absent, Partial}
      /\ data[g].generation = g /\ Replayable(data[g], wal[g].frames)
  BY DEF TypeOK, Recoverable
<1>2. g \in Generations /\ data[g] \in Snapshot /\ wal[g] \in Log
  BY <1>1 DEF TypeOK, Manifest
<1>3. wal[g].frames \in Seq(Entry) /\ Len(wal[g].frames) \in 0 .. Len(wal[g].frames)
  BY <1>2 DEF Log
<1>4. Recovered = Replayed(data[g], wal[g].frames, Len(wal[g].frames))
  BY DEF Recovered
<1>5. Recovered \in Memory /\ Recovered.generation = data[g].generation
  BY <1>1, <1>2, <1>3, <1>4, ReplayableDistinct, ReplayedTyped
<1>. QED BY <1>1, <1>2, <1>3, <1>4, <1>5

(* Nothing that leaves the live snapshot and frames alone shows.            *)
LEMMA LiveKept ==
  ASSUME UNCHANGED CURRENT, Recoverable, NEW g, g = CURRENT.generation,
         data'[g] = data[g], wal'[g].frames = wal[g].frames, wal'[g] \notin {Absent, Partial}
  PROVE  Recoverable' /\ Recovered' = Recovered
BY DEF Recoverable, Recovered

(* Nor does anything that leaves every file alone. *)
LEMMA FilesKept ==
  ASSUME UNCHANGED files
  PROVE  /\ StoredInv => StoredInv'
         /\ Recovered' = Recovered /\ (Recoverable' <=> Recoverable)
BY DEF StoredInv, Recoverable, Recovered, files

(* While one process has LOCK the others have not begun. *)
LEMMA OthersWait ==
  ASSUME LockInv, NEW p \in Procs, holder \in {p, NoProc}, holder' = p, pc'[p] # "new",
         \A q \in Procs : q # p => pc'[q] = pc[q] /\ memory'[q] = memory[q],
         TypeOK', StoredInv', ServeInv(p)', MergeInv(p)', AdoptInv(p)'
  PROVE  StoreInv'
<1>1. ASSUME NEW q \in Procs, q # p
      PROVE  pc[q] = "new" /\ pc'[q] = "new" /\ memory'[q] = Blank
  BY <1>1, ReferenceStoreAssumption DEF LockInv
<1>2. LockInv'
  BY <1>1 DEF LockInv
<1>3. ASSUME NEW q \in Procs PROVE ServeInv(q)' /\ MergeInv(q)' /\ AdoptInv(q)'
  BY <1>1 DEF ServeInv, MergeInv, AdoptInv, Serving, Merging
<1>. QED BY <1>2, <1>3 DEF StoreInv

(* Who has begun has LOCK. *)
LEMMA Held ==
  ASSUME StoreInv, NEW p \in Procs, pc[p] # "new"
  PROVE  /\ holder = p /\ TypeOK /\ StoredInv /\ LockInv /\ ServeInv(p) /\ MergeInv(p) /\ AdoptInv(p)
         /\ memory[p] \in Memory /\ target[p] \in Generations /\ staged[p] \in Entry
BY DEF StoreInv, LockInv, TypeOK

(* Where everybody is when one process has moved. *)
LEMMA Places ==
  ASSUME TypeOK, NEW p \in Procs, NEW label \in Labels, Goto(p, label)
  PROVE  /\ pc' \in [Procs -> Labels] /\ pc'[p] = label
         /\ \A q \in Procs : q # p => pc'[q] = pc[q]
BY DEF TypeOK, Goto

-----------------------------------------------------------------------------
(* Every step keeps the invariant *)

(* The labels, for those who name them. *)
LEMMA LabelsApart ==
  /\ Serving \subseteq Labels /\ Merging \subseteq Labels /\ "new" \notin Serving \cup Merging
  /\ Serving \cap Merging = {} /\ "adopt" \notin Serving \cup Merging
BY DEF Labels, Serving, Merging

(* build starts from the bundle, in an empty directory. *)
LEMMA Builds ==
  ASSUME StoreInv, NEW p \in Procs, Build(p)
  PROVE  StoreInv'
<1>1. /\ pc[p] = "new" /\ holder = NoProc /\ holder' = p /\ memory[p] = Blank
      /\ TypeOK /\ StoredInv /\ LockInv /\ UNCHANGED <<data, wal, tmp, CURRENT, staged, acked>>
  BY DEF Build, Acquire, StoreInv, LockInv, files
<1>2. PICK label : label = IF Buildable THEN "snapshot" ELSE "refusing"
  OBVIOUS
<1>3. label \in Labels /\ Goto(p, label) /\ label \in {"snapshot", "refusing"}
  BY <1>2 DEF Build, Acquire, Labels
<1>4. /\ pc' \in [Procs -> Labels] /\ pc'[p] = label
      /\ \A q \in Procs : q # p => pc'[q] = pc[q]
  BY <1>1, <1>3, Places
<1>5. PICK b : b = [Blank EXCEPT !.rows = Initial]
  OBVIOUS
<1>6. 0 \in Generations /\ NoReceipts \in Receipts
  BY ReferenceStoreAssumption DEF Generations, NoReceipts, NoReceipt, Receipts
<1>7. /\ b \in Memory /\ b.rows = Initial /\ b.head = 0 /\ b.receipts = NoReceipts
  BY <1>5, <1>6, StoreDataAssumption DEF Blank, Memory
<1>8. memory' = IF Buildable THEN [memory EXCEPT ![p] = b] ELSE memory
  BY <1>1, <1>5 DEF Build, TypeOK
<1>9. /\ memory' \in [Procs -> Memory] /\ (Buildable => memory'[p] = b)
      /\ \A q \in Procs : q # p => memory'[q] = memory[q]
  BY <1>1, <1>7, <1>8 DEF TypeOK
<1>10. target' \in [Procs -> Generations] /\ target'[p] = 0
  BY <1>1, <1>6 DEF Build, TypeOK
<1>11. TypeOK'
  BY <1>1, <1>4, <1>9, <1>10 DEF TypeOK
<1>12. StoredInv'
  BY <1>1, FilesKept DEF files
<1>13. ServeInv(p)' /\ AdoptInv(p)'
  BY <1>3, <1>4 DEF ServeInv, AdoptInv, Serving
<1>14. MergeInv(p)'
  <2>1. CASE ~Buildable
    BY <1>2, <1>4, <2>1 DEF MergeInv, Merging
  <2>2. CASE Buildable
    <3>1. /\ CURRENT' = Absent /\ tmp' = Absent /\ data'[0] = Absent /\ wal'[0] = Absent
          /\ Closed(Initial)
      BY <1>1, <1>6, <2>2 DEF Buildable, NoFiles
    <3>2. Sound(b)
      <4>1. Committed(NoReceipts) = {}
        BY DEF Committed, NoReceipts
      <4>. QED BY <1>7, <3>1, <4>1, FS_EmptySet DEF Sound
    <3>. QED
      BY <1>2, <1>4, <1>5, <1>9, <1>10, <2>2, <3>1, <3>2 DEF MergeInv, Merging
  <2>. QED BY <2>1, <2>2
<1>. QED BY <1>1, <1>3, <1>4, <1>9, <1>11, <1>12, <1>13, <1>14, OthersWait

(* open takes LOCK. *)
LEMMA Opens ==
  ASSUME StoreInv, NEW p \in Procs, Open(p)
  PROVE  StoreInv'
<1>1. /\ pc[p] = "new" /\ holder = NoProc /\ holder' = p /\ Goto(p, "opening")
      /\ TypeOK /\ StoredInv /\ LockInv /\ "opening" \in Labels
      /\ UNCHANGED <<data, wal, tmp, CURRENT, memory, staged, target, acked>>
  BY DEF Open, Acquire, StoreInv, files, Labels
<1>2. /\ pc' \in [Procs -> Labels] /\ pc'[p] = "opening"
      /\ \A q \in Procs : q # p => pc'[q] = pc[q]
  BY <1>1, Places
<1>3. TypeOK'
  BY <1>1, <1>2 DEF TypeOK
<1>4. StoredInv'
  BY <1>1, FilesKept DEF files
<1>5. ServeInv(p)' /\ MergeInv(p)' /\ AdoptInv(p)'
  BY <1>2 DEF ServeInv, MergeInv, AdoptInv, Serving, Merging
<1>. QED BY <1>1, <1>2, <1>3, <1>4, <1>5, OthersWait

(* Recovery refuses, or loads what the files stand for. *)
LEMMA Recoveries ==
  ASSUME StoreInv, NEW p \in Procs, Recover(p)
  PROVE  StoreInv'
<1>1. pc[p] = "opening" /\ UNCHANGED <<data, wal, tmp, CURRENT, holder, staged, target, acked>>
  BY DEF Recover, files
<1>2. PICK label : label = IF Recoverable THEN "truncating" ELSE "refusing"
  OBVIOUS
<1>3. label \in Labels /\ Goto(p, label) /\ label \in {"truncating", "refusing"}
  BY <1>2 DEF Recover, Labels
<1>4. /\ holder = p /\ TypeOK /\ StoredInv /\ LockInv
  BY <1>1, Held
<1>5. /\ pc' \in [Procs -> Labels] /\ pc'[p] = label
      /\ \A q \in Procs : q # p => pc'[q] = pc[q]
  BY <1>3, <1>4, Places
<1>6. StoredInv' /\ Recovered' = Recovered
  BY <1>1, <1>4, FilesKept DEF files
<1>7. /\ memory' \in [Procs -> Memory] /\ (Recoverable => memory'[p] = Recovered)
      /\ \A q \in Procs : q # p => memory'[q] = memory[q]
  <2>1. Recoverable => Recovered \in Memory
    BY <1>4, LiveTyped
  <2>. QED BY <1>4, <2>1 DEF Recover, TypeOK
<1>8. TypeOK'
  BY <1>1, <1>4, <1>5, <1>7 DEF TypeOK
<1>9. ServeInv(p)'
  BY <1>1, <1>2, <1>5, <1>6, <1>7 DEF ServeInv, Serving, Recoverable
<1>10. MergeInv(p)' /\ AdoptInv(p)'
  BY <1>3, <1>5 DEF MergeInv, AdoptInv, Merging
<1>. QED BY <1>1, <1>3, <1>4, <1>5, <1>6, <1>7, <1>8, <1>9, <1>10, OthersWait

(* What a serving process may rely on. *)
LEMMA Serves ==
  ASSUME StoreInv, NEW p \in Procs, pc[p] \in Serving, NEW g, g = CURRENT.generation
  PROVE  /\ holder = p /\ TypeOK /\ StoredInv /\ LockInv /\ ServeInv(p)
         /\ CURRENT # Absent /\ CURRENT \in Manifest /\ Recoverable /\ Sound(Recovered)
         /\ g \in Generations /\ wal[g] \in Log /\ data[g] \in Snapshot
         /\ pc[p] # "apply" => memory[p] = Recovered /\ memory[p].generation = g
<1>1. pc[p] # "new"
  BY LabelsApart
<1>2. /\ holder = p /\ TypeOK /\ StoredInv /\ LockInv /\ ServeInv(p)
  BY <1>1, Held
<1>3. CURRENT # Absent /\ Recoverable /\ Sound(Recovered) /\ (pc[p] # "apply" => memory[p] = Recovered)
  BY <1>2 DEF ServeInv, StoredInv
<1>4. CURRENT \in Manifest
  BY <1>2, <1>3 DEF TypeOK
<1>. QED BY <1>2, <1>3, <1>4, LiveTyped

(* Only an incomplete final record is cut off. *)
LEMMA Truncates ==
  ASSUME StoreInv, NEW p \in Procs, TruncateLog(p)
  PROVE  StoreInv' /\ Recovered' = Recovered
<1>1. pc[p] = "truncating" /\ Goto(p, "cleaning") /\ "cleaning" \in Labels
      /\ UNCHANGED <<data, tmp, CURRENT, holder, memory, staged, target, acked>>
  BY DEF TruncateLog, Labels
<1>2. PICK g : g = CURRENT.generation
  OBVIOUS
<1>3. /\ holder = p /\ TypeOK /\ StoredInv /\ LockInv /\ CURRENT # Absent /\ Recoverable
      /\ Sound(Recovered) /\ g \in Generations /\ wal[g] \in Log
      /\ memory[p] = Recovered /\ memory[p].generation = g
  BY <1>1, <1>2, Serves DEF Serving
<1>4. /\ pc' \in [Procs -> Labels] /\ pc'[p] = "cleaning"
      /\ \A q \in Procs : q # p => pc'[q] = pc[q]
  BY <1>1, <1>3, Places
<1>5. PICK l : l = [wal[g] EXCEPT !.torn = FALSE]
  OBVIOUS
<1>6. l \in Log /\ l.frames = wal[g].frames /\ ~l.torn
  BY <1>3, <1>5 DEF Log
<1>7. wal' = [wal EXCEPT ![g] = l]
  BY <1>3, <1>5 DEF TruncateLog
<1>8. /\ wal' \in [Generations -> Log \cup {Absent, Partial}] /\ wal'[g] = l
  BY <1>3, <1>6, <1>7 DEF TypeOK
<1>9. Recoverable' /\ Recovered' = Recovered
  BY <1>1, <1>2, <1>3, <1>6, <1>8, FileAssumption, LiveKept
<1>10. TypeOK'
  BY <1>1, <1>3, <1>4, <1>8 DEF TypeOK
<1>11. StoredInv'
  BY <1>3, <1>9 DEF StoredInv, Sound
<1>12. ServeInv(p)'
  BY <1>1, <1>2, <1>3, <1>4, <1>6, <1>8, <1>9 DEF ServeInv
<1>13. MergeInv(p)' /\ AdoptInv(p)'
  BY <1>4 DEF MergeInv, AdoptInv, Merging
<1>20. StoreInv'
  BY <1>1, <1>3, <1>4, <1>10, <1>11, <1>12, <1>13, OthersWait
<1>. QED BY <1>9, <1>20

(* Orphans are of another generation than the live one. *)
LEMMA RemovesOrphan ==
  ASSUME StoreInv, NEW p \in Procs, RemoveOrphan(p)
  PROVE  StoreInv' /\ Recovered' = Recovered
<1>1. pc[p] = "cleaning"
      /\ UNCHANGED <<CURRENT, holder, pc, memory, staged, target, acked>>
  BY DEF RemoveOrphan
<1>2. PICK g : g = CURRENT.generation
  OBVIOUS
<1>3. /\ holder = p /\ TypeOK /\ StoredInv /\ LockInv /\ CURRENT # Absent /\ Recoverable
      /\ Sound(Recovered) /\ g \in Generations /\ wal[g] \in Log /\ ServeInv(p)
      /\ memory[p] = Recovered /\ memory[p].generation = g
  BY <1>1, <1>2, Serves DEF Serving
<1>4. /\ data' \in [Generations -> Snapshot \cup {Absent, Partial}] /\ data'[g] = data[g]
      /\ wal' \in [Generations -> Log \cup {Absent, Partial}] /\ wal'[g] = wal[g]
      /\ tmp' \in Manifest \cup {Absent, Partial}
  BY <1>3 DEF RemoveOrphan, OrphanGenerations, TypeOK
<1>5. Recoverable' /\ Recovered' = Recovered
  BY <1>1, <1>2, <1>3, <1>4, FileAssumption, LiveKept
<1>6. TypeOK'
  BY <1>1, <1>3, <1>4 DEF TypeOK
<1>7. StoredInv'
  BY <1>3, <1>5 DEF StoredInv, Sound
<1>8. ServeInv(p)'
  BY <1>1, <1>2, <1>3, <1>4, <1>5 DEF ServeInv
<1>9. MergeInv(p)' /\ AdoptInv(p)'
  BY <1>1 DEF MergeInv, AdoptInv, Merging
<1>20. StoreInv'
  BY <1>1, <1>3, <1>6, <1>7, <1>8, <1>9, OthersWait
<1>. QED BY <1>5, <1>20

(* A step that changes no file, of a process that goes on serving. *)
LEMMA ServesOn ==
  ASSUME StoreInv, NEW p \in Procs, pc[p] \in Serving, NEW label \in Labels \ {"new"},
         Goto(p, label), UNCHANGED <<files, holder>>, TypeOK',
         \A q \in Procs : q # p => memory'[q] = memory[q],
         ServeInv(p)', MergeInv(p)', AdoptInv(p)'
  PROVE  StoreInv'
<1>1. holder = p /\ TypeOK /\ StoredInv /\ LockInv
  BY Serves
<1>2. pc'[p] = label /\ \A q \in Procs : q # p => pc'[q] = pc[q]
  BY <1>1, Places
<1>3. StoredInv'
  BY <1>1, FilesKept
<1>. QED BY <1>1, <1>2, <1>3, OthersWait

(* No orphans are left when the store is open. *)
LEMMA Readies ==
  ASSUME StoreInv, NEW p \in Procs, Ready(p)
  PROVE  StoreInv'
<1>1. /\ pc[p] = "cleaning" /\ Goto(p, "ready") /\ tmp = Absent /\ OrphanGenerations(p) = {}
      /\ UNCHANGED <<files, holder, memory, staged, target, acked>>
  BY DEF Ready
<1>2. PICK g : g = CURRENT.generation
  OBVIOUS
<1>3. /\ TypeOK /\ ServeInv(p) /\ CURRENT # Absent
      /\ memory[p] = Recovered /\ memory[p].generation = g
  BY <1>1, <1>2, Serves DEF Serving
<1>4. /\ pc' \in [Procs -> Labels] /\ pc'[p] = "ready"
  BY <1>1, <1>3, Places DEF Labels
<1>5. TypeOK'
  BY <1>1, <1>3, <1>4 DEF TypeOK, files
<1>6. Alone(g)'
  BY <1>1, <1>3 DEF Alone, OrphanGenerations, files
<1>7. ServeInv(p)'
  <2>1. UNCHANGED <<data, wal, tmp, CURRENT, memory>> /\ Recovered' = Recovered
    BY <1>1, FilesKept DEF files
  <2>2. ~wal[g].torn
    BY <1>1, <1>2, <1>3 DEF ServeInv, Serving
  <2>. QED BY <1>2, <1>3, <1>4, <1>6, <2>1, <2>2 DEF ServeInv
<1>8. MergeInv(p)' /\ AdoptInv(p)'
  BY <1>4 DEF MergeInv, AdoptInv, Merging
<1>. QED BY <1>1, <1>5, <1>7, <1>8, ServesOn DEF Serving, Labels

(* A token that has been committed is answered with its receipt. *)
LEMMA Replays ==
  ASSUME StoreInv, NEW p \in Procs, NEW t \in Tokens, NEW body \in Bodies, Replay(p, t, body)
  PROVE  StoreInv'
<1>1. /\ pc[p] = "ready" /\ UNCHANGED <<files, holder, pc, memory, staged, target>>
      /\ acked' = acked \cup {[token |-> t, txid |-> memory[p].receipts[t].txid, body |-> body]}
  BY DEF Replay
<1>2. /\ TypeOK /\ LockInv /\ StoredInv /\ ServeInv(p) /\ holder = p
  BY <1>1, Serves DEF Serving
<1>3. memory[p].receipts[t].txid \in Nat
  BY <1>2 DEF TypeOK, Memory, Receipts
<1>4. [token |-> t, txid |-> memory[p].receipts[t].txid, body |-> body] \in Entry
  BY <1>3 DEF Entry, Bodies
<1>5. TypeOK'
  BY <1>1, <1>2, <1>4 DEF TypeOK, files
<1>6. ServeInv(p)'
  BY <1>1, <1>2, FilesKept DEF ServeInv, Alone, files
<1>7. MergeInv(p)' /\ AdoptInv(p)'
  BY <1>1 DEF MergeInv, AdoptInv, Merging
<1>8. StoredInv'
  BY <1>1, <1>2, FilesKept
<1>. QED BY <1>1, <1>2, <1>5, <1>6, <1>7, <1>8, OthersWait

(* A transaction is staged: it fits, and its number is the next. *)
LEMMA Stages ==
  ASSUME StoreInv, NEW p \in Procs, NEW t \in Tokens, NEW body \in Bodies, Transaction(p, t, body)
  PROVE  StoreInv'
<1>1. PICK e : e = [txid |-> memory[p].head + 1, token |-> t, body |-> body]
  OBVIOUS
<1>2. /\ pc[p] = "ready" /\ memory[p].receipts[t] = NoReceipt /\ Fits(memory[p].rows, body)
      /\ staged' = [staged EXCEPT ![p] = e] /\ Goto(p, "append")
      /\ UNCHANGED <<files, holder, memory, target, acked>>
  BY <1>1 DEF Transaction
<1>3. PICK g : g = CURRENT.generation
  OBVIOUS
<1>4. /\ TypeOK /\ ServeInv(p) /\ memory[p] = Recovered
  BY <1>2, <1>3, Serves DEF Serving
<1>5. memory[p].head \in Nat
  BY <1>4 DEF TypeOK, Memory
<1>6. e \in Entry
  BY <1>1, <1>5 DEF Entry, Bodies
<1>7. StagedInv(memory[p], e)
  BY <1>1, <1>2, <1>6 DEF StagedInv
<1>8. /\ pc' \in [Procs -> Labels] /\ pc'[p] = "append"
  BY <1>2, <1>4, Places DEF Labels
<1>9. staged' \in [Procs -> Entry] /\ staged'[p] = e
  BY <1>2, <1>4, <1>6 DEF TypeOK
<1>10. TypeOK'
  BY <1>2, <1>4, <1>8, <1>9 DEF TypeOK, files
<1>11. ServeInv(p)'
  <2>1. UNCHANGED <<data, wal, tmp, CURRENT, memory>> /\ Recovered' = Recovered
    BY <1>2, FilesKept DEF files
  <2>2. /\ CURRENT # Absent /\ ~wal[CURRENT.generation].torn /\ Alone(CURRENT.generation)
    BY <1>2, <1>4 DEF ServeInv, Serving
  <2>. QED BY <1>4, <1>7, <1>8, <1>9, <2>1, <2>2 DEF ServeInv, Alone, StagedInv
<1>12. MergeInv(p)' /\ AdoptInv(p)'
  BY <1>8 DEF MergeInv, AdoptInv, Merging
<1>. QED BY <1>2, <1>10, <1>11, <1>12, ServesOn DEF Serving, Labels

(* A fragment tears the log, and recovery does not read it. *)
LEMMA WritesFragment ==
  ASSUME StoreInv, NEW p \in Procs, WriteFragment(p)
  PROVE  StoreInv' /\ Recovered' = Recovered
<1>1. pc[p] = "append" /\ Goto(p, "fragment")
      /\ UNCHANGED <<data, tmp, CURRENT, holder, memory, target, acked>>
  BY DEF WriteFragment
<1>2. PICK g : g = CURRENT.generation
  OBVIOUS
<1>3. /\ holder = p /\ TypeOK /\ StoredInv /\ LockInv /\ CURRENT # Absent /\ Recoverable
      /\ Sound(Recovered) /\ g \in Generations /\ wal[g] \in Log /\ ServeInv(p)
      /\ memory[p] = Recovered /\ memory[p].generation = g
  BY <1>1, <1>2, Serves DEF Serving
<1>4. ~wal[g].torn /\ Alone(g) /\ StagedInv(memory[p], staged[p])
  BY <1>1, <1>2, <1>3 DEF ServeInv, Serving
<1>5. PICK l : l = [wal[g] EXCEPT !.torn = TRUE]
  OBVIOUS
<1>6. l \in Log /\ l.frames = wal[g].frames
  BY <1>3, <1>5 DEF Log
<1>7. wal' = [wal EXCEPT ![g] = l] /\ UNCHANGED staged
  BY <1>3, <1>4, <1>5 DEF WriteFragment
<1>8. /\ wal' \in [Generations -> Log \cup {Absent, Partial}] /\ wal'[g] = l
      /\ \A o \in Generations : o # g => wal'[o] = wal[o]
  BY <1>3, <1>6, <1>7 DEF TypeOK
<1>9. /\ pc' \in [Procs -> Labels] /\ pc'[p] = "fragment"
      /\ \A q \in Procs : q # p => pc'[q] = pc[q]
  BY <1>1, <1>3, Places DEF Labels
<1>10. Recoverable' /\ Recovered' = Recovered
  BY <1>1, <1>2, <1>3, <1>6, <1>8, FileAssumption, LiveKept
<1>11. TypeOK'
  BY <1>1, <1>3, <1>7, <1>8, <1>9 DEF TypeOK
<1>12. StoredInv'
  BY <1>3, <1>10 DEF StoredInv, Sound
<1>13. ServeInv(p)'
  <2>1. Alone(g)'
    BY <1>1, <1>4, <1>8 DEF Alone
  <2>. QED BY <1>1, <1>2, <1>3, <1>4, <1>7, <1>9, <1>10, <2>1 DEF ServeInv, StagedInv
<1>14. MergeInv(p)' /\ AdoptInv(p)'
  BY <1>9 DEF MergeInv, AdoptInv, Merging
<1>20. StoreInv'
  BY <1>1, <1>3, <1>9, <1>11, <1>12, <1>13, <1>14, OthersWait
<1>. QED BY <1>10, <1>20

(* The frame is complete: the transaction is committed. *)
LEMMA WritesFrame ==
  ASSUME StoreInv, NEW p \in Procs, WriteFrame(p)
  PROVE  StoreInv' /\ Recovered' = Applied(Recovered, staged[p]) /\ StagedInv(Recovered, staged[p])
         /\ Sound(Recovered) /\ Recovered \in Memory /\ CURRENT # Absent
<1>1. pc[p] = "fragment" /\ Goto(p, "apply")
      /\ UNCHANGED <<data, tmp, CURRENT, holder, memory, staged, target, acked>>
  BY DEF WriteFrame
<1>2. PICK g : g = CURRENT.generation
  OBVIOUS
<1>3. /\ holder = p /\ TypeOK /\ StoredInv /\ LockInv /\ CURRENT # Absent /\ Recoverable
      /\ Sound(Recovered) /\ g \in Generations /\ wal[g] \in Log /\ data[g] \in Snapshot
      /\ ServeInv(p) /\ memory[p] = Recovered /\ memory[p].generation = g
  BY <1>1, <1>2, Serves DEF Serving
<1>4. PICK e, f, m : e = staged[p] /\ f = wal[g].frames /\ m = memory[p]
  OBVIOUS
<1>5. Alone(g) /\ StagedInv(m, e)
  BY <1>1, <1>2, <1>3, <1>4 DEF ServeInv, Serving
<1>6. /\ f \in Seq(Entry) /\ Replayable(data[g], f) /\ m = Replayed(data[g], f, Len(f)) /\ m \in Memory
  BY <1>2, <1>3, <1>4, LiveTyped
<1>7. /\ Replayable(data[g], Append(f, e))
      /\ Replayed(data[g], Append(f, e), Len(f) + 1) = Applied(m, e)
      /\ Append(f, e) \in Seq(Entry) /\ Len(Append(f, e)) = Len(f) + 1
  BY <1>3, <1>5, <1>6, Appended
<1>8. PICK l : l = [frames |-> Append(f, e), torn |-> FALSE]
  OBVIOUS
<1>9. l \in Log /\ l.frames = Append(f, e) /\ ~l.torn
  BY <1>7, <1>8 DEF Log
<1>10. wal' = [wal EXCEPT ![g] = l]
  BY <1>3, <1>4, <1>8 DEF WriteFrame
<1>11. /\ wal' \in [Generations -> Log \cup {Absent, Partial}] /\ wal'[g] = l
       /\ \A o \in Generations : o # g => wal'[o] = wal[o]
  BY <1>3, <1>9, <1>10 DEF TypeOK
<1>12. /\ pc' \in [Procs -> Labels] /\ pc'[p] = "apply"
       /\ \A q \in Procs : q # p => pc'[q] = pc[q]
  BY <1>1, <1>3, Places DEF Labels
<1>13. Recovered' = Applied(m, e)
  BY <1>1, <1>2, <1>7, <1>9, <1>11 DEF Recovered
<1>14. Recoverable'
  <2>1. wal'[g] \notin {Absent, Partial}
    BY <1>9, <1>11, FileAssumption
  <2>2. Replayable(data'[g], wal'[g].frames)
    BY <1>1, <1>7, <1>9, <1>11
  <2>. QED BY <1>1, <1>2, <1>3, <2>1, <2>2 DEF Recoverable
<1>15. Sound(Recovered)'
  <2>1. Sound(m)
    BY <1>3, <1>4
  <2>2. PICK a : a = Applied(m, e)
    OBVIOUS
  <2>3. Sound(a)
    BY <1>5, <1>6, <2>1, <2>2, AppliedSound
  <2>4. Recovered' = a
    BY <1>13, <2>2
  <2>. QED BY <2>3, <2>4 DEF Sound
<1>16. TypeOK'
  BY <1>1, <1>3, <1>11, <1>12 DEF TypeOK
<1>17. StoredInv'
  BY <1>14, <1>15 DEF StoredInv
<1>18. ServeInv(p)'
  <2>1. Alone(g)'
    BY <1>1, <1>5, <1>11 DEF Alone
  <2>2. StagedInv(memory[p], staged[p])'
    BY <1>1, <1>4, <1>5 DEF StagedInv
  <2>. QED BY <1>1, <1>2, <1>3, <1>4, <1>9, <1>11, <1>12, <1>13, <2>1, <2>2 DEF ServeInv
<1>19. MergeInv(p)' /\ AdoptInv(p)'
  BY <1>12 DEF MergeInv, AdoptInv, Merging
<1>20. StoreInv'
  BY <1>1, <1>3, <1>12, <1>16, <1>17, <1>18, <1>19, OthersWait
<1>. QED BY <1>3, <1>4, <1>5, <1>6, <1>13, <1>20

(* The tables follow the log, and the client has its reply. *)
LEMMA Applies ==
  ASSUME StoreInv, NEW p \in Procs, Apply(p)
  PROVE  StoreInv'
<1>1. /\ pc[p] = "apply" /\ Goto(p, "ready") /\ acked' = acked \cup {staged[p]}
      /\ UNCHANGED <<files, holder, target>>
  BY DEF Apply
<1>2. PICK g, m, e : g = CURRENT.generation /\ m = Applied(memory[p], staged[p]) /\ e = NoEntry
  OBVIOUS
<1>3. /\ holder = p /\ TypeOK /\ ServeInv(p) /\ CURRENT # Absent /\ Recoverable
      /\ staged[p] \in Entry /\ memory[p] \in Memory
  BY <1>1, <1>2, Serves DEF Serving, TypeOK
<1>4. /\ Recovered = m /\ ~wal[g].torn /\ Alone(g)
  BY <1>1, <1>2, <1>3 DEF ServeInv, Serving
<1>5. e \in Entry /\ m \in Memory
  <2>1. (CHOOSE t \in Tokens : TRUE) \in Tokens
    BY ReferenceStoreAssumption
  <2>2. e \in Entry
    BY <1>2, <2>1 DEF NoEntry, Bad, Entry
  <2>. QED BY <1>2, <1>3, <2>2, AppliedParts
<1>6. memory' = [memory EXCEPT ![p] = m] /\ staged' = [staged EXCEPT ![p] = e]
  BY <1>2, <1>3 DEF Apply, TypeOK
<1>7. /\ memory' \in [Procs -> Memory] /\ staged' \in [Procs -> Entry] /\ memory'[p] = m
      /\ \A q \in Procs : q # p => memory'[q] = memory[q]
  BY <1>3, <1>5, <1>6 DEF TypeOK
<1>8. /\ pc' \in [Procs -> Labels] /\ pc'[p] = "ready"
  BY <1>1, <1>3, Places DEF Labels
<1>9. TypeOK'
  BY <1>1, <1>3, <1>7, <1>8 DEF TypeOK, files
<1>10. ServeInv(p)'
  <2>1. UNCHANGED <<data, wal, tmp, CURRENT>> /\ Recovered' = Recovered
    BY <1>1, FilesKept DEF files
  <2>. QED BY <1>2, <1>3, <1>4, <1>7, <1>8, <2>1 DEF ServeInv, Alone
<1>11. MergeInv(p)' /\ AdoptInv(p)'
  BY <1>8 DEF MergeInv, AdoptInv, Merging
<1>. QED BY <1>1, <1>7, <1>9, <1>10, <1>11, ServesOn DEF Serving, Labels

(* A merge begins where no file is in its way. *)
LEMMA MergeBegins ==
  ASSUME StoreInv, NEW p \in Procs, Merge(p)
  PROVE  StoreInv'
<1>1. /\ pc[p] = "ready" /\ Goto(p, "snapshot") /\ memory[p].generation < MaxGeneration
      /\ UNCHANGED <<files, holder, memory, staged, acked>>
  BY DEF Merge
<1>2. PICK g, t : g = CURRENT.generation /\ t = memory[p].generation + 1
  OBVIOUS
<1>3. /\ TypeOK /\ ServeInv(p) /\ CURRENT # Absent /\ Sound(Recovered)
      /\ memory[p] = Recovered /\ memory[p].generation = g /\ g \in Generations
  BY <1>1, <1>2, Serves DEF Serving
<1>4. t \in Generations /\ t # g
  BY <1>1, <1>2, <1>3, ReferenceStoreAssumption DEF Generations
<1>5. /\ data[t] = Absent /\ wal[t] = Absent /\ tmp = Absent
  BY <1>1, <1>2, <1>3, <1>4 DEF ServeInv, Serving, Alone
<1>6. /\ pc' \in [Procs -> Labels] /\ pc'[p] = "snapshot"
  BY <1>1, <1>3, Places DEF Labels
<1>7. target' \in [Procs -> Generations] /\ target'[p] = t
  BY <1>2, <1>3, <1>4 DEF Merge, TypeOK
<1>8. TypeOK'
  BY <1>1, <1>3, <1>6, <1>7 DEF TypeOK, files
<1>9. MergeInv(p)'
  <2>1. UNCHANGED <<data, wal, tmp, CURRENT, memory>> /\ Recovered' = Recovered
    BY <1>1, FilesKept DEF files
  <2>2. Sound(memory[p])'
    BY <1>3, <2>1
  <2>. QED BY <1>2, <1>3, <1>4, <1>5, <1>6, <1>7, <2>1, <2>2 DEF MergeInv, Merging
<1>10. ServeInv(p)' /\ AdoptInv(p)'
  BY <1>6 DEF ServeInv, AdoptInv, Serving
<1>. QED BY <1>1, <1>8, <1>9, <1>10, ServesOn DEF Serving, Labels

(* What a merge writes is not the live generation. *)
LEMMA MergesOn ==
  ASSUME StoreInv, NEW p \in Procs, pc[p] \in Merging, NEW label \in Merging, Goto(p, label),
         UNCHANGED <<CURRENT, holder, memory, staged, target, acked>>,
         NEW t, t = target[p],
         data' \in [Generations -> Snapshot \cup {Absent, Partial}],
         wal' \in [Generations -> Log \cup {Absent, Partial}], tmp' \in Manifest \cup {Absent, Partial},
         \A g \in Generations : g # t => data'[g] = data[g] /\ wal'[g] = wal[g],
         label = "snapshot" => data'[t] = Absent,
         label \in {"snapshot", "write_snapshot", "log"} => wal'[t] = Absent,
         label \notin {"write_manifest", "rename"} => tmp' = Absent,
         label \notin {"snapshot", "write_snapshot"} => data'[t] = Image(t, memory[p]),
         label \in {"manifest", "write_manifest", "rename"} => wal'[t] = EmptyLog,
         label = "rename" => tmp' = [generation |-> t, checkpoint |-> memory[p].head]
  PROVE  StoreInv' /\ (CURRENT # Absent => Recovered' = Recovered)
<1>1. pc[p] # "new" /\ label \in Labels /\ label # "new"
  BY LabelsApart
<1>2. holder = p /\ TypeOK /\ StoredInv /\ LockInv /\ MergeInv(p)
  BY <1>1, Held
<1>3. /\ Sound(memory[p])
      /\ CURRENT = Absent => memory[p] = [Blank EXCEPT !.rows = Initial]
      /\ CURRENT # Absent => memory[p] = Recovered /\ t # CURRENT.generation
  BY <1>2 DEF MergeInv
<1>4. /\ pc' \in [Procs -> Labels] /\ pc'[p] = label
      /\ \A q \in Procs : q # p => pc'[q] = pc[q]
  BY <1>1, <1>2, Places
<1>5. TypeOK'
  BY <1>2, <1>4 DEF TypeOK
<1>6. CURRENT # Absent => Recoverable /\ Recoverable' /\ Recovered' = Recovered /\ Sound(Recovered)
  <2>1. SUFFICES ASSUME CURRENT # Absent
                 PROVE  Recoverable /\ Recoverable' /\ Recovered' = Recovered /\ Sound(Recovered)
    OBVIOUS
  <2>2. PICK g : g = CURRENT.generation
    OBVIOUS
  <2>3. Recoverable /\ Sound(Recovered)
    BY <1>2, <2>1 DEF StoredInv
  <2>4. g \in Generations /\ wal[g] \in Log /\ data'[g] = data[g] /\ wal'[g] = wal[g]
    BY <1>2, <1>3, <2>1, <2>2, <2>3, LiveTyped
  <2>. QED BY <2>2, <2>3, <2>4, FileAssumption, LiveKept
<1>7. StoredInv'
  <2>1. CURRENT # Absent => Sound(Recovered)'
    BY <1>6
  <2>. QED BY <1>6, <2>1 DEF StoredInv
<1>8. MergeInv(p)'
  <2>1. Sound(memory[p])'
    BY <1>3
  <2>. QED BY <1>3, <1>4, <1>6, <2>1 DEF MergeInv
<1>9. ServeInv(p)' /\ AdoptInv(p)'
  BY <1>4, LabelsApart DEF ServeInv, AdoptInv
<1>10. StoreInv'
  BY <1>1, <1>2, <1>4, <1>5, <1>7, <1>8, <1>9, OthersWait
<1>. QED BY <1>6, <1>10

(* What a merge may rely on. *)
LEMMA MergesTyped ==
  ASSUME StoreInv, NEW p \in Procs, pc[p] \in Merging, NEW t, t = target[p]
  PROVE  /\ TypeOK /\ MergeInv(p) /\ t \in Generations /\ memory[p] \in Memory
         /\ Image(t, memory[p]) \in Snapshot /\ EmptyLog \in Log
         /\ [generation |-> t, checkpoint |-> memory[p].head] \in Manifest
<1>1. pc[p] # "new"
  BY LabelsApart
<1>2. TypeOK /\ MergeInv(p) /\ t \in Generations /\ memory[p] \in Memory
  BY <1>1, Held
<1>3. <<>> \in Seq(Entry)
  OBVIOUS
<1>. QED BY <1>2, <1>3 DEF Image, Snapshot, EmptyLog, Log, Manifest, Memory

(* The snapshot, the log and the manifest are created and written. *)
LEMMA MergeWrites ==
  ASSUME StoreInv, NEW p \in Procs,
         \/ CreateSnapshot(p) \/ WriteSnapshot(p) \/ CreateLog(p) \/ WriteLog(p)
         \/ CreateManifest(p) \/ WriteManifest(p)
  PROVE  StoreInv' /\ (CURRENT # Absent => Recovered' = Recovered)
<1>1. PICK t : t = target[p]
  OBVIOUS
<1>2. pc[p] \in Merging /\ UNCHANGED <<CURRENT, holder, memory, staged, target, acked>>
  BY
     DEF CreateSnapshot, WriteSnapshot, CreateLog, WriteLog, CreateManifest, WriteManifest,
         Merging
<1>3. /\ TypeOK /\ MergeInv(p) /\ t \in Generations /\ memory[p] \in Memory
      /\ Image(t, memory[p]) \in Snapshot /\ EmptyLog \in Log
      /\ [generation |-> t, checkpoint |-> memory[p].head] \in Manifest
  BY <1>1, <1>2, MergesTyped
<1>4. /\ data \in [Generations -> Snapshot \cup {Absent, Partial}]
      /\ wal \in [Generations -> Log \cup {Absent, Partial}] /\ tmp \in Manifest \cup {Absent, Partial}
  BY <1>3 DEF TypeOK
<1>5. ASSUME NEW v \in Snapshot \cup {Partial}, data' = [data EXCEPT ![t] = v]
      PROVE  /\ data' \in [Generations -> Snapshot \cup {Absent, Partial}] /\ data'[t] = v
             /\ \A g \in Generations : g # t => data'[g] = data[g]
  BY <1>3, <1>4, <1>5
<1>6. ASSUME NEW v \in Log \cup {Partial}, wal' = [wal EXCEPT ![t] = v]
      PROVE  /\ wal' \in [Generations -> Log \cup {Absent, Partial}] /\ wal'[t] = v
             /\ \A g \in Generations : g # t => wal'[g] = wal[g]
  BY <1>3, <1>4, <1>6
<1>7. CASE CreateSnapshot(p)
  <2>1. /\ pc[p] = "snapshot" /\ Goto(p, "write_snapshot") /\ data' = [data EXCEPT ![t] = Partial]
        /\ wal' = wal /\ tmp' = tmp /\ wal[t] = Absent /\ tmp = Absent
    BY <1>1, <1>3, <1>7 DEF CreateSnapshot, MergeInv, Merging
  <2>2. /\ data' \in [Generations -> Snapshot \cup {Absent, Partial}]
        /\ wal' \in [Generations -> Log \cup {Absent, Partial}] /\ wal'[t] = Absent
        /\ tmp' \in Manifest \cup {Absent, Partial} /\ tmp' = Absent
        /\ \A g \in Generations : g # t => data'[g] = data[g] /\ wal'[g] = wal[g]
    BY <1>4, <1>5, <2>1
  <2>3. Goto(p, "write_snapshot") /\ "write_snapshot" \in Merging
    BY <2>1 DEF Merging
  <2>. QED BY <1>1, <1>2, <2>2, <2>3, MergesOn
<1>8. CASE WriteSnapshot(p)
  <2>1. /\ pc[p] = "write_snapshot" /\ Goto(p, "log")
        /\ data' = [data EXCEPT ![t] = Image(t, memory[p])]
        /\ UNCHANGED <<wal, tmp>> /\ wal[t] = Absent /\ tmp = Absent
    BY <1>1, <1>3, <1>8 DEF WriteSnapshot, Image, MergeInv, Merging
  <2>. QED BY <1>1, <1>2, <1>3, <1>4, <1>5, <2>1, MergesOn DEF Merging
<1>9. CASE CreateLog(p)
  <2>1. /\ pc[p] = "log" /\ Goto(p, "write_log") /\ wal' = [wal EXCEPT ![t] = Partial]
        /\ UNCHANGED <<data, tmp>> /\ data[t] = Image(t, memory[p]) /\ tmp = Absent
    BY <1>1, <1>3, <1>9 DEF CreateLog, MergeInv, Merging
  <2>. QED BY <1>1, <1>2, <1>4, <1>6, <2>1, MergesOn DEF Merging
<1>10. CASE WriteLog(p)
  <2>1. /\ pc[p] = "write_log" /\ Goto(p, "manifest") /\ wal' = [wal EXCEPT ![t] = EmptyLog]
        /\ UNCHANGED <<data, tmp>> /\ data[t] = Image(t, memory[p]) /\ tmp = Absent
    BY <1>1, <1>3, <1>10 DEF WriteLog, MergeInv, Merging
  <2>. QED BY <1>1, <1>2, <1>3, <1>4, <1>6, <2>1, MergesOn DEF Merging
<1>11. CASE CreateManifest(p)
  <2>1. /\ pc[p] = "manifest" /\ Goto(p, "write_manifest") /\ tmp' = Partial
        /\ UNCHANGED <<data, wal>> /\ data[t] = Image(t, memory[p]) /\ wal[t] = EmptyLog
    BY <1>1, <1>3, <1>11 DEF CreateManifest, MergeInv, Merging
  <2>. QED BY <1>1, <1>2, <1>4, <2>1, MergesOn DEF Merging
<1>12. CASE WriteManifest(p)
  <2>1. /\ pc[p] = "write_manifest" /\ Goto(p, "rename")
        /\ tmp' = [generation |-> t, checkpoint |-> memory[p].head]
        /\ UNCHANGED <<data, wal>> /\ data[t] = Image(t, memory[p]) /\ wal[t] = EmptyLog
    BY <1>1, <1>3, <1>12 DEF WriteManifest, MergeInv, Merging
  <2>. QED BY <1>1, <1>2, <1>3, <1>4, <2>1, MergesOn DEF Merging
<1>. QED BY <1>7, <1>8, <1>9, <1>10, <1>11, <1>12

(* A snapshot of a state, with an empty log, stands for that state. *)
LEMMA ImageReplayed ==
  ASSUME NEW m \in Memory, NEW t \in Generations, NEW s, s = Image(t, m)
  PROVE  /\ Replayable(s, <<>>)
         /\ Replayed(s, <<>>, 0) = [m EXCEPT !.generation = t, !.checkpoint = m.head]
<1>1. s \in Snapshot /\ s.head = m.head /\ s.rows = m.rows /\ s.receipts = m.receipts /\ s.generation = t
  BY DEF Image, Snapshot, Memory
<1>2. PICK f, n : f = <<>> /\ n = 0
  OBVIOUS
<1>3. f \in Seq(Entry) /\ n \in 0 .. Len(f)
  BY <1>2
<1>10. Len(f) = 0 /\ 1 .. n = {}
  BY <1>2
<1>4. Replayable(s, f) /\ Distinct(f)
  BY <1>3, <1>10 DEF Replayable, Distinct
<1>5. PICK a, b : a = Replayed(s, f, n) /\ b = [m EXCEPT !.generation = t, !.checkpoint = m.head]
  OBVIOUS
<1>6. /\ b \in Memory /\ b.generation = t /\ b.checkpoint = m.head /\ b.head = m.head
      /\ b.rows = m.rows /\ b.receipts = m.receipts
  BY <1>5 DEF Memory
<1>7. /\ a \in Memory /\ a.generation = t /\ a.checkpoint = m.head /\ a.head = m.head
      /\ a.rows = m.rows
  <2>1. {f[i].body : i \in 1 .. n} = {}
    BY <1>10
  <2>2. /\ a \in Memory /\ a.generation = s.generation /\ a.checkpoint = s.head
        /\ a.head = s.head + n /\ a.rows = s.rows \cup UNION {f[i].body : i \in 1 .. n}
    BY <1>1, <1>3, <1>4, <1>5, ReplayedTyped
  <2>3. m.head \in Nat
    BY DEF Memory
  <2>. QED BY <1>1, <1>2, <2>1, <2>2, <2>3
<1>8. a.receipts = m.receipts
  <2>1. ASSUME NEW u \in Tokens PROVE a.receipts[u] = m.receipts[u]
    <3>1. \A i \in 1 .. n : f[i].token # u
      BY <1>10
    <3>2. Replayed(s, f, n).receipts[u] = s.receipts[u]
      BY <1>1, <1>3, <1>4, <3>1, ReplayedReceipts
    <3>. QED BY <1>1, <1>5, <3>2
  <2>2. /\ a.receipts \in [Tokens -> [txid : Nat, body : SUBSET Rows]]
        /\ m.receipts \in [Tokens -> [txid : Nat, body : SUBSET Rows]]
    BY <1>7 DEF Memory, Receipts
  <2>. QED BY <2>1, <2>2
<1>9. a = b
  BY <1>6, <1>7, <1>8, MemoryEqual
<1>. QED BY <1>2, <1>4, <1>5, <1>9

(* CURRENT changes: the new generation stands for the same state. *)
LEMMA Renames ==
  ASSUME StoreInv, NEW p \in Procs, Rename(p)
  PROVE  /\ StoreInv' /\ CURRENT' # Absent /\ Recovered'.rows = memory[p].rows
         /\ Recovered'.receipts = memory[p].receipts /\ MergeInv(p) /\ pc[p] = "rename"
<1>1. /\ pc[p] = "rename" /\ Goto(p, "adopt") /\ CURRENT' = tmp /\ tmp' = Absent
      /\ UNCHANGED <<data, wal, holder, memory, staged, target, acked>>
  BY DEF Rename
<1>2. PICK t, m, c : t = target[p] /\ m = memory[p] /\ c = [generation |-> t, checkpoint |-> m.head]
  OBVIOUS
<1>3. /\ TypeOK /\ StoredInv /\ LockInv /\ MergeInv(p) /\ holder = p /\ t \in Generations
      /\ m \in Memory /\ Image(t, m) \in Snapshot /\ EmptyLog \in Log /\ c \in Manifest
  BY <1>1, <1>2, Held, MergesTyped DEF Merging
<1>4. /\ Sound(m) /\ data[t] = Image(t, m) /\ wal[t] = EmptyLog /\ tmp = c
  BY <1>1, <1>2, <1>3 DEF MergeInv, Merging
<1>5. /\ pc' \in [Procs -> Labels] /\ pc'[p] = "adopt"
      /\ \A q \in Procs : q # p => pc'[q] = pc[q]
  BY <1>1, <1>3, Places DEF Labels
<1>6. TypeOK'
  BY <1>1, <1>3, <1>4, <1>5 DEF TypeOK
<1>7. PICK b : b = [m EXCEPT !.generation = t, !.checkpoint = m.head]
  OBVIOUS
<1>8. /\ b.head = m.head /\ b.rows = m.rows /\ b.receipts = m.receipts
  BY <1>3, <1>7 DEF Memory
<1>9. /\ CURRENT' = c /\ c.generation = t /\ c.checkpoint = m.head /\ c # Absent
      /\ EmptyLog.frames = <<>> /\ ~EmptyLog.torn
  BY <1>1, <1>2, <1>3, <1>4, FileAssumption DEF EmptyLog
<1>10. Recovered' = b
  <2>1. Recovered' = Replayed(Image(t, m), <<>>, Len(<<>>))
    BY <1>1, <1>4, <1>9 DEF Recovered
  <2>2. Len(<<>>) = 0
    OBVIOUS
  <2>. QED BY <1>3, <1>7, <2>1, <2>2, ImageReplayed
<1>11. Recoverable'
  <2>1. PICK s : s = Image(t, m)
    OBVIOUS
  <2>2. /\ s.generation = t /\ s.head = m.head /\ s.rows = m.rows /\ s.receipts = m.receipts
        /\ s \notin {Absent, Partial} /\ EmptyLog \notin {Absent, Partial}
    BY <1>3, <2>1, FileAssumption DEF Image
  <2>3. Replayable(s, EmptyLog.frames)
    BY <1>3, <1>9, <2>1, ImageReplayed
  <2>4. data'[t] = s /\ wal'[t] = EmptyLog
    BY <1>1, <1>4, <2>1
  <2>. QED BY <1>4, <1>9, <2>2, <2>3, <2>4 DEF Recoverable, Sound
<1>12. StoredInv'
  <2>1. Sound(Recovered)'
    BY <1>4, <1>8, <1>10 DEF Sound
  <2>. QED BY <1>11, <2>1 DEF StoredInv
<1>13. AdoptInv(p)'
  BY <1>1, <1>2, <1>4, <1>5, <1>7, <1>9, <1>10 DEF AdoptInv
<1>14. ServeInv(p)' /\ MergeInv(p)'
  BY <1>5, LabelsApart DEF ServeInv, MergeInv
<1>15. StoreInv'
  BY <1>1, <1>3, <1>5, <1>6, <1>12, <1>13, <1>14, OthersWait
<1>. QED BY <1>1, <1>2, <1>3, <1>8, <1>9, <1>10, <1>15

(* Memory follows. *)
LEMMA Adopts ==
  ASSUME StoreInv, NEW p \in Procs, Adopt(p)
  PROVE  StoreInv'
<1>1. /\ pc[p] = "adopt" /\ Goto(p, "cleaning") /\ UNCHANGED <<files, holder, staged, target, acked>>
  BY DEF Adopt
<1>2. PICK b : b = [memory[p] EXCEPT !.generation = target[p], !.checkpoint = memory[p].head]
  OBVIOUS
<1>3. /\ TypeOK /\ StoredInv /\ LockInv /\ AdoptInv(p) /\ holder = p /\ memory[p] \in Memory
      /\ target[p] \in Generations
  BY <1>1, Held
<1>4. /\ CURRENT # Absent /\ CURRENT.generation = target[p] /\ ~wal[target[p]].torn /\ Recovered = b
  BY <1>1, <1>2, <1>3 DEF AdoptInv
<1>5. b \in Memory
  BY <1>2, <1>3 DEF Memory
<1>6. memory' = [memory EXCEPT ![p] = b]
  <2>1. memory' = [memory EXCEPT ![p] = [[memory[p] EXCEPT !.generation = target[p]] EXCEPT !.checkpoint = memory[p].head]]
    BY <1>3 DEF Adopt, TypeOK
  <2>. QED BY <1>2, <1>3, <2>1 DEF Memory
<1>7. /\ memory' \in [Procs -> Memory] /\ memory'[p] = b
      /\ \A q \in Procs : q # p => memory'[q] = memory[q]
  BY <1>3, <1>5, <1>6 DEF TypeOK
<1>8. /\ pc' \in [Procs -> Labels] /\ pc'[p] = "cleaning"
      /\ \A q \in Procs : q # p => pc'[q] = pc[q]
  BY <1>1, <1>3, Places DEF Labels
<1>9. TypeOK'
  BY <1>1, <1>3, <1>7, <1>8 DEF TypeOK, files
<1>10. StoredInv'
  BY <1>1, <1>3, FilesKept
<1>11. ServeInv(p)'
  <2>1. UNCHANGED <<data, wal, tmp, CURRENT>> /\ Recovered' = Recovered
    BY <1>1, FilesKept DEF files
  <2>. QED BY <1>4, <1>7, <1>8, <2>1 DEF ServeInv
<1>12. MergeInv(p)' /\ AdoptInv(p)'
  BY <1>8 DEF MergeInv, AdoptInv, Merging
<1>. QED BY <1>1, <1>3, <1>7, <1>8, <1>9, <1>10, <1>11, <1>12, OthersWait

(* A process ends: nobody has LOCK, and the files stay. *)
LEMMA Exits ==
  ASSUME StoreInv, NEW p \in Procs, Close(p) \/ Crash(p)
  PROVE  StoreInv' /\ UNCHANGED <<files, acked>>
<1>1. pc[p] # "new" /\ Exit(p)
  BY DEF Close, Crash
<1>2. PICK e : e = NoEntry
  OBVIOUS
<1>3. /\ Goto(p, "new") /\ memory' = [memory EXCEPT ![p] = Blank]
      /\ staged' = [staged EXCEPT ![p] = e] /\ target' = [target EXCEPT ![p] = 0]
      /\ UNCHANGED <<files, acked>>
  BY <1>1, <1>2 DEF Exit
<1>4. holder = p /\ TypeOK /\ StoredInv /\ LockInv
  BY <1>1, Held
<1>5. holder' = NoProc
  BY <1>1, <1>4 DEF Exit
<1>6. ASSUME NEW q \in Procs, q # p PROVE pc[q] = "new" /\ memory[q] = Blank
  BY <1>4, <1>6 DEF LockInv
<1>7. /\ pc' \in [Procs -> Labels] /\ pc'[p] = "new"
      /\ \A q \in Procs : q # p => pc'[q] = pc[q]
  BY <1>3, <1>4, Places DEF Labels
<1>8. ASSUME NEW q \in Procs PROVE pc'[q] = "new"
  BY <1>6, <1>7
<1>9. Blank \in Memory /\ 0 \in Generations
  <2>1. 0 \in Generations /\ NoReceipts \in Receipts
    BY ReferenceStoreAssumption DEF Generations, NoReceipts, NoReceipt, Receipts
  <2>. QED BY <2>1 DEF Blank, Memory
<1>10. e \in Entry
  <2>1. (CHOOSE t \in Tokens : TRUE) \in Tokens
    BY ReferenceStoreAssumption
  <2>. QED BY <1>2, <2>1 DEF NoEntry, Bad, Entry
<1>11. memory' \in [Procs -> Memory] /\ \A q \in Procs : memory'[q] = Blank
  BY <1>3, <1>4, <1>6, <1>9 DEF TypeOK
<1>12. staged' \in [Procs -> Entry] /\ target' \in [Procs -> Generations]
  BY <1>3, <1>4, <1>9, <1>10 DEF TypeOK
<1>13. TypeOK'
  BY <1>3, <1>4, <1>5, <1>7, <1>11, <1>12 DEF TypeOK, files
<1>14. StoredInv'
  BY <1>3, <1>4, FilesKept
<1>15. LockInv'
  BY <1>5, <1>8, <1>11, ReferenceStoreAssumption DEF LockInv
<1>16. ASSUME NEW q \in Procs PROVE ServeInv(q)' /\ MergeInv(q)' /\ AdoptInv(q)'
  BY <1>8 DEF ServeInv, MergeInv, AdoptInv, Serving, Merging
<1>17. StoreInv'
  BY <1>13, <1>14, <1>15, <1>16 DEF StoreInv
<1>. QED BY <1>3, <1>17

(* A file operation fails: the process refuses, and the files stay. *)
LEMMA Fails ==
  ASSUME StoreInv, NEW p \in Procs, IOError(p)
  PROVE  StoreInv'
<1>1. /\ pc[p] # "new" /\ Goto(p, "refusing") /\ UNCHANGED <<files, holder, memory, staged, target, acked>>
  BY DEF IOError
<1>2. holder = p /\ TypeOK /\ StoredInv /\ LockInv
  BY <1>1, Held
<1>3. /\ pc' \in [Procs -> Labels] /\ pc'[p] = "refusing"
      /\ \A q \in Procs : q # p => pc'[q] = pc[q]
  BY <1>1, <1>2, Places DEF Labels
<1>4. TypeOK'
  BY <1>1, <1>2, <1>3 DEF TypeOK, files
<1>5. StoredInv'
  BY <1>1, <1>2, FilesKept
<1>6. ServeInv(p)' /\ MergeInv(p)' /\ AdoptInv(p)'
  BY <1>3 DEF ServeInv, MergeInv, AdoptInv, Serving, Merging
<1>. QED BY <1>1, <1>2, <1>3, <1>4, <1>5, <1>6, OthersWait

(* A step that changes nothing. *)
LEMMA Stays ==
  ASSUME StoreInv, UNCHANGED vars
  PROVE  StoreInv'
<1>1. /\ TypeOK /\ StoredInv /\ LockInv /\ \A p \in Procs : ServeInv(p) /\ MergeInv(p) /\ AdoptInv(p)
      /\ UNCHANGED <<data, wal, tmp, CURRENT, holder, pc, memory, staged, target, acked>>
  BY DEF StoreInv, vars, files
<1>2. Recovered' = Recovered /\ StoredInv'
  BY <1>1, FilesKept DEF files
<1>3. TypeOK' /\ LockInv'
  BY <1>1 DEF TypeOK, LockInv
<1>4. ASSUME NEW p \in Procs PROVE ServeInv(p)' /\ MergeInv(p)' /\ AdoptInv(p)'
  <2>1. ServeInv(p) /\ MergeInv(p) /\ AdoptInv(p)
    BY <1>1
  <2>2. ServeInv(p)'
    BY <1>1, <1>2, <2>1 DEF ServeInv, Alone, StagedInv
  <2>3. MergeInv(p)'
    BY <1>1, <1>2, <2>1 DEF MergeInv, Sound
  <2>4. AdoptInv(p)'
    BY <1>1, <1>2, <2>1 DEF AdoptInv
  <2>. QED BY <2>2, <2>3, <2>4
<1>. QED BY <1>2, <1>3, <1>4 DEF StoreInv

(* An empty directory, and nobody at work. *)
LEMMA Begins ==
  ASSUME Init
  PROVE  StoreInv
<1>1. PICK e : e = NoEntry
  OBVIOUS
<1>2. /\ data = [g \in Generations |-> Absent] /\ wal = [g \in Generations |-> Absent]
      /\ tmp = Absent /\ CURRENT = Absent /\ holder = NoProc
      /\ pc = [p \in Procs |-> "new"] /\ memory = [p \in Procs |-> Blank]
      /\ staged = [p \in Procs |-> e] /\ target = [p \in Procs |-> 0] /\ acked = {}
  BY <1>1 DEF Init
<1>3. Blank \in Memory /\ 0 \in Generations /\ "new" \in Labels
  <2>1. 0 \in Generations /\ NoReceipts \in Receipts
    BY ReferenceStoreAssumption DEF Generations, NoReceipts, NoReceipt, Receipts
  <2>. QED BY <2>1 DEF Blank, Memory, Labels
<1>4. e \in Entry
  <2>1. (CHOOSE t \in Tokens : TRUE) \in Tokens
    BY ReferenceStoreAssumption
  <2>. QED BY <1>1, <2>1 DEF NoEntry, Bad, Entry
<1>5. TypeOK
  BY <1>2, <1>3, <1>4 DEF TypeOK
<1>6. StoredInv
  BY <1>2 DEF StoredInv
<1>7. LockInv
  BY <1>2, ReferenceStoreAssumption DEF LockInv
<1>8. ASSUME NEW p \in Procs PROVE ServeInv(p) /\ MergeInv(p) /\ AdoptInv(p)
  BY <1>2 DEF ServeInv, MergeInv, AdoptInv, Serving, Merging
<1>. QED BY <1>5, <1>6, <1>7, <1>8 DEF StoreInv

(* Every step, of any process, keeps the invariant. *)
LEMMA Keeps ==
  ASSUME StoreInv, [Next]_vars
  PROVE  StoreInv'
<1>1. ASSUME NEW p \in Procs, Step(p) PROVE StoreInv'
  BY <1>1, Recoveries, Truncates, RemovesOrphan, Readies, WritesFragment, WritesFrame,
     Applies,
     MergeWrites, Renames, Adopts DEF Step
<1>2. ASSUME NEW p \in Procs, NEW t \in Tokens, NEW body \in Bodies,
             Replay(p, t, body) \/ Transaction(p, t, body)
      PROVE  StoreInv'
  BY <1>2, Replays, Stages
<1>3. ASSUME NEW p \in Procs,
             Build(p) \/ Open(p) \/ Merge(p) \/ Close(p) \/ Crash(p) \/ IOError(p)
      PROVE  StoreInv'
  BY <1>3, Builds, Opens, MergeBegins, Exits, Fails
<1>. QED BY <1>1, <1>2, <1>3, Stays DEF Next

(* The invariant, of every reachable state. *)
THEOREM StoreInvariant == Spec => []StoreInv
<1>. QED BY Begins, Keeps, PTL DEF Spec

(* The store's variables keep their types. *)
THEOREM TypeCorrect == Spec => []TypeOK
<1>1. StoreInv => TypeOK
  BY DEF StoreInv
<1>. QED BY <1>1, StoreInvariant, PTL

(* Once a build has committed, no crash and no failed file operation leaves *)
(* files that open refuses: checks, log records and manifest stay in order  *)
(* between any two file operations of a transaction or a merge.             *)
THEOREM AlwaysRecoverable == Spec => []NeverUnopenable
<1>1. StoreInv => NeverUnopenable
  BY DEF StoreInv, StoredInv, NeverUnopenable
<1>. QED BY <1>1, StoreInvariant, PTL

(* An open store answers from what recovery would load, and a merge never   *)
(* meets the files of an interrupted one.                                   *)
THEOREM MemoryAndFilesAgree == Spec => []FilesInOrder
<1>1. ASSUME StoreInv, NEW p \in Procs, pc[p] = "ready"
      PROVE  Recoverable /\ memory[p] = Recovered /\ ~wal[CURRENT.generation].torn
  <2>1. ServeInv(p) /\ StoredInv
    BY <1>1 DEF StoreInv
  <2>. QED BY <1>1, <2>1 DEF ServeInv, StoredInv, Serving
<1>2. ASSUME StoreInv, NEW p \in Procs
      PROVE  /\ pc[p] = "snapshot" => data[target[p]] = Absent /\ wal[target[p]] = Absent /\ tmp = Absent
             /\ pc[p] = "log" => wal[target[p]] = Absent
             /\ pc[p] = "manifest" => tmp = Absent
  <2>1. MergeInv(p)
    BY <1>2 DEF StoreInv
  <2>. QED BY <2>1 DEF MergeInv, Merging
<1>3. StoreInv => FilesInOrder
  BY <1>1, <1>2 DEF FilesInOrder, MemoryMatchesFiles, MergeNeverCollides
<1>. QED BY <1>3, StoreInvariant, PTL

-----------------------------------------------------------------------------
(* The files are the durable store *)

(* A step that shows nothing. *)
LEMMA Hidden ==
  ASSUME UNCHANGED <<CURRENT, acked>>, CURRENT # Absent => Recovered' = Recovered
  PROVE  UNCHANGED Durable!vars
BY DEF Durable!vars

(* A store that is built has what recovery would load. *)
LEMMA Shown ==
  ASSUME CURRENT # Absent
  PROVE  /\ (IF CURRENT = Absent THEN {} ELSE Recovered.rows) = Recovered.rows
         /\ (IF CURRENT = Absent THEN NoReceipts ELSE Recovered.receipts) = Recovered.receipts
OBVIOUS

(* The commit point of a transaction is the end of its frame. *)
LEMMA Commits ==
  ASSUME StoreInv, NEW p \in Procs, WriteFrame(p)
  PROVE  Durable!Next
<1>1. PICK m, e : m = Recovered /\ e = staged[p]
  OBVIOUS
<1>2. /\ Recovered' = Applied(m, e) /\ StagedInv(m, e) /\ Sound(m) /\ m \in Memory
      /\ CURRENT # Absent /\ UNCHANGED <<CURRENT, acked>>
  BY <1>1, WritesFrame DEF WriteFrame
<1>3. /\ e \in Entry /\ e.token \in Tokens /\ e.body \in Bodies
      /\ m.receipts[e.token] = NoReceipt /\ Fits(m.rows, e.body)
  BY <1>2 DEF StagedInv, Entry
<1>4. e.txid = Cardinality(Committed(m.receipts)) + 1
  BY <1>2, AppliedSound
<1>5. Recovered'.rows = m.rows \cup e.body
  BY <1>2, <1>3, AppliedParts
<1>6. Recovered'.receipts = [m.receipts EXCEPT ![e.token] = [txid |-> e.txid, body |-> e.body]]
  BY <1>2, AppliedReceipts
<1>7. Durable!Fits(m.rows, e.body) /\ Durable!NoReceipt = NoReceipt /\ Durable!Bodies = Bodies
  BY <1>3
     DEF Durable!Fits, Durable!Closed, Fits, Closed, Durable!NoReceipt, NoReceipt,
         Durable!Bodies, Bodies
<1>8. Durable!Cardinality(Durable!Committed(m.receipts)) = Cardinality(Committed(m.receipts))
  BY
     DEF Durable!Committed, Committed, Durable!NoReceipt, NoReceipt, Durable!Cardinality,
         Cardinality
<1>9. Durable!Commit(e.token, e.body)
  BY <1>1, <1>2, <1>3, <1>4, <1>5, <1>6, <1>7, <1>8 DEF Durable!Commit
<1>. QED BY <1>3, <1>7, <1>9 DEF Durable!Next

(* A reply tells a transaction that the files keep. *)
LEMMA Answers ==
  ASSUME CURRENT # Absent, UNCHANGED files, NEW t \in Tokens, Recovered.receipts[t] # NoReceipt,
         acked' = acked \cup
           {[token |-> t, txid |-> Recovered.receipts[t].txid, body |-> Recovered.receipts[t].body]}
  PROVE  Durable!Next
<1>1. Recovered' = Recovered /\ CURRENT' = CURRENT
  BY FilesKept DEF files
<1>2. Durable!NoReceipt = NoReceipt
  BY DEF Durable!NoReceipt, NoReceipt
<1>3. t \in Durable!Committed(IF CURRENT = Absent THEN NoReceipts ELSE Recovered.receipts)
  BY <1>2 DEF Durable!Committed
<1>4. Durable!Answer(t)
  BY <1>1, <1>3 DEF Durable!Answer
<1>. QED BY <1>4 DEF Durable!Next

(* The first reply to a transaction. *)
LEMMA Acknowledges ==
  ASSUME StoreInv, NEW p \in Procs, Apply(p)
  PROVE  Durable!Next
<1>1. PICK e, m : e = staged[p] /\ m = memory[p]
  OBVIOUS
<1>2. pc[p] = "apply" /\ acked' = acked \cup {e} /\ UNCHANGED files
  BY <1>1 DEF Apply
<1>3. ServeInv(p) /\ e \in Entry /\ m \in Memory
  BY <1>1, <1>2, Held
<1>4. CURRENT # Absent /\ Recovered = Applied(m, e) /\ StagedInv(m, e)
  BY <1>1, <1>2, <1>3 DEF ServeInv, Serving
<1>5. Recovered.receipts[e.token] = [txid |-> e.txid, body |-> e.body] /\ e.token \in Tokens
  BY <1>3, <1>4, AppliedParts DEF Entry
<1>6. e.txid # 0
  BY <1>3, <1>4 DEF StagedInv, Memory
<1>7. Recovered.receipts[e.token] # NoReceipt
  BY <1>5, <1>6 DEF NoReceipt
<1>8. e = [token |-> e.token, txid |-> e.txid, body |-> e.body]
  BY <1>3 DEF Entry
<1>9. /\ Recovered.receipts[e.token].txid = e.txid
      /\ Recovered.receipts[e.token].body = e.body
  BY <1>5
<1>. QED BY <1>2, <1>4, <1>5, <1>7, <1>8, <1>9, Answers

(* The reply to a token that has been committed before. *)
LEMMA Repeats ==
  ASSUME StoreInv, NEW p \in Procs, NEW t \in Tokens, NEW body \in Bodies, Replay(p, t, body)
  PROVE  Durable!Next
<1>1. /\ pc[p] = "ready" /\ UNCHANGED files
      /\ memory[p].receipts[t] # NoReceipt /\ memory[p].receipts[t].body = body
      /\ acked' = acked \cup {[token |-> t, txid |-> memory[p].receipts[t].txid, body |-> body]}
  BY DEF Replay
<1>2. CURRENT # Absent /\ memory[p] = Recovered
  BY <1>1, Serves DEF Serving
<1>. QED BY <1>1, <1>2, Answers

(* The first manifest is the commit point of a build; a later one shows     *)
(* nothing, for the new generation stands for what the old one did.         *)
LEMMA Publishes ==
  ASSUME StoreInv, NEW p \in Procs, Rename(p)
  PROVE  Durable!Next \/ UNCHANGED Durable!vars
<1>1. PICK m : m = memory[p]
  OBVIOUS
<1>2. /\ CURRENT' # Absent /\ Recovered'.rows = m.rows /\ Recovered'.receipts = m.receipts
      /\ MergeInv(p) /\ pc[p] = "rename" /\ acked' = acked
  BY <1>1, Renames DEF Rename
<1>3. CASE CURRENT = Absent
  <2>1. m = [Blank EXCEPT !.rows = Initial]
    BY <1>1, <1>2, <1>3 DEF MergeInv, Merging
  <2>2. m.rows = Initial /\ m.receipts = NoReceipts
    BY <2>1 DEF Blank
  <2>3. Durable!Build
    BY <1>2, <1>3, <2>2 DEF Durable!Build
  <2>. QED BY <2>3 DEF Durable!Next
<1>4. CASE CURRENT # Absent
  <2>1. m = Recovered
    BY <1>1, <1>2, <1>4 DEF MergeInv, Merging
  <2>. QED BY <1>2, <1>4, <2>1 DEF Durable!vars
<1>. QED BY <1>3, <1>4

(* Every step is a step of the durable store, or shows nothing. *)
LEMMA Simulates ==
  ASSUME StoreInv, [Next]_vars
  PROVE  Durable!Next \/ UNCHANGED Durable!vars
<1>1. ASSUME UNCHANGED <<files, acked>> PROVE UNCHANGED Durable!vars
  <2>1. UNCHANGED <<CURRENT, acked>> /\ Recovered' = Recovered
    BY <1>1, FilesKept DEF files
  <2>. QED BY <2>1, Hidden
<1>2. ASSUME NEW p \in Procs, Step(p) PROVE Durable!Next \/ UNCHANGED Durable!vars
  <2>1. CASE Recover(p) \/ Ready(p) \/ Adopt(p)
    BY <1>1, <2>1 DEF Recover, Ready, Adopt
  <2>2. CASE TruncateLog(p) \/ RemoveOrphan(p) \/ WriteFragment(p)
    <3>1. UNCHANGED <<CURRENT, acked>>
      BY <2>2 DEF TruncateLog, RemoveOrphan, WriteFragment
    <3>. QED BY <2>2, <3>1, Truncates, RemovesOrphan, WritesFragment, Hidden
  <2>3. CASE CreateSnapshot(p) \/ WriteSnapshot(p) \/ CreateLog(p) \/ WriteLog(p)
             \/ CreateManifest(p) \/ WriteManifest(p)
    <3>1. UNCHANGED <<CURRENT, acked>>
      BY <2>3
         DEF CreateSnapshot, WriteSnapshot, CreateLog, WriteLog, CreateManifest,
             WriteManifest
    <3>. QED BY <2>3, <3>1, MergeWrites, Hidden
  <2>. QED BY <1>2, <2>1, <2>2, <2>3, Commits, Acknowledges, Publishes DEF Step
<1>3. ASSUME NEW p \in Procs, NEW t \in Tokens, NEW body \in Bodies,
             Replay(p, t, body) \/ Transaction(p, t, body)
      PROVE  Durable!Next \/ UNCHANGED Durable!vars
  <2>1. Transaction(p, t, body) => UNCHANGED <<files, acked>>
    BY DEF Transaction
  <2>. QED BY <1>1, <1>3, <2>1, Repeats
<1>4. ASSUME NEW p \in Procs,
             Build(p) \/ Open(p) \/ Merge(p) \/ Close(p) \/ Crash(p) \/ IOError(p)
      PROVE  UNCHANGED Durable!vars
  <2>1. Build(p) \/ Open(p) \/ Merge(p) \/ IOError(p) => UNCHANGED <<files, acked>>
    BY DEF Build, Open, Merge, IOError
  <2>. QED BY <1>1, <1>4, <2>1, Exits
<1>5. CASE UNCHANGED vars
  BY <1>1, <1>5 DEF vars
<1>. QED BY <1>2, <1>3, <1>4, <1>5 DEF Next

(* The contract: seen as recovery would read them, the files are the        *)
(* abstract durable store.  Crashes and merges change nothing, a            *)
(* transaction happens at one moment, whole, with the next id, and every    *)
(* reply tells one that the store keeps.                                    *)
THEOREM ImplementsDurableStore == Spec => KeepsPromise
<1>1. Init => Durable!Init
  <2>1. Durable!NoReceipts = NoReceipts
    BY DEF Durable!NoReceipts, NoReceipts, Durable!NoReceipt, NoReceipt
  <2>. QED BY <2>1 DEF Init, Durable!Init
<1>2. StoreInv /\ [Next]_vars => [Durable!Next]_(Durable!vars)
  BY Simulates
<1>. QED BY <1>1, <1>2, StoreInvariant, PTL DEF Spec, KeepsPromise, Durable!Spec

=============================================================================
