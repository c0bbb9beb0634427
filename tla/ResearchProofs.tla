---------------------------- MODULE ResearchProofs ----------------------------
(* Proofs about the tools of a researcher that keep records, for any        *)
(* processes, results, claims and limits.                                   *)
EXTENDS Research, FiniteSetTheorems, WellFoundedInduction, TLAPS

-----------------------------------------------------------------------------
(* The memory *)

(* What a version says of its results: they are of its scope and of full    *)
(* quality, it observes the candidates of its claim, and its support is by  *)
(* other results than it was proposed with.                                 *)
Sound(v) ==
  /\ Measured[v.observed.reference].candidate = Measured[v.proposal.claim.reference].candidate
  /\ Measured[v.observed.candidate].candidate = Measured[v.proposal.claim.candidate].candidate
  /\ \A r \in Memory!Cited(v) : Measured[r].quality /\ Measured[r].scope = v.scope
  /\ v.status = "supported_within_scope" =>
       Memory!Supports(v.observed) /\ Memory!Pair(v.observed) \cap v.proposal.evidence = {}

(* A check observes results that no version of h cites. *)
Fresh(v, h) ==
  v.operation = "check" =>
    \A i \in 1 .. Len(h) : Memory!Pair(v.observed) \cap Memory!Cited(h[i]) = {}

HistoryInv ==
  \A l \in Lessons : \A j \in 1 .. Len(versions[l]) :
    /\ Sound(versions[l][j])
    /\ versions[l][j].operation = "check" =>
         \A i \in 1 .. (j - 1) :
           Memory!Pair(versions[l][j].observed) \cap Memory!Cited(versions[l][i]) = {}

(* What a listing names is current. *)
Lists(entries) ==
  \A e \in entries : /\ e[2] = Len(versions[e[1]])
                     /\ Memory!Current(e[1]).status # "refuted"
                     /\ Memory!Supports(Memory!Current(e[1]).observed)

(* A process works under the lock, on the lesson as it has read it. *)
CallInv(p) ==
  /\ memoryPc[p] # "idle" <=> memoryHolder = p
  /\ memoryPc[p] = "idle" => memoryDraft[p] = Memory!NoDraft
  /\ memoryPc[p] \in {"write", "append"} =>
       /\ memoryDraft[p] \in Memory!Drafts
       /\ memoryDraft[p].base = Len(versions[memoryDraft[p].lesson])
       /\ Sound(memoryDraft[p].version)
       /\ Fresh(memoryDraft[p].version, versions[memoryDraft[p].lesson])
  /\ memoryPc[p] = "collect" =>
       memoryDraft[p] \in Memory!Listings /\ Lists(memoryDraft[p].entries)

MemoryInv ==
  /\ Memory!TypeOK
  /\ HistoryInv
  /\ \A p \in Readers : CallInv(p)

(* What the memory assumes of its constants. *)
LEMMA MemoryConstants == Memory!RefinementAssumption
BY ResearchAssumption

(* Everything but what a process holds. *)
Kept == UNCHANGED <<versions, context, committed, spoiled, drifts>>

(* A call that returns releases the lock, and holds nothing. *)
LEMMA MemoryReturns ==
  ASSUME MemoryInv, NEW p \in Readers, Memory!Return(p), Kept, memoryCrashes' \in Nat
  PROVE  MemoryInv'
<1>1. /\ memoryPc' = [memoryPc EXCEPT ![p] = "idle"]
      /\ memoryDraft' = [memoryDraft EXCEPT ![p] = Memory!NoDraft]
      /\ memoryHolder' = IF memoryHolder = p THEN None ELSE memoryHolder
      /\ p # None
  BY MemoryConstants DEF Memory!Return, Memory!RefinementAssumption
<1>2. Memory!TypeOK'
  BY <1>1 DEF MemoryInv, Memory!TypeOK, Kept
<1>3. ASSUME NEW q \in Readers PROVE CallInv(q)'
  <2>1. CASE q = p
    BY <1>1, <2>1 DEF MemoryInv, Memory!TypeOK, CallInv
  <2>2. CASE q # p
    <3>1. memoryPc'[q] = memoryPc[q] /\ memoryDraft'[q] = memoryDraft[q]
      BY <1>1, <2>2 DEF MemoryInv, Memory!TypeOK
    <3>2. memoryHolder' = q <=> memoryHolder = q
      BY <1>1, <2>2, MemoryConstants DEF Memory!RefinementAssumption
    <3>. QED BY <3>1, <3>2 DEF MemoryInv, CallInv, Kept, Lists, Memory!Current
  <2>. QED BY <2>1, <2>2
<1>. QED BY <1>2, <1>3 DEF MemoryInv, HistoryInv, Kept

(* A call that has taken the lock, and holds a draft or a listing. *)
LEMMA MemoryTakes ==
  ASSUME MemoryInv, NEW p \in Readers, NEW label \in {"write", "collect"}, NEW x,
         Memory!Lock(p), Kept, UNCHANGED memoryCrashes,
         memoryPc' = [memoryPc EXCEPT ![p] = label],
         memoryDraft' = [memoryDraft EXCEPT ![p] = x],
         label = "write" => /\ x \in Memory!Drafts
                            /\ x.base = Len(versions[x.lesson])
                            /\ Sound(x.version) /\ Fresh(x.version, versions[x.lesson]),
         label = "collect" => x \in Memory!Listings /\ Lists(x.entries)
  PROVE  MemoryInv'
<1>1. memoryPc[p] = "idle" /\ memoryHolder = None /\ memoryHolder' = p /\ p # None
  BY MemoryConstants DEF Memory!Lock, Memory!RefinementAssumption
<1>2. Memory!TypeOK'
  BY <1>1 DEF MemoryInv, Memory!TypeOK, Kept
<1>3. ASSUME NEW q \in Readers PROVE CallInv(q)'
  <2>1. CASE q = p
    <3>1. memoryPc'[q] = label /\ memoryDraft'[q] = x
      BY <2>1 DEF MemoryInv, Memory!TypeOK
    <3>. QED BY <1>1, <2>1, <3>1 DEF CallInv, Kept, Lists, Memory!Current
  <2>2. CASE q # p
    <3>1. memoryPc'[q] = memoryPc[q] /\ memoryDraft'[q] = memoryDraft[q]
      BY <2>2 DEF MemoryInv, Memory!TypeOK
    <3>2. memoryPc[q] = "idle" /\ memoryHolder' # q
      BY <1>1, <2>2, MemoryConstants DEF MemoryInv, CallInv, Memory!RefinementAssumption
    <3>. QED BY <3>1, <3>2 DEF MemoryInv, CallInv
  <2>. QED BY <2>1, <2>2
<1>. QED BY <1>2, <1>3 DEF MemoryInv, HistoryInv, Kept

(* ... a version of a lesson that is made from what is current. *)
LEMMA MemoryPrepares ==
  ASSUME MemoryInv, NEW p \in Readers, NEW l \in Lessons, NEW v \in Memory!Version, Sound(v),
         Fresh(v, versions[l]), Memory!Lock(p), Memory!Prepare(p, l, v)
  PROVE  MemoryInv'
<1>1. PICK x : x = [kind |-> "version", lesson |-> l, version |-> v, base |-> Len(versions[l])]
  OBVIOUS
<1>2. x \in Memory!Drafts /\ x.base = Len(versions[x.lesson]) /\ x.version = v /\ x.lesson = l
  BY <1>1 DEF Memory!Drafts, MemoryInv, Memory!TypeOK
<1>. QED BY <1>1, <1>2, MemoryTakes DEF Memory!Prepare, Kept

(* propose: its evidence holds both results it compares. *)
LEMMA Proposes ==
  ASSUME MemoryInv, NEW p \in Readers, NEW e \in Proposals, Memory!Propose(p, e)
  PROVE  MemoryInv'
<1>1. PICK v : v = [proposal |-> e, scope |-> context, status |-> "provisional",
                    observed |-> e.claim, operation |-> "propose"]
  OBVIOUS
<1>2. e \in Memory!Entries /\ Memory!WellFormed(e)
  BY MemoryConstants DEF Memory!RefinementAssumption
<1>3. v \in Memory!Version
  BY <1>1, <1>2
  DEF Memory!Version, Memory!Entries, Memory!Statuses, Memory!Operations, MemoryInv, Memory!TypeOK
<1>4. Memory!Cited(v) = e.evidence
  BY <1>1, <1>2 DEF Memory!Cited, Memory!Pair, Memory!WellFormed
<1>5. Sound(v) /\ Fresh(v, versions[e.id])
  BY <1>1, <1>4 DEF Sound, Fresh, Memory!Propose, Memory!Admissible
<1>6. e.id \in Lessons /\ Memory!Lock(p) /\ Memory!Prepare(p, e.id, v)
  BY <1>1, <1>2 DEF Memory!Propose, Memory!Entries
<1>. QED BY <1>3, <1>5, <1>6, MemoryPrepares

(* check: the pair is new to the whole history of the lesson. *)
LEMMA Checks ==
  ASSUME MemoryInv, NEW p \in Readers, NEW l \in Lessons, NEW reference \in Results,
         NEW candidate \in Results, Memory!Check(p, l, reference, candidate)
  PROVE  MemoryInv'
<1>1. PICK n : n = Len(versions[l])
  OBVIOUS
<1>2. /\ versions[l] \in Seq(Memory!Version) /\ n \in Nat /\ n >= 1
      /\ Memory!Current(l) = versions[l][n] /\ versions[l][n] \in Memory!Version
  <2>1. versions[l] \in Seq(Memory!Version)
    BY DEF MemoryInv, Memory!TypeOK
  <2>2. versions[l] # <<>>
    BY DEF Memory!Check, Memory!Exists
  <2>. QED BY <1>1, <2>1, <2>2 DEF Memory!Current
<1>3. PICK v \in Memory!Version : v = versions[l][n]
  BY <1>2
<1>4. PICK o : o = [reference |-> reference, candidate |-> candidate,
                    relation |-> v.proposal.claim.relation]
  OBVIOUS
<1>5. /\ Memory!Lock(p) /\ Memory!Pair(o) \cap Memory!Used(l) = {}
      /\ Memory!Valid(v, context) /\ Memory!Admissible(Memory!Pair(o), context)
      /\ Measured[reference].candidate = Measured[v.observed.reference].candidate
      /\ Measured[candidate].candidate = Measured[v.observed.candidate].candidate
      /\ Memory!Prepare(p, l, [v EXCEPT !.observed = o, !.operation = "check",
                                        !.status = IF Memory!Supports(o)
                                                   THEN "supported_within_scope" ELSE "refuted"])
  BY <1>2, <1>3, <1>4 DEF Memory!Check
<1>6. PICK w : w = [proposal |-> v.proposal, scope |-> v.scope, observed |-> o, operation |-> "check",
                    status |-> IF Memory!Supports(o) THEN "supported_within_scope" ELSE "refuted"]
  OBVIOUS
<1>7. PICK status \in Memory!Statuses :
        status = IF Memory!Supports(o) THEN "supported_within_scope" ELSE "refuted"
  BY DEF Memory!Statuses
<1>8. [v EXCEPT !.observed = o, !.operation = "check", !.status = status] = w
  <2>1. PICK a : a = [v EXCEPT !.observed = o]
    OBVIOUS
  <2>2. a = [proposal |-> v.proposal, scope |-> v.scope, status |-> v.status, observed |-> o,
             operation |-> v.operation]
    BY <2>1 DEF Memory!Version
  <2>3. PICK b : b = [a EXCEPT !.operation = "check"]
    OBVIOUS
  <2>4. b = [proposal |-> v.proposal, scope |-> v.scope, status |-> v.status, observed |-> o,
             operation |-> "check"]
    BY <2>2, <2>3
  <2>5. [b EXCEPT !.status = status] = w
    BY <1>6, <1>7, <2>4
  <2>6. [v EXCEPT !.observed = o, !.operation = "check", !.status = status]
          = [[[v EXCEPT !.observed = o] EXCEPT !.operation = "check"] EXCEPT !.status = status]
    OBVIOUS
  <2>. QED BY <2>1, <2>3, <2>5, <2>6
<1>9. o \in Memory!Claims
  BY <1>4 DEF Memory!Claims, Memory!Version, Memory!Entries
<1>10. w \in Memory!Version
  BY <1>6, <1>7, <1>9 DEF Memory!Version, Memory!Operations
<1>11. Sound(v)
  BY <1>1, <1>2, <1>3 DEF MemoryInv, HistoryInv
<1>12. v.proposal.evidence \subseteq Memory!Used(l)
  BY <1>1, <1>2, <1>3 DEF Memory!Used, Memory!Cited
<1>13. Sound(w)
  <2>1. /\ Measured[w.observed.reference].candidate = Measured[w.proposal.claim.reference].candidate
        /\ Measured[w.observed.candidate].candidate = Measured[w.proposal.claim.candidate].candidate
    BY <1>4, <1>5, <1>6, <1>11 DEF Sound
  <2>2. ASSUME NEW r \in Memory!Cited(w)
        PROVE  Measured[r].quality /\ Measured[r].scope = w.scope
    <3>1. r \in Memory!Cited(v) \cup Memory!Pair(o)
      BY <1>6 DEF Memory!Cited
    <3>. QED BY <1>5, <1>6, <3>1 DEF Memory!Valid, Memory!Admissible
  <2>3. w.status = "supported_within_scope" => Memory!Supports(w.observed)
    BY <1>6
  <2>4. Memory!Pair(w.observed) \cap w.proposal.evidence = {}
    BY <1>5, <1>6, <1>12
  <2>. QED BY <2>1, <2>2, <2>3, <2>4 DEF Sound
<1>14. Fresh(w, versions[l])
  BY <1>5, <1>6 DEF Fresh, Memory!Used
<1>15. Memory!Prepare(p, l, w)
  BY <1>5, <1>7, <1>8
<1>. QED BY <1>5, <1>10, <1>13, <1>14, <1>15, MemoryPrepares

(* rollback: the version was sound when it was written. *)
LEMMA RollsBack ==
  ASSUME MemoryInv, NEW p \in Readers, NEW l \in Lessons, NEW i, Memory!Rollback(p, l, i)
  PROVE  MemoryInv'
<1>1. i \in 1 .. Len(versions[l]) /\ versions[l] \in Seq(Memory!Version)
  BY DEF MemoryInv, Memory!TypeOK, Memory!Rollback
<1>2. PICK v \in Memory!Version : v = versions[l][i]
  BY <1>1
<1>3. PICK w : w = [v EXCEPT !.operation = "rollback"]
  OBVIOUS
<1>4. /\ w \in Memory!Version /\ w.operation = "rollback" /\ w.proposal = v.proposal
      /\ w.observed = v.observed /\ w.scope = v.scope /\ w.status = v.status
  BY <1>3 DEF Memory!Version, Memory!Operations
<1>5. Sound(v)
  BY <1>1, <1>2 DEF MemoryInv, HistoryInv
<1>6. Memory!Cited(w) = Memory!Cited(v)
  BY <1>4 DEF Memory!Cited
<1>7. Sound(w) /\ Fresh(w, versions[l])
  BY <1>4, <1>5, <1>6 DEF Sound, Fresh
<1>8. Memory!Lock(p) /\ Memory!Prepare(p, l, w)
  BY <1>2, <1>3 DEF Memory!Rollback
<1>. QED BY <1>4, <1>7, <1>8, MemoryPrepares

(* _write goes on in the context it began in. *)
LEMMA Rechecks == ASSUME MemoryInv, NEW p \in Readers, Memory!Recheck(p) PROVE MemoryInv'
<1>1. CASE Memory!Return(p)
  BY <1>1, MemoryReturns DEF Memory!Recheck, Kept, MemoryInv, Memory!TypeOK
<1>2. CASE memoryPc' = [memoryPc EXCEPT ![p] = "append"] /\ UNCHANGED <<memoryHolder, memoryDraft>>
  <2>1. Kept /\ UNCHANGED memoryCrashes /\ memoryPc[p] = "write"
    BY DEF Memory!Recheck, Kept
  <2>2. Memory!TypeOK'
    BY <1>2, <2>1 DEF MemoryInv, Memory!TypeOK, Kept
  <2>3. ASSUME NEW q \in Readers PROVE CallInv(q)'
    BY <1>2, <2>1 DEF MemoryInv, Memory!TypeOK, CallInv, Kept, Lists, Memory!Current
  <2>. QED BY <2>1, <2>2, <2>3 DEF MemoryInv, HistoryInv, Kept
<1>. QED BY <1>1, <1>2 DEF Memory!Recheck

(* The ledger's update: nobody else works on the memory meanwhile. *)
LEMMA Appends == ASSUME MemoryInv, NEW p \in Readers, Memory!AppendVersion(p) PROVE MemoryInv'
<1>1. PICK l, v : l = memoryDraft[p].lesson /\ v = memoryDraft[p].version
  OBVIOUS
<1>2. /\ memoryPc[p] = "append" /\ memoryHolder = p /\ p # None
      /\ l \in Lessons /\ v \in Memory!Version /\ Sound(v) /\ Fresh(v, versions[l])
  BY <1>1, MemoryConstants
  DEF Memory!AppendVersion, MemoryInv, CallInv, Memory!Drafts, Memory!RefinementAssumption
<1>3. PICK n \in Nat, h \in Seq(Memory!Version) : h = versions[l] /\ n = Len(h)
  BY <1>2 DEF MemoryInv, Memory!TypeOK
<1>4. PICK g \in Seq(Memory!Version) : g = Append(h, v)
  <2>1. v \in Memory!Version /\ h \in Seq(Memory!Version)
    BY <1>2
  <2>2. Append(h, v) \in Seq(Memory!Version)
    BY <2>1
  <2>. QED BY <2>2
<1>5. Len(g) = n + 1 /\ g[n + 1] = v /\ \A j \in 1 .. n : g[j] = h[j]
  BY <1>2, <1>3, <1>4
<1>6. versions' = [versions EXCEPT ![l] = g]
  BY <1>1, <1>3, <1>4 DEF Memory!AppendVersion
<1>7. /\ memoryPc' = [memoryPc EXCEPT ![p] = "idle"]
      /\ memoryDraft' = [memoryDraft EXCEPT ![p] = Memory!NoDraft]
      /\ memoryHolder' = None
      /\ UNCHANGED <<context, committed, spoiled, drifts, memoryCrashes>>
  BY <1>2 DEF Memory!AppendVersion, Memory!Return
<1>8. Memory!TypeOK'
  BY <1>2, <1>4, <1>6, <1>7 DEF MemoryInv, Memory!TypeOK
<1>9. ASSUME NEW q \in Readers PROVE CallInv(q)'
  <2>1. memoryPc'[q] = "idle" /\ memoryDraft'[q] = Memory!NoDraft /\ q # None
    BY <1>2, <1>7, MemoryConstants
    DEF MemoryInv, Memory!TypeOK, CallInv, Memory!RefinementAssumption
  <2>. QED BY <1>7, <2>1 DEF CallInv
<1>10. HistoryInv'
  <2>1. ASSUME NEW k \in Lessons, k # l PROVE versions'[k] = versions[k]
    BY <1>6, <2>1 DEF MemoryInv, Memory!TypeOK
  <2>2. versions'[l] = g
    BY <1>2, <1>6 DEF MemoryInv, Memory!TypeOK
  <2>3. ASSUME NEW j \in 1 .. Len(g)
        PROVE  /\ Sound(g[j])
               /\ g[j].operation = "check" =>
                    \A i \in 1 .. (j - 1) :
                      Memory!Pair(g[j].observed) \cap Memory!Cited(g[i]) = {}
    <3>1. CASE j = n + 1
      <4>1. g[j] = v /\ \A i \in 1 .. (j - 1) : i \in 1 .. n /\ g[i] = h[i]
        BY <1>5, <3>1
      <4>. QED BY <1>2, <1>3, <4>1 DEF Fresh
    <3>2. CASE j \in 1 .. n
      <4>1. g[j] = h[j] /\ \A i \in 1 .. (j - 1) : i \in 1 .. n /\ g[i] = h[i]
        BY <1>5, <3>2
      <4>. QED BY <1>2, <1>3, <3>2, <4>1 DEF MemoryInv, HistoryInv
    <3>. QED BY <1>3, <1>5, <3>1, <3>2
  <2>. QED BY <2>1, <2>2, <2>3 DEF MemoryInv, HistoryInv
<1>. QED BY <1>8, <1>9, <1>10 DEF MemoryInv

(* A listing goes on: a lesson it adds is current and not refuted. *)
LEMMA Visits ==
  ASSUME MemoryInv, NEW p \in Readers, NEW l \in Lessons, Memory!Visit(p, l)
  PROVE  MemoryInv'
<1>1. /\ memoryPc[p] = "collect" /\ memoryDraft[p] \in Memory!Listings
      /\ Lists(memoryDraft[p].entries) /\ l \in memoryDraft[p].left
      /\ Kept /\ UNCHANGED <<memoryHolder, memoryPc, memoryCrashes>>
  BY DEF Memory!Visit, MemoryInv, CallInv, Kept
<1>2. PICK entries :
        entries = IF Memory!Listable(Memory!Current(l), memoryDraft[p].scope)
                  THEN memoryDraft[p].entries \cup {<<l, Len(versions[l])>>}
                  ELSE memoryDraft[p].entries
  OBVIOUS
<1>3. PICK left : left = memoryDraft[p].left \ {l}
  OBVIOUS
<1>4. PICK x : x = [kind |-> "listing", scope |-> memoryDraft[p].scope, left |-> left,
                    entries |-> entries]
  OBVIOUS
<1>5. memoryDraft' = [memoryDraft EXCEPT ![p] = x]
  <2>1. memoryDraft' = [memoryDraft EXCEPT ![p].left = left, ![p].entries = entries]
    BY <1>2, <1>3 DEF Memory!Visit, MemoryInv, Memory!TypeOK
  <2>2. [[memoryDraft[p] EXCEPT !.left = left] EXCEPT !.entries = entries] = x
    <3>1. PICK a : a = [memoryDraft[p] EXCEPT !.left = left]
      OBVIOUS
    <3>2. a = [kind |-> "listing", scope |-> memoryDraft[p].scope, left |-> left,
               entries |-> memoryDraft[p].entries]
      BY <1>1, <3>1 DEF Memory!Listings
    <3>3. [a EXCEPT !.entries = entries] = x
      BY <1>4, <3>2
    <3>. QED BY <3>1, <3>3
  <2>. QED BY <2>1, <2>2 DEF MemoryInv, Memory!TypeOK
<1>6. Len(versions[l]) \in Nat
  BY DEF MemoryInv, Memory!TypeOK
<1>7. entries \in SUBSET (Lessons \X Nat)
  BY <1>1, <1>2, <1>6 DEF Memory!Listings
<1>8. x \in Memory!Listings /\ x.entries = entries
  BY <1>1, <1>3, <1>4, <1>7 DEF Memory!Listings
<1>9. Lists(entries)
  BY <1>1, <1>2 DEF Lists, Memory!Listable
<1>10. Memory!TypeOK'
  BY <1>1, <1>5, <1>8 DEF MemoryInv, Memory!TypeOK, Kept
<1>11. ASSUME NEW q \in Readers PROVE CallInv(q)'
  <2>1. CASE q = p
    <3>1. memoryDraft'[q] = x
      BY <1>5, <2>1 DEF MemoryInv, Memory!TypeOK
    <3>2. Lists(x.entries)'
      BY <1>1, <1>8, <1>9 DEF Kept, Lists, Memory!Current
    <3>. QED BY <1>1, <1>8, <2>1, <3>1, <3>2 DEF MemoryInv, CallInv
  <2>2. CASE q # p
    <3>1. memoryDraft'[q] = memoryDraft[q]
      BY <1>5, <2>2 DEF MemoryInv, Memory!TypeOK
    <3>. QED BY <1>1, <3>1 DEF MemoryInv, CallInv, Kept, Lists, Memory!Current
  <2>. QED BY <2>1, <2>2
<1>. QED BY <1>1, <1>10, <1>11 DEF MemoryInv, HistoryInv, Kept

(* The lock and the calls are not what changes around them. *)
LEMMA MemoryBeside ==
  ASSUME MemoryInv, UNCHANGED <<versions, memoryHolder, memoryPc, memoryDraft, memoryCrashes>>,
         Memory!TypeOK'
  PROVE  MemoryInv'
BY DEF MemoryInv, HistoryInv, CallInv, Lists, Memory!Current

(* Every step of the memory keeps what its calls hold current. *)
LEMMA MemoryStep == ASSUME MemoryInv, Memory!Next PROVE MemoryInv'
<1>1. CASE \E p \in Readers : \E e \in Proposals : Memory!Propose(p, e)
  BY <1>1, Proposes
<1>2. CASE \E p \in Readers : \E l \in Lessons : \E reference, candidate \in Results :
             Memory!Check(p, l, reference, candidate)
  BY <1>2, Checks
<1>3. CASE \E p \in Readers : \E l \in Lessons : \E i \in 1 .. MaxVersions : Memory!Rollback(p, l, i)
  BY <1>3, RollsBack
<1>4. CASE \E p \in Readers : \E l \in Lessons : Memory!Visit(p, l)
  BY <1>4, Visits
<1>5. CASE \E p \in Readers : Memory!Recheck(p) \/ Memory!AppendVersion(p)
  BY <1>5, Rechecks, Appends
<1>6. ASSUME NEW p \in Readers, Memory!Collect(p) PROVE MemoryInv'
  <2>1. PICK x : x = [kind |-> "listing", scope |-> context, left |-> Memory!Known, entries |-> {}]
    OBVIOUS
  <2>2. Memory!Known \subseteq Lessons /\ context \in Contexts
    BY DEF Memory!Known, MemoryInv, Memory!TypeOK
  <2>3. x \in Memory!Listings /\ Lists(x.entries)
    BY <2>1, <2>2 DEF Memory!Listings, Lists
  <2>. QED BY <1>6, <2>1, <2>3, MemoryTakes DEF Memory!Collect, Kept
<1>7. CASE \E p \in Readers : Memory!Answer(p) \/ Memory!Crash(p)
  BY <1>7, MemoryReturns DEF Memory!Answer, Memory!Crash, Kept, MemoryInv, Memory!TypeOK
<1>8. CASE \/ \E r \in Results : Memory!Commit(r)
           \/ \E x \in Results \cup Candidates : Memory!Spoil(x)
           \/ \E ctx \in Contexts : Memory!Drift(ctx)
  <2>1. /\ UNCHANGED <<versions, memoryHolder, memoryPc, memoryDraft, memoryCrashes>>
        /\ committed' \subseteq Results /\ spoiled' \subseteq Results \cup Candidates
        /\ context' \in Contexts /\ drifts' \in Nat
    BY <1>8 DEF Memory!Commit, Memory!Spoil, Memory!Drift, MemoryInv, Memory!TypeOK
  <2>2. Memory!TypeOK'
    BY <2>1 DEF MemoryInv, Memory!TypeOK
  <2>. QED BY <2>1, <2>2, MemoryBeside
<1>. QED BY <1>1, <1>2, <1>3, <1>4, <1>5, <1>6, <1>7, <1>8 DEF Memory!Next

(* The memory is empty at first. *)
LEMMA MemoryInit == ASSUME Memory!Init PROVE MemoryInv
<1>1. versions \in [Lessons -> Seq(Memory!Version)] /\ \A l \in Lessons : Len(versions[l]) = 0
  BY DEF Memory!Init
<1>2. Memory!TypeOK
  BY <1>1 DEF Memory!Init, Memory!TypeOK
<1>3. \A p \in Readers : CallInv(p)
  BY MemoryConstants DEF Memory!Init, CallInv, Memory!RefinementAssumption
<1>. QED BY <1>1, <1>2, <1>3 DEF MemoryInv, HistoryInv

(* The calls of the memory hold what is current, always. *)
THEOREM MemoryInvariant == Spec => [](tool = "memory" => MemoryInv)
<1>1. Init => (tool = "memory" => MemoryInv)
  BY MemoryInit DEF Init
<1>2. (tool = "memory" => MemoryInv) /\ [Next]_vars => (tool = "memory" => MemoryInv)'
  <2>1. ASSUME tool = "memory" => MemoryInv, Next PROVE (tool = "memory" => MemoryInv)'
    BY <2>1, MemoryStep DEF Next
  <2>2. ASSUME tool = "memory" => MemoryInv, UNCHANGED vars
        PROVE  (tool = "memory" => MemoryInv)'
    BY <2>2
    DEF vars, memoryVars, MemoryInv, HistoryInv, CallInv, Lists, Memory!Current, Memory!TypeOK
  <2>. QED BY <2>1, <2>2
<1>. QED BY <1>1, <1>2, PTL DEF Spec

(* What SupportIsRepeated asks of a supported version. *)
Supported(v) ==
  /\ Memory!Supports(v.observed)
  /\ Memory!Pair(v.observed) \cap v.proposal.evidence = {}
  /\ Measured[v.observed.reference].candidate = Measured[v.proposal.claim.reference].candidate
  /\ Measured[v.observed.candidate].candidate = Measured[v.proposal.claim.candidate].candidate
  /\ \A r \in Memory!Cited(v) : Measured[r].quality /\ Measured[r].scope = v.scope

(* However often a lesson is proposed, checked and rolled back, by however  *)
(* many processes, its support rests on a second comparison of the same     *)
(* candidates, by results the lesson had not used (RefinementStore.check).  *)
THEOREM SupportComesAgain == Spec => []SupportIsRepeated
<1>1. ASSUME tool = "memory" => MemoryInv PROVE SupportIsRepeated
  <2>1. ASSUME tool = "memory", NEW l \in Lessons, NEW j \in 1 .. Len(versions[l])
        PROVE  /\ Sound(versions[l][j])
               /\ versions[l][j].operation = "check" =>
                    \A i \in 1 .. (j - 1) :
                      Memory!Pair(versions[l][j].observed) \cap Memory!Cited(versions[l][i]) = {}
    BY <1>1, <2>1 DEF MemoryInv, HistoryInv
  <2>2. SUFFICES ASSUME tool = "memory", NEW l \in Lessons, NEW j \in 1 .. Len(versions[l])
                 PROVE  /\ versions[l][j].operation = "check" =>
                             \A i \in 1 .. (j - 1) :
                               Memory!Pair(versions[l][j].observed)
                                 \cap Memory!Cited(versions[l][i]) = {}
                        /\ versions[l][j].status = "supported_within_scope" =>
                             Supported(versions[l][j])
    BY DEF SupportIsRepeated, Memory!SupportIsRepeated, Supported
  <2>3. Sound(versions[l][j])
    BY <2>1, <2>2
  <2>4. Sound(versions[l][j]) /\ versions[l][j].status = "supported_within_scope"
          => Supported(versions[l][j])
    BY DEF Sound, Supported
  <2>. QED BY <2>1, <2>2, <2>3, <2>4
<1>. QED BY <1>1, MemoryInvariant, PTL

(* What a call of the memory has read is so when it writes or answers,      *)
(* since only the lock's holder writes (RefinementStore._locked, _collect). *)
THEOREM CallsAreCurrent == Spec => []HeldIsCurrent
<1>1. ASSUME tool = "memory" => MemoryInv PROVE HeldIsCurrent
  <2>1. ASSUME tool = "memory", NEW p \in Readers
        PROVE  /\ memoryDraft[p].kind = "version" =>
                    memoryDraft[p].base = Len(versions[memoryDraft[p].lesson])
               /\ memoryDraft[p].kind = "listing" => Lists(memoryDraft[p].entries)
    <3>1. memoryPc[p] \in {"idle", "write", "append", "collect"} /\ CallInv(p)
      BY <1>1, <2>1 DEF MemoryInv, Memory!TypeOK
    <3>. QED BY <3>1 DEF CallInv, Memory!NoDraft, Memory!Drafts, Memory!Listings
  <2>. QED BY <2>1 DEF HeldIsCurrent, Memory!HeldIsCurrent, Lists
<1>. QED BY <1>1, MemoryInvariant, PTL

-----------------------------------------------------------------------------
(* The registry *)

(* Where a process is in its operation: before and after it counts as an    *)
(* attempt.                                                                 *)
Trying == {"make", "hypothesis", "read", "copy", "lookup", "build", "publish", "cache", "confirm",
           "charge"}
Inside == Trying \cup {"begin", "list", "finish"}

DraftType ==
  [kind : {"none", "register", "factory", "evaluate"}, id : 0 .. MaxOperations,
   before : Hypotheses \cup {None}, source : Registry!Sources \cup {None},
   cid : Registry!Cids \cup {None}, error : {"none", "failed", "busy", "refused"}]

RegistryTyped ==
  /\ Registry!TypeOK
  /\ pc \in [Procs -> Inside \cup {"idle", "enter"}]
  /\ draft \in [Procs -> DraftType]
  /\ operations \in 0 .. MaxOperations

(* A process in its operation holds the lock, and its operation is the      *)
(* latest; it was not charged before, and it was within its budget.         *)
RunInv(p) ==
  /\ pc[p] \in Inside <=> holder = p
  /\ pc[p] \in Inside => /\ draft[p].id = operations /\ active.id = operations
                         /\ operations # 0 /\ operations \notin dead
  /\ pc[p] \in Trying \cup {"begin"} => ~active.charged
  /\ pc[p] \in Trying => evaluations[Registry!Track(p)] < MaxEvaluations
  /\ pc[p] \notin Inside => draft[p].id = 0

(* An operation that was not charged yet and whose process died is due.     *)
Due(t) ==
  IF active.id \in dead /\ ~active.charged /\ active.track = t THEN 1 ELSE 0

(* The recorded operation is the latest, of the lock's holder or of a dead  *)
(* process; who is about to enter saw it alive, or it is recovered.         *)
OperationInv ==
  /\ active.id \in {0, operations}
  /\ holder = None /\ active.id # 0 => active.id \in dead
  /\ \A q \in Procs : active.id \in dead /\ pc[q] = "enter" => active.id \in overlooked
  /\ active.id # 0 => charges[active.id] = IF active.charged THEN 1 ELSE 0
  /\ \A id \in 1 .. MaxOperations : /\ charges[id] <= 1
                                    /\ id > operations => charges[id] = 0
  /\ \A id \in 1 .. operations :
       /\ [id |-> id, status |-> "crashed"] \in history => charges[id] = 1
       /\ active.id = id \/ id \in overlooked \/ \E e \in history : e.id = id
  /\ \A e \in history : e.id # active.id /\ e.id <= operations

BudgetInv == \A t \in Registry!Tracks : evaluations[t] + Due(t) <= MaxEvaluations + Cardinality(dead)

(* What a process has read and made is of one snapshot, and its hypothesis  *)
(* is recorded.                                                             *)
Listed(p, cid) ==
  /\ cid \in Registry!Cids /\ dirs[cid] # "none"
  /\ Registry!Track(p) = "agent" => cid.source.hypothesis \in hypotheses

SnapshotInv(p, label, d) ==
  /\ label = "make" => d.kind = "factory"
  /\ label \in {"read", "copy", "lookup", "build", "publish", "cache", "confirm"} =>
       (Registry!Track(p) = "agent" => d.before \in hypotheses)
  /\ label \in {"copy", "lookup", "build", "publish", "cache"} => d.source \in Registry!Sources
  /\ label \in {"publish", "cache"} => d.cid \in Registry!Cids /\ d.cid.source = d.source
  /\ label \in {"cache", "confirm"} => d.cid \in Registry!Cids /\ dirs[d.cid] # "none"
  /\ \/ label = "list"
     \/ label = "charge" /\ d.error = "none" /\ d.kind = "register"
     => Listed(p, d.cid)

RegistryInv ==
  /\ RegistryTyped /\ OperationInv /\ BudgetInv
  /\ \A p \in Procs : RunInv(p) /\ SnapshotInv(p, pc[p], draft[p])
  /\ Registry!RegisteredIsSound

(* What the registry assumes of its constants. *)
LEMMA RegistryConstants ==
  /\ Public \subseteq Procs /\ None \notin Procs /\ None \notin Hypotheses
  /\ Recipe \in Codes /\ MaxEvaluations \in Nat /\ MaxOperations \in Nat
BY ResearchAssumption DEF Registry!RegistrationAssumption

(* The charges due are none or one, and none without a death. *)
LEMMA DueBound ==
  ASSUME NEW t
  PROVE  Due(t) \in {0, 1} /\ (Due(t) = 1 => active.id \in dead)
BY DEF Due

(* What was read or made stays so when directories and hypotheses are added. *)
LEMMA SnapshotStays ==
  ASSUME NEW p \in Procs, NEW label, NEW d, SnapshotInv(p, label, d), hypotheses \subseteq hypotheses',
         \A c \in Registry!Cids : dirs[c] # "none" => dirs'[c] # "none"
  PROVE  SnapshotInv(p, label, d)'
BY DEF SnapshotInv, Listed

(* What is registered stays sound when directories and hypotheses are added. *)
LEMMA SoundStays ==
  ASSUME RegistryTyped, Registry!RegisteredIsSound, UNCHANGED registrations,
         hypotheses \subseteq hypotheses',
         \A c \in Registry!Cids : dirs[c] # "none" => dirs'[c] # "none",
         \A s \in Registry!Sources : cache'[s] # None => cache'[s].source = s /\ dirs'[cache'[s]] # "none"
  PROVE  Registry!RegisteredIsSound'
<1>1. ASSUME NEW i \in DOMAIN registrations
      PROVE  /\ dirs'[registrations[i].cid] # "none"
             /\ registrations[i].track = "agent" =>
                  registrations[i].cid.source.hypothesis \in hypotheses'
  <2>1. registrations \in Seq([cid : Registry!Cids, track : Registry!Tracks])
    BY DEF RegistryTyped, Registry!TypeOK
  <2>2. PICK S : S = [cid : Registry!Cids, track : Registry!Tracks]
    OBVIOUS
  <2>3. registrations \in Seq(S) /\ DOMAIN registrations = 1 .. Len(registrations)
    BY <2>1, <2>2
  <2>4. registrations[i] \in S
    BY <2>3
  <2>5. registrations[i].cid \in Registry!Cids
    BY <2>2, <2>4
  <2>. QED BY <2>5 DEF Registry!RegisteredIsSound
<1>. QED BY <1>1 DEF Registry!RegisteredIsSound

(* Steps within an operation that keep the ledger: only the process's own   *)
(* place and draft change, and files.                                       *)
LEMMA Moves ==
  ASSUME RegistryInv, NEW p \in Procs, pc[p] \in Trying \cup {"begin"},
         NEW label \in Trying \cup {"finish"}, NEW x \in DraftType, x.id = draft[p].id,
         pc' = [pc EXCEPT ![p] = label], draft' = [draft EXCEPT ![p] = x],
         UNCHANGED <<workload, active, history, evaluations, registrations, job, results, hypotheses,
                     holder, dead, charges, overlooked, operations>>,
         label \in Trying /\ pc[p] = "begin" => evaluations[Registry!Track(p)] < MaxEvaluations,
         workbench' \in [Procs -> Registry!Sources],
         dirs' \in [Registry!Cids -> {"none", "intact", "damaged"}],
         \A c \in Registry!Cids : dirs[c] # "none" => dirs'[c] # "none",
         cache' \in [Registry!Sources -> Registry!Cids \cup {None}],
         \A s \in Registry!Sources : cache'[s] # None => cache'[s].source = s /\ dirs'[cache'[s]] # "none",
         SnapshotInv(p, label, x)'
  PROVE  RegistryInv'
<1>1. /\ pc \in [Procs -> Inside \cup {"idle", "enter"}] /\ draft \in [Procs -> DraftType]
      /\ label \in Inside /\ pc[p] \in Inside
  BY DEF RegistryInv, RegistryTyped, Inside
<1>2. /\ pc'[p] = label /\ draft'[p] = x
      /\ \A q \in Procs : q # p => pc'[q] = pc[q] /\ draft'[q] = draft[q]
  BY <1>1
<1>3. RegistryTyped'
  BY <1>1 DEF RegistryInv, RegistryTyped, Registry!TypeOK
<1>4. OperationInv'
  <2>1. \A q \in Procs : pc'[q] = "enter" => pc[q] = "enter"
    BY <1>1, <1>2 DEF Inside, Trying
  <2>. QED BY <2>1 DEF RegistryInv, OperationInv
<1>5. BudgetInv'
  BY DEF RegistryInv, BudgetInv, Due
<1>6. ASSUME NEW q \in Procs PROVE RunInv(q)' /\ SnapshotInv(q, pc[q], draft[q])'
  <2>1. CASE q # p
    <3>1. SnapshotInv(q, pc[q], draft[q]) /\ pc'[q] = pc[q] /\ draft'[q] = draft[q]
      BY <1>2, <2>1 DEF RegistryInv
    <3>2. SnapshotInv(q, pc[q], draft[q])'
      BY <3>1 DEF SnapshotInv, Listed
    <3>3. RunInv(q)'
      BY <3>1 DEF RegistryInv, RunInv
    <3>. QED BY <3>2, <3>3
  <2>2. CASE q = p
    <3>1. RunInv(p)'
      BY <1>1, <1>2 DEF RegistryInv, RunInv, Trying, Inside
    <3>2. SnapshotInv(p, pc[p], draft[p])'
      BY <1>2 DEF SnapshotInv, Listed
    <3>. QED BY <2>2, <3>1, <3>2
  <2>. QED BY <2>1, <2>2
<1>7. Registry!RegisteredIsSound'
  BY SoundStays DEF RegistryInv
<1>. QED BY <1>3, <1>4, <1>5, <1>6, <1>7 DEF RegistryInv

(* Before it is made or built, an attempt changes no file. *)
LEMMA MovesOn ==
  ASSUME RegistryInv, NEW p \in Procs, pc[p] \in Trying \cup {"begin"},
         NEW label \in Trying \cup {"finish"}, NEW x \in DraftType, x.id = draft[p].id,
         Registry!Goto(p, label), Registry!Set(p, x),
         UNCHANGED <<workload, active, history, evaluations, registrations, job, results, workbench,
                     hypotheses, dirs, cache, holder, dead, charges, overlooked, operations>>,
         label \in Trying /\ pc[p] = "begin" => evaluations[Registry!Track(p)] < MaxEvaluations,
         SnapshotInv(p, label, x)
  PROVE  RegistryInv'
<1>1. /\ pc' = [pc EXCEPT ![p] = label] /\ draft' = [draft EXCEPT ![p] = x]
  BY DEF Registry!Goto, Registry!Set
<1>2. /\ workbench' \in [Procs -> Registry!Sources]
      /\ dirs' \in [Registry!Cids -> {"none", "intact", "damaged"}]
      /\ cache' \in [Registry!Sources -> Registry!Cids \cup {None}]
      /\ \A s \in Registry!Sources : cache'[s] # None => cache'[s].source = s /\ dirs'[cache'[s]] # "none"
  BY DEF RegistryInv, RegistryTyped, Registry!TypeOK, Registry!RegisteredIsSound
<1>3. SnapshotInv(p, label, x)'
  BY SnapshotStays
<1>. QED BY <1>1, <1>2, <1>3, Moves

(* A step that leaves the draft alone sets it to what it is. *)
LEMMA Drafted ==
  ASSUME RegistryInv, NEW p \in Procs
  PROVE  /\ draft[p] \in DraftType /\ SnapshotInv(p, pc[p], draft[p]) /\ RunInv(p)
         /\ UNCHANGED draft => Registry!Set(p, draft[p])
BY DEF RegistryInv, RegistryTyped, Registry!Set

(* An attempt that fails is still to be charged. *)
LEMMA Fails ==
  ASSUME RegistryInv, NEW p \in Procs, pc[p] \in Trying, NEW e \in {"failed", "busy"},
         Registry!Failing(p, e), UNCHANGED <<workload, Registry!ledger, Registry!files, holder,
                                             Registry!ghosts, Registry!bounds>>
  PROVE  RegistryInv'
<1>1. PICK x : x = [draft[p] EXCEPT !.error = e]
  OBVIOUS
<1>2. x \in DraftType /\ x.id = draft[p].id /\ x.error = e
  BY <1>1, Drafted DEF DraftType
<1>3. SnapshotInv(p, "charge", x)
  BY <1>2 DEF SnapshotInv
<1>4. Registry!Goto(p, "charge") /\ Registry!Set(p, x)
  BY <1>1 DEF Registry!Failing
<1>. QED
  BY <1>2, <1>3, <1>4, MovesOn
  DEF Registry!ledger, Registry!files, Registry!ghosts, Registry!bounds, Trying

(* What ends an attempt early, at any of its boundaries. *)
LEMMA RefusedFails ==
  ASSUME RegistryInv, UNCHANGED workload, NEW p \in Procs, NEW label \in Trying,
         NEW e \in {"failed", "busy"}, Registry!Refused(p, label, e)
  PROVE  RegistryInv'
BY Fails DEF Registry!Refused

(* Every refusal is one of these, at its boundary. *)
LEMMA RefusalsFail ==
  ASSUME RegistryInv, UNCHANGED workload, NEW p \in Procs,
         \/ Registry!StaleRuntime(p) \/ Registry!Busy(p) \/ Registry!RefuseManifest(p)
         \/ Registry!RefuseStore(p) \/ Registry!RefuseWorkload(p) \/ Registry!RefuseTraining(p)
         \/ Registry!RefuseImport(p) \/ Registry!RefuseFiles(p) \/ Registry!RefuseTools(p)
         \/ Registry!RefuseClosure(p) \/ Registry!RefuseInterpreter(p) \/ Registry!RefuseRuntime(p)
         \/ Registry!Interrupted(p)
  PROVE  RegistryInv'
BY RefusedFails
DEF Registry!StaleRuntime, Registry!Busy, Registry!RefuseManifest, Registry!RefuseStore,
    Registry!RefuseWorkload, Registry!RefuseTraining, Registry!RefuseImport, Registry!RefuseFiles,
    Registry!RefuseTools, Registry!RefuseClosure, Registry!RefuseInterpreter,
    Registry!RefuseRuntime, Registry!Interrupted, Registry!Attempting, Trying

(* The budget is looked at before anything counts as an attempt. *)
LEMMA Begins ==
  ASSUME RegistryInv, UNCHANGED workload, NEW p \in Procs, Registry!Begin(p)
  PROVE  RegistryInv'
<1>1. pc[p] = "begin"
  BY DEF Registry!Begin
<1>2. CASE evaluations[Registry!Track(p)] >= MaxEvaluations \/ job # Registry!NoJob
  <2>1. PICK x : x = [draft[p] EXCEPT !.error = "refused"]
    OBVIOUS
  <2>2. x \in DraftType /\ x.id = draft[p].id
    BY <2>1, Drafted DEF DraftType
  <2>3. Registry!Goto(p, "finish") /\ Registry!Set(p, x)
    BY <1>2, <2>1 DEF Registry!Begin
  <2>4. SnapshotInv(p, "finish", x)
    BY DEF SnapshotInv
  <2>. QED
    BY <1>1, <2>2, <2>3, <2>4, MovesOn
    DEF Registry!Begin, Registry!ledger, Registry!files, Registry!ghosts, Registry!bounds, Trying
<1>3. CASE ~(evaluations[Registry!Track(p)] >= MaxEvaluations \/ job # Registry!NoJob)
  <2>1. PICK label : label = IF draft[p].kind = "factory" THEN "make"
                             ELSE IF Registry!Track(p) = "agent" THEN "hypothesis" ELSE "read"
    OBVIOUS
  <2>2. Registry!Goto(p, label) /\ Registry!Set(p, draft[p])
    BY <1>3, <2>1, Drafted DEF Registry!Begin
  <2>3. SnapshotInv(p, label, draft[p])
    BY <2>1 DEF SnapshotInv
  <2>4. evaluations[Registry!Track(p)] < MaxEvaluations
    <3>1. evaluations[Registry!Track(p)] \in Nat
      BY DEF RegistryInv, RegistryTyped, Registry!TypeOK, Registry!Track, Registry!Tracks
    <3>. QED BY <1>3, <3>1, RegistryConstants
  <2>. QED
    BY <1>1, <2>1, <2>2, <2>3, <2>4, Drafted, MovesOn
    DEF Registry!Begin, Registry!ledger, Registry!files, Registry!ghosts, Registry!bounds, Trying
<1>. QED BY <1>2, <1>3

(* The factory writes its template. *)
LEMMA Makes ==
  ASSUME RegistryInv, UNCHANGED workload, NEW p \in Procs, Registry!Make(p)
  PROVE  RegistryInv'
<1>1. [hypothesis |-> None, code |-> Recipe] \in Registry!Sources
  BY RegistryConstants DEF Registry!Sources
<1>2. /\ workbench' \in [Procs -> Registry!Sources]
      /\ dirs' \in [Registry!Cids -> {"none", "intact", "damaged"}]
      /\ cache' \in [Registry!Sources -> Registry!Cids \cup {None}]
      /\ \A s \in Registry!Sources : cache'[s] # None => cache'[s].source = s /\ dirs'[cache'[s]] # "none"
  BY <1>1
     DEF Registry!Make, RegistryInv, RegistryTyped, Registry!TypeOK,
         Registry!RegisteredIsSound
<1>3. SnapshotInv(p, "charge", draft[p])'
  BY Drafted DEF Registry!Make, SnapshotInv
<1>4. pc[p] = "make" /\ pc' = [pc EXCEPT ![p] = "charge"] /\ draft' = [draft EXCEPT ![p] = draft[p]]
  BY Drafted DEF Registry!Make, Registry!Goto, Registry!Set
<1>5. PICK x : x = draft[p]
  OBVIOUS
<1>6. SnapshotInv(p, "charge", x)'
  BY <1>5, Drafted DEF Registry!Make, SnapshotInv
<1>. QED
  BY <1>2, <1>4, <1>5, <1>6, Drafted, Moves
  DEF Registry!Make, Registry!ledger, Registry!ghosts, Registry!bounds, Trying

(* The hypothesis is looked for, the manifest read, the files copied. *)
LEMMA Reads ==
  ASSUME RegistryInv, UNCHANGED workload, NEW p \in Procs,
         \/ Registry!CheckHypothesis(p) \/ Registry!ReadManifest(p)
         \/ Registry!CopySources(p) \/ Registry!CopyStore(p)
  PROVE  RegistryInv'
<1>. USE DEF Registry!ledger, Registry!files, Registry!ghosts, Registry!bounds, Trying
<1>1. workbench[p] \in Registry!Sources /\ workbench[p].hypothesis \in Hypotheses \cup {None}
      /\ workbench[p].code \in Codes
  BY DEF RegistryInv, RegistryTyped, Registry!TypeOK, Registry!Sources
<1>2. CASE Registry!CheckHypothesis(p)
  <2>1. CASE Registry!Failing(p, "failed")
    BY <1>2, <2>1, Fails DEF Registry!CheckHypothesis
  <2>2. CASE /\ workbench[p].hypothesis \in hypotheses
             /\ Registry!Goto(p, "read")
             /\ Registry!Set(p, [draft[p] EXCEPT !.before = workbench[p].hypothesis])
    <3>1. PICK x : x = [draft[p] EXCEPT !.before = workbench[p].hypothesis]
      OBVIOUS
    <3>2. x \in DraftType /\ x.id = draft[p].id /\ x.before \in hypotheses
      BY <1>1, <2>2, <3>1, Drafted DEF DraftType
    <3>3. SnapshotInv(p, "read", x)
      BY <3>2 DEF SnapshotInv
    <3>. QED BY <1>2, <2>2, <3>1, <3>2, <3>3, MovesOn DEF Registry!CheckHypothesis
  <2>. QED BY <1>2, <2>1, <2>2 DEF Registry!CheckHypothesis
<1>3. ASSUME NEW label \in {"copy", "build"}, pc[p] \in {"read", "copy"},
             Registry!Goto(p, label), Registry!Set(p, [draft[p] EXCEPT !.source = workbench[p]]),
             UNCHANGED <<Registry!ledger, Registry!files, holder, Registry!ghosts, Registry!bounds>>
      PROVE  RegistryInv'
  <2>1. PICK x : x = [draft[p] EXCEPT !.source = workbench[p]]
    OBVIOUS
  <2>2. /\ x \in DraftType /\ x.id = draft[p].id /\ x.before = draft[p].before
        /\ x.source \in Registry!Sources
    BY <1>1, <2>1, Drafted DEF DraftType
  <2>3. SnapshotInv(p, label, x)
    BY <1>3, <2>2, Drafted DEF SnapshotInv
  <2>. QED BY <1>3, <2>1, <2>2, <2>3, MovesOn
<1>4. CASE Registry!ReadManifest(p) \/ Registry!CopyStore(p)
  BY <1>3, <1>4 DEF Registry!ReadManifest, Registry!CopyStore
<1>5. CASE Registry!CopySources(p)
  <2>1. draft[p].source \in Registry!Sources /\ draft[p] \in DraftType
    BY <1>5, Drafted DEF Registry!CopySources, SnapshotInv
  <2>2. PICK s : s = [draft[p].source EXCEPT !.code = workbench[p].code]
    OBVIOUS
  <2>3. s \in Registry!Sources
    BY <1>1, <2>1, <2>2 DEF Registry!Sources
  <2>4. PICK x : x = [draft[p] EXCEPT !.source = s]
    OBVIOUS
  <2>5. x \in DraftType /\ x.id = draft[p].id /\ x.before = draft[p].before /\ x.source = s
    BY <2>1, <2>3, <2>4 DEF DraftType
  <2>6. SnapshotInv(p, "lookup", x)
    BY <1>5, <2>3, <2>5, Drafted DEF Registry!CopySources, SnapshotInv
  <2>7. Registry!Goto(p, "lookup") /\ Registry!Set(p, x)
    BY <1>5, <2>2, <2>4 DEF Registry!CopySources
  <2>. QED BY <1>5, <2>5, <2>6, <2>7, MovesOn DEF Registry!CopySources
<1>. QED BY <1>2, <1>4, <1>5

(* A digest found in the cache is of the sources that were copied. *)
LEMMA LooksUp ==
  ASSUME RegistryInv, UNCHANGED workload, NEW p \in Procs, Registry!Lookup(p)
  PROVE  RegistryInv'
<1>. USE DEF Registry!ledger, Registry!files, Registry!ghosts, Registry!bounds, Trying
<1>1. PICK cached : cached = cache[draft[p].source]
  OBVIOUS
<1>2. /\ pc[p] = "lookup" /\ draft[p].source \in Registry!Sources
      /\ cached \in Registry!Cids \cup {None}
      /\ UNCHANGED <<Registry!ledger, Registry!files, holder, Registry!ghosts, Registry!bounds>>
  BY <1>1, Drafted
  DEF Registry!Lookup, SnapshotInv, RegistryInv, RegistryTyped, Registry!TypeOK
<1>3. CASE Registry!Failing(p, "failed")
  BY <1>2, <1>3, Fails
<1>4. CASE Registry!Goto(p, "build") /\ UNCHANGED draft
  <2>1. SnapshotInv(p, "build", draft[p])
    BY <1>2, Drafted DEF SnapshotInv
  <2>. QED BY <1>2, <1>4, <2>1, Drafted, MovesOn
<1>5. CASE /\ cached # None /\ Registry!Intact(cached) /\ Registry!Goto(p, "confirm")
           /\ Registry!Set(p, [draft[p] EXCEPT !.cid = cached])
  <2>1. PICK x : x = [draft[p] EXCEPT !.cid = cached]
    OBVIOUS
  <2>2. x \in DraftType /\ x.id = draft[p].id /\ x.before = draft[p].before /\ x.cid = cached
    BY <1>2, <2>1, Drafted DEF DraftType
  <2>3. SnapshotInv(p, "confirm", x)
    BY <1>2, <1>5, <2>2, Drafted DEF SnapshotInv, Registry!Intact
  <2>. QED BY <1>2, <1>5, <2>1, <2>2, <2>3, MovesOn
<1>. QED BY <1>1, <1>3, <1>4, <1>5 DEF Registry!Lookup

(* A build is of the copied sources. *)
LEMMA BuildsCopy ==
  ASSUME RegistryInv, UNCHANGED workload, NEW p \in Procs, NEW b \in Builds,
         Registry!Build(p, b) \/ Registry!BuildStore(p, b)
  PROVE  RegistryInv'
<1>1. PICK cid : cid = [source |-> draft[p].source, build |-> b]
  OBVIOUS
<1>2. /\ pc[p] = "build" /\ draft[p].source \in Registry!Sources
      /\ Registry!Goto(p, "publish") /\ Registry!Set(p, [draft[p] EXCEPT !.cid = cid])
      /\ UNCHANGED <<Registry!ledger, Registry!files, holder, Registry!ghosts, Registry!bounds>>
  BY <1>1, Drafted DEF Registry!Build, Registry!BuildStore, SnapshotInv
<1>3. cid \in Registry!Cids /\ cid.source = draft[p].source
  BY <1>1, <1>2 DEF Registry!Cids
<1>4. PICK x : x = [draft[p] EXCEPT !.cid = cid]
  OBVIOUS
<1>5. /\ x \in DraftType /\ x.id = draft[p].id /\ x.before = draft[p].before /\ x.cid = cid
      /\ x.source = draft[p].source
  BY <1>3, <1>4, Drafted DEF DraftType
<1>6. SnapshotInv(p, "publish", x)
  BY <1>2, <1>3, <1>5, Drafted DEF SnapshotInv
<1>. QED
  BY <1>2, <1>4, <1>5, <1>6, MovesOn
  DEF Registry!ledger, Registry!files, Registry!ghosts, Registry!bounds, Trying

(* A directory is published under its digest, or is there already. *)
LEMMA Publishes ==
  ASSUME RegistryInv, UNCHANGED workload, NEW p \in Procs,
         Registry!Publish(p) \/ Registry!PublishStore(p)
  PROVE  RegistryInv'
<1>. USE DEF Registry!ledger, Registry!files, Registry!ghosts, Registry!bounds, Trying
<1>1. pc[p] = "publish" /\ draft[p].cid \in Registry!Cids /\ draft[p].cid.source = draft[p].source
  BY Drafted DEF Registry!Publish, Registry!PublishStore, SnapshotInv
<1>2. CASE Registry!Failing(p, "failed") /\ UNCHANGED dirs
  BY <1>1, <1>2, Fails DEF Registry!Publish, Registry!PublishStore
<1>3. ASSUME NEW label \in {"cache", "confirm"}, Registry!Goto(p, label),
             dirs' = [dirs EXCEPT ![draft[p].cid] = "intact"], UNCHANGED draft,
             UNCHANGED <<Registry!ledger, workbench, hypotheses, cache, holder, Registry!ghosts,
                         Registry!bounds>>
      PROVE  RegistryInv'
  <2>1. /\ dirs \in [Registry!Cids -> {"none", "intact", "damaged"}]
        /\ cache \in [Registry!Sources -> Registry!Cids \cup {None}]
        /\ workbench \in [Procs -> Registry!Sources]
    BY DEF RegistryInv, RegistryTyped, Registry!TypeOK
  <2>2. /\ dirs' \in [Registry!Cids -> {"none", "intact", "damaged"}]
        /\ dirs'[draft[p].cid] = "intact"
        /\ \A c \in Registry!Cids : dirs[c] # "none" => dirs'[c] # "none"
    BY <1>1, <1>3, <2>1
  <2>3. \A s \in Registry!Sources : cache'[s] # None => cache'[s].source = s /\ dirs'[cache'[s]] # "none"
    BY <1>3, <2>1, <2>2 DEF RegistryInv, Registry!RegisteredIsSound
  <2>4. PICK x : x = draft[p]
    OBVIOUS
  <2>5. SnapshotInv(p, label, x)'
    BY <1>1, <1>3, <2>2, <2>4, Drafted DEF SnapshotInv
  <2>6. pc' = [pc EXCEPT ![p] = label] /\ draft' = [draft EXCEPT ![p] = x]
    BY <1>3, <2>4, Drafted DEF Registry!Goto, Registry!Set
  <2>. QED BY <1>1, <1>3, <2>1, <2>2, <2>3, <2>4, <2>5, <2>6, Drafted, Moves
<1>. QED BY <1>2, <1>3 DEF Registry!Publish, Registry!PublishStore

(* The cache leads from the copied sources to their build. *)
LEMMA SavesCache ==
  ASSUME RegistryInv, UNCHANGED workload, NEW p \in Procs, Registry!SaveCache(p)
  PROVE  RegistryInv'
<1>1. /\ pc[p] = "cache" /\ draft[p].cid \in Registry!Cids /\ draft[p].source \in Registry!Sources
      /\ draft[p].cid.source = draft[p].source /\ dirs[draft[p].cid] # "none"
  BY Drafted DEF Registry!SaveCache, SnapshotInv
<1>2. /\ dirs \in [Registry!Cids -> {"none", "intact", "damaged"}]
      /\ cache \in [Registry!Sources -> Registry!Cids \cup {None}]
      /\ workbench \in [Procs -> Registry!Sources]
  BY DEF RegistryInv, RegistryTyped, Registry!TypeOK
<1>3. cache' = [cache EXCEPT ![draft[p].source] = draft[p].cid] /\ UNCHANGED <<dirs, workbench>>
  BY DEF Registry!SaveCache
<1>4. cache' \in [Registry!Sources -> Registry!Cids \cup {None}]
  BY <1>1, <1>2, <1>3
<1>5. \A s \in Registry!Sources : cache'[s] # None => cache'[s].source = s /\ dirs'[cache'[s]] # "none"
  BY <1>1, <1>2, <1>3 DEF RegistryInv, Registry!RegisteredIsSound
<1>6. PICK x : x = draft[p]
  OBVIOUS
<1>7. SnapshotInv(p, "confirm", x)'
  BY <1>1, <1>3, <1>6, Drafted DEF Registry!SaveCache, SnapshotInv
<1>8. pc' = [pc EXCEPT ![p] = "confirm"] /\ draft' = [draft EXCEPT ![p] = x]
  BY <1>6, Drafted DEF Registry!SaveCache, Registry!Goto, Registry!Set
<1>. QED
  BY <1>1, <1>2, <1>3, <1>4, <1>5, <1>6, <1>7, <1>8, Drafted, Moves
  DEF Registry!SaveCache, Registry!ledger, Registry!ghosts, Registry!bounds, Trying

(* What is registered carries the hypothesis that was looked for. *)
LEMMA Confirms ==
  ASSUME RegistryInv, UNCHANGED workload, NEW p \in Procs, Registry!Confirm(p)
  PROVE  RegistryInv'
<1>. USE DEF Registry!ledger, Registry!files, Registry!ghosts, Registry!bounds, Trying
<1>1. CASE Registry!Failing(p, "failed")
  BY <1>1, Fails DEF Registry!Confirm
<1>2. CASE /\ ~(Registry!Track(p) = "agent" /\ draft[p].cid.source.hypothesis # draft[p].before)
           /\ Registry!Goto(p, "charge") /\ UNCHANGED draft
  <2>1. SnapshotInv(p, "charge", draft[p])
    BY <1>2, Drafted DEF Registry!Confirm, SnapshotInv, Listed
  <2>. QED BY <1>2, <2>1, Drafted, MovesOn DEF Registry!Confirm
<1>. QED BY <1>1, <1>2 DEF Registry!Confirm

(* Where everybody is when one process has moved. *)
LEMMA Places ==
  ASSUME RegistryInv, NEW p \in Procs, NEW label, NEW x,
         Registry!Goto(p, label), Registry!Set(p, x)
  PROVE  /\ pc'[p] = label /\ draft'[p] = x
         /\ \A q \in Procs : q # p => pc'[q] = pc[q] /\ draft'[q] = draft[q]
         /\ label \in Inside \cup {"idle", "enter"} =>
              pc' \in [Procs -> Inside \cup {"idle", "enter"}]
         /\ x \in DraftType => draft' \in [Procs -> DraftType]
BY DEF RegistryInv, RegistryTyped, Registry!Goto, Registry!Set

(* The types of what is counted. *)
LEMMA Counts ==
  ASSUME RegistryInv
  PROVE  /\ operations \in 0 .. MaxOperations /\ operations \in Nat
         /\ active \in Registry!Ops \cup {Registry!NoOp}
         /\ active.id \in 0 .. MaxOperations /\ active.charged \in BOOLEAN
         /\ active.id # 0 => active.track \in Registry!Tracks
         /\ active.id = 0 => active = Registry!NoOp
         /\ evaluations \in [Registry!Tracks -> Nat] /\ charges \in [1 .. MaxOperations -> Nat]
         /\ dead \subseteq 1 .. operations /\ 0 \notin dead
         /\ IsFiniteSet(dead) /\ Cardinality(dead) \in Nat
         /\ dead # {} => Cardinality(dead) >= 1
         /\ \A p \in Procs : Registry!Track(p) \in Registry!Tracks
<1>1. /\ operations \in 0 .. MaxOperations /\ operations \in Nat
      /\ active \in Registry!Ops \cup {Registry!NoOp}
      /\ evaluations \in [Registry!Tracks -> Nat] /\ charges \in [1 .. MaxOperations -> Nat]
      /\ dead \subseteq 1 .. operations
  BY RegistryConstants DEF RegistryInv, RegistryTyped, Registry!TypeOK
<1>2. /\ active.id \in 0 .. MaxOperations /\ active.charged \in BOOLEAN
      /\ active.id # 0 => active.track \in Registry!Tracks
      /\ active.id = 0 => active = Registry!NoOp
  <2>1. CASE active \in Registry!Ops
    BY <2>1, RegistryConstants DEF Registry!Ops
  <2>2. CASE active = Registry!NoOp
    BY <2>2, RegistryConstants DEF Registry!NoOp
  <2>. QED BY <1>1, <2>1, <2>2
<1>3. IsFiniteSet(dead)
  <2>1. 1 \in Int /\ operations \in Int
    BY <1>1
  <2>2. IsFiniteSet(1 .. operations)
    BY <2>1, FS_Interval
  <2>. QED BY <1>1, <2>2, FS_Subset
<1>4. Cardinality(dead) \in Nat /\ (Cardinality(dead) = 0 <=> dead = {})
  BY <1>3, FS_CardinalityType, FS_EmptySet
<1>7. dead # {} => Cardinality(dead) >= 1
  BY <1>4
<1>5. \A p \in Procs : Registry!Track(p) \in Registry!Tracks
  BY DEF Registry!Track, Registry!Tracks
<1>6. 0 \notin dead
  BY <1>1
<1>. QED BY <1>1, <1>2, <1>3, <1>4, <1>5, <1>6, <1>7

(* A process that returns before it is in an operation. *)
LEMMA NoDraftTyped ==
  /\ Registry!NoDraft \in DraftType /\ Registry!NoDraft.id = 0
  /\ \A kind \in {"register", "factory", "evaluate"} :
       [Registry!NoDraft EXCEPT !.kind = kind] \in DraftType
         /\ [Registry!NoDraft EXCEPT !.kind = kind].id = 0
<1>1. 0 \in 0 .. MaxOperations
  BY RegistryConstants
<1>. QED BY <1>1 DEF Registry!NoDraft, DraftType

(* Before its call and outside its operation a process has nothing to keep. *)
LEMMA NothingRead ==
  ASSUME NEW p, NEW label \in {"idle", "enter", "begin", "finish"}, NEW x
  PROVE  SnapshotInv(p, label, x) /\ SnapshotInv(p, label, x)'
BY DEF SnapshotInv

(* recover_operation: a dead operation is charged once and recorded. *)
LEMMA Recovers ==
  ASSUME RegistryInv, UNCHANGED workload, NEW p \in Procs,
         NEW kind \in {"register", "factory", "evaluate"}, Registry!Call(p, kind)
  PROVE  RegistryInv'
<1>1. PICK x : x = [Registry!NoDraft EXCEPT !.kind = kind]
  OBVIOUS
<1>2. /\ x \in DraftType /\ x.id = 0 /\ pc[p] = "idle"
      /\ Registry!Goto(p, "enter") /\ Registry!Set(p, x)
  BY <1>1, NoDraftTyped DEF Registry!Call
<1>3. /\ pc'[p] = "enter" /\ draft'[p] = x
      /\ \A q \in Procs : q # p => pc'[q] = pc[q] /\ draft'[q] = draft[q]
      /\ pc' \in [Procs -> Inside \cup {"idle", "enter"}] /\ draft' \in [Procs -> DraftType]
  BY <1>2, Places
<1>4. UNCHANGED <<registrations, job, results, workbench, hypotheses, dirs, cache, holder, dead,
                  overlooked, operations, edits, damages, crashes>>
  BY DEF Registry!Call, Registry!files, Registry!bounds
<1>5. Registry!RegisteredIsSound'
  BY <1>4 DEF RegistryInv, Registry!RegisteredIsSound
<1>6. ASSUME NEW q \in Procs PROVE SnapshotInv(q, pc[q], draft[q])'
  <2>1. CASE q = p
    BY <1>3, <2>1, NothingRead
  <2>2. CASE q # p
    <3>1. SnapshotInv(q, pc[q], draft[q])
      BY DEF RegistryInv
    <3>. QED BY <1>3, <1>4, <2>2, <3>1 DEF SnapshotInv, Listed
  <2>. QED BY <2>1, <2>2
<1>7. CASE active.id \notin dead /\ UNCHANGED <<active, history, evaluations, charges>>
  <2>1. RegistryTyped'
    BY <1>3, <1>4, <1>7 DEF RegistryInv, RegistryTyped, Registry!TypeOK
  <2>2. OperationInv'
    BY <1>4, <1>7 DEF RegistryInv, OperationInv
  <2>3. BudgetInv'
    BY <1>4, <1>7 DEF RegistryInv, BudgetInv, Due
  <2>4. ASSUME NEW q \in Procs PROVE RunInv(q)'
    <3>1. CASE q = p
      BY <1>2, <1>3, <1>4, <1>7, <3>1 DEF RegistryInv, RunInv, Inside, Trying
    <3>2. CASE q # p
      BY <1>3, <1>4, <1>7, <3>2 DEF RegistryInv, RunInv
    <3>. QED BY <3>1, <3>2
  <2>. QED BY <1>5, <1>6, <2>1, <2>2, <2>3, <2>4 DEF RegistryInv
<1>8. CASE active.id \in dead /\ Registry!Recovered
  <2>1. PICK k, t : k = active.id /\ t = active.track
    OBVIOUS
  <2>2. /\ k \in 1 .. MaxOperations /\ k \in dead /\ k = operations /\ t \in Registry!Tracks
        /\ holder = None /\ 0 \notin dead
        /\ active' = Registry!NoOp /\ active'.id = 0 /\ active'.charged = FALSE
        /\ history' = history \cup {[id |-> k, status |-> "crashed"]}
    BY <1>8, <2>1, Counts DEF Registry!Recovered, Registry!NoOp, RegistryInv, OperationInv
  <2>3. PICK c, e : c = charges[k] + 1 /\ e = evaluations[t] + 1
    OBVIOUS
  <2>4. /\ evaluations' = IF ~active.charged THEN [evaluations EXCEPT ![t] = e] ELSE evaluations
        /\ charges' = IF ~active.charged THEN [charges EXCEPT ![k] = c] ELSE charges
        /\ charges[k] = IF active.charged THEN 1 ELSE 0
    BY <1>8, <2>1, <2>2, <2>3, Counts DEF Registry!Recovered, RegistryInv, OperationInv
  <2>5. e \in Nat /\ c \in Nat /\ (~active.charged => c = 1)
    BY <2>2, <2>3, <2>4, Counts
  <2>6. charges' \in [1 .. MaxOperations -> Nat] /\ evaluations' \in [Registry!Tracks -> Nat]
    BY <2>4, <2>5, Counts
  <2>7. charges'[k] = 1 /\ \A i \in 1 .. MaxOperations : i # k => charges'[i] = charges[i]
    BY <2>2, <2>4, <2>5, Counts
  <2>8. RegistryTyped'
    <3>1. history' \subseteq [id : 1 .. MaxOperations, status : {"finished", "crashed"}]
      BY <2>2 DEF RegistryInv, RegistryTyped, Registry!TypeOK
    <3>. QED
      BY <1>3, <1>4, <2>2, <2>6, <3>1 DEF RegistryInv, RegistryTyped, Registry!TypeOK
  <2>9. OperationInv'
    <3>1. /\ active'.id \in {0, operations}
          /\ \A q \in Procs : active'.id \in dead /\ pc'[q] = "enter" => active'.id \in overlooked
      BY <2>2
    <3>2. \A i \in 1 .. MaxOperations : charges'[i] <= 1 /\ (i > operations => charges'[i] = 0)
      BY <2>2, <2>7 DEF RegistryInv, OperationInv
    <3>3. ASSUME NEW i \in 1 .. operations
          PROVE  /\ [id |-> i, status |-> "crashed"] \in history' => charges'[i] = 1
                 /\ active'.id = i \/ i \in overlooked \/ \E h \in history' : h.id = i
      <4>1. i \in 1 .. MaxOperations
        BY RegistryConstants, Counts
      <4>2. CASE i = k
        <5>1. [id |-> k, status |-> "crashed"] \in history' /\ [id |-> k, status |-> "crashed"].id = k
          BY <2>2
        <5>. QED BY <2>7, <4>2, <5>1
      <4>3. CASE i # k
        <5>1. [id |-> i, status |-> "crashed"] \in history' => [id |-> i, status |-> "crashed"] \in history
          BY <2>2, <4>3
        <5>. QED BY <2>1, <2>2, <2>7, <4>1, <4>3, <5>1 DEF RegistryInv, OperationInv
      <4>. QED BY <4>2, <4>3
    <3>4. \A h \in history' : h.id # active'.id /\ h.id <= operations
      <4>1. ASSUME NEW h \in history' PROVE h.id # 0 /\ h.id <= operations
        <5>1. CASE h \in history
          BY <5>1 DEF RegistryInv, OperationInv, RegistryTyped, Registry!TypeOK
        <5>2. CASE h = [id |-> k, status |-> "crashed"]
          BY <2>2, <5>2
        <5>. QED BY <2>2, <5>1, <5>2
      <4>. QED BY <2>2, <4>1
    <3>. QED BY <1>4, <2>2, <3>1, <3>2, <3>3, <3>4 DEF OperationInv
  <2>10. BudgetInv'
    <3>1. ASSUME NEW u \in Registry!Tracks
          PROVE  evaluations'[u] + Due(u)' <= MaxEvaluations + Cardinality(dead)
      <4>1. Due(u)' = 0
        BY <1>4, <2>2 DEF Due
      <4>2. evaluations'[u] <= evaluations[u] + Due(u)
        BY <1>8, <2>1, <2>2, <2>3, <2>4, DueBound, Counts DEF Due
      <4>3. evaluations[u] + Due(u) <= MaxEvaluations + Cardinality(dead)
        BY DEF RegistryInv, BudgetInv
      <4>4. evaluations[u] \in Nat /\ evaluations'[u] \in Nat /\ Due(u) \in {0, 1}
        BY <2>6, DueBound, Counts
      <4>. QED BY <4>1, <4>2, <4>3, <4>4, RegistryConstants, Counts
    <3>. QED BY <1>4, <3>1 DEF BudgetInv
  <2>11. ASSUME NEW q \in Procs PROVE RunInv(q)'
    <3>1. pc[q] \notin Inside /\ draft[q].id = 0 /\ q # None
      BY <2>2, RegistryConstants DEF RegistryInv, RunInv
    <3>2. pc'[q] \notin Inside /\ draft'[q].id = 0
      BY <1>2, <1>3, <3>1 DEF Inside, Trying
    <3>. QED BY <1>4, <2>2, <3>1, <3>2 DEF RunInv, Inside
  <2>. QED BY <1>5, <1>6, <2>8, <2>9, <2>10, <2>11 DEF RegistryInv
<1>. QED BY <1>7, <1>8 DEF Registry!Call

(* A process outside an operation leaves without one. *)
LEMMA Turns ==
  ASSUME RegistryInv, NEW p \in Procs, pc[p] = "enter", Registry!Leave(p),
         UNCHANGED <<active, history, registrations, results, workbench, hypotheses, dirs, cache, dead,
                     charges, overlooked, operations>>
  PROVE  /\ pc' \in [Procs -> Inside \cup {"idle", "enter"}] /\ draft' \in [Procs -> DraftType]
         /\ holder' = holder /\ OperationInv'
         /\ \A q \in Procs : SnapshotInv(q, pc[q], draft[q])'
         /\ \A q \in Procs : pc'[q] \in Inside \/ pc[q] \in Inside =>
                              q # p /\ pc'[q] = pc[q] /\ draft'[q] = draft[q]
         /\ \A q \in Procs : pc'[q] \notin Inside => draft'[q].id = 0
         /\ Registry!RegisteredIsSound'
<1>1. holder # p /\ pc[p] \notin Inside
  BY DEF RegistryInv, RunInv, Inside, Trying
<1>2. Registry!Goto(p, "idle") /\ Registry!Set(p, Registry!NoDraft) /\ holder' = holder
  BY <1>1 DEF Registry!Leave
<1>3. PICK x : x = Registry!NoDraft
  OBVIOUS
<1>4. x \in DraftType /\ x.id = 0 /\ Registry!Set(p, x)
  BY <1>2, <1>3, NoDraftTyped
<1>5. /\ pc'[p] = "idle" /\ draft'[p] = x
      /\ \A q \in Procs : q # p => pc'[q] = pc[q] /\ draft'[q] = draft[q]
      /\ pc' \in [Procs -> Inside \cup {"idle", "enter"}] /\ draft' \in [Procs -> DraftType]
  BY <1>2, <1>4, Places
<1>6. OperationInv'
  BY <1>2, <1>5 DEF RegistryInv, OperationInv
<1>7. ASSUME NEW q \in Procs PROVE SnapshotInv(q, pc[q], draft[q])'
  <2>1. CASE q = p
    BY <1>5, <2>1, NothingRead
  <2>2. CASE q # p
    <3>1. SnapshotInv(q, pc[q], draft[q])
      BY DEF RegistryInv
    <3>. QED BY <1>5, <2>2, <3>1 DEF SnapshotInv, Listed
  <2>. QED BY <2>1, <2>2
<1>8. ASSUME NEW q \in Procs
      PROVE  /\ pc'[q] \in Inside \/ pc[q] \in Inside =>
                   q # p /\ pc'[q] = pc[q] /\ draft'[q] = draft[q]
             /\ pc'[q] \notin Inside => draft'[q].id = 0
  BY <1>1, <1>4, <1>5 DEF RegistryInv, RunInv, Inside, Trying
<1>9. Registry!RegisteredIsSound'
  BY DEF RegistryInv, Registry!RegisteredIsSound
<1>. QED BY <1>2, <1>5, <1>6, <1>7, <1>8, <1>9

(* The lock is taken, and the operation entered over a dead one's, if any. *)
LEMMA Enters ==
  ASSUME RegistryInv, UNCHANGED workload, NEW p \in Procs, Registry!Enter(p)
  PROVE  RegistryInv'
<1>1. /\ pc[p] = "enter"
      /\ UNCHANGED <<history, evaluations, registrations, job, results, workbench, hypotheses, dirs,
                     cache, dead, charges, overlooked, edits, damages, crashes>>
  BY DEF Registry!Enter, Registry!files, Registry!ghosts
<1>2. CASE Registry!Leave(p) /\ UNCHANGED <<active, operations>>
  <2>1. /\ pc' \in [Procs -> Inside \cup {"idle", "enter"}] /\ draft' \in [Procs -> DraftType]
        /\ holder' = holder /\ OperationInv'
        /\ \A q \in Procs : SnapshotInv(q, pc[q], draft[q])'
        /\ \A q \in Procs : pc'[q] \in Inside \/ pc[q] \in Inside =>
                             q # p /\ pc'[q] = pc[q] /\ draft'[q] = draft[q]
        /\ \A q \in Procs : pc'[q] \notin Inside => draft'[q].id = 0
        /\ Registry!RegisteredIsSound'
    BY <1>1, <1>2, Turns
  <2>2. RegistryTyped'
    BY <1>1, <1>2, <2>1 DEF RegistryInv, RegistryTyped, Registry!TypeOK
  <2>3. BudgetInv'
    BY <1>1, <1>2 DEF RegistryInv, BudgetInv, Due
  <2>4. ASSUME NEW q \in Procs PROVE RunInv(q)'
    <3>1. CASE pc'[q] \in Inside \/ pc[q] \in Inside
      BY <1>1, <1>2, <2>1, <3>1 DEF RegistryInv, RunInv
    <3>2. CASE ~(pc'[q] \in Inside \/ pc[q] \in Inside)
      BY <1>1, <1>2, <2>1, <3>2 DEF RegistryInv, RunInv, Inside
    <3>. QED BY <3>1, <3>2
  <2>. QED BY <2>1, <2>2, <2>3, <2>4 DEF RegistryInv
<1>3. CASE ~(holder # None \/ operations = MaxOperations)
  <2>1. PICK k, t : k = operations + 1 /\ t = Registry!Track(p)
    OBVIOUS
  <2>2. /\ k \in 1 .. MaxOperations /\ k > operations /\ t \in Registry!Tracks /\ k \notin dead
    BY <1>3, <2>1, RegistryConstants, Counts
  <2>3. /\ holder' = p /\ operations' = k /\ Registry!Goto(p, "begin")
        /\ Registry!Set(p, [draft[p] EXCEPT !.id = k])
        /\ active' = [id |-> k, track |-> t, charged |-> FALSE]
    BY <1>3, <2>1 DEF Registry!Enter
  <2>4. PICK x : x = [draft[p] EXCEPT !.id = k]
    OBVIOUS
  <2>5. x \in DraftType /\ x.id = k
    BY <2>2, <2>4, Drafted DEF DraftType
  <2>6. /\ pc'[p] = "begin" /\ draft'[p] = x
        /\ \A q \in Procs : q # p => pc'[q] = pc[q] /\ draft'[q] = draft[q]
        /\ pc' \in [Procs -> Inside \cup {"idle", "enter"}] /\ draft' \in [Procs -> DraftType]
    BY <2>3, <2>4, <2>5, Places DEF Inside
  <2>7. active' \in Registry!Ops /\ active'.id = k /\ ~active'.charged
    BY <2>2, <2>3 DEF Registry!Ops
  <2>8. RegistryTyped'
    <3>1. dead' \subseteq 1 .. operations' /\ operations' \in 0 .. MaxOperations
      BY <1>1, <2>2, <2>3, Counts
    <3>. QED BY <1>1, <2>3, <2>6, <2>7, <3>1 DEF RegistryInv, RegistryTyped, Registry!TypeOK
  <2>9. OperationInv'
    <3>1. \A e \in history' : e.id # active'.id /\ e.id <= operations'
      <4>1. ASSUME NEW e \in history PROVE e.id \in Nat /\ e.id <= operations
        BY DEF RegistryInv, OperationInv, RegistryTyped, Registry!TypeOK
      <4>. QED BY <1>1, <2>2, <2>3, <2>7, <4>1, Counts
    <3>2. charges'[k] = 0
      BY <1>1, <2>2 DEF RegistryInv, OperationInv
    <3>3. ASSUME NEW i \in 1 .. MaxOperations
          PROVE  charges'[i] <= 1 /\ (i > operations' => charges'[i] = 0)
      BY <1>1, <2>2, <2>3, RegistryConstants, Counts DEF RegistryInv, OperationInv
    <3>4. ASSUME NEW i \in 1 .. operations'
          PROVE  /\ [id |-> i, status |-> "crashed"] \in history' => charges'[i] = 1
                 /\ active'.id = i \/ i \in overlooked' \/ \E e \in history' : e.id = i
      <4>1. CASE i = k
        <5>1. [id |-> k, status |-> "crashed"] \notin history'
          BY <2>7, <3>1
        <5>. QED BY <2>7, <4>1, <5>1
      <4>2. CASE i # k
        <5>1. i \in 1 .. operations
          BY <2>1, <2>3, <4>2, Counts
        <5>2. active.id = i => i \in overlooked
          BY <1>1, <1>3, <5>1 DEF RegistryInv, OperationInv
        <5>. QED BY <1>1, <5>1, <5>2 DEF RegistryInv, OperationInv
      <4>. QED BY <4>1, <4>2
    <3>5. active'.id \notin dead' /\ holder' # None /\ active'.id = operations'
      BY <1>1, <2>2, <2>3, <2>7, RegistryConstants
    <3>. QED BY <2>7, <3>1, <3>2, <3>3, <3>4, <3>5 DEF OperationInv
  <2>10. BudgetInv'
    <3>1. ASSUME NEW u \in Registry!Tracks
          PROVE  evaluations'[u] + Due(u)' <= MaxEvaluations + Cardinality(dead)
      <4>1. Due(u)' = 0
        BY <1>1, <2>2, <2>7 DEF Due
      <4>2. evaluations[u] + Due(u) <= MaxEvaluations + Cardinality(dead)
        BY DEF RegistryInv, BudgetInv
      <4>. QED BY <1>1, <4>1, <4>2, DueBound, RegistryConstants, Counts
    <3>. QED BY <1>1, <3>1 DEF BudgetInv
  <2>11. ASSUME NEW q \in Procs PROVE RunInv(q)' /\ SnapshotInv(q, pc[q], draft[q])'
    <3>1. CASE q = p
      <4>1. RunInv(p)'
        BY <1>1, <2>2, <2>3, <2>5, <2>6, <2>7 DEF RunInv, Inside, Trying
      <4>. QED BY <2>6, <3>1, <4>1, NothingRead
    <3>2. CASE q # p
      <4>1. pc[q] \notin Inside /\ draft[q].id = 0
        BY <1>3, RegistryConstants DEF RegistryInv, RunInv
      <4>2. RunInv(q)'
        BY <2>3, <2>6, <3>2, <4>1 DEF RunInv, Inside
      <4>3. SnapshotInv(q, pc[q], draft[q])
        BY DEF RegistryInv
      <4>. QED BY <1>1, <2>6, <3>2, <4>2, <4>3 DEF SnapshotInv, Listed
    <3>. QED BY <3>1, <3>2
  <2>12. Registry!RegisteredIsSound'
    BY <1>1 DEF RegistryInv, Registry!RegisteredIsSound
  <2>. QED BY <2>8, <2>9, <2>10, <2>11, <2>12 DEF RegistryInv
<1>4. holder # None \/ operations = MaxOperations => Registry!Leave(p) /\ UNCHANGED <<active, operations>>
  BY DEF Registry!Enter
<1>. QED BY <1>2, <1>3, <1>4

(* The attempt is charged, for the first time and within the budget. *)
LEMMA Charges ==
  ASSUME RegistryInv, UNCHANGED workload, NEW p \in Procs, Registry!Charge(p)
  PROVE  RegistryInv'
<1>1. /\ pc[p] = "charge"
      /\ UNCHANGED <<history, registrations, job, results, workbench, hypotheses, dirs, cache, holder,
                     draft, dead, overlooked, operations, edits, damages, crashes>>
  BY DEF Registry!Charge, Registry!files, Registry!bounds
<1>2. PICK k, t : k = operations /\ t = Registry!Track(p)
  OBVIOUS
<1>3. /\ draft[p].id = k /\ active.id = k /\ k # 0 /\ k \notin dead /\ ~active.charged
      /\ evaluations[t] < MaxEvaluations /\ holder = p
  BY <1>1, <1>2 DEF RegistryInv, RunInv, Inside, Trying
<1>4. k \in 1 .. MaxOperations /\ t \in Registry!Tracks /\ charges[k] = 0
  BY <1>2, <1>3, RegistryConstants, Counts DEF RegistryInv, OperationInv
<1>5. PICK c, e : c = charges[k] + 1 /\ e = evaluations[t] + 1
  OBVIOUS
<1>6. /\ c = 1 /\ e \in Nat /\ e <= MaxEvaluations
  BY <1>3, <1>4, <1>5, RegistryConstants, Counts
<1>7. /\ active' = [active EXCEPT !.charged = TRUE]
      /\ charges' = [charges EXCEPT ![k] = c]
      /\ evaluations' = IF draft[p].error = "failed" THEN [evaluations EXCEPT ![t] = e]
                        ELSE evaluations
  BY <1>2, <1>3, <1>5 DEF Registry!Charge
<1>8. active' \in Registry!Ops /\ active'.id = k /\ active'.charged
  <2>1. active \in Registry!Ops
    BY <1>3, Counts DEF Registry!NoOp
  <2>. QED BY <1>3, <1>7, <2>1 DEF Registry!Ops
<1>9. /\ charges' \in [1 .. MaxOperations -> Nat] /\ evaluations' \in [Registry!Tracks -> Nat]
      /\ charges'[k] = 1 /\ \A i \in 1 .. MaxOperations : i # k => charges'[i] = charges[i]
      /\ \A u \in Registry!Tracks : evaluations'[u] <= evaluations[u] \/ evaluations'[u] <= MaxEvaluations
  BY <1>4, <1>6, <1>7, Counts
<1>10. PICK label : label = IF draft[p].error = "none" /\ draft[p].kind = "register"
                            THEN "list" ELSE "finish"
  OBVIOUS
<1>11. label \in {"list", "finish"} /\ Registry!Goto(p, label) /\ Registry!Set(p, draft[p])
  BY <1>10, Drafted DEF Registry!Charge
<1>12. /\ pc'[p] = label /\ draft' = draft
       /\ \A q \in Procs : q # p => pc'[q] = pc[q]
       /\ pc' \in [Procs -> Inside \cup {"idle", "enter"}]
  BY <1>1, <1>11, Places DEF Inside
<1>13. RegistryTyped'
  BY <1>1, <1>8, <1>9, <1>12 DEF RegistryInv, RegistryTyped, Registry!TypeOK
<1>14. OperationInv'
  <2>1. ASSUME NEW i \in 1 .. operations
        PROVE  /\ [id |-> i, status |-> "crashed"] \in history' => charges'[i] = 1
               /\ active'.id = i \/ i \in overlooked' \/ \E h \in history' : h.id = i
    <3>1. i \in 1 .. MaxOperations
      BY RegistryConstants, Counts
    <3>. QED BY <1>1, <1>3, <1>8, <1>9, <3>1 DEF RegistryInv, OperationInv
  <2>2. ASSUME NEW i \in 1 .. MaxOperations
        PROVE  charges'[i] <= 1 /\ (i > operations => charges'[i] = 0)
    BY <1>2, <1>9 DEF RegistryInv, OperationInv
  <2>3. \A h \in history' : h.id # active'.id /\ h.id <= operations
    BY <1>1, <1>3, <1>8 DEF RegistryInv, OperationInv
  <2>4. /\ active'.id = operations' /\ holder' # None /\ active'.id \notin dead'
        /\ charges'[active'.id] = IF active'.charged THEN 1 ELSE 0
    BY <1>1, <1>2, <1>3, <1>8, <1>9, RegistryConstants
  <2>. QED BY <1>1, <2>1, <2>2, <2>3, <2>4 DEF OperationInv
<1>15. BudgetInv'
  <2>1. ASSUME NEW u \in Registry!Tracks
        PROVE  evaluations'[u] + Due(u)' <= MaxEvaluations + Cardinality(dead)
    <3>1. Due(u)' = 0
      BY <1>1, <1>3, <1>8 DEF Due
    <3>2. evaluations[u] + Due(u) <= MaxEvaluations + Cardinality(dead)
      BY DEF RegistryInv, BudgetInv
    <3>3. /\ evaluations[u] \in Nat /\ evaluations'[u] \in Nat /\ Due(u) \in {0, 1}
          /\ MaxEvaluations \in Nat /\ Cardinality(dead) \in Nat
      BY <1>9, DueBound, RegistryConstants, Counts
    <3>. QED BY <1>9, <3>1, <3>2, <3>3
  <2>. QED BY <1>1, <2>1 DEF BudgetInv
<1>16. ASSUME NEW q \in Procs PROVE RunInv(q)' /\ SnapshotInv(q, pc[q], draft[q])'
  <2>1. CASE q = p
    <3>1. RunInv(p)'
      BY <1>1, <1>2, <1>3, <1>8, <1>11, <1>12 DEF RunInv, Inside, Trying
    <3>2. SnapshotInv(p, label, draft[p])
      BY <1>1, <1>10, Drafted DEF SnapshotInv
    <3>. QED BY <1>1, <1>12, <2>1, <3>1, <3>2 DEF SnapshotInv, Listed
  <2>2. CASE q # p
    <3>1. pc[q] \notin Inside /\ draft[q].id = 0
      BY <1>3, <2>2 DEF RegistryInv, RunInv
    <3>2. RunInv(q)'
      BY <1>1, <1>3, <1>12, <2>2, <3>1 DEF RunInv, Inside
    <3>3. SnapshotInv(q, pc[q], draft[q])
      BY DEF RegistryInv
    <3>. QED BY <1>1, <1>12, <2>2, <3>2, <3>3 DEF SnapshotInv, Listed
  <2>. QED BY <2>1, <2>2
<1>17. Registry!RegisteredIsSound'
  BY <1>1 DEF RegistryInv, Registry!RegisteredIsSound
<1>. QED BY <1>13, <1>14, <1>15, <1>16, <1>17 DEF RegistryInv

(* The candidate is registered: what was built from one snapshot. *)
LEMMA ListsSound ==
  ASSUME RegistryInv, UNCHANGED workload, NEW p \in Procs, Registry!List(p)
  PROVE  RegistryInv'
<1>1. /\ pc[p] = "list"
      /\ UNCHANGED <<active, history, evaluations, job, results, workbench, hypotheses, dirs, cache,
                     holder, draft, dead, charges, overlooked, operations, edits, damages, crashes>>
  BY DEF Registry!List, Registry!files, Registry!ghosts, Registry!bounds
<1>2. Registry!Goto(p, "finish") /\ Registry!Set(p, draft[p])
  BY Drafted DEF Registry!List
<1>3. /\ pc'[p] = "finish" /\ \A q \in Procs : q # p => pc'[q] = pc[q]
      /\ pc' \in [Procs -> Inside \cup {"idle", "enter"}]
  BY <1>2, Places DEF Inside
<1>4. PICK r, S : /\ r = [cid |-> draft[p].cid, track |-> Registry!Track(p)]
                  /\ S = [cid : Registry!Cids, track : Registry!Tracks]
  OBVIOUS
<1>5. Listed(p, draft[p].cid)
  BY <1>1, Drafted DEF SnapshotInv
<1>6. r \in S /\ registrations \in Seq(S) /\ registrations' = Append(registrations, r)
  BY <1>4, <1>5, Counts
     DEF Listed, Registry!List, RegistryInv, RegistryTyped, Registry!TypeOK
<1>7. /\ registrations' \in Seq(S) /\ DOMAIN registrations' = 1 .. Len(registrations) + 1
      /\ DOMAIN registrations = 1 .. Len(registrations) /\ Len(registrations) \in Nat
      /\ registrations'[Len(registrations) + 1] = r
      /\ \A i \in 1 .. Len(registrations) : registrations'[i] = registrations[i]
  BY <1>6
<1>8. RegistryTyped'
  BY <1>1, <1>3, <1>4, <1>7 DEF RegistryInv, RegistryTyped, Registry!TypeOK
<1>9. OperationInv'
  <2>1. \A q \in Procs : pc'[q] = "enter" => pc[q] = "enter"
    BY <1>3
  <2>. QED BY <1>1, <2>1 DEF RegistryInv, OperationInv
<1>10. BudgetInv'
  BY <1>1 DEF RegistryInv, BudgetInv, Due
<1>11. ASSUME NEW q \in Procs PROVE RunInv(q)' /\ SnapshotInv(q, pc[q], draft[q])'
  <2>1. RunInv(q) /\ SnapshotInv(q, pc[q], draft[q])
    BY DEF RegistryInv
  <2>2. CASE q = p
    BY <1>1, <1>3, <2>1, <2>2, NothingRead DEF RunInv, Inside, Trying
  <2>3. CASE q # p
    BY <1>1, <1>3, <2>1, <2>3 DEF RunInv, SnapshotInv, Listed
  <2>. QED BY <2>2, <2>3
<1>12. Registry!RegisteredIsSound'
  <2>1. ASSUME NEW i \in DOMAIN registrations'
        PROVE  /\ dirs'[registrations'[i].cid] # "none"
               /\ registrations'[i].track = "agent" =>
                    registrations'[i].cid.source.hypothesis \in hypotheses'
    <3>1. CASE i = Len(registrations) + 1
      BY <1>1, <1>4, <1>5, <1>7, <3>1 DEF Listed
    <3>2. CASE i # Len(registrations) + 1
      <4>1. i \in DOMAIN registrations /\ registrations'[i] = registrations[i]
        BY <1>7, <3>2
      <4>. QED BY <1>1, <4>1 DEF RegistryInv, Registry!RegisteredIsSound
    <3>. QED BY <3>1, <3>2
  <2>. QED BY <1>1, <2>1 DEF RegistryInv, Registry!RegisteredIsSound
<1>. QED BY <1>8, <1>9, <1>10, <1>11, <1>12 DEF RegistryInv

(* The operation ends in the history. *)
LEMMA Finishes ==
  ASSUME RegistryInv, UNCHANGED workload, NEW p \in Procs, Registry!Finish(p)
  PROVE  RegistryInv'
<1>1. /\ pc[p] = "finish"
      /\ UNCHANGED <<evaluations, registrations, job, results, workbench, hypotheses, dirs, cache,
                     dead, charges, overlooked, operations, edits, damages, crashes>>
  BY DEF Registry!Finish, Registry!files, Registry!ghosts, Registry!bounds
<1>2. PICK k : k = operations
  OBVIOUS
<1>3. /\ draft[p].id = k /\ active.id = k /\ k # 0 /\ k \notin dead /\ holder = p
      /\ k \in 1 .. MaxOperations
  BY <1>1, <1>2, Counts, RegistryConstants DEF RegistryInv, RunInv, Inside
<1>4. PICK h : h = [id |-> k, status |-> "finished"]
  OBVIOUS
<1>5. /\ active' = Registry!NoOp /\ active'.id = 0 /\ history' = history \cup {h} /\ holder' = None
      /\ Registry!Goto(p, "idle") /\ Registry!Set(p, Registry!NoDraft)
  BY <1>3, <1>4 DEF Registry!Finish, Registry!Leave, Registry!NoOp
<1>6. PICK x : x = Registry!NoDraft
  OBVIOUS
<1>7. x \in DraftType /\ x.id = 0 /\ Registry!Set(p, x)
  BY <1>5, <1>6, NoDraftTyped
<1>8. /\ pc'[p] = "idle" /\ draft'[p] = x
      /\ \A q \in Procs : q # p => pc'[q] = pc[q] /\ draft'[q] = draft[q]
      /\ pc' \in [Procs -> Inside \cup {"idle", "enter"}] /\ draft' \in [Procs -> DraftType]
  BY <1>5, <1>7, Places
<1>9. RegistryTyped'
  <2>1. history' \subseteq [id : 1 .. MaxOperations, status : {"finished", "crashed"}]
    BY <1>3, <1>4, <1>5 DEF RegistryInv, RegistryTyped, Registry!TypeOK
  <2>. QED BY <1>1, <1>5, <1>8, <2>1 DEF RegistryInv, RegistryTyped, Registry!TypeOK
<1>10. OperationInv'
  <2>1. \A e \in history' : e.id # active'.id /\ e.id <= operations'
    <3>1. ASSUME NEW e \in history' PROVE e.id # 0 /\ e.id <= operations
      <4>1. CASE e \in history
        BY <4>1 DEF RegistryInv, OperationInv, RegistryTyped, Registry!TypeOK
      <4>2. CASE e = h
        BY <1>2, <1>3, <1>4, <4>2, Counts
      <4>. QED BY <1>5, <4>1, <4>2
    <3>. QED BY <1>1, <1>5, <3>1
  <2>2. ASSUME NEW i \in 1 .. operations'
        PROVE  /\ [id |-> i, status |-> "crashed"] \in history' => charges'[i] = 1
               /\ active'.id = i \/ i \in overlooked' \/ \E e \in history' : e.id = i
    <3>1. [id |-> i, status |-> "crashed"] \in history' => [id |-> i, status |-> "crashed"] \in history
      BY <1>4, <1>5
    <3>2. CASE i = k
      <4>1. h \in history' /\ h.id = k
        BY <1>4, <1>5
      <4>. QED BY <1>1, <3>1, <3>2, <4>1 DEF RegistryInv, OperationInv
    <3>3. CASE i # k
      <4>1. i \in overlooked \/ \E e \in history : e.id = i
        BY <1>1, <1>3, <3>3 DEF RegistryInv, OperationInv
      <4>. QED BY <1>1, <1>5, <3>1, <4>1 DEF RegistryInv, OperationInv
    <3>. QED BY <3>2, <3>3
  <2>3. ASSUME NEW i \in 1 .. MaxOperations
        PROVE  charges'[i] <= 1 /\ (i > operations' => charges'[i] = 0)
    BY <1>1 DEF RegistryInv, OperationInv
  <2>. QED BY <1>1, <1>5, <2>1, <2>2, <2>3, Counts DEF OperationInv
<1>11. BudgetInv'
  <2>1. ASSUME NEW u \in Registry!Tracks
        PROVE  evaluations'[u] + Due(u)' <= MaxEvaluations + Cardinality(dead)
    <3>1. Due(u)' = 0
      BY <1>1, <1>5, Counts DEF Due
    <3>2. evaluations[u] + Due(u) <= MaxEvaluations + Cardinality(dead)
      BY DEF RegistryInv, BudgetInv
    <3>. QED BY <1>1, <3>1, <3>2, DueBound, RegistryConstants, Counts
  <2>. QED BY <1>1, <2>1 DEF BudgetInv
<1>12. ASSUME NEW q \in Procs PROVE RunInv(q)' /\ SnapshotInv(q, pc[q], draft[q])'
  <2>1. CASE q = p
    BY <1>5, <1>7, <1>8, <2>1, NothingRead, RegistryConstants DEF RunInv, Inside, Trying
  <2>2. CASE q # p
    <3>1. pc[q] \notin Inside /\ draft[q].id = 0 /\ q # None
      BY <1>3, <2>2, RegistryConstants DEF RegistryInv, RunInv
    <3>2. RunInv(q)'
      BY <1>5, <1>8, <2>2, <3>1 DEF RunInv, Inside
    <3>3. SnapshotInv(q, pc[q], draft[q])
      BY DEF RegistryInv
    <3>. QED BY <1>1, <1>8, <2>2, <3>2, <3>3 DEF SnapshotInv, Listed
  <2>. QED BY <2>1, <2>2
<1>13. Registry!RegisteredIsSound'
  BY <1>1 DEF RegistryInv, Registry!RegisteredIsSound
<1>. QED BY <1>9, <1>10, <1>11, <1>12, <1>13 DEF RegistryInv

(* A job is reserved within the budget: what died and is due was charged to *)
(* the deaths.                                                              *)
LEMMA Reserves ==
  ASSUME RegistryInv, UNCHANGED workload, NEW p \in Procs, NEW cid \in Registry!Cids,
         Registry!Reserve(p, cid)
  PROVE  RegistryInv'
<1>1. /\ pc[p] = "enter" /\ Registry!Leave(p)
      /\ UNCHANGED <<active, history, registrations, results, workbench, hypotheses, dirs, cache,
                     dead, charges, overlooked, operations, edits, damages, crashes>>
  BY DEF Registry!Reserve, Registry!files, Registry!ghosts, Registry!bounds
<1>2. /\ pc' \in [Procs -> Inside \cup {"idle", "enter"}] /\ draft' \in [Procs -> DraftType]
      /\ holder' = holder /\ OperationInv'
      /\ \A q \in Procs : SnapshotInv(q, pc[q], draft[q])'
      /\ \A q \in Procs : pc'[q] \in Inside \/ pc[q] \in Inside =>
                           q # p /\ pc'[q] = pc[q] /\ draft'[q] = draft[q]
      /\ \A q \in Procs : pc'[q] \notin Inside => draft'[q].id = 0
      /\ Registry!RegisteredIsSound'
  BY <1>1, Turns
<1>3. PICK t : t = Registry!Track(p)
  OBVIOUS
<1>4. t \in Registry!Tracks
  BY <1>3, Counts
<1>5. CASE UNCHANGED <<job, evaluations>>
  <2>1. RegistryTyped'
    BY <1>1, <1>2, <1>5 DEF RegistryInv, RegistryTyped, Registry!TypeOK
  <2>2. BudgetInv'
    BY <1>1, <1>5 DEF RegistryInv, BudgetInv, Due
  <2>3. ASSUME NEW q \in Procs PROVE RunInv(q)'
    <3>1. CASE pc'[q] \in Inside \/ pc[q] \in Inside
      BY <1>1, <1>2, <1>5, <3>1 DEF RegistryInv, RunInv
    <3>2. CASE ~(pc'[q] \in Inside \/ pc[q] \in Inside)
      BY <1>1, <1>2, <3>2 DEF RegistryInv, RunInv, Inside
    <3>. QED BY <3>1, <3>2
  <2>. QED BY <1>2, <2>1, <2>2, <2>3 DEF RegistryInv
<1>6. CASE /\ holder = None /\ evaluations[t] < MaxEvaluations
           /\ job' = [track |-> t, cid |-> cid]
           /\ evaluations' = [evaluations EXCEPT ![t] = evaluations[t] + 1]
  <2>1. PICK e : e = evaluations[t] + 1
    OBVIOUS
  <2>2. e \in Nat /\ e <= MaxEvaluations
    BY <1>4, <1>6, <2>1, Counts, RegistryConstants
  <2>3. /\ evaluations' \in [Registry!Tracks -> Nat] /\ evaluations'[t] = e
        /\ \A u \in Registry!Tracks : u # t => evaluations'[u] = evaluations[u]
    BY <1>4, <1>6, <2>1, <2>2, Counts
  <2>4. RegistryTyped'
    BY <1>1, <1>2, <1>4, <1>6, <2>3 DEF RegistryInv, RegistryTyped, Registry!TypeOK
  <2>5. BudgetInv'
    <3>1. ASSUME NEW u \in Registry!Tracks
          PROVE  evaluations'[u] + Due(u)' <= MaxEvaluations + Cardinality(dead)
      <4>1. Due(u)' = Due(u)
        BY <1>1 DEF Due
      <4>2. Due(u) <= Cardinality(dead)
        BY DueBound, Counts
      <4>3. evaluations[u] + Due(u) <= MaxEvaluations + Cardinality(dead)
        BY DEF RegistryInv, BudgetInv
      <4>4. /\ evaluations[u] \in Nat /\ Due(u) \in {0, 1} /\ Cardinality(dead) \in Nat
            /\ MaxEvaluations \in Nat
        BY Counts, DueBound, RegistryConstants
      <4>. QED BY <2>2, <2>3, <4>1, <4>2, <4>3, <4>4
    <3>. QED BY <1>1, <3>1 DEF BudgetInv
  <2>6. ASSUME NEW q \in Procs PROVE RunInv(q)'
    <3>1. pc[q] \notin Inside /\ q # None
      BY <1>6, RegistryConstants DEF RegistryInv, RunInv
    <3>2. pc'[q] \notin Inside /\ draft'[q].id = 0
      BY <1>2, <3>1
    <3>. QED BY <1>2, <1>6, <3>1, <3>2 DEF RunInv, Inside
  <2>. QED BY <1>2, <2>4, <2>5, <2>6 DEF RegistryInv
<1>. QED BY <1>3, <1>5, <1>6 DEF Registry!Reserve

(* Results, hypotheses, edits and damage touch no operation. *)
LEMMA Surroundings ==
  ASSUME RegistryInv, UNCHANGED workload,
         \/ \E e \in BOOLEAN : Registry!Settle(e)
         \/ \E h \in Hypotheses : Registry!RecordHypothesis(h)
         \/ \E p \in Procs, s \in Registry!Sources : Registry!Edit(p, s)
         \/ \E cid \in Registry!Cids : Registry!Damage(cid)
  PROVE  RegistryInv'
<1>1. UNCHANGED <<active, history, evaluations, registrations, cache, holder, pc, draft, dead, charges,
                  overlooked, operations>>
  BY DEF Registry!Settle, Registry!RecordHypothesis, Registry!Edit, Registry!Damage,
         Registry!ledger, Registry!files, Registry!processes, Registry!ghosts, Registry!bounds
<1>2. /\ hypotheses \subseteq hypotheses' /\ hypotheses' \subseteq Hypotheses
      /\ dirs' \in [Registry!Cids -> {"none", "intact", "damaged"}]
      /\ \A c \in Registry!Cids : dirs[c] # "none" => dirs'[c] # "none"
      /\ workbench' \in [Procs -> Registry!Sources]
  <2>1. /\ hypotheses \subseteq Hypotheses /\ dirs \in [Registry!Cids -> {"none", "intact", "damaged"}]
        /\ workbench \in [Procs -> Registry!Sources]
    BY DEF RegistryInv, RegistryTyped, Registry!TypeOK
  <2>2. CASE \E e \in BOOLEAN : Registry!Settle(e)
    BY <2>1, <2>2 DEF Registry!Settle, Registry!files
  <2>3. CASE \E h \in Hypotheses : Registry!RecordHypothesis(h)
    BY <2>1, <2>3 DEF Registry!RecordHypothesis
  <2>4. CASE \E p \in Procs, s \in Registry!Sources : Registry!Edit(p, s)
    BY <2>1, <2>4 DEF Registry!Edit
  <2>5. CASE \E cid \in Registry!Cids : Registry!Damage(cid)
    BY <2>1, <2>5 DEF Registry!Damage
  <2>. QED BY <2>2, <2>3, <2>4, <2>5
<1>3. /\ job' \in [track : Registry!Tracks, cid : Registry!Cids] \cup {Registry!NoJob}
      /\ results' \in Seq(Registry!Outcomes)
  <2>1. /\ job \in [track : Registry!Tracks, cid : Registry!Cids] \cup {Registry!NoJob}
        /\ results \in Seq(Registry!Outcomes)
    BY DEF RegistryInv, RegistryTyped, Registry!TypeOK
  <2>2. CASE UNCHANGED <<job, results>>
    BY <2>1, <2>2
  <2>3. ASSUME NEW e \in BOOLEAN, Registry!Settle(e)
        PROVE  /\ job' = Registry!NoJob
               /\ results' \in Seq(Registry!Outcomes)
    <3>1. PICK r : r = [track |-> job.track, cid |-> job.cid, eligible |-> e]
      OBVIOUS
    <3>2. r \in Registry!Outcomes
      BY <2>1, <2>3, <3>1 DEF Registry!Settle, Registry!Outcomes
    <3>3. results' = Append(results, r) /\ job' = Registry!NoJob
      BY <2>3, <3>1 DEF Registry!Settle
    <3>. QED BY <2>1, <3>2, <3>3
  <2>. QED
    BY <2>2, <2>3
    DEF Registry!RecordHypothesis, Registry!Edit, Registry!Damage, Registry!ledger
<1>4. RegistryTyped'
  BY <1>1, <1>2, <1>3 DEF RegistryInv, RegistryTyped, Registry!TypeOK
<1>5. OperationInv'
  BY <1>1 DEF RegistryInv, OperationInv
<1>6. BudgetInv'
  BY <1>1 DEF RegistryInv, BudgetInv, Due
<1>7. ASSUME NEW q \in Procs PROVE RunInv(q)' /\ SnapshotInv(q, pc[q], draft[q])'
  <2>1. RunInv(q) /\ SnapshotInv(q, pc[q], draft[q])
    BY DEF RegistryInv
  <2>2. RunInv(q)'
    BY <1>1, <2>1 DEF RunInv
  <2>3. PICK label, x : label = pc[q] /\ x = draft[q]
    OBVIOUS
  <2>4. SnapshotInv(q, label, x)'
    BY <1>2, <2>1, <2>3, SnapshotStays
  <2>5. pc'[q] = label /\ draft'[q] = x
    BY <1>1, <2>3
  <2>. QED BY <2>2, <2>4, <2>5 DEF SnapshotInv, Listed
<1>8. Registry!RegisteredIsSound'
  <2>1. \A s \in Registry!Sources : cache'[s] # None => cache'[s].source = s /\ dirs'[cache'[s]] # "none"
    BY <1>1, <1>2
       DEF RegistryInv, RegistryTyped, Registry!TypeOK, Registry!RegisteredIsSound
  <2>. QED BY <1>1, <1>2, <2>1, SoundStays DEF RegistryInv
<1>. QED BY <1>4, <1>5, <1>6, <1>7, <1>8 DEF RegistryInv

(* A process that dies leaves its operation to be recovered, or, when a     *)
(* caller saw it alive, to be overwritten.                                  *)
LEMMA Crashes ==
  ASSUME RegistryInv, UNCHANGED workload, NEW p \in Procs, Registry!Crash(p)
  PROVE  RegistryInv'
<1>1. /\ pc[p] # "idle" /\ Registry!Leave(p)
      /\ UNCHANGED <<active, history, evaluations, registrations, job, results, workbench, hypotheses,
                     dirs, cache, charges, operations, edits, damages>>
  BY DEF Registry!Crash, Registry!files, Registry!ledger
<1>2. pc[p] \in Inside \cup {"enter"}
  BY <1>1 DEF RegistryInv, RegistryTyped
<1>3. CASE pc[p] = "enter"
  <2>1. draft[p].id = 0 /\ pc[p] \notin Inside /\ holder # p
    BY <1>3 DEF RegistryInv, RunInv, Inside, Trying
  <2>2. UNCHANGED <<dead, overlooked>>
    BY <2>1, Counts DEF Registry!Crash
  <2>3. /\ pc' \in [Procs -> Inside \cup {"idle", "enter"}] /\ draft' \in [Procs -> DraftType]
        /\ holder' = holder /\ OperationInv'
        /\ \A q \in Procs : SnapshotInv(q, pc[q], draft[q])'
        /\ \A q \in Procs : pc'[q] \in Inside \/ pc[q] \in Inside =>
                             q # p /\ pc'[q] = pc[q] /\ draft'[q] = draft[q]
        /\ \A q \in Procs : pc'[q] \notin Inside => draft'[q].id = 0
        /\ Registry!RegisteredIsSound'
    BY <1>1, <1>3, <2>2, Turns
  <2>4. RegistryTyped'
    BY <1>1, <2>2, <2>3 DEF RegistryInv, RegistryTyped, Registry!TypeOK
  <2>5. BudgetInv'
    BY <1>1, <2>2 DEF RegistryInv, BudgetInv, Due
  <2>6. ASSUME NEW q \in Procs PROVE RunInv(q)'
    <3>1. CASE pc'[q] \in Inside \/ pc[q] \in Inside
      BY <1>1, <2>2, <2>3, <3>1 DEF RegistryInv, RunInv
    <3>2. CASE ~(pc'[q] \in Inside \/ pc[q] \in Inside)
      BY <1>1, <2>3, <3>2 DEF RegistryInv, RunInv, Inside
    <3>. QED BY <3>1, <3>2
  <2>. QED BY <2>3, <2>4, <2>5, <2>6 DEF RegistryInv
<1>4. CASE pc[p] \in Inside
  <2>1. PICK k : k = operations
    OBVIOUS
  <2>2. /\ draft[p].id = k /\ active.id = k /\ k # 0 /\ k \notin dead /\ holder = p
        /\ k \in 1 .. operations
    BY <1>4, <2>1, Counts DEF RegistryInv, RunInv
  <2>3. /\ dead' = dead \cup {k} /\ holder' = None /\ overlooked \subseteq overlooked'
        /\ overlooked' \subseteq overlooked \cup {k}
        /\ (\E q \in Procs \ {p} : pc[q] = "enter") => k \in overlooked'
        /\ Registry!Goto(p, "idle") /\ Registry!Set(p, Registry!NoDraft)
    <3>1. active # Registry!NoOp
      BY <2>2 DEF Registry!NoOp
    <3>. QED BY <2>2, <3>1 DEF Registry!Crash, Registry!Leave
  <2>4. PICK x : x = Registry!NoDraft
    OBVIOUS
  <2>5. x \in DraftType /\ x.id = 0 /\ Registry!Set(p, x)
    BY <2>3, <2>4, NoDraftTyped
  <2>6. /\ pc'[p] = "idle" /\ draft'[p] = x
        /\ \A q \in Procs : q # p => pc'[q] = pc[q] /\ draft'[q] = draft[q]
        /\ pc' \in [Procs -> Inside \cup {"idle", "enter"}] /\ draft' \in [Procs -> DraftType]
    BY <2>3, <2>5, Places
  <2>7. RegistryTyped'
    <3>1. dead' \subseteq 1 .. operations' /\ overlooked' \subseteq dead'
      BY <1>1, <2>2, <2>3 DEF RegistryInv, RegistryTyped, Registry!TypeOK
    <3>. QED BY <1>1, <2>3, <2>6, <3>1 DEF RegistryInv, RegistryTyped, Registry!TypeOK
  <2>8. OperationInv'
    <3>1. ASSUME NEW q \in Procs, pc'[q] = "enter" PROVE k \in overlooked'
      BY <2>3, <2>6, <3>1
    <3>2. active'.id = k /\ active'.id \in dead'
      BY <1>1, <2>2, <2>3
    <3>3. ASSUME NEW i \in 1 .. operations'
          PROVE  /\ [id |-> i, status |-> "crashed"] \in history' => charges'[i] = 1
                 /\ active'.id = i \/ i \in overlooked' \/ \E e \in history' : e.id = i
      BY <1>1, <2>3 DEF RegistryInv, OperationInv
    <3>. QED BY <1>1, <3>1, <3>2, <3>3 DEF RegistryInv, OperationInv
  <2>9. BudgetInv'
    <3>1. Cardinality(dead') = Cardinality(dead) + 1
      BY <2>2, <2>3, Counts, FS_AddElement
    <3>2. ASSUME NEW u \in Registry!Tracks
          PROVE  evaluations'[u] + Due(u)' <= MaxEvaluations + Cardinality(dead')
      <4>1. Due(u)' \in {0, 1}
        BY DEF Due
      <4>2. Due(u) = 0
        BY <2>2 DEF Due
      <4>3. evaluations[u] + Due(u) <= MaxEvaluations + Cardinality(dead)
        BY DEF RegistryInv, BudgetInv
      <4>4. evaluations'[u] \in Nat /\ evaluations'[u] = evaluations[u]
        BY <1>1, Counts
      <4>. QED BY <3>1, <4>1, <4>2, <4>3, <4>4, Counts, RegistryConstants
    <3>. QED BY <3>2 DEF BudgetInv
  <2>10. ASSUME NEW q \in Procs PROVE RunInv(q)' /\ SnapshotInv(q, pc[q], draft[q])'
    <3>1. CASE q = p
      BY <2>3, <2>5, <2>6, <3>1, NothingRead, RegistryConstants DEF RunInv, Inside, Trying
    <3>2. CASE q # p
      <4>1. pc[q] \notin Inside /\ draft[q].id = 0 /\ q # None
        BY <2>2, <3>2, RegistryConstants DEF RegistryInv, RunInv
      <4>2. RunInv(q)'
        BY <2>3, <2>6, <3>2, <4>1 DEF RunInv, Inside
      <4>3. SnapshotInv(q, pc[q], draft[q])
        BY DEF RegistryInv
      <4>. QED BY <1>1, <2>6, <3>2, <4>2, <4>3 DEF SnapshotInv, Listed
    <3>. QED BY <3>1, <3>2
  <2>11. Registry!RegisteredIsSound'
    BY <1>1 DEF RegistryInv, Registry!RegisteredIsSound
  <2>. QED BY <2>7, <2>8, <2>9, <2>10, <2>11 DEF RegistryInv
<1>. QED BY <1>2, <1>3, <1>4

(* Nothing is registered at first. *)
LEMMA RegistryStarts == Registry!Init => RegistryInv
<1> SUFFICES ASSUME Registry!Init PROVE RegistryInv
  OBVIOUS
<1>1. /\ 0 \in 0 .. MaxOperations /\ 1 .. 0 = {}
      /\ Registry!NoDraft \in DraftType /\ Registry!NoDraft.id = 0
      /\ Registry!NoOp.id = 0 /\ None \notin Procs
  BY NoDraftTyped, RegistryConstants DEF Registry!NoOp
<1>2. Cardinality(dead) = 0
  BY FS_EmptySet DEF Registry!Init
<1>3. evaluations \in [Registry!Tracks -> Nat] /\ \A t \in Registry!Tracks : evaluations[t] = 0
  BY DEF Registry!Init
<1>4. \A p \in Procs : pc[p] = "idle" /\ draft[p] = Registry!NoDraft
  BY DEF Registry!Init
<1>5. RegistryTyped
  <2>1. /\ pc \in [Procs -> Inside \cup {"idle", "enter"}] /\ draft \in [Procs -> DraftType]
    BY <1>1 DEF Registry!Init
  <2>2. /\ workbench \in [Procs -> Registry!Sources]
        /\ dirs \in [Registry!Cids -> {"none", "intact", "damaged"}]
        /\ cache \in [Registry!Sources -> Registry!Cids \cup {None}]
        /\ charges \in [1 .. MaxOperations -> Nat]
    BY DEF Registry!Init
  <2>3. registrations \in Seq([cid : Registry!Cids, track : Registry!Tracks])
        /\ results \in Seq(Registry!Outcomes)
    BY DEF Registry!Init
  <2>. QED BY <1>1, <1>3, <2>1, <2>2, <2>3 DEF Registry!Init, RegistryTyped, Registry!TypeOK
<1>6. OperationInv
  BY <1>1, <1>4 DEF Registry!Init, OperationInv
<1>7. BudgetInv
  BY <1>1, <1>2, <1>3, RegistryConstants DEF Registry!Init, BudgetInv, Due
<1>8. ASSUME NEW p \in Procs PROVE RunInv(p) /\ SnapshotInv(p, pc[p], draft[p])
  BY <1>1, <1>4, NothingRead DEF Registry!Init, RunInv, Inside, Trying
<1>9. Registry!RegisteredIsSound
  BY DEF Registry!Init, Registry!RegisteredIsSound
<1>. QED BY <1>5, <1>6, <1>7, <1>8, <1>9 DEF RegistryInv

(* Every step of the registry keeps its invariant. *)
LEMMA RegistryStep ==
  ASSUME RegistryInv, Registry!Next
  PROVE  RegistryInv'
<1>1. UNCHANGED workload /\ Registry!Work
  BY DEF Registry!Next
<1>2. ASSUME NEW p \in Procs,
             \E kind \in {"register", "factory", "evaluate"} : Registry!Call(p, kind)
      PROVE  RegistryInv'
  BY <1>1, <1>2, Recovers
<1>3. ASSUME NEW p \in Procs,
             \/ Registry!CheckHypothesis(p) \/ Registry!ReadManifest(p)
             \/ Registry!CopySources(p) \/ Registry!CopyStore(p)
      PROVE  RegistryInv'
  BY <1>1, <1>3, Reads
<1>4. ASSUME NEW p \in Procs,
             \/ Registry!Enter(p) \/ Registry!Begin(p) \/ Registry!Make(p) \/ Registry!Lookup(p)
             \/ Registry!Publish(p) \/ Registry!PublishStore(p) \/ Registry!SaveCache(p)
             \/ Registry!Confirm(p)
      PROVE  RegistryInv'
  BY <1>1, <1>4, Enters, Begins, Makes, LooksUp, Publishes, SavesCache, Confirms
<1>5. ASSUME NEW p \in Procs, \E b \in Builds : Registry!Build(p, b) \/ Registry!BuildStore(p, b)
      PROVE  RegistryInv'
  BY <1>1, <1>5, BuildsCopy
<1>6. ASSUME NEW p \in Procs,
             \/ Registry!StaleRuntime(p) \/ Registry!Busy(p) \/ Registry!RefuseManifest(p)
             \/ Registry!RefuseStore(p) \/ Registry!RefuseWorkload(p) \/ Registry!RefuseTraining(p)
             \/ Registry!RefuseImport(p) \/ Registry!RefuseFiles(p) \/ Registry!RefuseTools(p)
             \/ Registry!RefuseClosure(p) \/ Registry!RefuseInterpreter(p)
             \/ Registry!RefuseRuntime(p) \/ Registry!Interrupted(p)
      PROVE  RegistryInv'
  BY <1>1, <1>6, RefusalsFail
<1>7. ASSUME NEW p \in Procs,
             \/ Registry!Charge(p) \/ Registry!List(p) \/ Registry!Finish(p) \/ Registry!Crash(p)
      PROVE  RegistryInv'
  BY <1>1, <1>7, Charges, ListsSound, Finishes, Crashes
<1>8. ASSUME NEW p \in Procs, \E cid \in Registry!Cids : Registry!Reserve(p, cid)
      PROVE  RegistryInv'
  BY <1>1, <1>8, Reserves
<1>9. ASSUME \/ \E e \in BOOLEAN : Registry!Settle(e)
             \/ \E h \in Hypotheses : Registry!RecordHypothesis(h)
             \/ \E p \in Procs, s \in Registry!Sources : Registry!Edit(p, s)
             \/ \E cid \in Registry!Cids : Registry!Damage(cid)
      PROVE  RegistryInv'
  BY <1>1, <1>9, Surroundings
<1>. QED
  BY <1>1, <1>2, <1>3, <1>4, <1>5, <1>6, <1>7, <1>8, <1>9 DEF Registry!Work

(* The registry's part of every behaviour: who holds the operation lock is  *)
(* the only one with an operation alive, and what it has read and made is   *)
(* of one snapshot (Engine._research_operation, candidate.register).        *)
THEOREM RegistryInvariant == Spec => [](tool = "registry" => RegistryInv)
<1>1. Init => (tool = "registry" => RegistryInv)
  BY RegistryStarts DEF Init
<1>2. (tool = "registry" => RegistryInv) /\ [Next]_vars => (tool = "registry" => RegistryInv)'
  <2> SUFFICES ASSUME tool = "registry" => RegistryInv, [Next]_vars, tool' = "registry"
               PROVE  RegistryInv'
    OBVIOUS
  <2>1. CASE tool = "registry" /\ Registry!Next
    BY <2>1, RegistryStep
  <2>2. CASE UNCHANGED <<tool, registryVars>>
    <3>1. RegistryInv
      BY <2>2
    <3>2. UNCHANGED <<workload, active, history, evaluations, registrations, job, results, workbench,
                      hypotheses, dirs, cache, holder, pc, draft, dead, charges, overlooked,
                      operations, edits, damages, crashes>>
      BY <2>2 DEF registryVars
    <3>3. RegistryTyped'
      BY <3>1, <3>2 DEF RegistryInv, RegistryTyped, Registry!TypeOK
    <3>4. OperationInv'
      BY <3>1, <3>2 DEF RegistryInv, OperationInv
    <3>5. BudgetInv'
      BY <3>1, <3>2 DEF RegistryInv, BudgetInv, Due
    <3>6. \A p \in Procs : RunInv(p)' /\ SnapshotInv(p, pc[p], draft[p])'
      BY <3>1, <3>2 DEF RegistryInv, RunInv, SnapshotInv, Listed
    <3>7. Registry!RegisteredIsSound'
      BY <3>1, <3>2 DEF RegistryInv, Registry!RegisteredIsSound
    <3>. QED BY <3>3, <3>4, <3>5, <3>6, <3>7 DEF RegistryInv
  <2>. QED BY <2>1, <2>2 DEF Next, vars
<1>. QED BY <1>1, <1>2, PTL DEF Spec

(* A registered candidate was built from one snapshot, whatever was edited  *)
(* meanwhile, and carries a recorded hypothesis (candidate.register,        *)
(* verify_hypothesis).                                                      *)
THEOREM RegistrationsAreSound == Spec => []RegisteredIsSound
<1>1. (tool = "registry" => RegistryInv) => RegisteredIsSound
  BY DEF RegistryInv, RegisteredIsSound
<1>. QED BY <1>1, RegistryInvariant, PTL

(* Every operation is charged once, whoever dies, and only deaths overdraw  *)
(* a budget (registration_attempt, recover_operation).                      *)
THEOREM OperationsAreChargedOnce == Spec => []ChargedOnce
<1>1. ASSUME RegistryInv PROVE Registry!ChargedOnce
  <2>1. ASSUME NEW id \in 1 .. operations
        PROVE  /\ charges[id] <= 1
               /\ [id |-> id, status |-> "crashed"] \in history => charges[id] = 1
               /\ active.id = id \/ id \in overlooked \/ \E e \in history : e.id = id
    <3>1. id \in 1 .. MaxOperations
      BY <1>1, RegistryConstants, Counts
    <3>. QED BY <1>1, <3>1 DEF RegistryInv, OperationInv
  <2>2. ASSUME NEW t \in Registry!Tracks
        PROVE  evaluations[t] <= MaxEvaluations + Cardinality(dead)
    <3>1. evaluations[t] + Due(t) <= MaxEvaluations + Cardinality(dead)
      BY <1>1 DEF RegistryInv, BudgetInv
    <3>2. /\ evaluations[t] \in Nat /\ Due(t) \in {0, 1} /\ Cardinality(dead) \in Nat
          /\ MaxEvaluations \in Nat
      BY <1>1, Counts, DueBound, RegistryConstants
    <3>. QED BY <3>1, <3>2
  <2>3. \A t \in Registry!Tracks : evaluations[t] <= MaxEvaluations + Cardinality(dead)
    BY <2>2
  <2>4. \A id \in 1 .. operations :
          /\ charges[id] <= 1
          /\ [id |-> id, status |-> "crashed"] \in history => charges[id] = 1
          /\ active.id = id \/ id \in overlooked \/ \E e \in history : e.id = id
    BY <2>1
  <2>5. Registry!Cardinality(dead) = Cardinality(dead)
    BY DEF Cardinality, Registry!Cardinality
  <2>. QED BY <2>3, <2>4, <2>5, Zenon DEF Registry!ChargedOnce
<1>2. (tool = "registry" => RegistryInv) => ChargedOnce
  BY <1>1 DEF ChargedOnce
<1>. QED BY <1>2, RegistryInvariant, PTL

-----------------------------------------------------------------------------
(* What the researcher is shown *)

(* A set of natural numbers that is not empty has a least element. *)
LEMMA Least ==
  ASSUME NEW T \in SUBSET Nat, T # {}
  PROVE  \E n \in T : \A m \in T : n <= m
<1>. DEFINE Below(n) == 1 .. n
            U == {Below(n) : n \in T}
<1>1. U \in SUBSET FiniteSubsetsOf(Nat)
  <2>1. ASSUME NEW n \in T PROVE Below(n) \in SUBSET Nat /\ IsFiniteSet(Below(n))
    BY FS_Interval
  <2>. QED
    BY <2>1 DEF FiniteSubsetsOf
<1>2. PICK x \in U : \A y \in U : ~ (<<y, x>> \in StrictSubsetOrdering(Nat))
  <2>. HIDE DEF U
  <2>1. U # {}
    BY DEF U
  <2>. QED
    BY <1>1, <2>1, FS_StrictSubsetOrderingWellFounded, WFMin
<1>3. PICK n \in T : x = Below(n)
  OBVIOUS
<1>4. ASSUME NEW m \in T, m < n PROVE FALSE
  <2>1. Below(m) \subseteq Below(n) /\ n \in Below(n) /\ n \notin Below(m)
    BY <1>4
  <2>2. <<Below(m), Below(n)>> \in StrictSubsetOrdering(Nat)
    BY <2>1 DEF StrictSubsetOrdering
  <2>. QED
    BY <1>2, <1>3, <2>2
<1>. QED
  BY <1>4

(* A set that holds 0, and with each number below n its successor, holds    *)
(* all numbers up to n.                                                     *)
LEMMA CountUp ==
  ASSUME NEW n \in Nat, NEW S, 0 \in S, \A k \in 0 .. n : k < n /\ k \in S => k + 1 \in S
  PROVE  0 .. n \subseteq S
<1>. DEFINE T == {k \in 0 .. n : k \notin S}
<1>1. SUFFICES ASSUME T # {} PROVE FALSE
  OBVIOUS
<1>2. T \in SUBSET Nat
  OBVIOUS
<1>3. PICK k \in T : \A m \in T : k <= m
  <2>. HIDE DEF T
  <2>. QED BY <1>1, <1>2, Least
<1>4. k # 0 /\ k - 1 \in 0 .. n /\ k - 1 \in S
  BY <1>3
<1>. QED
  BY <1>4

(* What a ledger's list shows of each of its beginnings. *)
IsShown(f, s, T) ==
  /\ f \in [0 .. Len(s) -> Seq(T)] /\ f[0] = <<>>
  /\ \A t \in 1 .. Len(s) : f[t] = IF s[t].track = "agent" THEN Append(f[t - 1], s[t]) ELSE f[t - 1]

(* The recursive function that Shown unfolds to exists, so what is shown of *)
(* a list is the last of what is shown of its beginnings.                   *)
LEMMA ShownIsLast ==
  ASSUME NEW T, NEW s \in Seq(T)
  PROVE  \E f : IsShown(f, s, T) /\ Registry!Shown(s) = f[Len(s)]
<1>. DEFINE n == Len(s)
            Own(f, t) == IF t = 0 THEN <<>>
                         ELSE IF s[t].track = "agent" THEN Append(f[t - 1], s[t]) ELSE f[t - 1]
            Upto(m) == \E f \in [0 .. m -> Seq(T)] : \A t \in 0 .. m : f[t] = Own(f, t)
            S == {m \in 0 .. n : Upto(m)}
            Rec == CHOOSE f : f = [t \in 0 .. n |-> Own(f, t)]
<1>0. n \in Nat
  OBVIOUS
<1>1. 0 \in S
  <2>. DEFINE g == [t \in 0 .. 0 |-> <<>>]
  <2>1. g \in [0 .. 0 -> Seq(T)] /\ \A t \in 0 .. 0 : g[t] = Own(g, t)
    OBVIOUS
  <2>2. Upto(0)
    <3>. HIDE DEF g, Own
    <3>. QED BY <2>1
  <2>. QED
    <3>. HIDE DEF Upto
    <3>. QED BY <2>2
<1>2. ASSUME NEW k \in 0 .. n, k < n, k \in S PROVE k + 1 \in S
  <2>1. PICK f \in [0 .. k -> Seq(T)] : \A t \in 0 .. k : f[t] = Own(f, t)
    BY <1>2
  <2>. DEFINE x == IF s[k + 1].track = "agent" THEN Append(f[k], s[k + 1]) ELSE f[k]
              g == [t \in 0 .. k + 1 |-> IF t = k + 1 THEN x ELSE f[t]]
  <2>2. f[k] \in Seq(T) /\ s[k + 1] \in T
    BY <1>2
  <2>a. x \in Seq(T)
    BY <2>2
  <2>3. g \in [0 .. k + 1 -> Seq(T)]
    <3>. HIDE DEF x
    <3>. QED BY <2>a
  <2>4. ASSUME NEW t \in 0 .. k + 1 PROVE g[t] = Own(g, t)
    <3>1. CASE t = k + 1
      <4>1. g[k] = f[k] /\ g[t] = x
        <5>. HIDE DEF x
        <5>. QED BY <3>1
      <4>. QED BY <4>1, <3>1
    <3>2. CASE t \in 0 .. k
      <4>1. g[t] = f[t] /\ (t # 0 => g[t - 1] = f[t - 1])
        <5>. HIDE DEF x
        <5>. QED BY <3>2
      <4>2. f[t] = Own(f, t)
        BY <3>2, <2>1
      <4>3. Own(f, t) = Own(g, t)
        BY <4>1
      <4>. QED
        <5>. HIDE DEF g, Own
        <5>. QED BY <4>1, <4>2, <4>3
    <3>. QED BY <3>1, <3>2
  <2>5. Upto(k + 1)
    <3>. HIDE DEF g, Own
    <3>. QED BY <2>3, <2>4
  <2>6. k + 1 \in 0 .. n
    BY <1>2
  <2>. QED
    <3>. HIDE DEF Upto
    <3>. QED BY <2>5, <2>6
<1>3. n \in S
  <2>1. 0 .. n \subseteq S
    <3>. HIDE DEF S, n
    <3>. QED BY <1>0, <1>1, <1>2, CountUp
  <2>2. n \in 0 .. n
    BY <1>0
  <2>. QED
    <3>. HIDE DEF S, n
    <3>. QED BY <2>1, <2>2
<1>4. PICK f \in [0 .. n -> Seq(T)] : \A t \in 0 .. n : f[t] = Own(f, t)
  BY <1>3
<1>5. f = [t \in 0 .. n |-> Own(f, t)]
  <2>. HIDE DEF Own
  <2>. QED BY <1>4
<1>6. Rec = [t \in 0 .. n |-> Own(Rec, t)]
  <2>. HIDE DEF Own
  <2>. QED BY <1>5
<1>7. Rec = f
  <2>. DEFINE E == {t \in 0 .. n : Rec[t] = f[t]}
  <2>0. ASSUME NEW t \in 0 .. n PROVE Rec[t] = Own(Rec, t)
    <3>. HIDE DEF Rec, Own
    <3>. QED BY <1>6
  <2>. HIDE DEF Rec
  <2>1. 0 \in E
    BY <2>0, <1>4
  <2>2. ASSUME NEW k \in 0 .. n, k < n, k \in E PROVE k + 1 \in E
    <3>1. k + 1 \in 0 .. n /\ k + 1 - 1 = k /\ k + 1 # 0 /\ Rec[k] = f[k]
      BY <2>2
    <3>2. Rec[k + 1] = Own(Rec, k + 1) /\ f[k + 1] = Own(f, k + 1)
      <4>. HIDE DEF Own
      <4>. QED BY <2>0, <1>4, <3>1
    <3>3. Own(Rec, k + 1) = Own(f, k + 1)
      BY <3>1
    <3>4. Rec[k + 1] = f[k + 1]
      <4>. HIDE DEF Own
      <4>. QED BY <3>2, <3>3
    <3>. QED BY <3>1, <3>4
  <2>3. 0 .. n \subseteq E
    <3>. HIDE DEF E
    <3>. QED BY <1>0, <2>1, <2>2, CountUp
  <2>4. \A t \in 0 .. n : Own(Rec, t) = Own(f, t)
    BY <2>3
  <2>. QED
    <3>. HIDE DEF Own, E
    <3>. QED BY <2>4, <1>5, <1>6
<1>8. Registry!Shown(s) = Rec[n]
  BY DEF Registry!Shown
<1>9. IsShown(f, s, T)
  <2>1. f[0] = Own(f, 0)
    <3>. HIDE DEF Own
    <3>. QED BY <1>0, <1>4
  <2>2. ASSUME NEW t \in 1 .. n PROVE f[t] = Own(f, t) /\ t # 0
    <3>. HIDE DEF Own
    <3>. QED BY <1>0, <1>4
  <2>. QED BY <1>4, <2>1, <2>2 DEF IsShown
<1>. QED
  BY <1>7, <1>8, <1>9

(* What is added for a baseline is not shown. *)
LEMMA ShownSkips ==
  ASSUME NEW T, NEW s \in Seq(T), NEW e \in T, e.track # "agent"
  PROVE  Registry!Shown(Append(s, e)) = Registry!Shown(s)
<1>. DEFINE u == Append(s, e)
<1>0. u \in Seq(T) /\ Len(u) = Len(s) + 1 /\ Len(s) \in Nat /\ u[Len(s) + 1] = e
      /\ \A t \in 1 .. Len(s) : u[t] = s[t]
  OBVIOUS
<1>1. PICK f : IsShown(f, s, T) /\ Registry!Shown(s) = f[Len(s)]
  BY ShownIsLast
<1>. HIDE DEF u
<1>2. PICK g : IsShown(g, u, T) /\ Registry!Shown(u) = g[Len(u)]
  BY <1>0, ShownIsLast
<1>. DEFINE S == {t \in 0 .. Len(s) : g[t] = f[t]}
<1>3. 0 \in S
  BY <1>0, <1>1, <1>2 DEF IsShown
<1>4. ASSUME NEW k \in 0 .. Len(s), k < Len(s), k \in S PROVE k + 1 \in S
  <2>1. k + 1 \in 1 .. Len(s) /\ k + 1 \in 1 .. Len(u)
    BY <1>0, <1>4
  <2>2. f[k + 1] = IF s[k + 1].track = "agent" THEN Append(f[k + 1 - 1], s[k + 1]) ELSE f[k + 1 - 1]
    BY <1>1, <2>1 DEF IsShown
  <2>3. g[k + 1] = IF u[k + 1].track = "agent" THEN Append(g[k + 1 - 1], u[k + 1]) ELSE g[k + 1 - 1]
    BY <1>2, <2>1 DEF IsShown
  <2>4. k + 1 - 1 = k /\ u[k + 1] = s[k + 1] /\ g[k] = f[k]
    BY <1>0, <1>4, <2>1
  <2>. QED
    BY <2>1, <2>2, <2>3, <2>4
<1>5. Len(s) \in S
  <2>1. 0 .. Len(s) \subseteq S
    <3>. HIDE DEF S
    <3>. QED BY <1>0, <1>3, <1>4, CountUp
  <2>. QED BY <1>0, <2>1
<1>6. g[Len(u)] = g[Len(s)]
  <2>1. Len(u) \in 1 .. Len(u) /\ u[Len(u)].track # "agent" /\ Len(u) - 1 = Len(s)
    BY <1>0
  <2>. QED BY <1>2, <2>1 DEF IsShown
<1>. QED
  BY <1>1, <1>2, <1>5, <1>6 DEF u

-----------------------------------------------------------------------------
(* What the owner's steps change of it *)

(* A job or an operation that is an agent's. *)
Agents(x) == x.track = "agent"

(* Nothing that is shown changes, if neither what is listed for agents nor  *)
(* an agent's job, operation or spending does.                              *)
LEMMA ViewStays ==
  ASSUME results' = results \/ Registry!Shown(results') = Registry!Shown(results),
         registrations' = registrations \/ Registry!Shown(registrations') = Registry!Shown(registrations),
         evaluations'["agent"] = evaluations["agent"],
         job' = job \/ (~Agents(job) /\ ~Agents(job')),
         active' = active \/ (~Agents(active) /\ ~Agents(active'))
  PROVE  Registry!View' = Registry!View
<1>0. /\ Registry!Shown(results') = Registry!Shown(results)
      /\ Registry!Shown(registrations') = Registry!Shown(registrations)
  OBVIOUS
<1>1. Registry!Latest' = Registry!Latest
  BY <1>0 DEF Registry!Latest, Agents
<1>2. (IF job'.track = "agent" THEN job' ELSE Registry!NoJob)
        = IF job.track = "agent" THEN job ELSE Registry!NoJob
  BY DEF Agents
<1>3. (IF active'.track = "agent" THEN active' ELSE Registry!NoOp)
        = IF active.track = "agent" THEN active ELSE Registry!NoOp
  BY DEF Agents
<1>. QED BY <1>0, <1>1, <1>2, <1>3 DEF Registry!View

(* The recorded operation of a process that is in it is of its own track.   *)
TrackInv == \A p \in Procs : pc[p] \in Inside => active.track = Registry!Track(p)

(* What a step does to the researcher's view, and that tracks stay right.   *)
Unseen == TrackInv' /\ (Registry!OwnerStep => Registry!View' = Registry!View)

(* A step within an operation that leaves the ledger alone. *)
LEMMA Works ==
  ASSUME RegistryInv, TrackInv, NEW p \in Procs, pc[p] \in Inside, NEW label,
         pc' = [pc EXCEPT ![p] = label],
         UNCHANGED <<active, evaluations, registrations, job, results>>
  PROVE  Unseen
<1>1. pc \in [Procs -> Inside \cup {"idle", "enter"}]
  BY DEF RegistryInv, RegistryTyped
<1>2. TrackInv'
  BY <1>1 DEF TrackInv
<1>3. Registry!View' = Registry!View
  BY ViewStays
<1>. QED BY <1>2, <1>3 DEF Unseen

(* Steps outside operations that leave processes and the ledger alone. *)
LEMMA Idles ==
  ASSUME RegistryInv, TrackInv, UNCHANGED <<pc, active, evaluations, registrations, job, results>>
  PROVE  Unseen
<1>1. Registry!View' = Registry!View
  BY ViewStays
<1>. QED BY <1>1 DEF Unseen, TrackInv

(* Who takes a step is the only one that moves. *)
LEMMA OwnerMoves ==
  ASSUME RegistryInv, NEW p \in Procs, NEW label, pc' = [pc EXCEPT ![p] = label],
         UNCHANGED job, Registry!OwnerStep
  PROVE  p \notin Public /\ Registry!Track(p) = "baseline" /\ pc[p] \in Inside /\ holder = p
<1>1. pc \in [Procs -> Inside \cup {"idle", "enter"}]
  BY DEF RegistryInv, RegistryTyped
<1>2. PICK q \in Procs \ Public : pc[q] \notin {"idle", "enter"} /\ pc'[q] # pc[q]
  BY DEF Registry!OwnerStep
<1>3. q = p
  BY <1>1, <1>2
<1>. QED BY <1>1, <1>2, <1>3 DEF Registry!Track, RegistryInv, RunInv

(* The operation's charge, its registration and its end. *)
LEMMA Ends ==
  ASSUME RegistryInv, TrackInv, NEW p \in Procs,
         Registry!Charge(p) \/ Registry!List(p) \/ Registry!Finish(p) \/ Registry!Crash(p)
  PROVE  Unseen
<1>1. /\ pc \in [Procs -> Inside \cup {"idle", "enter"}]
      /\ evaluations \in [Registry!Tracks -> Nat]
      /\ registrations \in Seq([cid : Registry!Cids, track : Registry!Tracks])
      /\ active \in Registry!Ops \cup {Registry!NoOp}
  BY DEF RegistryInv, RegistryTyped, Registry!TypeOK
<1>2. \A q \in Procs : pc[q] \in Inside => holder = q
  BY DEF RegistryInv, RunInv
<1>3. CASE Registry!Charge(p)
  <2>1. PICK label : pc' = [pc EXCEPT ![p] = label]
    BY <1>3 DEF Registry!Charge, Registry!Goto
  <2>2. /\ active' = [active EXCEPT !.charged = TRUE]
        /\ evaluations' = IF draft[p].error = "failed"
                          THEN [evaluations EXCEPT ![Registry!Track(p)] = evaluations[Registry!Track(p)] + 1]
                          ELSE evaluations
        /\ UNCHANGED <<registrations, job, results>> /\ pc[p] \in Inside
    BY <1>3 DEF Registry!Charge, Inside, Trying
  <2>3. active'.track = active.track
    BY <1>1, <2>2 DEF Registry!Ops, Registry!NoOp
  <2>4. TrackInv'
    BY <1>1, <2>1, <2>2, <2>3 DEF TrackInv
  <2>5. ASSUME Registry!OwnerStep PROVE Registry!View' = Registry!View
    <3>1. Registry!Track(p) = "baseline"
      BY <2>1, <2>2, <2>5, OwnerMoves
    <3>2. ~Agents(active) /\ ~Agents(active')
      BY <2>2, <2>3, <3>1 DEF TrackInv, Agents
    <3>3. evaluations'["agent"] = evaluations["agent"]
      BY <1>1, <2>2, <3>1
    <3>. QED BY <2>2, <3>2, <3>3, ViewStays
  <2>. QED BY <2>4, <2>5 DEF Unseen
<1>4. CASE Registry!List(p)
  <2>1. /\ pc' = [pc EXCEPT ![p] = "finish"] /\ pc[p] \in Inside
        /\ registrations' = Append(registrations, [cid |-> draft[p].cid, track |-> Registry!Track(p)])
        /\ UNCHANGED <<active, evaluations, job, results>>
    BY <1>4 DEF Registry!List, Registry!Goto, Inside
  <2>2. TrackInv'
    BY <1>1, <2>1 DEF TrackInv
  <2>3. ASSUME Registry!OwnerStep PROVE Registry!View' = Registry!View
    <3>1. Registry!Track(p) = "baseline"
      BY <2>1, <2>3, OwnerMoves
    <3>2. draft[p].cid \in Registry!Cids
      BY <1>4 DEF RegistryInv, SnapshotInv, Listed, Registry!List
    <3>3. [cid |-> draft[p].cid, track |-> Registry!Track(p)] \in [cid : Registry!Cids, track : Registry!Tracks]
      BY <3>1, <3>2 DEF Registry!Tracks
    <3>4. Registry!Shown(registrations') = Registry!Shown(registrations)
      BY <1>1, <2>1, <3>1, <3>3, ShownSkips
    <3>. QED BY <2>1, <3>4, ViewStays
  <2>. QED BY <2>2, <2>3 DEF Unseen
<1>5. CASE Registry!Finish(p)
  <2>1. /\ pc' = [pc EXCEPT ![p] = "idle"] /\ pc[p] \in Inside
        /\ active' = IF active.id = draft[p].id THEN Registry!NoOp ELSE active
        /\ UNCHANGED <<evaluations, registrations, job, results>>
    BY <1>5 DEF Registry!Finish, Registry!Leave, Registry!Goto, Inside
  <2>2. \A q \in Procs : pc'[q] \notin Inside
    BY <1>1, <1>2, <2>1 DEF Inside, Trying
  <2>3. ASSUME Registry!OwnerStep PROVE Registry!View' = Registry!View
    <3>1. Registry!Track(p) = "baseline"
      BY <2>1, <2>3, OwnerMoves
    <3>2. ~Agents(active) /\ ~Agents(active')
      BY <2>1, <3>1 DEF TrackInv, Registry!NoOp, Agents
    <3>. QED BY <2>1, <3>2, ViewStays
  <2>. QED BY <2>2, <2>3 DEF Unseen, TrackInv
<1>6. CASE Registry!Crash(p)
  <2>1. /\ pc' = [pc EXCEPT ![p] = "idle"]
        /\ UNCHANGED <<active, evaluations, registrations, job, results>>
    BY <1>6 DEF Registry!Crash, Registry!Leave, Registry!Goto, Registry!ledger
  <2>2. TrackInv'
    BY <1>1, <2>1 DEF TrackInv, Inside, Trying
  <2>3. Registry!View' = Registry!View
    BY <2>1, ViewStays
  <2>. QED BY <2>2, <2>3 DEF Unseen
<1>. QED BY <1>3, <1>4, <1>5, <1>6

(* Before an operation: a call, and its entry. *)
LEMMA Opens ==
  ASSUME RegistryInv, TrackInv, NEW p \in Procs,
         \/ \E kind \in {"register", "factory", "evaluate"} : Registry!Call(p, kind)
         \/ Registry!Enter(p)
  PROVE  Unseen
<1>1. pc \in [Procs -> Inside \cup {"idle", "enter"}]
  BY DEF RegistryInv, RegistryTyped
<1>2. \A q \in Procs : pc[q] \in Inside => holder = q
  BY DEF RegistryInv, RunInv
<1>3. CASE \E kind \in {"register", "factory", "evaluate"} : Registry!Call(p, kind)
  <2>1. /\ pc[p] = "idle" /\ pc' = [pc EXCEPT ![p] = "enter"]
        /\ Registry!Recovered \/ UNCHANGED <<active, history, evaluations, charges>>
        /\ UNCHANGED job
    BY <1>3 DEF Registry!Call, Registry!Goto
  <2>2. \A q \in Procs : pc'[q] \in Inside => pc[q] \in Inside
    BY <1>1, <2>1 DEF Inside, Trying
  <2>3. Registry!Recovered => holder = None /\ None \notin Procs
    BY RegistryConstants DEF Registry!Recovered
  <2>4. TrackInv'
    BY <1>2, <2>1, <2>2, <2>3 DEF TrackInv
  <2>5. ~Registry!OwnerStep
    BY <2>1, OwnerMoves DEF Inside, Trying
  <2>. QED BY <2>4, <2>5 DEF Unseen
<1>4. CASE Registry!Enter(p)
  <2>1. PICK label : pc' = [pc EXCEPT ![p] = label] /\ UNCHANGED job /\ pc[p] = "enter"
    BY <1>4 DEF Registry!Enter, Registry!Goto, Registry!Leave
  <2>2. ~Registry!OwnerStep
    BY <2>1, OwnerMoves DEF Inside, Trying
  <2>3. TrackInv'
    <3>1. CASE holder # None \/ operations = MaxOperations
      <4>1. pc' = [pc EXCEPT ![p] = "idle"] /\ UNCHANGED active
        BY <1>4, <3>1 DEF Registry!Enter, Registry!Goto, Registry!Leave
      <4>. QED BY <1>1, <4>1 DEF TrackInv, Inside, Trying
    <3>2. CASE ~(holder # None \/ operations = MaxOperations)
      <4>1. /\ pc' = [pc EXCEPT ![p] = "begin"]
            /\ active' = [id |-> operations', track |-> Registry!Track(p), charged |-> FALSE]
        BY <1>4, <3>2 DEF Registry!Enter, Registry!Goto
      <4>2. active'.track = Registry!Track(p)
        BY <4>1
      <4>3. \A q \in Procs : pc'[q] \in Inside => q = p
        BY <1>1, <1>2, <3>2, <4>1, RegistryConstants
      <4>. QED BY <4>2, <4>3 DEF TrackInv
    <3>. QED BY <3>1, <3>2
  <2>. QED BY <2>2, <2>3 DEF Unseen
<1>. QED BY <1>3, <1>4

(* The reservation and the result of a baseline. *)
LEMMA Measures ==
  ASSUME RegistryInv, TrackInv,
         \/ \E p \in Procs, cid \in Registry!Cids : Registry!Reserve(p, cid)
         \/ \E e \in BOOLEAN : Registry!Settle(e)
  PROVE  Unseen
<1>1. /\ pc \in [Procs -> Inside \cup {"idle", "enter"}]
      /\ evaluations \in [Registry!Tracks -> Nat]
      /\ results \in Seq(Registry!Outcomes)
      /\ job \in [track : Registry!Tracks, cid : Registry!Cids] \cup {Registry!NoJob}
  BY DEF RegistryInv, RegistryTyped, Registry!TypeOK
<1>2. ASSUME NEW p \in Procs, NEW cid \in Registry!Cids, Registry!Reserve(p, cid)
      PROVE  Unseen
  <2>1. /\ pc[p] = "enter" /\ pc' = [pc EXCEPT ![p] = "idle"]
        /\ UNCHANGED <<active, registrations, results>>
        /\ \/ /\ job = Registry!NoJob
              /\ job' = [track |-> Registry!Track(p), cid |-> cid]
              /\ evaluations' = [evaluations EXCEPT ![Registry!Track(p)] =
                                                      evaluations[Registry!Track(p)] + 1]
           \/ UNCHANGED <<job, evaluations>>
    BY <1>2 DEF Registry!Reserve, Registry!Leave, Registry!Goto
  <2>2. TrackInv'
    BY <1>1, <2>1 DEF TrackInv, Inside, Trying
  <2>3. ASSUME Registry!OwnerStep PROVE Registry!View' = Registry!View
    <3>1. job' # job
      BY <2>1, <2>3, OwnerMoves DEF Inside, Trying
    <3>2. job.track = "none" /\ job'.track = Registry!Track(p)
      BY <2>1, <3>1 DEF Registry!NoJob
    <3>3. Registry!Track(p) = "baseline"
      <4>1. "baseline" \in {job.track, job'.track} \/ \E q \in Procs \ Public :
              pc[q] \notin {"idle", "enter"} /\ pc'[q] # pc[q]
        BY <2>3 DEF Registry!OwnerStep
      <4>2. \A q \in Procs : pc'[q] = pc[q] \/ pc[q] = "enter"
        BY <1>1, <2>1
      <4>. QED BY <3>2, <4>1, <4>2
    <3>4. evaluations'["agent"] = evaluations["agent"]
      <4>1. evaluations' = [evaluations EXCEPT ![Registry!Track(p)] =
                                                evaluations[Registry!Track(p)] + 1]
        BY <2>1, <3>1
      <4>. QED BY <1>1, <3>3, <4>1
    <3>5. ~Agents(job) /\ ~Agents(job')
      BY <3>2, <3>3 DEF Agents
    <3>. QED BY <2>1, <3>4, <3>5, ViewStays
  <2>. QED BY <2>2, <2>3 DEF Unseen
<1>3. ASSUME NEW e \in BOOLEAN, Registry!Settle(e) PROVE Unseen
  <2>1. /\ job # Registry!NoJob /\ job' = Registry!NoJob
        /\ results' = Append(results, [track |-> job.track, cid |-> job.cid, eligible |-> e])
        /\ UNCHANGED <<pc, active, evaluations, registrations>>
    BY <1>3 DEF Registry!Settle, Registry!processes
  <2>2. ASSUME Registry!OwnerStep PROVE Registry!View' = Registry!View
    <3>1. job.track = "baseline" /\ job'.track = "none"
      BY <2>1, <2>2 DEF Registry!OwnerStep, Registry!NoJob
    <3>2. job.cid \in Registry!Cids
      BY <1>1, <2>1
    <3>3. [track |-> job.track, cid |-> job.cid, eligible |-> e] \in Registry!Outcomes
      BY <3>1, <3>2 DEF Registry!Outcomes, Registry!Tracks
    <3>4. Registry!Shown(results') = Registry!Shown(results)
      BY <1>1, <2>1, <3>1, <3>3, ShownSkips
    <3>5. ~Agents(job) /\ ~Agents(job')
      BY <3>1 DEF Agents
    <3>. QED BY <2>1, <3>4, <3>5, ViewStays
  <2>. QED BY <2>1, <2>2 DEF Unseen, TrackInv
<1>. QED BY <1>2, <1>3

(* No step of the owner is seen. *)
LEMMA StepUnseen == ASSUME RegistryInv, TrackInv, Registry!Next PROVE Unseen
<1>1. Registry!Work
  BY DEF Registry!Next
<1>2. ASSUME NEW p \in Procs,
             \/ Registry!Begin(p) \/ Registry!Make(p) \/ Registry!CheckHypothesis(p)
             \/ Registry!ReadManifest(p) \/ Registry!CopySources(p) \/ Registry!CopyStore(p)
             \/ Registry!Lookup(p) \/ Registry!Publish(p) \/ Registry!PublishStore(p)
             \/ Registry!SaveCache(p) \/ Registry!Confirm(p)
             \/ \E b \in Builds : Registry!Build(p, b) \/ Registry!BuildStore(p, b)
      PROVE  Unseen
  <2>1. PICK label : pc' = [pc EXCEPT ![p] = label]
    BY <1>2
    DEF Registry!Begin, Registry!Make, Registry!CheckHypothesis, Registry!ReadManifest,
        Registry!CopySources, Registry!CopyStore, Registry!Lookup, Registry!Publish,
        Registry!PublishStore, Registry!SaveCache, Registry!Confirm, Registry!Build,
        Registry!BuildStore, Registry!Goto, Registry!Failing
  <2>2. UNCHANGED <<active, evaluations, registrations, job, results>> /\ pc[p] \in Inside
    BY <1>2
    DEF Registry!Begin, Registry!Make, Registry!CheckHypothesis, Registry!ReadManifest,
        Registry!CopySources, Registry!CopyStore, Registry!Lookup, Registry!Publish,
        Registry!PublishStore, Registry!SaveCache, Registry!Confirm, Registry!Build,
        Registry!BuildStore, Registry!ledger, Inside, Trying
  <2>. QED BY <2>1, <2>2, Works
<1>3. ASSUME NEW p \in Procs,
             \/ Registry!StaleRuntime(p) \/ Registry!Busy(p) \/ Registry!RefuseManifest(p)
             \/ Registry!RefuseStore(p) \/ Registry!RefuseWorkload(p) \/ Registry!RefuseTraining(p)
             \/ Registry!RefuseImport(p) \/ Registry!RefuseFiles(p) \/ Registry!RefuseTools(p)
             \/ Registry!RefuseClosure(p) \/ Registry!RefuseInterpreter(p)
             \/ Registry!RefuseRuntime(p) \/ Registry!Interrupted(p)
      PROVE  Unseen
  <2>1. PICK at \in Inside, e \in {"failed", "busy"} : Registry!Refused(p, at, e)
    BY <1>3
    DEF Registry!StaleRuntime, Registry!Busy, Registry!RefuseManifest, Registry!RefuseStore,
        Registry!RefuseWorkload, Registry!RefuseTraining, Registry!RefuseImport, Registry!RefuseFiles,
        Registry!RefuseTools, Registry!RefuseClosure, Registry!RefuseInterpreter,
        Registry!RefuseRuntime, Registry!Interrupted, Registry!Attempting, Inside, Trying
  <2>2. /\ pc[p] \in Inside /\ pc' = [pc EXCEPT ![p] = "charge"]
        /\ UNCHANGED <<active, evaluations, registrations, job, results>>
    BY <2>1 DEF Registry!Refused, Registry!Failing, Registry!Goto, Registry!ledger
  <2>. QED BY <2>2, Works
<1>4. ASSUME NEW p \in Procs,
             \/ Registry!Charge(p) \/ Registry!List(p) \/ Registry!Finish(p) \/ Registry!Crash(p)
             \/ \E kind \in {"register", "factory", "evaluate"} : Registry!Call(p, kind)
             \/ Registry!Enter(p) \/ \E cid \in Registry!Cids : Registry!Reserve(p, cid)
      PROVE  Unseen
  BY <1>4, Ends, Opens, Measures
<1>5. CASE \E e \in BOOLEAN : Registry!Settle(e)
  BY <1>5, Measures
<1>6. CASE \/ \E h \in Hypotheses : Registry!RecordHypothesis(h)
           \/ \E p \in Procs, s \in Registry!Sources : Registry!Edit(p, s)
           \/ \E cid \in Registry!Cids : Registry!Damage(cid)
  <2>1. UNCHANGED <<pc, active, evaluations, registrations, job, results>>
    BY <1>6 DEF Registry!RecordHypothesis, Registry!Edit, Registry!Damage, Registry!ledger,
                Registry!processes
  <2>. QED BY <2>1, Idles
<1>. QED
  BY <1>1, <1>2, <1>3, <1>4, <1>5, <1>6 DEF Registry!Work

(* What the owner does with hidden baselines changes nothing that the       *)
(* researcher is shown (ResearcherEngine.state).                            *)
THEOREM OwnersStayHidden == Spec => BaselinesStayHidden
<1>1. Init => (tool = "registry" => TrackInv)
  BY DEF Init, Registry!Init, TrackInv, Inside, Trying
<1>2. (tool = "registry" => RegistryInv) /\ (tool = "registry" => TrackInv) /\ [Next]_vars
        => /\ (tool = "registry" => TrackInv)'
           /\ [tool = "registry" /\ Registry!OwnerStep => Registry!View' = Registry!View]_vars
  <2> SUFFICES ASSUME tool = "registry" => RegistryInv, tool = "registry" => TrackInv, [Next]_vars
               PROVE  /\ (tool = "registry" => TrackInv)'
                      /\ [tool = "registry" /\ Registry!OwnerStep => Registry!View' = Registry!View]_vars
    OBVIOUS
  <2>1. CASE tool = "registry" /\ Registry!Next
    <3>1. Unseen
      BY <2>1, StepUnseen
    <3>. QED BY <3>1 DEF Unseen
  <2>2. CASE tool # "registry" /\ UNCHANGED tool
    BY <2>2
  <2>3. CASE UNCHANGED vars
    <3>1. UNCHANGED <<tool, pc, active>>
      BY <2>3 DEF vars, registryVars
    <3>2. (tool = "registry" => TrackInv)'
      BY <3>1 DEF TrackInv
    <3>. QED BY <2>3, <3>2
  <2>. QED BY <2>1, <2>2, <2>3 DEF Next
<1>. QED BY <1>1, <1>2, RegistryInvariant, PTL DEF Spec, BaselinesStayHidden
====
