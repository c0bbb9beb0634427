------------------------------ MODULE Refinement ------------------------------
(***************************************************************************)
(* The research memory: class RefinementStore of                           *)
(* src/src/compression_lab/refinement.py.  A lesson is a claim that one    *)
(* public result beats another, kept as versions in a ledger of its own;   *)
(* agents propose and check lessons, the owner rolls them back, and every  *)
(* listing derives anew what still holds.  Several processes use the store *)
(* under one lock, which dies with its holder; the results they cite, the  *)
(* candidates they quote and the context both belong to are read without   *)
(* any lock, and change while a call is under way.                         *)
(*                                                                         *)
(* Abstracted: a ledger update is one step (module Ledger); a version's    *)
(* number is its place in the ledger and its digests are its content; a    *)
(* context is a model value; a result id is the digest of its raw.json, so *)
(* what a result says (Measured) never changes, it can only become         *)
(* unreadable; one metric; a call that is refused changes nothing and is   *)
(* no step.                                                                *)
(***************************************************************************)
EXTENDS Integers, Sequences, FiniteSets

CONSTANTS Procs,      \* processes that use the store
          None,       \* no process
          Lessons,    \* lesson ids
          Results,    \* result ids
          Candidates, \* candidate digests
          Contexts,   \* what _context returns
          Measured,   \* scope, candidate, quality and value of each result
          Proposals,  \* the entries agents propose
          MaxLessons, \* MAX_LESSONS
          MaxVersions,\* MAX_VERSIONS
          MaxSpoils,  \* bound on artifacts that become unreadable
          MaxDrifts,  \* bound on changes of the context
          MaxCrashes  \* bound on process deaths

Relations == {"lower", "higher"}
Claims == [reference : Results, candidate : Results, relation : Relations]
Entries == [id : Lessons, claim : Claims, evidence : SUBSET Results,
            procedure : BOOLEAN, text : Nat]

(* _entry: two different results, both cited as evidence. *)
WellFormed(e) ==
  /\ e.claim.reference # e.claim.candidate
  /\ {e.claim.reference, e.claim.candidate} \subseteq e.evidence

RefinementAssumption ==
  /\ None \notin Procs
  /\ Measured \in [Results -> [scope : Contexts, candidate : Candidates,
                               quality : BOOLEAN, value : Nat]]
  /\ Proposals \subseteq Entries /\ \A e \in Proposals : WellFormed(e)
  /\ {MaxLessons, MaxVersions, MaxSpoils, MaxDrifts, MaxCrashes} \subseteq Nat

VARIABLES
  history,   \* the versions in each lesson's ledger
  context,   \* the workspace's run, card, runtime, profile and data
  committed, \* results the engine has committed
  spoiled,   \* results and candidates that no longer read as committed
  holder,    \* holder of the store's operation.lock
  pc,        \* idle, write, append or collect
  draft,     \* what each process is about to write or return
  drifts, crashes

vars == <<history, context, committed, spoiled, holder, pc, draft, drifts, crashes>>

Statuses   == {"provisional", "supported_within_scope", "refuted"}
Operations == {"propose", "check", "rollback"}
Version == [proposal : Entries, scope : Contexts, status : Statuses,
            observed : Claims, operation : Operations]

NoDraft  == [kind |-> "none"]
Drafts   == [kind : {"version"}, lesson : Lessons, version : Version, base : Nat]
Listings == [kind : {"listing"}, scope : Contexts, left : SUBSET Lessons,
             entries : SUBSET (Lessons \X Nat)]

-----------------------------------------------------------------------------
(* What a claim says of two results, and what a version rests on. *)

(* _observe: ties support neither relation. *)
Supports(o) ==
  IF o.relation = "lower"
  THEN Measured[o.candidate].value < Measured[o.reference].value
  ELSE Measured[o.candidate].value > Measured[o.reference].value

Pair(o)  == {o.reference, o.candidate}
Cited(v) == v.proposal.evidence \cup Pair(v.observed)

(* _evidence: committed public results of full quality, of this context. *)
Admissible(ids, ctx) ==
  /\ ids \subseteq committed \ spoiled
  /\ \A r \in ids : Measured[r].quality /\ Measured[r].scope = ctx

(* _procedure: the quoted file is the candidate's registered source. *)
Quotable(e) == e.procedure => Measured[e.claim.candidate].candidate \notin spoiled

(* _validate_current; Measured being fixed, an observation that can be     *)
(* derived again is the same.                                              *)
Valid(v, ctx) ==
  /\ v.scope = ctx
  /\ Admissible(Cited(v), ctx)
  /\ Quotable(v.proposal)

Exists(l)  == history[l] # <<>>
Current(l) == history[l][Len(history[l])]
Known      == {l \in Lessons : Exists(l)}

Init ==
  /\ history = [l \in Lessons |-> <<>>]
  /\ context \in Contexts
  /\ committed = {} /\ spoiled = {}
  /\ holder = None
  /\ pc = [p \in Procs |-> "idle"]
  /\ draft = [p \in Procs |-> NoDraft]
  /\ drifts = 0 /\ crashes = 0

-----------------------------------------------------------------------------
(* Every operation reads its context, the lesson and its evidence under    *)
(* the store's lock, and only then writes.                                 *)

(* Mutant: the lock is not taken. *)
LockForgotten(p) == pc[p] = "idle" /\ holder' = p

Lock(p) == pc[p] = "idle" /\ holder = None /\ holder' = p

Prepare(p, l, v) ==
  /\ Len(history[l]) < MaxVersions
  /\ pc' = [pc EXCEPT ![p] = "write"]
  /\ draft' = [draft EXCEPT ![p] = [kind |-> "version", lesson |-> l, version |-> v,
                                    base |-> Len(history[l])]]
  /\ UNCHANGED <<history, context, committed, spoiled, drifts, crashes>>

(* propose.  The same proposal in the same scope returns the version there *)
(* is, and an unchanged claim that was refuted stays refuted.              *)
Propose(p, e) ==
  /\ Lock(p)
  /\ Admissible(e.evidence, context)
  /\ Quotable(e)
  /\ IF Exists(e.id)
     THEN Current(e.id).scope = context =>
            /\ Current(e.id).proposal # e
            /\ ~(Current(e.id).status = "refuted" /\ Current(e.id).proposal.claim = e.claim)
     ELSE Cardinality(Known) < MaxLessons
  /\ Prepare(p, e.id, [proposal |-> e, scope |-> context, status |-> "provisional",
                       observed |-> e.claim, operation |-> "propose"])

(* Mutant: only the current version's evidence counts as used. *)
UsedByCurrent(l) == Cited(Current(l))

(* The ids used anywhere in a lesson's history. *)
Used(l) == UNION {Cited(history[l][i]) : i \in 1..Len(history[l])}

(* check, with a fresh pair of results of the claim's two candidates. *)
Check(p, l, reference, candidate) ==
  LET v == Current(l)
      o == [reference |-> reference, candidate |-> candidate, relation |-> v.proposal.claim.relation]
  IN /\ Lock(p)
     /\ Exists(l) /\ reference # candidate
     /\ Pair(o) \cap Used(l) = {}
     /\ Valid(v, context)
     /\ v.status # "refuted"
     /\ Admissible(Pair(o), context)
     /\ Measured[reference].candidate = Measured[v.observed.reference].candidate
     /\ Measured[candidate].candidate = Measured[v.observed.candidate].candidate
     /\ Prepare(p, l, [v EXCEPT !.observed = o, !.operation = "check",
                                !.status = IF Supports(o) THEN "supported_within_scope"
                                                          ELSE "refuted"])

(* rollback, the owner's: any version still valid becomes current again. *)
Rollback(p, l, i) ==
  /\ Lock(p)
  /\ Exists(l) /\ i \in 1..Len(history[l])
  /\ Current(l).scope = context
  /\ Valid(history[l][i], context)
  /\ Prepare(p, l, [history[l][i] EXCEPT !.operation = "rollback"])

Return(p) ==
  /\ holder' = IF holder = p THEN None ELSE holder
  /\ pc' = [pc EXCEPT ![p] = "idle"]
  /\ draft' = [draft EXCEPT ![p] = NoDraft]

(* _write reads the context again, and refuses when it has changed. *)
Recheck(p) ==
  /\ pc[p] = "write"
  /\ IF draft[p].version.scope = context
     THEN /\ pc' = [pc EXCEPT ![p] = "append"]
          /\ UNCHANGED <<holder, draft>>
     ELSE Return(p)
  /\ UNCHANGED <<history, context, committed, spoiled, drifts, crashes>>

(* The ledger's create or update.  Its callback ignores the state it is    *)
(* given: what was read under the store's lock is what it replaces.        *)
AppendVersion(p) ==
  /\ pc[p] = "append"
  /\ history' = [history EXCEPT ![draft[p].lesson] = Append(@, draft[p].version)]
  /\ Return(p)
  /\ UNCHANGED <<context, committed, spoiled, drifts, crashes>>

(* _collect, for list and snapshot: the lessons are visited one by one, in *)
(* the context read first.                                                 *)
Collect(p) ==
  /\ Lock(p)
  /\ pc' = [pc EXCEPT ![p] = "collect"]
  /\ draft' = [draft EXCEPT ![p] = [kind |-> "listing", scope |-> context, left |-> Known,
                                    entries |-> {}]]
  /\ UNCHANGED <<history, context, committed, spoiled, drifts, crashes>>

Listable(v, ctx) == v.status # "refuted" /\ Supports(v.observed) /\ Valid(v, ctx)

Visit(p, l) ==
  /\ pc[p] = "collect" /\ l \in draft[p].left
  /\ draft' = [draft EXCEPT ![p].left = @ \ {l},
                            ![p].entries = IF Listable(Current(l), draft[p].scope)
                                           THEN @ \cup {<<l, Len(history[l])>>} ELSE @]
  /\ UNCHANGED <<history, context, committed, spoiled, holder, pc, drifts, crashes>>

(* list or snapshot returns. *)
Answer(p) ==
  /\ pc[p] = "collect" /\ draft[p].left = {}
  /\ Return(p)
  /\ UNCHANGED <<history, context, committed, spoiled, drifts, crashes>>

-----------------------------------------------------------------------------
(* What changes under the store's feet. *)

(* The engine commits another result, in the workspace's context. *)
Commit(r) ==
  /\ r \notin committed /\ Measured[r].scope = context
  /\ committed' = committed \cup {r}
  /\ UNCHANGED <<history, context, spoiled, holder, pc, draft, drifts, crashes>>

(* raw.json or a registered source is lost or altered: raw refuses it. *)
Spoil(x) ==
  /\ x \notin spoiled /\ Cardinality(spoiled) < MaxSpoils
  /\ spoiled' = spoiled \cup {x}
  /\ UNCHANGED <<history, context, committed, holder, pc, draft, drifts, crashes>>

(* The pinned card, runtime, profile or data are not what they were. *)
Drift(ctx) ==
  /\ ctx # context /\ drifts < MaxDrifts
  /\ drifts' = drifts + 1
  /\ context' = ctx
  /\ UNCHANGED <<history, committed, spoiled, holder, pc, draft, crashes>>

Crash(p) ==
  /\ pc[p] # "idle" /\ crashes < MaxCrashes
  /\ crashes' = crashes + 1
  /\ Return(p)
  /\ UNCHANGED <<history, context, committed, spoiled, drifts>>

Next ==
  \/ \E p \in Procs :
       \/ \E e \in Proposals : Propose(p, e)
       \/ \E l \in Lessons :
            \/ \E reference, candidate \in Results : Check(p, l, reference, candidate)
            \/ \E i \in 1..MaxVersions : Rollback(p, l, i)
            \/ Visit(p, l)
       \/ Recheck(p) \/ AppendVersion(p) \/ Collect(p) \/ Answer(p) \/ Crash(p)
  \/ \E r \in Results : Commit(r)
  \/ \E x \in Results \cup Candidates : Spoil(x)
  \/ \E ctx \in Contexts : Drift(ctx)

Spec == Init /\ [][Next]_vars

-----------------------------------------------------------------------------
(* The type invariant. *)
TypeOK ==
  /\ history \in [Lessons -> Seq(Version)]
  /\ context \in Contexts
  /\ committed \subseteq Results
  /\ spoiled \subseteq Results \cup Candidates
  /\ holder \in Procs \cup {None}
  /\ pc \in [Procs -> {"idle", "write", "append", "collect"}]
  /\ draft \in [Procs -> {NoDraft} \cup Drafts \cup Listings]
  /\ drifts \in Nat /\ crashes \in Nat

(* Support is repeated, and never twice from the same results: a check     *)
(* uses results no earlier version of the lesson cites, whatever was       *)
(* proposed or rolled back between, and a supported version rests on a     *)
(* second comparison of the same two candidates, in the same context, that *)
(* does support the claim (check against its whole history, and _evidence).*)
SupportIsRepeated ==
  \A l \in Lessons : \A j \in 1..Len(history[l]) :
    LET v == history[l][j]
        Is(r, c) == Measured[r].candidate = Measured[c].candidate
    IN /\ v.operation = "check" =>
            \A i \in 1..(j - 1) : Pair(v.observed) \cap Cited(history[l][i]) = {}
       /\ v.status = "supported_within_scope" =>
            /\ Supports(v.observed)
            /\ Pair(v.observed) \cap v.proposal.evidence = {}
            /\ Is(v.observed.reference, v.proposal.claim.reference)
            /\ Is(v.observed.candidate, v.proposal.claim.candidate)
            /\ \A r \in Cited(v) : Measured[r].quality /\ Measured[r].scope = v.scope

(* What a call holds is still so when it writes or answers: a version is   *)
(* appended to the one it was made from, and a listing names only current  *)
(* versions that are not refuted, whose claim their observation bears out  *)
(* (the store's lock, and the filter of _collect).                         *)
HeldIsCurrent ==
  \A p \in Procs :
    /\ draft[p].kind = "version" => draft[p].base = Len(history[draft[p].lesson])
    /\ draft[p].kind = "listing" => \A e \in draft[p].entries :
         /\ e[2] = Len(history[e[1]])
         /\ Current(e[1]).status # "refuted"
         /\ Supports(Current(e[1]).observed)
=============================================================================
