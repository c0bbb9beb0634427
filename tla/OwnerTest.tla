------------------------------ MODULE OwnerTest ------------------------------
(***************************************************************************)
(* The owner's one-shot private test: src/src/compression_lab/owner.py.    *)
(* The owner runs init, freeze, evaluate (also to resume) and disclose as  *)
(* separate processes.  freeze and evaluate hold owner-operation.lock,     *)
(* taken without blocking; init and disclose hold no lock.                 *)
(*                                                                         *)
(* Abstracted: a ledger update is one step (module Ledger); a copied tree  *)
(* is absent, partial or complete; a result is its candidate, attempt and  *)
(* verdict, and `scored' tells a measured one from the record of an        *)
(* interruption; the boundary checks pass; the public run has one card and *)
(* no active job.  A process that dies and one whose call raises outside   *)
(* evaluate's handler leave the same state, so both are Interrupt.         *)
(***************************************************************************)
EXTENDS LedgerStages, Integers, Sequences, FiniteSets

CONSTANTS Owners,           \* processes of the owner
          Candidates,       \* registered public candidates
          None,             \* no process, no candidate, no value
          MaxInterruptions  \* bound on interrupted calls

ASSUME OwnerTestAssumption ==
  /\ None \notin Owners /\ None \notin Candidates
  /\ MaxInterruptions \in Nat

Copies   == {"absent", "partial", "complete"}
Results  == [candidate : Candidates, attempt : Nat, verdict : Terminal, scored : BOOLEAN]

VARIABLES
  \* the private ledger
  stage,        \* "none" until the ledger exists
  candidate,    \* candidate_digest
  attempts,     \* private_attempts
  result,       \* result_id
  disclosed,
  \* the owner's files
  policy,       \* owner-policy.json exists
  copies,       \* candidates/<digest>
  public_copy,  \* public-<card digest>
  card,         \* frozen-card.json exists
  results,      \* results/*.json
  outcomes,     \* the results that outcome.json of the attempts name
  disclosure,   \* disclosure.json
  opened,       \* history: for which candidate and attempt hidden bytes were read
  \* processes
  lock, pc, arg, interruptions

ledger == <<stage, candidate, attempts, result, disclosed>>
files  == <<policy, copies, public_copy, card, opened, results, outcomes, disclosure>>
vars   == <<ledger, files, lock, pc, arg, interruptions>>

Init ==
  /\ stage = "none" /\ candidate = None /\ attempts = 0 /\ result = None
  /\ disclosed = FALSE
  /\ policy = FALSE /\ copies = [c \in Candidates |-> "absent"]
  /\ public_copy = "absent" /\ card = FALSE
  /\ opened = <<>> /\ results = {} /\ outcomes = {} /\ disclosure = None
  /\ lock = None /\ pc = [p \in Owners |-> "idle"] /\ arg = [p \in Owners |-> None]
  /\ interruptions = 0

-----------------------------------------------------------------------------
At(p, label) == pc[p] = label /\ UNCHANGED interruptions

(* A call goes on at another step, or returns and releases its lock. *)
Goto(p, label, x) == /\ pc' = [pc EXCEPT ![p] = label]
                     /\ arg' = [arg EXCEPT ![p] = x]
                     /\ UNCHANGED lock
Return(p) == /\ pc' = [pc EXCEPT ![p] = "idle"]
             /\ arg' = [arg EXCEPT ![p] = None]
             /\ lock' = IF lock = p THEN None ELSE lock

(* A ledger transition; one that NEXT refuses raises, and only Interrupt is *)
(* left for the call.                                                       *)
Transition(to) == /\ Allowed("update", stage, to)
                  /\ stage' = to

(* A call that needs the lock, which it reads the ledger with. *)
Begin(p, label, x) == /\ At(p, "idle") /\ lock = None
                      /\ lock' = p
                      /\ pc' = [pc EXCEPT ![p] = label]
                      /\ arg' = [arg EXCEPT ![p] = x]
                      /\ UNCHANGED <<ledger, files>>

-----------------------------------------------------------------------------
(* init *)

Initialize(p) ==
  /\ At(p, "idle") /\ ~policy
  /\ Goto(p, "policy", None)
  /\ UNCHANGED <<ledger, files>>

SavePolicy(p) ==
  /\ At(p, "policy")
  /\ policy' = TRUE
  /\ Goto(p, "create", None)
  /\ UNCHANGED <<ledger, copies, public_copy, card, opened, results, outcomes, disclosure>>

(* Ledger.create refuses an existing journal. *)
Create(p) ==
  /\ At(p, "create")
  /\ \/ stage = "none" /\ stage' = "created" /\ Goto(p, "search", None)
     \/ stage # "none" /\ UNCHANGED stage /\ Return(p)
  /\ UNCHANGED <<candidate, attempts, result, disclosed, files>>

OpenSearch(p) ==
  /\ At(p, "search")
  /\ Transition("public_search")
  /\ Return(p)
  /\ UNCHANGED <<candidate, attempts, result, disclosed, files>>

-----------------------------------------------------------------------------
(* freeze *)

Freeze(p, c) ==
  /\ stage \in {"public_search", "public_ready"}
  /\ Begin(p, "copy_candidate", c)

(* copy_candidate and copy_public make the directory first; an existing    *)
(* one is verified, which a partial one fails.                             *)
CopyCandidate(p) ==
  /\ At(p, "copy_candidate")
  /\ \/ /\ copies[arg[p]] = "absent"
        /\ copies' = [copies EXCEPT ![arg[p]] = "partial"]
        /\ Goto(p, "fill_candidate", arg[p])
     \/ /\ copies[arg[p]] = "complete"
        /\ Goto(p, "copy_public", arg[p]) /\ UNCHANGED copies
     \/ /\ copies[arg[p]] = "partial"
        /\ Return(p) /\ UNCHANGED copies
  /\ UNCHANGED <<ledger, policy, public_copy, card, opened, results, outcomes, disclosure>>

FillCandidate(p) ==
  /\ At(p, "fill_candidate")
  /\ copies' = [copies EXCEPT ![arg[p]] = "complete"]
  /\ Goto(p, "copy_public", arg[p])
  /\ UNCHANGED <<ledger, policy, public_copy, card, opened, results, outcomes, disclosure>>

CopyPublic(p) ==
  /\ At(p, "copy_public")
  /\ \/ /\ public_copy = "absent"
        /\ public_copy' = "partial" /\ Goto(p, "fill_public", arg[p])
     \/ /\ public_copy = "complete"
        /\ Goto(p, "recheck", arg[p]) /\ UNCHANGED public_copy
     \/ /\ public_copy = "partial"
        /\ Return(p) /\ UNCHANGED public_copy
  /\ UNCHANGED <<ledger, policy, copies, card, opened, results, outcomes, disclosure>>

FillPublic(p) ==
  /\ At(p, "fill_public")
  /\ public_copy' = "complete"
  /\ Goto(p, "recheck", arg[p])
  /\ UNCHANGED <<ledger, policy, copies, card, opened, results, outcomes, disclosure>>

(* The public gates under the owner: an ineligible candidate is refused. *)
Recheck(p) ==
  /\ At(p, "recheck")
  /\ Goto(p, "ready", arg[p]) \/ Return(p)
  /\ UNCHANGED <<ledger, files>>

PublicReady(p) ==
  /\ At(p, "ready")
  /\ Transition("public_ready") /\ candidate' = arg[p]
  /\ Goto(p, "save_card", arg[p])
  /\ UNCHANGED <<attempts, result, disclosed, files>>

SaveCard(p) ==
  /\ At(p, "save_card")
  /\ card' = TRUE
  /\ Goto(p, "frozen", arg[p])
  /\ UNCHANGED <<ledger, policy, copies, public_copy, opened, results, outcomes, disclosure>>

Frozen(p) ==
  /\ At(p, "frozen")
  /\ Transition("frozen") /\ candidate' = arg[p]
  /\ Return(p)
  /\ UNCHANGED <<attempts, result, disclosed, files>>

-----------------------------------------------------------------------------
(* evaluate *)

Evaluate(p) ==
  /\ stage = "frozen" /\ copies[candidate] = "complete"
  /\ Begin(p, "start", candidate)

(* The transition to private_started, before hidden bytes are opened. *)
Start(p) ==
  /\ At(p, "start")
  /\ Transition("private_started") /\ attempts' = attempts + 1
  /\ Goto(p, "open", arg[p])
  /\ UNCHANGED <<candidate, result, disclosed, files>>

(* What save_outcome stores for the state s that evaluate holds. *)
Score(verdict, scored) ==
  [candidate |-> candidate, attempt |-> attempts, verdict |-> verdict, scored |-> scored]

(* private_rows; what raises before hidden bytes are read is a verdict.    *)
OpenHidden(p) ==
  /\ At(p, "open")
  /\ \/ /\ opened' = Append(opened, [candidate |-> arg[p], attempt |-> attempts])
        /\ Goto(p, "score", arg[p])
     \/ /\ opened' = opened
        /\ \E v \in {"failed", "cancelled"} : Goto(p, "save_result", Score(v, FALSE))
  /\ UNCHANGED <<ledger, policy, copies, public_copy, card, results, outcomes, disclosure>>

(* bridge.evaluate and the check of the runtime after it. *)
Measure(p) ==
  /\ At(p, "score")
  /\ \E v \in Terminal : Goto(p, "save_result", Score(v, TRUE))
  /\ UNCHANGED <<ledger, files>>

(* Mutant: only an attempt with an outcome can be resumed. *)
ResumeOutcome(p) ==
  /\ stage = "private_started"
  /\ \E r \in outcomes : r.attempt = attempts /\ Begin(p, "conclude", r)

(* Mutant: an interrupted attempt is scored again. *)
ResumeScoring(p) ==
  /\ stage = "private_started"
  /\ \/ \E r \in outcomes : r.attempt = attempts /\ Begin(p, "conclude", r)
     \/ /\ \A r \in outcomes : r.attempt # attempts
        /\ Begin(p, "open", candidate)

(* evaluate(resume=True): the outcome that was saved, or a failed attempt. *)
Resume(p) ==
  /\ stage = "private_started"
  /\ \/ \E r \in outcomes : r.attempt = attempts /\ Begin(p, "conclude", r)
     \/ /\ \A r \in outcomes : r.attempt # attempts
        /\ Begin(p, "save_result", Score("failed", FALSE))

(* save_outcome: the result, then the outcome that names it. *)
SaveResult(p) ==
  /\ At(p, "save_result")
  /\ results' = results \cup {arg[p]}
  /\ Goto(p, "save_outcome", arg[p])
  /\ UNCHANGED <<ledger, policy, copies, public_copy, card, opened, outcomes, disclosure>>

SaveOutcome(p) ==
  /\ At(p, "save_outcome")
  /\ outcomes' = {r \in outcomes : r.attempt # arg[p].attempt} \cup {arg[p]}
  /\ Goto(p, "conclude", arg[p])
  /\ UNCHANGED <<ledger, policy, copies, public_copy, card, opened, results, disclosure>>

Conclude(p) ==
  /\ At(p, "conclude")
  /\ Transition(arg[p].verdict) /\ result' = arg[p]
  /\ Return(p)
  /\ UNCHANGED <<candidate, attempts, disclosed, files>>

-----------------------------------------------------------------------------
(* disclose: read, mark, publish *)

(* Mutant: any result of the run is taken. *)
DiscloseAny(p) ==
  /\ At(p, "idle") /\ stage \in Terminal
  /\ \E r \in results : Goto(p, "mark", r)
  /\ UNCHANGED <<ledger, files>>

Disclose(p) ==
  /\ At(p, "idle") /\ stage \in Terminal
  /\ result \in results
  /\ Goto(p, "mark", result)
  /\ UNCHANGED <<ledger, files>>

Mark(p) ==
  /\ At(p, "mark")
  /\ disclosed' = TRUE
  /\ Goto(p, "publish", arg[p])
  /\ UNCHANGED <<stage, candidate, attempts, result, files>>

Publish(p) ==
  /\ At(p, "publish")
  /\ disclosure' = arg[p]
  /\ Return(p)
  /\ UNCHANGED <<ledger, policy, copies, public_copy, card, opened, results, outcomes>>

-----------------------------------------------------------------------------
Interrupt(p) ==
  /\ pc[p] # "idle" /\ interruptions < MaxInterruptions
  /\ interruptions' = interruptions + 1
  /\ Return(p)
  /\ UNCHANGED <<ledger, files>>

Step(p) ==
  \/ SavePolicy(p) \/ Create(p) \/ OpenSearch(p)
  \/ CopyCandidate(p) \/ FillCandidate(p) \/ CopyPublic(p) \/ FillPublic(p)
  \/ Recheck(p) \/ PublicReady(p) \/ SaveCard(p) \/ Frozen(p)
  \/ Start(p) \/ OpenHidden(p) \/ Measure(p)
  \/ SaveResult(p) \/ SaveOutcome(p) \/ Conclude(p)
  \/ Mark(p) \/ Publish(p)

Next == \E p \in Owners :
  \/ Initialize(p) \/ (\E c \in Candidates : Freeze(p, c))
  \/ Evaluate(p) \/ Resume(p) \/ Disclose(p)
  \/ Step(p) \/ Interrupt(p)

Spec == Init /\ [][Next]_vars

(* A call runs on until it is interrupted, and the owner resumes. *)
FairSpec == /\ Spec
            /\ \A p \in Owners : WF_vars(Step(p))
            /\ SF_vars(\E p \in Owners : Resume(p))

-----------------------------------------------------------------------------
Steps == {"idle", "policy", "create", "search",
          "copy_candidate", "fill_candidate", "copy_public", "fill_public",
          "recheck", "ready", "save_card", "frozen",
          "start", "open", "score", "save_result", "save_outcome", "conclude",
          "mark", "publish"}
Unlocked == {"idle", "policy", "create", "search", "mark", "publish"}

(* Types; a freeze or an evaluation under way holds the lock, alone. *)
TypeOK ==
  /\ stage \in Stages \cup {"none"} /\ candidate \in Candidates \cup {None}
  /\ attempts \in Nat /\ result \in Results \cup {None} /\ disclosed \in BOOLEAN
  /\ policy \in BOOLEAN /\ copies \in [Candidates -> Copies] /\ public_copy \in Copies
  /\ card \in BOOLEAN /\ results \subseteq Results /\ outcomes \subseteq results
  /\ disclosure \in Results \cup {None}
  /\ opened \in Seq([candidate : Candidates, attempt : Nat])
  /\ pc \in [Owners -> Steps] /\ interruptions \in 0 .. MaxInterruptions
  /\ arg \in [Owners -> Candidates \cup Results \cup {None}]
  /\ \A p \in Owners : /\ pc[p] \in {"save_result", "save_outcome", "conclude", "mark",
                                     "publish"} => arg[p] \in Results
                       /\ pc[p] \notin Unlocked <=> lock = p

(* Hidden bytes are read at most once in the life of a run, and only for a *)
(* frozen candidate whose attempt is in the journal, whatever interrupts   *)
(* the test and however often it is resumed.                               *)
HiddenOpenedOnce ==
  /\ Len(opened) <= 1
  /\ \A i \in 1 .. Len(opened) :
       /\ opened[i] = [candidate |-> candidate, attempt |-> attempts]
       /\ stage \in Terminal \cup {"private_started"} /\ attempts = 1

(* What is frozen is complete: no directory an interrupted freeze left     *)
(* behind is taken for the candidate or for the public data.               *)
FrozenIsComplete ==
  stage \in Terminal \cup {"frozen", "private_started"} =>
    /\ copies[candidate] = "complete" /\ public_copy = "complete" /\ card

(* A saved outcome is the run's: neither a resumption nor a late process   *)
(* replaces it, and the run ends with it.                                  *)
OutcomeKept ==
  /\ [][outcomes \subseteq outcomes']_vars
  /\ [](stage \in Terminal => result \in outcomes /\ result.verdict = stage)

(* The disclosure is of the journalled result, marked as disclosed before  *)
(* it appears, although results of interrupted attempts lie beside it.     *)
DisclosureOfResult ==
  disclosure # None => disclosed /\ stage \in Terminal /\ disclosure = result

(* A test that was started ends, in spite of interruptions. *)
StartedTestEnds == stage = "private_started" ~> stage \in Terminal
=============================================================================
