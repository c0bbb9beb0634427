--------------------------- MODULE OwnerTestProofs ---------------------------
(* Proofs about the private test, for any owners, candidates and number of *)
(* interruptions.                                                          *)
EXTENDS OwnerTest, TLAPS

Freezing   == {"copy_candidate", "fill_candidate", "copy_public", "fill_public",
               "recheck", "ready", "save_card", "frozen"}
Copied     == {"copy_public", "fill_public", "recheck", "ready", "save_card", "frozen"}
BothCopied == {"recheck", "ready", "save_card", "frozen"}
Recording  == {"save_result", "save_outcome", "conclude"}
Testing    == {"open", "score"} \cup Recording
Begun      == Terminal \cup {"private_started"}

(* What a call that holds the lock may rely on: the stage it read is still *)
(* the run's, and what it has copied or saved is there.                    *)
FreezeInv(p) ==
  /\ pc[p] = "search" => stage # "none"
  /\ pc[p] \in Freezing => /\ arg[p] \in Candidates
                           /\ stage \in {"public_search", "public_ready"}
  /\ pc[p] \in Copied => copies[arg[p]] = "complete"
  /\ pc[p] \in BothCopied => public_copy = "complete"
  /\ pc[p] = "frozen" => card

TestInv(p) ==
  /\ pc[p] = "start" => stage = "frozen" /\ arg[p] = candidate
  /\ pc[p] \in Testing => stage = "private_started"
  /\ pc[p] = "open" => opened = <<>> /\ arg[p] = candidate
  /\ pc[p] \in Testing \ {"conclude"} => outcomes = {}
  /\ pc[p] \in Recording => arg[p] \in Results /\ arg[p].attempt = attempts
  /\ pc[p] = "save_outcome" => arg[p] \in results
  /\ pc[p] = "conclude" => arg[p] \in outcomes
  /\ pc[p] \in {"mark", "publish"} => stage \in Terminal /\ arg[p] = result
  /\ pc[p] = "publish" => disclosed

(* What the ledger's stage says of the files. *)
StageInv ==
  /\ stage \notin Begun => attempts = 0 /\ opened = <<>> /\ outcomes = {}
  /\ stage \in Begun => attempts = 1
  /\ stage \in Begun \cup {"frozen"} => candidate \in Candidates
  /\ \A r \in outcomes : r.attempt = attempts
  /\ stage \in Terminal => result \in outcomes /\ result.verdict = stage

CallInv == \A p \in Owners : FreezeInv(p) /\ TestInv(p)

IInv ==
  /\ TypeOK
  /\ StageInv
  /\ CallInv
  /\ HiddenOpenedOnce
  /\ FrozenIsComplete
  /\ DisclosureOfResult

-----------------------------------------------------------------------------
(* Initially nothing is copied, opened or saved. *)
LEMMA InvInit == Init => IInv
<1>. SUFFICES ASSUME Init PROVE IInv
  OBVIOUS
<1>1. TypeOK
  <2>1. /\ copies \in [Candidates -> Copies]
        /\ pc \in [Owners -> Steps] /\ arg \in [Owners -> Candidates \cup Results \cup {None}]
        /\ interruptions \in 0 .. MaxInterruptions
    BY OwnerTestAssumption DEF Init, Copies, Steps
  <2>2. opened \in Seq([candidate : Candidates, attempt : Nat])
    BY DEF Init
  <2>3. \A p \in Owners : pc[p] = "idle" /\ lock # p
    BY OwnerTestAssumption DEF Init
  <2>. QED
    BY <2>1, <2>2, <2>3 DEF Init, TypeOK, Stages, Copies, Unlocked
<1>2. StageInv /\ CallInv /\ HiddenOpenedOnce /\ FrozenIsComplete /\ DisclosureOfResult
  BY OwnerTestAssumption
     DEF Init, StageInv, CallInv, FreezeInv, TestInv, HiddenOpenedOnce,
         FrozenIsComplete, DisclosureOfResult, Begun, Terminal,
         Freezing, Copied, BothCopied, Recording, Testing
<1>. QED
  BY <1>1, <1>2 DEF IInv

(* What is recorded of an attempt is a result of that attempt. *)
LEMMA ScoreType ==
  ASSUME candidate \in Candidates, attempts \in Nat,
         NEW verdict \in Terminal, NEW scored \in BOOLEAN
  PROVE  /\ Score(verdict, scored) \in Results
         /\ Score(verdict, scored).attempt = attempts
BY DEF Score, Results

(* The test is over, and its verdict r is to be saved. *)
Records(p, r) ==
  /\ pc' = [pc EXCEPT ![p] = "save_result"]
  /\ arg' = [arg EXCEPT ![p] = r]
  /\ UNCHANGED <<ledger, files, lock, interruptions>>

(* A verdict reached is of the attempt that was charged. *)
LEMMA RecordsInv ==
  ASSUME IInv, NEW p \in Owners, pc[p] \in {"open", "score"},
         NEW r \in Results, r.attempt = attempts, Records(p, r)
  PROVE  IInv'
<1>. USE DEF IInv, TypeOK, StageInv, CallInv, FreezeInv, TestInv, Records, ledger, files
<1>1. TypeOK'
  BY DEF Stages, Copies, Steps, Unlocked
<1>2. StageInv' /\ HiddenOpenedOnce' /\ FrozenIsComplete' /\ DisclosureOfResult'
  BY DEF HiddenOpenedOnce, FrozenIsComplete, DisclosureOfResult
<1>3. CallInv'
  BY DEF Begun, Terminal, Unlocked, Freezing, Copied, BothCopied, Recording, Testing
<1>. QED
  BY <1>1, <1>2, <1>3

(* No step of any call breaks what the others rely on. *)
LEMMA InvNext == IInv /\ [Next]_vars => IInv'
<1>. SUFFICES ASSUME IInv, [Next]_vars PROVE IInv'
  OBVIOUS
<1>. USE OwnerTestAssumption
     DEF IInv, TypeOK, StageInv, CallInv, FreezeInv, TestInv,
         ledger, files, At, Goto, Return, Begin, Begun, Terminal, Unlocked,
         Freezing, Copied, BothCopied, Recording, Testing
<1>1. ASSUME NEW p \in Owners, Initialize(p) PROVE IInv'
  <2>1. TypeOK'
    BY <1>1 DEF Initialize, Stages, Copies, Steps
  <2>2. StageInv' /\ HiddenOpenedOnce' /\ FrozenIsComplete' /\ DisclosureOfResult'
    BY <1>1 DEF Initialize, HiddenOpenedOnce, FrozenIsComplete, DisclosureOfResult
  <2>3. CallInv'
    BY <1>1 DEF Initialize
  <2>. QED
    BY <2>1, <2>2, <2>3
<1>2. ASSUME NEW p \in Owners, SavePolicy(p) PROVE IInv'
  <2>1. TypeOK'
    BY <1>2 DEF SavePolicy, Stages, Copies, Steps
  <2>2. StageInv' /\ HiddenOpenedOnce' /\ FrozenIsComplete' /\ DisclosureOfResult'
    BY <1>2 DEF SavePolicy, HiddenOpenedOnce, FrozenIsComplete, DisclosureOfResult
  <2>3. CallInv'
    BY <1>2 DEF SavePolicy
  <2>. QED
    BY <2>1, <2>2, <2>3
<1>3. ASSUME NEW p \in Owners, Create(p) PROVE IInv'
  <2>1. TypeOK'
    BY <1>3 DEF Create, Stages, Copies, Steps
  <2>2. StageInv' /\ HiddenOpenedOnce' /\ FrozenIsComplete' /\ DisclosureOfResult'
    BY <1>3 DEF Create, HiddenOpenedOnce, FrozenIsComplete, DisclosureOfResult
  <2>3. CallInv'
    BY <1>3 DEF Create
  <2>. QED
    BY <2>1, <2>2, <2>3
<1>4. ASSUME NEW p \in Owners, OpenSearch(p) PROVE IInv'
  <2>0. stage \in {"created", "public_search", "public_ready"} /\ stage' = "public_search"
    BY <1>4 DEF OpenSearch, Transition, Allowed, NEXT, Stages
  <2>1. TypeOK'
    BY <1>4, <2>0 DEF OpenSearch, Stages, Copies, Steps
  <2>2. StageInv' /\ HiddenOpenedOnce' /\ FrozenIsComplete' /\ DisclosureOfResult'
    BY <1>4, <2>0 DEF OpenSearch, HiddenOpenedOnce, FrozenIsComplete, DisclosureOfResult
  <2>3. CallInv'
    BY <1>4, <2>0 DEF OpenSearch
  <2>. QED
    BY <2>1, <2>2, <2>3
<1>5. ASSUME NEW p \in Owners, NEW c \in Candidates, Freeze(p, c) PROVE IInv'
  <2>1. TypeOK'
    BY <1>5 DEF Freeze, Stages, Copies, Steps
  <2>2. StageInv' /\ HiddenOpenedOnce' /\ FrozenIsComplete' /\ DisclosureOfResult'
    BY <1>5 DEF Freeze, HiddenOpenedOnce, FrozenIsComplete, DisclosureOfResult
  <2>3. CallInv'
    BY <1>5 DEF Freeze
  <2>. QED
    BY <2>1, <2>2, <2>3
<1>6. ASSUME NEW p \in Owners, CopyCandidate(p) PROVE IInv'
  <2>1. TypeOK'
    BY <1>6 DEF CopyCandidate, Stages, Copies, Steps
  <2>2. StageInv' /\ HiddenOpenedOnce' /\ FrozenIsComplete' /\ DisclosureOfResult'
    BY <1>6 DEF CopyCandidate, HiddenOpenedOnce, FrozenIsComplete, DisclosureOfResult
  <2>3. CallInv'
    BY <1>6 DEF CopyCandidate
  <2>. QED
    BY <2>1, <2>2, <2>3
<1>7. ASSUME NEW p \in Owners, FillCandidate(p) PROVE IInv'
  <2>1. TypeOK'
    BY <1>7 DEF FillCandidate, Stages, Copies, Steps
  <2>2. StageInv' /\ HiddenOpenedOnce' /\ FrozenIsComplete' /\ DisclosureOfResult'
    BY <1>7 DEF FillCandidate, HiddenOpenedOnce, FrozenIsComplete, DisclosureOfResult
  <2>3. CallInv'
    BY <1>7 DEF FillCandidate
  <2>. QED
    BY <2>1, <2>2, <2>3
<1>8. ASSUME NEW p \in Owners, CopyPublic(p) PROVE IInv'
  <2>1. TypeOK'
    BY <1>8 DEF CopyPublic, Stages, Copies, Steps
  <2>2. StageInv' /\ HiddenOpenedOnce' /\ FrozenIsComplete' /\ DisclosureOfResult'
    BY <1>8 DEF CopyPublic, HiddenOpenedOnce, FrozenIsComplete, DisclosureOfResult
  <2>3. CallInv'
    BY <1>8 DEF CopyPublic
  <2>. QED
    BY <2>1, <2>2, <2>3
<1>9. ASSUME NEW p \in Owners, FillPublic(p) PROVE IInv'
  <2>1. TypeOK'
    BY <1>9 DEF FillPublic, Stages, Copies, Steps
  <2>2. StageInv' /\ HiddenOpenedOnce' /\ FrozenIsComplete' /\ DisclosureOfResult'
    BY <1>9 DEF FillPublic, HiddenOpenedOnce, FrozenIsComplete, DisclosureOfResult
  <2>3. CallInv'
    BY <1>9 DEF FillPublic
  <2>. QED
    BY <2>1, <2>2, <2>3
<1>10. ASSUME NEW p \in Owners, Recheck(p) PROVE IInv'
  <2>1. TypeOK'
    BY <1>10 DEF Recheck, Stages, Copies, Steps
  <2>2. StageInv' /\ HiddenOpenedOnce' /\ FrozenIsComplete' /\ DisclosureOfResult'
    BY <1>10 DEF Recheck, HiddenOpenedOnce, FrozenIsComplete, DisclosureOfResult
  <2>3. CallInv'
    BY <1>10 DEF Recheck
  <2>. QED
    BY <2>1, <2>2, <2>3
<1>11. ASSUME NEW p \in Owners, PublicReady(p) PROVE IInv'
  <2>0. stage' = "public_ready"
    BY <1>11 DEF PublicReady, Transition
  <2>1. TypeOK'
    BY <1>11, <2>0 DEF PublicReady, Stages, Copies, Steps
  <2>2. StageInv' /\ HiddenOpenedOnce' /\ FrozenIsComplete' /\ DisclosureOfResult'
    BY <1>11, <2>0 DEF PublicReady, HiddenOpenedOnce, FrozenIsComplete, DisclosureOfResult
  <2>3. CallInv'
    BY <1>11, <2>0 DEF PublicReady
  <2>. QED
    BY <2>1, <2>2, <2>3
<1>12. ASSUME NEW p \in Owners, SaveCard(p) PROVE IInv'
  <2>1. TypeOK'
    BY <1>12 DEF SaveCard, Stages, Copies, Steps
  <2>2. StageInv' /\ HiddenOpenedOnce' /\ FrozenIsComplete' /\ DisclosureOfResult'
    BY <1>12 DEF SaveCard, HiddenOpenedOnce, FrozenIsComplete, DisclosureOfResult
  <2>3. CallInv'
    BY <1>12 DEF SaveCard
  <2>. QED
    BY <2>1, <2>2, <2>3
<1>13. ASSUME NEW p \in Owners, Frozen(p) PROVE IInv'
  <2>0. stage' = "frozen"
    BY <1>13 DEF Frozen, Transition
  <2>1. TypeOK'
    BY <1>13, <2>0 DEF Frozen, Stages, Copies, Steps
  <2>2. StageInv' /\ HiddenOpenedOnce' /\ FrozenIsComplete' /\ DisclosureOfResult'
    BY <1>13, <2>0 DEF Frozen, HiddenOpenedOnce, FrozenIsComplete, DisclosureOfResult
  <2>3. CallInv'
    BY <1>13, <2>0 DEF Frozen
  <2>. QED
    BY <2>1, <2>2, <2>3
<1>14. ASSUME NEW p \in Owners, Evaluate(p) PROVE IInv'
  <2>1. TypeOK'
    BY <1>14 DEF Evaluate, Stages, Copies, Steps
  <2>2. StageInv' /\ HiddenOpenedOnce' /\ FrozenIsComplete' /\ DisclosureOfResult'
    BY <1>14 DEF Evaluate, HiddenOpenedOnce, FrozenIsComplete, DisclosureOfResult
  <2>3. CallInv'
    BY <1>14 DEF Evaluate
  <2>. QED
    BY <2>1, <2>2, <2>3
<1>15. ASSUME NEW p \in Owners, Start(p) PROVE IInv'
  <2>0. stage' = "private_started"
    BY <1>15 DEF Start, Transition
  <2>1. TypeOK'
    BY <1>15, <2>0 DEF Start, Stages, Copies, Steps
  <2>2. StageInv' /\ HiddenOpenedOnce' /\ FrozenIsComplete' /\ DisclosureOfResult'
    BY <1>15, <2>0 DEF Start, HiddenOpenedOnce, FrozenIsComplete, DisclosureOfResult
  <2>3. CallInv'
    BY <1>15, <2>0 DEF Start
  <2>. QED
    BY <2>1, <2>2, <2>3
<1>16. ASSUME NEW p \in Owners, OpenHidden(p) PROVE IInv'
  <2>1. CASE pc'[p] = "score"
    <3>0. /\ opened' = Append(opened, [candidate |-> arg[p], attempt |-> attempts])
          /\ pc[p] = "open" /\ pc' = [pc EXCEPT ![p] = "score"]
          /\ arg' = [arg EXCEPT ![p] = arg[p]]
          /\ UNCHANGED <<ledger, policy, copies, public_copy, card, results, outcomes,
                         disclosure, lock, interruptions>>
      BY <1>16, <2>1 DEF OpenHidden
    <3>1. TypeOK'
      BY <3>0 DEF Stages, Copies, Steps
    <3>2. StageInv' /\ HiddenOpenedOnce' /\ FrozenIsComplete' /\ DisclosureOfResult'
      BY <3>0 DEF HiddenOpenedOnce, FrozenIsComplete, DisclosureOfResult
    <3>3. CallInv'
      BY <3>0
    <3>. QED
      BY <3>1, <3>2, <3>3
  <2>2. CASE pc'[p] # "score"
    <3>1. PICK v \in {"failed", "cancelled"} : arg' = [arg EXCEPT ![p] = Score(v, FALSE)]
      BY <1>16, <2>2 DEF OpenHidden
    <3>2. Score(v, FALSE) \in Results /\ Score(v, FALSE).attempt = attempts
      BY <1>16, ScoreType DEF OpenHidden
    <3>3. pc[p] \in {"open", "score"} /\ Records(p, Score(v, FALSE))
      BY <1>16, <2>2, <3>1 DEF OpenHidden, Records
    <3>. QED
      BY <3>2, <3>3, RecordsInv
  <2>. QED
    BY <2>1, <2>2
<1>17. ASSUME NEW p \in Owners, Measure(p) PROVE IInv'
  <2>1. PICK v \in Terminal : arg' = [arg EXCEPT ![p] = Score(v, TRUE)]
    BY <1>17 DEF Measure
  <2>2. Score(v, TRUE) \in Results /\ Score(v, TRUE).attempt = attempts
    BY <1>17, ScoreType DEF Measure
  <2>3. pc[p] \in {"open", "score"} /\ Records(p, Score(v, TRUE))
    BY <1>17, <2>1 DEF Measure, Records
  <2>. QED
    BY <2>2, <2>3, RecordsInv
<1>18. ASSUME NEW p \in Owners, Resume(p) PROVE IInv'
  <2>0. stage = "private_started" /\ pc[p] = "idle" /\ lock = None
    BY <1>18 DEF Resume
  <2>1. CASE outcomes # {}
    <3>1. PICK r \in outcomes : Begin(p, "conclude", r)
      BY <1>18, <2>1 DEF Resume
    <3>2. TypeOK'
      BY <2>0, <3>1 DEF Stages, Copies, Steps
    <3>3. StageInv' /\ HiddenOpenedOnce' /\ FrozenIsComplete' /\ DisclosureOfResult'
      BY <3>1 DEF HiddenOpenedOnce, FrozenIsComplete, DisclosureOfResult
    <3>4. CallInv'
      BY <2>0, <3>1
    <3>. QED
      BY <3>2, <3>3, <3>4
  <2>2. CASE outcomes = {}
    <3>1. PICK r \in Results : r.attempt = attempts /\ Begin(p, "save_result", r)
      BY <1>18, <2>0, <2>2, ScoreType DEF Resume
    <3>2. TypeOK'
      BY <2>0, <3>1 DEF Stages, Copies, Steps
    <3>3. StageInv' /\ HiddenOpenedOnce' /\ FrozenIsComplete' /\ DisclosureOfResult'
      BY <3>1 DEF HiddenOpenedOnce, FrozenIsComplete, DisclosureOfResult
    <3>4. CallInv'
      BY <2>0, <2>2, <3>1
    <3>. QED
      BY <3>2, <3>3, <3>4
  <2>. QED
    BY <2>1, <2>2
<1>19. ASSUME NEW p \in Owners, SaveResult(p) PROVE IInv'
  <2>1. TypeOK'
    BY <1>19 DEF SaveResult, Stages, Copies, Steps
  <2>2. StageInv' /\ HiddenOpenedOnce' /\ FrozenIsComplete' /\ DisclosureOfResult'
    BY <1>19 DEF SaveResult, HiddenOpenedOnce, FrozenIsComplete, DisclosureOfResult
  <2>3. CallInv'
    BY <1>19 DEF SaveResult
  <2>. QED
    BY <2>1, <2>2, <2>3
<1>20. ASSUME NEW p \in Owners, SaveOutcome(p) PROVE IInv'
  <2>1. TypeOK'
    BY <1>20 DEF SaveOutcome, Stages, Copies, Steps
  <2>2. StageInv' /\ HiddenOpenedOnce' /\ FrozenIsComplete' /\ DisclosureOfResult'
    BY <1>20 DEF SaveOutcome, HiddenOpenedOnce, FrozenIsComplete, DisclosureOfResult
  <2>3. CallInv'
    BY <1>20 DEF SaveOutcome
  <2>. QED
    BY <2>1, <2>2, <2>3
<1>21. ASSUME NEW p \in Owners, Conclude(p) PROVE IInv'
  <2>0. /\ stage' \in Terminal
        /\ result' \in outcomes /\ result'.verdict = stage'
        /\ \A q \in Owners \ {p} : pc[q] \in Unlocked
    BY <1>21 DEF Conclude, Transition, Results
  <2>1. TypeOK'
    BY <1>21, <2>0 DEF Conclude, Stages, Copies, Steps
  <2>2. StageInv' /\ HiddenOpenedOnce' /\ FrozenIsComplete' /\ DisclosureOfResult'
    BY <1>21, <2>0 DEF Conclude, HiddenOpenedOnce, FrozenIsComplete, DisclosureOfResult
  <2>3. CallInv'
    BY <1>21, <2>0 DEF Conclude
  <2>. QED
    BY <2>1, <2>2, <2>3
<1>22. ASSUME NEW p \in Owners, Disclose(p) PROVE IInv'
  <2>1. TypeOK'
    BY <1>22 DEF Disclose, Stages, Copies, Steps
  <2>2. StageInv' /\ HiddenOpenedOnce' /\ FrozenIsComplete' /\ DisclosureOfResult'
    BY <1>22 DEF Disclose, HiddenOpenedOnce, FrozenIsComplete, DisclosureOfResult
  <2>3. CallInv'
    BY <1>22 DEF Disclose
  <2>. QED
    BY <2>1, <2>2, <2>3
<1>23. ASSUME NEW p \in Owners, Mark(p) PROVE IInv'
  <2>1. TypeOK'
    BY <1>23 DEF Mark, Stages, Copies, Steps
  <2>2. StageInv' /\ HiddenOpenedOnce' /\ FrozenIsComplete' /\ DisclosureOfResult'
    BY <1>23 DEF Mark, HiddenOpenedOnce, FrozenIsComplete, DisclosureOfResult
  <2>3. CallInv'
    BY <1>23 DEF Mark
  <2>. QED
    BY <2>1, <2>2, <2>3
<1>24. ASSUME NEW p \in Owners, Publish(p) PROVE IInv'
  <2>1. TypeOK'
    BY <1>24 DEF Publish, Stages, Copies, Steps
  <2>2. StageInv' /\ HiddenOpenedOnce' /\ FrozenIsComplete' /\ DisclosureOfResult'
    BY <1>24 DEF Publish, HiddenOpenedOnce, FrozenIsComplete, DisclosureOfResult
  <2>3. CallInv'
    BY <1>24 DEF Publish
  <2>. QED
    BY <2>1, <2>2, <2>3
<1>25. ASSUME NEW p \in Owners, Interrupt(p) PROVE IInv'
  <2>1. TypeOK'
    BY <1>25 DEF Interrupt, Stages, Copies, Steps
  <2>2. StageInv' /\ HiddenOpenedOnce' /\ FrozenIsComplete' /\ DisclosureOfResult'
    BY <1>25 DEF Interrupt, HiddenOpenedOnce, FrozenIsComplete, DisclosureOfResult
  <2>3. CallInv'
    BY <1>25 DEF Interrupt
  <2>. QED
    BY <2>1, <2>2, <2>3
<1>26. CASE UNCHANGED vars
  BY <1>26 DEF vars, HiddenOpenedOnce, FrozenIsComplete, DisclosureOfResult
<1>. QED
  BY <1>1, <1>2, <1>3, <1>4, <1>5, <1>6, <1>7, <1>8, <1>9,
     <1>10, <1>11, <1>12, <1>13, <1>14, <1>15, <1>16, <1>17, <1>18,
     <1>19, <1>20, <1>21, <1>22, <1>23, <1>24, <1>25, <1>26
     DEF Next, Step
-----------------------------------------------------------------------------

(* Every reachable state of the test is well typed, and at most one freeze *)
(* or evaluation is under way.                                             *)
THEOREM TypeCorrect == Spec => []TypeOK
<1>1. IInv => TypeOK
  BY DEF IInv
<1>. QED
  BY InvInit, InvNext, <1>1, PTL DEF Spec

(* No interruption and no resumption reads the hidden bytes twice. *)
THEOREM HiddenBytesReadOnce == Spec => []HiddenOpenedOnce
<1>1. IInv => HiddenOpenedOnce
  BY DEF IInv
<1>. QED
  BY InvInit, InvNext, <1>1, PTL DEF Spec

(* What is frozen was copied to the end. *)
THEOREM FrozenWasCopied == Spec => []FrozenIsComplete
<1>1. IInv => FrozenIsComplete
  BY DEF IInv
<1>. QED
  BY InvInit, InvNext, <1>1, PTL DEF Spec

(* disclose publishes the result the ledger names, after marking it. *)
THEOREM DisclosedIsResult == Spec => []DisclosureOfResult
<1>1. IInv => DisclosureOfResult
  BY DEF IInv
<1>. QED
  BY InvInit, InvNext, <1>1, PTL DEF Spec

(* A saved outcome is replaced by no step ... *)
LEMMA OutcomesGrow == IInv /\ [Next]_vars => outcomes \subseteq outcomes'
<1>. SUFFICES ASSUME IInv, [Next]_vars PROVE outcomes \subseteq outcomes'
  OBVIOUS
<1>1. ASSUME NEW p \in Owners, SaveOutcome(p) PROVE outcomes \subseteq outcomes'
  BY <1>1 DEF SaveOutcome, At, IInv, CallInv, TestInv, Testing, Recording
<1>2. CASE (\A p \in Owners : ~SaveOutcome(p)) /\ Next
  BY <1>2, ZenonT(60)
     DEF Next, Step, Begin, ledger, files, Initialize, SavePolicy, Create, OpenSearch,
         Freeze, CopyCandidate, FillCandidate, CopyPublic, FillPublic, Recheck,
         PublicReady, SaveCard, Frozen, Evaluate, Start, OpenHidden, Measure, Resume,
         SaveResult, Conclude, Disclose, Mark, Publish, Interrupt
<1>3. CASE UNCHANGED vars
  BY <1>3 DEF vars, files
<1>. QED
  BY <1>1, <1>2, <1>3

(* ... and the run ends with it. *)
THEOREM SavedOutcomeStands == Spec => OutcomeKept
<1>1. IInv => (stage \in Terminal => result \in outcomes /\ result.verdict = stage)
  BY DEF IInv, StageInv, Begun
<1>2. IInv /\ [Next]_vars => [outcomes \subseteq outcomes']_vars
  BY OutcomesGrow
<1>. QED
  BY InvInit, InvNext, <1>1, <1>2, PTL DEF Spec, OutcomeKept
=============================================================================
