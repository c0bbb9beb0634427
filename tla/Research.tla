------------------------------- MODULE Research -------------------------------
(***************************************************************************)
(* The tools of a researcher that keep records: the registration and       *)
(* evaluation of candidates (module Registration) and the memory of what   *)
(* was learned from their results (module Refinement).  The memory has a   *)
(* ledger and a lock of its own and only reads what the engine commits, so *)
(* each is examined beside any behaviour of the other that it can see, and *)
(* `tool' says which.                                                      *)
(***************************************************************************)
EXTENDS Integers, Sequences, FiniteSets

CONSTANTS Procs, Public, None, MaxCrashes,
          Hypotheses, Codes, Recipe, Builds, MaxEvaluations, MaxOperations, MaxEdits,
          MaxDamages, MaxResults, MaxDisturbances,      \* see Registration
          Readers, Lessons, Results, Candidates, Contexts, Measured, Proposals,
          MaxLessons, MaxVersions, MaxSpoils, MaxDrifts \* see Refinement

VARIABLES
  tool, \* the tool that is used
  workload, active, history, evaluations, registrations, job, results, workbench, hypotheses,
  dirs, cache, holder, pc, draft, dead, charges, overlooked, operations, edits, damages,
  crashes,                                                       \* of Registration
  versions, context, committed, spoiled, memoryHolder, memoryPc, memoryDraft, drifts,
  memoryCrashes                                                  \* of Refinement

Registry == INSTANCE Registration
Memory   == INSTANCE Refinement WITH
              Procs <- Readers, history <- versions, holder <- memoryHolder, pc <- memoryPc,
              draft <- memoryDraft, crashes <- memoryCrashes

registryVars == <<workload, active, history, evaluations, registrations, job, results,
                  workbench, hypotheses, dirs, cache, holder, pc, draft, dead, charges,
                  overlooked, operations, edits, damages, crashes>>
memoryVars   == <<versions, context, committed, spoiled, memoryHolder, memoryPc, memoryDraft,
                  drifts, memoryCrashes>>
vars == <<tool, registryVars, memoryVars>>

ASSUME ResearchAssumption == Registry!RegistrationAssumption /\ Memory!RefinementAssumption

-----------------------------------------------------------------------------
NoRegistry ==
  /\ workload = None /\ active = None /\ history = None /\ evaluations = None
  /\ registrations = None /\ job = None /\ results = None /\ workbench = None
  /\ hypotheses = None /\ dirs = None /\ cache = None /\ holder = None /\ pc = None
  /\ draft = None /\ dead = None /\ charges = None /\ overlooked = None
  /\ operations = None /\ edits = None /\ damages = None /\ crashes = None

NoMemory ==
  /\ versions = None /\ context = None /\ committed = None /\ spoiled = None
  /\ memoryHolder = None /\ memoryPc = None /\ memoryDraft = None /\ drifts = None
  /\ memoryCrashes = None

Init == \/ tool = "registry" /\ Registry!Init /\ NoMemory
        \/ tool = "memory" /\ Memory!Init /\ NoRegistry

Next == \/ tool = "registry" /\ Registry!Next /\ UNCHANGED <<tool, memoryVars>>
        \/ tool = "memory" /\ Memory!Next /\ UNCHANGED <<tool, registryVars>>

Spec == Init /\ [][Next]_vars

-----------------------------------------------------------------------------
(* A registered candidate was built from one snapshot, whatever was edited *)
(* meanwhile (candidate.register, registry.register, verify_hypothesis).   *)
RegisteredIsSound == tool = "registry" => Registry!RegisteredIsSound

(* Every operation is charged once, whoever dies (registration_attempt,    *)
(* recover_operation).                                                     *)
ChargedOnce == tool = "registry" => Registry!ChargedOnce

(* What the owner does with hidden baselines changes nothing that the      *)
(* researcher is shown (ResearcherEngine.state).                           *)
BaselinesStayHidden ==
  [][tool = "registry" /\ Registry!OwnerStep => Registry!View' = Registry!View]_vars

(* Support for a lesson is repeated, and never twice from the same results *)
(* (RefinementStore.check).                                                *)
SupportIsRepeated == tool = "memory" => Memory!SupportIsRepeated

(* What a call of the memory holds is still so when it writes or answers   *)
(* (RefinementStore._locked, _collect).                                    *)
HeldIsCurrent == tool = "memory" => Memory!HeldIsCurrent
=============================================================================
