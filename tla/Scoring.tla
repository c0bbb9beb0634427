-------------------------------- MODULE Scoring --------------------------------
(***************************************************************************)
(* What scores a candidate: workloads/bridge.py verifies the registered    *)
(* candidate, holds its kind against the immutable card, and hands it to   *)
(* the pipeline of a codec (module Evaluation) or to the cases of a        *)
(* mutable store (module MutableEvaluation).  A screen is for codecs only. *)
(***************************************************************************)
EXTENDS Integers, Sequences, FiniteSets

CONSTANTS Objects, HeldOut, Fixtures, Payloads, Junk, None, Cards, Manifests,
          Trials, ScreenTrials, MaxChanges, \* see Evaluation
          Flaws, Inserts, Merges, Metrics   \* see MutableEvaluation

VARIABLES
  workload, \* what card and candidate agree on
  card, manifest, job, rows, at, archive, runtime, decoder, diagnosing, observed,
  raw, assessed, intact, pinned, changes,   \* of Evaluation
  depth, native, flaw, n, step, phase, reply, held, ledger, oracle, store,
  wronged, troubled, verdict                \* of MutableEvaluation

Codec == INSTANCE Evaluation
Store == INSTANCE MutableEvaluation WITH at <- step, raw <- verdict

codecVars == <<card, manifest, job, rows, at, archive, runtime, decoder, diagnosing, observed,
               raw, assessed, intact, pinned, changes>>
storeVars == <<depth, native, flaw, n, step, phase, reply, held, ledger, oracle, store,
               wronged, troubled, verdict>>
scoringVars == <<workload, codecVars, storeVars>>

ASSUME ScoringAssumption == Codec!EvaluationAssumption /\ Store!MutableAssumption

-----------------------------------------------------------------------------
(* select_workload: the candidate's kind is the card's, or nothing starts; *)
(* the variables of the evaluation the card does not ask for stay None.    *)

NoCodec ==
  /\ card = None /\ manifest = None /\ job = None /\ rows = None /\ at = None
  /\ archive = None /\ runtime = None /\ decoder = None /\ diagnosing = None
  /\ observed = None /\ raw = None /\ assessed = None /\ intact = None
  /\ pinned = None /\ changes = None

NoStore ==
  /\ depth = None /\ native = None /\ flaw = None /\ n = None /\ step = None
  /\ phase = None /\ reply = None /\ held = None /\ ledger = None /\ oracle = None
  /\ store = None /\ wronged = None /\ troubled = None /\ verdict = None

ScoringInit == \/ workload = "codec" /\ Codec!Init /\ NoStore
               \/ workload = "mutable_store" /\ Store!Init /\ NoCodec

(* evaluate *)
ScoringNext == \/ workload = "codec" /\ Codec!Next /\ UNCHANGED <<workload, storeVars>>
               \/ workload = "mutable_store" /\ Store!Next /\ UNCHANGED <<workload, codecVars>>

ScoringSpec == ScoringInit /\ [][ScoringNext]_scoringVars

-----------------------------------------------------------------------------
(* What ran is what was registered, and nothing held out was shown to what *)
(* is fitted or screened (RunsWhatIsRegistered, HeldOutUnseen).            *)
CodecAsRegistered == workload = "codec" => Codec!RunsWhatIsRegistered /\ Codec!HeldOutUnseen

(* The verdict on a codec: one whose quality passed agreed with itself in  *)
(* every way it was tried, and was tried in every way; one that qualifies  *)
(* was measured in full under the conditions of a benchmark card           *)
(* (PassedIsConsistent, QualifiedIsCertified).                             *)
CodecVerdictRight ==
  workload = "codec" => Codec!PassedIsConsistent /\ Codec!QualifiedIsCertified

(* The verdict on a store is right both ways: no case passes a store that  *)
(* broke its contract in it, and no store is failed that kept it, whatever *)
(* it did with what was in flight when it was killed (BreachNeverPasses,   *)
(* KeepersPass).                                                           *)
StoreVerdictRight == workload = "mutable_store" => Store!BreachNeverPasses /\ Store!KeepersPass

(* The request ledger explains the store after any crash of either side    *)
(* (LedgerExplainsStore).                                                  *)
LedgerExplainsStore == workload = "mutable_store" => Store!LedgerExplainsStore
=============================================================================
