------------------------------ MODULE Evaluation ------------------------------
(***************************************************************************)
(* The scoring pipeline of src/src/compression_lab/gates.py and            *)
(* screening.py, and the policy that accepts its result, policy.py.  A     *)
(* candidate is a pair of programs nobody trusts: here every run of one    *)
(* may give any output, or fail.  The pipeline runs the registered build,  *)
(* a checked build and freshly fitted builds over the public objects and   *)
(* the fixtures, compares what comes back, and concludes; the engine then  *)
(* commits the conclusion and the policy assesses it, perhaps when the     *)
(* candidate or the pinned runtime are no longer what they were.           *)
(*                                                                         *)
(* Abstracted: bytes are model values; a run of a program on many objects  *)
(* is one step; an error of any kind (a failed build or program, a limit,  *)
(* the deadline, cancellation) is Raise; clocks and costs are left out,    *)
(* whether the floor and the noise limit are met being chosen at the end.  *)
(***************************************************************************)
EXTENDS Integers, Sequences, FiniteSets, SequencesExt

CONSTANTS Objects,    \* the public objects
          HeldOut,    \* those of the development partition
          Fixtures,   \* unusual inputs
          Payloads,   \* what an encoder may write for an object
          Junk,       \* what a decoder may write instead of an object
          None,
          Cards,      \* policies: benchmark, staged, validationOnly, decoderPolicy
          Manifests,  \* declarations of candidates: schema, offline, fitted
          Trials,     \* timed runs of each phase (7)
          ScreenTrials, \* timed runs of a screen (3)
          MaxChanges  \* bound on changes of the candidate or the pins

Data == Objects \cup Fixtures
Depths == {"quick", "full", "screen"}
Ops == {"build", "encode", "decode", "reject", "sanitize", "prepare", "restore", "verify"}
Hows == {"stream", "directory", "repeat", "reordered", "single", "trial"}

(* dataset.validate: a card that sets a decoder policy scores a validation *)
(* split alone.                                                            *)
ValidCard(c) == HeldOut # {} /\ c.decoderPolicy => c.validationOnly

(* candidate.manifest: offline stages came with version 2, and must say    *)
(* what they were fitted to.                                               *)
ValidManifest(m) == m.offline => m.schema = 2 /\ m.fitted

EvaluationAssumption ==
  /\ HeldOut \subseteq Objects /\ Objects \cap Fixtures = {} /\ IsFiniteSet(Data)
  /\ Junk \notin Data
  /\ None \notin Payloads \cup [quality : BOOLEAN, eligible : BOOLEAN, screened : BOOLEAN]
  /\ Cards \subseteq [benchmark : BOOLEAN, staged : BOOLEAN, validationOnly : BOOLEAN,
                      decoderPolicy : BOOLEAN]
  /\ Manifests \subseteq [schema : {1, 2}, offline : BOOLEAN, fitted : BOOLEAN]
  /\ (\A c \in Cards : ValidCard(c)) /\ \A m \in Manifests : ValidManifest(m)
  /\ Trials \in Nat \ {0} /\ ScreenTrials \in Nat /\ MaxChanges \in Nat

VARIABLES
  card, manifest,
  job,      \* depth, mode and whether the primary resource profile runs it
  rows,     \* the objects the job runs on
  at,       \* steps done, the gates passed so far
  archive,  \* the archive each object was first given
  runtime, decoder, \* what the next encode and decode will run
  diagnosing, \* self.sanitizer
  observed, \* what every run of a program was given and gave
  raw,      \* the conclusion
  assessed, \* the policy's opinion of it
  intact,   \* the registered candidate is as it was registered
  pinned,   \* the runtime and profile are those the job was reserved under
  changes

vars == <<card, manifest, job, rows, at, archive, runtime, decoder, diagnosing, observed,
          raw, assessed, intact, pinned, changes>>
pipeline == <<archive, runtime, decoder, diagnosing>>
outcome  == <<raw, assessed>>
setting  == <<card, manifest, job, rows>>
world    == <<intact, pinned, changes>>

-----------------------------------------------------------------------------
(* The steps of a run, in order. *)

Step(op, on, how) == [op |-> op, on |-> on, how |-> how]
Exact(S)  == <<Step("encode", S, "stream"), Step("decode", S, "stream")>>
Parity(S) == <<Step("encode", S, "directory"), Step("decode", S, "directory")>>
Alone(S)  == FlattenSeq([i \in 1..Cardinality(S) |->
               LET o == SetToSeq(S)[i]
               IN <<Step("encode", {o}, "single"), Step("decode", {o}, "single")>>])
Times(n, steps) == FlattenSeq([i \in 1..n |-> steps])

Offline == card.staged /\ manifest.offline
Prepare == IF Offline THEN <<Step("prepare", Objects \ HeldOut, "trial")>> ELSE <<>>

(* What the seven trials run on. *)
Timed == IF card.validationOnly THEN rows \cap HeldOut ELSE rows

Correctness == Exact(rows) \o Parity(rows) \o Exact(Fixtures) \o Parity(Fixtures)
               \o <<Step("encode", rows, "repeat"), Step("encode", rows, "reordered")>>
               \o Alone(rows)
Rejections  == <<Step("reject", rows, "stream"), Step("reject", Fixtures, "stream"),
                 Step("reject", rows, "directory")>>
Diagnostics == <<Step("sanitize", {}, "stream")>> \o Prepare \o Exact(Fixtures)
               \o Parity(Fixtures) \o <<Step("reject", Fixtures, "stream"),
                                        Step("restore", {}, "stream")>>
Timing(n)   == Times(n, Prepare \o <<Step("encode", Timed, "trial")>>)
               \o Times(n, <<Step("decode", Timed, "trial")>>)

Program ==
  CASE job.depth = "full"   -> <<Step("build", {}, "stream")>> \o Correctness \o Rejections
                               \o Diagnostics \o Timing(Trials) \o <<Step("verify", {}, "stream")>>
    [] job.depth = "quick"  -> Correctness \o <<Step("verify", {}, "stream")>>
    [] job.depth = "screen" -> Exact(rows) \o Exact(Fixtures)
                               \o Times(ScreenTrials, <<Step("encode", rows, "trial")>>)
                               \o Times(ScreenTrials, <<Step("decode", rows, "trial")>>)

Running == raw = None
Now     == Program[at + 1]
Doing(op) == Running /\ at < Len(Program) /\ Now.op = op

RegisteredDecoder == IF manifest.schema = 2 THEN "decoder" ELSE "runtime"
SanitizedDecoder  == IF manifest.schema = 2 THEN "sanitized decoder" ELSE "sanitized"

(* select_rows: whole objects of the fitting partition, within the caps.   *)
Screened(S) == S # {} /\ S \subseteq Objects \ HeldOut

(* The rows of a job: all of them; the first two; or what screening takes. *)
RowsOf(depth, S) ==
  CASE depth = "full"   -> S = Objects
    [] depth = "quick"  -> S \subseteq Objects /\ Cardinality(S) = IF Cardinality(Objects) < 2
                                                                   THEN Cardinality(Objects) ELSE 2
    [] depth = "screen" -> Screened(S)

Init ==
  /\ card \in Cards /\ manifest \in Manifests
  /\ job \in [depth : Depths, mode : {"required", "exploratory"}, primary : BOOLEAN]
  /\ rows \in SUBSET Objects /\ RowsOf(job.depth, rows)
  /\ at = 0
  /\ archive = [o \in Data |-> None]
  /\ runtime = "runtime" /\ decoder = RegisteredDecoder /\ diagnosing = FALSE
  /\ observed = {}
  /\ raw = None /\ assessed = None
  /\ intact = TRUE /\ pinned = TRUE /\ changes = 0

-----------------------------------------------------------------------------
(* How a run ends. *)

(* The except clause: whatever was raised, nothing was proved. *)
Failed == [quality |-> FALSE, eligible |-> FALSE, screened |-> FALSE]

Raised == raw' = Failed /\ at' = at /\ UNCHANGED <<pipeline, assessed, setting, world>>

Advance == at' = at + 1 /\ UNCHANGED <<outcome, setting, world>>

(* A program, a build, a limit, the deadline, the owner: at any time. *)
Raise == Running /\ Raised /\ UNCHANGED observed

(* Declarations run refuses at once. *)
Undeclared ==
  /\ job.depth # "screen"
  /\ \/ manifest.offline /\ ~card.staged
     \/ card.staged /\ manifest.fitted /\ ~manifest.offline

Refuse == Running /\ at = 0 /\ Undeclared /\ Raised /\ UNCHANGED observed

(* A policy for decoders needs them staged apart; checked when costs are   *)
(* taken, after the comparisons and before the rejections.                 *)
Unranked == job.depth # "screen" /\ card.decoderPolicy /\ manifest.schema # 2
            /\ at = Len(Correctness) + IF job.depth = "full" THEN 1 ELSE 0

RefuseInventory == Running /\ Unranked /\ Raised /\ UNCHANGED observed

May(op) == Doing(op) /\ ~(at = 0 /\ Undeclared) /\ ~Unranked

-----------------------------------------------------------------------------
(* Running the candidate. *)

Seen(what, how, which, outs) ==
  observed' = observed \cup {[what |-> what, how |-> how, which |-> which, on |-> o,
                              gave |-> outs[o], diagnosing |-> diagnosing] : o \in DOMAIN outs}

(* A rebuild whose files or dependencies differ raises. *)
Rebuild == May("build") /\ Advance /\ UNCHANGED <<pipeline, observed>>

(* Mutant: reordered archives are made, and not looked at. *)
SameUnlessReordered(s, outs) == s.how = "reordered" \/ \A o \in s.on : outs[o] = archive[o]

(* again, perm, one, parity and the trials compare with the first archive. *)
SameAsFirst(s, outs) == \A o \in s.on : outs[o] = archive[o]

(* exact's encode_stream gives the archive; every other one must match it. *)
Encode(outs) ==
  /\ May("encode") /\ Now.on # {}
  /\ Seen("encode", Now.how, runtime, outs)
  /\ CASE Now.how = "stream"    -> Advance /\ archive' = [o \in Data |-> IF o \in Now.on THEN outs[o]
                                                                         ELSE archive[o]]
                                   /\ runtime' = runtime
       [] Now.how # "stream" /\ SameAsFirst(Now, outs) -> Advance /\ archive' = archive
                                   /\ runtime' = IF diagnosing THEN runtime ELSE "runtime"
       [] OTHER                 -> Raised
  /\ UNCHANGED <<decoder, diagnosing>>

(* decode_stream or decode_dir: the objects, or nothing is proved. *)
Decode(outs) ==
  /\ May("decode") /\ Now.on # {}
  /\ Seen("decode", Now.how, decoder, outs)
  /\ IF \A o \in Now.on : outs[o] = o
     THEN Advance /\ UNCHANGED pipeline
     ELSE Raised

(* A damaged archive must be refused, and with no output at all.           *)
Rejected(accepted) == accepted = "refused"

Reject(accepted) ==
  /\ May("reject")
  /\ Seen("reject", Now.how, decoder, [o \in Now.on |-> accepted])
  /\ IF Rejected(accepted) THEN Advance /\ UNCHANGED pipeline ELSE Raised

-----------------------------------------------------------------------------
(* Other builds. *)

Sanitize ==
  /\ May("sanitize")
  /\ runtime' = "sanitized" /\ decoder' = SanitizedDecoder /\ diagnosing' = TRUE
  /\ Advance
  /\ UNCHANGED <<archive, observed>>

(* Mutant: the decoder is not put back. *)
RestoreEncoder ==
  /\ May("restore")
  /\ runtime' = "runtime" /\ diagnosing' = FALSE
  /\ Advance
  /\ UNCHANGED <<archive, decoder, observed>>

Restore ==
  /\ May("restore")
  /\ runtime' = "runtime" /\ decoder' = RegisteredDecoder /\ diagnosing' = FALSE
  /\ Advance
  /\ UNCHANGED <<archive, observed>>

(* prepare_offline: the fitter runs over the fitting objects; only when    *)
(* what it makes is what was registered does a trial run on it.  No        *)
(* fitting data, or a different artifact or build, raises.                 *)
PrepareOffline ==
  /\ May("prepare")
  /\ Now.on # {}
  /\ Seen("prepare", Now.how, runtime, [o \in Now.on |-> o])
  /\ runtime' = IF diagnosing THEN runtime ELSE "prepared"
  /\ Advance
  /\ UNCHANGED <<archive, decoder, diagnosing>>

(* candidate.verify: the registered files must still be the registered.    *)
Verify ==
  /\ May("verify")
  /\ IF intact THEN Advance /\ UNCHANGED pipeline ELSE Raised
  /\ UNCHANGED observed

-----------------------------------------------------------------------------
(* The conclusion, and what becomes of it. *)

(* What the machine and the clock said: the enclosing limits, the encoding *)
(* floor and the noise of the trials.                                      *)
Readings == [limits : BOOLEAN, floor : BOOLEAN, quiet : BOOLEAN]

Reasons(reading) ==
  {r \in {"quick_not_promotable", "effective_cgroup_limits_unavailable",
          "reference_profile_not_promotable", "encoding_below_100_MBps",
          "timing_noisy_logged_rerun_required", "smoke_not_certified", "unsandboxed_exploratory"} :
     CASE r = "quick_not_promotable"                -> job.depth # "full"
       [] r = "effective_cgroup_limits_unavailable" -> job.depth = "full" /\ ~reading.limits
       [] r = "reference_profile_not_promotable"    -> job.depth = "full" /\ ~job.primary
       [] r = "encoding_below_100_MBps"             -> job.depth = "full" /\ job.primary
                                                       /\ ~reading.floor
       [] r = "timing_noisy_logged_rerun_required"  -> job.depth = "full" /\ ~reading.quiet
       [] r = "smoke_not_certified"                 -> ~card.benchmark
       [] r = "unsandboxed_exploratory"             -> job.mode # "required"}

(* The end of run.  The worker replaces the conclusion when the machine is *)
(* no longer the pinned one; a screen never promotes.                      *)
Conclude(reading) ==
  /\ Running /\ at = Len(Program)
  /\ raw' = CASE ~pinned               -> Failed
              [] job.depth = "screen"  -> [Failed EXCEPT !.screened = TRUE]
              [] OTHER                 -> [Failed EXCEPT !.quality = TRUE,
                                                         !.eligible = Reasons(reading) = {}]
  /\ UNCHANGED <<at, pipeline, observed, assessed, setting, world>>

(* _reasons: a full evaluation on the workspace's profile, its quality     *)
(* passed and itself eligible.                                             *)
Qualifies == raw.quality /\ raw.eligible /\ job.depth = "full" /\ job.primary

(* assess raises unless the candidate still verifies. *)
Assess ==
  /\ raw # None
  /\ assessed' = IF intact THEN [qualified |-> Qualifies] ELSE None
  /\ UNCHANGED <<at, pipeline, observed, raw, setting, world>>

(* The candidate's files change, or the machine is not the pinned one. *)
Change ==
  /\ changes < MaxChanges
  /\ changes' = changes + 1
  /\ \/ intact' = FALSE /\ pinned' = pinned
     \/ pinned' = FALSE /\ intact' = intact
  /\ UNCHANGED <<at, pipeline, observed, outcome, setting>>

Next ==
  \/ Raise \/ Refuse \/ RefuseInventory
  \/ Rebuild \/ Sanitize \/ Restore \/ PrepareOffline \/ Verify
  \/ Doing("encode") /\ \E outs \in [Now.on -> Payloads] : Encode(outs)
  \/ Doing("decode") /\ \E outs \in [Now.on -> Now.on \cup {Junk}] : Decode(outs)
  \/ \E accepted \in {"refused", "success", "partial"} : Reject(accepted)
  \/ \E reading \in Readings : Conclude(reading)
  \/ Assess \/ Change

Spec == Init /\ [][Next]_vars

-----------------------------------------------------------------------------
(* The type invariant. *)
TypeOK ==
  /\ card \in Cards /\ manifest \in Manifests /\ rows \subseteq Objects
  /\ job \in [depth : Depths, mode : {"required", "exploratory"}, primary : BOOLEAN]
  /\ at \in 0..Len(Program)
  /\ archive \in [Data -> Payloads \cup {None}]
  /\ runtime \in {"runtime", "sanitized", "prepared"}
  /\ decoder \in {"runtime", "decoder", "sanitized", "sanitized decoder"}
  /\ diagnosing \in BOOLEAN /\ intact \in BOOLEAN /\ pinned \in BOOLEAN
  /\ raw \in {None} \cup [quality : BOOLEAN, eligible : BOOLEAN, screened : BOOLEAN]
  /\ assessed \in {None} \cup [qualified : BOOLEAN]
  /\ changes \in 0..MaxChanges

Ran(what, how, o) == \E e \in observed : e.what = what /\ e.how = how /\ e.on = o

(* A result whose quality passed rests on programs that agreed with        *)
(* themselves everywhere they were tried: each object has one archive,     *)
(* alone, in any order, in a directory, repeated and timed; every archive  *)
(* gave its object back; no damaged archive gave anything; and every object *)
(* was tried in each of these ways (run, exact, parity, timed, corruption). *)
PassedIsConsistent ==
  (raw # None /\ raw.quality) =>
    /\ \A e \in observed :
         CASE e.what = "encode"  -> \A f \in observed :
                                     (f.what = "encode" /\ f.on = e.on
                                       /\ f.diagnosing = e.diagnosing) => f.gave = e.gave
           [] e.what = "decode"  -> e.gave = e.on
           [] e.what = "reject"  -> e.gave = "refused"
           [] e.what = "prepare" -> TRUE
    /\ \A o \in rows :
         /\ \A how \in Hows \ {"trial"} : Ran("encode", how, o)
         /\ \A how \in {"stream", "directory", "single"} : Ran("decode", how, o)
         /\ job.depth = "full" =>
              /\ Ran("reject", "stream", o) /\ Ran("reject", "directory", o)
              /\ o \in Timed => Ran("encode", "trial", o) /\ Ran("decode", "trial", o)

(* What is measured and compared is what was registered: outside the       *)
(* diagnostics every encode runs the registered build, or for a timed run  *)
(* of a fitted candidate a freshly fitted one, and every decode the        *)
(* registered decoder; inside them nothing but the checked build runs      *)
(* (invoke's choice of runtime, and the pointers run and timed move).      *)
RunsWhatIsRegistered ==
  \A e \in observed :
    e.which = CASE e.what = "prepare" -> IF e.diagnosing THEN "sanitized" ELSE "runtime"
                [] e.what = "encode"  -> IF e.diagnosing THEN "sanitized"
                                         ELSE IF e.how = "trial" /\ Offline /\ job.depth = "full"
                                         THEN "prepared" ELSE "runtime"
                [] OTHER              -> IF e.diagnosing THEN SanitizedDecoder
                                         ELSE RegisteredDecoder

(* Nothing of the development partition reaches a fitter or a screen, so   *)
(* what is scored on it was not fitted to it (select_rows and              *)
(* prepare_offline both take the fitting partition only).                  *)
HeldOutUnseen ==
  \A e \in observed : (e.what = "prepare" \/ job.depth = "screen") => e.on \notin HeldOut

(* What the policy qualifies was certified: measured in full, sandboxed, on *)
(* the primary profile, under a benchmark card, with programs that agreed  *)
(* in the trials and refused what was damaged (PublicPolicy._reasons on    *)
(* what run concluded).                                                    *)
QualifiedIsCertified ==
  (assessed # None /\ assessed.qualified) =>
    /\ job.depth = "full" /\ job.mode = "required" /\ job.primary /\ card.benchmark
    /\ \A o \in Timed : Ran("decode", "trial", o)
    /\ \A e \in observed : e.what = "decode" => e.gave = e.on
    /\ card.decoderPolicy => \A e \in observed : e.what = "decode" => e.which # "runtime"
=============================================================================
