--------------------------- MODULE MutableEvaluation ---------------------------
(***************************************************************************)
(* How a mutable store is judged: Evaluation of workloads/mutable.py runs  *)
(* the cases of mutable_cases.py; each drives one store process at a time  *)
(* through a Session (session.py, protocol.py), writes every request and   *)
(* reply to a RequestLedger, and holds the replies against a ReferenceState *)
(* (oracle.py).  The store is the candidate's and external: it either      *)
(* keeps the contract (module DurableStore), with the freedom the contract *)
(* leaves to crashes and I/O errors, or has one flaw.  The evaluator's     *)
(* process can die anywhere.                                               *)
(*                                                                         *)
(* Abstracted: a bundle is its payload's index; a canonical export, and    *)
(* every query, is the sequence of bundles committed; the contents of a    *)
(* reply that the schema alone decides, latencies, space and memory are    *)
(* left out, and so is which of a case's objects is judged; whatever a     *)
(* limit, a monitor, a malformed reply or the deadline does is Trouble.    *)
(***************************************************************************)
EXTENDS Integers, Sequences, FiniteSets, FiniteSetsExt, SequencesExt

CONSTANTS Flaws,    \* the ways a store may break the contract
          Inserts,  \* transactions of a measurement
          Merges,   \* merges of a measurement
          Metrics   \* measurements (metric_trials, per sequence)

Foreign == 0  \* a bundle nobody inserted
NoBundle == -1 \* no bundle
Tokens == 1..(IF Inserts > 4 THEN Inserts ELSE 4)
AllFlaws == {"loses", "swaps", "forgets", "regresses", "accepts", "applies", "stays"}

MutableAssumption ==
  /\ Flaws \subseteq AllFlaws
  /\ Inserts \in Nat \ {0} /\ Merges \in 1..Inserts
  /\ Metrics \in Nat

VARIABLES
  depth, native, \* what is asked for, and whether the candidate is compiled
  flaw,
  n, at,     \* the case, and the step in it
  phase,     \* ready, asked (the request is in the ledger), answered
  reply, held, \* the reply at hand, and the one put aside
  ledger,    \* the case's RequestLedger
  oracle,    \* its ReferenceState
  store,     \* the candidate's state
  wronged,   \* the store has broken the contract in some case
  troubled,  \* something else has gone wrong
  raw

vars == <<depth, native, flaw, n, at, phase, reply, held, ledger, oracle, store,
          wronged, troubled, raw>>
setting == <<depth, native, flaw>>

-----------------------------------------------------------------------------
(* Cases and their steps, in order. *)

Step(op, tok)  == [op |-> op, tok |-> tok, flag |-> FALSE]
Flagged(op, tok) == [op |-> op, tok |-> tok, flag |-> TRUE]

Verify  == <<Step("export", NoBundle), Step("stats", NoBundle), Step("query", NoBundle)>>
Hello   == <<Step("hello", NoBundle)>>
Build   == Hello \o <<Step("build", NoBundle)>>
Open    == Hello \o <<Step("open", NoBundle)>>
Arm     == <<Step("fault", NoBundle)>> \* the store is told where to pause or to fail
Stop    == <<Step("close", NoBundle)>>
Kill    == <<Step("kill", NoBundle)>>
Reopen  == Stop \o Open
Tx(t)   == <<Step("transaction", t)>>
Resolve(t) == <<Flagged("transaction", t)>> \* resolving an unacknowledged one
Merge(op) == <<Step(op, NoBundle)>>

Basic == Build \o Verify \o Tx(1) \o Tx(2) \o Tx(1)
         \o <<Step("reject", 1), Step("reject", NoBundle)>>
         \o Verify \o Merge("checkpoint") \o Reopen \o Verify \o Stop

MergeReopenInsert == Build \o Tx(1) \o Merge("merge") \o Reopen \o Tx(2) \o Reopen \o Verify
                     \o Tx(1) \o Verify \o Stop

(* start(pending=1) when a transaction was in flight. *)
AfterKill(point) == IF point = "wal" THEN Hello \o <<Flagged("open", NoBundle)>> ELSE Open

Killed(point) ==
  Build \o Tx(1)
  \o (CASE point = "idle"  -> Kill
        [] point = "merge" -> Arm \o <<Step("kill_merge", NoBundle)>>
        [] point = "wal"   -> Arm \o <<Step("kill_transaction", 2)>>)
  \o AfterKill(point)
  \o (IF point = "wal" THEN Resolve(2) ELSE <<>>)
  \o Verify \o Tx(3) \o Merge("merge") \o Reopen \o Verify \o Tx(1) \o Tx(3) \o Verify \o Stop

WalFailure == Build \o Tx(1) \o Arm
  \o <<Step("fail_transaction", 2), Step("continue", 3), Step("adopt_first", 2), Step("adopt", 3)>>
  \o Kill \o Hello \o <<Flagged("open", 2)>> \o Resolve(2)
  \o Verify \o Tx(4) \o Merge("merge") \o Reopen \o Verify \o Stop

MergeFailure == Build \o Tx(1) \o Arm
  \o <<Step("fail_merge", NoBundle), Step("continue", 2), Step("adopt", 2)>>
  \o Kill \o Open \o Verify \o Tx(2) \o Tx(3) \o Merge("merge") \o Reopen \o Verify \o Stop

(* The merges are spread evenly over the transactions. *)
Measurement ==
  LET positions == {(i * Inserts + Merges - 1) \div Merges : i \in 1..Merges}
  IN Build
     \o FlattenSeq([i \in 1..Inserts |-> Tx(i) \o <<Step("query", NoBundle)>>
                      \o (IF i \in positions THEN Merge("merge") ELSE <<>>)])
     \o <<Step("export", NoBundle), Step("stats", NoBundle)>> \o Reopen
     \o <<Step("query", NoBundle), Step("export", NoBundle)>> \o Stop

SCENARIOS ==
  <<"basic", "merge_reopen_insert", "kill_idle",
    "kill_merge_before_manifest", "kill_merge_after_manifest",
    "kill_wal_short_write", "kill_wal_after_fsync", "io_wal_short_write", "io_wal_fsync",
    "io_manifest_rename", "io_merge_snapshot_fsync", "io_directory_fsync">>

(* run: the points of one scenario differ in where the store stops, which  *)
(* for a store that is free to have done it or not is one case.            *)
Steps(scenario) ==
  CASE scenario = "basic"               -> Basic
    [] scenario = "merge_reopen_insert" -> MergeReopenInsert
    [] scenario = "measurement"         -> Measurement
    [] scenario = "kill_idle"           -> Killed("idle")
    [] scenario \in {"kill_merge_before_manifest", "kill_merge_after_manifest"} -> Killed("merge")
    [] scenario \in {"kill_wal_short_write", "kill_wal_after_fsync"} -> Killed("wal")
    [] scenario \in {"io_wal_short_write", "io_wal_fsync"} -> WalFailure
    [] scenario \in {"io_manifest_rename", "io_merge_snapshot_fsync", "io_directory_fsync"}
         -> MergeFailure

Diagnosed == <<"basic", "merge_reopen_insert", "io_wal_short_write">>

Cases ==
  IF depth = "quick" THEN <<"basic">>
  ELSE SCENARIOS \o (IF native THEN Diagnosed ELSE <<>>)
       \o [i \in 1..Metrics |-> "measurement"]

Running == raw.status = "running" /\ n <= Len(Cases)
Now     == Steps(Cases[n])[at]
Over    == at > Len(Steps(Cases[n]))

-----------------------------------------------------------------------------
(* The store. *)

NewStore  == [content |-> <<>>, gen |-> 0, ckpt |-> 0, mode |-> "down"]
NewOracle == [accepted |-> <<>>, gen |-> 0, ckpt |-> 0]
NoReply   == [ok |-> FALSE, head |-> 0, gen |-> 0, ckpt |-> 0, txid |-> 0,
              replayed |-> FALSE, content |-> <<>>]

Has(s, t)   == \E i \in 1..Len(s) : s[i] = t
Place(s, t) == CHOOSE i \in 1..Len(s) : s[i] = t
Acknowledged(t) == Has(oracle.accepted, t)

Says(s, tok, replayed) ==
  [ok |-> TRUE, head |-> Len(s.content), gen |-> s.gen, ckpt |-> s.ckpt,
   txid |-> IF tok \in Tokens /\ Has(s.content, tok) THEN Place(s.content, tok) ELSE 0,
   replayed |-> replayed, content |-> s.content]

With(s, t) == [s EXCEPT !.content = Append(@, t)]
Merged(s)  == [s EXCEPT !.gen = @ + 1, !.ckpt = Len(s.content)]
Shorter(s) == [s EXCEPT !.content = SubSeq(@, 1, Len(@) - 1),
                        !.ckpt = IF @ < Len(s.content) THEN @ ELSE Len(s.content) - 1]

(* What the store may do with a request: its next state, its reply, and    *)
(* whether that broke the contract.                                        *)
Act(s, r, w) == [store |-> s, reply |-> r, wrong |-> w]
Done(s, tok) == Act(s, Says(s, tok, FALSE), FALSE)

Opened == [store EXCEPT !.mode = "up"]
Kept   == IF Len(store.content) = 0 THEN NoBundle ELSE store.content[Len(store.content)]

Openings ==
  {Done(Opened, NoBundle)}
  \cup (IF flaw = "loses" /\ Kept # NoBundle
        THEN {[Done(Shorter(Opened), NoBundle) EXCEPT !.wrong = Acknowledged(Kept)]} ELSE {})
  \cup (IF flaw = "swaps" /\ Kept # NoBundle /\ Acknowledged(Kept)
        THEN {[Done(With(Shorter(Opened), Foreign), NoBundle) EXCEPT !.wrong = TRUE]} ELSE {})
  \cup (IF flaw = "regresses" /\ store.gen > 0 /\ oracle.gen = store.gen
        THEN {[Done([Opened EXCEPT !.gen = @ - 1], NoBundle) EXCEPT !.wrong = TRUE]} ELSE {})

Refusal == Act(store, NoReply, FALSE)

Inserting(t) ==
  IF store.mode = "recovery" THEN {Refusal}
  ELSE IF ~Has(store.content, t) THEN {Done(With(store, t), t)}
  ELSE {Act(store, Says(store, t, TRUE), FALSE)}
       \cup (IF flaw = "forgets" /\ Acknowledged(t)
             THEN {Act(With(store, t), [Says(With(store, t), t, FALSE)
                                          EXCEPT !.txid = Len(store.content) + 1], TRUE)}
             ELSE {})

(* An operation that is cut short, or fails, has been done or has not; a   *)
(* store that says it failed goes on, or refuses to until it is reopened.  *)
Uncertain(s) == {store, s}
Failing(s)   == {Act([t EXCEPT !.mode = "up"], NoReply, FALSE) : t \in Uncertain(s)}
                \cup {Act([t EXCEPT !.mode = "recovery"], NoReply, FALSE) : t \in Uncertain(s)}

Rejecting ==
  {Refusal}
  \cup (IF flaw = "accepts" THEN {Act(With(store, Foreign), Says(store, NoBundle, FALSE), TRUE)} ELSE {})
  \cup (IF flaw = "applies" THEN {Act(With(store, Foreign), NoReply, TRUE)} ELSE {})

Merging == {Done(Merged(store), NoBundle)}
           \cup (IF flaw = "stays" THEN {[Done(store, NoBundle) EXCEPT !.wrong = TRUE]} ELSE {})

Acts ==
  CASE Now.op = "build"                  -> {Done([NewStore EXCEPT !.mode = "up"], NoBundle)}
    [] Now.op = "open"                   -> Openings
    [] Now.op \in {"transaction", "continue", "adopt_first"} -> Inserting(Now.tok)
    [] Now.op \in {"merge", "checkpoint"} -> Merging
    [] Now.op = "reject"                 -> Rejecting
    [] Now.op = "close"                  -> {Done([store EXCEPT !.mode = "down"], NoBundle)}
    [] Now.op \in {"hello", "fault", "export", "stats", "query"} -> {Done(store, NoBundle)}
    [] Now.op = "fail_transaction"       -> Failing(With(store, Now.tok))
    [] Now.op = "fail_merge"             -> Failing(Merged(store))
    [] Now.op = "kill_transaction"       -> {Act(s, NoReply, FALSE) : s \in Uncertain(With(store, Now.tok))}
    [] Now.op = "kill_merge"             -> {Act(s, NoReply, FALSE) : s \in Uncertain(Merged(store))}

-----------------------------------------------------------------------------
(* The oracle. *)

(* _metadata *)
Metadata(r, head, pending) ==
  /\ head <= r.head /\ r.head <= head + pending
  /\ r.gen >= oracle.gen
  /\ r.ckpt >= oracle.ckpt /\ r.ckpt <= r.head

Count == Len(oracle.accepted)
Noted(r) == [oracle EXCEPT !.gen = r.gen, !.ckpt = r.ckpt]

(* accept: the next transaction id, or a replay of the one it had. *)
Acceptable(t, r, resolving, after) ==
  LET old == Acknowledged(t)
  IN /\ r.txid = IF old THEN Place(oracle.accepted, t) ELSE Count + 1
     /\ old => r.replayed
     /\ ~old /\ ~resolving => ~r.replayed
     /\ Metadata(r, IF old THEN Count ELSE Count + 1, after)

(* prepare: the bundle a transaction leads to. *)
Prepared(t) == IF Acknowledged(t) THEN oracle.accepted ELSE Append(oracle.accepted, t)

Accepted(t, r) == [Noted(r) EXCEPT !.accepted = Prepared(t)]

(* export_bytes, point and join: what the store should answer. *)
Expected == oracle.accepted

(* Mutant: of an export only its length is compared. *)
ExportedLength(r) == r.ok /\ Len(r.content) = Count

(* export_check, query_check: the bytes are the oracle's. *)
Exported(r) == r.ok /\ r.content = Expected

(* Whether the evaluator goes on after the reply r to the step now taken.  *)
Good(r) ==
  CASE Now.op = "build"       -> r.ok /\ Metadata(r, Count, 0)
    [] Now.op = "open"        -> r.ok /\ Metadata(r, Count,
                                     IF Now.flag /\ ~(Now.tok # NoBundle /\ Acknowledged(Now.tok))
                                     THEN 1 ELSE 0)
    [] Now.op = "transaction" -> r.ok /\ Acceptable(Now.tok, r, Now.flag, 0)
    [] Now.op \in {"merge", "checkpoint"} -> r.ok /\ Metadata(r, Count, 0) /\ r.gen > oracle.gen
                                             /\ r.ckpt = Count
    [] Now.op = "reject"      -> ~r.ok /\ store.content = Expected
                                 /\ Metadata(Says(store, NoBundle, FALSE), Count, 0)
    [] Now.op \in {"export", "query"} -> Exported(r)
    [] Now.op = "stats"       -> r.ok /\ Metadata(r, Count, 0)
    [] Now.op \in {"hello", "fault"} -> r.ok
    [] Now.op \in {"fail_transaction", "fail_merge"} -> ~r.ok
    [] Now.op = "adopt_first" -> r.ok /\ Acceptable(Now.tok, r, TRUE, 1)
    [] OTHER                  -> TRUE

Learned(r) ==
  CASE Now.op \in {"build", "open", "merge", "checkpoint", "stats"} -> Noted(r)
    [] Now.op \in {"transaction", "adopt_first"} -> Accepted(Now.tok, r)
    [] OTHER -> oracle

-----------------------------------------------------------------------------
(* The ledger: an append-only file the store cannot reach. *)

Event(kind, of, ok) == [kind |-> kind, of |-> of, op |-> Now.op, tok |-> Now.tok, ok |-> ok]
Request   == Append(ledger, Event("request", 0, FALSE))
Asked     == Max({0} \cup {i \in 1..Len(ledger) : ledger[i].kind = "request"})
Response(ok) == Append(ledger, Event("response", Asked, ok))
Noting(op) == [kind |-> "note", of |-> 0, op |-> op, tok |-> NoBundle, ok |-> FALSE]
Note(op)  == Append(ledger, Noting(op))

NewLedger == <<>>

(* verify: every reply on record is the only one to a request before it.   *)
Verified(l) ==
  \A e \in 1..Len(l) :
    /\ l[e].op # "torn"
    /\ l[e].kind = "response" =>
         /\ l[e].of \in 1..(e - 1) /\ l[l[e].of].kind = "request"
         /\ \A f \in 1..(e - 1) : l[f].kind = "response" => l[f].of # l[e].of

Init ==
  /\ depth \in {"quick", "full"} /\ native \in BOOLEAN
  /\ flaw \in Flaws \cup {"none"}
  /\ n = 1 /\ at = 1 /\ phase = "ready"
  /\ reply = NoReply /\ held = NoReply
  /\ ledger = NewLedger /\ oracle = NewOracle /\ store = NewStore
  /\ wronged = FALSE /\ troubled = FALSE
  /\ raw = [status |-> "running", quality |-> FALSE]

Ended(status) == raw' = [status |-> status, quality |-> FALSE]

(* A case that fails kills its session, if it has one, and is the last.    *)
InSession == phase # "ready" \/ store.mode # "down"

Fail(l) ==
  /\ Ended("failed")
  /\ store' = [store EXCEPT !.mode = "down"]
  /\ ledger' = IF InSession THEN Append(l, Noting("external_process_kill")) ELSE l

StepDone == at' = at + 1 /\ phase' = "ready"

-----------------------------------------------------------------------------
(* One request of a case. *)

IsCall(op) == op \notin {"kill", "adopt"}

(* The reply put aside was to what follows a transaction that did commit. *)
FirstCommitted == held.ok /\ held.txid = Count + 2

(* Mutant: the request is sent before it is in the ledger. *)
AskLater ==
  /\ Running /\ ~Over /\ phase = "ready" /\ IsCall(Now.op)
  /\ Now.op = "adopt_first" => FirstCommitted
  /\ phase' = "asked"
  /\ ledger' = ledger
  /\ UNCHANGED <<setting, n, at, reply, held, oracle, store, wronged, troubled, raw>>

(* _call, stop and kill_inflight: the request is durable before it is sent. *)
Ask ==
  /\ Running /\ ~Over /\ phase = "ready" /\ IsCall(Now.op)
  /\ Now.op = "adopt_first" => FirstCommitted
  /\ phase' = "asked"
  /\ ledger' = Request
  /\ UNCHANGED <<setting, n, at, reply, held, oracle, store, wronged, troubled, raw>>

(* Session.begin sends it, and the store does what it does. *)
Serve ==
  /\ Running /\ phase = "asked"
  /\ \E a \in Acts : store' = a.store /\ reply' = a.reply /\ wronged' = (wronged \/ a.wrong)
  /\ phase' = "answered"
  /\ UNCHANGED <<setting, n, at, held, ledger, oracle, troubled, raw>>

(* Session.finish, and what the case makes of the reply. *)
Receive ==
  /\ Running /\ phase = "answered" /\ Now.op \notin {"kill_merge", "kill_transaction"}
  /\ held' = IF Now.op = "continue" THEN reply ELSE held
  /\ IF Good(reply)
     THEN StepDone /\ ledger' = Response(reply.ok) /\ oracle' = Learned(reply)
          /\ UNCHANGED <<store, raw>>
     ELSE Fail(Response(reply.ok)) /\ UNCHANGED <<at, phase, oracle>>
  /\ UNCHANGED <<setting, n, reply, wronged, troubled>>

(* kill: at rest, or once the fault hook has reported where it paused. *)
KillStore ==
  /\ Running /\ ~Over
  /\ \/ Now.op = "kill" /\ phase = "ready"
     \/ Now.op \in {"kill_merge", "kill_transaction"} /\ phase = "answered"
  /\ ledger' = IF Now.op = "kill" THEN Note("external_process_kill")
               ELSE Append(Note("fault_pause_observed"), Noting("external_process_kill"))
  /\ store' = [store EXCEPT !.mode = "down"]
  /\ StepDone
  /\ UNCHANGED <<setting, n, reply, held, oracle, wronged, troubled, raw>>

(* The continuation's receipt, accepted after what it came after. *)
Adopt ==
  /\ Running /\ ~Over /\ phase = "ready" /\ Now.op = "adopt"
  /\ IF held.ok /\ ~Acceptable(Now.tok, held, FALSE, 0)
     THEN Fail(ledger) /\ UNCHANGED <<at, phase, oracle>>
     ELSE /\ StepDone
          /\ oracle' = IF held.ok THEN Accepted(Now.tok, held) ELSE oracle
          /\ UNCHANGED <<ledger, store, raw>>
  /\ UNCHANGED <<setting, n, reply, held, wronged, troubled>>

Skip ==
  /\ Running /\ ~Over /\ phase = "ready" /\ Now.op = "adopt_first" /\ ~FirstCommitted
  /\ StepDone
  /\ UNCHANGED <<setting, n, reply, held, ledger, oracle, store, wronged, troubled, raw>>

-----------------------------------------------------------------------------
(* The evaluation. *)

NextCase ==
  /\ Running /\ Over
  /\ IF Verified(ledger)
     THEN /\ n' = n + 1 /\ at' = 1 /\ phase' = "ready"
          /\ reply' = NoReply /\ held' = NoReply
          /\ ledger' = NewLedger /\ oracle' = NewOracle /\ store' = NewStore
          /\ UNCHANGED raw
     ELSE Fail(ledger) /\ UNCHANGED <<n, at, phase, reply, held, oracle>>
  /\ UNCHANGED <<setting, wronged, troubled>>

Conclude ==
  /\ raw.status = "running" /\ n > Len(Cases)
  /\ \E status \in {"eligible", "ineligible"} :
       /\ status = "eligible" => depth = "full"
       /\ raw' = [status |-> status, quality |-> TRUE]
  /\ UNCHANGED <<setting, n, at, phase, reply, held, ledger, oracle, store, wronged, troubled>>

Troubled(l) ==
  /\ raw.status = "running"
  /\ troubled' = TRUE
  /\ Fail(l)
  /\ UNCHANGED <<setting, n, at, phase, reply, held, oracle, wronged>>

(* Before the first case: the card, the isolation, the registered files,   *)
(* or a rebuild that differs.                                              *)
Unprepared == n = 1 /\ at = 1 /\ phase = "ready" /\ Troubled(ledger)

(* Between requests: cancelled, out of time. *)
Interrupted == phase = "ready" /\ Troubled(ledger)

(* In a request: a monitor, a limit, a malformed reply, or none.           *)
Trouble ==
  /\ phase # "ready"
  /\ Troubled(IF Now.op \in {"close", "kill_merge", "kill_transaction"} THEN ledger
              ELSE Note("transport_failure"))

(* The sanitized build fails, or is not sanitized. *)
Undiagnosed ==
  /\ depth = "full" /\ native /\ n = Len(SCENARIOS) + 1 /\ at = 1 /\ phase = "ready"
  /\ Troubled(ledger)

(* The evidence is unsafe or too large to be kept, after whatever verdict. *)
Unpackaged == n > Len(Cases) /\ Troubled(ledger)

(* The evaluator's process dies, and the store with it; an append to the   *)
(* ledger may be cut short.                                                *)
Crash ==
  /\ raw.status = "running"
  /\ troubled' = TRUE
  /\ Ended("crashed") /\ store' = [store EXCEPT !.mode = "down"]
  /\ ledger' \in {ledger, Note("torn")}
  /\ UNCHANGED <<setting, n, at, phase, reply, held, oracle, wronged>>

Next == Ask \/ Serve \/ Receive \/ KillStore \/ Adopt \/ Skip \/ NextCase \/ Conclude
        \/ Unprepared \/ Interrupted \/ Trouble \/ Undiagnosed \/ Unpackaged \/ Crash

Spec == Init /\ [][Next]_vars

-----------------------------------------------------------------------------
(* The type invariant. *)
TypeOK ==
  /\ depth \in {"quick", "full"} /\ native \in BOOLEAN /\ flaw \in AllFlaws \cup {"none"}
  /\ n \in 1..(Len(Cases) + 1) /\ at \in Nat
  /\ phase \in {"ready", "asked", "answered"}
  /\ oracle \in [accepted : Seq(Tokens), gen : Nat, ckpt : Nat]
  /\ store \in [content : Seq(Tokens \cup {Foreign}), gen : Nat, ckpt : Nat,
                 mode : {"down", "up", "recovery"}]
  /\ wronged \in BOOLEAN /\ troubled \in BOOLEAN
  /\ raw \in [status : {"running", "failed", "crashed", "eligible", "ineligible"}, quality : BOOLEAN]

(* No case passes a store that broke the contract in it: that lost or      *)
(* altered what it had acknowledged, took a transaction twice, acknowledged *)
(* or applied what it had to refuse, or let its generation fall back       *)
(* (the checks of StoreCase and ReferenceState, each against what it can   *)
(* still see, over every scenario).                                        *)
BreachNeverPasses ==
  (raw.quality \/ n > Len(Cases) \/ Over) => ~wronged

(* No store is failed that kept the contract: whatever it does with what   *)
(* was in flight when it was killed or failed, it passes unless something  *)
(* else went wrong (the pending allowances of start and accept).           *)
KeepersPass == raw.status = "failed" => wronged \/ troubled

(* The ledger explains the store: what was committed was asked for before, *)
(* and what the oracle counts as acknowledged was answered, once, by a     *)
(* reply on record, so a crash leaves nothing behind that the evidence     *)
(* does not account for (RequestLedger, and the order in _call).           *)
LedgerExplainsStore ==
  /\ \A i \in 1..Len(store.content) : store.content[i] = Foreign \/
       \E e \in 1..Len(ledger) : ledger[e].kind = "request" /\ ledger[e].tok = store.content[i]
  /\ \A t \in Tokens : Acknowledged(t) =>
       \E e \in 1..Len(ledger) : ledger[e].kind = "response" /\ ledger[e].ok /\ ledger[e].tok = t
  /\ raw.status # "crashed" => Verified(ledger)
=============================================================================
