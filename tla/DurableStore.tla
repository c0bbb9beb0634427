----------------------------- MODULE DurableStore -----------------------------
(***************************************************************************)
(* What docs/relational/CONTRACT.md promises of a relational store and     *)
(* ReferenceStore implements: once built, the store is the initial bundle  *)
(* and the transactions committed since; a token commits once, whole, with *)
(* the next transaction id; a reply tells a commit that is never lost,     *)
(* whatever processes crash in between.  Merges do not show.               *)
(***************************************************************************)
EXTENDS StoreData

VARIABLES built,    \* the store has been built
          rows,     \* its tables
          receipts, \* the transactions committed so far
          acked     \* the replies clients have received

vars == <<built, rows, receipts, acked>>

Reply == [token : Tokens, txid : Nat, body : SUBSET Rows]

Init ==
  /\ built = FALSE
  /\ rows = {}
  /\ receipts = NoReceipts
  /\ acked = {}

Build ==
  /\ ~built
  /\ built' = TRUE
  /\ rows' = Initial
  /\ UNCHANGED <<receipts, acked>>

Commit(t, body) ==
  /\ built
  /\ receipts[t] = NoReceipt
  /\ Fits(rows, body)
  /\ rows' = rows \cup body
  /\ receipts' = [receipts EXCEPT
       ![t] = [txid |-> Cardinality(Committed(receipts)) + 1, body |-> body]]
  /\ UNCHANGED <<built, acked>>

(* The first reply to a transaction, or the replay of its token. *)
Answer(t) ==
  /\ t \in Committed(receipts)
  /\ acked' = acked \cup {[token |-> t, txid |-> receipts[t].txid, body |-> receipts[t].body]}
  /\ UNCHANGED <<built, rows, receipts>>

Next ==
  \/ Build
  \/ \E t \in Tokens, body \in Bodies : Commit(t, body)
  \/ \E t \in Tokens : Answer(t)

Spec == Init /\ [][Next]_vars
=============================================================================
