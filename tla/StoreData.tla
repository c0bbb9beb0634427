------------------------------ MODULE StoreData ------------------------------
(***************************************************************************)
(* What a relational store holds, and the test a transaction must pass:    *)
(* `checked' and `Store.stage' of src/src/compression_lab/workloads/       *)
(* reference_store.py.  A row is a primary key with the rows its foreign   *)
(* keys name; spelling, types and the four tables are left out.            *)
(***************************************************************************)
EXTENDS Integers, FiniteSets

CONSTANTS Tokens,   \* idempotency tokens of transactions
          Rows,     \* rows, by primary key
          Parents,  \* the rows each row's foreign keys refer to
          Initial   \* the rows of the bundle the store is built from

ASSUME StoreDataAssumption ==
  /\ Parents \in [Rows -> SUBSET Rows]
  /\ Initial \subseteq Rows
  /\ IsFiniteSet(Tokens)

(* The records of a transaction: at least one. *)
Bodies == (SUBSET Rows) \ {{}}

(* Every foreign key of a table set is satisfied in it. *)
Closed(rows) == \A r \in rows : Parents[r] \subseteq rows

(* stage: new primary keys, and foreign keys checked on the whole bundle. *)
Fits(rows, body) == body \cap rows = {} /\ Closed(rows \cup body)

(* receipts: the transaction id and the contents each token committed. *)
NoReceipt == [txid |-> 0, body |-> {}]
Receipts  == [Tokens -> [txid : Nat, body : SUBSET Rows]]
NoReceipts == [t \in Tokens |-> NoReceipt]
Committed(receipts) == {t \in Tokens : receipts[t] # NoReceipt}
=============================================================================
