---------------------------- MODULE LedgerStages ----------------------------
(* The stages of a run and what a ledger update may do with them, shared by *)
(* the journal's model and by the models whose ledgers move through stages: *)
(* NEXT and Ledger.update of src/src/compression_lab/util.py.               *)

Stages == {"created", "public_search", "public_ready", "frozen",
           "private_started", "complete", "failed", "cancelled"}
Terminal == {"complete", "failed", "cancelled"}

(* NEXT: the stages an update may move to from each stage. *)
NEXT == [created         |-> {"public_search"},
         public_search   |-> {"public_search", "public_ready", "cancelled", "failed"},
         public_ready    |-> {"public_search", "public_ready", "frozen",
                              "cancelled", "failed"},
         frozen          |-> {"private_started", "cancelled"},
         private_started |-> {"private_started", "complete", "failed", "cancelled"},
         complete        |-> {},
         failed          |-> {},
         cancelled       |-> {}]

(* Mutant: the terminal latch is forgotten. *)
AllowedUnlatched(op, old, new) == new # old => new \in NEXT[old]

(* The conditions update puts on the state its function returned. *)
Allowed(op, old, new) ==
  /\ old \in Terminal => op = "disclose" /\ new = old
  /\ new # old => new \in NEXT[old]
=============================================================================
