------------------------------- MODULE MCScoring --------------------------------
(* Cards and candidates of the kinds the pipeline tells apart, and stores *)
(* with every flaw and with none.                                        *)
EXTENDS Scoring

Card(benchmark, staged, validationOnly, decoderPolicy) ==
  [benchmark |-> benchmark, staged |-> staged, validationOnly |-> validationOnly,
   decoderPolicy |-> decoderPolicy]

MCCards == {Card(TRUE, FALSE, FALSE, FALSE), Card(TRUE, TRUE, TRUE, TRUE),
            Card(FALSE, TRUE, FALSE, FALSE)}

Manifest(schema, offline, fitted) == [schema |-> schema, offline |-> offline, fitted |-> fitted]

MCManifests == {Manifest(1, FALSE, FALSE), Manifest(2, TRUE, TRUE), Manifest(2, FALSE, TRUE)}

MCFlaws == {"loses", "swaps", "forgets", "regresses", "accepts", "applies", "stays"}
=============================================================================
