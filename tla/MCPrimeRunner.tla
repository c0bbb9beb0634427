----------------------------- MODULE MCPrimeRunner -----------------------------
(***************************************************************************)
(* One controller with two continuations, a driver that is started twice,  *)
(* and one child; or a probe with an observer.                             *)
(***************************************************************************)
EXTENDS PrimeRunner
=============================================================================
