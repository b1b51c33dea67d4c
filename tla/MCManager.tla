------------------------------ MODULE MCManager ------------------------------
(***************************************************************************)
(* A live instance and one that no longer loads, on the same stripe, and   *)
(* two goroutines that start, feed, compensate and sweep.                  *)
(***************************************************************************)
EXTENDS Manager

MCStripeOf == [i \in Instance |-> CHOOSE s \in Stripe : TRUE]
=============================================================================
