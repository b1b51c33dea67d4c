---------------------------- MODULE MCActivation ----------------------------
(***************************************************************************)
(* Two versions, two contents, two goroutines that activate, one restart.  *)
(***************************************************************************)
EXTENDS Activation, TLC

\* The first version has two contents, so that a conflict can happen; people
\* and goroutines are alike.
MCVersion == {1, 2}
MCSymmetry == Permutations(Caller) \cup Permutations(Hash)
=============================================================================
