------------------------------ MODULE MCDecision ------------------------------
(***************************************************************************)
(* A model triages, a person signs or sends the case back.  Both nodes     *)
(* demand an owner.  One instance walks them alone or as two branches.     *)
(***************************************************************************)
EXTENDS Decision, TLC

CONSTANTS b1, b2, e1, e2, e3

MCRoute ==
  [triage |-> [ok |-> "sign", bad |-> None, yes |-> None, no |-> None],
   sign   |-> [ok |-> None, bad |-> None, yes |-> "over", no |-> "triage"]]

\* Answers with a complete owner, naming their request or not, one that fails, one
\* whose owner is incomplete; replies of a person, and of nobody.
MCContent ==
  {[says |-> "ok",  by |-> "model",   names |-> TRUE],
   [says |-> "ok",  by |-> "agent",   names |-> FALSE],
   [says |-> "bad", by |-> "model",   names |-> TRUE],
   [says |-> "ok",  by |-> "partial", names |-> FALSE],
   [says |-> "yes", by |-> "person",  names |-> FALSE],
   [says |-> "no",  by |-> "person",  names |-> FALSE],
   [says |-> "yes", by |-> "nobody",  names |-> FALSE]}

Symmetry == Permutations(Branch) \cup Permutations(EventId)
=============================================================================
