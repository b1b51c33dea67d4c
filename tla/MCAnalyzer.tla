----------------------------- MODULE MCAnalyzer -----------------------------
(***************************************************************************)
(* Definitions of three nodes with up to two transitions each, to other    *)
(* nodes or to themselves, and a fourth node, the end, with up to one; and *)
(* smaller ones with targets that are missing or empty, with two equal     *)
(* transitions, and with an escalation.                                    *)
(***************************************************************************)
EXTENDS Analyzer

MCNode == {"a", "b", "c", "d"}
Order(v) == CASE v = "a" -> 1 [] v = "b" -> 2 [] v = "c" -> 3 [] v = "d" -> 4 [] v = "x" -> 5 [] v = "" -> 6

Lists(T, twins) ==
  {<<>>} \cup {<<v>> : v \in T}
         \cup {l \in T \X T : Order(l[1]) < Order(l[2]) \/ (twins /\ l[1] = l[2])}

None4 == [n \in MCNode |-> <<>>]

Large == {f \in [MCNode -> Lists(MCNode, FALSE)] : Len(f["d"]) < 2}
Small == {f \in [MCNode -> Lists({"a", "b", "c", "x", ""}, TRUE)] :
            f["d"] = <<>> /\ Len(f["c"]) < 2}

MCDefs ==
  [asked : {"Analyze"}, trans : Large \cup Small, esc : {None4}]
  \cup [asked : {"Validate"}, trans : Small,
        esc : {[None4 EXCEPT !["a"] = <<v>>] : v \in {"b", "d", "x"}}]
=============================================================================
