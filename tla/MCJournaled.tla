----------------------------- MODULE MCJournaled -----------------------------
(***************************************************************************)
(* An order: a critical payment that can be refunded, a review that sends  *)
(* it back or lets it pass, a shipment that can be called back and whose   *)
(* own failure only shows in the dead letters, and the end.                *)
(***************************************************************************)
EXTENDS JournaledInstance

MCNode == {"start", "pay", "review", "ship", "done"}

MCNodeType ==
  [n \in MCNode |->
     CASE n = "start"  -> "start"    [] n = "pay"  -> "action"
       [] n = "review" -> "approval" [] n = "ship" -> "action"
       [] n = "done"   -> "end"]

To(name, next) == [event |-> name, when |-> FALSE, next |-> next]

MCTrans ==
  [n \in MCNode |->
     CASE n = "start"  -> <<To("", "pay")>>
       [] n = "pay"    -> <<To("", "review")>>
       [] n = "review" -> <<To("yes", "ship"), To("no", "pay")>>
       [] n = "ship"   -> <<To("", "done")>>
       [] n = "done"   -> <<>>]

MCDeadline == [n \in MCNode |-> ""]
MCForkOf   == [n \in MCNode |-> [mode |-> "all", onFail |-> "continue", required |-> 0,
                                 timeout |-> FALSE, join |-> ""]]
MCEventId  == {"e1", "e2"}
MCNameOf   == [e \in MCEventId \cup {"nil"} |->
                 CASE e = "e1" -> "yes" [] e = "e2" -> "no" [] OTHER -> ""]
=============================================================================
