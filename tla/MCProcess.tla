------------------------------ MODULE MCProcess ------------------------------
(***************************************************************************)
(* A process with two lanes, and which of them it enters is decided at     *)
(* "kind".  The linear lane: an approval with a deadline that a rework     *)
(* step leads back to, the approval it escalates to, a timer, a critical   *)
(* payment that can be compensated, and a condition before the end.  The   *)
(* parallel lane: two branches fork from "split" and meet at "meet"; one   *)
(* waits for an approval, which may escalate, and stamps the result, the   *)
(* other waits for a timer and passes a gate that may hold it back until   *)
(* an event comes.  The cfg chooses the routes and the scope that opens.   *)
(***************************************************************************)
EXTENDS Runtime

Types == [start     |-> {"start"},
          approval  |-> {"review", "manager", "legal", "boss"},
          action    |-> {"rework", "pay", "stamp"},
          condition |-> {"kind", "check", "gate"},
          timer     |-> {"cooling", "pause"},
          parallel  |-> {"split"},
          join      |-> {"meet"},
          end       |-> {"done", "signed"}]

MCNode     == UNION {Types[t] : t \in DOMAIN Types}
MCNodeType == [n \in MCNode |-> CHOOSE t \in DOMAIN Types : n \in Types[t]]

To(name, next) == [event |-> name, when |-> FALSE, next |-> next]
When(next)     == [event |-> "", when |-> TRUE, next |-> next]

\* first: the node after the start; again: where a failed check leads back to;
\* after: where the join leads when branches have failed.
Process(first, again, after) ==
  [n \in MCNode |->
     CASE n = "start"   -> <<To("", first)>>
       [] n = "kind"    -> <<When("split"), To("", "review")>>
       [] n = "review"  -> <<To("yes", "cooling"), To("no", "rework"), To("redo", "rework")>>
       [] n = "rework"  -> <<To("", "review")>>
       [] n = "manager" -> <<To("yes", "pay"), To("no", "")>>
       [] n = "cooling" -> <<When("manager"), To("", "pay")>>
       [] n = "pay"     -> <<To("", "check")>>
       [] n = "check"   -> <<When("done"), To("", again)>>
       [] n = "split"   -> <<To("", "legal"), To("", "pause")>>
       [] n = "legal"   -> <<To("yes", "stamp"), To("no", "")>>
       [] n = "boss"    -> <<To("yes", "meet"), To("no", "stamp")>>
       [] n = "stamp"   -> <<To("", "meet")>>
       [] n = "pause"   -> <<To("", "gate")>>
       [] n = "gate"    -> <<When("meet"), To("", ""), To("redo", "stamp")>>
       [] n = "meet"    -> <<When(after), To("", "signed")>>
       [] OTHER         -> <<>>]

MCTrans     == Process("kind", "manager", "split")
MCTransBack == Process("review", "review", "split")
\* The parallel lane alone, with a longer way through the gate.
MCTransLong == [Process("split", "manager", "split") EXCEPT !["gate"] = <<When("stamp")>> \o @]

Deadlines(of) == [n \in MCNode |-> IF n \in DOMAIN of THEN of[n] ELSE ""]
MCDeadline       == Deadlines([review |-> "manager"])
MCForkDeadline   == Deadlines([legal |-> "boss"])

Opens(cfg) == [n \in MCNode |-> cfg]
MCAll      == Opens([mode |-> "all", onFail |-> "continue", required |-> 0,
                     timeout |-> FALSE, join |-> "meet"])
MCSome     == Opens([mode |-> "n_of_m", onFail |-> "fail", required |-> 1,
                     timeout |-> TRUE, join |-> "meet"])

MCEventId == {"e0", "e1", "e2", "e3"}
MCNameOf  == [e \in MCEventId \cup {"nil"} |->
                CASE e = "e1" -> "yes" [] e = "e2" -> "redo" [] e = "e3" -> "no"
                  [] OTHER -> ""]
=============================================================================
