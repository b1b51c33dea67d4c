----------------------------- MODULE ProcessDef -----------------------------
(***************************************************************************)
(* A process definition (dsl/context.go ProcessDef, Node, Transition) as   *)
(* the runtime reads it, and the questions the runtime asks of it: which   *)
(* nodes wait, which events a waiting node accepts, and where a node may   *)
(* lead.  Expressions are data: a `when` that may be true or false is both *)
(* outcomes, and a node whose input or output mapping may raise an error   *)
(* is a member of MayFail.                                                 *)
(***************************************************************************)
EXTENDS Naturals, Sequences, FiniteSets

CONSTANTS
  Node,         \* node IDs of the definition
  NoNode,       \* the empty node ID ""
  StartNode,    \* ProcessDef.StartNode
  NodeType,     \* Node.Type
  EventName,    \* names an event may carry
  NoName,       \* the empty event name ""
  Trans,        \* Node.Transitions, in declaration order
  Deadline,     \* Node.Deadline.Next, NoNode where no deadline is declared
  ForkOf,       \* the scope a parallel node opens: the merge of Fork and Join
  MayFail,      \* nodes whose input/output mapping may raise an error
  Effectful,    \* nodes that declare a side effect
  Critical,     \* ... whose failure fails the node
  Compensable   \* ... with a declared compensation

NodeTypes == {"start", "approval", "subprocess", "condition", "action",
              "notification", "parallel", "join", "timer", "end"}

Transition == [event : EventName \cup {NoName}, when : BOOLEAN,
               next : Node \cup {NoNode}]

ScopeConfig == [mode : {"all", "any", "n_of_m"}, onFail : {"continue", "fail"},
                required : Nat, timeout : BOOLEAN, join : Node \cup {NoNode}]

ASSUME DefinitionAssumption ==
  /\ NoNode \notin Node
  /\ NoName \notin EventName
  /\ StartNode \in Node
  /\ NodeType \in [Node -> NodeTypes]
  /\ DOMAIN Trans = Node
  /\ \A n \in Node : /\ DOMAIN Trans[n] = 1 .. Len(Trans[n])
                     /\ Len(Trans[n]) \in Nat
                     /\ \A i \in DOMAIN Trans[n] : Trans[n][i] \in Transition
  /\ Deadline \in [Node -> Node \cup {NoNode}]
  /\ ForkOf \in [Node -> ScopeConfig]
  /\ MayFail \subseteq Node
  /\ Critical \subseteq Effectful
  /\ Compensable \subseteq Effectful
  /\ Effectful \subseteq Node

-----------------------------------------------------------------------------
\* The type of a node; "missing" for an ID the definition does not hold.
TypeOf(n) == IF n \in Node THEN NodeType[n] ELSE "missing"

IsWaitingNode(n) == TypeOf(n) \in {"approval", "subprocess", "timer"}

\* A waiting node the time contract watches: a timer, or a node with a deadline.
IsTimedNode(n) ==
  \/ TypeOf(n) = "timer"
  \/ TypeOf(n) \in {"approval", "subprocess"} /\ Deadline[n] # NoNode

\* The target of the first transition among the indices S; none when S is empty.
FirstNext(n, S) == {Trans[n][i].next : i \in {k \in S : \A j \in S : k <= j}}
OrNone(targets) == IF targets = {} THEN {NoNode} ELSE targets

EventMatches(n, name) == {i \in DOMAIN Trans[n] : Trans[n][i].event = name}
EventNext(n, name)    == FirstNext(n, EventMatches(n, name))

\* The automatic route of a node: its first transition with a target.
AutoNext(n) == FirstNext(n, {i \in DOMAIN Trans[n] : Trans[n][i].next # NoNode})

\* Every answer evalWhenChain can give: one of the guarded transitions, or the
\* first unguarded one, or NoNode when there is no default.
WhenNexts(n) ==
  {Trans[n][i].next : i \in {j \in DOMAIN Trans[n] : Trans[n][j].when}}
    \cup OrNone(FirstNext(n, {i \in DOMAIN Trans[n] : ~Trans[n][i].when}))

\* Does a waiting node declare a reaction to an event of this name?
NodeAcceptsEvent(n, name) ==
  /\ TypeOf(n) # "timer"
  /\ \E i \in DOMAIN Trans[n] : Trans[n][i].event = name \/ Trans[n][i].when

-----------------------------------------------------------------------------
\* Where one Step out of node n may lead under an event of this name.
\* The when chain decides for condition, join and timer; what it leaves open,
\* and every other node, goes by event name and then by the automatic route,
\* which condition and waiting nodes do not have.
ChainOutcomes(n) ==
  IF NodeType[n] \in {"condition", "join", "timer"} THEN WhenNexts(n) ELSE {NoNode}

Fallthrough(n, name) ==
  IF EventMatches(n, name) # {} THEN EventNext(n, name)
  ELSE IF NodeType[n] # "condition" /\ ~IsWaitingNode(n) THEN AutoNext(n) ELSE {}

StepTargets(n, name) ==
  (ChainOutcomes(n) \ {NoNode})
    \cup (IF NoNode \in ChainOutcomes(n) THEN Fallthrough(n, name) ELSE {})

StepMayFail(n, name) ==
  \/ n \in MayFail
  \/ NoNode \in ChainOutcomes(n) /\ Fallthrough(n, name) = {}

\* Where an event takes a branch waiting at n; NoNode when it does not match.
FeedTargets(n, name) ==
  IF EventNext(n, name) \ {NoNode} # {} THEN EventNext(n, name)
  ELSE IF NodeType[n] = "condition" THEN WhenNexts(n)
  ELSE {NoNode}

\* Where a branch standing at an automatic or condition node goes next.
BranchTargets(n) ==
  IF NodeType[n] = "condition" THEN WhenNexts(n) ELSE OrNone(AutoNext(n))
=============================================================================
