------------------------------- MODULE Runtime -------------------------------
(***************************************************************************)
(* One process instance under dsl.Runtime: the host calls Start, Feed,     *)
(* WakeDue and Compensate one at a time, and each call runs to its end in  *)
(* steps.  A step is the work between two points where the order of the    *)
(* journalled facts matters: consuming an event, taking a transition,      *)
(* dispatching its side effects, parking, moving one branch of a parallel  *)
(* scope by one node, settling the scope, firing one due waiting slot.     *)
(* pc says where the call stands; "idle" means that no call is under way.  *)
(***************************************************************************)
EXTENDS ProcessDef

CONSTANTS
  EventId,         \* IDs of the events the host may deliver
  NoEvent,         \* CurrentEvent = nil
  NameOf,          \* Event.Name of each event
  AutoCompensate,  \* Runtime.AutoCompensate
  MaxNodeVisits,   \* Runtime.maxNodeVisits()
  MaxBranchSteps,  \* maxBranchSteps
  MaxDrainSteps,   \* maxDrainSteps
  WakesTerminal,   \* the host calls WakeDue itself, whatever the status: the
                   \* Manager's sweep only lists instances that wait
  VisitCap         \* bound of the model: the host stops feeding at this count

ASSUME RuntimeAssumption ==
  /\ NoEvent \notin EventId
  /\ NameOf \in [EventId \cup {NoEvent} -> EventName \cup {NoName}]
  /\ AutoCompensate \in BOOLEAN /\ WakesTerminal \in BOOLEAN
  /\ {MaxNodeVisits, MaxBranchSteps, MaxDrainSteps} \subseteq Nat \ {0}
  /\ VisitCap \in Nat

VARIABLES
  \* ExecutionContext: what the journal rebuilds
  status, current, event, consumed, woken, visits, scopes, waitings, undo,
  \* the call under way
  pc, emit, loop, todo, cur, steps, routed, due, slot,
  \* history: the events that moved the instance or a branch
  drove

ctxVars  == <<status, current, event, consumed, woken, visits, scopes, waitings, undo>>
callVars == <<pc, emit, loop, todo, cur, steps, routed, due, slot>>
vars     == <<ctxVars, callVars, drove>>

-----------------------------------------------------------------------------
Status       == {"pending", "running", "waiting", "completed", "failed", "timed_out"}
Terminal     == {"completed", "failed", "timed_out"}
BranchStatus == {"running", "waiting", "completed", "failed"}

ForkNode    == {n \in Node : NodeType[n] = "parallel"}
BranchOf(f) == DOMAIN Trans[f]

\* Keys of the waiting table: "instance", "scope:<fork>" and "<fork>.b<i>".
InstanceSlot     == [kind |-> "instance", node |-> NoNode, branch |-> 0]
ScopeSlot(f)     == [kind |-> "scope",    node |-> f,      branch |-> 0]
BranchSlot(f, b) == [kind |-> "branch",   node |-> f,      branch |-> b]
BranchSlots      == UNION {{BranchSlot(f, b) : b \in BranchOf(f)} : f \in ForkNode}
Slot == {InstanceSlot} \cup {ScopeSlot(f) : f \in ForkNode} \cup BranchSlots
NoSlot == [kind |-> "none", node |-> NoNode, branch |-> 0]

Waiting == [kind : {"timer", "deadline", "scope_timeout"}, node : Node, visit : Nat]
NoWait  == [kind |-> "none", node |-> NoNode, visit |-> 0]
Armed   == {s \in Slot : waitings[s] # NoWait}

\* The idempotency key wake:<slot>:<kind>:<visit>.
WakeKey(s) == [slot |-> s, kind |-> waitings[s].kind, visit |-> waitings[s].visit]
WakeKeys == [slot : Slot, kind : {"timer", "deadline", "scope_timeout"}, visit : Nat]

Branch == [node : Node \cup {NoNode}, status : BranchStatus, done : BOOLEAN]
Scope  == UNION {[fork : {f}, join : Node \cup {NoNode}, branches : [BranchOf(f) -> Branch]] :
                   f \in ForkNode}

Top         == scopes[Len(scopes)]
Branches(sc) == DOMAIN sc.branches
DoneIn(sc)   == {b \in Branches(sc) : sc.branches[b].done}
WithStatus(sc, st) == {b \in Branches(sc) : sc.branches[b].status = st}

Satisfied(sc) ==
  /\ Branches(sc) # {}
  /\ CASE ForkOf[sc.fork].mode = "any"    -> WithStatus(sc, "completed") # {}
       [] ForkOf[sc.fork].mode = "n_of_m" ->
            LET need == IF ForkOf[sc.fork].required = 0 THEN 1 ELSE ForkOf[sc.fork].required
            IN  Cardinality(WithStatus(sc, "completed")) >= need
       [] OTHER -> DoneIn(sc) = Branches(sc)

FailsFast(sc) == ForkOf[sc.fork].onFail = "fail" /\ WithStatus(sc, "failed") # {}
Exhausted(sc) == DoneIn(sc) = Branches(sc) /\ ~Satisfied(sc)
Unsettled(sc) == ~FailsFast(sc) /\ ~Exhausted(sc) /\ ~Satisfied(sc)

UndoEntry == [node : Node, done : BOOLEAN]

\* onFailure and Compensate: every entry not yet Done is fired, last pushed first.
Compensated(u) == [i \in DOMAIN u |-> [u[i] EXCEPT !.done = TRUE]]
\* Mutant: only the entry pushed last is compensated.
CompensatesLast(u) ==
  IF AutoCompensate THEN [i \in DOMAIN u |-> IF i = Len(u) THEN [u[i] EXCEPT !.done = TRUE] ELSE u[i]]
  ELSE u
OnFailure(u)   == IF AutoCompensate THEN Compensated(u) ELSE u

\* deliver: the executor answers, and a completed effect that declares a
\* compensation is pushed on the undo stack.
Results(n)   == IF n \in Effectful THEN BOOLEAN ELSE {TRUE}
Pushed(n, ok) ==
  IF ok /\ n \in Compensable THEN Append(undo, [node |-> n, done |-> FALSE]) ELSE undo

\* Mutant: deadlines are not watched.
ParksTimers(s, n)  == TypeOf(n) = "timer" /\ waitings[s].node # n
\* parkWaiting: a slot already waiting at this node keeps its expiry.
Parks(s, n) == IsTimedNode(n) /\ waitings[s].node # n
ParkedAt(s, n) ==
  IF Parks(s, n)
  THEN [waitings EXCEPT ![s] = [kind  |-> IF TypeOf(n) = "timer" THEN "timer" ELSE "deadline",
                                node  |-> n,
                                visit |-> visits[n]]]
  ELSE waitings

\* Mutants: only branch slots are cleared; branch slots are not cleared.
ClearedBranch(s)   == IF s.kind = "branch" THEN [waitings EXCEPT ![s] = NoWait] ELSE waitings
ClearedInstance(s) == IF s.kind = "branch" THEN waitings ELSE [waitings EXCEPT ![s] = NoWait]
Cleared(s)    == [waitings EXCEPT ![s] = NoWait]
Visited(n)    == [visits EXCEPT ![n] = @ + 1]
Driven        == IF event = NoEvent THEN drove ELSE drove \cup {event}
\* Mutant: WakeDue does not stop when nothing is due.
AfterCallWake(d) == "wake"
AfterCall(d)  == IF d = {} THEN "idle" ELSE "wake"

\* The call, or this round of WakeDue, ends with d still due.
Return(d) ==
  /\ pc' = AfterCall(d)
  /\ due' = d
  /\ emit' = NoNode /\ loop' = "settle" /\ todo' = {} /\ cur' = 0
  /\ steps' = 0 /\ routed' = FALSE /\ slot' = NoSlot

-----------------------------------------------------------------------------
Init ==
  /\ status = "pending" /\ current = NoNode /\ event = NoEvent
  /\ consumed = {} /\ woken = {}
  /\ visits = [n \in Node |-> 0]
  /\ scopes = <<>>
  /\ waitings = [s \in Slot |-> NoWait]
  /\ undo = <<>>
  /\ pc = "idle" /\ emit = NoNode /\ loop = "settle" /\ todo = {} /\ cur = 0
  /\ steps = 0 /\ routed = FALSE /\ due = {} /\ slot = NoSlot
  /\ drove = {}

\* Runtime.Start on a fresh context.
Start ==
  /\ pc = "idle" /\ status = "pending"
  /\ \E e \in EventId : consumed' = {e} /\ event' = e
  /\ current' = StartNode /\ status' = "running"
  /\ pc' = "drain"
  /\ UNCHANGED <<woken, visits, scopes, waitings, undo, emit, loop, todo, cur, steps,
                 routed, due, slot, drove>>

-----------------------------------------------------------------------------
\* drain: the two fuses at the head of the loop.
DrainRunaway ==
  /\ pc = "drain"
  /\ \/ steps >= MaxDrainSteps
     \/ current \in Node /\ visits[current] >= MaxNodeVisits
  /\ status' = "failed" /\ undo' = OnFailure(undo)
  /\ Return(due)
  /\ UNCHANGED <<current, event, consumed, woken, visits, scopes, waitings, drove>>

Stepping ==
  /\ pc = "drain" /\ steps < MaxDrainSteps
  /\ current \in Node => visits[current] < MaxNodeVisits

\* Step at a node the definition does not hold: failed, nothing to dispatch.
StepMissing ==
  /\ Stepping /\ current \notin Node
  /\ status' = "failed" /\ undo' = OnFailure(undo)
  /\ Return(due)
  /\ UNCHANGED <<current, event, consumed, woken, visits, scopes, waitings, drove>>

\* Step: the transition is on record before its side effects are dispatched.
Decided ==
  /\ pc' = "dispatch" /\ emit' = current
  /\ visits' = Visited(current)
  /\ drove' = Driven
  /\ UNCHANGED <<event, consumed, woken, undo, loop, todo, cur, steps, routed, slot>>

\* Mutant: the end node leaves the status to its caller.
StepEndSilent == Stepping /\ TypeOf(current) = "end" /\ Decided
                 /\ UNCHANGED <<status, current, scopes, waitings, due>>

StepEnd ==
  /\ Stepping /\ TypeOf(current) = "end"
  /\ \/ status' = "completed"
     \/ current \in MayFail /\ status' = "failed"
  /\ Decided
  /\ UNCHANGED <<current, scopes, waitings, due>>

\* stepParallel: a branch without a target fails the node before anything is pushed.
StepFork ==
  /\ Stepping /\ TypeOf(current) = "parallel"
  /\ LET f      == current
         broken == BranchOf(f) = {} \/ \E b \in BranchOf(f) : Trans[f][b].next = NoNode
         sc     == [fork |-> f, join |-> ForkOf[f].join,
                    branches |-> [b \in BranchOf(f) |->
                       [node |-> Trans[f][b].next, status |-> "running", done |-> FALSE]]]
         armed  == ForkOf[f].timeout
         wait   == [kind |-> "scope_timeout", node |-> f, visit |-> visits[f] + 1]
     IN  IF broken
         THEN status' = "failed" /\ UNCHANGED <<scopes, waitings, due>>
         ELSE /\ scopes' = Append(scopes, sc)
              /\ waitings' = IF armed THEN [waitings EXCEPT ![ScopeSlot(f)] = wait] ELSE waitings
              /\ due' = IF armed THEN due \ {ScopeSlot(f)} ELSE due
              /\ UNCHANGED status
  /\ Decided
  /\ UNCHANGED current

Selecting == Stepping /\ current \in Node /\ TypeOf(current) \notin {"end", "parallel"}

StepMove ==
  /\ Selecting
  /\ \E to \in StepTargets(current, NameOf[event]) : current' = to
  /\ status' = "running"
  /\ Decided
  /\ UNCHANGED <<scopes, waitings, due>>

StepFail ==
  /\ Selecting /\ StepMayFail(current, NameOf[event])
  /\ status' = "failed"
  /\ Decided
  /\ UNCHANGED <<current, scopes, waitings, due>>

-----------------------------------------------------------------------------
\* The effects of the node just stepped are delivered after its transition.
\* An error of the step, or a critical failure, fails the instance.
DispatchFailed ==
  /\ pc = "dispatch"
  /\ \E ok \in Results(emit) :
       /\ status = "failed" \/ (~ok /\ emit \in Critical)
       /\ undo' = OnFailure(Pushed(emit, ok))
  /\ status' = "failed"
  /\ Return(due)
  /\ UNCHANGED <<current, event, consumed, woken, visits, scopes, waitings, drove>>

\* The rest of the loop body, when neither the step nor a critical effect failed.
Delivered ==
  /\ pc = "dispatch" /\ status # "failed"
  /\ \E ok \in Results(emit) :
       /\ ok \/ emit \notin Critical
       /\ undo' = Pushed(emit, ok)
  /\ UNCHANGED <<status, current, event, consumed, woken, visits, scopes, waitings, drove>>

\* Mutant: the first branch is skipped.
DispatchForkedFromTwo ==
  /\ Delivered /\ TypeOf(emit) = "parallel"
  /\ pc' = "fork" /\ loop' = "fork" /\ todo' = Branches(Top) \ {1}
  /\ emit' = NoNode /\ steps' = 0
  /\ UNCHANGED <<cur, routed, due, slot>>

DispatchForked ==
  /\ Delivered /\ TypeOf(emit) = "parallel"
  /\ pc' = "fork" /\ loop' = "fork" /\ todo' = Branches(Top)
  /\ emit' = NoNode /\ steps' = 0
  /\ UNCHANGED <<cur, routed, due, slot>>

DispatchCompleted ==
  /\ Delivered /\ TypeOf(emit) = "end"
  /\ Return(due)

DispatchMoved ==
  /\ Delivered /\ TypeOf(emit) \notin {"parallel", "end"}
  /\ IF IsWaitingNode(current)
     THEN pc' = "park" /\ UNCHANGED steps
     ELSE pc' = "drain" /\ steps' = steps + 1
  /\ emit' = NoNode
  /\ UNCHANGED <<loop, todo, cur, routed, due, slot>>

\* parkInstance, then status waiting.
Park ==
  /\ pc = "park"
  /\ waitings' = ParkedAt(InstanceSlot, current)
  /\ status' = "waiting"
  /\ Return(IF Parks(InstanceSlot, current) THEN due \ {InstanceSlot} ELSE due)
  /\ UNCHANGED <<current, event, consumed, woken, visits, scopes, undo, drove>>

-----------------------------------------------------------------------------
\* The model's bound: the host feeds the instance while no node reached VisitCap.
Bounded == \A n \in Node : visits[n] < VisitCap

\* Mutants: a terminal instance takes events; the consumed set is not kept.
AcceptAlways(e) ==
  /\ pc = "idle" /\ status # "pending" /\ Bounded /\ e \notin consumed
  /\ consumed' = consumed \cup {e} /\ event' = e
AcceptUnrecorded(e) ==
  /\ pc = "idle" /\ status \notin Terminal \cup {"pending"} /\ Bounded
  /\ event' = e /\ UNCHANGED consumed

\* Runtime.Feed up to AcceptEvent: a terminal instance, a duplicate and an event
\* the parked node does not accept are returned with nothing changed.
Accept(e) ==
  /\ pc = "idle" /\ status \notin Terminal \cup {"pending"}
  /\ Bounded
  /\ e \notin consumed
  /\ (status = "waiting" /\ scopes = <<>> /\ IsWaitingNode(current))
       => NodeAcceptsEvent(current, NameOf[e])
  /\ consumed' = consumed \cup {e} /\ event' = e

ScopeOpen == scopes # <<>> /\ ~Satisfied(Top)

FeedInstance(e) ==
  /\ Accept(e) /\ ~ScopeOpen
  /\ waitings' = Cleared(InstanceSlot)
  /\ pc' = "drain"
  /\ UNCHANGED <<status, current, woken, visits, scopes, undo, emit, loop, todo, cur,
                 steps, routed, due, slot, drove>>

\* Mutant: finished branches are offered the event too.
FeedScopeAll(e) ==
  /\ Accept(e) /\ ScopeOpen
  /\ pc' = "feed" /\ loop' = "feed" /\ todo' = Branches(Top)
  /\ UNCHANGED <<status, current, woken, visits, scopes, waitings, undo, emit, cur,
                 steps, routed, due, slot, drove>>

\* The event is offered to every branch that waits.
FeedScope(e) ==
  /\ Accept(e) /\ ScopeOpen
  /\ pc' = "feed" /\ loop' = "feed" /\ todo' = WithStatus(Top, "waiting")
  /\ UNCHANGED <<status, current, woken, visits, scopes, waitings, undo, emit, cur,
                 steps, routed, due, slot, drove>>

\* Branch b of the top scope becomes br.
BranchBecomes(b, br) == scopes' = [scopes EXCEPT ![Len(scopes)].branches[b] = br]
TopBecomes(join, branches) ==
  scopes' = [scopes EXCEPT ![Len(scopes)] =
                [fork |-> Top.fork, join |-> join, branches |-> branches]]
FailedAt(n)   == [node |-> n, status |-> "failed", done |-> TRUE]
NodeAt(b)     == Top.branches[b].node

\* feedBranch on a timer branch, or one whose node is unknown: not offered.
FeedUnheard(b) ==
  /\ pc = "feed" /\ b \in todo
  /\ TypeOf(NodeAt(b)) \in {"timer", "missing"}
  /\ todo' = todo \ {b}
  /\ UNCHANGED <<ctxVars, pc, emit, loop, cur, steps, routed, due, slot, drove>>

Offered(b) ==
  /\ pc = "feed" /\ b \in todo
  /\ TypeOf(NodeAt(b)) \notin {"timer", "missing"}
  /\ visits' = Visited(NodeAt(b))
  /\ todo' = todo \ {b}
  /\ UNCHANGED <<status, current, event, consumed, woken, emit, loop, steps, due, slot>>

FeedNoMatch(b) ==
  /\ Offered(b)
  /\ NoNode \in FeedTargets(NodeAt(b), NameOf[event])
  /\ UNCHANGED <<scopes, waitings, undo, pc, cur, routed, drove>>

\* The input mapping fails whatever the event; the output mapping and a critical
\* effect fail once the event has matched and the slot is cleared.
FeedBranchFails(b) ==
  /\ Offered(b)
  /\ LET n == NodeAt(b) IN
       /\ BranchBecomes(b, FailedAt(n))
       /\ \/ n \in MayFail /\ UNCHANGED <<waitings, undo>>
          \/ /\ FeedTargets(n, NameOf[event]) # {NoNode}
             /\ \/ n \in MayFail /\ undo' = undo
                \/ n \in Critical /\ undo' = Pushed(n, FALSE)
             /\ waitings' = Cleared(BranchSlot(Top.fork, b))
  /\ routed' = TRUE /\ drove' = Driven
  /\ UNCHANGED <<pc, cur>>

FeedBranch(b) ==
  /\ Offered(b)
  /\ LET n == NodeAt(b) IN
     \E next \in FeedTargets(n, NameOf[event]) \ {NoNode}, ok \in Results(n) :
       /\ ok \/ n \notin Critical
       /\ undo' = Pushed(n, ok)
       /\ BranchBecomes(b, [Top.branches[b] EXCEPT !.node = next])
  /\ waitings' = Cleared(BranchSlot(Top.fork, b))
  /\ pc' = "advance" /\ cur' = b
  /\ routed' = TRUE /\ drove' = Driven

-----------------------------------------------------------------------------
\* runParallelMode takes the branches of a fresh scope one after another.
RunBranch(b) ==
  /\ pc = "fork" /\ b \in todo
  /\ todo' = todo \ {b} /\ cur' = b /\ pc' = "advance"
  /\ UNCHANGED <<ctxVars, emit, loop, steps, routed, due, slot, drove>>

\* advanceBranch comes to an end for the branch it was given.
BranchStops == pc' = loop /\ cur' = 0 /\ steps' = 0
BranchLeft  == UNCHANGED <<status, current, event, consumed, woken, emit, loop, todo,
                           routed, slot, drove>>

\* A finished branch is left alone, and the loop gives up after MaxBranchSteps.
AdvanceNothing ==
  /\ pc = "advance"
  /\ Top.branches[cur].done \/ steps >= MaxBranchSteps
  /\ BranchStops
  /\ BranchLeft /\ UNCHANGED <<visits, scopes, waitings, undo, due>>

Advancing == pc = "advance" /\ ~Top.branches[cur].done /\ steps < MaxBranchSteps

BranchTripped == NodeAt(cur) \notin Node \/ visits[NodeAt(cur)] >= MaxNodeVisits

AdvanceTripped ==
  /\ Advancing /\ BranchTripped
  /\ BranchBecomes(cur, FailedAt(NodeAt(cur)))
  /\ BranchStops
  /\ BranchLeft /\ UNCHANGED <<visits, waitings, undo, due>>

AtJoin == \/ Top.join # NoNode /\ NodeAt(cur) = Top.join
          \/ TypeOf(NodeAt(cur)) \in {"end", "join"}

\* The scope's join node, an end, or any join node completes the branch; the
\* first join reached becomes the scope's join when none was known.
AdvanceArrives ==
  /\ Advancing /\ ~BranchTripped /\ AtJoin
  /\ LET n    == NodeAt(cur)
         join == IF Top.join = NoNode /\ TypeOf(n) = "join" THEN n ELSE Top.join
         br   == [node |-> n, status |-> "completed", done |-> TRUE]
     IN  TopBecomes(join, [Top.branches EXCEPT ![cur] = br])
  /\ BranchStops
  /\ BranchLeft /\ UNCHANGED <<visits, waitings, undo, due>>

AdvanceParks ==
  /\ Advancing /\ ~BranchTripped /\ ~AtJoin /\ IsWaitingNode(NodeAt(cur))
  /\ LET s == BranchSlot(Top.fork, cur) IN
       /\ waitings' = ParkedAt(s, NodeAt(cur))
       /\ due' = IF Parks(s, NodeAt(cur)) THEN due \ {s} ELSE due
  /\ BranchBecomes(cur, [Top.branches[cur] EXCEPT !.status = "waiting"])
  /\ BranchStops
  /\ BranchLeft /\ UNCHANGED <<visits, undo>>

\* Automatic and condition nodes.
Walking ==
  /\ Advancing /\ ~BranchTripped /\ ~AtJoin /\ ~IsWaitingNode(NodeAt(cur))
  /\ visits' = Visited(NodeAt(cur))
  /\ BranchLeft /\ UNCHANGED <<waitings, due>>

AdvanceMoves ==
  /\ Walking
  /\ LET n == NodeAt(cur) IN
     \E next \in BranchTargets(n) \ {NoNode}, ok \in Results(n) :
       /\ ok \/ n \notin Critical
       /\ undo' = Pushed(n, ok)
       /\ BranchBecomes(cur, [Top.branches[cur] EXCEPT !.node = next])
  /\ steps' = steps + 1
  /\ UNCHANGED <<pc, cur>>

AdvanceFails ==
  /\ Walking
  /\ \/ NodeAt(cur) \in MayFail /\ (NodeType[NodeAt(cur)] = "condition" \/ AutoNext(NodeAt(cur)) # {})
     \/ NodeAt(cur) \in Critical /\ BranchTargets(NodeAt(cur)) # {NoNode}
  /\ BranchBecomes(cur, FailedAt(NodeAt(cur)))
  /\ BranchStops
  /\ UNCHANGED undo

\* No way forward: a condition waits for an event, an automatic node is a dead end.
AdvanceStuck ==
  /\ Walking /\ NoNode \in BranchTargets(NodeAt(cur))
  /\ BranchBecomes(cur, [node |-> NodeAt(cur), status |-> "waiting",
                         done |-> NodeType[NodeAt(cur)] # "condition"])
  /\ BranchStops
  /\ UNCHANGED undo

-----------------------------------------------------------------------------
\* settleScope, once no branch is left to advance or to feed.
Settling == pc \in {"fork", "feed", "settle"} /\ todo = {}

\* Mutant: the scope's slot is cleared and the scope stays.
PopSlotOnly == scopes' = scopes /\ waitings' = Cleared(ScopeSlot(Top.fork))
\* popScope drops the scope and its own timeout slot.
PopScope ==
  /\ scopes' = SubSeq(scopes, 1, Len(scopes) - 1)
  /\ waitings' = Cleared(ScopeSlot(Top.fork))

\* Fail-fast, or every branch over and no convergence.
SettleFails ==
  /\ Settling
  /\ FailsFast(Top) \/ Exhausted(Top)
  /\ PopScope
  /\ status' = "failed" /\ undo' = OnFailure(undo)
  /\ Return(due \ {ScopeSlot(Top.fork)})
  /\ UNCHANGED <<current, event, consumed, woken, visits, drove>>

\* completeParallel: on to the join node, or completed when there is none.
SettleConverges ==
  /\ Settling /\ ~FailsFast(Top) /\ Satisfied(Top)
  /\ PopScope
  /\ IF Top.join = NoNode
     THEN /\ status' = "completed" /\ UNCHANGED current
          /\ Return(due \ {ScopeSlot(Top.fork)})
     ELSE /\ status' = "running" /\ current' = Top.join
          /\ pc' = "drain" /\ due' = due \ {ScopeSlot(Top.fork)}
          /\ loop' = "settle" /\ routed' = FALSE /\ steps' = 0
          /\ UNCHANGED <<emit, todo, cur, slot>>
  /\ UNCHANGED <<event, consumed, woken, visits, undo, drove>>

\* enforceScopeTimeout: the elapsed time is past the scope's timeout.
SettleTimesOut ==
  /\ Settling /\ Unsettled(Top) /\ ForkOf[Top.fork].timeout
  /\ status' = "timed_out"
  /\ Return(due)
  /\ UNCHANGED <<current, event, consumed, woken, visits, scopes, waitings, undo, drove>>

\* Mutant: an advance that is over waits without judging the scope.
SettleWaitsAlways ==
  /\ Settling
  /\ status' = "waiting"
  /\ consumed' = IF loop = "feed" /\ ~routed THEN consumed \ {event} ELSE consumed
  /\ Return(due)
  /\ UNCHANGED <<current, event, woken, visits, scopes, waitings, undo, drove>>

\* Still waiting; an event that reached no branch is released for redelivery.
SettleWaits ==
  /\ Settling /\ Unsettled(Top)
  /\ status' = "waiting"
  /\ consumed' = IF loop = "feed" /\ ~routed THEN consumed \ {event} ELSE consumed
  /\ Return(due)
  /\ UNCHANGED <<current, event, woken, visits, scopes, waitings, undo, drove>>

-----------------------------------------------------------------------------
\* Runtime.WakeDue(now): the slots in d have expired.  Slots armed while the
\* call runs expire later, so d only shrinks.
WakeDue(d) ==
  /\ pc = "idle" /\ d # {} /\ d \subseteq Armed
  /\ status = "waiting" \/ WakesTerminal
  /\ pc' = "wake" /\ due' = d
  /\ UNCHANGED <<ctxVars, emit, loop, todo, cur, steps, routed, slot, drove>>

\* The key was used before: the slot is dropped without firing.
WakeDuplicate(s) ==
  /\ pc = "wake" /\ s \in due /\ WakeKey(s) \in woken
  /\ waitings' = Cleared(s)
  /\ Return(due \ {s})
  /\ UNCHANGED <<status, current, event, consumed, woken, visits, scopes, undo, drove>>

WakeConsume(s) ==
  /\ pc = "wake" /\ s \in due /\ WakeKey(s) \notin woken
  /\ woken' = woken \cup {WakeKey(s)}
  /\ slot' = s /\ pc' = "fire"
  /\ UNCHANGED <<status, current, event, consumed, visits, scopes, waitings, undo,
                 emit, loop, todo, cur, steps, routed, due, drove>>

\* fireWaiting: the slot is cleared and no external event is current.
Fire(kinds) ==
  /\ pc = "fire" /\ waitings[slot].kind \in kinds
  /\ waitings' = Cleared(slot) /\ event' = NoEvent
  /\ UNCHANGED <<consumed, woken, drove>>

FiredNode == waitings[slot].node
Remaining == due \ {slot}

FireScopeTimeout ==
  /\ Fire({"scope_timeout"})
  /\ LET open == {i \in DOMAIN scopes : scopes[i].fork = FiredNode}
     IN  status' = IF \E i \in open : /\ \A j \in open : j <= i
                                      /\ ~Satisfied(scopes[i]) /\ ~Exhausted(scopes[i])
                   THEN "timed_out" ELSE status
  /\ Return(Remaining)
  /\ UNCHANGED <<current, visits, scopes, undo>>

\* The data mapping of the node being left fails.
FireDeadlineFails ==
  /\ Fire({"deadline"}) /\ FiredNode \in MayFail
  /\ status' = "failed"
  /\ Return(Remaining)
  /\ UNCHANGED <<current, visits, scopes, undo>>

\* The instance escalates to the deadline's next node.
FireDeadline ==
  /\ Fire({"deadline"}) /\ slot = InstanceSlot
  /\ status' = "running" /\ current' = Deadline[FiredNode]
  /\ pc' = IF IsWaitingNode(Deadline[FiredNode]) THEN "park" ELSE "drain"
  /\ due' = Remaining /\ slot' = NoSlot
  /\ UNCHANGED <<visits, scopes, undo, emit, loop, todo, cur, steps, routed>>

\* A branch slot acts on the scope that holds the branch, if there is one.
ScopeHolds(s) == s.kind = "branch" /\ scopes # <<>> /\ Top.fork = s.node

FireDeadlineBranch ==
  /\ Fire({"deadline"}) /\ ScopeHolds(slot)
  /\ BranchBecomes(slot.branch, [Top.branches[slot.branch] EXCEPT !.node = Deadline[FiredNode]])
  /\ pc' = "advance" /\ loop' = "settle" /\ cur' = slot.branch
  /\ due' = Remaining /\ slot' = NoSlot
  /\ UNCHANGED <<status, current, visits, undo, emit, todo, steps, routed>>

\* The branch's scope is gone: its deadline or timer has nothing left to move.
FireOrphan ==
  /\ Fire({"deadline", "timer"}) /\ slot.kind = "branch" /\ ~ScopeHolds(slot)
  /\ Return(Remaining)
  /\ UNCHANGED <<status, current, visits, scopes, undo>>

FireTimer ==
  /\ Fire({"timer"}) /\ slot = InstanceSlot
  /\ status' = "running" /\ current' = FiredNode
  /\ pc' = "drain" /\ due' = Remaining /\ slot' = NoSlot
  /\ UNCHANGED <<visits, scopes, undo, emit, loop, todo, cur, steps, routed>>

\* advanceTimerBranch: the when chain and the default route, no event.
FireTimerBranch ==
  /\ Fire({"timer"}) /\ ScopeHolds(slot)
  /\ visits' = Visited(FiredNode)
  /\ LET n == FiredNode
         b == slot.branch
     IN  \/ \E next \in WhenNexts(n) \ {NoNode}, ok \in Results(n) :
              /\ ok \/ n \notin Critical
              /\ undo' = Pushed(n, ok)
              /\ BranchBecomes(b, [Top.branches[b] EXCEPT !.node = next])
              /\ pc' = "advance" /\ cur' = b
         \/ /\ n \in MayFail \cup Critical \/ NoNode \in WhenNexts(n)
            /\ BranchBecomes(b, FailedAt(NodeAt(b)))
            /\ pc' = "settle"
            /\ UNCHANGED <<undo, cur>>
  /\ loop' = "settle" /\ due' = Remaining /\ slot' = NoSlot
  /\ UNCHANGED <<status, current, emit, todo, steps, routed>>

\* Runtime.Compensate.
Compensate ==
  /\ pc = "idle" /\ undo # Compensated(undo)
  /\ undo' = Compensated(undo)
  /\ UNCHANGED <<status, current, event, consumed, woken, visits, scopes, waitings,
                 callVars, drove>>

-----------------------------------------------------------------------------
Drain    == DrainRunaway \/ StepMissing \/ StepEnd \/ StepFork \/ StepMove \/ StepFail
Dispatch == DispatchFailed \/ DispatchForked \/ DispatchCompleted \/ DispatchMoved
Feeding  == \E b \in todo : FeedUnheard(b) \/ FeedNoMatch(b) \/ FeedBranchFails(b) \/ FeedBranch(b)
Advance  == \/ \E b \in todo : RunBranch(b)
            \/ AdvanceNothing \/ AdvanceTripped \/ AdvanceArrives \/ AdvanceParks
            \/ AdvanceMoves \/ AdvanceFails \/ AdvanceStuck
Settle   == SettleFails \/ SettleConverges \/ SettleTimesOut \/ SettleWaits
Waking   == \/ \E s \in due : WakeDuplicate(s) \/ WakeConsume(s)
            \/ FireScopeTimeout \/ FireDeadlineFails \/ FireDeadline \/ FireDeadlineBranch
            \/ FireOrphan \/ FireTimer \/ FireTimerBranch

\* The steps of a call under way, and the calls of the host.
CallStep == Drain \/ Dispatch \/ Park \/ Feeding \/ Advance \/ Settle \/ Waking
HostCall == \/ Start \/ Compensate
            \/ \E e \in EventId : FeedInstance(e) \/ FeedScope(e)
            \/ \E d \in SUBSET Slot : WakeDue(d)

Next == CallStep \/ HostCall

Spec == Init /\ [][Next]_vars

\* A call runs to its end, and the host's timer reports every armed slot in time:
\* between the calls of others it gets its turn again and again.
Fairness == /\ WF_vars(CallStep) /\ WF_vars(Start)
            /\ \A s \in Slot : SF_vars(\E d \in SUBSET Slot : s \in d /\ WakeDue(d))
FairSpec == Spec /\ Fairness

-----------------------------------------------------------------------------
(* Properties. *)

AtRest == pc \in {"idle", "wake", "fire"}

\* Every variable keeps to the values the code can give it; in particular the
\* slots a WakeDue still has to fire are armed, so none is fired twice.
ContextOK ==
  /\ status \in Status /\ current \in Node \cup {NoNode}
  /\ event \in EventId \cup {NoEvent} /\ consumed \subseteq EventId
  /\ woken \subseteq WakeKeys
  /\ visits \in [Node -> Nat]
  /\ scopes \in Seq(Scope)
  /\ waitings \in [Slot -> Waiting \cup {NoWait}]
  /\ undo \in Seq(UndoEntry)
  /\ drove \subseteq EventId
CallOK ==
  /\ pc \in {"idle", "drain", "dispatch", "park", "fork", "feed", "advance", "settle",
             "wake", "fire"}
  /\ emit \in Node \cup {NoNode} /\ loop \in {"settle", "fork", "feed"}
  /\ todo \subseteq Nat /\ cur \in Nat /\ steps \in Nat /\ routed \in BOOLEAN
  /\ due \subseteq Armed /\ slot \in Slot \cup {NoSlot}
  /\ pc = "fire" => slot \in due
  /\ pc = "idle" \/ loop = "feed" => due = {}
  /\ pc = "feed" => loop = "feed"
  /\ AtRest => todo = {} /\ loop = "settle"
TypeOK == ContextOK /\ CallOK

\* An instance that was not started has nothing open and nothing armed.
FreshIsClean == status = "pending" => pc = "idle" /\ scopes = <<>> /\ Armed = {}

\* A parallel scope owns the instance: at most one is open, the instance stands
\* at its fork, and drain never runs beside it (runtime.go Feed, settleScope).
ScopeDiscipline ==
  /\ Len(scopes) <= 1
  /\ scopes # <<>> => current = Top.fork
  /\ pc \in {"drain", "park"} => scopes = <<>>
  /\ pc \in {"fork", "feed", "advance", "settle"} =>
       scopes # <<>> /\ todo \subseteq Branches(Top)
  /\ pc = "advance" => cur \in Branches(Top)
  /\ AtRest => todo = {}
  /\ pc = "dispatch" => /\ scopes # <<>> => TypeOf(emit) = "parallel" /\ Unsettled(Top)
                        /\ TypeOf(emit) = "parallel" /\ status # "failed" => scopes # <<>>
                        /\ TypeOf(emit) = "end" => status # "running"

\* The instance slot is armed only while the instance itself waits at its node,
\* so a deadline or timer never drags the instance away from where an event or
\* a fork has taken it since (clearWaiting in Feed and fireWaiting).
InstanceSlotIsCurrent ==
  waitings[InstanceSlot] # NoWait =>
    scopes = <<>> /\ AtRest /\ waitings[InstanceSlot].node = current

\* No call of the host ends with the instance running: it waits or is terminal.
NeverLeftRunning == AtRest => status # "running"

\* A scope that converged, failed or ran out of branches is never left open for
\* the next event to find (Feed and settleScope judge after every advance).
OpenScopeUndecided == AtRest /\ scopes # <<>> => Unsettled(Top)

\* Between calls every branch of a waiting instance is done, or waits at a node
\* that an event or the clock can take it from (advanceBranch).
BranchesParked ==
  AtRest /\ status = "waiting" /\ scopes # <<>> =>
    \A b \in Branches(Top) :
      LET br == Top.branches[b]
      IN  \/ br.done
          \/ /\ br.status = "waiting"
             /\ IsWaitingNode(br.node) \/ TypeOf(br.node) = "condition"

\* Whoever waits at a timer or at a node with a deadline is watched: its slot
\* is armed for that node (parkWaiting; WakeDue drops a slot only to fire it).
TimedWaitArmed ==
  AtRest /\ status = "waiting" =>
    IF scopes = <<>>
    THEN IsTimedNode(current) => waitings[InstanceSlot].node = current
    ELSE \A b \in Branches(Top) :
           LET br == Top.branches[b]
           IN  ~br.done /\ br.status = "waiting" /\ IsTimedNode(br.node)
               => waitings[BranchSlot(Top.fork, b)].node = br.node

\* A branch slot watches a branch that waits at the slot's node in the open scope.
BranchSlotIsLive ==
  AtRest => \A s \in Armed :
    s.kind = "branch" =>
      /\ scopes # <<>> /\ Top.fork = s.node
      /\ Top.branches[s.branch].node = waitings[s].node
      /\ ~Top.branches[s.branch].done

\* An event counts as consumed exactly when it moved the instance or a branch:
\* never applied without being recorded, never burned without having an effect.
ConsumedExactlyIfDrove ==
  /\ drove \subseteq consumed
  /\ pc = "idle" /\ status \notin Terminal => consumed = drove

\* With automatic compensation a failed instance has no compensation outstanding.
FailedMeansCompensated ==
  pc = "idle" /\ AutoCompensate /\ status = "failed" => undo = Compensated(undo)

\* A terminal instance keeps its status and its place; the one exception the code
\* makes is the end node whose own critical effect fails after completion.
TerminalIsFinal ==
  [][pc # "dispatch" /\ status \in Terminal => status' = status /\ current' = current]_vars

\* A finished branch is inert: while its scope is open nothing moves or revives it.
DoneBranchInert ==
  [][\A b \in IF scopes # <<>> /\ scopes' # <<>> THEN DoneIn(Top) ELSE {} :
       scopes'[Len(scopes')].branches[b] = Top.branches[b]]_scopes

\* The undo stack is a record: entries are only added, and done stays done.
UndoIsRecord ==
  [][/\ Len(undo') >= Len(undo)
     /\ \A i \in DOMAIN undo : /\ undo'[i].node = undo[i].node
                               /\ undo[i].done => undo'[i].done]_undo

\* What every definition keeps, whatever its slots and scopes are: the inductive
\* invariant of the runtime.
Inv == /\ TypeOK /\ FreshIsClean /\ ScopeDiscipline /\ InstanceSlotIsCurrent
       /\ OpenScopeUndecided /\ NeverLeftRunning

\* Every call of the host returns.
CallsReturn == pc # "idle" ~> pc = "idle"

\* Nobody waits for ever at a node the definition gave a time limit.
WaitsAt(n) ==
  /\ status = "waiting"
  /\ IF scopes = <<>> THEN current = n
     ELSE \E b \in Branches(Top) : /\ ~Top.branches[b].done
                                   /\ Top.branches[b].status = "waiting"
                                   /\ Top.branches[b].node = n
TimedWaitEnds == \A n \in {m \in Node : IsTimedNode(m)} : WaitsAt(n) ~> ~WaitsAt(n)
=============================================================================
