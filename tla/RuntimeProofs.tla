---------------------------- MODULE RuntimeProofs ----------------------------
(***************************************************************************)
(* Theorems about Runtime, for every process definition and every setting  *)
(* of the fuses.  The first part states what the operators of Runtime      *)
(* return and that each action preserves Inv, one lemma per phase of a     *)
(* call; the undo stack and the record of events follow.  The later parts  *)
(* are about slots and branches.  What they say does not hold of every     *)
(* definition: their hypotheses on the definition are named operators      *)
(* (DeadlinesMap, ScopesUntimed, ScopesAwaitAll, DeadEndsMap,              *)
(* BranchesShort), and each theorem asks for those it needs.               *)
(***************************************************************************)
EXTENDS Runtime, TLAPS, SequenceTheorems, FiniteSetTheorems, WellFoundedInduction

-----------------------------------------------------------------------------
(* The definition and the waiting table. *)

\* Every route a definition declares leads to a node or to the empty ID.
LEMMA RouteTypes ==
  ASSUME NEW n \in Node, NEW name
  PROVE  /\ StepTargets(n, name) \subseteq Node \cup {NoNode}
         /\ FeedTargets(n, name) \subseteq Node \cup {NoNode}
         /\ BranchTargets(n) \subseteq Node \cup {NoNode}
         /\ WhenNexts(n) \subseteq Node \cup {NoNode}
         /\ \A i \in DOMAIN Trans[n] : Trans[n][i].next \in Node \cup {NoNode}
<1>1. \A i \in DOMAIN Trans[n] : Trans[n][i].next \in Node \cup {NoNode}
  BY DefinitionAssumption DEF Transition
<1>2. ASSUME NEW S \in SUBSET DOMAIN Trans[n]
      PROVE  FirstNext(n, S) \subseteq Node \cup {NoNode}
  BY <1>1 DEF FirstNext
<1>3. EventNext(n, name) \subseteq Node \cup {NoNode}
  BY <1>2 DEF EventNext, EventMatches
<1>4. AutoNext(n) \subseteq Node \cup {NoNode}
  BY <1>2 DEF AutoNext
<1>5. WhenNexts(n) \subseteq Node \cup {NoNode}
  <2>1. FirstNext(n, {i \in DOMAIN Trans[n] : ~Trans[n][i].when}) \subseteq Node \cup {NoNode}
    BY <1>2
  <2> QED BY <1>1, <2>1 DEF WhenNexts, OrNone
<1>6. Fallthrough(n, name) \subseteq Node \cup {NoNode}
  BY <1>3, <1>4 DEF Fallthrough
<1>7. ChainOutcomes(n) \subseteq Node \cup {NoNode}
  BY <1>5 DEF ChainOutcomes
<1> QED BY <1>1, <1>3, <1>4, <1>5, <1>6, <1>7 DEF StepTargets, FeedTargets, BranchTargets, OrNone

\* The indices of a parallel node's transitions are natural numbers.
LEMMA BranchNumbers == \A f \in ForkNode : f \in Node /\ BranchOf(f) \subseteq Nat
BY DefinitionAssumption DEF ForkNode, BranchOf

\* The keys of the waiting table are told apart by their kind.
LEMMA SlotKinds ==
  /\ InstanceSlot \in Slot
  /\ \A f \in ForkNode : ScopeSlot(f) \in Slot /\ ScopeSlot(f) # InstanceSlot
  /\ \A f \in ForkNode : \A b \in BranchOf(f) :
       BranchSlot(f, b) \in Slot /\ BranchSlot(f, b) # InstanceSlot
  /\ NoSlot \notin Slot
  /\ \A s \in Slot : s.kind = "branch" => s.node \in ForkNode /\ s.branch \in BranchOf(s.node)
<1>1. InstanceSlot \in Slot
  BY DEF Slot
<1>2. ASSUME NEW f \in ForkNode
      PROVE  ScopeSlot(f) \in Slot /\ ScopeSlot(f) # InstanceSlot
  BY DEF Slot, ScopeSlot, InstanceSlot
<1>3. ASSUME NEW f \in ForkNode, NEW b \in BranchOf(f)
      PROVE  BranchSlot(f, b) \in Slot /\ BranchSlot(f, b) # InstanceSlot
  <2>1. BranchSlot(f, b) \in BranchSlots
    BY DEF BranchSlots
  <2> QED BY <2>1 DEF Slot, BranchSlot, InstanceSlot
<1>4. ASSUME NEW s \in Slot
      PROVE  /\ s # NoSlot
             /\ s.kind = "branch" => s.node \in ForkNode /\ s.branch \in BranchOf(s.node)
  <2>1. CASE s = InstanceSlot
    BY <2>1 DEF InstanceSlot, NoSlot
  <2>2. CASE s \in {ScopeSlot(f) : f \in ForkNode}
    BY <2>2 DEF ScopeSlot, NoSlot
  <2>3. CASE s \in BranchSlots
    <3>1. PICK f \in ForkNode : \E b \in BranchOf(f) : s = BranchSlot(f, b)
      BY <2>3 DEF BranchSlots
    <3> QED BY <3>1 DEF BranchSlot, NoSlot
  <2> QED BY <2>1, <2>2, <2>3 DEF Slot
<1> QED BY <1>1, <1>2, <1>3, <1>4

\* Clearing a slot disarms that slot and no other.
LEMMA Clearing ==
  ASSUME waitings \in [Slot -> Waiting \cup {NoWait}], NEW s \in Slot, waitings' = Cleared(s)
  PROVE  /\ waitings' \in [Slot -> Waiting \cup {NoWait}]
         /\ Armed' = Armed \ {s}
         /\ waitings'[s] = NoWait
         /\ \A t \in Slot : t # s => waitings'[t] = waitings[t]
BY DEF Cleared, Armed

\* Parking leaves a well-formed table: the slot given is armed for the node or
\* stays as it was, and no other slot changes.
LEMMA Parking ==
  ASSUME waitings \in [Slot -> Waiting \cup {NoWait}], visits \in [Node -> Nat],
         NEW s \in Slot, NEW n, waitings' = ParkedAt(s, n)
  PROVE  /\ waitings' \in [Slot -> Waiting \cup {NoWait}]
         /\ Armed \subseteq Armed'
         /\ \A t \in Slot : t # s => waitings'[t] = waitings[t]
         /\ IF Parks(s, n) THEN waitings'[s].node = n ELSE UNCHANGED waitings
<1>1. CASE ~Parks(s, n)
  BY <1>1 DEF ParkedAt, Armed
<1>2. CASE Parks(s, n)
  <2> DEFINE w == [kind  |-> IF TypeOf(n) = "timer" THEN "timer" ELSE "deadline",
                   node  |-> n, visit |-> visits[n]]
  <2>1. n \in Node
    BY <1>2 DEF Parks, IsTimedNode, TypeOf
  <2>2. w \in Waiting /\ w # NoWait /\ w.node = n
    BY <2>1 DEF Waiting, NoWait
  <2>3. waitings' = [waitings EXCEPT ![s] = w]
    BY <1>2 DEF ParkedAt
  <2> HIDE DEF w
  <2> QED BY <1>2, <2>2, <2>3 DEF Armed
<1> QED BY <1>1, <1>2

\* A waiting state that is armed names a node.
LEMMA ArmedNode ==
  ASSUME waitings \in [Slot -> Waiting \cup {NoWait}], NEW s \in Slot,
         waitings[s] # NoWait
  PROVE  waitings[s] \in Waiting /\ waitings[s].node \in Node
BY DEF Waiting

\* Compensation marks the entries of the stack and keeps their number.
LEMMA UndoTypes ==
  ASSUME undo \in Seq(UndoEntry)
  PROVE  /\ \A u \in Seq(UndoEntry) : Compensated(u) \in Seq(UndoEntry)
         /\ \A u \in Seq(UndoEntry) : OnFailure(u) \in Seq(UndoEntry)
         /\ \A n, ok : Pushed(n, ok) \in Seq(UndoEntry)
<1>1. ASSUME NEW u \in Seq(UndoEntry)
      PROVE  Compensated(u) \in Seq(UndoEntry)
  <2>1. u \in [1 .. Len(u) -> UndoEntry] /\ Len(u) \in Nat /\ DOMAIN u = 1 .. Len(u)
    BY LenProperties
  <2>2. ASSUME NEW i \in 1 .. Len(u)
        PROVE  [u[i] EXCEPT !.done = TRUE] \in UndoEntry
    <3>1. u[i] \in UndoEntry
      BY <2>1
    <3> QED BY <3>1 DEF UndoEntry
  <2>3. Compensated(u) = [i \in 1 .. Len(u) |-> [u[i] EXCEPT !.done = TRUE]]
    BY <2>1 DEF Compensated
  <2>4. Compensated(u) \in [1 .. Len(u) -> UndoEntry]
    BY <2>2, <2>3
  <2> QED BY <2>1, <2>4, IsASeq
<1>2. ASSUME NEW n, NEW ok
      PROVE  Pushed(n, ok) \in Seq(UndoEntry)
  <2>1. n \in Compensable => [node |-> n, done |-> FALSE] \in UndoEntry
    BY DefinitionAssumption DEF UndoEntry
  <2> QED BY <2>1 DEF Pushed
<1> QED BY <1>1, <1>2 DEF OnFailure

-----------------------------------------------------------------------------
(* The scope on top of the stack. *)

\* The scope on top is one of the definition's forks with one branch per transition.
LEMMA TopScope ==
  ASSUME scopes \in Seq(Scope), scopes # <<>>
  PROVE  /\ Len(scopes) \in 1 .. Len(scopes) /\ Top \in Scope
         /\ Top.fork \in ForkNode
         /\ Top.join \in Node \cup {NoNode}
         /\ Top.branches \in [BranchOf(Top.fork) -> Branch]
         /\ Branches(Top) = BranchOf(Top.fork)
<1>1. Len(scopes) \in 1 .. Len(scopes) /\ Top \in Scope
  BY EmptySeq, ElementOfSeq DEF Top
<1> QED BY <1>1 DEF Scope, Branches

\* Replacing the scope on top by one of the same fork keeps the stack's shape.
LEMMA TopUpdate ==
  ASSUME scopes \in Seq(Scope), scopes # <<>>,
         NEW sc \in Scope, sc.fork = Top.fork, scopes' = [scopes EXCEPT ![Len(scopes)] = sc]
  PROVE  /\ scopes' \in Seq(Scope) /\ scopes' # <<>> /\ Len(scopes') = Len(scopes)
         /\ Top'.fork = Top.fork /\ Branches(Top)' = Branches(Top)
<1>1. /\ Len(scopes) \in 1 .. Len(scopes)
      /\ Branches(Top) = BranchOf(Top.fork) /\ Branches(sc) = BranchOf(sc.fork)
  BY TopScope DEF Scope, Branches
<1>2. scopes' \in Seq(Scope) /\ Len(scopes') = Len(scopes) /\ scopes'[Len(scopes)] = sc
  BY <1>1, ExceptSeq
<1>3. scopes' # <<>>
  BY <1>1, <1>2, EmptySeq
<1> QED BY <1>1, <1>2, <1>3 DEF Top

\* In particular, changing one branch, and with it perhaps the join.
LEMMA BranchUpdate ==
  ASSUME scopes \in Seq(Scope), scopes # <<>>,
         NEW b \in Branches(Top), NEW br \in Branch, NEW join \in Node \cup {NoNode},
         \/ BranchBecomes(b, br)
         \/ TopBecomes(join, [Top.branches EXCEPT ![b] = br])
  PROVE  /\ scopes' \in Seq(Scope) /\ scopes' # <<>> /\ Len(scopes') = Len(scopes)
         /\ Top'.fork = Top.fork /\ Branches(Top)' = Branches(Top)
<1> DEFINE new(j) == [fork |-> Top.fork, join |-> j,
                      branches |-> [Top.branches EXCEPT ![b] = br]]
<1>1. /\ Len(scopes) \in 1 .. Len(scopes) /\ Top \in Scope
      /\ Top.branches \in [BranchOf(Top.fork) -> Branch]
      /\ Branches(Top) = BranchOf(Top.fork) /\ Top.join \in Node \cup {NoNode}
  BY TopScope
<1>2. PICK f \in ForkNode : Top \in [fork : {f}, join : Node \cup {NoNode},
                                     branches : [BranchOf(f) -> Branch]]
  BY <1>1 DEF Scope
<1>3. ASSUME NEW j \in Node \cup {NoNode}
      PROVE  new(j) \in Scope /\ new(j).fork = Top.fork
  <2>1. Top.fork = f /\ b \in BranchOf(f)
    BY <1>1, <1>2
  <2>2. [Top.branches EXCEPT ![b] = br] \in [BranchOf(f) -> Branch]
    BY <1>2, <2>1
  <2> QED BY <2>1, <2>2 DEF Scope
<1>4. [Top EXCEPT !.branches[b] = br] = new(Top.join)
  BY <1>2
<1>5. \E j \in Node \cup {NoNode} : scopes' = [scopes EXCEPT ![Len(scopes)] = new(j)]
  <2>1. CASE BranchBecomes(b, br)
    <3>1. scopes' = [scopes EXCEPT ![Len(scopes)] = [Top EXCEPT !.branches[b] = br]]
      BY <2>1 DEF BranchBecomes, Top
    <3> QED BY <1>1, <1>4, <3>1
  <2>2. CASE TopBecomes(join, [Top.branches EXCEPT ![b] = br])
    BY <2>2 DEF TopBecomes
  <2> QED BY <2>1, <2>2
<1> HIDE DEF new
<1> QED BY <1>3, <1>5, TopUpdate

\* With one scope open, popping it leaves none.
LEMMA Popping ==
  ASSUME scopes \in Seq(Scope), scopes # <<>>, Len(scopes) <= 1, PopScope
  PROVE  scopes' = <<>>
<1>1. Len(scopes) = 1
  BY EmptySeq
<1> QED BY <1>1, SubSeqEmpty DEF PopScope

\* A scope just opened is neither converged nor failed.
LEMMA FreshUnsettled ==
  ASSUME NEW sc, sc.fork \in ForkNode, Branches(sc) # {},
         \A b \in Branches(sc) : sc.branches[b].status = "running" /\ ~sc.branches[b].done
  PROVE  Unsettled(sc)
<1>1. DoneIn(sc) = {} /\ WithStatus(sc, "completed") = {} /\ WithStatus(sc, "failed") = {}
  BY DEF DoneIn, WithStatus
<1>2. ForkOf[sc.fork].required \in Nat
  BY DefinitionAssumption DEF ForkNode, ScopeConfig
<1>3. Cardinality({}) = 0
  BY FS_EmptySet
<1>4. ~Satisfied(sc)
  BY <1>1, <1>2, <1>3 DEF Satisfied
<1> QED BY <1>1, <1>4 DEF Unsettled, FailsFast, Exhausted

-----------------------------------------------------------------------------
(* Each action preserves Inv. *)

\* An instance that was just created satisfies Inv (NewExecutionContext).
LEMMA InvInit == Init => Inv
<1> SUFFICES ASSUME Init PROVE Inv
  OBVIOUS
<1>1. Armed = {}
  BY DEF Init, Armed
<1>2. ContextOK
  <2>1. <<>> \in Seq(Scope) /\ <<>> \in Seq(UndoEntry)
    BY EmptySeq
  <2> QED BY <2>1 DEF ContextOK, Init, Status
<1>3. CallOK
  BY <1>1 DEF CallOK, Init, AtRest
<1>4. FreshIsClean /\ ScopeDiscipline
  BY <1>1 DEF Init, FreshIsClean, ScopeDiscipline, AtRest
<1>5. InstanceSlotIsCurrent /\ OpenScopeUndecided /\ NeverLeftRunning
  BY SlotKinds DEF Init, InstanceSlotIsCurrent, OpenScopeUndecided, NeverLeftRunning
<1> QED BY <1>2, <1>3, <1>4, <1>5 DEF Inv, TypeOK

\* What a call has to leave behind when it returns.
LEMMA Returning ==
  ASSUME NEW d, Return(d), d \subseteq Armed', ContextOK',
         status' \notin {"running", "pending"},
         Len(scopes') <= 1,
         scopes' # <<>> => current' = Top'.fork /\ Unsettled(Top'),
         waitings'[InstanceSlot] # NoWait =>
           scopes' = <<>> /\ waitings'[InstanceSlot].node = current'
  PROVE  Inv'
<1>1. /\ pc' \in {"idle", "wake"} /\ (pc' = "idle" => d = {}) /\ due' = d /\ emit' = NoNode
      /\ loop' = "settle" /\ todo' = {} /\ cur' = 0 /\ steps' = 0 /\ routed' = FALSE
      /\ slot' = NoSlot
  BY DEF Return, AfterCall
<1>2. CallOK'
  BY <1>1 DEF CallOK, AtRest
<1> QED BY <1>1, <1>2 DEF Inv, TypeOK, FreshIsClean, ScopeDiscipline, InstanceSlotIsCurrent,
                          OpenScopeUndecided, NeverLeftRunning, AtRest

\* What it has to leave behind when it goes on: the conjuncts that a step may
\* disturb while no slot of the instance is armed.
LEMMA GoingOn ==
  ASSUME ContextOK', CallOK', ScopeDiscipline', ~AtRest', status' # "pending",
         waitings'[InstanceSlot] = NoWait
  PROVE  Inv'
BY DEF Inv, TypeOK, FreshIsClean, InstanceSlotIsCurrent, OpenScopeUndecided, NeverLeftRunning,
       AtRest

\* While a call is under way the instance slot is not armed, and the instance
\* is no longer pending.
LEMMA UnderWay ==
  ASSUME Inv
  PROVE  /\ ContextOK /\ CallOK
         /\ ~AtRest => waitings[InstanceSlot] = NoWait
         /\ pc # "idle" => status # "pending"
BY DEF Inv, TypeOK, InstanceSlotIsCurrent, FreshIsClean

-----------------------------------------------------------------------------
(* drain and the dispatch of side effects. *)

\* What holds at the head of the drain loop.
LEMMA AtDrain ==
  ASSUME Inv, pc = "drain"
  PROVE  /\ ContextOK /\ CallOK /\ scopes = <<>> /\ Len(scopes) <= 1
         /\ waitings[InstanceSlot] = NoWait /\ status # "pending"
BY UnderWay DEF Inv, ScopeDiscipline, AtRest

\* The loop's two fuses, and a node the definition does not hold.
LEMMA DrainEndsInv ==
  ASSUME Inv, DrainRunaway \/ StepMissing
  PROVE  Inv'
<1>1. /\ pc = "drain" /\ status' = "failed" /\ undo' = OnFailure(undo) /\ Return(due)
      /\ UNCHANGED <<current, event, consumed, woken, visits, scopes, waitings, drove>>
  BY DEF DrainRunaway, StepMissing, Stepping
<1>2. /\ ContextOK /\ CallOK /\ scopes = <<>> /\ Len(scopes) <= 1
      /\ waitings[InstanceSlot] = NoWait
  BY <1>1, AtDrain
<1>3. undo' \in Seq(UndoEntry)
  BY <1>1, <1>2, UndoTypes DEF ContextOK
<1>4. ContextOK'
  BY <1>1, <1>2, <1>3 DEF ContextOK, Status
<1>5. due \subseteq Armed'
  BY <1>1, <1>2 DEF CallOK, Armed
<1> QED BY <1>1, <1>2, <1>4, <1>5, Returning

\* What a step has to show once its transition is on record.
LEMMA Deciding ==
  ASSUME Inv, pc = "drain", Decided, current \in Node,
         current' \in Node \cup {NoNode}, status' \in Status, status' # "pending",
         scopes' \in Seq(Scope), waitings' \in [Slot -> Waiting \cup {NoWait}],
         due' \subseteq due, due' \subseteq Armed', waitings'[InstanceSlot] = NoWait,
         ScopeDiscipline'
  PROVE  Inv'
<1>1. ContextOK /\ CallOK
  BY AtDrain
<1>2. /\ pc' = "dispatch" /\ emit' = current /\ visits' = Visited(current) /\ drove' = Driven
      /\ UNCHANGED <<event, consumed, woken, undo, loop, todo, cur, steps, routed, slot>>
  BY DEF Decided
<1>3. visits' \in [Node -> Nat]
  BY <1>1, <1>2 DEF ContextOK, Visited
<1>4. drove' \subseteq EventId
  BY <1>1, <1>2 DEF ContextOK, Driven
<1>5. ContextOK'
  BY <1>1, <1>2, <1>3, <1>4 DEF ContextOK
<1>6. CallOK' /\ ~AtRest'
  BY <1>1, <1>2 DEF CallOK, AtRest
<1> QED BY <1>5, <1>6, GoingOn

\* A step that leads on, ends the instance or fails.
LEMMA DrainStepsInv ==
  ASSUME Inv, StepEnd \/ StepMove \/ StepFail
  PROVE  Inv'
<1>1. /\ pc = "drain" /\ Decided /\ UNCHANGED <<scopes, waitings, due>>
      /\ current \in Node /\ TypeOf(current) # "parallel"
  BY DEF StepEnd, StepMove, StepFail, Stepping, Selecting, TypeOf
<1>2. /\ ContextOK /\ CallOK /\ scopes = <<>> /\ Len(scopes) <= 1
      /\ waitings[InstanceSlot] = NoWait
  BY <1>1, AtDrain
<1>3. current' \in Node \cup {NoNode}
  <2>1. CASE StepMove
    BY <1>1, <2>1, RouteTypes DEF StepMove
  <2>2. CASE StepEnd \/ StepFail
    BY <1>1, <2>2 DEF StepEnd, StepFail
  <2> QED BY <2>1, <2>2
<1>4. /\ status' \in {"running", "completed", "failed"}
      /\ TypeOf(current) = "end" => status' # "running"
  BY DEF StepEnd, StepMove, StepFail, Selecting
<1>5. Armed' = Armed
  BY <1>1 DEF Armed
<1>6. ScopeDiscipline'
  BY <1>1, <1>2, <1>4 DEF ScopeDiscipline, Decided, AtRest, TypeOf
<1> QED BY <1>1, <1>2, <1>3, <1>4, <1>5, <1>6, Deciding DEF ContextOK, CallOK, Status

\* A fork opens one scope whose branches all run.
LEMMA StepForkInv ==
  ASSUME Inv, StepFork
  PROVE  Inv'
<1> DEFINE sc == [fork |-> current, join |-> ForkOf[current].join,
                  branches |-> [b \in BranchOf(current) |->
                     [node |-> Trans[current][b].next, status |-> "running", done |-> FALSE]]]
           wait == [kind |-> "scope_timeout", node |-> current, visit |-> visits[current] + 1]
           broken == BranchOf(current) = {} \/ \E b \in BranchOf(current) : Trans[current][b].next = NoNode
<1>1. /\ pc = "drain" /\ TypeOf(current) = "parallel" /\ Decided /\ UNCHANGED current
  BY DEF StepFork, Stepping
<1>2. /\ ContextOK /\ CallOK /\ scopes = <<>> /\ Len(scopes) <= 1
      /\ waitings[InstanceSlot] = NoWait /\ status # "pending"
  BY <1>1, AtDrain
<1>3. current \in ForkNode /\ current \in Node
  BY <1>1 DEF TypeOf, ForkNode
<1>4. CASE broken
  <2>1. status' = "failed" /\ UNCHANGED <<scopes, waitings, due>>
    BY <1>4 DEF StepFork
  <2>2. Armed' = Armed
    BY <2>1 DEF Armed
  <2>3. ScopeDiscipline'
    BY <1>1, <1>2, <2>1 DEF ScopeDiscipline, Decided, AtRest
  <2> QED BY <1>1, <1>2, <1>3, <2>1, <2>2, <2>3, Deciding DEF ContextOK, CallOK, Status
<1>5. CASE ~broken
  <2>1. /\ scopes' = Append(scopes, sc) /\ status' = status
        /\ \/ UNCHANGED <<waitings, due>>
           \/ /\ waitings' = [waitings EXCEPT ![ScopeSlot(current)] = wait]
              /\ due' = due \ {ScopeSlot(current)}
    BY <1>5 DEF StepFork
  <2>2. sc \in Scope /\ sc.fork = current /\ Branches(sc) = BranchOf(current)
    <3>1. ForkOf[current].join \in Node \cup {NoNode}
      BY <1>3, DefinitionAssumption DEF ScopeConfig
    <3>2. sc.branches \in [BranchOf(current) -> Branch]
      BY <1>3, RouteTypes DEF Branch, BranchStatus, BranchOf
    <3>3. sc \in [fork : {current}, join : Node \cup {NoNode}, branches : [BranchOf(current) -> Branch]]
      BY <3>1, <3>2
    <3> QED BY <1>3, <3>3 DEF Scope, Branches
  <2>3. Unsettled(sc)
    <3>1. \A b \in Branches(sc) : sc.branches[b].status = "running" /\ ~sc.branches[b].done
      BY <2>2
    <3> HIDE DEF sc
    <3> QED BY <1>3, <1>5, <2>2, <3>1, FreshUnsettled
  <2>4. scopes' \in Seq(Scope) /\ Len(scopes') = 1 /\ scopes' # <<>> /\ Top' = sc
    <3> HIDE DEF sc
    <3>1. scopes' = <<sc>>
      BY <1>2, <2>1
    <3> QED BY <2>2, <3>1 DEF Top
  <2>5. /\ waitings' \in [Slot -> Waiting \cup {NoWait}] /\ waitings'[InstanceSlot] = NoWait
        /\ due' \subseteq due /\ due' \subseteq Armed'
    <3>1. wait \in Waiting /\ ScopeSlot(current) \in Slot /\ ScopeSlot(current) # InstanceSlot
      BY <1>2, <1>3, SlotKinds DEF Waiting, ContextOK
    <3>2. InstanceSlot \in Slot
      BY SlotKinds
    <3> HIDE DEF wait
    <3> QED BY <1>2, <2>1, <3>1, <3>2 DEF ContextOK, CallOK, Armed
  <2>6. ScopeDiscipline'
    <3> HIDE DEF sc
    <3> QED BY <1>1, <2>2, <2>3, <2>4 DEF ScopeDiscipline, Decided, AtRest
  <2> HIDE DEF sc, wait
  <2> QED BY <1>1, <1>2, <1>3, <2>1, <2>4, <2>5, <2>6, Deciding DEF ContextOK
<1> QED BY <1>4, <1>5

\* What holds when side effects are dispatched.
LEMMA AtDispatch ==
  ASSUME Inv, pc = "dispatch"
  PROVE  /\ ContextOK /\ CallOK /\ Len(scopes) <= 1
         /\ scopes # <<>> => /\ current = Top.fork /\ Unsettled(Top)
                             /\ TypeOf(emit) = "parallel"
         /\ TypeOf(emit) = "parallel" /\ status # "failed" => scopes # <<>>
         /\ TypeOf(emit) = "end" => status # "running"
         /\ waitings[InstanceSlot] = NoWait /\ status # "pending"
BY UnderWay DEF Inv, ScopeDiscipline, AtRest

\* A dispatch that ends the call.
LEMMA DispatchEndsInv ==
  ASSUME Inv, DispatchFailed \/ DispatchCompleted
  PROVE  Inv'
<1>1. /\ pc = "dispatch" /\ Return(due)
      /\ UNCHANGED <<current, event, consumed, woken, visits, scopes, waitings, drove>>
      /\ status' = "failed" \/ (TypeOf(emit) = "end" /\ status' = status)
  BY DEF DispatchFailed, DispatchCompleted, Delivered
<1>2. /\ ContextOK /\ CallOK /\ Len(scopes) <= 1
      /\ scopes # <<>> => current = Top.fork /\ Unsettled(Top)
      /\ TypeOf(emit) = "end" => status # "running"
      /\ waitings[InstanceSlot] = NoWait /\ status # "pending"
  BY <1>1, AtDispatch
<1>3. undo' \in Seq(UndoEntry)
  BY <1>2, UndoTypes DEF ContextOK, DispatchFailed, DispatchCompleted, Delivered
<1>4. ContextOK'
  BY <1>1, <1>2, <1>3 DEF ContextOK, Status
<1>5. due \subseteq Armed'
  BY <1>1, <1>2 DEF CallOK, Armed
<1>6. scopes' # <<>> => current' = Top'.fork /\ Unsettled(Top')
  BY <1>1, <1>2 DEF Top
<1> QED BY <1>1, <1>2, <1>4, <1>5, <1>6, Returning

\* A dispatch after which the call goes on: to the branches, to the next node
\* or to parking.
LEMMA DispatchGoesOnInv ==
  ASSUME Inv, DispatchForked \/ DispatchMoved
  PROVE  Inv'
<1>1. /\ pc = "dispatch" /\ status # "failed"
      /\ UNCHANGED <<status, current, event, consumed, woken, visits, scopes, waitings, drove>>
      /\ UNCHANGED <<cur, routed, due, slot>> /\ emit' = NoNode
  BY DEF DispatchForked, DispatchMoved, Delivered
<1>2. /\ ContextOK /\ CallOK /\ Len(scopes) <= 1
      /\ scopes # <<>> => current = Top.fork /\ TypeOf(emit) = "parallel"
      /\ TypeOf(emit) = "parallel" => scopes # <<>>
      /\ waitings[InstanceSlot] = NoWait /\ status # "pending"
  BY <1>1, AtDispatch
<1>3. undo' \in Seq(UndoEntry)
  BY <1>2, UndoTypes DEF ContextOK, DispatchForked, DispatchMoved, Delivered
<1>4. ContextOK'
  BY <1>1, <1>2, <1>3 DEF ContextOK
<1>5. due' \subseteq Armed' /\ (loop = "feed" => due = {})
  BY <1>1, <1>2 DEF CallOK, Armed
<1>6. CASE DispatchForked
  <2>1. /\ pc' = "fork" /\ loop' = "fork" /\ todo' = Branches(Top) /\ steps' = 0
        /\ scopes # <<>>
    BY <1>2, <1>6 DEF DispatchForked
  <2>2. Branches(Top) \subseteq Nat
    BY <1>2, <2>1, TopScope, BranchNumbers DEF ContextOK
  <2>3. CallOK' /\ ~AtRest'
    BY <1>1, <1>2, <1>5, <2>1, <2>2 DEF CallOK, AtRest
  <2>4. ScopeDiscipline'
    BY <1>1, <1>2, <2>1 DEF ScopeDiscipline, AtRest, Top
  <2> QED BY <1>1, <1>2, <1>4, <2>3, <2>4, GoingOn
<1>7. CASE DispatchMoved
  <2>1. /\ pc' \in {"park", "drain"} /\ steps' \in Nat /\ UNCHANGED <<loop, todo>>
        /\ TypeOf(emit) # "parallel"
    BY <1>2, <1>7 DEF DispatchMoved, CallOK
  <2>2. CallOK' /\ ~AtRest'
    BY <1>1, <1>2, <1>5, <2>1 DEF CallOK, AtRest
  <2>3. ScopeDiscipline'
    BY <1>1, <1>2, <2>1 DEF ScopeDiscipline, AtRest, Top
  <2> QED BY <1>1, <1>2, <1>4, <2>2, <2>3, GoingOn
<1> QED BY <1>6, <1>7

\* The instance is parked at the waiting node it has come to.
LEMMA ParkInv ==
  ASSUME Inv, Park
  PROVE  Inv'
<1> DEFINE d == IF Parks(InstanceSlot, current) THEN due \ {InstanceSlot} ELSE due
<1>1. /\ pc = "park" /\ waitings' = ParkedAt(InstanceSlot, current) /\ status' = "waiting"
      /\ Return(d) /\ UNCHANGED <<current, event, consumed, woken, visits, scopes, undo, drove>>
  BY DEF Park
<1>2. /\ ContextOK /\ CallOK /\ scopes = <<>> /\ Len(scopes) <= 1
      /\ waitings[InstanceSlot] = NoWait
  BY <1>1, UnderWay DEF Inv, ScopeDiscipline, AtRest
<1>3. /\ waitings' \in [Slot -> Waiting \cup {NoWait}] /\ Armed \subseteq Armed'
      /\ waitings'[InstanceSlot] # NoWait => waitings'[InstanceSlot].node = current
  BY <1>1, <1>2, Parking, SlotKinds DEF ContextOK
<1>4. ContextOK'
  BY <1>1, <1>2, <1>3 DEF ContextOK, Status
<1>5. d \subseteq Armed'
  BY <1>2, <1>3 DEF CallOK
<1> HIDE DEF d
<1> QED BY <1>1, <1>2, <1>3, <1>4, <1>5, Returning

-----------------------------------------------------------------------------
(* The calls of the host. *)

\* Start and Compensate leave the scopes and the waiting table alone.
LEMMA StartInv ==
  ASSUME Inv, Start
  PROVE  Inv'
<1>1. /\ pc = "idle" /\ status = "pending" /\ current' = StartNode /\ status' = "running"
      /\ pc' = "drain" /\ event' \in EventId /\ consumed' = {event'}
      /\ UNCHANGED <<woken, visits, scopes, waitings, undo, emit, loop, todo, cur, steps,
                     routed, due, slot, drove>>
  BY DEF Start
<1>2. ContextOK /\ CallOK /\ scopes = <<>> /\ Armed = {}
  BY <1>1, UnderWay DEF Inv, FreshIsClean
<1>3. waitings'[InstanceSlot] = NoWait /\ Armed' = Armed
  BY <1>1, <1>2, SlotKinds DEF Armed
<1>4. ContextOK'
  BY <1>1, <1>2, DefinitionAssumption DEF ContextOK, Status
<1>5. CallOK' /\ ~AtRest'
  BY <1>1, <1>2, <1>3 DEF CallOK, AtRest
<1>6. ScopeDiscipline'
  BY <1>1, <1>2 DEF Inv, ScopeDiscipline, AtRest
<1> QED BY <1>1, <1>3, <1>4, <1>5, <1>6, GoingOn

\* The host compensates a resting instance (Runtime.Compensate).
LEMMA CompensateInv ==
  ASSUME Inv, Compensate
  PROVE  Inv'
<1>1. /\ undo' = Compensated(undo) /\ UNCHANGED callVars
      /\ UNCHANGED <<status, current, event, consumed, woken, visits, scopes, waitings, drove>>
  BY DEF Compensate
<1>2. undo' \in Seq(UndoEntry)
  BY <1>1, UndoTypes, UnderWay DEF ContextOK
<1>3. ContextOK'
  BY <1>1, <1>2, UnderWay DEF ContextOK
<1>4. CallOK'
  BY <1>1, UnderWay DEF CallOK, callVars, AtRest, Armed
<1> QED BY <1>1, <1>3, <1>4 DEF Inv, TypeOK, FreshIsClean, ScopeDiscipline, InstanceSlotIsCurrent,
            OpenScopeUndecided, NeverLeftRunning, AtRest, callVars, Armed, Top

\* The host's timer reports slots that are armed.
LEMMA WakeDueInv ==
  ASSUME Inv, NEW d \in SUBSET Slot, WakeDue(d)
  PROVE  Inv'
<1>1. /\ pc = "idle" /\ d # {} /\ d \subseteq Armed /\ pc' = "wake" /\ due' = d
      /\ UNCHANGED <<ctxVars, emit, loop, todo, cur, steps, routed, slot, drove>>
  BY DEF WakeDue
<1>2. ContextOK /\ CallOK
  BY UnderWay
<1>3. ContextOK'
  BY <1>1, <1>2 DEF ContextOK, ctxVars
<1>4. CallOK'
  BY <1>1, <1>2 DEF CallOK, ctxVars, AtRest, Armed
<1> QED BY <1>1, <1>3, <1>4 DEF Inv, TypeOK, FreshIsClean, ScopeDiscipline, InstanceSlotIsCurrent,
            OpenScopeUndecided, NeverLeftRunning, AtRest, ctxVars, Armed, Top

\* An event for the instance itself: no scope is open, so the drain loop may run.
LEMMA FeedInstanceInv ==
  ASSUME Inv, NEW e \in EventId, FeedInstance(e)
  PROVE  Inv'
<1>1. /\ pc = "idle" /\ status # "pending" /\ ~ScopeOpen /\ pc' = "drain"
      /\ consumed' = consumed \cup {e} /\ event' = e /\ waitings' = Cleared(InstanceSlot)
      /\ UNCHANGED <<status, current, woken, visits, scopes, undo, emit, loop, todo, cur,
                     steps, routed, due, slot, drove>>
  BY DEF FeedInstance, Accept
<1>2. ContextOK /\ CallOK /\ due = {} /\ scopes = <<>> /\ Len(scopes) <= 1
  BY <1>1, UnderWay DEF Inv, OpenScopeUndecided, ScopeDiscipline, Unsettled, ScopeOpen, AtRest,
                        CallOK
<1>3. waitings' \in [Slot -> Waiting \cup {NoWait}] /\ waitings'[InstanceSlot] = NoWait
  BY <1>1, <1>2, Clearing, SlotKinds DEF ContextOK
<1>4. ContextOK'
  BY <1>1, <1>2, <1>3 DEF ContextOK
<1>5. CallOK' /\ ~AtRest'
  BY <1>1, <1>2 DEF CallOK, AtRest
<1>6. ScopeDiscipline'
  BY <1>1, <1>2 DEF ScopeDiscipline, AtRest
<1> QED BY <1>1, <1>3, <1>4, <1>5, <1>6, GoingOn

\* An event for the open scope is offered to the branches that wait.
LEMMA FeedScopeInv ==
  ASSUME Inv, NEW e \in EventId, FeedScope(e)
  PROVE  Inv'
<1>1. /\ pc = "idle" /\ status # "pending" /\ scopes # <<>>
      /\ pc' = "feed" /\ loop' = "feed" /\ todo' = WithStatus(Top, "waiting")
      /\ consumed' = consumed \cup {e} /\ event' = e
      /\ UNCHANGED <<status, current, woken, visits, scopes, waitings, undo, emit, cur,
                     steps, routed, due, slot, drove>>
  BY DEF FeedScope, Accept, ScopeOpen
<1>2. /\ ContextOK /\ CallOK /\ due = {} /\ Len(scopes) <= 1 /\ current = Top.fork
      /\ waitings[InstanceSlot] = NoWait
  BY <1>1, UnderWay DEF Inv, ScopeDiscipline, InstanceSlotIsCurrent, AtRest, CallOK
<1>3. todo' \subseteq Branches(Top) /\ Branches(Top) \subseteq Nat
  BY <1>1, <1>2, TopScope, BranchNumbers DEF WithStatus, ContextOK
<1>4. ContextOK'
  BY <1>1, <1>2 DEF ContextOK
<1>5. CallOK' /\ ~AtRest'
  BY <1>1, <1>2, <1>3 DEF CallOK, AtRest
<1>6. ScopeDiscipline'
  BY <1>1, <1>2, <1>3 DEF ScopeDiscipline, AtRest, Top
<1> QED BY <1>1, <1>2, <1>4, <1>5, <1>6, GoingOn

-----------------------------------------------------------------------------
(* Events and steps of the branches. *)

InScope == pc \in {"fork", "feed", "advance", "settle"}

\* What holds while the branches of the open scope are worked on.
LEMMA AtBranches ==
  ASSUME Inv, InScope
  PROVE  /\ ContextOK /\ CallOK /\ Len(scopes) <= 1 /\ scopes # <<>>
         /\ current = Top.fork /\ todo \subseteq Branches(Top)
         /\ Top.fork \in ForkNode /\ Branches(Top) = BranchOf(Top.fork)
         /\ Top.branches \in [Branches(Top) -> Branch] /\ Branches(Top) \subseteq Nat
         /\ Top.join \in Node \cup {NoNode}
         /\ pc = "advance" => cur \in Branches(Top)
         /\ waitings[InstanceSlot] = NoWait /\ status # "pending"
<1>1. /\ ContextOK /\ CallOK /\ Len(scopes) <= 1 /\ scopes # <<>>
      /\ current = Top.fork /\ todo \subseteq Branches(Top)
      /\ pc = "advance" => cur \in Branches(Top)
      /\ waitings[InstanceSlot] = NoWait /\ status # "pending"
  BY UnderWay DEF Inv, ScopeDiscipline, InScope, AtRest
<1> QED BY <1>1, TopScope, BranchNumbers DEF ContextOK

\* A step that stays in the scope: the scope keeps its shape, and the rest of
\* what the branch loop relies on is passed on.
LEMMA StaysInScope ==
  ASSUME Inv, InScope, InScope',
         scopes' \in Seq(Scope), scopes' # <<>>, Len(scopes') = Len(scopes),
         Top'.fork = Top.fork, Branches(Top)' = Branches(Top),
         UNCHANGED <<status, current, event, consumed, woken, emit, slot>>,
         visits' \in [Node -> Nat], undo' \in Seq(UndoEntry), drove' \subseteq EventId,
         waitings' \in [Slot -> Waiting \cup {NoWait}], waitings'[InstanceSlot] = NoWait,
         due' \subseteq Armed', loop' \in {"settle", "fork", "feed"}, routed' \in BOOLEAN,
         loop' = "feed" => due' = {}, pc' = "feed" => loop' = "feed",
         todo' \subseteq Branches(Top), cur' \in Nat, steps' \in Nat,
         pc' = "advance" => cur' \in Branches(Top)
  PROVE  Inv'
<1>1. /\ ContextOK /\ CallOK /\ Len(scopes) <= 1 /\ current = Top.fork
      /\ Branches(Top) \subseteq Nat /\ status # "pending"
  BY AtBranches
<1>2. ContextOK'
  BY <1>1 DEF ContextOK
<1>3. CallOK' /\ ~AtRest'
  BY <1>1 DEF CallOK, AtRest, InScope
<1>4. ScopeDiscipline'
  BY <1>1 DEF ScopeDiscipline, AtRest, InScope
<1> QED BY <1>1, <1>2, <1>3, <1>4, GoingOn

\* Values a branch may take.
LEMMA BranchValues ==
  ASSUME Inv, InScope, NEW b \in Branches(Top), NEW n \in Node \cup {NoNode}
  PROVE  /\ FailedAt(n) \in Branch
         /\ [Top.branches[b] EXCEPT !.node = n] \in Branch
         /\ [Top.branches[b] EXCEPT !.status = "waiting"] \in Branch
         /\ \A st \in BranchStatus : \A done \in BOOLEAN :
              [node |-> n, status |-> st, done |-> done] \in Branch
         /\ NodeAt(b) \in Node \cup {NoNode}
<1>1. Top.branches[b] \in Branch
  BY AtBranches
<1> QED BY <1>1 DEF Branch, BranchStatus, FailedAt, NodeAt

\* Visiting a node keeps the counters natural numbers.
LEMMA Visiting ==
  ASSUME ContextOK, NEW n, n \in Node, visits' = Visited(n)
  PROVE  visits' \in [Node -> Nat]
BY DEF ContextOK, Visited

\* An event is offered to one branch.
LEMMA FeedingInv ==
  ASSUME Inv, NEW b \in todo,
         FeedUnheard(b) \/ FeedNoMatch(b) \/ FeedBranchFails(b) \/ FeedBranch(b)
  PROVE  Inv'
<1>1. /\ pc = "feed" /\ todo' = todo \ {b} /\ InScope
      /\ UNCHANGED <<status, current, event, consumed, woken, emit, loop, steps, due, slot>>
  BY DEF FeedUnheard, FeedNoMatch, FeedBranchFails, FeedBranch, Offered, ctxVars, InScope
<1>2. /\ ContextOK /\ CallOK /\ scopes # <<>>
      /\ todo \subseteq Branches(Top) /\ b \in Branches(Top)
      /\ Top.fork \in ForkNode /\ Branches(Top) = BranchOf(Top.fork)
      /\ Branches(Top) \subseteq Nat
      /\ waitings[InstanceSlot] = NoWait
  BY <1>1, AtBranches
<1>3. loop = "feed" /\ due = {} /\ Driven \subseteq EventId
  BY <1>1, <1>2 DEF CallOK, ContextOK, Driven
<1>4. CASE FeedUnheard(b)
  <2>1. UNCHANGED <<ctxVars, pc, cur, routed, drove>>
    BY <1>4 DEF FeedUnheard
  <2> QED BY <1>1, <1>2, <1>3, <2>1, StaysInScope
          DEF ctxVars, InScope, ContextOK, CallOK, Top, Branches
<1>5. CASE ~FeedUnheard(b)
  <2>1. Offered(b) /\ NodeAt(b) \in Node
    BY <1>5 DEF FeedNoMatch, FeedBranchFails, FeedBranch, Offered, TypeOf
  <2>2. visits' \in [Node -> Nat]
    BY <1>2, <2>1, Visiting DEF Offered
  <2>3. /\ BranchSlot(Top.fork, b) \in Slot /\ BranchSlot(Top.fork, b) # InstanceSlot
        /\ InstanceSlot \in Slot
    BY <1>2, SlotKinds
  <2>4. ASSUME waitings' = Cleared(BranchSlot(Top.fork, b))
        PROVE  waitings' \in [Slot -> Waiting \cup {NoWait}] /\ waitings'[InstanceSlot] = NoWait
    BY <1>2, <2>3, <2>4, Clearing DEF ContextOK
  <2>5. \A ok : Pushed(NodeAt(b), ok) \in Seq(UndoEntry)
    BY <1>2, UndoTypes DEF ContextOK
  <2>6. CASE FeedNoMatch(b)
    <3>1. UNCHANGED <<scopes, waitings, undo, pc, cur, routed, drove>>
      BY <2>6 DEF FeedNoMatch
    <3> QED BY <1>1, <1>2, <1>3, <2>2, <3>1, StaysInScope
            DEF InScope, ContextOK, CallOK, Top, Branches
  <2>7. CASE FeedBranchFails(b)
    <3>1. /\ BranchBecomes(b, FailedAt(NodeAt(b))) /\ routed' = TRUE /\ drove' = Driven
          /\ UNCHANGED <<pc, cur>>
      BY <2>7 DEF FeedBranchFails
    <3>2. /\ scopes' \in Seq(Scope) /\ scopes' # <<>> /\ Len(scopes') = Len(scopes)
          /\ Top'.fork = Top.fork /\ Branches(Top)' = Branches(Top)
      BY <1>1, <1>2, <3>1, BranchUpdate, BranchValues DEF ContextOK
    <3>3. undo' \in Seq(UndoEntry)
      BY <1>2, <2>5, <2>7 DEF FeedBranchFails, ContextOK
    <3>4. waitings' \in [Slot -> Waiting \cup {NoWait}] /\ waitings'[InstanceSlot] = NoWait
      BY <1>2, <2>4, <2>7 DEF FeedBranchFails, ContextOK
    <3> QED BY <1>1, <1>2, <1>3, <2>2, <3>1, <3>2, <3>3, <3>4, StaysInScope
            DEF InScope, CallOK
  <2>8. CASE FeedBranch(b)
    <3>1. /\ waitings' = Cleared(BranchSlot(Top.fork, b)) /\ pc' = "advance" /\ cur' = b
          /\ routed' = TRUE /\ drove' = Driven
      BY <2>8 DEF FeedBranch
    <3>2. PICK next \in FeedTargets(NodeAt(b), NameOf[event]) :
            BranchBecomes(b, [Top.branches[b] EXCEPT !.node = next])
      BY <2>8 DEF FeedBranch
    <3>3. next \in Node \cup {NoNode}
      BY <2>1, RouteTypes
    <3>4. /\ scopes' \in Seq(Scope) /\ scopes' # <<>> /\ Len(scopes') = Len(scopes)
          /\ Top'.fork = Top.fork /\ Branches(Top)' = Branches(Top)
      BY <1>1, <1>2, <3>2, <3>3, BranchUpdate, BranchValues DEF ContextOK
    <3>5. undo' \in Seq(UndoEntry)
      BY <2>5, <2>8 DEF FeedBranch
    <3> QED BY <1>1, <1>2, <1>3, <2>2, <2>4, <3>1, <3>4, <3>5, StaysInScope
            DEF InScope, CallOK
  <2> QED BY <1>5, <2>6, <2>7, <2>8
<1> QED BY <1>4, <1>5

\* A branch is taken up, or left because it is over or has moved long enough.
LEMMA AdvanceIdleInv ==
  ASSUME Inv, (\E b \in todo : RunBranch(b)) \/ AdvanceNothing
  PROVE  Inv'
<1>1. /\ pc \in {"fork", "advance"} /\ InScope
      /\ UNCHANGED <<status, current, event, consumed, woken, visits, scopes, waitings, undo,
                     drove, emit, loop, routed, due, slot>>
  BY DEF RunBranch, AdvanceNothing, BranchLeft, ctxVars, InScope
<1>2. /\ ContextOK /\ CallOK /\ scopes # <<>> /\ todo \subseteq Branches(Top)
      /\ Branches(Top) \subseteq Nat /\ waitings[InstanceSlot] = NoWait
  BY <1>1, AtBranches
<1>3. InScope' /\ (pc' = "feed" => loop = "feed") /\ steps' \in Nat /\ cur' \in Nat
      /\ todo' \subseteq Branches(Top) /\ (pc' = "advance" => cur' \in Branches(Top))
  BY <1>2 DEF RunBranch, AdvanceNothing, BranchStops, BranchLeft, InScope, CallOK
<1> QED BY <1>1, <1>2, <1>3, StaysInScope DEF ContextOK, CallOK, Armed, Top, Branches

\* What every move of the branch at hand leaves in place.
LEMMA Advanced ==
  ASSUME Inv, Advancing, BranchLeft,
         NEW br \in Branch, NEW join \in Node \cup {NoNode},
         \/ BranchBecomes(cur, br)
         \/ TopBecomes(join, [Top.branches EXCEPT ![cur] = br]),
         BranchStops \/ (steps' = steps + 1 /\ UNCHANGED <<pc, cur>>),
         visits' \in [Node -> Nat], undo' \in Seq(UndoEntry),
         waitings' \in [Slot -> Waiting \cup {NoWait}], waitings'[InstanceSlot] = NoWait,
         due' \subseteq due, due' \subseteq Armed'
  PROVE  Inv'
<1>1. pc = "advance" /\ InScope
  BY DEF Advancing, InScope
<1>2. /\ ContextOK /\ CallOK /\ scopes # <<>> /\ cur \in Branches(Top)
      /\ todo \subseteq Branches(Top)
  BY <1>1, AtBranches
<1>3. /\ scopes' \in Seq(Scope) /\ scopes' # <<>> /\ Len(scopes') = Len(scopes)
      /\ Top'.fork = Top.fork /\ Branches(Top)' = Branches(Top)
  BY <1>2, BranchUpdate DEF ContextOK
<1>4. InScope' /\ (pc' = "feed" => loop = "feed") /\ steps' \in Nat /\ cur' \in Nat
      /\ (pc' = "advance" => cur' \in Branches(Top))
  BY <1>1, <1>2 DEF BranchStops, InScope, CallOK
<1> QED BY <1>1, <1>2, <1>3, <1>4, StaysInScope DEF BranchLeft, CallOK, ContextOK

\* The branch at hand fails a fuse, arrives at its join or parks.
LEMMA AdvanceStopsInv ==
  ASSUME Inv, AdvanceTripped \/ AdvanceArrives \/ AdvanceParks
  PROVE  Inv'
<1>1. /\ Advancing /\ BranchStops /\ BranchLeft /\ UNCHANGED <<visits, undo>>
      /\ InScope /\ pc = "advance"
  BY DEF AdvanceTripped, AdvanceArrives, AdvanceParks, Advancing, InScope
<1>2. /\ ContextOK /\ CallOK /\ scopes # <<>> /\ cur \in Branches(Top)
      /\ Top.fork \in ForkNode /\ Branches(Top) = BranchOf(Top.fork)
      /\ Top.join \in Node \cup {NoNode} /\ waitings[InstanceSlot] = NoWait
      /\ NodeAt(cur) \in Node \cup {NoNode}
  BY <1>1, AtBranches, BranchValues
<1>3. CASE AdvanceTripped
  <2>1. BranchBecomes(cur, FailedAt(NodeAt(cur))) /\ UNCHANGED <<waitings, due>>
    BY <1>3 DEF AdvanceTripped
  <2>2. FailedAt(NodeAt(cur)) \in Branch
    BY <1>1, <1>2, BranchValues
  <2> QED BY <1>1, <1>2, <2>1, <2>2, Advanced DEF ContextOK, CallOK, Armed
<1>4. CASE AdvanceArrives
  <2>1. PICK join \in Node \cup {NoNode} :
          TopBecomes(join, [Top.branches EXCEPT ![cur] =
                              [node |-> NodeAt(cur), status |-> "completed", done |-> TRUE]])
    BY <1>2, <1>4 DEF AdvanceArrives
  <2>2. [node |-> NodeAt(cur), status |-> "completed", done |-> TRUE] \in Branch
    BY <1>1, <1>2, BranchValues DEF BranchStatus
  <2>3. UNCHANGED <<waitings, due>>
    BY <1>4 DEF AdvanceArrives
  <2> QED BY <1>1, <1>2, <2>1, <2>2, <2>3, Advanced DEF ContextOK, CallOK, Armed
<1>5. CASE AdvanceParks
  <2> DEFINE s == BranchSlot(Top.fork, cur)
  <2>1. /\ BranchBecomes(cur, [Top.branches[cur] EXCEPT !.status = "waiting"])
        /\ waitings' = ParkedAt(s, NodeAt(cur)) /\ due' \subseteq due
    BY <1>5 DEF AdvanceParks
  <2>2. [Top.branches[cur] EXCEPT !.status = "waiting"] \in Branch
    BY <1>1, <1>2, BranchValues
  <2>3. s \in Slot /\ s # InstanceSlot /\ InstanceSlot \in Slot
    BY <1>2, SlotKinds
  <2>4. /\ waitings' \in [Slot -> Waiting \cup {NoWait}] /\ Armed \subseteq Armed'
        /\ waitings'[InstanceSlot] = NoWait
    <3> HIDE DEF s
    <3> QED BY <1>2, <2>1, <2>3, Parking DEF ContextOK
  <2> HIDE DEF s
  <2> QED BY <1>1, <1>2, <2>1, <2>2, <2>4, Advanced DEF ContextOK, CallOK
<1> QED BY <1>3, <1>4, <1>5

\* The branch at hand walks an automatic or condition node.
LEMMA AdvanceWalksInv ==
  ASSUME Inv, AdvanceMoves \/ AdvanceFails \/ AdvanceStuck
  PROVE  Inv'
<1>1. /\ Walking /\ Advancing /\ BranchLeft /\ UNCHANGED <<waitings, due>>
      /\ visits' = Visited(NodeAt(cur)) /\ NodeAt(cur) \in Node /\ InScope /\ pc = "advance"
  BY DEF AdvanceMoves, AdvanceFails, AdvanceStuck, Walking, Advancing, BranchTripped, InScope
<1>2. /\ ContextOK /\ CallOK /\ scopes # <<>> /\ cur \in Branches(Top)
      /\ waitings[InstanceSlot] = NoWait
  BY <1>1, AtBranches
<1>3. /\ visits' \in [Node -> Nat] /\ due' \subseteq Armed'
      /\ waitings' \in [Slot -> Waiting \cup {NoWait}] /\ waitings'[InstanceSlot] = NoWait
  BY <1>1, <1>2, Visiting DEF ContextOK, CallOK, Armed
<1>4. undo' \in Seq(UndoEntry)
  <2>1. undo \in Seq(UndoEntry) /\ \A ok : Pushed(NodeAt(cur), ok) \in Seq(UndoEntry)
    BY <1>2, UndoTypes DEF ContextOK
  <2>2. undo' = undo \/ \E ok : undo' = Pushed(NodeAt(cur), ok)
    BY DEF AdvanceMoves, AdvanceFails, AdvanceStuck
  <2> QED BY <2>1, <2>2
<1>5. BranchStops \/ (steps' = steps + 1 /\ UNCHANGED <<pc, cur>>)
  BY DEF AdvanceMoves, AdvanceFails, AdvanceStuck
<1>6. \E br \in Branch : BranchBecomes(cur, br)
  <2>1. CASE AdvanceMoves
    <3>1. PICK next \in BranchTargets(NodeAt(cur)) :
            BranchBecomes(cur, [Top.branches[cur] EXCEPT !.node = next])
      BY <2>1 DEF AdvanceMoves
    <3>2. next \in Node \cup {NoNode}
      BY <1>1, RouteTypes
    <3> QED BY <1>1, <1>2, <3>1, <3>2, BranchValues
  <2>2. CASE AdvanceFails
    BY <1>1, <1>2, <2>2, BranchValues DEF AdvanceFails
  <2>3. CASE AdvanceStuck
    BY <1>1, <1>2, <2>3, BranchValues DEF AdvanceStuck, BranchStatus
  <2> QED BY <2>1, <2>2, <2>3
<1> QED BY <1>1, <1>2, <1>3, <1>4, <1>5, <1>6, Advanced

-----------------------------------------------------------------------------
(* The scope is settled. *)

\* The scope is left: it failed, or converged.
LEMMA SettleLeavesInv ==
  ASSUME Inv, SettleFails \/ SettleConverges
  PROVE  Inv'
<1> DEFINE s == ScopeSlot(Top.fork)
           d == due \ {s}
<1>1. /\ PopScope /\ InScope /\ todo = {}
      /\ UNCHANGED <<event, consumed, woken, visits, drove>>
  BY DEF SettleFails, SettleConverges, Settling, InScope
<1>2. /\ ContextOK /\ CallOK /\ Len(scopes) <= 1 /\ scopes # <<>>
      /\ Top.fork \in ForkNode /\ Top.join \in Node \cup {NoNode}
      /\ waitings[InstanceSlot] = NoWait
  BY <1>1, AtBranches
<1>3. scopes' = <<>> /\ Len(scopes') <= 1 /\ scopes' \in Seq(Scope)
  BY <1>1, <1>2, Popping, EmptySeq DEF ContextOK
<1>4. /\ waitings' \in [Slot -> Waiting \cup {NoWait}]
      /\ d \subseteq Armed' /\ waitings'[InstanceSlot] = NoWait
  <2>1. waitings' = Cleared(s) /\ s \in Slot /\ InstanceSlot \in Slot
    BY <1>1, <1>2, SlotKinds DEF PopScope
  <2> HIDE DEF s
  <2>2. /\ waitings' \in [Slot -> Waiting \cup {NoWait}] /\ Armed' = Armed \ {s}
        /\ waitings'[s] = NoWait
        /\ \A t \in Slot : t # s => waitings'[t] = waitings[t]
    BY <1>2, <2>1, Clearing DEF ContextOK
  <2> QED BY <1>2, <2>1, <2>2 DEF CallOK
<1>5. CASE \/ SettleFails
           \/ SettleConverges /\ Top.join = NoNode
  <2>1. /\ status' \in {"failed", "completed"} /\ current' = current /\ Return(d)
    BY <1>5 DEF SettleFails, SettleConverges
  <2>2. undo' \in Seq(UndoEntry)
    BY <1>2, <1>5, UndoTypes DEF ContextOK, SettleFails, SettleConverges
  <2>3. ContextOK'
    BY <1>1, <1>2, <1>3, <1>4, <2>1, <2>2 DEF ContextOK, Status
  <2> HIDE DEF d
  <2> QED BY <1>3, <1>4, <2>1, <2>3, Returning
<1>6. CASE SettleConverges /\ Top.join # NoNode
  <2>1. /\ status' = "running" /\ current' = Top.join /\ undo' = undo
        /\ pc' = "drain" /\ due' = d /\ loop' = "settle" /\ routed' = FALSE /\ steps' = 0
        /\ UNCHANGED <<emit, todo, cur, slot>>
    BY <1>6 DEF SettleConverges
  <2>2. ContextOK'
    BY <1>1, <1>2, <1>3, <1>4, <2>1 DEF ContextOK, Status
  <2>3. CallOK' /\ ~AtRest'
    BY <1>1, <1>2, <1>4, <2>1 DEF CallOK, AtRest
  <2>4. ScopeDiscipline'
    BY <1>1, <1>3, <2>1 DEF ScopeDiscipline, AtRest
  <2> QED BY <1>4, <2>1, <2>2, <2>3, <2>4, GoingOn
<1> QED BY <1>5, <1>6

\* The scope stays open, undecided: the instance waits or is past its timeout.
LEMMA SettleStaysInv ==
  ASSUME Inv, SettleTimesOut \/ SettleWaits
  PROVE  Inv'
<1>1. /\ Unsettled(Top) /\ InScope /\ Return(due) /\ status' \in {"timed_out", "waiting"}
      /\ UNCHANGED <<current, event, woken, visits, scopes, waitings, undo, drove>>
      /\ consumed' \subseteq consumed
  BY DEF SettleTimesOut, SettleWaits, Settling, InScope
<1>2. /\ ContextOK /\ CallOK /\ Len(scopes) <= 1 /\ scopes # <<>> /\ current = Top.fork
      /\ waitings[InstanceSlot] = NoWait
  BY <1>1, AtBranches
<1>3. ContextOK'
  BY <1>1, <1>2 DEF ContextOK, Status
<1>4. due \subseteq Armed'
  BY <1>1, <1>2 DEF CallOK, Armed
<1>5. current' = Top'.fork /\ Unsettled(Top')
  BY <1>1, <1>2 DEF Top
<1> QED BY <1>1, <1>2, <1>3, <1>4, <1>5, Returning

-----------------------------------------------------------------------------
(* Due slots. *)

\* What holds between the rounds of a WakeDue.
LEMMA AtWake ==
  ASSUME Inv, pc \in {"wake", "fire"}
  PROVE  /\ ContextOK /\ CallOK /\ Len(scopes) <= 1
         /\ scopes # <<>> => current = Top.fork /\ Unsettled(Top)
         /\ waitings[InstanceSlot] # NoWait =>
              scopes = <<>> /\ waitings[InstanceSlot].node = current
         /\ status \notin {"running", "pending"}
         /\ due \subseteq Armed /\ todo = {} /\ loop = "settle"
         /\ pc = "fire" => slot \in due /\ slot \in Slot /\ waitings[slot] \in Waiting
<1>1. ContextOK /\ CallOK /\ due \subseteq Armed /\ Armed \subseteq Slot
  BY UnderWay DEF CallOK, Armed
<1>2. pc = "fire" => slot \in due /\ slot \in Slot /\ waitings[slot] \in Waiting
  BY <1>1, ArmedNode DEF CallOK, ContextOK, Armed
<1> QED BY <1>1, <1>2, UnderWay DEF Inv, CallOK, ScopeDiscipline, OpenScopeUndecided,
        InstanceSlotIsCurrent, NeverLeftRunning, AtRest

\* A due slot whose key was used is dropped; any other is about to fire.
LEMMA WakingInv ==
  ASSUME Inv, NEW s \in due, WakeDuplicate(s) \/ WakeConsume(s)
  PROVE  Inv'
<1>1. /\ pc = "wake"
      /\ UNCHANGED <<status, current, event, consumed, visits, scopes, undo, drove>>
  BY DEF WakeDuplicate, WakeConsume
<1>2. /\ ContextOK /\ CallOK /\ Len(scopes) <= 1
      /\ scopes # <<>> => current = Top.fork /\ Unsettled(Top)
      /\ waitings[InstanceSlot] # NoWait =>
           scopes = <<>> /\ waitings[InstanceSlot].node = current
      /\ status \notin {"running", "pending"}
      /\ due \subseteq Armed /\ todo = {} /\ loop = "settle"
  BY <1>1, AtWake
<1>3. s \in Slot /\ waitings[s] \in Waiting /\ InstanceSlot \in Slot
  BY <1>2, ArmedNode, SlotKinds DEF Armed, ContextOK
<1>4. CASE WakeDuplicate(s)
  <2>1. waitings' = Cleared(s) /\ UNCHANGED woken /\ Return(due \ {s})
    BY <1>4 DEF WakeDuplicate
  <2>2. /\ waitings' \in [Slot -> Waiting \cup {NoWait}] /\ due \ {s} \subseteq Armed'
        /\ waitings'[InstanceSlot] # NoWait => waitings'[InstanceSlot] = waitings[InstanceSlot]
    BY <1>2, <1>3, <2>1, Clearing DEF ContextOK
  <2>3. ContextOK'
    BY <1>1, <1>2, <2>1, <2>2 DEF ContextOK
  <2>4. scopes' # <<>> => current' = Top'.fork /\ Unsettled(Top')
    BY <1>1, <1>2 DEF Top
  <2> QED BY <1>1, <1>2, <2>1, <2>2, <2>3, <2>4, Returning
<1>5. CASE WakeConsume(s)
  <2>1. /\ woken' = woken \cup {WakeKey(s)} /\ slot' = s /\ pc' = "fire"
        /\ UNCHANGED <<waitings, emit, loop, todo, cur, steps, routed, due>>
    BY <1>5 DEF WakeConsume
  <2>2. WakeKey(s) \in WakeKeys
    BY <1>3 DEF WakeKey, WakeKeys, Waiting
  <2>3. ContextOK'
    BY <1>1, <1>2, <2>1, <2>2 DEF ContextOK
  <2>4. CallOK'
    BY <1>1, <1>2, <1>3, <2>1 DEF CallOK, AtRest, Armed
  <2>5. ScopeDiscipline'
    BY <1>1, <1>2, <2>1 DEF ScopeDiscipline, AtRest, Top
  <2> QED BY <1>1, <1>2, <2>1, <2>3, <2>4, <2>5
          DEF Inv, TypeOK, FreshIsClean, InstanceSlotIsCurrent, OpenScopeUndecided,
              NeverLeftRunning, AtRest, Top
<1> QED BY <1>4, <1>5

\* What a slot leaves behind once it fires.
LEMMA Firing ==
  ASSUME Inv, NEW kinds, Fire(kinds)
  PROVE  /\ pc = "fire" /\ FiredNode \in Node /\ slot \in Slot /\ event' = NoEvent
         /\ waitings' \in [Slot -> Waiting \cup {NoWait}] /\ Remaining \subseteq Armed'
         /\ waitings'[InstanceSlot] # NoWait => waitings'[InstanceSlot] = waitings[InstanceSlot]
         /\ slot = InstanceSlot => waitings[InstanceSlot] # NoWait /\ waitings'[InstanceSlot] = NoWait
         /\ UNCHANGED <<consumed, woken, drove>>
<1>1. pc = "fire" /\ waitings' = Cleared(slot) /\ event' = NoEvent /\ UNCHANGED <<consumed, woken, drove>>
  BY DEF Fire
<1>2. ContextOK /\ slot \in due /\ due \subseteq Armed /\ slot \in Slot /\ waitings[slot] \in Waiting
  BY <1>1, AtWake
<1>3. /\ waitings' \in [Slot -> Waiting \cup {NoWait}] /\ Armed' = Armed \ {slot}
      /\ waitings'[slot] = NoWait
      /\ \A t \in Slot : t # slot => waitings'[t] = waitings[t]
  BY <1>1, <1>2, Clearing DEF ContextOK
<1>4. FiredNode \in Node
  BY <1>2 DEF FiredNode, Waiting
<1> QED BY <1>1, <1>2, <1>3, <1>4, SlotKinds DEF Remaining, Armed

\* A slot that moves nothing: the scope's timeout, a mapping that fails, a
\* branch that is gone.
LEMMA FireEndsInv ==
  ASSUME Inv, FireScopeTimeout \/ FireDeadlineFails \/ FireOrphan
  PROVE  Inv'
<1>1. /\ \E kinds : Fire(kinds)
      /\ Return(Remaining) /\ UNCHANGED <<current, visits, scopes, undo>>
      /\ status' \in {"timed_out", "failed", status}
  BY DEF FireScopeTimeout, FireDeadlineFails, FireOrphan
<1>2. /\ pc = "fire" /\ waitings' \in [Slot -> Waiting \cup {NoWait}]
      /\ Remaining \subseteq Armed' /\ event' = NoEvent /\ UNCHANGED <<consumed, woken, drove>>
      /\ waitings'[InstanceSlot] # NoWait => waitings'[InstanceSlot] = waitings[InstanceSlot]
  BY <1>1, Firing
<1>3. /\ ContextOK /\ Len(scopes) <= 1
      /\ scopes # <<>> => current = Top.fork /\ Unsettled(Top)
      /\ waitings[InstanceSlot] # NoWait =>
           scopes = <<>> /\ waitings[InstanceSlot].node = current
      /\ status \notin {"running", "pending"}
  BY <1>2, AtWake
<1>4. ContextOK'
  BY <1>1, <1>2, <1>3 DEF ContextOK, Status
<1>5. scopes' # <<>> => current' = Top'.fork /\ Unsettled(Top')
  BY <1>1, <1>3 DEF Top
<1> QED BY <1>1, <1>2, <1>3, <1>4, <1>5, Returning

\* The instance's own slot: a deadline escalates it, a timer lets it go on.
LEMMA FireInstanceInv ==
  ASSUME Inv, FireDeadline \/ FireTimer
  PROVE  Inv'
<1>1. /\ \E kinds : Fire(kinds)
      /\ slot = InstanceSlot /\ status' = "running" /\ pc' \in {"park", "drain"}
      /\ current' \in {Deadline[FiredNode], FiredNode}
      /\ due' = Remaining /\ slot' = NoSlot
      /\ UNCHANGED <<visits, scopes, undo, emit, loop, todo, cur, steps, routed>>
  BY DEF FireDeadline, FireTimer
<1>2. /\ pc = "fire" /\ FiredNode \in Node /\ waitings' \in [Slot -> Waiting \cup {NoWait}]
      /\ Remaining \subseteq Armed' /\ event' = NoEvent /\ UNCHANGED <<consumed, woken, drove>>
      /\ waitings[InstanceSlot] # NoWait /\ waitings'[InstanceSlot] = NoWait
  BY <1>1, Firing
<1>3. ContextOK /\ CallOK /\ Len(scopes) <= 1 /\ scopes = <<>> /\ todo = {} /\ loop = "settle"
  BY <1>2, AtWake
<1>4. current' \in Node \cup {NoNode}
  BY <1>1, <1>2, DefinitionAssumption
<1>5. ContextOK'
  BY <1>1, <1>2, <1>3, <1>4 DEF ContextOK, Status
<1>6. CallOK' /\ ~AtRest'
  BY <1>1, <1>2, <1>3 DEF CallOK, AtRest
<1>7. ScopeDiscipline'
  BY <1>1, <1>3 DEF ScopeDiscipline, AtRest
<1> QED BY <1>1, <1>2, <1>5, <1>6, <1>7, GoingOn

\* A branch slot moves, or fails, the branch it was armed for.
LEMMA FireBranchInv ==
  ASSUME Inv, FireDeadlineBranch \/ FireTimerBranch
  PROVE  Inv'
<1> DEFINE b == slot.branch
<1>1. /\ \E kinds : Fire(kinds)
      /\ ScopeHolds(slot) /\ pc' \in {"advance", "settle"} /\ loop' = "settle"
      /\ pc' = "advance" => cur' = b
      /\ cur' \in {cur, b}
      /\ due' = Remaining /\ slot' = NoSlot
      /\ UNCHANGED <<status, current, emit, todo, steps, routed>>
  BY DEF FireDeadlineBranch, FireTimerBranch
<1>2. /\ pc = "fire" /\ FiredNode \in Node /\ slot \in Slot
      /\ waitings' \in [Slot -> Waiting \cup {NoWait}]
      /\ Remaining \subseteq Armed' /\ event' = NoEvent /\ UNCHANGED <<consumed, woken, drove>>
      /\ waitings'[InstanceSlot] # NoWait => waitings'[InstanceSlot] = waitings[InstanceSlot]
  BY <1>1, Firing
<1>3. /\ ContextOK /\ CallOK /\ Len(scopes) <= 1 /\ scopes # <<>> /\ current = Top.fork
      /\ waitings[InstanceSlot] = NoWait /\ status \notin {"running", "pending"} /\ todo = {}
  BY <1>1, <1>2, AtWake DEF ScopeHolds
<1>4. /\ b \in Branches(Top) /\ b \in Nat
      /\ Top.branches[b] \in Branch /\ Top.join \in Node \cup {NoNode}
  BY <1>1, <1>2, <1>3, SlotKinds, TopScope, BranchNumbers DEF ScopeHolds, ContextOK
<1>5. \E br \in Branch : BranchBecomes(b, br)
  <2>1. ASSUME NEW n \in Node \cup {NoNode}
        PROVE  [Top.branches[b] EXCEPT !.node = n] \in Branch /\ FailedAt(n) \in Branch
    BY <1>4 DEF Branch, BranchStatus, FailedAt
  <2>2. NodeAt(b) \in Node \cup {NoNode}
    BY <1>4 DEF NodeAt, Branch
  <2>3. CASE FireDeadlineBranch
    <3>1. Deadline[FiredNode] \in Node \cup {NoNode}
      BY <1>2, DefinitionAssumption
    <3> QED BY <2>1, <2>3, <3>1 DEF FireDeadlineBranch
  <2>4. CASE FireTimerBranch
    <3>1. \/ \E next \in WhenNexts(FiredNode) : BranchBecomes(b, [Top.branches[b] EXCEPT !.node = next])
          \/ BranchBecomes(b, FailedAt(NodeAt(b)))
      BY <2>4 DEF FireTimerBranch
    <3> QED BY <1>2, <2>1, <2>2, <3>1, RouteTypes
  <2> QED BY <1>1, <2>3, <2>4
<1>6. /\ scopes' \in Seq(Scope) /\ scopes' # <<>> /\ Len(scopes') = Len(scopes)
      /\ Top'.fork = Top.fork /\ Branches(Top)' = Branches(Top)
  BY <1>3, <1>4, <1>5, BranchUpdate DEF ContextOK
<1>7. visits' \in [Node -> Nat]
  BY <1>2, <1>3, Visiting DEF FireDeadlineBranch, FireTimerBranch, ContextOK
<1>8. undo' \in Seq(UndoEntry)
  <2>1. undo \in Seq(UndoEntry) /\ \A ok : Pushed(FiredNode, ok) \in Seq(UndoEntry)
    BY <1>3, UndoTypes DEF ContextOK
  <2>2. undo' = undo \/ \E ok : undo' = Pushed(FiredNode, ok)
    BY DEF FireDeadlineBranch, FireTimerBranch
  <2> QED BY <2>1, <2>2
<1>9. ContextOK'
  BY <1>1, <1>2, <1>3, <1>6, <1>7, <1>8 DEF ContextOK
<1>10. CallOK' /\ ~AtRest'
  BY <1>1, <1>2, <1>3, <1>4 DEF CallOK, AtRest
<1>11. ScopeDiscipline'
  BY <1>1, <1>3, <1>4, <1>6 DEF ScopeDiscipline, AtRest
<1> QED BY <1>1, <1>2, <1>3, <1>9, <1>10, <1>11, GoingOn

-----------------------------------------------------------------------------
(* The theorems. *)

\* Every step of a call and every call of the host preserves Inv.
LEMMA InvStep == Inv /\ [Next]_vars => Inv'
<1> SUFFICES ASSUME Inv, [Next]_vars PROVE Inv'
  OBVIOUS
<1>1. CASE Drain
  BY <1>1, DrainEndsInv, DrainStepsInv, StepForkInv DEF Drain
<1>2. CASE Dispatch
  BY <1>2, DispatchEndsInv, DispatchGoesOnInv DEF Dispatch
<1>3. CASE Park
  BY <1>3, ParkInv
<1>4. CASE Feeding
  BY <1>4, FeedingInv DEF Feeding
<1>5. CASE Advance
  BY <1>5, AdvanceIdleInv, AdvanceStopsInv, AdvanceWalksInv DEF Advance
<1>6. CASE Settle
  BY <1>6, SettleLeavesInv, SettleStaysInv DEF Settle
<1>7. CASE Waking
  BY <1>7, WakingInv, FireEndsInv, FireInstanceInv, FireBranchInv DEF Waking
<1>8. CASE HostCall
  BY <1>8, StartInv, CompensateInv, FeedInstanceInv, FeedScopeInv, WakeDueInv DEF HostCall
<1>9. CASE UNCHANGED vars
  BY <1>9 DEF vars, ctxVars, callVars, Inv, TypeOK, ContextOK, CallOK, FreshIsClean,
              ScopeDiscipline, InstanceSlotIsCurrent, OpenScopeUndecided, NeverLeftRunning,
              AtRest, Armed, Top
<1> QED BY <1>1, <1>2, <1>3, <1>4, <1>5, <1>6, <1>7, <1>8, <1>9 DEF Next, CallStep

\* The inductive invariant holds in every reachable state, for every process
\* definition, event set and setting of the fuses (Runtime's public methods).
THEOREM InvariantHolds == Spec => []Inv
BY InvInit, InvStep, PTL DEF Spec

\* Every variable keeps to the code's values, and only armed slots are fired.
THEOREM TypeCorrect == Spec => []TypeOK
BY InvariantHolds, PTL DEF Inv

\* One scope at most, the instance at its fork, and no drain beside it.
THEOREM ScopesDisciplined == Spec => []ScopeDiscipline
BY InvariantHolds, PTL DEF Inv

\* A deadline or timer of the instance fires only for the node it waits at.
THEOREM InstanceSlotCurrent == Spec => []InstanceSlotIsCurrent
BY InvariantHolds, PTL DEF Inv

\* A decided scope is never left open between calls (settleScope).
THEOREM ScopesSettled == Spec => []OpenScopeUndecided
BY InvariantHolds, PTL DEF Inv

\* No call leaves the instance running (drain, settleScope, fireWaiting).
THEOREM CallsSettle == Spec => []NeverLeftRunning
BY InvariantHolds, PTL DEF Inv

-----------------------------------------------------------------------------
(* The undo stack. *)

Records(u, v) == /\ Len(v) >= Len(u)
                 /\ \A i \in DOMAIN u : /\ v[i].node = u[i].node
                                        /\ u[i].done => v[i].done

\* Marking entries done, pushing an entry, and both, keep the record.
LEMMA Recording ==
  ASSUME undo \in Seq(UndoEntry)
  PROVE  /\ Records(undo, undo) /\ Records(undo, Compensated(undo))
         /\ Records(undo, OnFailure(undo))
         /\ \A n, ok : /\ Records(undo, Pushed(n, ok))
                       /\ Records(undo, OnFailure(Pushed(n, ok)))
<1>1. ASSUME NEW u \in Seq(UndoEntry)
      PROVE  Len(Compensated(u)) = Len(u) /\ Records(u, Compensated(u))
  <2>1. Len(u) \in Nat /\ DOMAIN u = 1 .. Len(u)
    BY LenProperties
  <2>2. Compensated(u) = [i \in 1 .. Len(u) |-> [u[i] EXCEPT !.done = TRUE]]
    BY <2>1 DEF Compensated
  <2>3. Compensated(u) \in Seq(UndoEntry) /\ Len(Compensated(u)) = Len(u)
    <3>1. DOMAIN Compensated(u) = 1 .. Len(u)
      BY <2>2
    <3>2. \A i \in 1 .. Len(u) : [u[i] EXCEPT !.done = TRUE] \in UndoEntry
      <4>1. \A i \in 1 .. Len(u) : u[i] \in UndoEntry
        BY <2>1, ElementOfSeq
      <4> QED BY <4>1 DEF UndoEntry
    <3>3. Compensated(u) \in Seq(UndoEntry)
      BY <2>1, <2>2, <3>2, IsASeq
    <3> QED BY <2>1, <3>1, <3>3, LenProperties
  <2>4. \A i \in DOMAIN u : u[i] \in [node : Node, done : BOOLEAN]
    BY <2>1, ElementOfSeq DEF UndoEntry
  <2> QED BY <2>1, <2>2, <2>3, <2>4 DEF Records
<1>2. ASSUME NEW n, NEW ok
      PROVE  Pushed(n, ok) \in Seq(UndoEntry) /\ Records(undo, Pushed(n, ok))
  <2>1. Pushed(n, ok) \in Seq(UndoEntry)
    BY UndoTypes
  <2>2. Pushed(n, ok) = undo \/ Pushed(n, ok) = Append(undo, [node |-> n, done |-> FALSE])
    BY DEF Pushed
  <2>3. CASE Pushed(n, ok) = undo
    BY <2>1, <2>3, LenProperties DEF Records
  <2>4. CASE Pushed(n, ok) = Append(undo, [node |-> n, done |-> FALSE])
    <3> DEFINE entry == [node |-> n, done |-> FALSE]
    <3>1. /\ Len(undo) \in Nat /\ DOMAIN undo = 1 .. Len(undo)
          /\ Len(Append(undo, entry)) = Len(undo) + 1
          /\ \A i \in 1 .. Len(undo) : Append(undo, entry)[i] = undo[i]
      BY LenProperties
    <3>2. Pushed(n, ok) = Append(undo, entry)
      BY <2>4
    <3> HIDE DEF entry
    <3> QED BY <2>1, <3>1, <3>2 DEF Records
  <2> QED BY <2>1, <2>2, <2>3, <2>4
<1>3. ASSUME NEW u \in Seq(UndoEntry), Records(undo, u)
      PROVE  Records(undo, Compensated(u))
  <2>1. /\ Len(u) \in Nat /\ DOMAIN u = 1 .. Len(u) /\ Len(undo) \in Nat
        /\ DOMAIN undo = 1 .. Len(undo)
    BY LenProperties
  <2>2. Records(u, Compensated(u)) /\ Len(Compensated(u)) = Len(u)
    BY <1>1
  <2> QED BY <1>3, <2>1, <2>2 DEF Records
<1>4. Records(undo, undo)
  BY LenProperties DEF Records
<1> QED BY <1>1, <1>2, <1>3, <1>4 DEF OnFailure

\* No step shortens the undo stack, replaces an entry or takes back a
\* compensation that was fired (recordCompensation, compensate).
THEOREM UndoRecorded == Spec => UndoIsRecord
<1>1. Inv /\ [Next]_vars => [Records(undo, undo')]_undo
  <2> SUFFICES ASSUME Inv, [Next]_vars PROVE Records(undo, undo')
    OBVIOUS
  <2>1. undo \in Seq(UndoEntry)
    BY UnderWay DEF ContextOK
  <2>2. \/ undo' \in {undo, Compensated(undo), OnFailure(undo)}
        \/ \E n, ok : undo' \in {Pushed(n, ok), OnFailure(Pushed(n, ok))}
    <3>1. CASE Drain
      BY <3>1 DEF Drain, DrainRunaway, StepMissing, StepEnd, StepFork, StepMove, StepFail, Decided
    <3>2. CASE Dispatch \/ Park
      BY <3>2 DEF Dispatch, DispatchFailed, DispatchForked, DispatchCompleted, DispatchMoved,
                  Delivered, Park
    <3>3. CASE Feeding
      BY <3>3 DEF Feeding, FeedUnheard, FeedNoMatch, FeedBranchFails, FeedBranch, Offered, ctxVars
    <3>4. CASE Advance
      BY <3>4 DEF Advance, RunBranch, AdvanceNothing, AdvanceTripped, AdvanceArrives, AdvanceParks,
                  AdvanceMoves, AdvanceFails, AdvanceStuck, ctxVars
    <3>5. CASE Settle
      BY <3>5 DEF Settle, SettleFails, SettleConverges, SettleTimesOut, SettleWaits
    <3>6. CASE Waking
      BY <3>6 DEF Waking, WakeDuplicate, WakeConsume, FireScopeTimeout, FireDeadlineFails,
                  FireDeadline, FireDeadlineBranch, FireOrphan, FireTimer, FireTimerBranch
    <3>7. CASE HostCall
      BY <3>7 DEF HostCall, Start, Compensate, FeedInstance, FeedScope, WakeDue, ctxVars
    <3>8. CASE UNCHANGED vars
      BY <3>8 DEF vars, ctxVars
    <3> QED BY <3>1, <3>2, <3>3, <3>4, <3>5, <3>6, <3>7, <3>8 DEF Next, CallStep
  <2> QED BY <2>1, <2>2, Recording
<1>2. Records(undo, undo') <=>
        /\ Len(undo') >= Len(undo)
        /\ \A i \in DOMAIN undo : /\ undo'[i].node = undo[i].node
                                  /\ undo[i].done => undo'[i].done
  BY DEF Records
<1> QED BY <1>1, <1>2, InvariantHolds, PTL DEF Spec, UndoIsRecord

-----------------------------------------------------------------------------
(* Events on record. *)

\* The output mapping of a node with a deadline never fails, so that a deadline
\* that fires escalates.
DeadlinesMap == \A n \in MayFail : Deadline[n] = NoNode

\* No scope has a timeout of its own.
ScopesUntimed == \A f \in ForkNode : ~ForkOf[f].timeout

\* A terminal instance that no slot can bring back to life.
Over == status \in Terminal /\ scopes = <<>> /\ waitings[InstanceSlot] = NoWait

\* Between calls the events on record are those that moved something, unless
\* the instance is terminal; what a slot may still fire for has no event pending.
EventsAtRest ==
  AtRest => /\ consumed = drove \/ status \in Terminal
            /\ WakesTerminal \/ due # {} => consumed = drove \/ Over
            /\ pc = "wake" => due # {}
            /\ ~routed

\* In a call at most the event of that call has not moved anything yet.
EventsInCall ==
  ~AtRest => /\ consumed \subseteq drove \cup {event}
             /\ event = NoEvent \/ event \in consumed
             /\ due # {} => event = NoEvent

\* Where a call stands by the time it has applied its event.
EventsApplied ==
  /\ pc \in {"dispatch", "park", "settle", "fork"} => consumed = drove
  /\ pc \in {"settle", "fork"} => loop = pc
  /\ pc \in {"feed", "advance"} =>
       IF loop = "feed" /\ ~routed THEN event \in consumed \ drove ELSE consumed = drove

EventInv == /\ drove \subseteq consumed /\ (status = "pending" => consumed = {})
            /\ EventsAtRest /\ EventsInCall /\ EventsApplied

\* A call that returns leaves no event behind that did nothing, or is over.
LEMMA EventsReturn ==
  ASSUME NEW d, Return(d), drove' \subseteq consumed', status' # "pending",
         consumed' = drove' \/ status' \in Terminal,
         WakesTerminal \/ d # {} => consumed' = drove' \/ Over'
  PROVE  EventInv'
<1>1. pc' \in {"idle", "wake"} /\ (pc' = "wake" => d # {}) /\ due' = d /\ ~routed'
  BY DEF Return, AfterCall
<1> QED BY <1>1 DEF EventInv, EventsAtRest, EventsInCall, EventsApplied, AtRest

\* A fresh instance has consumed nothing.
LEMMA EventsInit == Init => EventInv
BY DEF Init, EventInv, EventsAtRest, EventsInCall, EventsApplied, AtRest

\* drain: the event has moved the instance as soon as a transition is on record.
LEMMA DrainEvents ==
  ASSUME Inv, EventInv, Drain
  PROVE  EventInv'
<1>1. pc = "drain"
  BY DEF Drain, DrainRunaway, StepMissing, StepEnd, StepFork, StepMove, StepFail, Selecting, Stepping
<1>2. /\ ContextOK /\ scopes = <<>> /\ waitings[InstanceSlot] = NoWait /\ status # "pending"
  BY <1>1, AtDrain
<1>3. /\ drove \subseteq consumed /\ consumed \subseteq drove \cup {event}
      /\ event = NoEvent \/ event \in consumed
      /\ due # {} => event = NoEvent
      /\ consumed \subseteq EventId /\ NoEvent \notin EventId
  BY <1>1, <1>2, RuntimeAssumption DEF EventInv, EventsInCall, AtRest, ContextOK
<1>4. CASE DrainRunaway \/ StepMissing
  <2>1. /\ status' = "failed" /\ Return(due)
        /\ UNCHANGED <<consumed, scopes, waitings, drove>>
    BY <1>4 DEF DrainRunaway, StepMissing
  <2>2. Over' /\ status' \in Terminal /\ status' # "pending"
    BY <1>2, <2>1 DEF Over, Terminal
  <2> QED BY <1>3, <2>1, <2>2, EventsReturn
<1>5. CASE ~(DrainRunaway \/ StepMissing)
  <2>1. Decided /\ due' \subseteq due /\ status' # "pending"
    BY <1>2, <1>5 DEF Drain, StepEnd, StepFork, StepMove, StepFail
  <2>2. pc' = "dispatch" /\ drove' = Driven /\ UNCHANGED <<event, consumed>>
    BY <2>1 DEF Decided
  <2>3. drove' = consumed'
    BY <1>3, <2>2 DEF Driven
  <2> QED BY <1>3, <2>1, <2>2, <2>3 DEF EventInv, EventsAtRest, EventsInCall, EventsApplied, AtRest
<1> QED BY <1>4, <1>5

\* The dispatch of effects and parking come after the transition.
LEMMA DispatchEvents ==
  ASSUME Inv, EventInv, Dispatch \/ Park
  PROVE  EventInv'
<1>1. /\ pc \in {"dispatch", "park"} /\ UNCHANGED <<event, consumed, drove>>
      /\ status' \in {status, "failed", "waiting"}
  BY DEF Dispatch, DispatchFailed, DispatchForked, DispatchCompleted, DispatchMoved, Delivered, Park
<1>2. /\ status # "pending" /\ consumed = drove
      /\ event = NoEvent \/ event \in consumed
      /\ due # {} => event = NoEvent
  BY <1>1, UnderWay DEF EventInv, EventsApplied, EventsInCall, AtRest
<1>3. CASE \E d : Return(d)
  BY <1>1, <1>2, <1>3, EventsReturn
<1>4. CASE DispatchForked \/ DispatchMoved
  <2>1. /\ pc' \in {"fork", "park", "drain"} /\ due' = due /\ (pc' = "fork" => loop' = "fork")
    BY <1>4 DEF DispatchForked, DispatchMoved
  <2> QED BY <1>1, <1>2, <2>1 DEF EventInv, EventsAtRest, EventsInCall, EventsApplied, AtRest
<1> QED BY <1>3, <1>4 DEF Dispatch, DispatchFailed, DispatchCompleted, Park

\* The calls of the host: Start and Feed put one event on record.
LEMMA HostEvents ==
  ASSUME Inv, EventInv, HostCall
  PROVE  EventInv'
<1>1. CASE Start
  <2>1. /\ pc = "idle" /\ status = "pending" /\ status' = "running" /\ pc' = "drain"
        /\ event' \in EventId /\ consumed' = {event'} /\ drove' = drove /\ due' = due
    BY <1>1 DEF Start
  <2>2. drove = {} /\ due = {}
    BY <2>1, UnderWay DEF EventInv, CallOK
  <2> QED BY <2>1, <2>2 DEF EventInv, EventsAtRest, EventsInCall, EventsApplied, AtRest
<1>2. CASE Compensate
  BY <1>2 DEF Compensate, callVars, EventInv, EventsAtRest, EventsInCall, EventsApplied, AtRest, Over
<1>3. ASSUME NEW e \in EventId, FeedInstance(e) \/ FeedScope(e)
      PROVE  EventInv'
  <2>1. /\ pc = "idle" /\ status \notin Terminal /\ status # "pending" /\ e \notin consumed
        /\ consumed' = consumed \cup {e} /\ event' = e
        /\ UNCHANGED <<status, routed, due, drove>>
        /\ pc' = "drain" \/ (pc' = "feed" /\ loop' = "feed")
    BY <1>3 DEF FeedInstance, FeedScope, Accept
  <2>2. due = {} /\ consumed = drove /\ ~routed
    BY <2>1, UnderWay DEF EventInv, EventsAtRest, CallOK, AtRest
  <2> QED BY <2>1, <2>2 DEF EventInv, EventsAtRest, EventsInCall, EventsApplied, AtRest
<1>4. ASSUME NEW d \in SUBSET Slot, WakeDue(d)
      PROVE  EventInv'
  <2>1. /\ pc = "idle" /\ d # {}
        /\ status = "waiting" \/ WakesTerminal
        /\ pc' = "wake" /\ due' = d
        /\ UNCHANGED <<status, event, consumed, scopes, waitings, routed, drove>>
    BY <1>4 DEF WakeDue, ctxVars
  <2>2. /\ drove \subseteq consumed /\ (status = "pending" => consumed = {})
        /\ consumed = drove \/ Over
        /\ ~routed
    BY <2>1 DEF EventInv, EventsAtRest, AtRest, Terminal
  <2>3. Over' <=> Over
    BY <2>1 DEF Over
  <2> QED BY <2>1, <2>2, <2>3 DEF EventInv, EventsAtRest, EventsInCall, EventsApplied, AtRest, Over
<1> QED BY <1>1, <1>2, <1>3, <1>4 DEF HostCall

\* Branches: an event is recorded as routed together with the move it causes.
LEMMA BranchEvents ==
  ASSUME Inv, EventInv, Feeding \/ Advance
  PROVE  EventInv'
<1>1. /\ pc \in {"fork", "feed", "advance"} /\ InScope
      /\ UNCHANGED <<status, event, consumed, loop>>
  BY DEF Feeding, FeedUnheard, FeedNoMatch, FeedBranchFails, FeedBranch, Offered, ctxVars, Advance,
         RunBranch, AdvanceNothing, AdvanceTripped, AdvanceArrives, AdvanceParks, AdvanceMoves,
         AdvanceFails, AdvanceStuck, Walking, Advancing, BranchLeft, InScope
<1>2. ContextOK /\ CallOK /\ status # "pending"
  BY <1>1, AtBranches
<1>3. /\ drove \subseteq consumed /\ consumed \subseteq drove \cup {event}
      /\ event = NoEvent \/ event \in consumed
      /\ due # {} => event = NoEvent
      /\ consumed \subseteq EventId /\ NoEvent \notin EventId
  BY <1>1, <1>2, RuntimeAssumption DEF EventInv, EventsInCall, AtRest, ContextOK
<1>4. CASE Feeding
  <2>1. PICK b \in todo : FeedUnheard(b) \/ FeedNoMatch(b) \/ FeedBranchFails(b) \/ FeedBranch(b)
    BY <1>4 DEF Feeding
  <2>2. /\ pc = "feed" /\ loop = "feed" /\ due' = due /\ pc' \in {"feed", "advance"}
        /\ UNCHANGED <<routed, drove>> \/ (routed' = TRUE /\ drove' = Driven)
    BY <1>2, <2>1 DEF FeedUnheard, FeedNoMatch, FeedBranchFails, FeedBranch, Offered, ctxVars, CallOK
  <2>3. IF ~routed THEN event \in consumed \ drove ELSE consumed = drove
    BY <2>2 DEF EventInv, EventsApplied
  <2>4. drove' = Driven => drove' = consumed
    BY <1>3 DEF Driven
  <2> QED BY <1>1, <1>2, <1>3, <2>2, <2>3, <2>4
          DEF EventInv, EventsAtRest, EventsInCall, EventsApplied, AtRest
<1>5. CASE Advance
  <2>1. /\ UNCHANGED <<routed, drove>> /\ due' \subseteq due
        /\ pc' \in {loop, "advance"}
        /\ pc = "fork" \/ pc = "advance"
    BY <1>1, <1>5 DEF Advance, RunBranch, AdvanceNothing, AdvanceTripped, AdvanceArrives,
        AdvanceParks, AdvanceMoves, AdvanceFails, AdvanceStuck, Walking, Advancing, BranchLeft,
        BranchStops, ctxVars
  <2>2. loop \in {"settle", "fork", "feed"}
    BY <1>2 DEF CallOK
  <2>3. IF loop = "feed" /\ ~routed THEN event \in consumed \ drove ELSE consumed = drove
    BY <2>1, <2>2 DEF EventInv, EventsApplied
  <2> QED BY <1>1, <1>2, <1>3, <2>1, <2>2, <2>3
          DEF EventInv, EventsAtRest, EventsInCall, EventsApplied, AtRest
<1> QED BY <1>4, <1>5

\* settleScope: an event that reached no branch is released, or the scope's
\* verdict ends the instance or hands the event on to the drain loop.
LEMMA SettleEvents ==
  ASSUME WakesTerminal => ScopesUntimed, Inv, EventInv, Settle
  PROVE  EventInv'
<1>1. Settling /\ InScope /\ UNCHANGED <<event, drove>>
  BY DEF Settle, SettleFails, SettleConverges, SettleTimesOut, SettleWaits, Settling, InScope
<1>2. /\ ContextOK /\ CallOK /\ scopes # <<>> /\ Len(scopes) <= 1 /\ Top.fork \in ForkNode
      /\ waitings[InstanceSlot] = NoWait /\ status # "pending"
  BY <1>1, AtBranches
<1>3. /\ drove \subseteq consumed /\ consumed \subseteq drove \cup {event}
      /\ event = NoEvent \/ event \in consumed
      /\ due # {} => event = NoEvent
      /\ consumed \subseteq EventId /\ NoEvent \notin EventId
      /\ IF loop = "feed" /\ ~routed THEN event \in consumed \ drove ELSE consumed = drove
      /\ loop = "feed" => due = {}
      /\ pc \in {"settle", "fork"} => consumed = drove
  BY <1>1, <1>2, RuntimeAssumption
     DEF EventInv, EventsInCall, EventsApplied, AtRest, ContextOK, Settling, CallOK
<1>4. due # {} => consumed = drove
  BY <1>3
<1>5. ASSUME PopScope
      PROVE  scopes' = <<>> /\ waitings'[InstanceSlot] = NoWait
  <2>1. scopes' = <<>>
    BY <1>2, <1>5, Popping DEF ContextOK
  <2>2. waitings' = Cleared(ScopeSlot(Top.fork)) /\ ScopeSlot(Top.fork) \in Slot /\ InstanceSlot \in Slot
    BY <1>2, <1>5, SlotKinds DEF PopScope
  <2> QED BY <1>2, <2>1, <2>2, Clearing, SlotKinds DEF ContextOK
<1>6. CASE SettleFails \/ (SettleConverges /\ Top.join = NoNode)
  <2>1. /\ PopScope /\ status' \in {"failed", "completed"} /\ UNCHANGED consumed
        /\ \E d : Return(d)
    BY <1>6 DEF SettleFails, SettleConverges
  <2>2. Over' /\ status' \in Terminal
    BY <1>5, <2>1 DEF Over, Terminal
  <2> QED BY <1>1, <1>3, <2>1, <2>2, EventsReturn DEF Terminal
<1>7. CASE SettleConverges /\ Top.join # NoNode
  <2>1. /\ status' = "running" /\ UNCHANGED consumed /\ pc' = "drain" /\ due' \subseteq due
    BY <1>7 DEF SettleConverges
  <2> QED BY <1>1, <1>3, <2>1 DEF EventInv, EventsAtRest, EventsInCall, EventsApplied, AtRest
<1>8. CASE SettleTimesOut
  <2>1. ForkOf[Top.fork].timeout /\ status' = "timed_out" /\ Return(due) /\ UNCHANGED consumed
    BY <1>8 DEF SettleTimesOut
  <2>2. ~WakesTerminal
    BY <1>2, <2>1 DEF ScopesUntimed
  <2> QED BY <1>1, <1>3, <1>4, <2>1, <2>2, EventsReturn DEF Terminal
<1>9. CASE SettleWaits
  <2>1. /\ status' = "waiting" /\ Return(due)
        /\ consumed' = IF loop = "feed" /\ ~routed THEN consumed \ {event} ELSE consumed
    BY <1>9 DEF SettleWaits
  <2>2. consumed' = drove
    BY <1>3, <2>1
  <2> QED BY <1>1, <2>1, <2>2, EventsReturn
<1> QED BY <1>6, <1>7, <1>8, <1>9 DEF Settle

\* WakeDue works without an external event.
LEMMA WakeEvents ==
  ASSUME Inv, EventInv, Waking
  PROVE  EventInv'
<1>1. pc \in {"wake", "fire"} /\ UNCHANGED <<consumed, drove>>
  BY DEF Waking, WakeDuplicate, WakeConsume, FireScopeTimeout, FireDeadlineFails, FireDeadline,
         FireDeadlineBranch, FireOrphan, FireTimer, FireTimerBranch, Fire
<1>2. /\ ContextOK /\ CallOK /\ todo = {} /\ loop = "settle" /\ status \notin {"running", "pending"}
      /\ due \subseteq Armed
      /\ pc = "fire" => slot \in due /\ slot \in Slot
  BY <1>1, AtWake
<1>3. due # {} /\ consumed \subseteq EventId /\ NoEvent \notin EventId
  BY <1>1, <1>2, RuntimeAssumption DEF EventInv, EventsAtRest, AtRest, ContextOK
<1>4. drove \subseteq consumed /\ (consumed = drove \/ Over) /\ ~routed
  BY <1>1, <1>3 DEF EventInv, EventsAtRest, AtRest
<1>5. ASSUME NEW s \in due, WakeDuplicate(s) \/ WakeConsume(s)
      PROVE  EventInv'
  <2>1. /\ pc = "wake" /\ UNCHANGED <<status, event, scopes>>
        /\ waitings' \in {waitings, Cleared(s)}
    BY <1>5 DEF WakeDuplicate, WakeConsume
  <2>2. s \in Slot
    BY <1>2 DEF Armed
  <2>3. Over => Over'
    BY <1>2, <2>1, <2>2, Clearing, SlotKinds DEF Over, ContextOK
  <2>4. CASE WakeDuplicate(s)
    BY <1>1, <1>2, <1>4, <2>1, <2>3, <2>4, EventsReturn DEF WakeDuplicate, Over
  <2>5. CASE WakeConsume(s)
    <3>1. pc' = "fire" /\ UNCHANGED <<due, routed>>
      BY <2>5 DEF WakeConsume
    <3> QED BY <1>1, <1>2, <1>3, <1>4, <2>1, <2>3, <3>1
            DEF EventInv, EventsAtRest, EventsInCall, EventsApplied, AtRest, Over
  <2> QED BY <1>5, <2>4, <2>5
<1>6. ASSUME FireScopeTimeout \/ FireDeadlineFails \/ FireOrphan
      PROVE  EventInv'
  <2>1. /\ \E kinds : Fire(kinds)
        /\ Return(Remaining) /\ UNCHANGED scopes /\ status' \in {status, "timed_out", "failed"}
    BY <1>6 DEF FireScopeTimeout, FireDeadlineFails, FireOrphan
  <2>2. waitings'[InstanceSlot] # NoWait => waitings'[InstanceSlot] = waitings[InstanceSlot]
    BY <2>1, Firing
  <2>3. Over => Over'
    BY <2>1, <2>2 DEF Over, Terminal
  <2>4. status' # "pending" /\ (Over => status' \in Terminal)
    BY <1>2, <2>1 DEF Over, Terminal
  <2> QED BY <1>1, <1>4, <2>1, <2>3, <2>4, EventsReturn
<1>7. ASSUME FireDeadline \/ FireTimer
      PROVE  EventInv'
  <2>1. /\ \E kinds : Fire(kinds)
        /\ slot = InstanceSlot /\ status' = "running" /\ pc' \in {"park", "drain"}
        /\ due' \subseteq due /\ UNCHANGED routed
    BY <1>7 DEF FireDeadline, FireTimer, Remaining
  <2>2. event' = NoEvent /\ waitings[InstanceSlot] # NoWait
    BY <2>1, Firing
  <2>3. consumed = drove
    BY <1>4, <2>2 DEF Over
  <2> QED BY <1>1, <2>1, <2>2, <2>3 DEF EventInv, EventsAtRest, EventsInCall, EventsApplied, AtRest
<1>8. ASSUME FireDeadlineBranch \/ FireTimerBranch
      PROVE  EventInv'
  <2>1. /\ \E kinds : Fire(kinds)
        /\ scopes # <<>> /\ pc' \in {"advance", "settle"} /\ loop' = "settle"
        /\ UNCHANGED <<status, routed>>
    BY <1>8 DEF FireDeadlineBranch, FireTimerBranch, ScopeHolds
  <2>2. event' = NoEvent
    BY <2>1, Firing
  <2>3. consumed = drove
    BY <1>4, <2>1 DEF Over
  <2> QED BY <1>1, <1>2, <2>1, <2>2, <2>3
          DEF EventInv, EventsAtRest, EventsInCall, EventsApplied, AtRest
<1> QED BY <1>5, <1>6, <1>7, <1>8 DEF Waking

\* Every event is on record exactly if it moved the instance or a branch, as
\* long as the host wakes waiting instances only (Manager.sweep), or no scope has
\* a timeout: otherwise a branch slot may revive an instance that timed out while
\* it held an event no branch took (Feed, AcceptEvent, releaseEvent).
THEOREM EventsMoveSomething ==
  ASSUME WakesTerminal => ScopesUntimed
  PROVE  Spec => []ConsumedExactlyIfDrove
<1>1. Inv /\ EventInv /\ [Next]_vars => EventInv'
  <2> SUFFICES ASSUME Inv, EventInv, [Next]_vars PROVE EventInv'
    OBVIOUS
  <2>1. CASE UNCHANGED vars
    BY <2>1 DEF vars, ctxVars, callVars, EventInv, EventsAtRest, EventsInCall, EventsApplied,
                AtRest, Over
  <2> QED BY <2>1, DrainEvents, DispatchEvents, BranchEvents, SettleEvents, WakeEvents, HostEvents
          DEF Next, CallStep
<1>2. EventInv => ConsumedExactlyIfDrove
  BY DEF EventInv, EventsAtRest, AtRest, ConsumedExactlyIfDrove
<1> QED BY <1>1, <1>2, EventsInit, InvariantHolds, PTL DEF Spec

-----------------------------------------------------------------------------
(* The waiting table, whatever the definition. *)

\* A slot keeps to its kind: a scope slot times the fork of its key, the others a
\* timer or a node with a deadline.
Watches(s, w) ==
  IF s.kind = "scope"
  THEN w.kind = "scope_timeout" /\ w.node = s.node /\ ForkOf[w.node].timeout
  ELSE IsTimedNode(w.node) /\ w.kind = IF TypeOf(w.node) = "timer" THEN "timer" ELSE "deadline"
SlotsWatch == \A s \in Armed : Watches(s, waitings[s])

\* Slots are armed by parking and by opening a scope, and only cleared otherwise.
LEMMA SlotsWatchStep ==
  ASSUME Inv, SlotsWatch, [Next]_vars
  PROVE  SlotsWatch'
<1>1. waitings \in [Slot -> Waiting \cup {NoWait}]
  BY UnderWay DEF ContextOK
<1>2. ASSUME \/ UNCHANGED waitings
             \/ \E s \in Slot : waitings' = Cleared(s)
             \/ \E s \in Slot : \E n : s.kind # "scope" /\ waitings' = ParkedAt(s, n)
             \/ \E f \in ForkNode : /\ ForkOf[f].timeout
                                    /\ waitings' = [waitings EXCEPT ![ScopeSlot(f)] =
                                         [kind |-> "scope_timeout", node |-> f, visit |-> visits[f] + 1]]
      PROVE  SlotsWatch'
  <2>1. CASE UNCHANGED waitings
    BY <2>1 DEF SlotsWatch, Armed
  <2>2. CASE \E s \in Slot : waitings' = Cleared(s)
    BY <1>1, <2>2, Clearing DEF SlotsWatch, Armed
  <2>3. ASSUME NEW s \in Slot, NEW n, s.kind # "scope", waitings' = ParkedAt(s, n), Parks(s, n)
        PROVE  SlotsWatch'
    <3> DEFINE w == [kind  |-> IF TypeOf(n) = "timer" THEN "timer" ELSE "deadline",
                     node  |-> n, visit |-> visits[n]]
    <3>1. waitings' = [waitings EXCEPT ![s] = w]
      BY <2>3 DEF ParkedAt
    <3>2. Watches(s, w)
      BY <2>3 DEF Watches, Parks
    <3> HIDE DEF w
    <3>3. waitings'[s] = w /\ \A t \in Slot : t # s => waitings'[t] = waitings[t]
      BY <1>1, <3>1
    <3> QED BY <3>2, <3>3 DEF SlotsWatch, Armed
  <2>4. ASSUME NEW f \in ForkNode, ForkOf[f].timeout,
               waitings' = [waitings EXCEPT ![ScopeSlot(f)] =
                              [kind |-> "scope_timeout", node |-> f, visit |-> visits[f] + 1]]
        PROVE  SlotsWatch'
    <3> DEFINE w == [kind |-> "scope_timeout", node |-> f, visit |-> visits[f] + 1]
               s == ScopeSlot(f)
    <3>1. Watches(s, w) /\ s \in Slot
      BY <2>4, SlotKinds DEF Watches, ScopeSlot
    <3>2. waitings' = [waitings EXCEPT ![s] = w]
      BY <2>4
    <3> HIDE DEF w, s
    <3>3. waitings'[s] = w /\ \A t \in Slot : t # s => waitings'[t] = waitings[t]
      BY <1>1, <3>1, <3>2
    <3> QED BY <3>1, <3>3 DEF SlotsWatch, Armed
  <2> QED BY <1>2, <2>1, <2>2, <2>3, <2>4 DEF ParkedAt
<1>3. InstanceSlot \in Slot /\ InstanceSlot.kind # "scope"
  BY SlotKinds DEF InstanceSlot
<1>4. ASSUME InScope
      PROVE  /\ ScopeSlot(Top.fork) \in Slot
             /\ \A b \in Branches(Top) : /\ BranchSlot(Top.fork, b) \in Slot
                                         /\ BranchSlot(Top.fork, b).kind # "scope"
             /\ todo \subseteq Branches(Top) /\ (pc = "advance" => cur \in Branches(Top))
  BY <1>4, AtBranches, SlotKinds DEF BranchSlot
<1>5. CASE Drain
  <2>1. CASE ~StepFork
    BY <1>2, <1>5, <2>1 DEF Drain, DrainRunaway, StepMissing, StepEnd, StepMove, StepFail
  <2>2. CASE StepFork
    <3>1. current \in ForkNode
      BY <2>2 DEF StepFork, Stepping, TypeOf, ForkNode
    <3> QED BY <1>2, <2>2, <3>1 DEF StepFork
  <2> QED BY <2>1, <2>2
<1>6. CASE Dispatch
  BY <1>2, <1>6 DEF Dispatch, DispatchFailed, DispatchForked, DispatchCompleted, DispatchMoved, Delivered
<1>7. CASE Park
  BY <1>2, <1>3, <1>7 DEF Park
<1>8. CASE Feeding
  <2>1. InScope
    BY <1>8 DEF Feeding, FeedUnheard, FeedNoMatch, FeedBranchFails, FeedBranch, Offered, InScope
  <2> QED BY <1>2, <1>4, <1>8, <2>1
          DEF Feeding, FeedUnheard, FeedNoMatch, FeedBranchFails, FeedBranch, ctxVars
<1>9. CASE Advance
  <2>1. InScope /\ (AdvanceParks => pc = "advance")
    BY <1>9 DEF Advance, RunBranch, AdvanceNothing, AdvanceTripped, AdvanceArrives, AdvanceParks,
        AdvanceMoves, AdvanceFails, AdvanceStuck, Walking, Advancing, InScope
  <2> QED BY <1>2, <1>4, <1>9, <2>1
          DEF Advance, RunBranch, AdvanceNothing, AdvanceTripped, AdvanceArrives, AdvanceParks,
              AdvanceMoves, AdvanceFails, AdvanceStuck, Walking, ctxVars
<1>10. CASE Settle
  <2>1. InScope
    BY <1>10 DEF Settle, SettleFails, SettleConverges, SettleTimesOut, SettleWaits, Settling, InScope
  <2> QED BY <1>2, <1>4, <1>10, <2>1
          DEF Settle, SettleFails, SettleConverges, SettleTimesOut, SettleWaits, PopScope
<1>11. CASE Waking
  <2>1. \/ UNCHANGED waitings
        \/ \E s \in due : waitings' = Cleared(s)
        \/ pc = "fire" /\ waitings' = Cleared(slot)
    BY <1>11 DEF Waking, WakeDuplicate, WakeConsume, FireScopeTimeout, FireDeadlineFails,
         FireDeadline, FireDeadlineBranch, FireOrphan, FireTimer, FireTimerBranch, Fire
  <2>2. due \subseteq Slot /\ (pc = "fire" => slot \in Slot)
    BY UnderWay, AtWake DEF CallOK, Armed
  <2> QED BY <1>2, <2>1, <2>2
<1>12. CASE HostCall
  BY <1>2, <1>3, <1>12 DEF HostCall, Start, Compensate, FeedInstance, FeedScope, WakeDue, ctxVars
<1>13. CASE UNCHANGED vars
  BY <1>2, <1>13 DEF vars, ctxVars
<1> QED BY <1>5, <1>6, <1>7, <1>8, <1>9, <1>10, <1>11, <1>12, <1>13 DEF Next, CallStep

-----------------------------------------------------------------------------
(* Compensation. *)

\* Whoever hands a failed instance back has compensated it.
FailedInv == AtRest /\ AutoCompensate /\ status = "failed" => undo = Compensated(undo)

\* A compensated stack has nothing left to compensate.
LEMMA CompensatedOnce ==
  ASSUME NEW u \in Seq(UndoEntry)
  PROVE  Compensated(Compensated(u)) = Compensated(u)
<1>1. /\ DOMAIN Compensated(u) = DOMAIN u
      /\ \A i \in DOMAIN u : Compensated(u)[i] = [u[i] EXCEPT !.done = TRUE]
  BY DEF Compensated
<1>2. \A i \in DOMAIN u : u[i] \in UndoEntry
  BY LenProperties, ElementOfSeq
<1>3. \A i \in DOMAIN u : [Compensated(u)[i] EXCEPT !.done = TRUE] = Compensated(u)[i]
  BY <1>1, <1>2 DEF UndoEntry
<1>4. Compensated(Compensated(u)) = [i \in DOMAIN u |-> [Compensated(u)[i] EXCEPT !.done = TRUE]]
  BY <1>1 DEF Compensated
<1> HIDE DEF Compensated
<1>5. Compensated(u) = [i \in DOMAIN u |-> Compensated(u)[i]]
  BY DEF Compensated
<1> QED BY <1>3, <1>4, <1>5

\* Only an action that hands the instance back can break it: it compensates the
\* failure, or leaves the instance in a state of its own that is not failed.
LEMMA FailedStep ==
  ASSUME DeadlinesMap, Inv, SlotsWatch, FailedInv, [Next]_vars
  PROVE  FailedInv'
<1>1. /\ undo \in Seq(UndoEntry)
      /\ Compensated(undo) \in Seq(UndoEntry)
      /\ \A n, ok : Pushed(n, ok) \in Seq(UndoEntry)
  BY UnderWay, UndoTypes DEF ContextOK
<1>2. \A u \in Seq(UndoEntry) : AutoCompensate => OnFailure(u) = Compensated(OnFailure(u))
  BY CompensatedOnce DEF OnFailure
<1>3. ASSUME \/ \E u \in Seq(UndoEntry) : undo' = OnFailure(u)
             \/ status' # "failed"
             \/ AtRest /\ UNCHANGED <<status, undo>>
             \/ ~AtRest'
      PROVE  FailedInv'
  BY <1>2, <1>3 DEF FailedInv
<1>4. pc = "fire" /\ waitings[slot].kind = "deadline" => waitings[slot].node \notin MayFail
  <2> SUFFICES ASSUME pc = "fire", waitings[slot].kind = "deadline"
               PROVE  waitings[slot].node \notin MayFail
    OBVIOUS
  <2>1. slot \in Armed /\ Watches(slot, waitings[slot])
    BY AtWake DEF SlotsWatch
  <2>2. Deadline[waitings[slot].node] # NoNode
    BY <2>1 DEF Watches, IsTimedNode
  <2> QED BY <2>2 DEF DeadlinesMap
<1>5. CASE Drain
  <2>1. CASE DrainRunaway \/ StepMissing
    BY <1>1, <1>3, <2>1 DEF DrainRunaway, StepMissing
  <2>2. CASE ~(DrainRunaway \/ StepMissing)
    <3>1. Decided
      BY <1>5, <2>2 DEF Drain, StepEnd, StepFork, StepMove, StepFail
    <3> QED BY <1>3, <3>1 DEF Decided, AtRest
  <2> QED BY <2>1, <2>2
<1>6. CASE Dispatch \/ Park
  <2>1. CASE DispatchFailed
    BY <1>1, <1>3, <2>1 DEF DispatchFailed
  <2>2. CASE DispatchForked \/ DispatchMoved \/ DispatchCompleted
    BY <1>3, <2>2 DEF DispatchForked, DispatchMoved, DispatchCompleted, Delivered
  <2>3. CASE Park
    BY <1>3, <2>3 DEF Park
  <2> QED BY <1>6, <2>1, <2>2, <2>3 DEF Dispatch
<1>7. CASE Feeding
  <2>1. pc' \in {"feed", "advance"}
    BY <1>7 DEF Feeding, FeedUnheard, FeedNoMatch, FeedBranchFails, FeedBranch, Offered
  <2> QED BY <1>3, <2>1 DEF AtRest
<1>8. CASE Advance
  <2>1. pc' \in {"advance", loop} /\ InScope
    BY <1>8 DEF Advance, RunBranch, AdvanceNothing, AdvanceTripped, AdvanceArrives, AdvanceParks,
        AdvanceMoves, AdvanceFails, AdvanceStuck, Walking, Advancing, BranchStops, InScope
  <2>2. loop \in {"settle", "fork", "feed"}
    BY UnderWay DEF CallOK
  <2> QED BY <1>3, <2>1, <2>2 DEF AtRest
<1>9. CASE Settle
  <2>1. CASE SettleFails
    BY <1>1, <1>3, <2>1 DEF SettleFails
  <2>2. CASE ~SettleFails
    BY <1>3, <1>9, <2>2 DEF Settle, SettleConverges, SettleTimesOut, SettleWaits
  <2> QED BY <2>1, <2>2
<1>10. CASE Waking
  <2>1. pc \in {"wake", "fire"}
    BY <1>10 DEF Waking, WakeDuplicate, WakeConsume, FireScopeTimeout, FireDeadlineFails,
         FireDeadline, FireDeadlineBranch, FireOrphan, FireTimer, FireTimerBranch, Fire
  <2>2. CASE \E s \in due : WakeDuplicate(s) \/ WakeConsume(s)
    BY <1>3, <2>1, <2>2 DEF WakeDuplicate, WakeConsume, AtRest
  <2>3. CASE FireScopeTimeout \/ FireOrphan
    BY <1>3, <2>1, <2>3 DEF FireScopeTimeout, FireOrphan, AtRest
  <2>4. CASE FireDeadline \/ FireTimer \/ FireDeadlineBranch \/ FireTimerBranch
    <3>1. pc' \in {"park", "drain", "advance", "settle"}
      BY <2>4 DEF FireDeadline, FireTimer, FireDeadlineBranch, FireTimerBranch
    <3> QED BY <1>3, <3>1 DEF AtRest
  <2>5. ~FireDeadlineFails
    BY <1>4 DEF FireDeadlineFails, Fire, FiredNode
  <2> QED BY <1>10, <2>2, <2>3, <2>4, <2>5 DEF Waking
<1>11. CASE HostCall
  <2>1. CASE Compensate
    <3>1. undo' = Compensated(undo)
      BY <2>1 DEF Compensate
    <3> QED BY <1>1, <3>1, CompensatedOnce DEF FailedInv
  <2>2. CASE Start
    BY <1>3, <2>2 DEF Start
  <2>3. CASE \E e \in EventId : FeedInstance(e) \/ FeedScope(e)
    BY <1>3, <2>3 DEF FeedInstance, FeedScope, AtRest
  <2>4. CASE \E d \in SUBSET Slot : WakeDue(d)
    BY <1>3, <2>4 DEF WakeDue, ctxVars, AtRest
  <2> QED BY <1>11, <2>1, <2>2, <2>3, <2>4 DEF HostCall
<1>12. CASE UNCHANGED vars
  BY <1>3, <1>12 DEF vars, ctxVars, callVars, AtRest
<1> QED BY <1>5, <1>6, <1>7, <1>8, <1>9, <1>10, <1>11, <1>12 DEF Next, CallStep

\* The slots' kinds hold of every definition (parkWaiting, stepParallel).
LEMMA SlotsWatchHolds == Spec => []SlotsWatch
<1>1. Init => SlotsWatch
  BY DEF Init, SlotsWatch, Armed
<1> QED BY <1>1, SlotsWatchStep, InvariantHolds, PTL DEF Spec

\* With automatic compensation no call hands back a failed instance whose effects
\* are still to be undone, where no deadline's output mapping fails (onFailure;
\* fireWaiting fails the instance without it).
THEOREM FailedIsCompensated ==
  ASSUME DeadlinesMap
  PROVE  Spec => []FailedMeansCompensated
<1>1. Init => FailedInv
  BY DEF Init, FailedInv
<1>2. Inv /\ SlotsWatch /\ FailedInv /\ [Next]_vars => FailedInv'
  BY FailedStep
<1>3. FailedInv => FailedMeansCompensated
  BY DEF FailedInv, FailedMeansCompensated, AtRest
<1> QED BY <1>1, <1>2, <1>3, InvariantHolds, SlotsWatchHolds, PTL DEF Spec

-----------------------------------------------------------------------------
(* Branches and their slots. *)

\* Every scope waits for all its branches and goes on whatever becomes of them.
ScopesAwaitAll == \A f \in ForkNode : ForkOf[f].mode = "all" /\ ForkOf[f].onFail = "continue"

\* An armed branch slot belongs to a branch of the open scope that waits at its node.
Held(s) == /\ scopes # <<>> /\ Top.fork = s.node
           /\ Top.branches[s.branch].node = waitings[s].node
           /\ Top.branches[s.branch].status = "waiting" /\ ~Top.branches[s.branch].done
SlotsHeld == \A s \in Armed : s.kind = "branch" => Held(s) /\ (pc = "advance" => s.branch # cur)

\* Branches still to be run have not moved, branches still to be fed wait.
BranchesInTurn ==
  /\ pc = "fork" => loop = "fork"
  /\ pc = "dispatch" /\ scopes # <<>> => WithStatus(Top, "running") = Branches(Top)
  /\ pc \in {"fork", "advance"} /\ loop = "fork" => todo \subseteq WithStatus(Top, "running")
  /\ pc \in {"feed", "advance"} /\ loop = "feed" => todo \subseteq WithStatus(Top, "waiting")
  /\ pc = "advance" => cur \notin todo

BranchInv == SlotsHeld /\ BranchesInTurn

\* A branch slot is told apart by its fork and its number.
LEMMA BranchSlotKey ==
  ASSUME NEW s \in Slot, s.kind = "branch"
  PROVE  s = BranchSlot(s.node, s.branch)
<1>1. s \notin {ScopeSlot(f) : f \in ForkNode} /\ s # InstanceSlot
  BY DEF ScopeSlot, InstanceSlot
<1>2. PICK f \in ForkNode : \E b \in BranchOf(f) : s = BranchSlot(f, b)
  BY <1>1 DEF Slot, BranchSlots
<1> QED BY <1>2 DEF BranchSlot

\* Changing one branch of the open scope leaves the others as they are.
LEMMA OneBranchMoves ==
  ASSUME scopes \in Seq(Scope), scopes # <<>>,
         NEW b \in Branches(Top), NEW br, NEW join,
         \/ BranchBecomes(b, br)
         \/ TopBecomes(join, [Top.branches EXCEPT ![b] = br])
  PROVE  /\ scopes' # <<>> /\ Top'.fork = Top.fork /\ Branches(Top') = Branches(Top)
         /\ Top'.branches = [Top.branches EXCEPT ![b] = br]
<1> DEFINE new(j) == [fork |-> Top.fork, join |-> j,
                      branches |-> [Top.branches EXCEPT ![b] = br]]
<1>1. /\ Len(scopes) \in 1 .. Len(scopes) /\ Top \in Scope
  BY TopScope
<1>2. PICK f \in ForkNode : Top \in [fork : {f}, join : Node \cup {NoNode},
                                     branches : [BranchOf(f) -> Branch]]
  BY <1>1 DEF Scope
<1>3. [Top EXCEPT !.branches[b] = br] = new(Top.join)
  BY <1>2
<1>4. \E j : scopes' = [scopes EXCEPT ![Len(scopes)] = new(j)]
  <2>1. CASE BranchBecomes(b, br)
    <3>1. scopes' = [scopes EXCEPT ![Len(scopes)] = [Top EXCEPT !.branches[b] = br]]
      BY <2>1 DEF BranchBecomes, Top
    <3> QED BY <1>3, <3>1
  <2>2. CASE TopBecomes(join, [Top.branches EXCEPT ![b] = br])
    BY <2>2 DEF TopBecomes
  <2> QED BY <2>1, <2>2
<1>5. PICK j : scopes' = [scopes EXCEPT ![Len(scopes)] = new(j)]
  BY <1>4
<1>6. /\ new(j).fork = Top.fork /\ new(j).branches = [Top.branches EXCEPT ![b] = br]
      /\ DOMAIN new(j).branches = DOMAIN Top.branches
  OBVIOUS
<1> HIDE DEF new
<1>7. DOMAIN scopes = 1 .. Len(scopes) /\ Len(scopes) \in Nat
  BY LenProperties
<1>8. DOMAIN scopes' = 1 .. Len(scopes) /\ scopes'[Len(scopes)] = new(j)
  BY <1>1, <1>5, <1>7
<1>9. Len(scopes') = Len(scopes)
  BY <1>7, <1>8
<1>10. scopes' # <<>> /\ Top' = new(j)
  BY <1>1, <1>8, <1>9 DEF Top
<1> QED BY <1>6, <1>10 DEF Branches

\* A step that at most changes branch b and clears its slot, and disarms others.
LEMMA HeldFrame ==
  ASSUME Inv, SlotsHeld, scopes # <<>>, NEW b \in Branches(Top),
         scopes' # <<>>, Top'.fork = Top.fork,
         \A c \in Branches(Top) \ {b} : Top'.branches[c] = Top.branches[c],
         \A s \in Slot : waitings'[s] \in {waitings[s], NoWait},
         waitings'[BranchSlot(Top.fork, b)] = NoWait,
         pc' = "advance" => cur' = b
  PROVE  SlotsHeld'
<1>1. scopes \in Seq(Scope) /\ Branches(Top) = BranchOf(Top.fork)
  BY UnderWay, TopScope DEF ContextOK
<1> SUFFICES ASSUME NEW s \in Armed', s.kind = "branch"
             PROVE  Held(s)' /\ (pc' = "advance" => s.branch # cur')
  BY DEF SlotsHeld
<1>2. s \in Slot /\ s \in Armed /\ waitings'[s] = waitings[s] /\ waitings'[s] # NoWait
  BY DEF Armed
<1>3. Held(s) /\ s = BranchSlot(s.node, s.branch)
  BY <1>2, BranchSlotKey DEF SlotsHeld
<1>4. s.node = Top.fork /\ s.branch # b
  BY <1>2, <1>3 DEF Held
<1>5. s.branch \in Branches(Top)
  BY <1>1, <1>2, <1>4, SlotKinds
<1>6. Top'.branches[s.branch] = Top.branches[s.branch]
  BY <1>4, <1>5
<1> QED BY <1>2, <1>3, <1>4, <1>6 DEF Held

\* A step that leaves the branches alone and disarms slots at most.
LEMMA HeldKeeps ==
  ASSUME SlotsHeld, UNCHANGED scopes, pc' # "advance",
         \A s \in Slot : waitings'[s] \in {waitings[s], NoWait}
  PROVE  SlotsHeld'
<1> SUFFICES ASSUME NEW s \in Armed', s.kind = "branch"
             PROVE  Held(s)'
  BY DEF SlotsHeld
<1>1. s \in Armed /\ waitings'[s] = waitings[s]
  BY DEF Armed
<1> QED BY <1>1 DEF SlotsHeld, Held, Top

\* With no scope open, or none whose branch waits, no branch slot is armed.
LEMMA NoneHeld ==
  ASSUME Inv, SlotsHeld,
         scopes = <<>> \/ (\A b \in Branches(Top) : \/ Top.branches[b].done
                                                    \/ Top.branches[b].status # "waiting")
  PROVE  \A s \in Armed : s.kind # "branch"
<1> SUFFICES ASSUME NEW s \in Armed, s.kind = "branch" PROVE FALSE
  OBVIOUS
<1>1. Held(s) /\ s \in Slot
  BY DEF SlotsHeld, Armed
<1>2. s.branch \in Branches(Top)
  BY <1>1, UnderWay, TopScope, SlotKinds DEF Held, ContextOK
<1> QED BY <1>1, <1>2 DEF Held

\* A step after which no branch slot is armed and no branch is in turn.
LEMMA BranchesRest ==
  ASSUME \A s \in Armed' : s.kind # "branch",
         pc' \notin {"fork", "feed", "advance"}, pc' = "dispatch" => scopes' = <<>>
  PROVE  BranchInv'
BY DEF BranchInv, SlotsHeld, BranchesInTurn

\* A step that at most disarms slots and leaves the branch loop.
LEMMA BranchesLeft ==
  ASSUME BranchInv, UNCHANGED scopes, pc' \notin {"fork", "feed", "advance", "dispatch"},
         \A s \in Slot : waitings'[s] \in {waitings[s], NoWait}
  PROVE  BranchInv'
BY HeldKeeps DEF BranchInv, BranchesInTurn

\* drain: no scope is open, and one that opens has all its branches to run.
LEMMA DrainBranches ==
  ASSUME Inv, BranchInv, Drain
  PROVE  BranchInv'
<1>1. pc = "drain"
  BY DEF Drain, DrainRunaway, StepMissing, StepEnd, StepFork, StepMove, StepFail, Selecting, Stepping
<1>2. ContextOK /\ scopes = <<>> /\ \A s \in Armed : s.kind # "branch"
  BY <1>1, AtDrain, NoneHeld DEF BranchInv
<1>3. CASE UNCHANGED <<scopes, waitings>>
  <2>1. pc' \in {"idle", "wake", "dispatch"}
    BY DEF Drain, DrainRunaway, StepMissing, StepEnd, StepFork, StepMove, StepFail, Decided,
           Return, AfterCall
  <2> QED BY <1>2, <1>3, <2>1, BranchesRest DEF Armed
<1>4. CASE ~UNCHANGED <<scopes, waitings>>
  <2> DEFINE sc == [fork |-> current, join |-> ForkOf[current].join,
                    branches |-> [b \in BranchOf(current) |->
                       [node |-> Trans[current][b].next, status |-> "running", done |-> FALSE]]]
             w == [kind |-> "scope_timeout", node |-> current, visit |-> visits[current] + 1]
  <2>1. StepFork
    BY <1>4 DEF Drain, DrainRunaway, StepMissing, StepEnd, StepMove, StepFail
  <2>2. /\ scopes' = Append(scopes, sc) /\ pc' = "dispatch"
        /\ waitings' = [waitings EXCEPT ![ScopeSlot(current)] = w] \/ UNCHANGED waitings
    BY <1>4, <2>1 DEF StepFork, Decided
  <2>3. WithStatus(sc, "running") = Branches(sc)
    BY DEF WithStatus, Branches
  <2>4. Top' = sc
    <3> HIDE DEF sc
    <3>1. scopes' = <<sc>>
      BY <1>2, <2>2
    <3> QED BY <3>1 DEF Top
  <2>5. \A s \in Armed' : s.kind # "branch"
    <3>1. ScopeSlot(current).kind = "scope"
      BY DEF ScopeSlot
    <3> HIDE DEF w
    <3> QED BY <1>2, <2>2, <3>1 DEF ContextOK, Armed
  <2> HIDE DEF sc, w
  <2> QED BY <2>2, <2>3, <2>4, <2>5 DEF BranchInv, SlotsHeld, BranchesInTurn
<1> QED BY <1>3, <1>4

\* The effects of a fork are delivered before its first branch runs.
LEMMA DispatchBranches ==
  ASSUME Inv, BranchInv, Dispatch \/ Park
  PROVE  BranchInv'
<1>1. CASE Park
  <2>1. /\ pc = "park" /\ waitings' = ParkedAt(InstanceSlot, current) /\ UNCHANGED scopes
        /\ pc' \in {"idle", "wake"}
    BY <1>1 DEF Park, Return, AfterCall
  <2>2. ContextOK /\ scopes = <<>> /\ \A s \in Armed : s.kind # "branch"
    BY <2>1, UnderWay, NoneHeld DEF Inv, ScopeDiscipline, BranchInv
  <2>3. InstanceSlot \in Slot /\ InstanceSlot.kind # "branch"
    BY SlotKinds DEF InstanceSlot
  <2>4. \A s \in Armed' : s.kind # "branch"
    BY <2>1, <2>2, <2>3, Parking DEF Armed, ContextOK
  <2> QED BY <2>1, <2>4, BranchesRest
<1>2. CASE DispatchForked
  <2>1. /\ pc = "dispatch" /\ UNCHANGED <<scopes, waitings>> /\ scopes # <<>>
        /\ pc' = "fork" /\ loop' = "fork" /\ todo' = Branches(Top)
    BY <1>2, AtDispatch DEF DispatchForked, Delivered
  <2>2. WithStatus(Top, "running") = Branches(Top) /\ Top' = Top
    BY <2>1 DEF BranchInv, BranchesInTurn, Top
  <2> QED BY <2>1, <2>2, HeldKeeps DEF BranchInv, BranchesInTurn
<1>3. CASE Dispatch /\ ~DispatchForked
  <2>1. UNCHANGED <<scopes, waitings>> /\ pc' \in {"idle", "wake", "park", "drain"}
    BY <1>3 DEF Dispatch, DispatchFailed, DispatchCompleted, DispatchMoved, Delivered, Return, AfterCall
  <2> QED BY <2>1, BranchesLeft
<1> QED BY <1>1, <1>2, <1>3

\* The calls of the host leave the branches alone.
LEMMA HostBranches ==
  ASSUME Inv, BranchInv, HostCall
  PROVE  BranchInv'
<1>1. waitings \in [Slot -> Waiting \cup {NoWait}] /\ InstanceSlot \in Slot
  BY UnderWay, SlotKinds DEF ContextOK
<1>2. CASE Start \/ Compensate \/ (\E d \in SUBSET Slot : WakeDue(d))
  BY <1>2, BranchesLeft DEF Start, Compensate, WakeDue, ctxVars, callVars
<1>3. CASE \E e \in EventId : FeedInstance(e)
  BY <1>1, <1>3, BranchesLeft, Clearing DEF FeedInstance
<1>4. CASE \E e \in EventId : FeedScope(e)
  <2>1. /\ UNCHANGED <<scopes, waitings>> /\ pc' = "feed" /\ loop' = "feed"
        /\ todo' = WithStatus(Top, "waiting") /\ Top' = Top
    BY <1>4 DEF FeedScope, Top
  <2> QED BY <2>1, HeldKeeps DEF BranchInv, BranchesInTurn
<1> QED BY <1>2, <1>3, <1>4 DEF HostCall

\* What a move of branch b leaves of the branches in turn.
LEMMA TurnFrame ==
  ASSUME BranchesInTurn, pc \in {"fork", "feed", "advance"}, pc = "feed" => loop = "feed",
         NEW b \in Branches(Top), Branches(Top') = Branches(Top),
         \A c \in Branches(Top) \ {b} : Top'.branches[c] = Top.branches[c],
         UNCHANGED loop, loop \in {"settle", "fork", "feed"}, pc' \in {"advance", loop},
         todo' \subseteq todo \ {b}, todo \subseteq Branches(Top),
         pc' = "advance" => cur' = b
  PROVE  BranchesInTurn'
<1>1. ASSUME NEW st, todo \subseteq WithStatus(Top, st)
      PROVE  todo' \subseteq WithStatus(Top', st)
  BY <1>1 DEF WithStatus
<1>2. loop = "fork" => todo' \subseteq WithStatus(Top', "running")
  BY <1>1 DEF BranchesInTurn
<1>3. loop = "feed" => todo' \subseteq WithStatus(Top', "waiting")
  BY <1>1 DEF BranchesInTurn
<1> QED BY <1>2, <1>3 DEF BranchesInTurn

\* An event that a branch takes clears the slot the branch was waiting with.
LEMMA FeedingBranches ==
  ASSUME DeadlinesMap, Inv, SlotsWatch, BranchInv, Feeding
  PROVE  BranchInv'
<1>1. PICK b \in todo : FeedUnheard(b) \/ FeedNoMatch(b) \/ FeedBranchFails(b) \/ FeedBranch(b)
  BY DEF Feeding
<1>2. /\ pc = "feed" /\ InScope /\ todo' = todo \ {b} /\ UNCHANGED loop
  BY <1>1 DEF FeedUnheard, FeedNoMatch, FeedBranchFails, FeedBranch, Offered, InScope
<1>3. /\ ContextOK /\ scopes # <<>> /\ todo \subseteq Branches(Top) /\ b \in Branches(Top)
      /\ Top.fork \in ForkNode /\ Branches(Top) = BranchOf(Top.fork)
      /\ loop = "feed"
  BY <1>2, AtBranches DEF CallOK
<1>4. CASE FeedUnheard(b) \/ FeedNoMatch(b)
  <2>1. UNCHANGED <<scopes, waitings, pc>> /\ Top' = Top
    BY <1>4 DEF FeedUnheard, FeedNoMatch, ctxVars, Top
  <2> QED BY <1>2, <1>3, <2>1, HeldKeeps DEF BranchInv, BranchesInTurn
<1>5. CASE FeedBranchFails(b) \/ FeedBranch(b)
  <2> DEFINE s == BranchSlot(Top.fork, b)
  <2>1. /\ \E br : BranchBecomes(b, br)
        /\ pc' \in {"feed", "advance"} /\ (pc' = "advance" => cur' = b)
    BY <1>2, <1>5 DEF FeedBranchFails, FeedBranch
  <2>2. /\ scopes' # <<>> /\ Top'.fork = Top.fork /\ Branches(Top') = Branches(Top)
        /\ \A c \in Branches(Top) \ {b} : Top'.branches[c] = Top.branches[c]
    BY <1>3, <2>1, OneBranchMoves DEF ContextOK, Branches
  <2>3. s \in Slot /\ s.kind = "branch" /\ s.branch = b
    BY <1>3, SlotKinds DEF BranchSlot
  <2>4. waitings' = Cleared(s) \/ (UNCHANGED waitings /\ NodeAt(b) \in MayFail)
    BY <1>5 DEF FeedBranchFails, FeedBranch
  <2>5. NodeAt(b) \in MayFail => s \notin Armed
    <3> SUFFICES ASSUME NodeAt(b) \in MayFail, s \in Armed PROVE FALSE
      OBVIOUS
    <3>1. waitings[s].node = NodeAt(b) /\ Watches(s, waitings[s])
      BY <2>3 DEF BranchInv, SlotsHeld, Held, SlotsWatch, NodeAt
    <3>2. TypeOf(NodeAt(b)) # "timer"
      BY <1>5 DEF FeedBranchFails, FeedBranch, Offered
    <3> QED BY <2>3, <3>1, <3>2 DEF Watches, IsTimedNode, DeadlinesMap
  <2> HIDE DEF s
  <2>6. /\ \A t \in Slot : waitings'[t] \in {waitings[t], NoWait}
        /\ waitings'[s] = NoWait
    BY <1>3, <2>3, <2>4, <2>5, Clearing DEF ContextOK, Armed
  <2>7. SlotsHeld'
    BY <1>3, <2>1, <2>2, <2>6, HeldFrame DEF s, BranchInv
  <2>8. BranchesInTurn'
    BY <1>2, <1>3, <2>1, <2>2, TurnFrame DEF BranchInv
  <2> QED BY <2>7, <2>8 DEF BranchInv
<1> QED BY <1>1, <1>4, <1>5

\* The branch at hand has no slot until it parks.
LEMMA AdvanceBranches ==
  ASSUME Inv, BranchInv, Advance
  PROVE  BranchInv'
<1>1. /\ pc \in {"fork", "advance"} /\ InScope /\ UNCHANGED loop
      /\ pc' \in {"advance", loop}
  BY DEF Advance, RunBranch, AdvanceNothing, AdvanceTripped, AdvanceArrives, AdvanceParks,
         AdvanceMoves, AdvanceFails, AdvanceStuck, Walking, Advancing, BranchStops, BranchLeft,
         InScope
<1>2. /\ ContextOK /\ scopes # <<>> /\ todo \subseteq Branches(Top)
      /\ Top.fork \in ForkNode /\ Branches(Top) = BranchOf(Top.fork)
      /\ Top.branches \in [Branches(Top) -> Branch]
      /\ pc = "advance" => cur \in Branches(Top)
      /\ loop \in {"settle", "fork", "feed"}
  BY <1>1, AtBranches DEF CallOK
<1>3. CASE \E b \in todo : RunBranch(b)
  <2>1. PICK b \in todo : RunBranch(b)
    BY <1>3
  <2>2. /\ pc = "fork" /\ todo' = todo \ {b} /\ cur' = b /\ pc' = "advance"
        /\ UNCHANGED <<scopes, waitings>> /\ Top' = Top /\ loop = "fork"
    BY <2>1 DEF RunBranch, ctxVars, BranchInv, BranchesInTurn, Top
  <2>3. Top.branches[b].status = "running" /\ b \in Branches(Top)
    BY <1>2, <2>2 DEF BranchInv, BranchesInTurn, WithStatus
  <2>4. SlotsHeld'
    BY <2>2, <2>3 DEF BranchInv, SlotsHeld, Held, Armed
  <2>5. BranchesInTurn'
    BY <1>1, <2>2 DEF BranchInv, BranchesInTurn
  <2> QED BY <2>4, <2>5 DEF BranchInv
<1>4. CASE AdvanceNothing
  <2>1. /\ pc = "advance" /\ pc' = loop /\ UNCHANGED <<scopes, waitings, todo>> /\ Top' = Top
    BY <1>4 DEF AdvanceNothing, BranchStops, BranchLeft, Top
  <2>2. SlotsHeld'
    BY <1>2, <2>1, HeldKeeps DEF BranchInv
  <2>3. BranchesInTurn'
    BY <1>1, <1>2, <2>1 DEF BranchInv, BranchesInTurn
  <2> QED BY <2>2, <2>3 DEF BranchInv
<1>5. CASE \/ AdvanceTripped \/ AdvanceArrives \/ AdvanceParks \/ AdvanceMoves \/ AdvanceFails
           \/ AdvanceStuck
  <2> DEFINE s == BranchSlot(Top.fork, cur)
  <2>1. /\ pc = "advance" /\ ~Top.branches[cur].done /\ UNCHANGED todo
        /\ pc' = "advance" => cur' = cur
    BY <1>2, <1>5 DEF AdvanceTripped, AdvanceArrives, AdvanceParks, AdvanceMoves, AdvanceFails,
        AdvanceStuck, Walking, Advancing, BranchStops, BranchLeft
  <2>2. \E br, join : \/ BranchBecomes(cur, br)
                      \/ TopBecomes(join, [Top.branches EXCEPT ![cur] = br])
    BY <1>5 DEF AdvanceTripped, AdvanceArrives, AdvanceParks, AdvanceMoves, AdvanceFails, AdvanceStuck
  <2>3. /\ scopes' # <<>> /\ Top'.fork = Top.fork /\ Branches(Top') = Branches(Top)
        /\ \A c \in Branches(Top) \ {cur} : Top'.branches[c] = Top.branches[c]
    BY <1>2, <2>1, <2>2, OneBranchMoves DEF ContextOK, Branches
  <2>4. s \in Slot /\ s.kind = "branch" /\ s.branch = cur /\ s.node = Top.fork
    BY <1>2, <2>1, SlotKinds DEF BranchSlot
  <2>5. waitings[s] = NoWait
    BY <2>1, <2>4 DEF BranchInv, SlotsHeld, Armed
  <2>6. BranchesInTurn'
    BY <1>1, <1>2, <2>1, <2>3, TurnFrame DEF BranchInv, BranchesInTurn
  <2>7. CASE ~AdvanceParks
    <3>1. UNCHANGED waitings
      BY <1>5, <2>7 DEF AdvanceTripped, AdvanceArrives, AdvanceMoves, AdvanceFails, AdvanceStuck, Walking
    <3>2. SlotsHeld'
      <4> HIDE DEF s
      <4> QED BY <1>2, <2>1, <2>3, <2>4, <2>5, <3>1, HeldFrame DEF s, BranchInv
    <3> QED BY <2>6, <3>2 DEF BranchInv
  <2>8. CASE AdvanceParks
    <3> DEFINE br == [Top.branches[cur] EXCEPT !.status = "waiting"]
    <3>1. /\ BranchBecomes(cur, br) /\ waitings' = ParkedAt(s, NodeAt(cur)) /\ pc' = loop
      BY <2>8 DEF AdvanceParks, BranchStops
    <3>2. Top'.branches[cur] = br
      <4> HIDE DEF br
      <4>1. cur \in Branches(Top) /\ scopes \in Seq(Scope)
        BY <1>2, <2>1 DEF ContextOK
      <4>2. Top'.branches = [Top.branches EXCEPT ![cur] = br]
        BY <1>2, <3>1, <4>1, OneBranchMoves
      <4> QED BY <1>2, <4>1, <4>2
    <3>3. br.node = NodeAt(cur) /\ br.status = "waiting" /\ ~br.done
      BY <1>2, <2>1 DEF Branch, NodeAt
    <3> HIDE DEF br, s
    <3>4. /\ \A t \in Slot : t # s => waitings'[t] = waitings[t]
          /\ s \in Armed' => waitings'[s].node = NodeAt(cur)
      BY <1>2, <2>4, <2>5, <3>1, Parking DEF ContextOK, Armed
    <3>5. ASSUME NEW t \in Armed', t.kind = "branch"
          PROVE  Held(t)'
      <4>1. CASE t = s
        BY <2>3, <2>4, <3>2, <3>3, <3>4, <3>5, <4>1 DEF Held
      <4>2. CASE t # s
        <5>1. t \in Slot /\ t \in Armed /\ waitings'[t] = waitings[t]
          BY <3>4, <3>5, <4>2 DEF Armed
        <5>2. Held(t) /\ t = BranchSlot(t.node, t.branch)
          BY <3>5, <5>1, BranchSlotKey DEF BranchInv, SlotsHeld
        <5>3. t.node = Top.fork /\ t.branch # cur
          BY <4>2, <5>2 DEF Held, s
        <5>4. t.branch \in Branches(Top)
          BY <1>2, <3>5, <5>1, <5>3, SlotKinds
        <5>5. Top'.branches[t.branch] = Top.branches[t.branch]
          BY <2>3, <5>3, <5>4
        <5> QED BY <2>3, <5>1, <5>2, <5>3, <5>5 DEF Held
      <4> QED BY <4>1, <4>2
    <3>6. SlotsHeld'
      BY <1>2, <3>1, <3>5 DEF SlotsHeld
    <3> QED BY <2>6, <3>6 DEF BranchInv
  <2> QED BY <2>7, <2>8
<1> QED BY <1>3, <1>4, <1>5 DEF Advance

\* A scope that waits for all its branches is left with none of them waiting.
LEMMA SettleBranches ==
  ASSUME ScopesAwaitAll, Inv, BranchInv, Settle
  PROVE  BranchInv'
<1>1. InScope
  BY DEF Settle, SettleFails, SettleConverges, SettleTimesOut, SettleWaits, Settling, InScope
<1>2. /\ ContextOK /\ scopes # <<>> /\ Len(scopes) <= 1 /\ Top.fork \in ForkNode
  BY <1>1, AtBranches
<1>3. CASE SettleFails \/ SettleConverges
  <2>1. PopScope /\ (Exhausted(Top) \/ Satisfied(Top))
    BY <1>2, <1>3 DEF SettleFails, SettleConverges, FailsFast, ScopesAwaitAll
  <2>2. DoneIn(Top) = Branches(Top)
    BY <1>2, <2>1 DEF Exhausted, Satisfied, ScopesAwaitAll
  <2>3. \A s \in Armed : s.kind # "branch"
    BY <2>2, NoneHeld DEF BranchInv, DoneIn
  <2>4. scopes' = <<>>
    BY <1>2, <2>1, Popping DEF ContextOK
  <2>5. \A s \in Armed' : s.kind # "branch"
    <3>1. ScopeSlot(Top.fork) \in Slot /\ waitings' = Cleared(ScopeSlot(Top.fork))
      BY <1>2, <2>1, SlotKinds DEF PopScope
    <3> QED BY <1>2, <2>3, <3>1, Clearing DEF ContextOK
  <2>6. pc' \in {"idle", "wake", "drain"}
    BY <1>3 DEF SettleFails, SettleConverges, Return, AfterCall
  <2> QED BY <2>4, <2>5, <2>6, BranchesRest
<1>4. CASE SettleTimesOut \/ SettleWaits
  <2>1. UNCHANGED <<scopes, waitings>> /\ pc' \in {"idle", "wake"}
    BY <1>4 DEF SettleTimesOut, SettleWaits, Return, AfterCall
  <2> QED BY <2>1, BranchesLeft
<1> QED BY <1>3, <1>4 DEF Settle

\* A slot that fires is cleared before the branch it watched moves.
LEMMA WakingBranches ==
  ASSUME Inv, BranchInv, Waking
  PROVE  BranchInv'
<1>1. pc \in {"wake", "fire"}
  BY DEF Waking, WakeDuplicate, WakeConsume, FireScopeTimeout, FireDeadlineFails, FireDeadline,
         FireDeadlineBranch, FireOrphan, FireTimer, FireTimerBranch, Fire
<1>2. /\ ContextOK /\ todo = {} /\ due \subseteq Slot
      /\ pc = "fire" => slot \in Slot /\ slot \in Armed
  BY <1>1, AtWake DEF Armed
<1>3. CASE \E s \in due : WakeDuplicate(s) \/ WakeConsume(s)
  <2>1. PICK s \in due : WakeDuplicate(s) \/ WakeConsume(s)
    BY <1>3
  <2>2. /\ UNCHANGED scopes
        /\ waitings' = Cleared(s) \/ UNCHANGED waitings
        /\ pc' \in {"idle", "wake", "fire"}
    BY <2>1 DEF WakeDuplicate, WakeConsume, Return, AfterCall
  <2>3. \A t \in Slot : waitings'[t] \in {waitings[t], NoWait}
    BY <1>2, <2>2, Clearing DEF ContextOK
  <2> QED BY <2>2, <2>3, BranchesLeft
<1>4. ASSUME pc = "fire", waitings' = Cleared(slot)
      PROVE  /\ \A t \in Slot : waitings'[t] \in {waitings[t], NoWait}
             /\ waitings'[slot] = NoWait
  BY <1>2, <1>4, Clearing DEF ContextOK
<1>5. CASE FireScopeTimeout \/ FireDeadlineFails \/ FireOrphan \/ FireDeadline \/ FireTimer
  <2>1. /\ pc = "fire" /\ waitings' = Cleared(slot) /\ UNCHANGED scopes
        /\ pc' \in {"idle", "wake", "park", "drain"}
    BY <1>5 DEF FireScopeTimeout, FireDeadlineFails, FireOrphan, FireDeadline, FireTimer, Fire,
                Return, AfterCall
  <2> QED BY <1>4, <2>1, BranchesLeft
<1>6. CASE FireDeadlineBranch \/ FireTimerBranch
  <2> DEFINE b == slot.branch
  <2>1. /\ pc = "fire" /\ waitings' = Cleared(slot) /\ scopes # <<>> /\ UNCHANGED todo
        /\ slot.kind = "branch" /\ Top.fork = slot.node
        /\ pc' \in {"advance", "settle"} /\ loop' = "settle" /\ (pc' = "advance" => cur' = b)
        /\ \E br : BranchBecomes(b, br)
    BY <1>6 DEF FireDeadlineBranch, FireTimerBranch, Fire, ScopeHolds
  <2>2. b \in Branches(Top) /\ slot = BranchSlot(Top.fork, b)
    BY <1>2, <2>1, SlotKinds, TopScope, BranchSlotKey DEF ContextOK
  <2>3. /\ scopes' # <<>> /\ Top'.fork = Top.fork
        /\ \A c \in Branches(Top) \ {b} : Top'.branches[c] = Top.branches[c]
    BY <1>2, <2>1, <2>2, OneBranchMoves DEF ContextOK, Branches
  <2>4. SlotsHeld'
    <3> HIDE DEF b
    <3> QED BY <1>4, <2>1, <2>2, <2>3, HeldFrame DEF BranchInv
  <2>5. BranchesInTurn'
    BY <1>2, <2>1 DEF BranchesInTurn
  <2> QED BY <2>4, <2>5 DEF BranchInv
<1> QED BY <1>3, <1>5, <1>6 DEF Waking

\* The slots of branches are held in every state, under conditions on the definition.
LEMMA BranchStep ==
  ASSUME ScopesAwaitAll, DeadlinesMap, Inv, SlotsWatch, BranchInv, [Next]_vars
  PROVE  BranchInv'
<1>1. CASE UNCHANGED vars
  BY <1>1 DEF vars, ctxVars, callVars, BranchInv, SlotsHeld, Held, BranchesInTurn, Armed, Top
<1> QED BY <1>1, DrainBranches, DispatchBranches, HostBranches, FeedingBranches, AdvanceBranches,
           SettleBranches, WakingBranches DEF Next, CallStep

\* In every reachable state a branch slot watches a branch that waits.
LEMMA BranchInvHolds ==
  ASSUME ScopesAwaitAll, DeadlinesMap
  PROVE  Spec => []BranchInv
<1>1. Init => BranchInv
  BY DEF Init, BranchInv, SlotsHeld, BranchesInTurn, Armed
<1>2. Inv /\ SlotsWatch /\ BranchInv /\ [Next]_vars => BranchInv'
  BY BranchStep
<1> QED BY <1>1, <1>2, InvariantHolds, SlotsWatchHolds, PTL DEF Spec

\* No slot outlives the wait of its branch (clearWaiting in feedBranch and
\* fireWaiting), where scopes wait for all their branches and no deadline's
\* output mapping fails.
THEOREM BranchSlotsLive ==
  ASSUME ScopesAwaitAll, DeadlinesMap
  PROVE  Spec => []BranchSlotIsLive
<1>1. BranchInv => BranchSlotIsLive
  BY DEF BranchInv, SlotsHeld, Held, BranchSlotIsLive
<1> QED BY <1>1, BranchInvHolds, PTL

-----------------------------------------------------------------------------
(* Terminal instances. *)

\* A terminal instance has nothing armed and no call beyond its last dispatch.
TerminalInv ==
  status \in Terminal => /\ Armed = {} /\ (AtRest \/ pc = "dispatch")
                         /\ pc = "dispatch" => status = "failed" \/ TypeOf(emit) = "end"

\* Without scope timeouts, nothing is armed beside the instance and the branches.
LEMMA NothingArmed ==
  ASSUME ScopesUntimed, Inv, SlotsWatch, waitings[InstanceSlot] = NoWait,
         \A s \in Armed : s.kind # "branch"
  PROVE  Armed = {}
<1> SUFFICES ASSUME NEW s \in Armed PROVE FALSE
  OBVIOUS
<1>1. s \in Slot /\ s # InstanceSlot /\ s \notin BranchSlots
  BY DEF Armed, BranchSlots, BranchSlot
<1>2. PICK f \in ForkNode : s = ScopeSlot(f)
  BY <1>1 DEF Slot
<1>3. ForkOf[f].timeout
  BY <1>2 DEF SlotsWatch, Watches, ScopeSlot
<1> QED BY <1>2, <1>3 DEF ScopesUntimed

\* Where an instance becomes terminal nothing is armed; from there no slot fires.
LEMMA TerminalStep ==
  ASSUME ScopesUntimed, ScopesAwaitAll, DeadlinesMap,
         Inv, SlotsWatch, BranchInv, TerminalInv, [Next]_vars
  PROVE  TerminalInv'
<1>1. CASE Drain
  <2>1. pc = "drain"
    BY <1>1 DEF Drain, DrainRunaway, StepMissing, StepEnd, StepFork, StepMove, StepFail, Selecting, Stepping
  <2>2. Armed = {}
    BY <2>1, AtDrain, NoneHeld, NothingArmed DEF BranchInv
  <2>3. UNCHANGED waitings
    <3>1. StepFork => current \in ForkNode
      BY DEF StepFork, Stepping, TypeOf, ForkNode
    <3> QED BY <1>1, <3>1 DEF Drain, DrainRunaway, StepMissing, StepEnd, StepFork, StepMove,
                              StepFail, ScopesUntimed
  <2>4. CASE DrainRunaway \/ StepMissing
    <3>1. pc' \in {"idle", "wake"}
      BY <2>4 DEF DrainRunaway, StepMissing, Return, AfterCall
    <3> QED BY <2>2, <2>3, <3>1 DEF TerminalInv, Armed, AtRest
  <2>5. CASE StepEnd \/ StepFork \/ StepMove \/ StepFail
    <3>1. pc' = "dispatch" /\ emit' = current
      BY <2>5 DEF StepEnd, StepFork, StepMove, StepFail, Decided
    <3>2. status' \in {"failed", "running", status} \/ TypeOf(current) = "end"
      BY <2>5 DEF StepEnd, StepFork, StepMove, StepFail
    <3>3. status \notin Terminal
      BY <2>1 DEF TerminalInv, AtRest
    <3> QED BY <2>2, <2>3, <3>1, <3>2, <3>3 DEF TerminalInv, Armed, Terminal
  <2> QED BY <1>1, <2>4, <2>5 DEF Drain
<1>2. CASE Dispatch
  <2>1. pc = "dispatch" /\ UNCHANGED waitings
    BY <1>2 DEF Dispatch, DispatchFailed, DispatchForked, DispatchCompleted, DispatchMoved, Delivered
  <2>2. \A s \in Armed : s.kind # "branch"
    <3>1. scopes # <<>> => \A b \in Branches(Top) : Top.branches[b].status = "running"
      BY <2>1 DEF BranchInv, BranchesInTurn, WithStatus
    <3> QED BY <3>1, NoneHeld DEF BranchInv
  <2>3. Armed' = {}
    BY <2>1, <2>2, AtDispatch, NothingArmed DEF Armed
  <2>4. CASE DispatchFailed \/ DispatchCompleted
    <3>1. pc' \in {"idle", "wake"}
      BY <2>4 DEF DispatchFailed, DispatchCompleted, Return, AfterCall
    <3> QED BY <2>3, <3>1 DEF TerminalInv, AtRest
  <2>5. CASE DispatchForked \/ DispatchMoved
    <3>1. status # "failed" /\ TypeOf(emit) # "end" /\ status' = status
      BY <2>5 DEF DispatchForked, DispatchMoved, Delivered
    <3>2. status' \notin Terminal
      BY <2>1, <3>1 DEF TerminalInv
    <3> QED BY <3>2 DEF TerminalInv
  <2> QED BY <1>2, <2>4, <2>5 DEF Dispatch
<1>3. CASE Park
  BY <1>3 DEF Park, TerminalInv, Terminal
<1>4. CASE Feeding \/ Advance
  <2>1. pc \in {"fork", "feed", "advance"} /\ status' = status
    BY <1>4 DEF Feeding, FeedUnheard, FeedNoMatch, FeedBranchFails, FeedBranch, Offered, ctxVars,
        Advance, RunBranch, AdvanceNothing, AdvanceTripped, AdvanceArrives, AdvanceParks,
        AdvanceMoves, AdvanceFails, AdvanceStuck, Walking, Advancing, BranchLeft
  <2> QED BY <2>1 DEF TerminalInv, AtRest
<1>5. CASE Settle
  <2>1. InScope
    BY <1>5 DEF Settle, SettleFails, SettleConverges, SettleTimesOut, SettleWaits, Settling, InScope
  <2>2. /\ ContextOK /\ scopes # <<>> /\ Top.fork \in ForkNode /\ waitings[InstanceSlot] = NoWait
    BY <2>1, AtBranches
  <2>3. CASE SettleFails \/ SettleConverges
    <3>1. PopScope /\ (Exhausted(Top) \/ Satisfied(Top))
      BY <2>2, <2>3 DEF SettleFails, SettleConverges, FailsFast, ScopesAwaitAll
    <3>2. DoneIn(Top) = Branches(Top)
      BY <2>2, <3>1 DEF Exhausted, Satisfied, ScopesAwaitAll
    <3>3. Armed = {}
      BY <2>2, <3>2, NoneHeld, NothingArmed DEF BranchInv, DoneIn
    <3>4. ScopeSlot(Top.fork) \in Slot /\ waitings' = Cleared(ScopeSlot(Top.fork))
      BY <2>2, <3>1, SlotKinds DEF PopScope
    <3>5. Armed' = {}
      BY <2>2, <3>3, <3>4, Clearing DEF ContextOK
    <3>6. pc' \in {"idle", "wake"} \/ status' = "running"
      BY <2>3 DEF SettleFails, SettleConverges, Return, AfterCall
    <3> QED BY <3>5, <3>6 DEF TerminalInv, AtRest, Terminal
  <2>4. CASE SettleTimesOut
    BY <2>2, <2>4 DEF SettleTimesOut, ScopesUntimed
  <2>5. CASE SettleWaits
    BY <2>5 DEF SettleWaits, TerminalInv, Terminal
  <2> QED BY <1>5, <2>3, <2>4, <2>5 DEF Settle
<1>6. CASE Waking
  <2>1. /\ pc \in {"wake", "fire"}
        /\ pc = "fire" \/ \E s \in due : WakeDuplicate(s) \/ WakeConsume(s)
    BY <1>6 DEF Waking, WakeDuplicate, WakeConsume, FireScopeTimeout, FireDeadlineFails,
         FireDeadline, FireDeadlineBranch, FireOrphan, FireTimer, FireTimerBranch, Fire
  <2>2. /\ due \subseteq Armed /\ due # {}
        /\ pc = "fire" => slot \in Armed /\ Watches(slot, waitings[slot]) /\ slot \in Slot
    BY <2>1, AtWake DEF SlotsWatch
  <2>3. status \notin Terminal
    BY <2>2 DEF TerminalInv
  <2>4. ~FireDeadlineFails
    BY <2>2 DEF FireDeadlineFails, Fire, FiredNode, Watches, IsTimedNode, DeadlinesMap
  <2>5. ~FireScopeTimeout
    <3> SUFFICES ASSUME pc = "fire", waitings[slot].kind = "scope_timeout" PROVE FALSE
      BY DEF FireScopeTimeout, Fire
    <3>1. slot.kind = "scope" /\ waitings[slot].node = slot.node /\ ForkOf[slot.node].timeout
      BY <2>2 DEF Watches
    <3>2. PICK f \in ForkNode : slot = ScopeSlot(f)
      BY <2>2, <3>1 DEF Slot, BranchSlots, BranchSlot, InstanceSlot
    <3> QED BY <3>1, <3>2 DEF ScopeSlot, ScopesUntimed
  <2>6. status' \in {status, "running"}
    BY <1>6, <2>4, <2>5 DEF Waking, WakeDuplicate, WakeConsume, FireDeadline, FireDeadlineBranch,
                            FireOrphan, FireTimer, FireTimerBranch
  <2> QED BY <2>3, <2>6 DEF TerminalInv, Terminal
<1>7. CASE HostCall
  <2>1. CASE Start
    BY <2>1 DEF Start, TerminalInv, Terminal
  <2>2. CASE \E e \in EventId : FeedInstance(e) \/ FeedScope(e)
    BY <2>2 DEF FeedInstance, FeedScope, Accept, TerminalInv
  <2>3. CASE Compensate \/ \E d \in SUBSET Slot : WakeDue(d)
    BY <2>3 DEF Compensate, WakeDue, ctxVars, callVars, TerminalInv, Armed, AtRest
  <2> QED BY <1>7, <2>1, <2>2, <2>3 DEF HostCall
<1>8. CASE UNCHANGED vars
  BY <1>8 DEF vars, ctxVars, callVars, TerminalInv, Armed, AtRest
<1> QED BY <1>1, <1>2, <1>3, <1>4, <1>5, <1>6, <1>7, <1>8 DEF Next, CallStep

\* Nothing revives a terminal instance (Feed returns it unchanged, WakeDue finds
\* no slot), where scopes have no timeout and wait for all their branches and no
\* deadline's mapping fails.
THEOREM TerminalStays ==
  ASSUME ScopesUntimed, ScopesAwaitAll, DeadlinesMap
  PROVE  Spec => TerminalIsFinal
<1>1. Init => TerminalInv
  BY DEF Init, TerminalInv, Terminal
<1>2. Inv /\ SlotsWatch /\ BranchInv /\ TerminalInv /\ [Next]_vars => TerminalInv'
  BY TerminalStep
<1>3. Inv /\ TerminalInv /\ [Next]_vars =>
        [pc # "dispatch" /\ status \in Terminal => status' = status /\ current' = current]_vars
  <2> SUFFICES ASSUME Inv, TerminalInv, Next, pc # "dispatch", status \in Terminal
               PROVE  status' = status /\ current' = current
    OBVIOUS
  <2>1. Armed = {} /\ AtRest
    BY DEF TerminalInv
  <2>2. due = {} /\ pc # "fire"
    BY <2>1, UnderWay DEF CallOK
  <2>3. ~Drain /\ ~Dispatch /\ ~Park /\ ~Feeding
    BY <2>1 DEF AtRest, Drain, DrainRunaway, StepMissing, StepEnd, StepFork, StepMove, StepFail,
        Selecting, Stepping, Dispatch, DispatchFailed, DispatchForked, DispatchCompleted,
        DispatchMoved, Delivered, Park, Feeding, FeedUnheard, FeedNoMatch, FeedBranchFails,
        FeedBranch, Offered
  <2>4. ~Advance /\ ~Settle
    BY <2>1 DEF AtRest, Advance, RunBranch, AdvanceNothing, AdvanceTripped, AdvanceArrives,
        AdvanceParks, AdvanceMoves, AdvanceFails, AdvanceStuck, Walking, Advancing,
        Settle, SettleFails, SettleConverges, SettleTimesOut, SettleWaits, Settling
  <2>5. ~Waking
    BY <2>2 DEF Waking, FireScopeTimeout, FireDeadlineFails, FireDeadline, FireDeadlineBranch,
                FireOrphan, FireTimer, FireTimerBranch, Fire
  <2>6. HostCall
    BY <2>3, <2>4, <2>5 DEF Next, CallStep
  <2> QED BY <2>6 DEF HostCall, Start, Compensate, FeedInstance, FeedScope, Accept, WakeDue,
                      ctxVars, Terminal
<1> QED BY <1>1, <1>2, <1>3, InvariantHolds, SlotsWatchHolds, BranchInvHolds, PTL
        DEF Spec, TerminalIsFinal

-----------------------------------------------------------------------------
(* Branches that are over. *)

\* An automatic node none of whose transitions leads anywhere.
DeadEnd(n) ==
  /\ TypeOf(n) \in {"start", "action", "notification", "parallel"}
  /\ \A i \in DOMAIN Trans[n] : Trans[n][i].next = NoNode

\* The mappings of a dead end never fail.
DeadEndsMap == \A n \in MayFail : ~DeadEnd(n)

\* A branch that is over and yet waits has run into a dead end.
DoneWaits ==
  scopes # <<>> => \A b \in DoneIn(Top) :
    Top.branches[b].status = "waiting" => DeadEnd(Top.branches[b].node)

\* A set of numbers that is not empty has a least one.
LEMMA Least ==
  ASSUME NEW S \in SUBSET Nat, S # {}
  PROVE  \E k \in S : \A j \in S : k <= j
<1> DEFINE less == {p \in Nat \X Nat : p[1] < p[2]}
<1>1. IsWellFoundedOn(less, Nat)
  BY NatLessThanWellFounded DEF OpToRel
<1>2. PICK k \in S : \A j \in S : <<j, k>> \notin less
  <2> HIDE DEF less
  <2> QED BY <1>1, WFMin
<1>3. ASSUME NEW j \in S, j < k PROVE FALSE
  <2>1. <<j, k>> \in less
    BY <1>3
  <2> QED BY <1>2, <2>1
<1>4. \A j \in S : j \in Nat /\ k \in Nat
  OBVIOUS
<1> QED BY <1>3, <1>4

\* A node with an automatic route is no dead end, and one without is.
LEMMA DeadEnds ==
  ASSUME NEW n \in Node, NodeType[n] # "condition"
  PROVE  /\ ~IsWaitingNode(n) /\ TypeOf(n) \notin {"end", "join"} /\ NoNode \in BranchTargets(n)
              => DeadEnd(n)
         /\ DeadEnd(n) => \A name : FeedTargets(n, name) = {NoNode}
<1> DEFINE R == {i \in DOMAIN Trans[n] : Trans[n][i].next # NoNode}
<1>1. ASSUME NoNode \in BranchTargets(n)
      PROVE  \A i \in DOMAIN Trans[n] : Trans[n][i].next = NoNode
  <2>1. AutoNext(n) = {Trans[n][i].next : i \in {k \in R : \A j \in R : k <= j}}
    BY DEF AutoNext, FirstNext
  <2>2. NoNode \notin AutoNext(n)
    BY <2>1
  <2>3. AutoNext(n) = {}
    BY <1>1, <2>2 DEF BranchTargets, OrNone
  <2>4. R \subseteq Nat
    BY DefinitionAssumption
  <2>5. R = {}
    <3> SUFFICES ASSUME R # {} PROVE FALSE
      OBVIOUS
    <3> HIDE DEF R
    <3>1. \E k \in R : \A j \in R : k <= j
      BY <2>4, Least
    <3> QED BY <2>1, <2>3, <3>1
  <2> QED BY <2>5
<1>2. ASSUME DeadEnd(n), NEW name
      PROVE  FeedTargets(n, name) = {NoNode}
  <2>1. EventNext(n, name) \ {NoNode} = {}
    BY <1>2 DEF EventNext, FirstNext, EventMatches, DeadEnd
  <2> QED BY <2>1 DEF FeedTargets
<1>3. TypeOf(n) \in NodeTypes /\ TypeOf(n) = NodeType[n]
  BY DefinitionAssumption DEF TypeOf
<1> QED BY <1>1, <1>2, <1>3 DEF DeadEnd, IsWaitingNode, NodeTypes

\* What a step may do to the open scope: one branch that is not over moves, and
\* is over and waiting afterwards at a dead end only.
OpenBranchMoves ==
  \E b \in Branches(Top) \ DoneIn(Top) : \E br, join :
    /\ \/ BranchBecomes(b, br)
       \/ TopBecomes(join, [Top.branches EXCEPT ![b] = br])
    /\ br.done /\ br.status = "waiting" => DeadEnd(br.node)

\* A step that changes the open scope and leaves it open moves one such branch.
LEMMA ScopeMoves ==
  ASSUME DeadEndsMap, Inv, BranchInv, DoneWaits, [Next]_vars,
         scopes' # scopes, scopes # <<>>, scopes' # <<>>
  PROVE  OpenBranchMoves
<1>1. CASE Drain \/ Dispatch \/ Park
  <2>1. Drain
    BY <1>1 DEF Dispatch, DispatchFailed, DispatchForked, DispatchCompleted, DispatchMoved,
                Delivered, Park
  <2>2. pc = "drain"
    BY <2>1 DEF Drain, DrainRunaway, StepMissing, StepEnd, StepFork, StepMove, StepFail, Selecting, Stepping
  <2> QED BY <2>2, AtDrain
<1>2. CASE Feeding
  <2>1. PICK b \in todo : FeedUnheard(b) \/ FeedNoMatch(b) \/ FeedBranchFails(b) \/ FeedBranch(b)
    BY <1>2 DEF Feeding
  <2>2. /\ pc = "feed" /\ InScope
        /\ FeedBranchFails(b) \/ FeedBranch(b)
    BY <2>1 DEF FeedUnheard, FeedNoMatch, FeedBranchFails, FeedBranch, Offered, ctxVars, InScope
  <2>3. /\ todo \subseteq Branches(Top) /\ loop = "feed" /\ b \in Branches(Top)
        /\ Top.branches[b] \in Branch
    BY <2>2, AtBranches DEF CallOK
  <2>4. Top.branches[b].status = "waiting"
    BY <2>2, <2>3 DEF BranchInv, BranchesInTurn, WithStatus
  <2>5. NodeAt(b) \in Node
    BY <2>2 DEF FeedBranchFails, FeedBranch, Offered, TypeOf
  <2>6. ~Top.branches[b].done
    <3> SUFFICES ASSUME Top.branches[b].done PROVE FALSE
      OBVIOUS
    <3>1. DeadEnd(NodeAt(b))
      BY <2>3, <2>4 DEF DoneWaits, DoneIn, NodeAt
    <3>2. \A name : FeedTargets(NodeAt(b), name) = {NoNode}
      BY <2>5, <3>1, DeadEnds DEF DeadEnd, TypeOf
    <3>3. NodeAt(b) \notin MayFail
      BY <3>1 DEF DeadEndsMap
    <3> QED BY <2>2, <3>2, <3>3 DEF FeedBranchFails, FeedBranch
  <2>7. \E br : BranchBecomes(b, br) /\ (br.done => br.status # "waiting")
    <3>1. CASE FeedBranchFails(b)
      BY <3>1 DEF FeedBranchFails, FailedAt
    <3>2. CASE FeedBranch(b)
      <4>1. PICK next : BranchBecomes(b, [Top.branches[b] EXCEPT !.node = next])
        BY <3>2 DEF FeedBranch
      <4>2. ~[Top.branches[b] EXCEPT !.node = next].done
        BY <2>3, <2>6 DEF Branch
      <4> QED BY <4>1, <4>2
    <3> QED BY <2>2, <3>1, <3>2
  <2> QED BY <2>3, <2>6, <2>7 DEF OpenBranchMoves, DoneIn
<1>3. CASE Advance
  <2>1. /\ pc = "advance" /\ InScope /\ Advancing /\ ~Top.branches[cur].done
        /\ AdvanceTripped \/ AdvanceArrives \/ AdvanceParks \/ AdvanceMoves \/ AdvanceFails \/ AdvanceStuck
    BY <1>3 DEF Advance, RunBranch, AdvanceNothing, AdvanceTripped, AdvanceArrives, AdvanceParks,
        AdvanceMoves, AdvanceFails, AdvanceStuck, Walking, Advancing, ctxVars, InScope
  <2>2. cur \in Branches(Top) /\ Top.branches[cur] \in Branch
    BY <2>1, AtBranches
  <2>3. CASE AdvanceTripped \/ AdvanceFails
    <3>1. BranchBecomes(cur, FailedAt(NodeAt(cur))) /\ FailedAt(NodeAt(cur)).status = "failed"
      BY <2>3 DEF AdvanceTripped, AdvanceFails, FailedAt
    <3> QED BY <2>1, <2>2, <3>1 DEF OpenBranchMoves, DoneIn
  <2>4. CASE AdvanceArrives
    <3> DEFINE br == [node |-> NodeAt(cur), status |-> "completed", done |-> TRUE]
    <3>1. \E join : TopBecomes(join, [Top.branches EXCEPT ![cur] = br])
      BY <2>4 DEF AdvanceArrives
    <3>2. br.status = "completed"
      OBVIOUS
    <3> HIDE DEF br
    <3> QED BY <2>1, <2>2, <3>1, <3>2 DEF OpenBranchMoves, DoneIn
  <2>5. CASE AdvanceParks
    <3> DEFINE br == [Top.branches[cur] EXCEPT !.status = "waiting"]
    <3>1. BranchBecomes(cur, br) /\ ~br.done
      BY <2>1, <2>2, <2>5 DEF AdvanceParks, Branch
    <3> HIDE DEF br
    <3> QED BY <2>1, <2>2, <3>1 DEF OpenBranchMoves, DoneIn
  <2>6. CASE AdvanceMoves
    <3>1. PICK next : BranchBecomes(cur, [Top.branches[cur] EXCEPT !.node = next])
      BY <2>6 DEF AdvanceMoves
    <3> DEFINE br == [Top.branches[cur] EXCEPT !.node = next]
    <3>2. BranchBecomes(cur, br) /\ ~br.done
      BY <2>1, <2>2, <3>1 DEF Branch
    <3> HIDE DEF br
    <3> QED BY <2>1, <2>2, <3>2 DEF OpenBranchMoves, DoneIn
  <2>7. CASE AdvanceStuck
    <3> DEFINE n == NodeAt(cur)
               br == [node |-> n, status |-> "waiting", done |-> NodeType[n] # "condition"]
    <3>1. /\ BranchBecomes(cur, br) /\ n \in Node /\ ~IsWaitingNode(n)
          /\ TypeOf(n) \notin {"end", "join"} /\ NoNode \in BranchTargets(n)
      BY <2>7 DEF AdvanceStuck, Walking, BranchTripped, AtJoin
    <3>2. br.done => DeadEnd(br.node)
      BY <3>1, DeadEnds
    <3> HIDE DEF br
    <3> QED BY <2>1, <2>2, <3>1, <3>2 DEF OpenBranchMoves, DoneIn
  <2> QED BY <2>1, <2>3, <2>4, <2>5, <2>6, <2>7
<1>4. CASE Settle
  <2>1. SettleFails \/ SettleConverges
    BY <1>4 DEF Settle, SettleTimesOut, SettleWaits
  <2>2. InScope /\ PopScope
    BY <2>1 DEF SettleFails, SettleConverges, Settling, InScope
  <2> QED BY <2>2, AtBranches, Popping DEF ContextOK
<1>5. CASE Waking
  <2>1. /\ pc = "fire" /\ ScopeHolds(slot)
        /\ FireDeadlineBranch \/ FireTimerBranch
    BY <1>5 DEF Waking, WakeDuplicate, WakeConsume, FireScopeTimeout, FireDeadlineFails,
         FireDeadline, FireDeadlineBranch, FireOrphan, FireTimer, FireTimerBranch, Fire
  <2> DEFINE b == slot.branch
  <2>2. slot \in Armed /\ slot \in Slot /\ slot.kind = "branch" /\ Top.fork = slot.node
    BY <2>1, AtWake DEF ScopeHolds
  <2>3. /\ b \in Branches(Top) /\ Top.branches[b] \in Branch /\ ~Top.branches[b].done
    <3>1. scopes \in Seq(Scope)
      BY UnderWay DEF ContextOK
    <3>2. b \in Branches(Top) /\ Top.branches \in [Branches(Top) -> Branch]
      BY <2>2, <3>1, TopScope, SlotKinds
    <3> QED BY <2>2, <3>2 DEF BranchInv, SlotsHeld, Held
  <2>4. \E br : BranchBecomes(b, br) /\ (br.done => br.status # "waiting")
    <3>1. CASE BranchBecomes(b, FailedAt(NodeAt(b)))
      BY <3>1 DEF FailedAt
    <3>2. CASE \E next : BranchBecomes(b, [Top.branches[b] EXCEPT !.node = next])
      <4>1. PICK next : BranchBecomes(b, [Top.branches[b] EXCEPT !.node = next])
        BY <3>2
      <4>2. ~[Top.branches[b] EXCEPT !.node = next].done
        BY <2>3 DEF Branch
      <4> QED BY <4>1, <4>2
    <3> QED BY <2>1, <3>1, <3>2 DEF FireDeadlineBranch, FireTimerBranch
  <2> HIDE DEF b
  <2> QED BY <2>3, <2>4 DEF OpenBranchMoves, DoneIn
<1>6. CASE HostCall
  BY <1>6 DEF HostCall, Start, Compensate, FeedInstance, FeedScope, WakeDue, ctxVars
<1> QED BY <1>1, <1>2, <1>3, <1>4, <1>5, <1>6 DEF Next, CallStep, vars, ctxVars

\* A branch that is over is left alone, and waits at a dead end if it waits.
LEMMA DoneStep ==
  ASSUME DeadEndsMap, Inv, BranchInv, DoneWaits, [Next]_vars
  PROVE  /\ DoneWaits'
         /\ scopes # <<>> /\ scopes' # <<>> =>
              \A b \in DoneIn(Top) : Top'.branches[b] = Top.branches[b]
<1>1. scopes \in Seq(Scope)
  BY UnderWay DEF ContextOK
<1>2. CASE scopes' = scopes
  BY <1>2 DEF DoneWaits, DoneIn, Branches, Top
<1>3. CASE scopes' = <<>>
  BY <1>3 DEF DoneWaits
<1>4. CASE scopes' # scopes /\ scopes = <<>>
  <2> DEFINE sc == [fork |-> current, join |-> ForkOf[current].join,
                    branches |-> [b \in BranchOf(current) |->
                       [node |-> Trans[current][b].next, status |-> "running", done |-> FALSE]]]
  <2>1. ASSUME InScope PROVE FALSE
    BY <1>4, <2>1, AtBranches
  <2>2. StepFork
    <3>1. ~Feeding
      BY <2>1 DEF Feeding, FeedUnheard, FeedNoMatch, FeedBranchFails, FeedBranch, Offered, InScope
    <3>2. ~Advance
      BY <2>1 DEF Advance, RunBranch, AdvanceNothing, AdvanceTripped, AdvanceArrives,
          AdvanceParks, AdvanceMoves, AdvanceFails, AdvanceStuck, Walking, Advancing, InScope
    <3>3. ~Settle
      BY <2>1 DEF Settle, SettleFails, SettleConverges, SettleTimesOut, SettleWaits, Settling, InScope
    <3>4. ~(Dispatch \/ Park \/ HostCall \/ UNCHANGED vars)
      BY <1>4 DEF Dispatch, DispatchFailed, DispatchForked, DispatchCompleted, DispatchMoved,
          Delivered, Park, HostCall, Start, Compensate, FeedInstance, FeedScope, WakeDue, ctxVars, vars
    <3>5. ~Waking
      BY <1>4 DEF Waking, WakeDuplicate, WakeConsume, FireScopeTimeout, FireDeadlineFails,
          FireDeadline, FireDeadlineBranch, FireOrphan, FireTimer, FireTimerBranch, ScopeHolds
    <3>6. Drain
      BY <3>1, <3>2, <3>3, <3>4, <3>5 DEF Next, CallStep
    <3> QED BY <1>4, <3>6 DEF Drain, DrainRunaway, StepMissing, StepEnd, StepMove, StepFail
  <2>3. scopes' = Append(scopes, sc)
    BY <1>4, <2>2 DEF StepFork
  <2>4. DoneIn(sc) = {}
    BY DEF DoneIn, Branches
  <2> HIDE DEF sc
  <2>5. Top' = sc
    <3>1. scopes' = <<sc>>
      BY <1>4, <2>3
    <3> QED BY <3>1 DEF Top
  <2> QED BY <1>4, <2>4, <2>5 DEF DoneWaits
<1>5. CASE scopes' # scopes /\ scopes # <<>> /\ scopes' # <<>>
  <2> PICK b \in Branches(Top) \ DoneIn(Top) : \E br, join :
        /\ \/ BranchBecomes(b, br)
           \/ TopBecomes(join, [Top.branches EXCEPT ![b] = br])
        /\ br.done /\ br.status = "waiting" => DeadEnd(br.node)
    BY <1>5, ScopeMoves DEF OpenBranchMoves
  <2>1. PICK br, join :
          /\ \/ BranchBecomes(b, br)
             \/ TopBecomes(join, [Top.branches EXCEPT ![b] = br])
          /\ br.done /\ br.status = "waiting" => DeadEnd(br.node)
    OBVIOUS
  <2>2. /\ Branches(Top') = Branches(Top)
        /\ Top'.branches = [Top.branches EXCEPT ![b] = br]
    BY <1>1, <1>5, <2>1, OneBranchMoves
  <2>3. \A c \in Branches(Top) : Top'.branches[c] = IF c = b THEN br ELSE Top.branches[c]
    BY <2>2 DEF Branches
  <2>4. \A c \in DoneIn(Top) : c \in Branches(Top) /\ c # b
    BY <2>1 DEF DoneIn
  <2>5. DoneWaits'
    <3> SUFFICES ASSUME NEW c \in DoneIn(Top'), Top'.branches[c].status = "waiting"
                 PROVE  DeadEnd(Top'.branches[c].node)
      BY DEF DoneWaits
    <3>1. c \in Branches(Top) /\ Top'.branches[c].done
      BY <2>2 DEF DoneIn
    <3>2. CASE c = b
      BY <2>1, <2>3, <3>1, <3>2
    <3>3. CASE c # b
      <4>1. Top'.branches[c] = Top.branches[c] /\ c \in DoneIn(Top)
        BY <2>3, <3>1, <3>3 DEF DoneIn
      <4> QED BY <1>5, <4>1 DEF DoneWaits
    <3> QED BY <3>2, <3>3
  <2> QED BY <2>3, <2>4, <2>5
<1> QED BY <1>2, <1>3, <1>4, <1>5

\* A branch that is over is never touched again while its scope is open, where
\* scopes wait for all their branches and neither a deadline's mapping nor that
\* of a dead end fails (advanceBranch, feedBranch, fireWaiting).
THEOREM DoneBranchesInert ==
  ASSUME ScopesAwaitAll, DeadlinesMap, DeadEndsMap
  PROVE  Spec => DoneBranchInert
<1>1. Init => DoneWaits
  BY DEF Init, DoneWaits
<1>2. Inv /\ BranchInv /\ DoneWaits /\ [Next]_vars => DoneWaits'
  BY DoneStep
<1>3. Inv /\ BranchInv /\ DoneWaits /\ [Next]_vars =>
        [\A b \in IF scopes # <<>> /\ scopes' # <<>> THEN DoneIn(Top) ELSE {} :
           scopes'[Len(scopes')].branches[b] = Top.branches[b]]_scopes
  BY DoneStep DEF Top
<1> QED BY <1>1, <1>2, <1>3, InvariantHolds, BranchInvHolds, PTL DEF Spec, DoneBranchInert

-----------------------------------------------------------------------------
(* Branches at rest. *)

\* A rank of the nodes that falls along every route a branch walks by itself.
Ranked(r) ==
  \A n \in Node :
    TypeOf(n) \notin {"approval", "subprocess", "timer", "end", "join"} =>
      \A m \in BranchTargets(n) \ {NoNode} : r[m] < r[n]

\* Between two waits a branch walks fewer than MaxBranchSteps nodes.
BranchesShort == \E r \in [Node -> 0 .. MaxBranchSteps - 1] : Ranked(r)

\* The branch is over, or needs an event or the clock to go on.
IsParked(br) ==
  \/ br.done
  \/ br.status = "waiting" /\ (IsWaitingNode(br.node) \/ TypeOf(br.node) = "condition")

\* Branch b is parked, or at hand, or still to be run for the first time.
IsPlaced(b) ==
  \/ IsParked(Top.branches[b])
  \/ pc \in {"fork", "advance"} /\ loop = "fork" /\ b \in todo
  \/ pc = "advance" /\ b = cur

\* The branches of the open scope are placed, unless none ever runs: the effects
\* of the fork are being delivered, or one of them has failed the instance.
ParkedInv ==
  scopes # <<>> =>
    \/ \A b \in Branches(Top) : IsPlaced(b)
    \/ /\ WithStatus(Top, "running") = Branches(Top)
       /\ pc = "dispatch" \/ (AtRest /\ status # "waiting")

\* What the branch at hand has walked and still has to walk is below the fuse.
StepsInv(r) ==
  /\ pc \in {"fork", "feed"} \/ AtRest => steps = 0
  /\ pc = "advance" /\ ~Top.branches[cur].done =>
       /\ steps < MaxBranchSteps
       /\ NodeAt(cur) \in Node => steps + r[NodeAt(cur)] < MaxBranchSteps

\* A step that moves branch b at most, and leaves it parked or at hand.
LEMMA ParkedFrame ==
  ASSUME \A c \in Branches(Top) : IsPlaced(c), NEW b \in Branches(Top),
         pc = "advance" => b = cur, Branches(Top') = Branches(Top),
         \A c \in Branches(Top) \ {b} : Top'.branches[c] = Top.branches[c],
         IsParked(Top'.branches[b]) \/ (pc' = "advance" /\ cur' = b),
         todo \ {b} \subseteq todo', UNCHANGED loop \/ AtRest,
         loop = "fork" => pc' \in {"fork", "advance"}
  PROVE  ParkedInv'
<1> SUFFICES ASSUME NEW c \in Branches(Top), c # b
             PROVE  \/ IsParked(Top'.branches[c])
                    \/ pc' \in {"fork", "advance"} /\ loop' = "fork" /\ c \in todo'
  BY DEF ParkedInv, IsPlaced
<1> QED BY DEF AtRest, IsPlaced

\* The branches are placed while they are worked on, when an event is taken and
\* when the slot of one of them fires.
LEMMA Placed ==
  ASSUME Inv, SlotsHeld, ParkedInv, scopes # <<>>,
         \/ InScope
         \/ pc = "idle" /\ status \notin Terminal \cup {"pending"}
         \/ \E s \in Armed : s.kind = "branch"
  PROVE  \A b \in Branches(Top) : IsPlaced(b)
<1>1. CASE InScope
  BY <1>1 DEF ParkedInv, InScope, AtRest
<1>2. CASE pc = "idle" /\ status \notin Terminal \cup {"pending"}
  <2>1. status \in Status /\ status # "running"
    BY <1>2, UnderWay DEF ContextOK, Inv, NeverLeftRunning, AtRest
  <2> QED BY <1>2, <2>1 DEF ParkedInv, Status, Terminal
<1>3. CASE \E s \in Armed : s.kind = "branch"
  <2>1. ~(\A b \in Branches(Top) : Top.branches[b].status # "waiting")
    BY <1>3, NoneHeld
  <2>2. WithStatus(Top, "running") # Branches(Top)
    BY <2>1 DEF WithStatus
  <2> QED BY <2>2 DEF ParkedInv
<1> QED BY <1>1, <1>2, <1>3

\* A step that leaves the scope alone, outside the branch loop.
LEMMA ParkedRests ==
  ASSUME ParkedInv, UNCHANGED scopes,
         \/ scopes = <<>>
         \/ /\ AtRest \/ pc = "dispatch"
            /\ AtRest' /\ (status' # "waiting" \/ (AtRest /\ UNCHANGED status))
  PROVE  ParkedInv'
<1> SUFFICES ASSUME scopes # <<>> PROVE ParkedInv'
  BY DEF ParkedInv
<1>1. Top' = Top
  BY DEF Top
<1>2. CASE \A b \in Branches(Top) : IsPlaced(b)
  <2>1. \A b \in Branches(Top) : IsParked(Top.branches[b])
    BY <1>2 DEF IsPlaced, AtRest
  <2> QED BY <1>1, <2>1 DEF ParkedInv, IsPlaced
<1>3. CASE ~(\A b \in Branches(Top) : IsPlaced(b))
  BY <1>1, <1>3 DEF ParkedInv, WithStatus, Branches, AtRest
<1> QED BY <1>2, <1>3

\* drain, the dispatch of effects and the calls of the host leave branches alone.
LEMMA OutsideParked ==
  ASSUME ScopesAwaitAll, DeadlinesMap, Inv, SlotsWatch, BranchInv, ParkedInv,
         Drain \/ Dispatch \/ Park \/ HostCall, [Next]_vars
  PROVE  ParkedInv'
<1>1. CASE Drain
  <2>1. pc = "drain"
    BY <1>1 DEF Drain, DrainRunaway, StepMissing, StepEnd, StepFork, StepMove, StepFail, Selecting, Stepping
  <2>2. scopes = <<>>
    BY <2>1, AtDrain
  <2>3. CASE UNCHANGED scopes
    BY <2>2, <2>3, ParkedRests
  <2>4. CASE ~UNCHANGED scopes
    <3>1. pc' = "dispatch"
      BY <1>1, <2>4 DEF Drain, DrainRunaway, StepMissing, StepEnd, StepFork, StepMove, StepFail, Decided
    <3>2. scopes' # <<>> => WithStatus(Top', "running") = Branches(Top')
      BY <3>1, BranchStep DEF BranchInv, BranchesInTurn
    <3> QED BY <3>1, <3>2 DEF ParkedInv, WithStatus, Branches
  <2> QED BY <2>3, <2>4
<1>2. CASE Park
  BY <1>2, ParkedRests DEF Park, Inv, ScopeDiscipline
<1>3. CASE DispatchForked
  <2>1. /\ UNCHANGED scopes /\ pc' = "fork" /\ loop' = "fork" /\ todo' = Branches(Top)
    BY <1>3 DEF DispatchForked, Delivered
  <2> QED BY <2>1 DEF ParkedInv, IsPlaced, Top, Branches
<1>4. CASE DispatchFailed
  <2>1. pc = "dispatch" /\ UNCHANGED scopes /\ status' = "failed" /\ pc' \in {"idle", "wake"}
    BY <1>4 DEF DispatchFailed, Return, AfterCall
  <2> QED BY <2>1, ParkedRests DEF AtRest
<1>5. CASE DispatchCompleted \/ DispatchMoved
  <2>1. pc = "dispatch" /\ UNCHANGED scopes /\ TypeOf(emit) # "parallel"
    BY <1>5 DEF DispatchCompleted, DispatchMoved, Delivered
  <2>2. scopes = <<>>
    BY <2>1 DEF Inv, ScopeDiscipline
  <2> QED BY <2>1, <2>2, ParkedRests
<1>6. CASE Start
  BY <1>6, ParkedRests DEF Start, Inv, FreshIsClean
<1>7. CASE Compensate \/ \E d \in SUBSET Slot : WakeDue(d)
  <2>1. AtRest /\ AtRest' /\ UNCHANGED <<scopes, status>>
    BY <1>7 DEF Compensate, WakeDue, AtRest, ctxVars, callVars
  <2> QED BY <2>1, ParkedRests
<1>8. ASSUME NEW e \in EventId, FeedInstance(e)
      PROVE  ParkedInv'
  <2>1. pc = "idle" /\ UNCHANGED scopes /\ (scopes = <<>> \/ Satisfied(Top))
    BY <1>8 DEF FeedInstance, Accept, ScopeOpen
  <2>2. scopes = <<>>
    BY <2>1 DEF Inv, OpenScopeUndecided, AtRest, Unsettled
  <2> QED BY <2>1, <2>2, ParkedRests
<1>9. ASSUME NEW e \in EventId, FeedScope(e)
      PROVE  ParkedInv'
  <2>1. /\ pc = "idle" /\ status \notin Terminal \cup {"pending"} /\ scopes # <<>>
        /\ UNCHANGED scopes
    BY <1>9 DEF FeedScope, Accept, ScopeOpen
  <2>2. \A b \in Branches(Top) : IsParked(Top.branches[b])
    BY <2>1, Placed DEF BranchInv, IsPlaced
  <2> QED BY <2>1, <2>2 DEF ParkedInv, IsPlaced, Top, Branches
<1> QED BY <1>1, <1>2, <1>3, <1>4, <1>5, <1>6, <1>7, <1>8, <1>9 DEF Dispatch, HostCall

\* A branch that an event reaches fails or is at hand.
LEMMA FeedingParked ==
  ASSUME Inv, BranchInv, ParkedInv, Feeding
  PROVE  ParkedInv'
<1>1. PICK b \in todo : FeedUnheard(b) \/ FeedNoMatch(b) \/ FeedBranchFails(b) \/ FeedBranch(b)
  BY DEF Feeding
<1>2. /\ pc = "feed" /\ InScope /\ todo' = todo \ {b} /\ UNCHANGED loop
  BY <1>1 DEF FeedUnheard, FeedNoMatch, FeedBranchFails, FeedBranch, Offered, InScope
<1>3. /\ scopes \in Seq(Scope) /\ scopes # <<>> /\ b \in Branches(Top) /\ loop = "feed"
      /\ \A c \in Branches(Top) : IsPlaced(c)
  BY <1>2, AtBranches, Placed DEF CallOK, ContextOK, BranchInv
<1>4. CASE FeedUnheard(b) \/ FeedNoMatch(b)
  <2>1. UNCHANGED <<scopes, pc>> /\ Top' = Top
    BY <1>4 DEF FeedUnheard, FeedNoMatch, ctxVars, Top
  <2> QED BY <1>2, <1>3, <2>1 DEF ParkedInv, IsPlaced
<1>5. CASE FeedBranchFails(b) \/ FeedBranch(b)
  <2>1. PICK br : /\ BranchBecomes(b, br)
                  /\ br.done \/ (pc' = "advance" /\ cur' = b)
    <3>1. CASE FeedBranchFails(b)
      <4>1. BranchBecomes(b, FailedAt(NodeAt(b))) /\ FailedAt(NodeAt(b)).done
        BY <3>1 DEF FeedBranchFails, FailedAt
      <4> QED BY <4>1
    <3>2. CASE FeedBranch(b)
      BY <3>2 DEF FeedBranch
    <3> QED BY <1>5, <3>1, <3>2
  <2>2. /\ Branches(Top') = Branches(Top)
        /\ Top'.branches = [Top.branches EXCEPT ![b] = br]
    BY <1>3, <2>1, OneBranchMoves
  <2>3. /\ \A c \in Branches(Top) \ {b} : Top'.branches[c] = Top.branches[c]
        /\ Top'.branches[b] = br
    BY <1>3, <2>2 DEF Branches
  <2> QED BY <1>2, <1>3, <2>1, <2>2, <2>3, ParkedFrame DEF IsParked
<1> QED BY <1>1, <1>4, <1>5

\* A branch stops where it is parked: the fuse never cuts its walk.
LEMMA AdvanceParked ==
  ASSUME NEW r \in [Node -> 0 .. MaxBranchSteps - 1],
         Inv, BranchInv, ParkedInv, StepsInv(r), Advance
  PROVE  ParkedInv'
<1>1. /\ pc \in {"fork", "advance"} /\ InScope /\ UNCHANGED loop /\ pc' \in {"advance", loop}
  BY DEF Advance, RunBranch, AdvanceNothing, AdvanceTripped, AdvanceArrives, AdvanceParks,
         AdvanceMoves, AdvanceFails, AdvanceStuck, Walking, Advancing, BranchStops, BranchLeft,
         InScope
<1>2. /\ scopes \in Seq(Scope) /\ scopes # <<>> /\ todo \subseteq Branches(Top)
      /\ pc = "advance" => cur \in Branches(Top) /\ Top.branches[cur] \in Branch
      /\ \A c \in Branches(Top) : IsPlaced(c)
      /\ steps \in Nat /\ MaxBranchSteps \in Nat /\ loop # "advance"
  BY <1>1, AtBranches, Placed, RuntimeAssumption DEF CallOK, ContextOK, BranchInv
<1>3. CASE \E b \in todo : RunBranch(b)
  <2>1. PICK b \in todo : RunBranch(b)
    BY <1>3
  <2>2. /\ pc = "fork" /\ todo' = todo \ {b} /\ cur' = b /\ pc' = "advance"
        /\ UNCHANGED scopes /\ Top' = Top /\ loop = "fork"
    BY <2>1 DEF RunBranch, ctxVars, BranchInv, BranchesInTurn, Top
  <2> QED BY <1>1, <1>2, <2>2 DEF ParkedInv, IsPlaced
<1>4. CASE AdvanceNothing
  <2>1. /\ pc = "advance" /\ pc' = loop /\ UNCHANGED <<scopes, todo>> /\ Top' = Top
        /\ Top.branches[cur].done \/ steps >= MaxBranchSteps
    BY <1>4 DEF AdvanceNothing, BranchStops, BranchLeft, Top
  <2>2. IsParked(Top.branches[cur])
    BY <1>2, <2>1 DEF StepsInv, IsParked
  <2> QED BY <1>1, <1>2, <2>1, <2>2 DEF ParkedInv, IsPlaced
<1>5. CASE \/ AdvanceTripped \/ AdvanceArrives \/ AdvanceParks \/ AdvanceMoves \/ AdvanceFails
           \/ AdvanceStuck
  <2>1. /\ pc = "advance" /\ UNCHANGED todo /\ (pc' = "advance" => cur' = cur)
        /\ AdvanceMoves => pc' = "advance" /\ cur' = cur
    BY <1>1, <1>2, <1>5 DEF AdvanceTripped, AdvanceArrives, AdvanceParks, AdvanceMoves,
        AdvanceFails, AdvanceStuck, Walking, Advancing, BranchStops, BranchLeft
  <2>2. \E br, join : /\ \/ BranchBecomes(cur, br)
                         \/ TopBecomes(join, [Top.branches EXCEPT ![cur] = br])
                      /\ AdvanceMoves \/ IsParked(br)
    <3>1. CASE AdvanceTripped \/ AdvanceFails
      <4>1. BranchBecomes(cur, FailedAt(NodeAt(cur))) /\ FailedAt(NodeAt(cur)).done
        BY <3>1 DEF AdvanceTripped, AdvanceFails, FailedAt
      <4> QED BY <4>1 DEF IsParked
    <3>2. CASE AdvanceArrives
      <4> DEFINE br == [node |-> NodeAt(cur), status |-> "completed", done |-> TRUE]
      <4>1. br.done /\ \E join : TopBecomes(join, [Top.branches EXCEPT ![cur] = br])
        BY <3>2 DEF AdvanceArrives
      <4> HIDE DEF br
      <4> QED BY <4>1 DEF IsParked
    <3>3. CASE AdvanceParks
      <4> DEFINE br == [Top.branches[cur] EXCEPT !.status = "waiting"]
      <4>1. br.status = "waiting" /\ br.node = NodeAt(cur)
        BY <1>2, <2>1 DEF Branch, NodeAt
      <4>2. BranchBecomes(cur, br) /\ IsWaitingNode(NodeAt(cur))
        BY <3>3 DEF AdvanceParks
      <4> HIDE DEF br
      <4> QED BY <4>1, <4>2 DEF IsParked
    <3>4. CASE AdvanceMoves
      BY <3>4 DEF AdvanceMoves
    <3>5. CASE AdvanceStuck
      <4> DEFINE br == [node |-> NodeAt(cur), status |-> "waiting",
                        done |-> NodeType[NodeAt(cur)] # "condition"]
      <4>1. BranchBecomes(cur, br) /\ NodeAt(cur) \in Node
        BY <3>5 DEF AdvanceStuck, Walking, BranchTripped
      <4>2. IsParked(br)
        BY <4>1 DEF IsParked, TypeOf
      <4> HIDE DEF br
      <4> QED BY <4>1, <4>2
    <3> QED BY <1>5, <3>1, <3>2, <3>3, <3>4, <3>5
  <2>3. PICK br, join : /\ \/ BranchBecomes(cur, br)
                           \/ TopBecomes(join, [Top.branches EXCEPT ![cur] = br])
                        /\ AdvanceMoves \/ IsParked(br)
    BY <2>2
  <2>4. /\ Branches(Top') = Branches(Top)
        /\ Top'.branches = [Top.branches EXCEPT ![cur] = br]
    BY <1>2, <2>1, <2>3, OneBranchMoves
  <2>5. /\ \A c \in Branches(Top) \ {cur} : Top'.branches[c] = Top.branches[c]
        /\ Top'.branches[cur] = br
    BY <1>2, <2>1, <2>4 DEF Branches
  <2>6. cur \in Branches(Top) /\ (loop = "fork" => pc' \in {"fork", "advance"})
    BY <1>1, <1>2, <2>1
  <2>7. IsParked(Top'.branches[cur]) \/ (pc' = "advance" /\ cur' = cur)
    BY <2>1, <2>3, <2>5
  <2> QED BY <1>1, <1>2, <2>1, <2>4, <2>5, <2>6, <2>7, ParkedFrame
<1> QED BY <1>3, <1>4, <1>5 DEF Advance

\* A scope that is judged has all its branches parked.
LEMMA SettleParked ==
  ASSUME Inv, BranchInv, ParkedInv, Settle
  PROVE  ParkedInv'
<1>1. InScope /\ todo = {} /\ pc # "advance"
  BY DEF Settle, SettleFails, SettleConverges, SettleTimesOut, SettleWaits, Settling, InScope
<1>2. /\ scopes \in Seq(Scope) /\ scopes # <<>> /\ Len(scopes) <= 1
      /\ \A c \in Branches(Top) : IsPlaced(c)
  BY <1>1, AtBranches, Placed DEF ContextOK, BranchInv
<1>3. CASE SettleFails \/ SettleConverges
  <2>1. scopes' = <<>>
    BY <1>2, <1>3, Popping DEF SettleFails, SettleConverges
  <2> QED BY <2>1 DEF ParkedInv
<1>4. CASE SettleTimesOut \/ SettleWaits
  <2>1. UNCHANGED scopes /\ Top' = Top
    BY <1>4 DEF SettleTimesOut, SettleWaits, Top
  <2>2. \A c \in Branches(Top) : IsParked(Top.branches[c])
    BY <1>1, <1>2 DEF IsPlaced
  <2> QED BY <2>1, <2>2 DEF ParkedInv, IsPlaced
<1> QED BY <1>3, <1>4 DEF Settle

\* A slot that fires takes its branch in hand, or fails it.
LEMMA WakingParked ==
  ASSUME Inv, BranchInv, ParkedInv, Waking
  PROVE  ParkedInv'
<1>1. pc \in {"wake", "fire"} /\ AtRest
  BY DEF Waking, WakeDuplicate, WakeConsume, FireScopeTimeout, FireDeadlineFails, FireDeadline,
         FireDeadlineBranch, FireOrphan, FireTimer, FireTimerBranch, Fire, AtRest
<1>2. /\ ContextOK /\ todo = {}
      /\ pc = "fire" => slot \in Slot /\ slot \in Armed
  BY <1>1, AtWake DEF Armed
<1>3. CASE \E s \in due : WakeDuplicate(s) \/ WakeConsume(s)
  <2>1. AtRest' /\ UNCHANGED <<scopes, status>>
    BY <1>3 DEF WakeDuplicate, WakeConsume, Return, AfterCall, AtRest
  <2> QED BY <1>1, <2>1, ParkedRests
<1>4. CASE FireScopeTimeout \/ FireDeadlineFails \/ FireOrphan
  <2>1. /\ AtRest' /\ UNCHANGED scopes
        /\ status' \in {"failed", "timed_out"} \/ UNCHANGED status
    BY <1>4 DEF FireScopeTimeout, FireDeadlineFails, FireOrphan, Return, AfterCall, AtRest
  <2> QED BY <1>1, <2>1, ParkedRests
<1>5. CASE FireDeadline \/ FireTimer
  <2>1. pc = "fire" /\ slot = InstanceSlot /\ UNCHANGED scopes
    BY <1>5 DEF FireDeadline, FireTimer, Fire
  <2>2. scopes = <<>>
    BY <1>2, <2>1 DEF Inv, InstanceSlotIsCurrent, Armed
  <2> QED BY <2>1, <2>2, ParkedRests
<1>6. CASE FireDeadlineBranch \/ FireTimerBranch
  <2> DEFINE b == slot.branch
  <2>1. /\ pc = "fire" /\ scopes # <<>> /\ UNCHANGED todo
        /\ slot.kind = "branch" /\ Top.fork = slot.node /\ AtRest
    BY <1>1, <1>6 DEF FireDeadlineBranch, FireTimerBranch, Fire, ScopeHolds
  <2>2. /\ b \in Branches(Top) /\ scopes \in Seq(Scope)
        /\ \A c \in Branches(Top) : IsPlaced(c)
    BY <1>2, <2>1, SlotKinds, TopScope, Placed DEF ContextOK, BranchInv
  <2> HIDE DEF b
  <2>3. PICK br : BranchBecomes(b, br) /\ (br.done \/ (pc' = "advance" /\ cur' = b))
    <3>1. FailedAt(NodeAt(b)).done
      BY DEF FailedAt
    <3> QED BY <1>6, <3>1 DEF FireDeadlineBranch, FireTimerBranch, b
  <2>4. /\ Branches(Top') = Branches(Top)
        /\ Top'.branches = [Top.branches EXCEPT ![b] = br]
    BY <2>1, <2>2, <2>3, OneBranchMoves
  <2>5. /\ \A c \in Branches(Top) \ {b} : Top'.branches[c] = Top.branches[c]
        /\ Top'.branches[b] = br
    BY <2>2, <2>4 DEF Branches
  <2>6. loop # "fork"
    BY <2>1 DEF Inv, TypeOK, CallOK
  <2> QED BY <1>2, <2>1, <2>2, <2>3, <2>4, <2>5, <2>6, ParkedFrame DEF IsParked
<1> QED BY <1>3, <1>4, <1>5, <1>6 DEF Waking

\* The branch at hand keeps below the fuse as its rank falls.
LEMMA StepsStep ==
  ASSUME NEW r \in [Node -> 0 .. MaxBranchSteps - 1], Ranked(r),
         Inv, StepsInv(r), [Next]_vars
  PROVE  StepsInv(r)'
<1> DEFINE Fits(n) == n \in Node => r[n] < MaxBranchSteps
<1>1. /\ MaxBranchSteps \in Nat /\ MaxBranchSteps > 0 /\ \A n \in Node : r[n] \in Nat
      /\ \A n : Fits(n) /\ steps \in Nat
  BY RuntimeAssumption, UnderWay DEF CallOK
<1>2. CASE UNCHANGED vars
  BY <1>2 DEF vars, ctxVars, callVars, StepsInv, AtRest, Top, NodeAt
<1>3. ASSUME pc' \notin {"fork", "feed", "advance", "idle", "wake", "fire"}
      PROVE  StepsInv(r)'
  BY <1>3 DEF StepsInv, AtRest
<1>4. ASSUME steps' = 0 PROVE StepsInv(r)'
  BY <1>1, <1>4 DEF StepsInv
<1>5. ASSUME pc \in {"fork", "feed"} \/ AtRest, UNCHANGED steps PROVE StepsInv(r)'
  BY <1>4, <1>5 DEF StepsInv
<1>6. CASE Drain \/ Dispatch \/ Park
  <2>1. steps' = 0 \/ pc' \in {"dispatch", "park", "drain"}
    BY <1>6 DEF Drain, DrainRunaway, StepMissing, StepEnd, StepFork, StepMove, StepFail, Decided, Dispatch,
       DispatchFailed, DispatchForked, DispatchCompleted, DispatchMoved, Park, Return
  <2> QED BY <1>3, <1>4, <2>1
<1>7. CASE Feeding
  <2>1. pc = "feed" /\ UNCHANGED steps
    BY <1>7 DEF Feeding, FeedUnheard, FeedNoMatch, FeedBranchFails, FeedBranch, Offered
  <2> QED BY <1>5, <2>1
<1>8. CASE Advance /\ ~AdvanceMoves
  <2>1. steps' = 0 \/ (pc = "fork" /\ UNCHANGED steps)
    BY <1>8 DEF Advance, RunBranch, AdvanceNothing, AdvanceTripped, AdvanceArrives, AdvanceParks,
         AdvanceFails, AdvanceStuck, BranchStops
  <2> QED BY <1>4, <1>5, <2>1
<1>9. CASE AdvanceMoves
  <2> DEFINE n == NodeAt(cur)
  <2>1. /\ pc = "advance" /\ pc' = "advance" /\ cur' = cur /\ steps' = steps + 1
        /\ ~Top.branches[cur].done /\ n \in Node /\ InScope
        /\ TypeOf(n) \notin {"approval", "subprocess", "timer", "end", "join"}
    BY <1>9 DEF AdvanceMoves, Walking, Advancing, BranchTripped, AtJoin, IsWaitingNode, InScope
  <2>2. PICK next \in BranchTargets(n) \ {NoNode} :
          BranchBecomes(cur, [Top.branches[cur] EXCEPT !.node = next])
    BY <1>9 DEF AdvanceMoves
  <2>3. next \in Node /\ r[next] < r[n]
    BY <2>1, <2>2, RouteTypes DEF Ranked
  <2>4. cur \in Branches(Top) /\ Top.branches[cur] \in Branch /\ scopes \in Seq(Scope) /\ scopes # <<>>
    BY <2>1, AtBranches DEF ContextOK
  <2> DEFINE br == [Top.branches[cur] EXCEPT !.node = next]
  <2>5. br.node = next
    BY <2>4 DEF Branch
  <2>6. Top'.branches[cur] = br
    <3> HIDE DEF br
    <3>1. Top'.branches = [Top.branches EXCEPT ![cur] = br]
      BY <2>2, <2>4, OneBranchMoves DEF br
    <3> QED BY <2>4, <3>1 DEF Branches
  <2>7. NodeAt(cur)' = next
    BY <2>1, <2>5, <2>6 DEF NodeAt
  <2>8. steps + r[n] < MaxBranchSteps
    BY <2>1 DEF StepsInv
  <2> HIDE DEF br, n
  <2>9. r[next] \in Nat /\ r[n] \in Nat
    BY <1>1, <2>1, <2>3
  <2>10. steps' + r[next] < MaxBranchSteps /\ steps' < MaxBranchSteps
    BY <1>1, <2>1, <2>3, <2>8, <2>9
  <2> QED BY <2>1, <2>7, <2>10 DEF StepsInv, AtRest
<1>10. CASE Settle
  BY <1>4, <1>10, <1>3 DEF Settle, SettleFails, SettleConverges, SettleTimesOut, SettleWaits, Return
<1>11. CASE Waking \/ HostCall
  <2>1. AtRest /\ (steps' = 0 \/ UNCHANGED steps)
    BY <1>11 DEF Waking, WakeDuplicate, WakeConsume, FireScopeTimeout, FireDeadlineFails,
         FireDeadline, FireDeadlineBranch, FireOrphan, FireTimer, FireTimerBranch, Fire, Return,
         HostCall, Start, Compensate, FeedInstance, FeedScope, Accept, WakeDue, AtRest, callVars
  <2> QED BY <1>4, <1>5, <2>1
<1> QED BY <1>2, <1>6, <1>7, <1>8, <1>9, <1>10, <1>11 DEF Next, CallStep

\* Between calls every branch of a waiting instance is over or waits where an
\* event or the clock can take it from (advanceBranch), where scopes wait for all
\* their branches, no deadline's output mapping fails, and no branch walks
\* maxBranchSteps nodes between two waits: the loop of advanceBranch then ends
\* for a reason and is never cut.
THEOREM BranchesStandParked ==
  ASSUME ScopesAwaitAll, DeadlinesMap, BranchesShort
  PROVE  Spec => []BranchesParked
<1> PICK r \in [Node -> 0 .. MaxBranchSteps - 1] : Ranked(r)
  BY DEF BranchesShort
<1>1. Init => ParkedInv /\ StepsInv(r)
  BY DEF Init, ParkedInv, StepsInv, AtRest
<1>2. Inv /\ SlotsWatch /\ BranchInv /\ ParkedInv /\ StepsInv(r) /\ [Next]_vars
        => ParkedInv' /\ StepsInv(r)'
  <2> SUFFICES ASSUME Inv, SlotsWatch, BranchInv, ParkedInv, StepsInv(r), [Next]_vars
               PROVE  ParkedInv'
    BY StepsStep
  <2>1. CASE UNCHANGED vars
    BY <2>1 DEF vars, ctxVars, callVars, ParkedInv, IsPlaced, AtRest, Top
  <2> QED BY <2>1, OutsideParked, FeedingParked, AdvanceParked, SettleParked, WakingParked
          DEF Next, CallStep
<1>3. ParkedInv => BranchesParked
  BY DEF ParkedInv, BranchesParked, IsPlaced, IsParked, AtRest
<1> QED BY <1>1, <1>2, <1>3, InvariantHolds, SlotsWatchHolds, BranchInvHolds, PTL DEF Spec

-----------------------------------------------------------------------------
(* Waits that the clock ends. *)

\* Branch b does not wait at a timed node, or its slot is armed for that node.
IsWatched(b) ==
  LET br == Top.branches[b]
  IN  ~br.done /\ br.status = "waiting" /\ IsTimedNode(br.node)
        => waitings[BranchSlot(Top.fork, b)].node = br.node

\* The instance is watched at rest, every branch whenever it is not at hand.
WatchInv ==
  /\ pc = "dispatch" /\ TypeOf(emit) = "end" => status # "waiting"
  /\ scopes = <<>> /\ AtRest /\ status = "waiting" /\ IsTimedNode(current)
       => waitings[InstanceSlot].node = current
  /\ scopes # <<>> => \A b \in Branches(Top) : (pc = "advance" /\ b = cur) \/ IsWatched(b)

\* A step that moves branch b at most and leaves the slots of the others alone.
LEMMA WatchFrame ==
  ASSUME scopes # <<>>, scopes' # <<>>, Top'.fork = Top.fork, Branches(Top') = Branches(Top),
         NEW b \in Branches(Top), pc = "advance" => b = cur, WatchInv,
         \A c \in Branches(Top) \ {b} : Top'.branches[c] = Top.branches[c],
         \A c \in Branches(Top) \ {b} :
           waitings'[BranchSlot(Top.fork, c)] = waitings[BranchSlot(Top.fork, c)],
         IsWatched(b)' \/ (pc' = "advance" /\ cur' = b), pc' # "dispatch"
  PROVE  WatchInv'
<1>1. ASSUME NEW c \in Branches(Top), c # b
      PROVE  IsWatched(c)'
  <2>1. IsWatched(c)
    BY <1>1 DEF WatchInv
  <2> QED BY <1>1, <2>1 DEF IsWatched
<1> QED BY <1>1 DEF WatchInv

\* A step that leaves the scope alone and clears no branch slot of it.
LEMMA WatchKeeps ==
  ASSUME WatchInv, UNCHANGED scopes, pc # "advance", pc' \notin {"advance", "dispatch"},
         scopes # <<>> => \A c \in Branches(Top) :
           waitings'[BranchSlot(Top.fork, c)] = waitings[BranchSlot(Top.fork, c)],
         scopes = <<>> =>
           \/ ~AtRest' \/ status' # "waiting"
           \/ /\ AtRest /\ UNCHANGED <<status, current>>
              /\ waitings'[InstanceSlot] = waitings[InstanceSlot]
  PROVE  WatchInv'
<1>1. Top' = Top
  BY DEF Top
<1>2. CASE scopes # <<>>
  <2>1. \A c \in Branches(Top) : IsWatched(c)'
    BY <1>1, <1>2 DEF WatchInv, IsWatched
  <2> QED BY <1>1, <1>2, <2>1 DEF WatchInv
<1>3. CASE scopes = <<>>
  BY <1>3 DEF WatchInv
<1> QED BY <1>2, <1>3

\* A scope that drain opens has all its branches running.
LEMMA Forking ==
  ASSUME Inv, Drain, ~UNCHANGED scopes
  PROVE  WithStatus(Top', "running") = Branches(Top') /\ pc' = "dispatch"
<1> DEFINE sc == [fork |-> current, join |-> ForkOf[current].join,
                  branches |-> [b \in BranchOf(current) |->
                     [node |-> Trans[current][b].next, status |-> "running", done |-> FALSE]]]
<1>1. StepFork
  BY DEF Drain, DrainRunaway, StepMissing, StepEnd, StepMove, StepFail
<1>2. scopes = <<>>
  BY <1>1, AtDrain DEF StepFork, Stepping
<1>3. scopes' = Append(scopes, sc) /\ pc' = "dispatch"
  BY <1>1 DEF StepFork, Decided
<1>4. WithStatus(sc, "running") = Branches(sc)
  BY DEF WithStatus, Branches
<1> HIDE DEF sc
<1>5. Top' = sc
  <2>1. scopes' = <<sc>>
    BY <1>2, <1>3
  <2> QED BY <2>1 DEF Top
<1> QED BY <1>3, <1>4, <1>5

\* drain, the dispatch of effects and the calls of the host arm the instance's
\* slot when it parks, and move nobody else who waits.
LEMMA OutsideWatch ==
  ASSUME Inv, WatchInv, Drain \/ Dispatch \/ Park \/ HostCall
  PROVE  WatchInv'
<1>1. ContextOK /\ InstanceSlot \in Slot
  BY UnderWay, SlotKinds
<1>2. CASE Drain
  <2>1. pc = "drain" /\ scopes = <<>>
    BY <1>2, AtDrain DEF Drain, DrainRunaway, StepMissing, StepEnd, StepFork, StepMove, StepFail,
       Selecting, Stepping
  <2>4. \/ /\ pc' = "dispatch" /\ emit' = current
           /\ TypeOf(current) = "end" => status' \in {"completed", "failed"}
        \/ status' = "failed" /\ pc' \in {"idle", "wake"}
    BY <1>2 DEF Drain, DrainRunaway, StepMissing, StepEnd, StepFork, StepMove, StepFail, Selecting,
       Decided, Return, AfterCall
  <2>2. CASE UNCHANGED scopes
    BY <2>1, <2>2, <2>4 DEF AtRest, WatchInv
  <2>3. CASE ~UNCHANGED scopes
    <3>1. WithStatus(Top', "running") = Branches(Top') /\ pc' = "dispatch"
      BY <1>2, <2>3, Forking
    <3>2. \A b \in Branches(Top') : IsWatched(b)'
      BY <3>1 DEF WithStatus, IsWatched
    <3>3. TypeOf(emit') = "end" => status' # "waiting"
      BY <2>4, <3>1
    <3> QED BY <2>1, <2>3, <3>1, <3>2, <3>3 DEF WatchInv, Branches, TypeOf
  <2> QED BY <2>2, <2>3
<1>3. CASE Park
  <2>1. /\ pc = "park" /\ UNCHANGED <<scopes, current>> /\ waitings' = ParkedAt(InstanceSlot, current)
        /\ pc' \in {"idle", "wake"}
    BY <1>3 DEF Park, Return, AfterCall
  <2>2. scopes = <<>>
    BY <2>1 DEF Inv, ScopeDiscipline
  <2>3. IsTimedNode(current) => waitings'[InstanceSlot].node = current
    BY <1>1, <2>1, Parking DEF ContextOK, Parks
  <2> QED BY <2>1, <2>2, <2>3 DEF WatchInv
<1>4. CASE Dispatch
  <2>1. /\ pc = "dispatch" /\ UNCHANGED <<scopes, waitings>> /\ pc' \notin {"advance", "dispatch"}
        /\ DispatchForked \/ DispatchFailed \/ DispatchCompleted \/ DispatchMoved
    BY <1>4 DEF Dispatch, DispatchFailed, DispatchForked, DispatchCompleted, DispatchMoved, Delivered,
       Return, AfterCall
  <2>2. scopes = <<>> => ~AtRest' \/ status' # "waiting"
    <3>1. CASE DispatchForked \/ DispatchMoved
      BY <3>1 DEF DispatchForked, DispatchMoved, AtRest
    <3>2. CASE DispatchFailed
      BY <3>2 DEF DispatchFailed
    <3>3. CASE DispatchCompleted
      BY <3>3 DEF DispatchCompleted, Delivered, WatchInv
    <3> QED BY <2>1, <3>1, <3>2, <3>3
  <2> QED BY <2>1, <2>2, WatchKeeps
<1>5. CASE Start \/ Compensate \/ \E d \in SUBSET Slot : WakeDue(d)
  <2>1. /\ pc = "idle" /\ UNCHANGED <<scopes, waitings>>
        /\ \/ pc' = "drain"
           \/ pc' \in {"idle", "wake"} /\ UNCHANGED <<status, current>>
    BY <1>5 DEF Start, Compensate, WakeDue, ctxVars, callVars
  <2> QED BY <2>1, WatchKeeps DEF AtRest
<1>6. CASE \E e \in EventId : FeedInstance(e)
  <2>1. /\ pc = "idle" /\ UNCHANGED scopes /\ waitings' = Cleared(InstanceSlot) /\ pc' = "drain"
    BY <1>6 DEF FeedInstance, Accept
  <2>2. scopes # <<>> => \A c \in Branches(Top) :
          waitings'[BranchSlot(Top.fork, c)] = waitings[BranchSlot(Top.fork, c)]
    BY <1>1, <2>1, Clearing, TopScope, SlotKinds DEF ContextOK
  <2> QED BY <2>1, <2>2, WatchKeeps DEF AtRest
<1>7. CASE \E e \in EventId : FeedScope(e)
  <2>1. pc = "idle" /\ UNCHANGED <<scopes, waitings>> /\ pc' = "feed"
    BY <1>7 DEF FeedScope, Accept
  <2> QED BY <2>1, WatchKeeps DEF AtRest
<1> QED BY <1>2, <1>3, <1>4, <1>5, <1>6, <1>7 DEF HostCall

\* Slots of different branches are different keys.
LEMMA OtherSlots ==
  ASSUME waitings \in [Slot -> Waiting \cup {NoWait}], NEW f \in ForkNode, NEW b \in BranchOf(f),
         NEW c \in BranchOf(f), c # b,
         \/ UNCHANGED waitings
         \/ waitings' = Cleared(BranchSlot(f, b))
         \/ \E n : waitings' = ParkedAt(BranchSlot(f, b), n)
  PROVE  waitings'[BranchSlot(f, c)] = waitings[BranchSlot(f, c)]
<1>1. BranchSlot(f, b) # BranchSlot(f, c)
  BY DEF BranchSlot
<1> QED BY <1>1, SlotKinds DEF Cleared, ParkedAt

\* A branch that an event takes is at hand or over.
LEMMA FeedingWatch ==
  ASSUME Inv, WatchInv, Feeding
  PROVE  WatchInv'
<1>1. PICK b \in todo : FeedUnheard(b) \/ FeedNoMatch(b) \/ FeedBranchFails(b) \/ FeedBranch(b)
  BY DEF Feeding
<1>2. pc = "feed" /\ InScope
  BY <1>1 DEF FeedUnheard, FeedNoMatch, FeedBranchFails, FeedBranch, Offered, InScope
<1>3. /\ scopes \in Seq(Scope) /\ scopes # <<>> /\ b \in Branches(Top)
      /\ waitings \in [Slot -> Waiting \cup {NoWait}]
      /\ Top.fork \in ForkNode /\ Branches(Top) = BranchOf(Top.fork)
  BY <1>2, AtBranches DEF ContextOK
<1>4. CASE FeedUnheard(b) \/ FeedNoMatch(b)
  <2>1. UNCHANGED <<scopes, waitings, pc>>
    BY <1>4 DEF FeedUnheard, FeedNoMatch, ctxVars
  <2> QED BY <1>2, <1>3, <2>1, WatchKeeps
<1>5. CASE FeedBranchFails(b) \/ FeedBranch(b)
  <2>1. PICK br : /\ BranchBecomes(b, br)
                  /\ (br.done /\ pc' = "feed") \/ (pc' = "advance" /\ cur' = b)
    <3>1. CASE FeedBranchFails(b)
      <4>1. BranchBecomes(b, FailedAt(NodeAt(b))) /\ FailedAt(NodeAt(b)).done
        BY <3>1 DEF FeedBranchFails, FailedAt
      <4> QED BY <1>2, <3>1, <4>1 DEF FeedBranchFails
    <3>2. CASE FeedBranch(b)
      BY <3>2 DEF FeedBranch
    <3> QED BY <1>5, <3>1, <3>2
  <2>2. /\ scopes' # <<>> /\ Top'.fork = Top.fork /\ Branches(Top') = Branches(Top)
        /\ Top'.branches = [Top.branches EXCEPT ![b] = br]
    BY <1>3, <2>1, OneBranchMoves
  <2>3. /\ \A c \in Branches(Top) \ {b} : Top'.branches[c] = Top.branches[c]
        /\ Top'.branches[b] = br
    BY <1>3, <2>2 DEF Branches
  <2>4. UNCHANGED waitings \/ waitings' = Cleared(BranchSlot(Top.fork, b))
    BY <1>5 DEF FeedBranchFails, FeedBranch
  <2>5. \A c \in Branches(Top) \ {b} :
          waitings'[BranchSlot(Top.fork, c)] = waitings[BranchSlot(Top.fork, c)]
    BY <1>3, <2>4, OtherSlots
  <2>6. IsWatched(b)' \/ (pc' = "advance" /\ cur' = b)
    BY <2>1, <2>3 DEF IsWatched
  <2> QED BY <1>2, <1>3, <2>1, <2>2, <2>3, <2>5, <2>6, WatchFrame
<1> QED BY <1>1, <1>4, <1>5

\* A branch that stops at a timed node is given its slot, and no walk is cut.
LEMMA AdvanceWatch ==
  ASSUME NEW r \in [Node -> 0 .. MaxBranchSteps - 1],
         Inv, WatchInv, StepsInv(r), Advance
  PROVE  WatchInv'
<1>1. /\ pc \in {"fork", "advance"} /\ InScope /\ UNCHANGED loop /\ pc' \in {"advance", loop}
  BY DEF Advance, RunBranch, AdvanceNothing, AdvanceTripped, AdvanceArrives, AdvanceParks,
         AdvanceMoves, AdvanceFails, AdvanceStuck, Walking, Advancing, BranchStops, BranchLeft,
         InScope
<1>2. /\ scopes \in Seq(Scope) /\ scopes # <<>> /\ todo \subseteq Branches(Top)
      /\ waitings \in [Slot -> Waiting \cup {NoWait}] /\ visits \in [Node -> Nat]
      /\ Top.fork \in ForkNode /\ Branches(Top) = BranchOf(Top.fork)
      /\ pc = "advance" => cur \in Branches(Top) /\ Top.branches[cur] \in Branch
      /\ steps \in Nat /\ MaxBranchSteps \in Nat /\ loop \in {"settle", "fork", "feed"}
  BY <1>1, AtBranches, RuntimeAssumption DEF CallOK, ContextOK
<1>3. CASE \E b \in todo : RunBranch(b)
  <2>1. pc = "fork" /\ pc' = "advance" /\ UNCHANGED <<scopes, waitings>> /\ Top' = Top
    BY <1>3 DEF RunBranch, ctxVars, Top
  <2>2. \A c \in Branches(Top) : IsWatched(c)'
    BY <1>2, <2>1 DEF WatchInv, IsWatched
  <2> QED BY <1>2, <2>1, <2>2 DEF WatchInv
<1>4. CASE AdvanceNothing
  <2>1. /\ pc = "advance" /\ pc' = loop /\ UNCHANGED <<scopes, waitings>> /\ Top' = Top
        /\ Top.branches[cur].done \/ steps >= MaxBranchSteps
    BY <1>4 DEF AdvanceNothing, BranchStops, BranchLeft, Top
  <2>2. Top.branches[cur].done
    BY <1>2, <2>1 DEF StepsInv
  <2>3. \A c \in Branches(Top) : IsWatched(c)'
    BY <1>2, <2>1, <2>2 DEF WatchInv, IsWatched
  <2> QED BY <1>2, <2>1, <2>3 DEF WatchInv
<1>5. CASE \/ AdvanceTripped \/ AdvanceArrives \/ AdvanceParks \/ AdvanceMoves \/ AdvanceFails
           \/ AdvanceStuck
  <2> PICK k \in Branches(Top) : k = cur
    BY <1>2, <1>5 DEF AdvanceTripped, AdvanceArrives, AdvanceParks, AdvanceMoves,
        AdvanceFails, AdvanceStuck, Walking, Advancing
  <2> DEFINE s == BranchSlot(Top.fork, k)
             Stands(br) == br.done \/ br.status # "waiting" \/ ~IsTimedNode(br.node)
  <2>1. /\ pc = "advance" /\ Top.branches[k] \in Branch
        /\ AdvanceMoves => pc' = "advance" /\ cur' = k
    BY <1>1, <1>2, <1>5 DEF AdvanceTripped, AdvanceArrives, AdvanceParks, AdvanceMoves,
        AdvanceFails, AdvanceStuck, Walking, Advancing
  <2>2. UNCHANGED waitings \/ waitings' = ParkedAt(s, NodeAt(k))
    BY <1>5 DEF AdvanceTripped, AdvanceArrives, AdvanceParks, AdvanceMoves, AdvanceFails,
        AdvanceStuck, Walking
  <2>3. \A c \in Branches(Top) \ {k} :
          waitings'[BranchSlot(Top.fork, c)] = waitings[BranchSlot(Top.fork, c)]
    <3> HIDE DEF s
    <3> QED BY <1>2, <2>1, <2>2, OtherSlots DEF s
  <2>4. \E br, join : /\ \/ BranchBecomes(k, br)
                         \/ TopBecomes(join, [Top.branches EXCEPT ![k] = br])
                      /\ \/ AdvanceMoves \/ Stands(br)
                         \/ br.node = NodeAt(k) /\ waitings' = ParkedAt(s, NodeAt(k))
    <3>1. CASE AdvanceTripped \/ AdvanceFails
      <4>1. BranchBecomes(k, FailedAt(NodeAt(k))) /\ FailedAt(NodeAt(k)).done
        BY <3>1 DEF AdvanceTripped, AdvanceFails, FailedAt
      <4> QED BY <4>1
    <3>2. CASE AdvanceArrives
      <4> DEFINE br == [node |-> NodeAt(k), status |-> "completed", done |-> TRUE]
      <4>1. br.done /\ \E join : TopBecomes(join, [Top.branches EXCEPT ![k] = br])
        BY <3>2 DEF AdvanceArrives
      <4> HIDE DEF br
      <4> QED BY <4>1
    <3>3. CASE AdvanceParks
      <4> DEFINE br == [Top.branches[k] EXCEPT !.status = "waiting"]
      <4>1. br.node = NodeAt(k)
        BY <2>1 DEF Branch, NodeAt
      <4>2. BranchBecomes(k, br) /\ waitings' = ParkedAt(s, NodeAt(k))
        BY <3>3 DEF AdvanceParks
      <4> HIDE DEF br, s
      <4> QED BY <4>1, <4>2
    <3>4. CASE AdvanceMoves
      BY <3>4 DEF AdvanceMoves
    <3>5. CASE AdvanceStuck
      <4> DEFINE br == [node |-> NodeAt(k), status |-> "waiting",
                        done |-> NodeType[NodeAt(k)] # "condition"]
      <4>1. BranchBecomes(k, br) /\ ~IsWaitingNode(NodeAt(k))
        BY <3>5 DEF AdvanceStuck, Walking
      <4>2. ~IsTimedNode(br.node)
        BY <4>1 DEF IsTimedNode, IsWaitingNode
      <4> HIDE DEF br
      <4> QED BY <4>1, <4>2
    <3> QED BY <1>5, <3>1, <3>2, <3>3, <3>4, <3>5
  <2>5. PICK br, join : /\ \/ BranchBecomes(k, br)
                           \/ TopBecomes(join, [Top.branches EXCEPT ![k] = br])
                        /\ \/ AdvanceMoves \/ Stands(br)
                           \/ br.node = NodeAt(k) /\ waitings' = ParkedAt(s, NodeAt(k))
    BY <2>4
  <2>6. /\ scopes' # <<>> /\ Top'.fork = Top.fork /\ Branches(Top') = Branches(Top)
        /\ Top'.branches = [Top.branches EXCEPT ![k] = br]
    BY <1>2, <2>1, <2>5, OneBranchMoves
  <2>7. /\ \A c \in Branches(Top) \ {k} : Top'.branches[c] = Top.branches[c]
        /\ Top'.branches[k] = br
    BY <2>1, <2>6 DEF Branches
  <2>8. IsWatched(k)' \/ (pc' = "advance" /\ cur' = k)
    <3>1. CASE AdvanceMoves
      BY <2>1, <3>1
    <3>2. CASE Stands(br)
      BY <2>7, <3>2 DEF IsWatched
    <3>3. CASE br.node = NodeAt(k) /\ waitings' = ParkedAt(s, NodeAt(k))
      <4>1. s \in Slot
        BY <1>2, SlotKinds
      <4> HIDE DEF s
      <4>2. IsTimedNode(NodeAt(k)) => waitings'[s].node = NodeAt(k)
        BY <1>2, <3>3, <4>1, Parking DEF Parks
      <4> QED BY <2>6, <2>7, <3>3, <4>2 DEF IsWatched, s
    <3> QED BY <2>5, <3>1, <3>2, <3>3
  <2> QED BY <1>1, <1>2, <2>1, <2>3, <2>6, <2>7, <2>8, WatchFrame
<1> QED BY <1>3, <1>4, <1>5 DEF Advance

\* A scope that is judged is closed, or left with its branches as they are.
LEMMA SettleWatch ==
  ASSUME Inv, WatchInv, Settle
  PROVE  WatchInv'
<1>1. InScope /\ pc # "advance"
  BY DEF Settle, SettleFails, SettleConverges, SettleTimesOut, SettleWaits, Settling, InScope
<1>2. scopes \in Seq(Scope) /\ scopes # <<>> /\ Len(scopes) <= 1
  BY <1>1, AtBranches DEF ContextOK
<1>3. CASE SettleFails \/ SettleConverges
  <2>1. scopes' = <<>>
    BY <1>2, <1>3, Popping DEF SettleFails, SettleConverges
  <2>2. pc' \in {"idle", "wake", "drain"} /\ status' # "waiting"
    BY <1>3 DEF SettleFails, SettleConverges, Return, AfterCall
  <2> QED BY <2>1, <2>2 DEF WatchInv
<1>4. CASE SettleTimesOut \/ SettleWaits
  <2>1. UNCHANGED <<scopes, waitings>> /\ pc' \in {"idle", "wake"}
    BY <1>4 DEF SettleTimesOut, SettleWaits, Return, AfterCall
  <2> QED BY <1>1, <1>2, <2>1, WatchKeeps
<1> QED BY <1>3, <1>4 DEF Settle

\* A slot is cleared by firing, and whoever it watched moves.
LEMMA WakingWatch ==
  ASSUME DeadlinesMap, Inv, SlotsWatch, WatchInv, Waking, \A s \in Slot : ~WakeDuplicate(s)
  PROVE  WatchInv'
<1>1. pc \in {"wake", "fire"} /\ AtRest
  BY DEF Waking, WakeDuplicate, WakeConsume, FireScopeTimeout, FireDeadlineFails, FireDeadline,
         FireDeadlineBranch, FireOrphan, FireTimer, FireTimerBranch, Fire, AtRest
<1>2. /\ ContextOK /\ due \subseteq Slot
      /\ pc = "fire" => slot \in Slot /\ slot \in Armed /\ Watches(slot, waitings[slot])
  BY <1>1, AtWake DEF Armed, SlotsWatch
<1>3. CASE \E s \in due : WakeConsume(s)
  <2>1. UNCHANGED <<scopes, waitings, status, current>> /\ pc' = "fire"
    BY <1>3 DEF WakeConsume
  <2> QED BY <1>1, <2>1, WatchKeeps
<1>4. ASSUME pc = "fire", waitings' = Cleared(slot)
      PROVE  \A t \in Slot : t # slot => waitings'[t] = waitings[t]
  BY <1>2, <1>4, Clearing DEF ContextOK
<1>5. scopes # <<>> => /\ Top.fork \in ForkNode /\ Branches(Top) = BranchOf(Top.fork)
                       /\ \A c \in Branches(Top) : BranchSlot(Top.fork, c) \in Slot
  BY <1>2, TopScope, SlotKinds DEF ContextOK
<1>6. CASE FireDeadlineFails
  <2>1. /\ waitings[slot].node \in MayFail /\ waitings[slot].kind = "deadline" /\ pc = "fire"
    BY <1>6 DEF FireDeadlineFails, Fire, FiredNode
  <2>2. IsTimedNode(waitings[slot].node) /\ TypeOf(waitings[slot].node) # "timer"
    BY <1>2, <2>1 DEF Watches
  <2> QED BY <2>1, <2>2 DEF IsTimedNode, DeadlinesMap
<1>7. CASE FireScopeTimeout \/ FireOrphan
  <2>1. /\ pc = "fire" /\ waitings' = Cleared(slot) /\ UNCHANGED <<scopes, current>>
        /\ pc' \in {"idle", "wake"} /\ (status' # "waiting" \/ UNCHANGED status)
    BY <1>7 DEF FireScopeTimeout, FireOrphan, Fire, Return, AfterCall
  <2>2. slot # InstanceSlot
    <3>1. CASE FireOrphan
      BY <3>1 DEF FireOrphan, InstanceSlot
    <3>2. CASE FireScopeTimeout
      <4>1. waitings[slot].kind = "scope_timeout" /\ pc = "fire"
        BY <3>2 DEF FireScopeTimeout, Fire
      <4> QED BY <1>2, <4>1 DEF Watches, InstanceSlot
    <3> QED BY <1>7, <3>1, <3>2
  <2>3. ASSUME scopes # <<>>, NEW c \in Branches(Top)
        PROVE  slot # BranchSlot(Top.fork, c)
    <3>1. CASE FireOrphan
      BY <2>3, <3>1 DEF FireOrphan, ScopeHolds, BranchSlot
    <3>2. CASE FireScopeTimeout
      <4>1. waitings[slot].kind = "scope_timeout" /\ pc = "fire"
        BY <3>2 DEF FireScopeTimeout, Fire
      <4> QED BY <1>2, <4>1 DEF Watches, BranchSlot
    <3> QED BY <1>7, <3>1, <3>2
  <2>4. InstanceSlot \in Slot
    BY SlotKinds
  <2>5. waitings'[InstanceSlot] = waitings[InstanceSlot]
    BY <1>4, <2>1, <2>2, <2>4
  <2>6. scopes # <<>> => \A c \in Branches(Top) :
          waitings'[BranchSlot(Top.fork, c)] = waitings[BranchSlot(Top.fork, c)]
    BY <1>4, <1>5, <2>1, <2>3
  <2> QED BY <1>1, <2>1, <2>5, <2>6, WatchKeeps
<1>8. CASE FireDeadline \/ FireTimer
  <2>1. pc = "fire" /\ slot = InstanceSlot /\ UNCHANGED scopes /\ pc' \in {"park", "drain"}
    BY <1>8 DEF FireDeadline, FireTimer, Fire
  <2>2. scopes = <<>>
    BY <1>2, <2>1 DEF Inv, InstanceSlotIsCurrent, Armed
  <2> QED BY <2>1, <2>2 DEF WatchInv, AtRest
<1>9. CASE FireDeadlineBranch \/ FireTimerBranch
  <2> DEFINE b == slot.branch
  <2>1. /\ pc = "fire" /\ scopes # <<>> /\ waitings' = Cleared(slot)
        /\ slot.kind = "branch" /\ Top.fork = slot.node
    BY <1>9 DEF FireDeadlineBranch, FireTimerBranch, Fire, ScopeHolds
  <2>2. /\ b \in Branches(Top) /\ scopes \in Seq(Scope) /\ slot = BranchSlot(Top.fork, b)
    BY <1>2, <2>1, SlotKinds, TopScope, BranchSlotKey DEF ContextOK
  <2> HIDE DEF b
  <2>3. PICK br : /\ BranchBecomes(b, br)
                  /\ (br.done /\ pc' = "settle") \/ (pc' = "advance" /\ cur' = b)
    <3>1. FailedAt(NodeAt(b)).done
      BY DEF FailedAt
    <3> QED BY <1>9, <3>1 DEF FireDeadlineBranch, FireTimerBranch, b
  <2> PICK k \in Branches(Top) : k = b
    BY <2>2
  <2>4. /\ scopes' # <<>> /\ Top'.fork = Top.fork /\ Branches(Top') = Branches(Top)
        /\ Top'.branches = [Top.branches EXCEPT ![k] = br]
    BY <2>1, <2>2, <2>3, OneBranchMoves
  <2>5. /\ \A c \in Branches(Top) \ {k} : Top'.branches[c] = Top.branches[c]
        /\ Top'.branches[k] = br
    BY <2>4 DEF Branches
  <2>6. \A c \in Branches(Top) \ {k} :
          waitings'[BranchSlot(Top.fork, c)] = waitings[BranchSlot(Top.fork, c)]
    BY <1>2, <1>5, <2>1, <2>2, OtherSlots DEF ContextOK
  <2>7. IsWatched(k)' \/ (pc' = "advance" /\ cur' = k)
    BY <2>3, <2>5 DEF IsWatched
  <2> QED BY <2>1, <2>3, <2>4, <2>5, <2>6, <2>7, WatchFrame
<1>10. \A s \in due : ~WakeDuplicate(s)
  BY <1>2
<1> QED BY <1>3, <1>6, <1>7, <1>8, <1>9, <1>10 DEF Waking

\* Whoever waits at a timer or at a node with a deadline has its slot armed, as
\* long as no wake-up is dropped because its key was used before (WakeDue,
\* ConsumeWake), no deadline's output mapping fails and no branch walks
\* maxBranchSteps nodes between two waits.  The run wake_key shows that the first
\* condition can fail: it is the one way the code has to lose a slot.
THEOREM TimedWaitsArmed ==
  ASSUME DeadlinesMap, BranchesShort
  PROVE  Spec /\ [][\A s \in Slot : ~WakeDuplicate(s)]_vars => []TimedWaitArmed
<1> PICK r \in [Node -> 0 .. MaxBranchSteps - 1] : Ranked(r)
  BY DEF BranchesShort
<1>1. Init => WatchInv /\ StepsInv(r)
  BY DEF Init, WatchInv, StepsInv, AtRest
<1>2. Inv /\ SlotsWatch /\ WatchInv /\ StepsInv(r) /\ [Next]_vars
        /\ [\A s \in Slot : ~WakeDuplicate(s)]_vars
        => WatchInv' /\ StepsInv(r)'
  <2> SUFFICES ASSUME Inv, SlotsWatch, WatchInv, StepsInv(r), [Next]_vars,
                      [\A s \in Slot : ~WakeDuplicate(s)]_vars
               PROVE  WatchInv'
    BY StepsStep
  <2>1. CASE UNCHANGED vars
    BY <2>1 DEF vars, ctxVars, callVars, WatchInv, IsWatched, AtRest, Top
  <2>2. CASE Next /\ \A s \in Slot : ~WakeDuplicate(s)
    BY <2>2, OutsideWatch, FeedingWatch, AdvanceWatch, SettleWatch, WakingWatch DEF Next, CallStep
  <2> QED BY <2>1, <2>2
<1>3. WatchInv => TimedWaitArmed
  BY DEF WatchInv, TimedWaitArmed, IsWatched, AtRest
<1> QED BY <1>1, <1>2, <1>3, InvariantHolds, SlotsWatchHolds, PTL DEF Spec
=============================================================================
