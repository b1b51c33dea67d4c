------------------------------- MODULE Analyzer -------------------------------
(***************************************************************************)
(* The three graph searches of Analyze (dsl/analyzer.go) over a process    *)
(* definition, and the reachability search of Validate (dsl/validator.go), *)
(* which also follows the escalations of ai nodes and deadlines.           *)
(*                                                                         *)
(* A definition gives every node the list of its transitions' targets: IDs *)
(* that may name no node, or None where a transition leads nowhere.        *)
(***************************************************************************)
EXTENDS SequencesExt

CONSTANTS
  Node,       \* IDs of the nodes of the definition
  Missing,    \* IDs a transition may name that no node has
  None,       \* the empty ID
  Start,      \* ProcessDef.StartNode
  End,        \* the nodes of type "end"
  MaxPaths,   \* MaxAnalysisPaths
  MaxStates,  \* maxPathSearchStates
  Defs        \* the calls looked at, [asked, trans, esc]

Id     == Node \cup Missing
Target == Id \cup {None}

ASSUME AnalyzerAssumption ==
  /\ Node \cap Missing = {} /\ None \notin Id
  /\ Start \in Node /\ End \subseteq Node
  /\ MaxPaths \in Nat /\ MaxStates \in Nat
  /\ IsFiniteSet(Node)
  /\ Defs \subseteq [asked : {"Analyze", "Validate"},
                   trans : [Node -> Seq(Target)], esc : [Node -> Seq(Target)]]

VARIABLES
  trans,      \* Node.Transitions, as far as Next goes
  esc,        \* the targets of onError and deadline
  asked,      \* which of the two is called: "Analyze" or "Validate"
  phase,      \* the search under way
  reachable, queue, cur, at,           \* breadth-first search
  color, parent, stack, cyc, back, up, \* detectCycleFirst
  frontier, count, within              \* pathsWithinBudget

defVars   == <<trans, esc, asked>>
reachVars == <<reachable, queue, cur, at>>
cycleVars == <<color, parent, stack, cyc, back, up>>
pathVars  == <<frontier, count, within>>
vars      == <<defVars, phase, reachVars, cycleVars, pathVars>>

Colors == {"white", "gray", "black"}

\* The edges the search follows out of n.
Edges(n) == IF asked = "Validate" THEN trans[n] \o esc[n] ELSE trans[n]

Init ==
  /\ \E d \in Defs : trans = d.trans /\ esc = d.esc /\ asked = d.asked
  /\ phase = "reach"
  /\ reachable = {Start} /\ queue = <<Start>> /\ cur = None /\ at = 1
  /\ color = [n \in Node |-> "white"] /\ parent = [n \in Node |-> None]
  /\ stack = <<>> /\ cyc = <<>> /\ back = None /\ up = None
  /\ frontier = <<[node |-> Start, vis |-> {Start}]>> /\ count = 0 /\ within = TRUE

-----------------------------------------------------------------------------
(* Reachability, a transition at a time. *)

Scanning == cur # None /\ at <= Len(Edges(cur))

\* The next ID leaves the queue; one that names no node has no transitions.
Pop ==
  /\ phase = "reach" /\ ~Scanning /\ queue # <<>>
  /\ queue' = Tail(queue)
  /\ cur' = IF Head(queue) \in Node THEN Head(queue) ELSE None
  /\ at' = 1
  /\ UNCHANGED <<defVars, phase, reachable, cycleVars, pathVars>>

\* Analyze marks every ID a transition names, Validate declared nodes only.
Follows(v) == /\ v # None /\ v \notin reachable
              /\ asked = "Validate" => v \in Node
\* Mutant: the scan of a node ends at the first ID it has met before.
ScanBreaks ==
  /\ phase = "reach" /\ Scanning
  /\ LET v == Edges(cur)[at] IN
       IF Follows(v) THEN reachable' = reachable \cup {v} /\ queue' = Append(queue, v) /\ at' = at + 1
                     ELSE at' = Len(Edges(cur)) + 1 /\ UNCHANGED <<reachable, queue>>
  /\ UNCHANGED <<defVars, phase, cur, cycleVars, pathVars>>
Scan ==
  /\ phase = "reach" /\ Scanning
  /\ LET v == Edges(cur)[at] IN
       IF Follows(v) THEN reachable' = reachable \cup {v} /\ queue' = Append(queue, v)
                     ELSE UNCHANGED <<reachable, queue>>
  /\ at' = at + 1
  /\ UNCHANGED <<defVars, phase, cur, cycleVars, pathVars>>

\* Validate ends here; Analyze goes on.
Searched ==
  /\ phase = "reach" /\ ~Scanning /\ queue = <<>>
  /\ phase' = IF asked = "Validate" THEN "done" ELSE "cycle"
  /\ UNCHANGED <<defVars, reachVars, cycleVars, pathVars>>

-----------------------------------------------------------------------------
(* detectCycleFirst: colouring from every node that is still white. *)

Root ==
  /\ phase = "cycle" /\ stack = <<>>
  /\ \E n \in Node :
       /\ color[n] = "white"
       /\ color' = [color EXCEPT ![n] = "gray"]
       /\ stack' = <<n>>
  /\ UNCHANGED <<defVars, phase, reachVars, parent, cyc, back, up, pathVars>>

\* Mutant: a node met before counts as a cycle, whether it is done with or not.
StopsAtAny(u, v) == v \in Node /\ (color[v] = "white" \/ v # u)
\* The transitions of u the scan does not pass by: into a white node, or back
\* into a gray one other than u itself.
StopsAt(u, v) == /\ v \in Node
                 /\ color[v] = "white" \/ (color[v] = "gray" /\ v # u)
Hits(u)  == {k \in DOMAIN trans[u] : StopsAt(u, trans[u][k])}
First(u) == {trans[u][k] : k \in {h \in Hits(u) : \A j \in Hits(u) : h <= j}}

Descending == phase = "cycle" /\ stack # <<>>

Push ==
  /\ Descending
  /\ \E v \in First(Last(stack)) :
       /\ color[v] = "white"
       /\ color' = [color EXCEPT ![v] = "gray"]
       /\ parent' = [parent EXCEPT ![v] = Last(stack)]
       /\ stack' = Append(stack, v)
  /\ UNCHANGED <<defVars, phase, reachVars, cyc, back, up, pathVars>>

\* Mutant: a node that is done with may be searched again.
BacktrackWhite ==
  /\ Descending
  /\ Hits(Last(stack)) = {}
  /\ stack' = Front(stack)
  /\ color' = [color EXCEPT ![Last(stack)] = "white"]
  /\ UNCHANGED <<defVars, phase, reachVars, parent, cyc, back, up, pathVars>>
Backtrack ==
  /\ Descending
  /\ Hits(Last(stack)) = {}
  /\ stack' = Front(stack)
  /\ color' = [color EXCEPT ![Last(stack)] = "black"]
  /\ UNCHANGED <<defVars, phase, reachVars, parent, cyc, back, up, pathVars>>

\* A back edge: the cycle is collected along the parents, last node first.
Found ==
  /\ Descending
  /\ \E v \in First(Last(stack)) :
       /\ color[v] # "white"
       /\ cyc' = <<v, Last(stack)>>
       /\ back' = v /\ up' = Last(stack)
  /\ phase' = "collect"
  /\ UNCHANGED <<defVars, reachVars, color, parent, stack, pathVars>>

Collect ==
  /\ phase = "collect" /\ up # back /\ up # None
  /\ cyc' = Append(cyc, up) /\ up' = parent[up]
  /\ UNCHANGED <<defVars, phase, reachVars, color, parent, stack, back, pathVars>>

Collected ==
  /\ phase = "collect" /\ ~(up # back /\ up # None)
  /\ cyc' = Reverse(Append(cyc, back))
  /\ phase' = "paths"
  /\ UNCHANGED <<defVars, reachVars, color, parent, stack, back, up, pathVars>>

NoCycle ==
  /\ phase = "cycle" /\ stack = <<>> /\ \A n \in Node : color[n] # "white"
  /\ phase' = "paths"
  /\ UNCHANGED <<defVars, reachVars, cycleVars, pathVars>>

-----------------------------------------------------------------------------
(* pathsWithinBudget: all simple paths from the start, breadth first. *)

Complete(n) == n \in End \/ trans[n] = <<>>

\* The targets in s that are not in T, in their order.
Unmet(s, T) ==
  LET pick[k \in 0..Len(s)] == IF k = 0 THEN <<>>
                               ELSE IF s[k] \in T THEN pick[k - 1]
                               ELSE Append(pick[k - 1], s[k])
  IN  pick[Len(s)]

\* Mutant: what has been met is shared by all the paths of a node.
OnwardOnce(p) ==
  LET go == Unmet(trans[p.node], p.vis \cup {None})
      all == {go[k] : k \in DOMAIN go}
  IN  [k \in 1..Len(go) |-> [node |-> go[k], vis |-> p.vis \cup all]]

\* The continuations of a path, one for each transition to an ID it has not met.
Onward(p) ==
  LET go == Unmet(trans[p.node], p.vis \cup {None})
  IN  [k \in 1..Len(go) |-> [node |-> go[k], vis |-> p.vis \cup {go[k]}]]

Extending == phase = "paths" /\ frontier # <<>> /\ Len(frontier) <= MaxStates

Stray ==
  /\ Extending /\ Head(frontier).node \notin Node
  /\ frontier' = Tail(frontier)
  /\ UNCHANGED <<defVars, phase, reachVars, cycleVars, count, within>>

Counted ==
  /\ Extending /\ Head(frontier).node \in Node
  /\ Complete(Head(frontier).node)
  /\ count' = count + 1
  /\ IF count' > MaxPaths
     THEN phase' = "done" /\ within' = FALSE /\ UNCHANGED frontier
     ELSE frontier' = Tail(frontier) /\ UNCHANGED <<phase, within>>
  /\ UNCHANGED <<defVars, reachVars, cycleVars>>

Extend ==
  /\ Extending /\ Head(frontier).node \in Node
  /\ ~Complete(Head(frontier).node)
  /\ frontier' = Tail(frontier) \o Onward(Head(frontier))
  /\ UNCHANGED <<defVars, phase, reachVars, cycleVars, count, within>>

TooMany ==
  /\ phase = "paths" /\ Len(frontier) > MaxStates
  /\ phase' = "done" /\ within' = FALSE
  /\ UNCHANGED <<defVars, reachVars, cycleVars, frontier, count>>

AllPaths ==
  /\ phase = "paths" /\ frontier = <<>>
  /\ phase' = "done"
  /\ UNCHANGED <<defVars, reachVars, cycleVars, pathVars>>

Next == \/ Pop \/ Scan \/ Searched
        \/ Root \/ Push \/ Backtrack \/ Found \/ Collect \/ Collected \/ NoCycle
        \/ Stray \/ Counted \/ Extend \/ TooMany \/ AllPaths

Spec     == Init /\ [][Next]_vars
FairSpec == Spec /\ WF_vars(Next)

-----------------------------------------------------------------------------
(* What Analyze says of the nodes one by one. *)

\* Mutant: a node without transitions is passed by.
DeadEndNone == {}
\* dead_end: a node that is no end and has no transitions.
DeadEnd         == {n \in Node \ End : trans[n] = <<>>}
\* invalid_terminal: an end with transitions.
InvalidTerminal == {n \in End : trans[n] # <<>>}

Analyzed == phase = "done" /\ asked = "Analyze"

\* No diagnostic about the graph.  The others (missing_transition, duplicate_...)
\* are about the labels of single transitions: AnalysisReport.IsClean implies this.
IsClean == /\ Node \subseteq reachable
           /\ DeadEnd = {} /\ InvalidTerminal = {}
           /\ cyc = <<>> /\ within

-----------------------------------------------------------------------------
(* Properties. *)

TypeOK ==
  /\ trans \in [Node -> Seq(Target)] /\ esc \in [Node -> Seq(Target)]
  /\ asked \in {"Analyze", "Validate"}
  /\ phase \in {"reach", "cycle", "collect", "paths", "done"}
  /\ reachable \subseteq Id /\ queue \in Seq(Id) /\ cur \in Node \cup {None}
  /\ at \in Nat \ {0}
  /\ color \in [Node -> Colors] /\ parent \in [Node -> Node \cup {None}]
  /\ stack \in Seq(Node) /\ cyc \in Seq(Node \cup {None})
  /\ back \in Node \cup {None} /\ up \in Node \cup {None}
  /\ count \in Nat /\ within \in BOOLEAN

Targets(n) == {trans[n][k] : k \in DOMAIN trans[n]} \ {None}
Escapes(n) == {esc[n][k] : k \in DOMAIN esc[n]} \ {None}

\* Where the search may go from n.
Onto(n) == IF asked = "Validate" THEN (Targets(n) \cup Escapes(n)) \cap Node ELSE Targets(n)
Closed(S) == \A n \in S \cap Node : Onto(n) \subseteq S

\* What a search calls reachable is the least set that holds the start and
\* whatever one of its nodes leads to, whichever order the queue had
\* (analyzer.go, unreachable_node; validator.go, "unreachable node").
ReachExact ==
  phase # "reach" =>
    /\ Start \in reachable /\ Closed(reachable)
    /\ \A S \in SUBSET Id : Start \in S /\ Closed(S) => reachable \subseteq S

\* Each of S leads to another node of S.
Loops(S) == \A n \in S : \E m \in S : m # n /\ m \in Targets(n)

\* A reported cycle is one: it begins and ends with the same node, and each of its
\* steps is a transition, but for the node before the last, which is named twice.
CycleReal ==
  /\ Len(cyc) > 3 /\ cyc[1] = cyc[Len(cyc)]
  /\ \A i \in 1..Len(cyc) - 1 :
       cyc[i + 1] \in Targets(cyc[i]) \/ (i = Len(cyc) - 2 /\ cyc[i + 1] = cyc[i])

\* detectCycleFirst reports a cycle where there is one, from whichever node it
\* starts, and no other; a transition from a node to itself is not a cycle to it.
CycleExact ==
  phase \in {"paths", "done"} /\ asked = "Analyze" =>
    IF cyc = <<>> THEN \A S \in SUBSET Node : Loops(S) => S = {} ELSE CycleReal

\* A definition without a diagnostic lets no instance go round or stop short of an
\* end: every set of nodes that is not left holds an end, names a node that does
\* not exist, or holds a node that leads to itself or nowhere.
CleanEnds ==
  Analyzed /\ IsClean =>
    \A S \in (SUBSET Node) \ {{}} :
      \/ S \cap End # {}
      \/ \E n \in S : \/ n \in Targets(n) \/ ~(Targets(n) \subseteq S)
                      \/ \E k \in DOMAIN trans[n] : trans[n][k] = None

\* The complete simple paths, as sequences of nodes.
CompletePaths ==
  {p \in UNION {[1..k -> Node] : k \in 1..Cardinality(Node)} :
     /\ p[1] = Start /\ Complete(p[Len(p)])
     /\ \A i, j \in DOMAIN p : p[i] = p[j] => i = j
     /\ \A i \in 1..Len(p) - 1 : ~Complete(p[i]) /\ p[i + 1] \in Targets(p[i])}

\* Two transitions of a node to the same target are two paths to the search.
NoTwins == \A n \in Node : Len(trans[n]) = Cardinality({trans[n][k] : k \in DOMAIN trans[n]})

\* The verdict on the paths: within the budget only if there are no more complete
\* paths than that, and over it by count only if there are more.
PathBudget ==
  Analyzed =>
    /\ within => Cardinality(CompletePaths) <= MaxPaths
    /\ count > MaxPaths /\ NoTwins => Cardinality(CompletePaths) > MaxPaths

\* All the searches end, on any definition.
Finishes == <>(phase = "done")
=============================================================================
