---------------------------- MODULE AnalyzerProofs ----------------------------
(***************************************************************************)
(* What the searches of Analyze and Validate find, proved for every set of *)
(* definitions: the reachable IDs are the least closed set, a cycle is     *)
(* reported if and only if there is one, a definition without a diagnostic *)
(* leaves no part in which an instance goes round for ever, and the search *)
(* for paths refuses a definition by count only if it has too many.        *)
(***************************************************************************)
EXTENDS Analyzer, SequenceTheorems, FiniteSetTheorems, WellFoundedInduction, TLAPS

-----------------------------------------------------------------------------
(* The inductive invariant. *)

InSeq(x, s) == \E i \in DOMAIN s : s[i] = x

\* The breadth-first search: an ID is reachable if it has to be, and the nodes that
\* are reachable and no longer queued have had their edges followed, the current one
\* as far as the scan has come.
Followed(v) == v \in reachable \/ v = None \/ (asked = "Validate" /\ v \notin Node)
EdgesFollowed(n) == \A k \in DOMAIN Edges(n) : Followed(Edges(n)[k])
ReachInv ==
  /\ Start \in reachable
  /\ \A S \in SUBSET Id : Start \in S /\ Closed(S) => reachable \subseteq S
  /\ \A i \in DOMAIN queue : queue[i] \in reachable
  /\ cur # None => /\ cur \in reachable
                   /\ \A k \in DOMAIN Edges(cur) : k < at => Followed(Edges(cur)[k])
  /\ \A n \in reachable \cap Node : InSeq(n, queue) \/ n = cur \/ EdgesFollowed(n)
  /\ phase # "reach" => \A n \in reachable \cap Node : EdgesFollowed(n)

\* The colours: gray nodes are on the stack, a black one leads to black ones and to
\* itself, and no set of black nodes loops.
Black == {n \in Node : color[n] = "black"}
ColorInv ==
  /\ phase = "reach" => stack = <<>> /\ \A n \in Node : color[n] = "white"
  /\ \A n \in Node : color[n] = "gray" => InSeq(n, stack)
  /\ \A n \in Black : \A v \in Targets(n) \cap Node : v \in Black \/ v = n
  /\ \A S \in SUBSET Black : Loops(S) => S = {}

\* The stack: gray nodes, each once, each led to by the one below it, its parent.
StackInv ==
  /\ \A i \in DOMAIN stack : color[stack[i]] = "gray"
  /\ \A i, j \in DOMAIN stack : stack[i] = stack[j] => i = j
  /\ \A i \in 1..Len(stack) - 1 :
       parent[stack[i + 1]] = stack[i] /\ stack[i + 1] \in Targets(stack[i])

\* The cycle under collection: its ends, and the way down the stack to the node the
\* back edge leads to.
CollectInv ==
  phase = "collect" =>
    /\ Len(cyc) >= 2 /\ Len(stack) >= 1
    /\ cyc[1] = back /\ cyc[2] = Last(stack)
    /\ back \in Targets(Last(stack)) /\ back # Last(stack)
    /\ Len(cyc) >= 3 => cyc[3] = cyc[2] /\ cyc[Len(cyc)] \in Targets(up)
    /\ \A i \in 3..Len(cyc) - 1 : cyc[i] \in Targets(cyc[i + 1])
    /\ Len(cyc) <= Len(stack) + 1
    /\ up = stack[Len(stack) + 2 - Len(cyc)]
    /\ \E b \in 1..Len(stack) + 2 - Len(cyc) : stack[b] = back

\* What the search ends with.
VerdictInv ==
  /\ phase \in {"reach", "cycle"} => cyc = <<>>
  /\ phase \in {"paths", "done"} /\ asked = "Analyze" =>
       IF cyc = <<>> THEN \A n \in Node : color[n] = "black" ELSE CycleReal
  /\ phase = "done" /\ asked = "Validate" => cyc = <<>>
  /\ asked = "Validate" => phase \in {"reach", "done"}

IInv == TypeOK /\ ReachInv /\ ColorInv /\ StackInv /\ CollectInv /\ VerdictInv

-----------------------------------------------------------------------------
(* Operators. *)

\* The elements of e are those of s and those of t.
Joined(s, t, e) ==
  /\ \A k \in DOMAIN e : (k \in DOMAIN s /\ e[k] = s[k]) \/ \E j \in DOMAIN t : e[k] = t[j]
  /\ \A k \in DOMAIN s : k \in DOMAIN e /\ e[k] = s[k]
  /\ \A j \in DOMAIN t : \E k \in DOMAIN e : e[k] = t[j]

\* The elements of a concatenation are those of its parts.
LEMMA ConcatElements ==
  ASSUME NEW T, NEW s \in Seq(T), NEW t \in Seq(T), NEW e, e = s \o t
  PROVE  Joined(s, t, e)
<1>1. /\ e \in Seq(T) /\ Len(e) = Len(s) + Len(t)
      /\ \A i \in 1..Len(s) + Len(t) : e[i] = IF i <= Len(s) THEN s[i] ELSE t[i - Len(s)]
  BY ConcatProperties
<1>2. /\ DOMAIN s = 1..Len(s) /\ DOMAIN t = 1..Len(t) /\ Len(s) \in Nat /\ Len(t) \in Nat
      /\ DOMAIN e = 1..Len(s) + Len(t)
  BY <1>1
<1>3. ASSUME NEW k \in DOMAIN e, ~(k \in DOMAIN s)
      PROVE  \E j \in DOMAIN t : e[k] = t[j]
  <2>1. k - Len(s) \in DOMAIN t /\ e[k] = t[k - Len(s)] BY <1>1, <1>2, <1>3
  <2> QED BY <2>1
<1>4. ASSUME NEW j \in DOMAIN t
      PROVE  \E k \in DOMAIN e : e[k] = t[j]
  <2>1. j + Len(s) \in DOMAIN e /\ e[j + Len(s)] = t[j] BY <1>1, <1>2, <1>4
  <2> QED BY <2>1
<1> QED BY <1>1, <1>2, <1>3, <1>4 DEF Joined

\* The edges of a node are targets.
LEMMA EdgesTyped ==
  ASSUME TypeOK, NEW n \in Node
  PROVE  Edges(n) \in Seq(Target)
BY DEF TypeOK, Edges

\* Where the search may go from a node, by its edges.
LEMMA OntoEdges ==
  ASSUME AnalyzerAssumption, TypeOK, NEW n \in Node
  PROVE  /\ \A k \in DOMAIN Edges(n) :
              \/ Edges(n)[k] \in Onto(n)
              \/ Edges(n)[k] = None
              \/ asked = "Validate" /\ Edges(n)[k] \notin Node
         /\ \A v \in Onto(n) : /\ v \in Id /\ v # None
                               /\ \E k \in DOMAIN Edges(n) : Edges(n)[k] = v
                               /\ asked = "Validate" => v \in Node
<1>0. trans[n] \in Seq(Target) /\ esc[n] \in Seq(Target) /\ None \notin Id
  BY DEF TypeOK, AnalyzerAssumption
<1>1. CASE asked = "Analyze"
  <2>1. Edges(n) = trans[n] BY <1>1 DEF Edges
  <2>2. Onto(n) = Targets(n) BY <1>1 DEF Onto
  <2> QED BY <1>0, <1>1, <2>1, <2>2 DEF Targets, Target
<1>2. CASE asked = "Validate"
  <2>1. Edges(n) = trans[n] \o esc[n] BY <1>2 DEF Edges
  <2>2. Joined(trans[n], esc[n], Edges(n)) BY <1>0, <2>1, ConcatElements
  <2>3. Onto(n) = (Targets(n) \cup Escapes(n)) \cap Node BY <1>2 DEF Onto
  <2> QED BY <1>0, <1>2, <2>2, <2>3 DEF Joined, Targets, Escapes, Target, Id
<1> QED BY <1>1, <1>2 DEF TypeOK

\* What the scan stops at is a target of the node.
LEMMA FirstStops ==
  ASSUME TypeOK, NEW u \in Node, NEW v \in First(u)
  PROVE  v \in Node /\ v \in Targets(u) /\ StopsAt(u, v)
<1>1. PICK k \in Hits(u) : v = trans[u][k] BY DEF First
<1>2. k \in DOMAIN trans[u] /\ StopsAt(u, v) BY <1>1 DEF Hits
<1>3. v \in Node BY <1>2 DEF StopsAt
<1> QED BY <1>1, <1>2, <1>3, AnalyzerAssumption DEF Targets, AnalyzerAssumption, Id

-----------------------------------------------------------------------------
(* The initial states. *)

\* Analyze and Validate start with the start node met, and nothing coloured.
LEMMA InitInv == Init => IInv
<1> SUFFICES ASSUME Init PROVE IInv
  OBVIOUS
<1> USE AnalyzerAssumption DEF Init
<1>1. TypeOK
  BY DEF TypeOK, AnalyzerAssumption, Id, Target, Colors
<1>2. ReachInv
  BY <1>1 DEF ReachInv, TypeOK, AnalyzerAssumption, Id, InSeq
<1>3. ColorInv
  BY DEF ColorInv, Black, Loops
<1>4. StackInv /\ CollectInv /\ VerdictInv
  BY DEF StackInv, CollectInv, VerdictInv, AnalyzerAssumption
<1> QED BY <1>1, <1>2, <1>3, <1>4 DEF IInv

-----------------------------------------------------------------------------
(* Types. *)

\* Every step keeps the types; what the path search keeps in its frontier is built
\* with SelectSeq and left to TLC.
LEMMA TypeStep == TypeOK /\ [Next]_vars => TypeOK'
<1> SUFFICES ASSUME TypeOK, [Next]_vars PROVE TypeOK'
  OBVIOUS
<1> USE AnalyzerAssumption DEF AnalyzerAssumption
<1>1. CASE Pop
  <2>1. Head(queue) \in Id /\ Tail(queue) \in Seq(Id) BY <1>1 DEF Pop, TypeOK
  <2> QED BY <1>1, <2>1 DEF Pop, TypeOK, defVars, cycleVars, pathVars
<1>2. CASE Scan
  <2>1. cur \in Node /\ Edges(cur)[at] \in Target
    BY <1>2, EdgesTyped DEF Scan, Scanning, TypeOK
  <2>2. Follows(Edges(cur)[at]) => Edges(cur)[at] \in Id
    BY <2>1 DEF Follows, Target
  <2>3. reachable' \subseteq Id /\ queue' \in Seq(Id)
    <3>1. CASE Follows(Edges(cur)[at])
      <4>1. PICK v \in Id : v = Edges(cur)[at] BY <2>2, <3>1
      <4>2. reachable' = reachable \cup {v} /\ queue' = Append(queue, v)
        BY <1>2, <3>1, <4>1 DEF Scan
      <4> QED BY <4>1, <4>2 DEF TypeOK
    <3>2. CASE ~Follows(Edges(cur)[at]) BY <1>2, <3>2 DEF Scan, TypeOK
    <3> QED BY <3>1, <3>2
  <2>4. at' \in Nat \ {0} /\ UNCHANGED <<defVars, phase, cur, cycleVars, pathVars>>
    BY <1>2 DEF Scan, TypeOK
  <2> QED BY <2>3, <2>4 DEF TypeOK, defVars, cycleVars, pathVars
<1>3. CASE Searched
  BY <1>3 DEF Searched, TypeOK, defVars, reachVars, cycleVars, pathVars
<1>4. CASE Root
  BY <1>4 DEF Root, TypeOK, Colors, defVars, reachVars, pathVars
<1>5. CASE Push
  <2>1. Last(stack) \in Node BY <1>5 DEF Push, Descending, Last, TypeOK
  <2>2. First(Last(stack)) \subseteq Node BY <2>1, FirstStops
  <2> QED BY <1>5, <2>1, <2>2 DEF Push, TypeOK, Colors, defVars, reachVars, pathVars
<1>6. CASE Backtrack
  <2>1. Last(stack) \in Node /\ Front(stack) \in Seq(Node)
    BY <1>6 DEF Backtrack, Descending, Last, Front, TypeOK
  <2> QED BY <1>6, <2>1 DEF Backtrack, TypeOK, Colors, defVars, reachVars, pathVars
<1>7. CASE Found
  <2>1. Last(stack) \in Node BY <1>7 DEF Found, Descending, Last, TypeOK
  <2>2. First(Last(stack)) \subseteq Node BY <2>1, FirstStops
  <2> QED BY <1>7, <2>1, <2>2 DEF Found, TypeOK, defVars, reachVars, pathVars
<1>8. CASE Collect
  <2>1. up \in Node BY <1>8 DEF Collect, TypeOK
  <2> QED BY <1>8, <2>1 DEF Collect, TypeOK, defVars, reachVars, pathVars
<1>9. CASE Collected
  <2>1. ASSUME NEW s \in Seq(Node \cup {None}) PROVE Reverse(s) \in Seq(Node \cup {None})
    BY DEF Reverse
  <2>2. Append(cyc, back) \in Seq(Node \cup {None}) BY DEF TypeOK
  <2>3. cyc' \in Seq(Node \cup {None}) BY <1>9, <2>1, <2>2 DEF Collected
  <2> QED BY <1>9, <2>3 DEF Collected, TypeOK, defVars, reachVars, pathVars
<1>10. CASE NoCycle
  BY <1>10 DEF NoCycle, TypeOK, defVars, reachVars, cycleVars, pathVars
<1>11. CASE Stray \/ Counted \/ Extend \/ TooMany \/ AllPaths
  <2>1. /\ UNCHANGED <<defVars, reachVars, cycleVars>>
        /\ phase' \in {phase, "done"} /\ count' \in {count, count + 1} /\ within' \in BOOLEAN
    BY <1>11 DEF Stray, Counted, Extend, TooMany, AllPaths, TypeOK, pathVars
  <2> QED BY <2>1 DEF TypeOK, defVars, reachVars, cycleVars
<1>12. CASE UNCHANGED vars
  BY <1>12 DEF vars, TypeOK, defVars, reachVars, cycleVars, pathVars
<1> QED BY <1>1, <1>2, <1>3, <1>4, <1>5, <1>6, <1>7, <1>8, <1>9, <1>10, <1>11, <1>12
        DEF Next

-----------------------------------------------------------------------------
(* The breadth-first search. *)

\* What the search is about does not change.
LEMMA DefsFixed ==
  ASSUME TypeOK, [Next]_vars
  PROVE  UNCHANGED defVars
BY DEF Next, vars, Pop, Scan, Searched, Root, Push, Backtrack, Found, Collect, Collected,
       NoCycle, Stray, Counted, Extend, TooMany, AllPaths

\* A step that leaves the search alone, and ends it only when all is followed.
LEMMA ReachFrame ==
  ASSUME ReachInv, UNCHANGED <<defVars, reachVars>>,
         phase' # "reach" => \A n \in reachable \cap Node : EdgesFollowed(n)
  PROVE  ReachInv'
<1>1. UNCHANGED <<trans, esc, asked, reachable, queue, cur, at>> BY DEF defVars, reachVars
<1>2. \A n : EdgesFollowed(n)' <=> EdgesFollowed(n)
  BY <1>1 DEF EdgesFollowed, Edges, Followed
<1>3. \A S : Closed(S)' <=> Closed(S)
  BY <1>1 DEF Closed, Onto, Targets, Escapes
<1>4. (cur # None => /\ cur \in reachable
                     /\ \A k \in DOMAIN Edges(cur) : k < at => Followed(Edges(cur)[k]))'
  BY <1>1 DEF ReachInv, Edges, Followed
<1>5. \A n \in reachable' \cap Node : InSeq(n, queue)' \/ n = cur' \/ EdgesFollowed(n)'
  BY <1>1, <1>2 DEF ReachInv, InSeq
<1> QED BY <1>1, <1>2, <1>3, <1>4, <1>5 DEF ReachInv

\* Scanning adds what a transition names, and nothing else is ever met.
LEMMA ReachStep == AnalyzerAssumption /\ TypeOK /\ ReachInv /\ [Next]_vars => ReachInv'
<1> SUFFICES ASSUME AnalyzerAssumption, TypeOK, ReachInv, [Next]_vars PROVE ReachInv'
  OBVIOUS
<1>0. UNCHANGED defVars BY DefsFixed
<1>1. CASE Pop
  <2>1. /\ Head(queue) = queue[1] /\ 1 \in DOMAIN queue
        /\ DOMAIN queue' = 1..Len(queue) - 1
        /\ \A i \in DOMAIN queue' : i + 1 \in DOMAIN queue /\ queue'[i] = queue[i + 1]
    BY <1>1 DEF Pop, TypeOK
  <2>2. UNCHANGED reachable /\ at' = 1 /\ phase' = phase /\ phase = "reach" BY <1>1 DEF Pop
  <2>3. queue[1] \in reachable BY <2>1 DEF ReachInv
  <2>4. cur' # None => cur' = queue[1] BY <1>1, <2>1 DEF Pop
  <2>5. queue[1] \in Node => cur' = queue[1] BY <1>1, <2>1 DEF Pop
  <2>6. ~Scanning BY <1>1 DEF Pop
  <2>7. \A S \in SUBSET Id : Closed(S)' <=> Closed(S)
    BY <1>0 DEF defVars, Closed, Onto, Targets, Escapes
  <2>8. \A n : EdgesFollowed(n)' <=> EdgesFollowed(n)
    BY <1>0, <2>2 DEF defVars, EdgesFollowed, Edges, Followed
  <2>9. ASSUME NEW n \in reachable \cap Node
        PROVE  InSeq(n, queue') \/ n = cur' \/ EdgesFollowed(n)'
    <3>1. CASE InSeq(n, queue)
      <4>1. PICK i \in DOMAIN queue : queue[i] = n BY <3>1 DEF InSeq
      <4>2. CASE i = 1 BY <2>5, <4>1, <4>2
      <4>3. CASE i # 1
        <5>1. i \in 1..Len(queue) /\ Len(queue) \in Nat BY <4>1 DEF TypeOK
        <5>2. i - 1 \in 1..Len(queue) - 1 /\ (i - 1) + 1 = i BY <4>3, <5>1
        <5>3. i - 1 \in DOMAIN queue' /\ queue'[i - 1] = n BY <2>1, <4>1, <5>2
        <5> QED BY <5>3 DEF InSeq
      <4> QED BY <4>2, <4>3
    <3>2. CASE n = cur
      <4>1. n # None BY DEF AnalyzerAssumption, Id
      <4>2. Edges(n) \in Seq(Target) BY EdgesTyped
      <4>3. \A k \in DOMAIN Edges(n) : k < at
        BY <2>6, <3>2, <4>1, <4>2 DEF Scanning, TypeOK
      <4> QED BY <2>8, <3>2, <4>1, <4>3 DEF ReachInv, EdgesFollowed
    <3>3. CASE EdgesFollowed(n) BY <2>8, <3>3
    <3> QED BY <3>1, <3>2, <3>3 DEF ReachInv
  <2>10. \A i \in DOMAIN queue' : queue'[i] \in reachable' BY <2>1, <2>2 DEF ReachInv
  <2>11. cur' # None => /\ cur' \in reachable'
                        /\ \A k \in DOMAIN Edges(cur)' : k < at' => Followed(Edges(cur)[k])'
    <3>1. cur' # None => Edges(cur)' \in Seq(Target)
      BY <1>0, TypeStep DEF defVars, Edges, TypeOK
    <3> QED BY <2>2, <2>3, <2>4, <3>1
  <2> QED BY <2>2, <2>7, <2>9, <2>10, <2>11 DEF ReachInv
<1>2. CASE Scan
  <2> DEFINE v == Edges(cur)[at]
  <2>1. /\ cur \in Node /\ cur # None /\ at \in DOMAIN Edges(cur) /\ Edges(cur) \in Seq(Target)
        /\ at' = at + 1 /\ UNCHANGED <<phase, cur>> /\ phase = "reach"
    BY <1>2, EdgesTyped DEF Scan, Scanning, TypeOK
  <2>2. Follows(v) => reachable' = reachable \cup {v} /\ queue' = Append(queue, v)
    BY <1>2 DEF Scan
  <2>3. ~Follows(v) => UNCHANGED <<reachable, queue>> BY <1>2 DEF Scan
  <2>4. Follows(v) => v \in Onto(cur) /\ v \in Id
    <3>1. v \in Onto(cur) \/ v = None \/ (asked = "Validate" /\ v \notin Node)
      BY <2>1, OntoEdges
    <3>2. v \in Target BY <2>1
    <3> QED BY <3>1, <3>2 DEF Follows, Target
  <2>5. reachable \subseteq reachable' BY <2>2, <2>3
  <2>6. \A S \in SUBSET Id : Closed(S)' <=> Closed(S)
    BY <1>0 DEF defVars, Closed, Onto, Targets, Escapes
  <2>7. \A S \in SUBSET Id : Start \in S /\ Closed(S)' => reachable' \subseteq S
    <3> SUFFICES ASSUME NEW S \in SUBSET Id, Start \in S, Closed(S) PROVE reachable' \subseteq S
      BY <2>6
    <3>1. reachable \subseteq S BY DEF ReachInv
    <3>2. cur \in S BY <2>1, <3>1 DEF ReachInv
    <3>3. Onto(cur) \subseteq S BY <2>1, <3>2 DEF Closed
    <3> QED BY <2>2, <2>3, <2>4, <3>1, <3>3
  <2>8. \A w : Followed(w) => Followed(w)' BY <1>0, <2>5 DEF Followed, defVars
  <2>9. \A n : Edges(n)' = Edges(n) BY <1>0 DEF defVars, Edges
  <2>10. \A n : EdgesFollowed(n) => EdgesFollowed(n)' BY <2>8, <2>9 DEF EdgesFollowed
  <2>11. \A n : InSeq(n, queue) => InSeq(n, queue')
    <3>1. CASE Follows(v)
      <4>1. PICK w \in Id : w = v BY <2>4, <3>1
      <4>2. queue' = Append(queue, w) BY <2>2, <3>1, <4>1
      <4>3. \A i \in DOMAIN queue : i \in DOMAIN queue' /\ queue'[i] = queue[i]
        BY <4>2 DEF TypeOK
      <4> QED BY <4>3 DEF InSeq
    <3> QED BY <2>3, <3>1
  <2>12. Follows(v) => InSeq(v, queue')
    <3>1. Follows(v) => Len(queue) + 1 \in DOMAIN queue' /\ queue'[Len(queue) + 1] = v
      BY <2>2 DEF TypeOK
    <3> QED BY <3>1 DEF InSeq
  <2>13. \A i \in DOMAIN queue' : queue'[i] \in reachable'
    <3>1. CASE Follows(v)
      <4>1. PICK w \in Id : w = v BY <2>4, <3>1
      <4>2. queue' = Append(queue, w) /\ w \in reachable' BY <2>2, <3>1, <4>1
      <4>3. \A i \in DOMAIN queue' : queue'[i] = w \/ \E j \in DOMAIN queue : queue'[i] = queue[j]
        BY <4>2 DEF TypeOK
      <4>4. \A j \in DOMAIN queue : queue[j] \in reachable' BY <2>5 DEF ReachInv
      <4> QED BY <4>2, <4>3, <4>4
    <3> QED BY <2>3, <3>1 DEF ReachInv
  <2>14. ASSUME NEW w, w = v PROVE Followed(w)'
    BY <1>0, <2>2, <2>5, <2>14 DEF Follows, Followed, defVars
  <2>15. (\A k \in DOMAIN Edges(cur) : k < at => Followed(Edges(cur)[k]))'
    <3>1. Edges(cur)' = Edges(cur) BY <1>0, <2>1 DEF defVars, Edges
    <3>2. ASSUME NEW k \in DOMAIN Edges(cur), k < at + 1, NEW w, w = Edges(cur)[k]
          PROVE  Followed(w)'
      <4>1. CASE k = at BY <2>14, <3>2, <4>1
      <4>2. CASE k # at
        <5>1. k < at BY <2>1, <3>2, <4>2 DEF TypeOK
        <5>2. Followed(w) BY <2>1, <3>2, <5>1 DEF ReachInv
        <5> QED BY <2>8, <5>2
      <4> QED BY <4>1, <4>2
    <3>3. \A k \in DOMAIN Edges(cur) : k < at + 1 =>
            \A w : w = Edges(cur)[k] => Followed(w)'
      BY <3>2
    <3> QED BY <2>1, <3>1, <3>3 DEF Followed
  <2>16. \A n \in reachable' \cap Node : InSeq(n, queue') \/ n = cur \/ EdgesFollowed(n)'
    BY <2>2, <2>3, <2>10, <2>11, <2>12 DEF ReachInv
  <2>17. Start \in reachable' /\ cur' \in reachable' /\ phase' = "reach"
    BY <2>1, <2>5 DEF ReachInv
  <2> QED BY <2>1, <2>7, <2>13, <2>15, <2>16, <2>17 DEF ReachInv
<1>3. CASE Searched
  <2>1. \A n \in reachable \cap Node : EdgesFollowed(n)
    <3> SUFFICES ASSUME NEW n \in reachable \cap Node PROVE EdgesFollowed(n)
      OBVIOUS
    <3>1. ~InSeq(n, queue) BY <1>3 DEF Searched, InSeq
    <3>2. CASE n = cur
      <4>1. n # None BY DEF AnalyzerAssumption, Id
      <4>2. Edges(n) \in Seq(Target) BY EdgesTyped
      <4>3. \A k \in DOMAIN Edges(n) : k < at
        BY <1>3, <3>2, <4>1, <4>2 DEF Searched, Scanning, TypeOK
      <4> QED BY <3>2, <4>1, <4>3 DEF ReachInv, EdgesFollowed
    <3> QED BY <3>1, <3>2 DEF ReachInv
  <2>2. UNCHANGED <<defVars, reachVars>> BY <1>3 DEF Searched
  <2> QED BY <2>1, <2>2, ReachFrame
<1>4. CASE Root \/ Push \/ Backtrack \/ Found \/ Collect \/ Collected \/ NoCycle
  <2>1. UNCHANGED <<defVars, reachVars>> /\ phase # "reach"
    BY <1>4 DEF Root, Push, Backtrack, Found, Collect, Collected, NoCycle, Descending
  <2> QED BY <2>1, ReachFrame DEF ReachInv
<1>5. CASE Stray \/ Counted \/ Extend \/ TooMany \/ AllPaths
  <2>1. UNCHANGED <<defVars, reachVars>> /\ phase # "reach"
    BY <1>5 DEF Stray, Counted, Extend, TooMany, AllPaths, Extending
  <2> QED BY <2>1, ReachFrame DEF ReachInv
<1>6. CASE UNCHANGED vars
  <2>1. UNCHANGED <<defVars, reachVars, phase>> BY <1>6 DEF vars
  <2> QED BY <2>1, ReachFrame DEF ReachInv
<1> QED BY <1>1, <1>2, <1>3, <1>4, <1>5, <1>6 DEF Next

-----------------------------------------------------------------------------
(* The colouring. *)

\* A step that leaves colours and stack alone.
LEMMA ColorFrame ==
  ASSUME ColorInv, StackInv, UNCHANGED <<defVars, color, parent, stack>>,
         phase' = "reach" => phase = "reach"
  PROVE  ColorInv' /\ StackInv'
<1>1. UNCHANGED <<trans, color, parent, stack>> BY DEF defVars
<1>2. \A S : Loops(S)' <=> Loops(S) BY <1>1 DEF Loops, Targets
<1>3. Black' = Black /\ \A n : Targets(n)' = Targets(n) BY <1>1 DEF Black, Targets
<1>4. ColorInv' BY <1>1, <1>2, <1>3 DEF ColorInv, InSeq
<1>5. StackInv' BY <1>1, <1>3 DEF StackInv
<1> QED BY <1>4, <1>5

\* The top of the stack.
LEMMA LastOnStack ==
  ASSUME NEW s \in Seq(Node), s # <<>>
  PROVE  /\ Len(s) \in DOMAIN s /\ s[Len(s)] = Last(s) /\ Last(s) \in Node
         /\ Front(s) \in Seq(Node) /\ Len(Front(s)) = Len(s) - 1
         /\ \A i \in 1..Len(s) - 1 : Front(s)[i] = s[i]
<1>1. Len(s) \in Nat \ {0} /\ DOMAIN s = 1..Len(s) OBVIOUS
<1>2. 1 \in 1..Len(s) + 1 /\ Len(s) - 1 \in 0..Len(s) /\ Len(s) - 1 >= 1 - 1 BY <1>1
<1>3. /\ Front(s) \in Seq(Node) /\ Len(Front(s)) = Len(s) - 1
      /\ \A i \in 1..Len(s) - 1 : Front(s)[i] = s[i]
  BY <1>1, <1>2 DEF Front
<1>4. Len(s) \in DOMAIN s /\ s[Len(s)] \in Node BY <1>1
<1> QED BY <1>3, <1>4 DEF Last

\* A white node is pushed, as a root or onto the node that leads to it.
LEMMA Pushing ==
  ASSUME TypeOK, ColorInv, StackInv, NEW v \in Node, color[v] = "white",
         UNCHANGED defVars, phase' = "cycle",
         color' = [color EXCEPT ![v] = "gray"],
         stack' = Append(stack, v),
         stack # <<>> => /\ v \in Targets(Last(stack))
                         /\ parent' = [parent EXCEPT ![v] = Last(stack)],
         stack = <<>> => parent' = parent
  PROVE  ColorInv' /\ StackInv'
<1>1. UNCHANGED trans BY DEF defVars
<1>2. \A n : Targets(n)' = Targets(n) BY <1>1 DEF Targets
<1>3. Black' = Black BY DEF Black, TypeOK
<1>4. \A S : Loops(S)' <=> Loops(S) BY <1>2 DEF Loops
<1>0. Len(stack') = Len(stack) + 1 BY DEF TypeOK
<1>5. /\ Len(stack) \in Nat /\ DOMAIN stack = 1..Len(stack)
      /\ DOMAIN stack' = 1..Len(stack) + 1
      /\ stack'[Len(stack) + 1] = v
      /\ \A i \in 1..Len(stack) : stack'[i] = stack[i] /\ stack[i] \in Node
  BY DEF TypeOK
<1>6. \A i \in 1..Len(stack) : stack[i] # v BY <1>5 DEF StackInv
<1>7. ASSUME NEW n \in Node, color'[n] = "gray" PROVE InSeq(n, stack')
  <2>1. CASE n = v BY <1>5, <2>1 DEF InSeq
  <2>2. CASE n # v
    <3>1. InSeq(n, stack) BY <1>7, <2>2 DEF TypeOK, ColorInv
    <3>2. PICK i \in 1..Len(stack) : stack[i] = n BY <1>5, <3>1 DEF InSeq
    <3>3. i \in DOMAIN stack' /\ stack'[i] = n BY <1>5, <3>2
    <3> QED BY <3>3 DEF InSeq
  <2> QED BY <2>1, <2>2
<1>8. ColorInv' BY <1>2, <1>3, <1>4, <1>7 DEF ColorInv
<1>9. \A i \in DOMAIN stack' : color'[stack'[i]] = "gray"
  BY <1>5, <1>6 DEF StackInv, TypeOK
<1>10. \A i, j \in DOMAIN stack' : stack'[i] = stack'[j] => i = j
  BY <1>5, <1>6 DEF StackInv
<1>11. ASSUME NEW i \in 1..Len(stack') - 1
       PROVE  (parent[stack[i + 1]] = stack[i] /\ stack[i + 1] \in Targets(stack[i]))'
  <2> SUFFICES parent'[stack'[i + 1]] = stack'[i] /\ stack'[i + 1] \in Targets(stack'[i])
    BY <1>1 DEF Targets
  <2>0. Len(stack) \in Nat BY <1>5
  <2>1. i \in 1..Len(stack) BY ONLY <1>0, <2>0, i \in 1..Len(stack') - 1
  <2>2. CASE i = Len(stack)
    <3>1. stack # <<>> /\ Last(stack) = stack[i] BY <1>5, <2>1, <2>2 DEF Last
    <3>2. parent'[v] = stack[i] /\ v \in Targets(stack[i]) BY <3>1 DEF TypeOK
    <3> QED BY <1>5, <2>1, <2>2, <3>2
  <2>3. CASE i # Len(stack)
    <3>1. i \in 1..Len(stack) - 1 /\ i + 1 \in 1..Len(stack)
      BY ONLY <2>0, <2>1, <2>3
    <3>2. parent[stack[i + 1]] = stack[i] /\ stack[i + 1] \in Targets(stack[i])
      BY <3>1 DEF StackInv
    <3>3. stack[i + 1] # v /\ stack[i + 1] \in Node BY <1>5, <1>6, <3>1
    <3>4. stack # <<>> BY <1>5, <2>1
    <3>5. parent'[stack[i + 1]] = parent[stack[i + 1]] BY <3>3, <3>4 DEF TypeOK
    <3> QED BY <1>5, <2>1, <3>1, <3>2, <3>5
  <2> QED BY <2>2, <2>3
<1>12. StackInv' BY <1>9, <1>10, <1>11 DEF StackInv
<1> QED BY <1>8, <1>12

\* The top of the stack, which leads to nothing new, turns black.
LEMMA Popping ==
  ASSUME AnalyzerAssumption, TypeOK, ColorInv, StackInv, Backtrack
  PROVE  ColorInv' /\ StackInv'
<1> DEFINE u == Last(stack)
<1>1. /\ u \in Node /\ Len(stack) \in DOMAIN stack /\ stack[Len(stack)] = u
      /\ stack' \in Seq(Node) /\ Len(stack') = Len(stack) - 1
      /\ \A i \in 1..Len(stack) - 1 : stack'[i] = stack[i]
  BY LastOnStack DEF Backtrack, Descending, TypeOK
<1>2. /\ UNCHANGED <<trans, parent>> /\ phase' = "cycle" /\ Hits(u) = {}
      /\ color' = [color EXCEPT ![u] = "black"]
  BY DEF Backtrack, Descending, defVars
<1>3. \A n : Targets(n)' = Targets(n) BY <1>2 DEF Targets
<1>4. color[u] = "gray" BY <1>1 DEF StackInv
<1>5. Black' = Black \cup {u} /\ u \notin Black BY <1>1, <1>2, <1>4 DEF Black, TypeOK
<1>6. \A v \in Targets(u) \cap Node : v \in Black \/ v = u
  <2> SUFFICES ASSUME NEW v \in Targets(u) \cap Node PROVE v \in Black \/ v = u
    OBVIOUS
  <2>1. PICK k \in DOMAIN trans[u] : trans[u][k] = v BY DEF Targets
  <2>2. ~StopsAt(u, v) BY <1>2, <2>1 DEF Hits
  <2>3. color[v] \in Colors BY DEF TypeOK
  <2> QED BY <2>2, <2>3 DEF StopsAt, Colors, Black
<1>7. \A n \in Black' : \A v \in Targets(n)' \cap Node : v \in Black' \/ v = n
  BY <1>3, <1>5, <1>6 DEF ColorInv
<1>8. ASSUME NEW S \in SUBSET Black', Loops(S)' PROVE S = {}
  <2>1. Loops(S) BY <1>3, <1>8 DEF Loops
  <2>2. CASE u \notin S
    <3>1. S \in SUBSET Black BY <1>5, <2>2
    <3> QED BY <2>1, <3>1 DEF ColorInv
  <2>3. CASE u \in S
    <3> DEFINE T == S \ {u}
    <3>1. T \in SUBSET Black BY <1>5
    <3>2. \A n \in T : u \notin Targets(n)
      BY <1>1, <1>5, <3>1 DEF ColorInv
    <3>3. Loops(T) BY <2>1, <3>2 DEF Loops
    <3>4. T = {} BY <3>1, <3>3 DEF ColorInv
    <3>5. S = {u} BY <2>3, <3>4
    <3> QED BY <2>1, <3>5 DEF Loops
  <2> QED BY <2>2, <2>3
<1>9. /\ Len(stack) \in Nat \ {0} /\ DOMAIN stack = 1..Len(stack)
      /\ DOMAIN stack' = 1..Len(stack) - 1
  <2>1. Len(stack) \in Nat \ {0} /\ DOMAIN stack = 1..Len(stack) BY <1>1 DEF TypeOK
  <2>2. DOMAIN stack' = 1..Len(stack') BY <1>1
  <2> QED BY <1>1, <2>1, <2>2
<1>10. ASSUME NEW n \in Node, color'[n] = "gray" PROVE InSeq(n, stack')
  <2>1. n # u /\ color[n] = "gray" BY <1>1, <1>2, <1>10 DEF TypeOK
  <2>2. PICK i \in DOMAIN stack : stack[i] = n BY <2>1 DEF ColorInv, InSeq
  <2>3. i # Len(stack) BY <1>1, <2>1, <2>2
  <2>4. i \in 1..Len(stack) - 1 BY <1>9, <2>2, <2>3
  <2>5. i \in DOMAIN stack' /\ stack'[i] = n BY <1>1, <1>9, <2>2, <2>4
  <2> QED BY <2>5 DEF InSeq
<1>11. ColorInv'
  BY <1>2, <1>7, <1>8, <1>10 DEF ColorInv
<1>12. \A i \in DOMAIN stack' : color'[stack'[i]] = "gray"
  <2> SUFFICES ASSUME NEW i \in DOMAIN stack' PROVE color'[stack'[i]] = "gray"
    OBVIOUS
  <2>1. i \in DOMAIN stack /\ i # Len(stack) /\ stack'[i] = stack[i] BY <1>1, <1>9
  <2>2. stack[i] # u /\ color[stack[i]] = "gray" BY <1>1, <2>1 DEF StackInv
  <2>3. stack[i] \in Node BY <2>1 DEF TypeOK
  <2> QED BY <1>2, <2>1, <2>2, <2>3 DEF TypeOK
<1>13. \A i, j \in DOMAIN stack' : stack'[i] = stack'[j] => i = j
  BY <1>1, <1>9 DEF StackInv
<1>14. \A i \in 1..Len(stack') - 1 :
         (parent[stack[i + 1]] = stack[i] /\ stack[i + 1] \in Targets(stack[i]))'
  <2> SUFFICES ASSUME NEW i \in 1..Len(stack') - 1
               PROVE parent'[stack'[i + 1]] = stack'[i] /\ stack'[i + 1] \in Targets(stack'[i])
    BY <1>2 DEF Targets
  <2>0. Len(stack') = Len(stack) - 1 /\ Len(stack) \in Nat \ {0} BY <1>1, <1>9
  <2>1. i \in 1..Len(stack) - 1 /\ i + 1 \in 1..Len(stack) - 1 BY ONLY <2>0, i \in 1..Len(stack') - 1
  <2>2. stack'[i] = stack[i] /\ stack'[i + 1] = stack[i + 1] BY <1>1, <2>1
  <2>3. parent[stack[i + 1]] = stack[i] /\ stack[i + 1] \in Targets(stack[i])
    BY <2>1 DEF StackInv
  <2> QED BY <1>2, <2>2, <2>3
<1>15. StackInv' BY <1>12, <1>13, <1>14 DEF StackInv
<1> QED BY <1>11, <1>15

\* Colouring keeps the gray nodes a chain of parents from the root down.
LEMMA ColorStep ==
  AnalyzerAssumption /\ TypeOK /\ ColorInv /\ StackInv /\ [Next]_vars => ColorInv' /\ StackInv'
<1> SUFFICES ASSUME AnalyzerAssumption, TypeOK, ColorInv, StackInv, [Next]_vars
             PROVE  ColorInv' /\ StackInv'
  OBVIOUS
<1>0. UNCHANGED defVars BY DefsFixed
<1>1. CASE Root
  <2>1. PICK n \in Node : /\ color[n] = "white" /\ stack' = <<n>>
                          /\ color' = [color EXCEPT ![n] = "gray"]
    BY <1>1 DEF Root
  <2>2. stack = <<>> /\ stack' = Append(stack, n) /\ phase' = "cycle" /\ parent' = parent
    BY <1>1, <2>1 DEF Root
  <2> QED BY <1>0, <2>1, <2>2, Pushing
<1>2. CASE Push
  <2>1. stack # <<>> /\ Last(stack) \in Node
    BY <1>2, LastOnStack DEF Push, Descending, TypeOK
  <2>2. PICK v \in First(Last(stack)) :
          /\ color[v] = "white" /\ color' = [color EXCEPT ![v] = "gray"]
          /\ parent' = [parent EXCEPT ![v] = Last(stack)] /\ stack' = Append(stack, v)
    BY <1>2 DEF Push
  <2>3. v \in Node /\ v \in Targets(Last(stack)) BY <2>1, FirstStops
  <2>4. phase' = "cycle" BY <1>2 DEF Push, Descending
  <2> QED BY <1>0, <2>1, <2>2, <2>3, <2>4, Pushing
<1>3. CASE Backtrack BY <1>3, Popping
<1>4. CASE Pop \/ Scan \/ Searched
  BY <1>0, <1>4, ColorFrame DEF Pop, Scan, Searched, cycleVars
<1>5. CASE Found \/ Collect \/ Collected \/ NoCycle
  BY <1>0, <1>5, ColorFrame DEF Found, Collect, Collected, NoCycle, Descending, cycleVars
<1>6. CASE Stray \/ Counted \/ Extend \/ TooMany \/ AllPaths
  BY <1>0, <1>6, ColorFrame DEF Stray, Counted, Extend, TooMany, AllPaths, Extending, cycleVars
<1>7. CASE UNCHANGED vars
  BY <1>0, <1>7, ColorFrame DEF vars, cycleVars
<1> QED BY <1>1, <1>2, <1>3, <1>4, <1>5, <1>6, <1>7 DEF Next

-----------------------------------------------------------------------------
(* The collection of a cycle. *)

\* A back edge starts the collection at the top of the chain of parents.
LEMMA FoundCollects ==
  ASSUME TypeOK, ColorInv, Found
  PROVE  CollectInv'
<1> DEFINE u == Last(stack)
<1>1. u \in Node /\ stack # <<>> /\ UNCHANGED <<trans, stack>>
  BY LastOnStack DEF Found, Descending, TypeOK, defVars
<1>2. PICK v \in First(u) : color[v] # "white" /\ cyc' = <<v, u>> /\ back' = v /\ up' = u
  BY DEF Found
<1>3. v \in Node /\ v \in Targets(u) /\ StopsAt(u, v) BY <1>1, FirstStops
<1>4. color[v] = "gray" /\ v # u BY <1>2, <1>3 DEF StopsAt
<1>5. PICK b \in DOMAIN stack : stack[b] = v BY <1>3, <1>4 DEF ColorInv, InSeq
<1>6. Len(cyc') = 2 /\ cyc'[1] = v /\ cyc'[2] = u BY <1>2
<1>7. /\ Len(stack) \in Nat \ {0} /\ b \in 1..Len(stack) + 2 - Len(cyc')
      /\ Len(stack) + 2 - Len(cyc') = Len(stack)
  <2>1. Len(stack) \in Nat \ {0} /\ b \in 1..Len(stack) BY <1>1, <1>5 DEF TypeOK
  <2>2. Len(stack) + 2 - Len(cyc') = Len(stack) BY <1>6, <2>1
  <2> QED BY <2>1, <2>2
<1>8. (back \in Targets(Last(stack)))' BY <1>1, <1>2, <1>3 DEF Targets, Last
<1>9. up' = stack'[Len(stack') + 2 - Len(cyc')] BY <1>1, <1>2, <1>7 DEF Last
<1>10. \E c \in 1..Len(stack') + 2 - Len(cyc') : stack'[c] = back'
  BY <1>1, <1>2, <1>5, <1>7
<1>11. Last(stack)' = u BY <1>1 DEF Last
<1> QED BY <1>1, <1>2, <1>4, <1>6, <1>7, <1>8, <1>9, <1>10, <1>11 DEF CollectInv

\* The collection climbs the chain of parents by one node.
LEMMA CollectCollects ==
  ASSUME AnalyzerAssumption, TypeOK, StackInv, CollectInv, Collect
  PROVE  CollectInv'
<1>a. PICK L \in Nat : L = Len(cyc) BY DEF TypeOK
<1>b. PICK M \in Nat : M = Len(stack) BY DEF TypeOK
<1> DEFINE j == M + 2 - L
<1>1. /\ phase = "collect" /\ up # back /\ up \in Node
      /\ UNCHANGED <<trans, stack, back, parent, phase>>
      /\ cyc' = Append(cyc, up) /\ up' = parent[up]
  BY DEF Collect, defVars, TypeOK
<1>2. /\ L >= 2 /\ L <= M + 1
      /\ up = stack[j] /\ cyc[1] = back /\ cyc[2] = Last(stack)
      /\ back \in Targets(Last(stack)) /\ back # Last(stack)
      /\ L >= 3 => cyc[3] = cyc[2] /\ cyc[L] \in Targets(up)
      /\ \A i \in 3..L - 1 : cyc[i] \in Targets(cyc[i + 1])
  BY <1>a, <1>b, <1>1 DEF CollectInv
<1>3. PICK b \in 1..j : stack[b] = back BY <1>a, <1>b, <1>1 DEF CollectInv
<1>4. b # j BY <1>1, <1>2, <1>3
<1>5. /\ j - 1 \in 1..M - 1 /\ (j - 1) + 1 = j /\ b \in 1..j - 1
      /\ L + 1 <= M + 1 /\ j - 1 = M + 2 - (L + 1)
  BY <1>2, <1>3, <1>4
<1>6. up' = stack[j - 1] /\ up \in Targets(stack[j - 1])
  BY <1>b, <1>1, <1>2, <1>5 DEF StackInv
<1>7. /\ Len(cyc') = L + 1 /\ cyc'[L + 1] = up
      /\ \A i \in 1..L : cyc'[i] = cyc[i]
  BY <1>a, <1>1 DEF TypeOK
<1>8. /\ Len(cyc') >= 2 /\ Len(stack) >= 1 /\ cyc'[1] = back /\ cyc'[2] = Last(stack)
      /\ Len(cyc') <= Len(stack) + 1
  <2>1. 1 \in 1..L /\ 2 \in 1..L /\ M >= 1 /\ L + 1 >= 2 BY <1>2
  <2>2. cyc'[1] = cyc[1] /\ cyc'[2] = cyc[2] BY <1>7, <2>1
  <2> QED BY <1>b, <1>2, <1>5, <1>7, <2>1, <2>2
<1>9. cyc'[3] = cyc'[2]
  <2>1. CASE L = 2
    <3>1. j = M BY <1>2, <2>1
    <3>2. up = Last(stack) BY <1>b, <1>2, <3>1 DEF Last
    <3> QED BY <1>2, <1>7, <2>1, <3>2
  <2>2. CASE L # 2
    <3>1. L >= 3 BY <1>2, <2>2
    <3> QED BY <1>2, <1>7, <3>1
  <2> QED BY <2>1, <2>2
<1>10. ASSUME NEW i \in 3..L PROVE cyc'[i] \in Targets(cyc'[i + 1])
  <2>1. CASE i = L
    <3>1. L >= 3 /\ cyc'[i] = cyc[L] /\ cyc'[i + 1] = up BY <1>2, <1>7, <1>10, <2>1
    <3> QED BY <1>2, <3>1
  <2>2. CASE i # L
    <3>1. i \in 3..L - 1 /\ i \in 1..L /\ i + 1 \in 1..L BY <1>2, <1>10, <2>2
    <3> QED BY <1>2, <1>7, <3>1
  <2> QED BY <2>1, <2>2
<1>11. /\ (Len(cyc) >= 3 => cyc[3] = cyc[2] /\ cyc[Len(cyc)] \in Targets(up))'
       /\ (\A i \in 3..Len(cyc) - 1 : cyc[i] \in Targets(cyc[i + 1]))'
  <2>1. Len(cyc') - 1 = L BY <1>2, <1>7
  <2>2. cyc'[Len(cyc')] \in Targets(up') BY <1>6, <1>7
  <2>3. \A x : Targets(x)' = Targets(x) BY <1>1 DEF Targets
  <2>4. cyc'[Len(cyc')] \in Targets(up)' BY <1>1, <2>2 DEF Targets
  <2>5. (\A i \in 3..Len(cyc) - 1 : cyc[i] \in Targets(cyc[i + 1]))'
    <3> SUFFICES ASSUME NEW i \in 3..Len(cyc') - 1 PROVE (cyc[i] \in Targets(cyc[i + 1]))'
      OBVIOUS
    <3>1. cyc'[i] \in Targets(cyc'[i + 1]) BY <1>10, <2>1
    <3> QED BY <1>1, <3>1 DEF Targets
  <2> QED BY <1>9, <2>4, <2>5
<1>12. up' = stack'[Len(stack') + 2 - Len(cyc')] BY <1>b, <1>1, <1>5, <1>6, <1>7
<1>13. \E c \in 1..Len(stack') + 2 - Len(cyc') : stack'[c] = back'
  <2>1. b \in 1..Len(stack') + 2 - Len(cyc') /\ stack'[b] = back'
    BY <1>b, <1>1, <1>3, <1>5, <1>7
  <2> QED BY <2>1
<1>14. (back \in Targets(Last(stack)) /\ back # Last(stack) /\ cyc[2] = Last(stack))'
  BY <1>1, <1>2, <1>8 DEF Targets, Last
<1> QED BY <1>1, <1>8, <1>11, <1>12, <1>13, <1>14 DEF CollectInv

\* CollectInv speaks of these variables only.
LEMMA CollectKept ==
  ASSUME CollectInv, UNCHANGED <<trans, phase, stack, cyc, back, up>> PROVE CollectInv'
<1>1. phase' = phase /\ stack' = stack /\ cyc' = cyc /\ back' = back /\ up' = up /\ trans' = trans
  OBVIOUS
<1>2. Last(stack)' = Last(stack) BY <1>1 DEF Last
<1>3. Targets(Last(stack))' = Targets(Last(stack)) BY <1>1, <1>2 DEF Targets
<1>4. Targets(up)' = Targets(up) BY <1>1 DEF Targets
<1>5. \A i : Targets(cyc[i])' = Targets(cyc[i]) BY <1>1 DEF Targets
<1> QED BY <1>1, <1>2, <1>3, <1>4, <1>5 DEF CollectInv

\* What is collected is the upper end of the chain, in every step.
LEMMA CollectStep ==
  /\ AnalyzerAssumption /\ TypeOK /\ ColorInv /\ StackInv /\ CollectInv /\ [Next]_vars
  => CollectInv'
<1> SUFFICES ASSUME AnalyzerAssumption, TypeOK, ColorInv, StackInv, CollectInv, [Next]_vars
             PROVE  CollectInv'
  OBVIOUS
<1>1. CASE Found BY <1>1, FoundCollects
<1>2. CASE Collect BY <1>2, CollectCollects
<1>3. CASE Pop \/ Scan \/ Searched \/ Root \/ Push \/ Backtrack \/ Collected \/ NoCycle
  <2>1. phase' # "collect"
    BY <1>3 DEF Pop, Scan, Searched, Root, Push, Backtrack, Collected, NoCycle, Descending
  <2> QED BY <2>1 DEF CollectInv
<1>4. CASE Stray \/ Counted \/ Extend \/ TooMany \/ AllPaths
  <2>1. phase' # "collect"
    BY <1>4 DEF Stray, Counted, Extend, TooMany, AllPaths, Extending
  <2> QED BY <2>1 DEF CollectInv
<1>5. CASE UNCHANGED vars
  <2>1. UNCHANGED <<trans, phase, stack, cyc, back, up>> BY <1>5 DEF vars, defVars, cycleVars
  <2> QED BY <2>1, CollectKept
<1> QED BY <1>1, <1>2, <1>3, <1>4, <1>5 DEF Next

-----------------------------------------------------------------------------
(* The verdict. *)

\* Reversed, a finished collection is a cycle of the definition.
LEMMA CollectedIsReal ==
  ASSUME AnalyzerAssumption, TypeOK, StackInv, CollectInv, Collected
  PROVE  CycleReal'
<1>0. [Next]_vars BY DEF Next
<1>a. PICK L \in Nat : L = Len(cyc) BY DEF TypeOK
<1>b. PICK M \in Nat : M = Len(stack) BY DEF TypeOK
<1> DEFINE c == Append(cyc, back)
<1>1. /\ phase = "collect" /\ UNCHANGED <<trans, stack>> /\ cyc' = Reverse(c)
      /\ up = back \/ up = None
  BY DEF Collected, defVars
<1>2. /\ L >= 2 /\ L <= M + 1
      /\ up = stack[M + 2 - L] /\ cyc[1] = back /\ cyc[2] = Last(stack)
      /\ back \in Targets(Last(stack)) /\ back # Last(stack)
      /\ L >= 3 => cyc[3] = cyc[2] /\ cyc[L] \in Targets(up)
      /\ \A i \in 3..L - 1 : cyc[i] \in Targets(cyc[i + 1])
  BY <1>a, <1>b, <1>1 DEF CollectInv
<1>3. up \in Node
  <2>1. M + 2 - L \in 1..M BY <1>2
  <2> QED BY <1>b, <1>2, <2>1 DEF TypeOK
<1>4. up = back BY <1>1, <1>3 DEF AnalyzerAssumption, Id
<1>5. L >= 3
  <2> SUFFICES ASSUME L = 2 PROVE FALSE
    <3>1. L >= 2 BY <1>2
    <3> QED BY <3>1
  <2>1. M + 2 - L = M BY L = 2
  <2> QED BY <1>b, <1>2, <1>4, <2>1 DEF Last
<1>6. /\ Len(c) = L + 1 /\ c[L + 1] = back
      /\ \A i \in 1..L : c[i] = cyc[i]
  BY <1>a DEF TypeOK
<1>7. /\ Len(cyc') = L + 1
      /\ \A i \in 1..L + 1 : cyc'[i] = c[L + 2 - i]
  <2>1. cyc' = [i \in 1..L + 1 |-> c[L + 2 - i]]
    <3>1. (L + 1) + 1 = L + 2 OBVIOUS
    <3> QED BY <1>1, <1>6, <3>1 DEF Reverse
  <2>2. cyc' \in Seq(Node \cup {None})
    <3>1. TypeOK' BY <1>0, TypeStep
    <3> QED BY <3>1 DEF TypeOK
  <2>3. DOMAIN cyc' = 1..L + 1 /\ DOMAIN cyc' = 1..Len(cyc') /\ Len(cyc') \in Nat
    BY <2>1, <2>2
  <2>4. Len(cyc') = L + 1 BY ONLY <2>3, L \in Nat
  <2> QED BY <2>1, <2>4
<1>8. \A i \in 3..L : c[i] \in Targets(c[i + 1])
  <2> SUFFICES ASSUME NEW i \in 3..L PROVE c[i] \in Targets(c[i + 1])
    OBVIOUS
  <2>1. CASE i = L BY <1>2, <1>4, <1>5, <1>6, <2>1
  <2>2. CASE i # L
    <3>1. i \in 3..L - 1 /\ i \in 1..L /\ i + 1 \in 1..L BY <1>2, <2>2
    <3> QED BY <1>2, <1>6, <3>1
  <2> QED BY <2>1, <2>2
<1>9. c[1] \in Targets(c[2]) /\ c[2] = c[3] BY <1>2, <1>5, <1>6
<1> HIDE DEF c
<1>10. Len(cyc') > 3 /\ cyc'[1] = cyc'[Len(cyc')]
  <2>1. cyc'[1] = c[L + 1] /\ cyc'[L + 1] = c[1]
    <3>1. 1 \in 1..L + 1 /\ L + 1 \in 1..L + 1 /\ L + 2 - 1 = L + 1 /\ L + 2 - (L + 1) = 1
      OBVIOUS
    <3> QED BY <1>7, <3>1
  <2> QED BY <1>2, <1>5, <1>6, <1>7, <2>1
<1>11. ASSUME NEW i \in 1..L
       PROVE  cyc'[i + 1] \in Targets(cyc'[i]) \/ (i = L - 1 /\ cyc'[i + 1] = cyc'[i])
  <2>1. PICK k \in 1..L : /\ k = L + 1 - i /\ L + 2 - i = k + 1 /\ L + 2 - (i + 1) = k
                          /\ i \in 1..L + 1 /\ i + 1 \in 1..L + 1
    <3>1. /\ L + 1 - i \in 1..L /\ L + 2 - i = (L + 1 - i) + 1 /\ L + 2 - (i + 1) = L + 1 - i
          /\ i \in 1..L + 1 /\ i + 1 \in 1..L + 1
      BY ONLY L \in Nat, i \in 1..L
    <3> QED BY <3>1
  <2>2. cyc'[i] = c[k + 1] /\ cyc'[i + 1] = c[k] BY <1>7, <2>1
  <2>3. CASE k = 1 BY <1>9, <2>2, <2>3
  <2>4. CASE k = 2
    <3>1. i = L - 1 BY ONLY L \in Nat, i \in 1..L, <2>1, <2>4
    <3> QED BY <1>9, <2>2, <2>4, <3>1
  <2>5. CASE k # 1 /\ k # 2
    <3>1. k \in 3..L BY <1>2, <2>1, <2>5
    <3> QED BY <1>8, <2>2, <3>1
  <2> QED BY <2>3, <2>4, <2>5
<1>12. (\A i \in 1..Len(cyc) - 1 :
          cyc[i + 1] \in Targets(cyc[i]) \/ (i = Len(cyc) - 2 /\ cyc[i + 1] = cyc[i]))'
  <2>1. Len(cyc') - 1 = L /\ Len(cyc') - 2 = L - 1 BY <1>2, <1>7
  <2> QED BY <1>1, <1>11, <2>1 DEF Targets
<1> QED BY <1>10, <1>12 DEF CycleReal

\* detectCycleFirst returns a cycle that is one, or none when all is black.
LEMMA VerdictStep ==
  /\ AnalyzerAssumption /\ TypeOK /\ ColorInv /\ StackInv /\ CollectInv /\ VerdictInv
  /\ [Next]_vars
  => VerdictInv'
<1> SUFFICES ASSUME AnalyzerAssumption, TypeOK, ColorInv, StackInv, CollectInv, VerdictInv,
                    [Next]_vars
             PROVE  VerdictInv'
  OBVIOUS
<1>0. UNCHANGED <<trans, asked>> BY DefsFixed DEF defVars
<1>1. CASE Pop \/ Scan \/ Searched
  BY <1>0, <1>1 DEF Pop, Scan, Searched, VerdictInv, cycleVars, TypeOK
<1>2. CASE Root \/ Push \/ Backtrack \/ Found \/ Collect
  BY <1>0, <1>2 DEF Root, Push, Backtrack, Found, Collect, Descending, VerdictInv
<1>3. CASE Collected
  <2>1. CycleReal' BY <1>3, CollectedIsReal
  <2>2. cyc' # <<>> BY <2>1 DEF CycleReal
  <2>3. phase = "collect" /\ phase' = "paths" /\ asked' # "Validate"
    BY <1>0, <1>3 DEF Collected, VerdictInv
  <2> QED BY <2>1, <2>2, <2>3 DEF VerdictInv
<1>4. CASE NoCycle
  <2>1. /\ stack = <<>> /\ \A n \in Node : color[n] # "white" /\ UNCHANGED <<color, cyc>>
        /\ phase = "cycle" /\ phase' = "paths"
    BY <1>4 DEF NoCycle, cycleVars
  <2>2. \A n \in Node : color[n] \in Colors /\ color[n] # "gray"
    BY <2>1 DEF ColorInv, InSeq, TypeOK
  <2>3. \A n \in Node : color[n] = "black" BY <2>1, <2>2 DEF Colors
  <2> QED BY <1>0, <2>1, <2>3 DEF VerdictInv
<1>5. CASE Stray \/ Counted \/ Extend \/ TooMany \/ AllPaths
  <2>1. UNCHANGED <<color, cyc>> /\ phase = "paths" /\ phase' \in {"paths", "done"}
    BY <1>5 DEF Stray, Counted, Extend, TooMany, AllPaths, Extending, cycleVars
  <2>2. CycleReal' <=> CycleReal BY <1>0, <2>1 DEF CycleReal, Targets
  <2> QED BY <1>0, <2>1, <2>2 DEF VerdictInv
<1>6. CASE UNCHANGED vars
  <2>1. UNCHANGED <<color, cyc, phase>> BY <1>6 DEF vars, cycleVars
  <2>2. CycleReal' <=> CycleReal BY <1>0, <2>1 DEF CycleReal, Targets
  <2> QED BY <1>0, <2>1, <2>2 DEF VerdictInv
<1> QED BY <1>1, <1>2, <1>3, <1>4, <1>5, <1>6 DEF Next

-----------------------------------------------------------------------------
(* The theorems. *)

\* The searches keep to their invariant.
LEMMA Inductive == Spec => []IInv
<1>1. Init => IInv BY InitInv
<1>2. IInv /\ [Next]_vars => IInv'
  BY AnalyzerAssumption, TypeStep, ReachStep, ColorStep, CollectStep, VerdictStep DEF IInv
<1> QED BY <1>1, <1>2, PTL DEF Spec

\* Every variable but the frontier of the path search keeps to the code's values, for
\* any definitions (Analyze, Validate).
THEOREM TypeCorrect == Spec => []TypeOK
<1>1. IInv => TypeOK BY DEF IInv
<1> QED BY <1>1, Inductive, PTL

\* Both searches find the least closed set that holds the start, in any definition
\* (analyzer.go: unreachable_node; validator.go: unreachable node).
THEOREM ReachesExactly == Spec => []ReachExact
<1>1. IInv => ReachExact
  <2> SUFFICES ASSUME IInv, phase # "reach" PROVE Closed(reachable)
    BY DEF IInv, ReachInv, ReachExact
  <2> SUFFICES ASSUME NEW n \in reachable \cap Node PROVE Onto(n) \subseteq reachable
    BY DEF Closed
  <2>1. EdgesFollowed(n) BY DEF IInv, ReachInv
  <2>2. \A v \in Onto(n) : /\ v \in Id /\ v # None
                           /\ \E k \in DOMAIN Edges(n) : Edges(n)[k] = v
                           /\ asked = "Validate" => v \in Node
    BY AnalyzerAssumption, OntoEdges DEF IInv
  <2> QED BY <2>1, <2>2 DEF EdgesFollowed, Followed
<1> QED BY <1>1, Inductive, PTL

\* detectCycleFirst reports a cycle exactly if there is one, whichever nodes it starts
\* from, in any definition.
THEOREM CyclesExactly == Spec => []CycleExact
<1>1. IInv => CycleExact
  <2> SUFFICES ASSUME IInv, phase \in {"paths", "done"}, asked = "Analyze", cyc = <<>>,
                      NEW S \in SUBSET Node, Loops(S)
               PROVE  S = {}
    BY DEF IInv, VerdictInv, CycleExact
  <2>1. S \in SUBSET Black BY DEF IInv, VerdictInv, Black
  <2> QED BY <2>1 DEF IInv, ColorInv
<1> QED BY <1>1, Inductive, PTL

\* A definition Analyze says nothing of has no part an instance could go round in for
\* ever, but on a node that leads to itself, nowhere or to an ID that does not exist.
THEOREM CleanMeansEnds == Spec => []CleanEnds
<1>1. IInv => CleanEnds
  <2>0. ASSUME IInv, IsClean, Analyzed, NEW S \in SUBSET Node, S \cap End = {},
               \A n \in S : /\ n \notin Targets(n) /\ Targets(n) \subseteq S
                            /\ \A k \in DOMAIN trans[n] : trans[n][k] # None
        PROVE  S = {}
    <3>1. ASSUME NEW n \in S PROVE \E m \in S : m # n /\ m \in Targets(n)
      <4>1. trans[n] \in Seq(Target) /\ trans[n] # <<>>
        BY <2>0 DEF IInv, TypeOK, IsClean, DeadEnd
      <4>2. 1 \in DOMAIN trans[n] BY <4>1
      <4>3. trans[n][1] # None BY <2>0, <4>2
      <4>4. trans[n][1] \in Targets(n) BY <4>2, <4>3 DEF Targets
      <4> QED BY <2>0, <4>4
    <3>2. Loops(S) BY <3>1 DEF Loops
    <3>3. S \in SUBSET Black BY <2>0 DEF IInv, VerdictInv, Analyzed, IsClean, Black
    <3> QED BY <2>0, <3>2, <3>3 DEF IInv, ColorInv
  <2>1. ASSUME IInv, IsClean, Analyzed, NEW S \in SUBSET Node, S # {}
        PROVE  \/ S \cap End # {}
               \/ \E n \in S : \/ n \in Targets(n) \/ ~(Targets(n) \subseteq S)
                               \/ \E k \in DOMAIN trans[n] : trans[n][k] = None
    <3> SUFFICES ASSUME S \cap End = {},
                        \A n \in S : /\ n \notin Targets(n) /\ Targets(n) \subseteq S
                                     /\ \A k \in DOMAIN trans[n] : trans[n][k] # None
                 PROVE  FALSE
      OBVIOUS
    <3>1. S = {} BY <2>0, <2>1
    <3> QED BY <2>1, <3>1
  <2> QED BY <2>1 DEF CleanEnds
<1> QED BY <1>1, Inductive, PTL

-----------------------------------------------------------------------------
(* The targets a path has not met. *)

\* A set of naturals that holds 0 and every successor holds them all.
LEMMA SetInduction ==
  ASSUME NEW S \in SUBSET Nat, 0 \in S, \A n \in S : n + 1 \in S
  PROVE  S = Nat
<1> DEFINE T == Nat \ S
           R == {p \in Nat \X Nat : p[1] < p[2]}
<1>0. IsWellFoundedOn(R, Nat)
  BY NatLessThanWellFounded DEF OpToRel
<1> SUFFICES ASSUME T # {} PROVE FALSE
  OBVIOUS
<1>1. T \subseteq Nat
  OBVIOUS
<1>2. PICK x \in T : \A y \in T : <<y, x>> \notin R
  <2> HIDE DEF T, R
  <2> QED BY <1>0, <1>1, WFMin
<1>3. x \in Nat /\ x # 0
  OBVIOUS
<1>4. x - 1 \in Nat /\ <<x - 1, x>> \in R
  BY <1>3
<1>5. x - 1 \in S
  BY <1>2, <1>4
<1> QED BY <1>3, <1>5

\* g holds what Unmet takes from each of the first n of s.
Picks(g, s, T, n) ==
  g = [k \in 0..n |-> IF k = 0 THEN <<>>
                      ELSE IF s[k] \in T THEN g[k - 1]
                      ELSE Append(g[k - 1], s[k])]

\* There is such a function for every length.
LEMMA PicksExist ==
  ASSUME NEW s, NEW T
  PROVE  \A n \in Nat : \E g : Picks(g, s, T, n)
<1> DEFINE S == {n \in Nat : \E g : Picks(g, s, T, n)}
<1>1. 0 \in S
  <2>1. Picks([k \in 0..0 |-> <<>>], s, T, 0)
    BY DEF Picks
  <2> QED BY <2>1
<1>2. ASSUME NEW n \in S PROVE n + 1 \in S
  <2>1. PICK g : Picks(g, s, T, n)
    BY <1>2
  <2> DEFINE h == [k \in 0..n + 1 |->
                     IF k = n + 1 THEN IF s[n + 1] \in T THEN g[n] ELSE Append(g[n], s[n + 1])
                                  ELSE g[k]]
             e == [k \in 0..n + 1 |-> IF k = 0 THEN <<>>
                      ELSE IF s[k] \in T THEN h[k - 1] ELSE Append(h[k - 1], s[k])]
  <2>2. ASSUME NEW k \in 0..n + 1 PROVE h[k] = e[k]
    <3>1. CASE k = n + 1
      <4>1. k # 0 /\ k - 1 = n /\ n \in 0..n + 1 /\ n # n + 1
        BY <3>1
      <4>2. h[k - 1] = g[n]
        BY <4>1
      <4>3. h[k] = IF s[n + 1] \in T THEN g[n] ELSE Append(g[n], s[n + 1])
        BY <3>1
      <4>4. e[k] = IF s[k] \in T THEN h[k - 1] ELSE Append(h[k - 1], s[k])
        BY <4>1
      <4> HIDE DEF h, e
      <4> QED BY <3>1, <4>2, <4>3, <4>4
    <3>2. CASE k # n + 1
      <4>1. k \in 0..n /\ (k # 0 => k - 1 \in 0..n + 1 /\ k - 1 # n + 1)
        BY <3>2
      <4>2. g[k] = IF k = 0 THEN <<>>
                   ELSE IF s[k] \in T THEN g[k - 1] ELSE Append(g[k - 1], s[k])
        BY <2>1, <4>1 DEF Picks
      <4>3. h[k] = g[k] /\ (k # 0 => h[k - 1] = g[k - 1])
        BY <3>2, <4>1
      <4>4. e[k] = IF k = 0 THEN <<>>
                   ELSE IF s[k] \in T THEN h[k - 1] ELSE Append(h[k - 1], s[k])
        OBVIOUS
      <4> HIDE DEF h, e
      <4> QED BY <4>2, <4>3, <4>4
    <3> QED BY <3>1, <3>2
  <2>3. h = e
    <3>1. DOMAIN h = 0..n + 1 /\ DOMAIN e = 0..n + 1
      OBVIOUS
    <3>2. h = [k \in DOMAIN h |-> h[k]] /\ e = [k \in DOMAIN e |-> e[k]]
      OBVIOUS
    <3> HIDE DEF h, e
    <3> QED BY <2>2, <3>1, <3>2
  <2>4. Picks(h, s, T, n + 1)
    BY <2>3 DEF Picks
  <2> HIDE DEF h
  <2> QED BY <2>4
<1>3. S = Nat
  <2>1. S \in SUBSET Nat
    OBVIOUS
  <2> HIDE DEF S
  <2> QED BY <1>1, <1>2, <2>1, SetInduction
<1> QED BY <1>3

\* go is what is left of the first n of s without what is in T: all of it, and
\* nothing twice unless s has it twice.
Leaves(go, s, T, n) ==
  /\ \A k \in DOMAIN go : go[k] \notin T /\ \E i \in 1..n : s[i] = go[k]
  /\ \A i \in 1..n : s[i] \notin T => \E k \in DOMAIN go : go[k] = s[i]
  /\ (\A i, j \in DOMAIN s : s[i] = s[j] => i = j) =>
       \A k, m \in DOMAIN go : go[k] = go[m] => k = m

\* Unmet leaves just that.
LEMMA UnmetLeaves ==
  ASSUME NEW V, NEW s \in Seq(V), NEW T
  PROVE  Unmet(s, T) \in Seq(V) /\ Leaves(Unmet(s, T), s, T, Len(s))
<1>1. PICK n \in Nat : n = Len(s) /\ DOMAIN s = 1..n
  OBVIOUS
<1> DEFINE g == CHOOSE f : Picks(f, s, T, n)
<1>2. Picks(g, s, T, n)
  BY PicksExist
<1>3. Unmet(s, T) = g[n]
  BY <1>1 DEF Unmet, Picks
<1> HIDE DEF g
<1> DEFINE S == {k \in Nat : k <= n => g[k] \in Seq(V) /\ Leaves(g[k], s, T, k)}
<1>4. 0 \in S
  <2>1. g[0] = <<>>
    BY <1>2 DEF Picks
  <2>2. DOMAIN <<>> = {} /\ 1..0 = {}
    OBVIOUS
  <2>3. Leaves(<<>>, s, T, 0)
    BY <2>2 DEF Leaves
  <2>4. <<>> \in Seq(V)
    OBVIOUS
  <2> QED BY <2>1, <2>3, <2>4
<1>5. ASSUME NEW k \in S PROVE k + 1 \in S
  <2> SUFFICES ASSUME k + 1 <= n PROVE g[k + 1] \in Seq(V) /\ Leaves(g[k + 1], s, T, k + 1)
    OBVIOUS
  <2>1. k \in Nat /\ k <= n /\ k + 1 \in 0..n /\ k + 1 # 0 /\ (k + 1) - 1 = k /\ k + 1 \in DOMAIN s
    BY <1>1
  <2>2. PICK go \in Seq(V) : go = g[k]
    BY <2>1
  <2>3. Leaves(go, s, T, k)
    BY <2>1, <2>2
  <2>4. g[k + 1] = IF s[k + 1] \in T THEN go ELSE Append(go, s[k + 1])
    BY <1>2, <2>1, <2>2 DEF Picks
  <2>5. PICK v \in V : v = s[k + 1]
    BY <2>1
  <2>6. \A i \in 1..k + 1 : i \in 1..k \/ i = k + 1
    BY <2>1
  <2>7. 1..k \subseteq 1..k + 1 /\ k + 1 \in 1..k + 1 /\ k + 1 \notin 1..k
    BY <2>1
  <2>8. CASE v \in T
    BY <2>2, <2>3, <2>4, <2>5, <2>6, <2>7, <2>8 DEF Leaves
  <2>9. CASE v \notin T
    <3> DEFINE e == Append(go, v)
    <3>1. /\ e \in Seq(V) /\ Len(go) \in Nat /\ DOMAIN go = 1..Len(go)
          /\ DOMAIN e = 1..Len(go) + 1 /\ e[Len(go) + 1] = v
          /\ \A m \in 1..Len(go) : e[m] = go[m]
      OBVIOUS
    <3>2. \A m \in DOMAIN e : (m \in DOMAIN go /\ e[m] = go[m]) \/ (m = Len(go) + 1 /\ e[m] = v)
      BY <3>1
    <3>3. \A m \in DOMAIN go : m \in DOMAIN e /\ e[m] = go[m]
      BY <3>1
    <3>4. Len(go) + 1 \in DOMAIN e /\ e[Len(go) + 1] = v
      BY <3>1
    <3>5. g[k + 1] = e
      BY <2>4, <2>5, <2>9
    <3> HIDE DEF e
    <3>6. \A m \in DOMAIN e : e[m] \notin T /\ \E i \in 1..k + 1 : s[i] = e[m]
      BY <2>3, <2>5, <2>7, <2>9, <3>2 DEF Leaves
    <3>7. \A i \in 1..k + 1 : s[i] \notin T => \E m \in DOMAIN e : e[m] = s[i]
      BY <2>3, <2>5, <2>6, <3>3, <3>4 DEF Leaves
    <3>8. ASSUME \A i, j \in DOMAIN s : s[i] = s[j] => i = j
          PROVE  \A m \in DOMAIN go : go[m] # v
      <4>1. 1..k \subseteq DOMAIN s
        BY <1>1, <2>1
      <4> QED BY <2>1, <2>3, <2>5, <2>7, <3>8, <4>1 DEF Leaves
    <3>9. ASSUME \A i, j \in DOMAIN s : s[i] = s[j] => i = j
          PROVE  \A m, l \in DOMAIN e : e[m] = e[l] => m = l
      BY <2>3, <3>2, <3>8, <3>9 DEF Leaves
    <3> QED BY <3>1, <3>5, <3>6, <3>7, <3>9 DEF Leaves
  <2> QED BY <2>8, <2>9
<1>6. S = Nat
  <2>1. S \in SUBSET Nat
    OBVIOUS
  <2> HIDE DEF S
  <2> QED BY <1>4, <1>5, <2>1, SetInduction
<1>7. n \in S
  BY <1>6
<1> QED BY <1>1, <1>3, <1>7

-----------------------------------------------------------------------------
(* The paths of the search. *)

\* A simple path from the start, complete at its last ID at the earliest.
Walk(p) ==
  /\ p \in Seq(Id) /\ Len(p) >= 1 /\ p[1] = Start
  /\ \A i, j \in DOMAIN p : p[i] = p[j] => i = j
  /\ \A i \in 1..Len(p) - 1 : p[i] \in Node /\ ~Complete(p[i]) /\ p[i + 1] \in Targets(p[i])

\* r begins with p.
Begins(p, r) == Len(p) <= Len(r) /\ \A i \in 1..Len(p) : r[i] = p[i]

\* q tells the frontier's paths: where each is and what it has met.
Traces(q) ==
  /\ q \in Seq(Seq(Id)) /\ Len(q) = Len(frontier)
  /\ \A k \in 1..Len(q) : /\ Walk(q[k]) /\ frontier[k].node = q[k][Len(q[k])]
                          /\ frontier[k].vis = {q[k][i] : i \in DOMAIN q[k]}

\* Of the complete paths, those in D are counted and the others begin with a path in q.
Covers(q, D) == \A p \in CompletePaths : p \in D \/ \E k \in 1..Len(q) : Begins(q[k], p)

\* No path is searched twice, nor one that has been counted.
Apart(q, D) ==
  /\ \A k, m \in 1..Len(q) : Begins(q[k], q[m]) => k = m
  /\ \A p \in D, k \in 1..Len(q) : ~Begins(q[k], p)

\* As many paths are counted as the counter says, or fewer if there are twins.
Tally(D, n) == /\ D \subseteq CompletePaths /\ IsFiniteSet(D)
               /\ Cardinality(D) <= n /\ (NoTwins => Cardinality(D) = n)

Searches(q, D) == Traces(q) /\ Covers(q, D) /\ (NoTwins => Apart(q, D))

\* What the path search knows: while it runs, and of what it ends with.
PathInv ==
  /\ frontier \in Seq([node : Id, vis : SUBSET Id])
  /\ phase # "done" => within /\ count <= MaxPaths
  /\ \E D : /\ Tally(D, count)
            /\ phase # "done" => \E q : Searches(q, D)
            /\ Analyzed /\ within => D = CompletePaths /\ count <= MaxPaths

\* The length of a path through different nodes is bounded by their number.
LEMMA SimpleIsShort ==
  ASSUME AnalyzerAssumption, NEW n \in Nat, NEW p \in [1..n -> Node],
         \A i, j \in 1..n : p[i] = p[j] => i = j
  PROVE  n <= Cardinality(Node)
<1>1. p \in Injection(1..n, Node)
  BY DEF Injection, IsInjective
<1>2. IsFiniteSet(Node)
  BY DEF AnalyzerAssumption
<1>3. Cardinality(1..n) <= Cardinality(Node)
  BY <1>1, <1>2, FS_Injection
<1>4. Cardinality(1..n) = n
  BY FS_Interval
<1> QED BY <1>3, <1>4

\* The complete paths are the walks that end in a node they are complete at.
LEMMA CompleteWalks ==
  ASSUME AnalyzerAssumption, TypeOK, NEW p
  PROVE  p \in CompletePaths <=> Walk(p) /\ p[Len(p)] \in Node /\ Complete(p[Len(p)])
<1>1. ASSUME p \in CompletePaths PROVE Walk(p) /\ p[Len(p)] \in Node /\ Complete(p[Len(p)])
  <2>1. PICK k \in 1..Cardinality(Node) : p \in [1..k -> Node]
    BY <1>1 DEF CompletePaths
  <2>2. k \in Nat /\ k >= 1
    OBVIOUS
  <2>3. p \in Seq(Node) /\ Len(p) = k /\ DOMAIN p = 1..k
    BY <2>1, <2>2
  <2>4. p \in Seq(Id)
    BY <2>1, <2>2, <2>3 DEF Id
  <2> QED BY <1>1, <2>1, <2>2, <2>3, <2>4 DEF CompletePaths, Walk
<1>2. ASSUME Walk(p), p[Len(p)] \in Node, Complete(p[Len(p)]) PROVE p \in CompletePaths
  <2>1. PICK n \in Nat : n = Len(p) /\ n >= 1 /\ DOMAIN p = 1..n
    BY <1>2 DEF Walk
  <2>2. \A i \in 1..n : p[i] \in Node
    BY <1>2, <2>1 DEF Walk
  <2>3. p \in [1..n -> Node]
    BY <1>2, <2>1, <2>2 DEF Walk
  <2>4. n <= Cardinality(Node)
    BY <1>2, <2>1, <2>3, SimpleIsShort DEF Walk
  <2>5. n \in 1..Cardinality(Node)
    <3>1. Cardinality(Node) \in Nat
      BY FS_CardinalityType DEF AnalyzerAssumption
    <3> QED BY <2>1, <2>4, <3>1
  <2> QED BY <1>2, <2>1, <2>3, <2>5 DEF Walk, CompletePaths
<1> QED BY <1>1, <1>2

\* There are finitely many of them.
LEMMA PathsFinite ==
  ASSUME AnalyzerAssumption
  PROVE  IsFiniteSet(CompletePaths)
<1> DEFINE N == Cardinality(Node)
           G == SUBSET ((1..N) \X Node)
           f == [p \in CompletePaths |-> {<<i, p[i]>> : i \in DOMAIN p}]
<1>1. IsFiniteSet(Node) /\ N \in Nat
  BY FS_CardinalityType DEF AnalyzerAssumption
<1>2. IsFiniteSet(G)
  <2>1. IsFiniteSet(1..N)
    BY <1>1, FS_Interval
  <2>2. IsFiniteSet((1..N) \X Node)
    BY <1>1, <2>1, FS_Product
  <2> QED BY <2>2, FS_SUBSET
<1>3. ASSUME NEW p \in CompletePaths
      PROVE  \E k \in 1..N : p \in [1..k -> Node]
  BY DEF CompletePaths
<1>4. ASSUME NEW p \in CompletePaths PROVE f[p] \in G
  <2>1. PICK k \in 1..N : p \in [1..k -> Node]
    BY <1>3
  <2>2. 1..k \subseteq 1..N
    BY <1>1
  <2>3. f[p] = {<<i, p[i]>> : i \in DOMAIN p}
    OBVIOUS
  <2> HIDE DEF f
  <2> QED BY <2>1, <2>2, <2>3
<1>5. ASSUME NEW p \in CompletePaths, NEW r \in CompletePaths, f[p] = f[r]
      PROVE  p = r
  <2>1. PICK k \in 1..N : p \in [1..k -> Node]
    BY <1>3
  <2>2. PICK m \in 1..N : r \in [1..m -> Node]
    BY <1>3
  <2>3. {<<i, p[i]>> : i \in DOMAIN p} = {<<i, r[i]>> : i \in DOMAIN r}
    BY <1>5
  <2>4. ASSUME NEW i \in DOMAIN p PROVE i \in DOMAIN r /\ r[i] = p[i]
    <3>1. <<i, p[i]>> \in {<<j, r[j]>> : j \in DOMAIN r}
      BY <2>3
    <3>2. PICK j \in DOMAIN r : <<i, p[i]>> = <<j, r[j]>>
      BY <3>1
    <3> QED BY <3>2
  <2>5. ASSUME NEW i \in DOMAIN r PROVE i \in DOMAIN p /\ p[i] = r[i]
    <3>1. <<i, r[i]>> \in {<<j, p[j]>> : j \in DOMAIN p}
      BY <2>3
    <3>2. PICK j \in DOMAIN p : <<i, r[i]>> = <<j, p[j]>>
      BY <3>1
    <3> QED BY <3>2
  <2> QED BY <2>1, <2>2, <2>4, <2>5
<1>6. DOMAIN f = CompletePaths /\ f \in [CompletePaths -> G]
  BY <1>4
<1> HIDE DEF f, G
<1>7. PICK C, g : C = CompletePaths /\ g = f
  OBVIOUS
<1>8. \A p, r \in C : g[p] = g[r] => p = r
  BY <1>5, <1>7
<1>9. g \in Injection(C, G)
  BY <1>6, <1>7, <1>8 DEF Injection, IsInjective
<1>10. IsFiniteSet(C)
  BY <1>2, <1>9, FS_Injection
<1> QED BY <1>7, <1>10

-----------------------------------------------------------------------------
(* Prefixes. *)

\* A prefix of a prefix is a prefix.
LEMMA BeginsTransitive ==
  ASSUME NEW p \in Seq(Id), NEW r \in Seq(Id), NEW s \in Seq(Id), Begins(p, r), Begins(r, s)
  PROVE  Begins(p, s)
<1>1. Len(p) \in Nat /\ Len(r) \in Nat /\ Len(s) \in Nat /\ Len(p) <= Len(r) /\ Len(r) <= Len(s)
  BY DEF Begins
<1>2. 1..Len(p) \subseteq 1..Len(r)
  BY <1>1
<1> QED BY <1>1, <1>2 DEF Begins

\* A complete path that begins with a walk complete at its end is that walk.
LEMMA CompleteIsLongest ==
  ASSUME NEW p, NEW r, Walk(p), Walk(r), Complete(p[Len(p)]), Begins(p, r)
  PROVE  p = r
<1>1. /\ p \in Seq(Id) /\ r \in Seq(Id) /\ Len(p) \in Nat /\ Len(r) \in Nat
      /\ 1 <= Len(p) /\ Len(p) <= Len(r)
      /\ DOMAIN p = 1..Len(p) /\ DOMAIN r = 1..Len(r)
  BY DEF Walk, Begins
<1>a. Len(p) \in Nat /\ Len(r) \in Nat /\ 1 <= Len(p) /\ Len(p) <= Len(r)
  BY <1>1
<1>2. r[Len(p)] = p[Len(p)]
  BY <1>1 DEF Begins
<1>3. Len(p) \notin 1..Len(r) - 1
  BY <1>2 DEF Walk
<1>4. Len(p) = Len(r)
  <2>1. PICK a \in Nat, b \in Nat : a = Len(p) /\ b = Len(r)
    BY <1>a
  <2>2. 1 <= a /\ a <= b /\ a \notin 1..b - 1
    BY <1>a, <1>3, <2>1
  <2>3. a = b
    BY <2>2
  <2> QED BY <2>1, <2>3
<1>5. PICK n \in Nat : n = Len(p) /\ n = Len(r)
  BY <1>a, <1>4
<1>6. \A i \in 1..n : r[i] = p[i]
  BY <1>1, <1>5 DEF Begins
<1>7. p = [i \in 1..n |-> p[i]] /\ r = [i \in 1..n |-> r[i]]
  BY <1>1, <1>5
<1> QED BY <1>6, <1>7

\* q2 is q without its first, and E behind it.
Renews(q2, q, E) ==
  /\ q2 \in Seq(Seq(Id)) /\ Len(q2) = Len(q) - 1 + Len(E)
  /\ \A k \in 1..Len(q) - 1 : q2[k] = q[k + 1]
  /\ \A j \in 1..Len(E) : q2[Len(q) - 1 + j] = E[j]

\* Taking the first off and appending does that.
LEMMA RenewedBy ==
  ASSUME NEW q \in Seq(Seq(Id)), q # <<>>, NEW E \in Seq(Seq(Id))
  PROVE  Renews(Tail(q) \o E, q, E)
<1> DEFINE t == Tail(q)
<1>1. t \in Seq(Seq(Id)) /\ Len(t) = Len(q) - 1 /\ Len(q) \in Nat /\ Len(q) >= 1
      /\ \A k \in 1..Len(q) - 1 : t[k] = q[k + 1]
  OBVIOUS
<1> HIDE DEF t
<1>2. /\ t \o E \in Seq(Seq(Id)) /\ Len(t \o E) = Len(t) + Len(E)
      /\ \A i \in 1 .. Len(t) + Len(E) : (t \o E)[i] = IF i <= Len(t) THEN t[i] ELSE E[i - Len(t)]
  BY <1>1, ConcatProperties
<1>0. Len(t) \in Nat /\ Len(E) \in Nat
  BY <1>1
<1>3. ASSUME NEW k \in 1..Len(t) PROVE (t \o E)[k] = t[k]
  BY <1>2, <1>0
<1>4. ASSUME NEW j \in 1..Len(E) PROVE (t \o E)[Len(t) + j] = E[j]
  <2>1. Len(t) + j \in 1 .. Len(t) + Len(E) /\ ~(Len(t) + j <= Len(t)) /\ (Len(t) + j) - Len(t) = j
    BY <1>0
  <2> QED BY <1>2, <2>1
<1>5. Renews(t \o E, q, E)
  BY <1>1, <1>2, <1>3, <1>4 DEF Renews
<1> QED BY <1>5 DEF t

\* A place of q2 is one of q but the first, or one of E.
LEMMA RenewedPlaces ==
  ASSUME NEW q \in Seq(Seq(Id)), q # <<>>, NEW E \in Seq(Seq(Id)), NEW q2, Renews(q2, q, E),
         NEW k \in 1..Len(q2)
  PROVE  \/ k + 1 \in 2..Len(q) /\ q2[k] = q[k + 1]
         \/ \E j \in 1..Len(E) : k = Len(q) - 1 + j /\ q2[k] = E[j]
<1>1. Len(q) \in Nat /\ Len(q) >= 1 /\ Len(E) \in Nat /\ k \in Nat /\ k <= Len(q) - 1 + Len(E) /\ k >= 1
  BY DEF Renews
<1>2. CASE k <= Len(q) - 1
  <2>1. k \in 1..Len(q) - 1 /\ k + 1 \in 2..Len(q)
    BY <1>1, <1>2
  <2> QED BY <2>1 DEF Renews
<1>3. CASE ~(k <= Len(q) - 1)
  <2>1. k - (Len(q) - 1) \in 1..Len(E) /\ k = Len(q) - 1 + (k - (Len(q) - 1))
    BY <1>1, <1>3
  <2> QED BY <2>1 DEF Renews
<1> QED BY <1>2, <1>3

\* What was covered is, if what begins with the first is counted or begins with one of E.
LEMMA CoversKept ==
  ASSUME NEW q \in Seq(Seq(Id)), q # <<>>, NEW E \in Seq(Seq(Id)), NEW q2, Renews(q2, q, E),
         NEW D, NEW D2, D \subseteq D2, Covers(q, D),
         \A p \in CompletePaths : Begins(q[1], p) => p \in D2 \/ \E j \in 1..Len(E) : Begins(E[j], p)
  PROVE  Covers(q2, D2)
<1> SUFFICES ASSUME NEW p \in CompletePaths, p \notin D2
             PROVE  \E k \in 1..Len(q2) : Begins(q2[k], p)
  BY DEF Covers
<1>1. PICK k \in 1..Len(q) : Begins(q[k], p)
  BY DEF Covers
<1>2. Len(q) \in Nat /\ Len(E) \in Nat /\ Len(q2) = Len(q) - 1 + Len(E)
  BY DEF Renews
<1>3. CASE k = 1
  <2>1. PICK j \in 1..Len(E) : Begins(E[j], p)
    BY <1>1, <1>3
  <2>2. Len(q) - 1 + j \in 1..Len(q2) /\ q2[Len(q) - 1 + j] = E[j]
    BY <1>1, <1>2 DEF Renews
  <2> QED BY <2>1, <2>2
<1>4. CASE k # 1
  <2>1. k - 1 \in 1..Len(q) - 1 /\ k - 1 \in 1..Len(q2) /\ (k - 1) + 1 = k
    BY <1>2, <1>4
  <2>2. q2[k - 1] = q[k]
    BY <2>1 DEF Renews
  <2> QED BY <1>1, <2>1, <2>2
<1> QED BY <1>3, <1>4

\* Paths stay apart, if those of E continue the first one, each its own way.
LEMMA ApartKept ==
  ASSUME NEW q \in Seq(Seq(Id)), q # <<>>, NEW E \in Seq(Seq(Id)), NEW q2, Renews(q2, q, E),
         NEW D, NEW D2 \in SUBSET Seq(Id), D2 \subseteq D \cup {q[1]}, Apart(q, D),
         q[1] \in D2 => E = <<>>,
         \A j \in 1..Len(E) : Begins(q[1], E[j]) /\ \A k \in 2..Len(q) : ~Begins(q[k], E[j]),
         \A i, j \in 1..Len(E) : Begins(E[i], E[j]) => i = j
  PROVE  Apart(q2, D2)
<1>0. Len(q) \in Nat /\ Len(q) >= 1 /\ 1 \in 1..Len(q) /\ \A k \in 2..Len(q) : k \in 1..Len(q) /\ k # 1
  OBVIOUS
<1>1. ASSUME NEW j \in 1..Len(E), NEW p \in Seq(Id), Begins(E[j], p) PROVE Begins(q[1], p)
  <2>1. q[1] \in Seq(Id) /\ E[j] \in Seq(Id) /\ Begins(q[1], E[j])
    BY <1>0
  <2> QED BY <1>1, <2>1, BeginsTransitive
<1>2. ASSUME NEW k \in 1..Len(q2), NEW m \in 1..Len(q2), Begins(q2[k], q2[m])
      PROVE  k = m
  <2>1. \/ k + 1 \in 2..Len(q) /\ q2[k] = q[k + 1]
        \/ \E j \in 1..Len(E) : k = Len(q) - 1 + j /\ q2[k] = E[j]
    BY RenewedPlaces
  <2>2. \/ m + 1 \in 2..Len(q) /\ q2[m] = q[m + 1]
        \/ \E j \in 1..Len(E) : m = Len(q) - 1 + j /\ q2[m] = E[j]
    BY RenewedPlaces
  <2>3. CASE k + 1 \in 2..Len(q) /\ q2[k] = q[k + 1]
    <3>1. CASE m + 1 \in 2..Len(q) /\ q2[m] = q[m + 1]
      <4>1. k + 1 = m + 1
        BY <1>0, <1>2, <2>3, <3>1 DEF Apart
      <4> QED BY <4>1
    <3>2. CASE \E j \in 1..Len(E) : m = Len(q) - 1 + j /\ q2[m] = E[j]
      BY <1>2, <2>3, <3>2
    <3> QED BY <2>2, <3>1, <3>2
  <2>4. CASE \E j \in 1..Len(E) : k = Len(q) - 1 + j /\ q2[k] = E[j]
    <3>1. PICK i \in 1..Len(E) : k = Len(q) - 1 + i /\ q2[k] = E[i]
      BY <2>4
    <3>2. CASE m + 1 \in 2..Len(q) /\ q2[m] = q[m + 1]
      <4>1. q[m + 1] \in Seq(Id) /\ m + 1 \in 1..Len(q) /\ m + 1 # 1
        BY <1>0, <3>2
      <4>2. Begins(q[1], q[m + 1])
        BY <1>1, <1>2, <3>1, <3>2, <4>1
      <4> QED BY <1>0, <4>1, <4>2 DEF Apart
    <3>3. CASE \E j \in 1..Len(E) : m = Len(q) - 1 + j /\ q2[m] = E[j]
      BY <1>2, <3>1, <3>3
    <3> QED BY <2>2, <3>2, <3>3
  <2> QED BY <2>1, <2>3, <2>4
<1>3. ASSUME NEW p \in D2, NEW k \in 1..Len(q2), Begins(q2[k], p)
      PROVE  FALSE
  <2>1. \/ k + 1 \in 2..Len(q) /\ q2[k] = q[k + 1]
        \/ \E j \in 1..Len(E) : k = Len(q) - 1 + j /\ q2[k] = E[j]
    BY RenewedPlaces
  <2>2. CASE k + 1 \in 2..Len(q) /\ q2[k] = q[k + 1]
    <3>1. k + 1 \in 1..Len(q) /\ k + 1 # 1 /\ Begins(q[k + 1], p)
      BY <1>0, <1>3, <2>2
    <3>2. CASE p \in D
      BY <3>1, <3>2 DEF Apart
    <3>3. CASE p = q[1]
      BY <1>0, <3>1, <3>3 DEF Apart
    <3> QED BY <3>2, <3>3
  <2>3. CASE \E j \in 1..Len(E) : k = Len(q) - 1 + j /\ q2[k] = E[j]
    <3>1. PICK j \in 1..Len(E) : q2[k] = E[j]
      BY <2>3
    <3>2. Begins(q[1], p) /\ p \in D
      <4>1. E # <<>>
        BY <3>1
      <4> QED BY <1>1, <1>3, <3>1, <4>1
    <3> QED BY <1>0, <3>2 DEF Apart
  <2> QED BY <2>1, <2>2, <2>3
<1> QED BY <1>2, <1>3 DEF Apart

-----------------------------------------------------------------------------
(* The steps of the path search. *)

\* The paths are those of the transitions, which no step changes.
LEMMA PathsFixed ==
  ASSUME trans' = trans
  PROVE  /\ CompletePaths' = CompletePaths /\ NoTwins' = NoTwins
         /\ \A p : Walk(p)' = Walk(p)
         /\ \A D, n : Tally(D, n)' = Tally(D, n)
         /\ \A q, D : Covers(q, D)' = Covers(q, D)
<1>1. CompletePaths' = CompletePaths
  BY DEF CompletePaths, Complete, Targets
<1>2. NoTwins' = NoTwins
  BY DEF NoTwins
<1>3. ASSUME NEW p PROVE Walk(p)' = Walk(p)
  BY DEF Walk, Complete, Targets
<1>4. ASSUME NEW D, NEW n PROVE Tally(D, n)' = Tally(D, n)
  BY <1>1, <1>2 DEF Tally
<1>5. ASSUME NEW q, NEW D PROVE Covers(q, D)' = Covers(q, D)
  BY <1>1 DEF Covers
<1> QED BY <1>1, <1>2, <1>3, <1>4, <1>5

\* The search starts on the path that has only the start.
LEMMA PathInit == AnalyzerAssumption /\ Init => PathInv
<1> SUFFICES ASSUME AnalyzerAssumption, Init PROVE PathInv
  OBVIOUS
<1> DEFINE w == <<Start>>
<1>1. frontier = <<[node |-> Start, vis |-> {Start}]>> /\ count = 0 /\ within /\ phase = "reach"
  BY DEF Init
<1>2. Start \in Node /\ Start \in Id /\ MaxPaths \in Nat /\ End \subseteq Node
  BY DEF AnalyzerAssumption, Id
<1>3. frontier \in Seq([node : Id, vis : SUBSET Id])
  BY <1>1, <1>2
<1>4. w \in Seq(Id) /\ Len(w) = 1 /\ w[1] = Start /\ DOMAIN w = {1}
  BY <1>2
<1> HIDE DEF w
<1>5. Walk(w)
  BY <1>4 DEF Walk
<1>6. Traces(<<w>>)
  <2>1. <<w>> \in Seq(Seq(Id)) /\ Len(<<w>>) = 1 /\ <<w>>[1] = w
    BY <1>4
  <2>2. Len(frontier) = 1 /\ frontier[1].node = Start /\ frontier[1].vis = {Start}
    BY <1>1
  <2>3. {w[i] : i \in DOMAIN w} = {Start}
    BY <1>4
  <2>4. \A k \in 1..1 : k = 1
    OBVIOUS
  <2> QED BY <1>4, <1>5, <2>1, <2>2, <2>3, <2>4 DEF Traces
<1>7. ASSUME NEW p \in CompletePaths PROVE Begins(w, p)
  <2>1. PICK k \in 1..Cardinality(Node) : p \in [1..k -> Node] /\ p[1] = Start
    BY DEF CompletePaths
  <2>2. k \in Nat /\ 1 <= k /\ Len(p) = k
    BY <2>1
  <2>3. \A i \in 1..1 : i = 1
    OBVIOUS
  <2> QED BY <1>4, <2>1, <2>2, <2>3 DEF Begins
<1>8. Searches(<<w>>, {})
  <2>1. Len(<<w>>) = 1 /\ <<w>>[1] = w /\ 1 \in 1..1 /\ \A i \in 1..1 : i = 1
    OBVIOUS
  <2>2. Covers(<<w>>, {})
    BY <1>7, <2>1 DEF Covers
  <2>3. Apart(<<w>>, {})
    BY <2>1 DEF Apart
  <2> QED BY <1>6, <2>2, <2>3 DEF Searches
<1>9. Tally({}, 0)
  BY FS_EmptySet DEF Tally
<1>10. phase # "done" /\ count <= MaxPaths
  BY <1>1, <1>2
<1> QED BY <1>1, <1>3, <1>8, <1>9, <1>10 DEF PathInv, Analyzed

\* The other searches leave the frontier as it is.
LEMMA PathFrame ==
  ASSUME PathInv, trans' = trans, UNCHANGED pathVars,
         phase' # "done" => phase # "done", Analyzed' => Analyzed
  PROVE  PathInv'
<1>1. PICK D : /\ Tally(D, count)
               /\ phase # "done" => \E q : Searches(q, D)
               /\ Analyzed /\ within => D = CompletePaths /\ count <= MaxPaths
  BY DEF PathInv
<1>2. frontier' = frontier /\ count' = count /\ within' = within
  BY DEF pathVars
<1>3. Tally(D, count)'
  BY <1>1, <1>2, PathsFixed
<1>4. ASSUME NEW q, Searches(q, D) PROVE Searches(q, D)'
  <2>1. Traces(q)'
    BY <1>2, <1>4, PathsFixed DEF Searches, Traces
  <2>2. Covers(q, D)' /\ (NoTwins' => Apart(q, D))
    BY <1>4, PathsFixed DEF Searches
  <2> QED BY <2>1, <2>2 DEF Searches
<1>5. phase' # "done" => \E q : Searches(q, D)'
  BY <1>1, <1>4
<1>6. Analyzed' /\ within' => D = CompletePaths' /\ count' <= MaxPaths
  BY <1>1, <1>2, PathsFixed
<1>7. phase' # "done" => within' /\ count' <= MaxPaths
  BY <1>2 DEF PathInv
<1>8. frontier' \in Seq([node : Id, vis : SUBSET Id])
  BY <1>2 DEF PathInv
<1> QED BY <1>3, <1>5, <1>6, <1>7, <1>8 DEF PathInv

\* F goes on the frontier for the paths of E.
Traced(F, E) ==
  /\ F \in Seq([node : Id, vis : SUBSET Id]) /\ E \in Seq(Seq(Id)) /\ Len(F) = Len(E)
  /\ \A j \in 1..Len(E) : /\ Walk(E[j]) /\ F[j].node = E[j][Len(E[j])]
                          /\ F[j].vis = {E[j][i] : i \in DOMAIN E[j]}

\* The frontier goes on telling the paths.
LEMMA TracesKept ==
  ASSUME PathInv, trans' = trans, frontier # <<>>, NEW q, Traces(q), NEW E, NEW F, Traced(F, E),
         frontier' = Tail(frontier) \o F
  PROVE  /\ frontier' \in Seq([node : Id, vis : SUBSET Id])
         /\ q \in Seq(Seq(Id)) /\ q # <<>>
         /\ Renews(Tail(q) \o E, q, E)
         /\ Traces(Tail(q) \o E)'
<1> DEFINE P == [node : Id, vis : SUBSET Id]
           t == Tail(frontier)
           q2 == Tail(q) \o E
<1>1. /\ q \in Seq(Seq(Id)) /\ q # <<>> /\ E \in Seq(Seq(Id)) /\ Len(q) = Len(frontier)
      /\ Len(q) \in Nat /\ Len(E) \in Nat /\ Len(F) = Len(E) /\ frontier \in Seq(P) /\ F \in Seq(P)
  BY DEF Traces, Traced, PathInv
<1>2. Renews(q2, q, E)
  BY <1>1, RenewedBy
<1>3. t \in Seq(P) /\ Len(t) = Len(q) - 1 /\ \A i \in 1..Len(t) : t[i] = frontier[i + 1]
  <2> HIDE DEF P
  <2> QED BY <1>1, HeadTailProperties
<1> HIDE DEF t, q2
<1>4. /\ t \o F \in Seq(P) /\ Len(t \o F) = Len(t) + Len(F)
      /\ \A i \in 1 .. Len(t) + Len(F) : (t \o F)[i] = IF i <= Len(t) THEN t[i] ELSE F[i - Len(t)]
  <2>1. t \in Seq(P) /\ F \in Seq(P)
    BY <1>1, <1>3
  <2> HIDE DEF P
  <2> QED BY <2>1, ConcatProperties
<1>5. frontier' = t \o F
  BY DEF t
<1>6. q2 \in Seq(Seq(Id)) /\ Len(q2) = Len(frontier')
  BY <1>1, <1>2, <1>3, <1>4, <1>5 DEF Renews
<1>7. ASSUME NEW k \in 1..Len(q2)
      PROVE  /\ Walk(q2[k])' /\ frontier'[k].node = q2[k][Len(q2[k])]
             /\ frontier'[k].vis = {q2[k][i] : i \in DOMAIN q2[k]}
  <2>1. \/ k + 1 \in 2..Len(q) /\ q2[k] = q[k + 1]
        \/ \E j \in 1..Len(E) : k = Len(q) - 1 + j /\ q2[k] = E[j]
    <3>1. q \in Seq(Seq(Id)) /\ q # <<>> /\ E \in Seq(Seq(Id))
      BY <1>1
    <3>2. PICK u, s, e : u = q2 /\ s = q /\ e = E
      OBVIOUS
    <3>3. s \in Seq(Seq(Id)) /\ s # <<>> /\ e \in Seq(Seq(Id)) /\ Renews(u, s, e) /\ k \in 1..Len(u)
      BY <1>2, <3>1, <3>2
    <3>4. \/ k + 1 \in 2..Len(s) /\ u[k] = s[k + 1]
          \/ \E j \in 1..Len(e) : k = Len(s) - 1 + j /\ u[k] = e[j]
      BY <3>3, RenewedPlaces
    <3> QED BY <3>2, <3>4
  <2>2. CASE k + 1 \in 2..Len(q) /\ q2[k] = q[k + 1]
    <3>1. k \in 1..Len(t) /\ k \in 1..Len(t) + Len(F) /\ k <= Len(t) /\ k + 1 \in 1..Len(q)
      <4>1. PICK a \in Nat, b \in Nat : a = Len(q) /\ b = Len(E)
        BY <1>1
      <4>2. Len(t) = a - 1 /\ Len(F) = b /\ k + 1 \in 2..a /\ k \in Nat
        <5>1. Len(q2) \in Nat
          BY <1>6
        <5>2. k \in Nat
          BY <5>1
        <5> QED BY <1>1, <1>3, <2>2, <4>1, <5>2
      <4>3. k \in 1..a - 1 /\ k \in 1..(a - 1) + b /\ k <= a - 1 /\ k + 1 \in 1..a
        BY <4>2
      <4> QED BY <4>1, <4>2, <4>3
    <3>2. frontier'[k] = frontier[k + 1]
      BY <1>3, <1>4, <1>5, <3>1
    <3>3. /\ Walk(q[k + 1]) /\ frontier[k + 1].node = q[k + 1][Len(q[k + 1])]
          /\ frontier[k + 1].vis = {q[k + 1][i] : i \in DOMAIN q[k + 1]}
      BY <3>1 DEF Traces
    <3>4. Walk(q[k + 1])'
      BY <3>3, PathsFixed
    <3> QED BY <2>2, <3>2, <3>3, <3>4
  <2>3. CASE \E j \in 1..Len(E) : k = Len(q) - 1 + j /\ q2[k] = E[j]
    <3>1. PICK j \in 1..Len(E) : k = Len(q) - 1 + j /\ q2[k] = E[j]
      BY <2>3
    <3>2. k \in 1..Len(t) + Len(F) /\ ~(k <= Len(t)) /\ k - Len(t) = j
      <4>1. PICK a \in Nat, b \in Nat : a = Len(q) - 1 /\ b = Len(E)
        <5>1. Len(q) >= 1 /\ Len(q) - 1 \in Nat /\ Len(E) \in Nat
          BY <1>1
        <5> QED BY <5>1
      <4>2. Len(t) = a /\ Len(F) = b /\ j \in 1..b /\ k = a + j
        BY <1>1, <1>3, <3>1, <4>1
      <4>3. k \in 1..a + b /\ ~(k <= a) /\ k - a = j
        BY <4>2
      <4> QED BY <4>2, <4>3
    <3>3. frontier'[k] = F[j]
      BY <1>4, <1>5, <3>2
    <3>4. Walk(E[j]) /\ F[j].node = E[j][Len(E[j])] /\ F[j].vis = {E[j][i] : i \in DOMAIN E[j]}
      BY DEF Traced
    <3>5. PICK x : x = q2[k] /\ x = E[j]
      BY <3>1
    <3>6. PICK f : f = frontier'[k] /\ f = F[j]
      BY <3>3
    <3>7. Walk(x) /\ f.node = x[Len(x)] /\ f.vis = {x[i] : i \in DOMAIN x}
      BY <3>4, <3>5, <3>6
    <3>8. Walk(x)'
      BY <3>7, PathsFixed
    <3> QED BY <3>5, <3>6, <3>7, <3>8
  <2> QED BY <2>1, <2>2, <2>3
<1>8. Traces(q2)'
  BY <1>6, <1>7 DEF Traces
<1> QED BY <1>1, <1>2, <1>4, <1>5, <1>8 DEF q2

\* A path of the search whose ID names no node is dropped, one that is complete is
\* counted; either leaves the others as they are.
LEMMA FirstLeaves ==
  ASSUME PathInv, trans' = trans, frontier # <<>>, NEW q, NEW D, Searches(q, D),
         frontier' = Tail(frontier), NEW D2, D \subseteq D2, D2 \subseteq D \cup {q[1]},
         \A p \in CompletePaths : Begins(q[1], p) => p \in D2
  PROVE  /\ frontier' \in Seq([node : Id, vis : SUBSET Id])
         /\ D2 \subseteq CompletePaths => \E r : Searches(r, D2)'
<1> DEFINE E == <<>>
           r == Tail(q) \o E
<1>1. Traced(E, E)
  BY DEF Traced
<1>2. frontier' = Tail(frontier) \o E
  BY DEF PathInv
<1>3. Traces(q) /\ Covers(q, D)
  BY DEF Searches
<1> HIDE DEF r
<1>4. /\ frontier' \in Seq([node : Id, vis : SUBSET Id])
      /\ q \in Seq(Seq(Id)) /\ q # <<>>
      /\ Renews(r, q, E) /\ Traces(r)'
  <2> HIDE DEF E
  <2> QED BY <1>1, <1>2, <1>3, TracesKept DEF r
<1>5. Covers(r, D2)
  <2>1. E \in Seq(Seq(Id))
    OBVIOUS
  <2> HIDE DEF E
  <2> QED BY <1>3, <1>4, <2>1, CoversKept
<1>6. ASSUME NoTwins, D2 \subseteq CompletePaths PROVE Apart(r, D2)
  <2>1. D2 \in SUBSET Seq(Id)
    <3>1. ASSUME NEW p \in CompletePaths PROVE p \in Seq(Id)
      <4>1. PICK k \in 1..Cardinality(Node) : p \in [1..k -> Node]
        BY DEF CompletePaths
      <4>2. k \in Nat /\ \A i \in 1..k : p[i] \in Id
        BY <4>1 DEF Id
      <4> QED BY <4>1, <4>2
    <3> QED BY <1>6, <3>1
  <2>2. Apart(q, D)
    BY <1>6 DEF Searches
  <2>3. E = <<>> /\ E \in Seq(Seq(Id)) /\ 1..Len(E) = {}
    OBVIOUS
  <2> HIDE DEF E
  <2> QED BY <1>4, <2>1, <2>2, <2>3, ApartKept
<1>7. D2 \subseteq CompletePaths => Searches(r, D2)'
  BY <1>4, <1>5, <1>6, PathsFixed DEF Searches
<1> QED BY <1>4, <1>7

\* The frontier's first path is one of the search.
LEMMA FirstPath ==
  ASSUME PathInv, frontier # <<>>, NEW q, Traces(q)
  PROVE  /\ q[1] \in Seq(Id) /\ Walk(q[1]) /\ 1 \in 1..Len(q) /\ Begins(q[1], q[1])
         /\ Head(frontier).node = q[1][Len(q[1])]
         /\ Head(frontier).vis = {q[1][i] : i \in DOMAIN q[1]}
<1>1. 1 \in 1..Len(q) /\ Head(frontier) = frontier[1]
  BY DEF Traces, PathInv
<1> QED BY <1>1 DEF Traces, Begins, Walk

\* Stray: no complete path goes by an ID that names no node.
LEMMA StrayKeeps ==
  ASSUME AnalyzerAssumption, TypeOK, PathInv, Stray
  PROVE  PathInv'
<1>1. /\ phase = "paths" /\ frontier # <<>> /\ Head(frontier).node \notin Node
      /\ frontier' = Tail(frontier) /\ trans' = trans /\ UNCHANGED <<phase, asked, count, within>>
  BY DEF Stray, Extending, defVars
<1>2. PICK D, q : Tally(D, count) /\ Searches(q, D)
  BY <1>1 DEF PathInv
<1>3. ASSUME NEW p \in CompletePaths, Begins(q[1], p) PROVE FALSE
  <2>1. Walk(q[1]) /\ Head(frontier).node = q[1][Len(q[1])]
    BY <1>1, <1>2, FirstPath DEF Searches
  <2>2. PICK k \in 1..Cardinality(Node) : p \in [1..k -> Node]
    BY DEF CompletePaths
  <2>3. Len(q[1]) \in 1..k
    BY <1>3, <2>1, <2>2 DEF Begins, Walk
  <2>4. p[Len(q[1])] = q[1][Len(q[1])]
    BY <1>3, <2>1 DEF Begins, Walk
  <2> QED BY <1>1, <2>1, <2>2, <2>3, <2>4
<1>4. /\ frontier' \in Seq([node : Id, vis : SUBSET Id])
      /\ \E r : Searches(r, D)'
  BY <1>1, <1>2, <1>3, FirstLeaves DEF Tally
<1>5. Tally(D, count)'
  BY <1>1, <1>2, PathsFixed
<1>6. phase' = "paths" /\ within' /\ count' <= MaxPaths /\ ~Analyzed'
  BY <1>1 DEF PathInv, Analyzed
<1> QED BY <1>4, <1>5, <1>6 DEF PathInv

\* Counted: the path is a complete one, and not one counted before unless there are
\* twins.
LEMMA CountedKeeps ==
  ASSUME AnalyzerAssumption, TypeOK, PathInv, Counted
  PROVE  PathInv'
<1>1. /\ phase = "paths" /\ frontier # <<>> /\ Head(frontier).node \in Node
      /\ Complete(Head(frontier).node) /\ count' = count + 1 /\ trans' = trans /\ asked' = asked
      /\ IF count' > MaxPaths
         THEN phase' = "done" /\ within' = FALSE /\ frontier' = frontier
         ELSE frontier' = Tail(frontier) /\ phase' = phase /\ within' = within
  BY DEF Counted, Extending, defVars
<1>2. PICK D, q : Tally(D, count) /\ Searches(q, D)
  BY <1>1 DEF PathInv
<1> DEFINE w == q[1]
           D2 == D \cup {w}
<1>3. /\ w \in Seq(Id) /\ Walk(w) /\ 1 \in 1..Len(q) /\ Begins(w, w)
      /\ w[Len(w)] \in Node /\ Complete(w[Len(w)])
  BY <1>1, <1>2, FirstPath DEF Searches
<1>4. w \in CompletePaths
  BY <1>3, CompleteWalks
<1>5. NoTwins => w \notin D
  BY <1>2, <1>3 DEF Searches, Apart
<1>6. Tally(D2, count + 1)
  <2>1. IsFiniteSet(D) /\ Cardinality(D) \in Nat /\ count \in Nat
    BY <1>2, FS_CardinalityType DEF Tally, TypeOK
  <2>2. /\ IsFiniteSet(D2)
        /\ Cardinality(D2) = IF w \in D THEN Cardinality(D) ELSE Cardinality(D) + 1
    BY <2>1, FS_AddElement
  <2> QED BY <1>2, <1>4, <1>5, <2>1, <2>2 DEF Tally
<1>7. Tally(D2, count)'
  BY <1>1, <1>6, PathsFixed
<1>8. CASE count' > MaxPaths
  BY <1>1, <1>7, <1>8 DEF PathInv, Analyzed
<1>9. CASE ~(count' > MaxPaths)
  <2>1. ASSUME NEW p \in CompletePaths, Begins(w, p) PROVE p \in D2
    <3>1. Walk(p)
      BY CompleteWalks
    <3> QED BY <1>3, <2>1, <3>1, CompleteIsLongest
  <2>2. /\ frontier' \in Seq([node : Id, vis : SUBSET Id])
        /\ \E r : Searches(r, D2)'
    <3>1. D2 \subseteq CompletePaths /\ D \subseteq D2 /\ D2 \subseteq D \cup {q[1]}
      BY <1>6 DEF Tally
    <3>2. frontier' = Tail(frontier)
      BY <1>1, <1>9
    <3> HIDE DEF D2
    <3> QED BY <1>1, <1>2, <2>1, <3>1, <3>2, FirstLeaves
  <2>3. phase' = "paths" /\ within' /\ ~Analyzed'
    BY <1>1, <1>9 DEF PathInv, Analyzed
  <2>4. count' <= MaxPaths
    BY <1>1, <1>9 DEF TypeOK, AnalyzerAssumption
  <2> HIDE DEF D2
  <2> QED BY <1>7, <2>2, <2>3, <2>4 DEF PathInv
<1> QED BY <1>8, <1>9

\* Without twins no node names a target twice.
LEMMA NoTargetTwice ==
  ASSUME TypeOK, NoTwins, NEW n \in Node
  PROVE  \A i, j \in DOMAIN trans[n] : trans[n][i] = trans[n][j] => i = j
<1>0. PICK s \in Seq(Target) : s = trans[n]
  BY DEF TypeOK
<1>1. PICK m \in Nat : s = trans[n] /\ m = Len(s) /\ DOMAIN s = 1..m
  BY <1>0
<1> DEFINE R == {s[k] : k \in 1..m}
<1>2. m = Cardinality(R)
  BY <1>1 DEF NoTwins
<1>3. s \in Surjection(1..m, R)
  <2>1. s = [k \in 1..m |-> s[k]]
    BY <1>1
  <2>2. s \in [1..m -> R]
    BY <2>1
  <2> QED BY <1>1, <2>2 DEF Surjection
<1> HIDE DEF R
<1>4. IsFiniteSet(1..m) /\ Cardinality(1..m) = m
  BY FS_Interval
<1>5. s \in Injection(1..m, R)
  BY <1>2, <1>3, <1>4, FS_Surjection
<1> QED BY <1>1, <1>5 DEF Injection, IsInjective

\* A walk not complete at its end goes on to any target it has not met.
LEMMA WalkGoesOn ==
  ASSUME NEW w, Walk(w), w[Len(w)] \in Node, ~Complete(w[Len(w)]),
         NEW v \in Id, v \in Targets(w[Len(w)]), \A i \in DOMAIN w : w[i] # v
  PROVE  /\ Append(w, v) \in Seq(Id) /\ Walk(Append(w, v)) /\ Begins(w, Append(w, v))
         /\ Len(Append(w, v)) = Len(w) + 1 /\ Append(w, v)[Len(w) + 1] = v
         /\ {Append(w, v)[i] : i \in DOMAIN Append(w, v)} = {w[i] : i \in DOMAIN w} \cup {v}
<1> DEFINE e == Append(w, v)
<1>1. PICK n \in Nat : n = Len(w) /\ n >= 1 /\ DOMAIN w = 1..n /\ w \in Seq(Id)
  BY DEF Walk
<1>2. /\ e \in Seq(Id) /\ Len(e) = n + 1 /\ DOMAIN e = 1..n + 1
      /\ e[n + 1] = v /\ \A i \in 1..n : e[i] = w[i]
  BY <1>1
<1> HIDE DEF e
<1>3. \A i \in 1..n + 1 : i \in 1..n \/ i = n + 1
  OBVIOUS
<1>4. \A i, j \in DOMAIN e : e[i] = e[j] => i = j
  BY <1>1, <1>2, <1>3 DEF Walk
<1>5. ASSUME NEW i \in 1..Len(e) - 1
      PROVE  e[i] \in Node /\ ~Complete(e[i]) /\ e[i + 1] \in Targets(e[i])
  <2>1. i \in 1..n /\ e[i] = w[i]
    BY <1>2
  <2>2. CASE i = n
    BY <1>1, <1>2, <2>1, <2>2
  <2>3. CASE i # n
    <3>1. i \in 1..n - 1 /\ i + 1 \in 1..n
      BY <2>1, <2>3
    <3> QED BY <1>1, <1>2, <2>1, <3>1 DEF Walk
  <2> QED BY <2>2, <2>3
<1>6. e[1] = Start /\ Len(e) >= 1
  BY <1>1, <1>2 DEF Walk
<1>7. Walk(e)
  BY <1>2, <1>4, <1>5, <1>6 DEF Walk
<1>8. Begins(w, e)
  BY <1>1, <1>2 DEF Begins
<1>9. {e[i] : i \in DOMAIN e} = {w[i] : i \in DOMAIN w} \cup {v}
  BY <1>1, <1>2, <1>3
<1> QED BY <1>1, <1>2, <1>7, <1>8, <1>9 DEF e

\* A complete path that begins with a walk not complete at its end goes on from there.
LEMMA PathGoesOn ==
  ASSUME NEW w, NEW p, Walk(w), Walk(p), Begins(w, p), ~Complete(w[Len(w)]), Complete(p[Len(p)])
  PROVE  \E v \in Targets(w[Len(w)]) :
           /\ \A i \in DOMAIN w : w[i] # v
           /\ Begins(Append(w, v), p)
<1>1. PICK n \in Nat, m \in Nat : /\ n = Len(w) /\ n >= 1 /\ DOMAIN w = 1..n /\ w \in Seq(Id)
                                 /\ m = Len(p) /\ DOMAIN p = 1..m /\ p \in Seq(Id) /\ n <= m
                                 /\ \A i \in 1..n : p[i] = w[i]
  BY DEF Walk, Begins
<1>2. n # m
  <2>1. n \in 1..n
    BY <1>1
  <2> QED BY <1>1, <2>1
<1>3. n \in 1..m - 1 /\ n + 1 \in 1..m /\ n + 1 \notin 1..n /\ n \in 1..n
  BY <1>1, <1>2
<1> DEFINE v == p[n + 1]
           e == Append(w, v)
<1>4. v \in Targets(w[n])
  BY <1>1, <1>3 DEF Walk
<1>5. \A i \in 1..n : i \in 1..m /\ i # n + 1
  BY <1>1, <1>3
<1>6. \A i \in 1..n : w[i] # v
  BY <1>1, <1>3, <1>5 DEF Walk
<1>7. /\ Len(e) = n + 1 /\ e[n + 1] = v /\ \A i \in 1..n : e[i] = w[i]
  BY <1>1
<1>8. \A i \in 1..n + 1 : i \in 1..n \/ i = n + 1
  OBVIOUS
<1>9. n + 1 <= m
  BY <1>3
<1> HIDE DEF e
<1>10. Begins(e, p)
  BY <1>1, <1>7, <1>8, <1>9 DEF Begins
<1> QED BY <1>1, <1>4, <1>6, <1>10 DEF e

\* Extend: the path gives way to its continuations, which are apart unless there are
\* twins, and among which every complete path that begins with it finds its own.
LEMMA ExtendKeeps ==
  ASSUME AnalyzerAssumption, TypeOK, PathInv, Extend
  PROVE  PathInv'
<1>1. /\ phase = "paths" /\ frontier # <<>> /\ Head(frontier).node \in Node
      /\ ~Complete(Head(frontier).node)
      /\ frontier' = Tail(frontier) \o Onward(Head(frontier))
      /\ trans' = trans /\ UNCHANGED <<phase, asked, count, within>>
  BY DEF Extend, Extending, defVars
<1>2. PICK D, q : Tally(D, count) /\ Searches(q, D)
  BY <1>1 DEF PathInv
<1>3. Traces(q) /\ Covers(q, D)
  BY <1>2 DEF Searches
<1>4. PICK w, n, vis : w = q[1] /\ n = Head(frontier).node /\ vis = Head(frontier).vis
  OBVIOUS
<1>5. /\ w \in Seq(Id) /\ Walk(w) /\ 1 \in 1..Len(q) /\ Begins(w, w) /\ n = w[Len(w)]
      /\ vis = {w[i] : i \in DOMAIN w} /\ n \in Node /\ ~Complete(n)
  BY <1>1, <1>3, <1>4, FirstPath
<1>6. PICK s : s = trans[n] /\ s \in Seq(Target)
  BY <1>5 DEF TypeOK
<1>0. PICK T : T = vis \cup {None}
  OBVIOUS
<1>7. PICK go \in Seq(Target) : go = Unmet(s, T) /\ Leaves(go, s, T, Len(s))
  BY <1>6, UnmetLeaves
<1>8. DOMAIN s = 1..Len(s) /\ DOMAIN go = 1..Len(go) /\ Len(go) \in Nat
  BY <1>6
<1>9. \A v : v \in Targets(n) <=> v # None /\ \E i \in 1..Len(s) : s[i] = v
  BY <1>6, <1>8 DEF Targets
<1>10. ASSUME NEW j \in 1..Len(go)
       PROVE  go[j] \in Id /\ go[j] \in Targets(n) /\ \A i \in DOMAIN w : w[i] # go[j]
  <2>1. go[j] \notin T /\ \E i \in 1..Len(s) : s[i] = go[j]
    BY <1>7, <1>8 DEF Leaves
  <2>2. go[j] \in Target
    OBVIOUS
  <2> QED BY <1>5, <1>9, <1>0, <2>1, <2>2 DEF Target
<1> DEFINE E == [j \in 1..Len(go) |-> Append(w, go[j])]
           F == [j \in 1..Len(go) |-> [node |-> go[j], vis |-> vis \cup {go[j]}]]
<1>11. frontier' = Tail(frontier) \o F
  BY <1>1, <1>4, <1>6, <1>7, <1>0 DEF Onward
<1>12. ASSUME NEW j \in 1..Len(go)
       PROVE  /\ E[j] \in Seq(Id) /\ Walk(E[j]) /\ Begins(w, E[j])
              /\ Len(E[j]) = Len(w) + 1 /\ E[j][Len(w) + 1] = go[j]
              /\ {E[j][i] : i \in DOMAIN E[j]} = vis \cup {go[j]}
  <2>1. PICK v : v = go[j]
    OBVIOUS
  <2>2. v \in Id /\ v \in Targets(w[Len(w)]) /\ \A i \in DOMAIN w : w[i] # v
    BY <1>5, <1>10, <2>1
  <2>3. E[j] = Append(w, v)
    BY <2>1
  <2>4. Walk(w) /\ w[Len(w)] \in Node /\ ~Complete(w[Len(w)])
    BY <1>5
  <2> HIDE DEF E
  <2>5. /\ Append(w, v) \in Seq(Id) /\ Walk(Append(w, v)) /\ Begins(w, Append(w, v))
        /\ Len(Append(w, v)) = Len(w) + 1 /\ Append(w, v)[Len(w) + 1] = v
        /\ {Append(w, v)[i] : i \in DOMAIN Append(w, v)} = {w[i] : i \in DOMAIN w} \cup {v}
    BY <2>2, <2>4, WalkGoesOn
  <2> QED BY <1>5, <2>1, <2>3, <2>5
<1>13. E \in Seq(Seq(Id)) /\ Len(E) = Len(go)
  BY <1>8, <1>12
<1>14. F \in Seq([node : Id, vis : SUBSET Id]) /\ Len(F) = Len(go)
  <2>1. vis \subseteq Id
    BY <1>5
  <2> QED BY <1>8, <1>10, <2>1
<1>15. \A j \in 1..Len(go) : F[j].node = go[j] /\ F[j].vis = vis \cup {go[j]}
  OBVIOUS
<1> HIDE DEF E, F
<1>16. Traced(F, E)
  BY <1>12, <1>13, <1>14, <1>15 DEF Traced
<1> DEFINE r == Tail(q) \o E
<1>17. /\ frontier' \in Seq([node : Id, vis : SUBSET Id])
       /\ q \in Seq(Seq(Id)) /\ q # <<>> /\ Renews(r, q, E) /\ Traces(r)'
  BY <1>1, <1>3, <1>11, <1>16, TracesKept
<1> HIDE DEF r
<1>18. ASSUME NEW p \in CompletePaths, Begins(q[1], p)
       PROVE  \E j \in 1..Len(E) : Begins(E[j], p)
  <2>1. Walk(p) /\ Complete(p[Len(p)])
    BY CompleteWalks
  <2>2. PICK v \in Targets(n) : (\A i \in DOMAIN w : w[i] # v) /\ Begins(Append(w, v), p)
    BY <1>4, <1>5, <1>18, <2>1, PathGoesOn
  <2>3. v \notin T /\ \E i \in 1..Len(s) : s[i] = v
    BY <1>5, <1>9, <1>0, <2>2
  <2>4. PICK j \in DOMAIN go : go[j] = v
    BY <1>7, <2>3 DEF Leaves
  <2>5. j \in 1..Len(E) /\ E[j] = Append(w, v)
    BY <1>8, <1>13, <2>4 DEF E
  <2> QED BY <2>2, <2>5
<1>19. Covers(r, D)
  BY <1>3, <1>13, <1>17, <1>18, CoversKept
<1>20. ASSUME NoTwins PROVE Apart(r, D)
  <2>1. Apart(q, D)
    BY <1>2, <1>20 DEF Searches
  <2>2. D \in SUBSET Seq(Id) /\ q[1] \notin D
    <3>1. \A p \in CompletePaths : p \in Seq(Id)
      BY CompleteWalks DEF Walk
    <3>2. q[1] \notin D
      BY <1>4, <1>5, <2>1 DEF Apart
    <3> QED BY <1>2, <3>1, <3>2 DEF Tally
  <2>3. ASSUME NEW j \in 1..Len(E), NEW k \in 2..Len(q), Begins(q[k], E[j])
        PROVE  FALSE
    <3>1. PICK m \in Nat : m = Len(w) /\ DOMAIN w = 1..m
      BY <1>5
    <3>2. /\ k \in 1..Len(q) /\ k # 1 /\ q[k] \in Seq(Id) /\ Len(q[k]) \in Nat
      BY <1>17
    <3>3. j \in 1..Len(go)
      BY <1>13
    <3>4. /\ E[j] \in Seq(Id) /\ Len(E[j]) = m + 1 /\ Begins(w, E[j])
      BY <1>12, <3>1, <3>3
    <3>5. CASE Len(q[k]) <= m
      <4>1. \A i \in 1..Len(q[k]) : i \in 1..m
        BY <3>1, <3>2, <3>5
      <4>2. \A i \in 1..m : E[j][i] = w[i]
        BY <3>1, <3>4 DEF Begins
      <4>3. Begins(q[k], w)
        BY <2>3, <3>1, <3>5, <4>1, <4>2 DEF Begins
      <4> QED BY <1>4, <1>5, <2>1, <3>2, <4>3 DEF Apart
    <3>6. CASE ~(Len(q[k]) <= m)
      <4>1. m <= Len(q[k]) /\ \A i \in 1..m : i \in 1..Len(q[k])
        BY <3>1, <3>2, <3>6
      <4>2. \A i \in 1..m : E[j][i] = w[i]
        BY <3>1, <3>4 DEF Begins
      <4>3. Begins(w, q[k])
        BY <2>3, <3>1, <4>1, <4>2 DEF Begins
      <4> QED BY <1>4, <1>5, <2>1, <3>2, <4>3 DEF Apart
    <3> QED BY <3>5, <3>6
  <2>4. ASSUME NEW i \in 1..Len(E), NEW j \in 1..Len(E), Begins(E[i], E[j])
        PROVE  i = j
    <3>1. i \in 1..Len(go) /\ j \in 1..Len(go)
      BY <1>13
    <3>2. PICK m \in Nat : m = Len(w)
      BY <1>5
    <3>3. m + 1 \in 1..m + 1
      BY <3>2
    <3>4. go[i] = go[j]
      <4>1. Len(E[i]) = m + 1 /\ E[i][m + 1] = go[i] /\ E[j][m + 1] = go[j]
        BY <1>12, <3>1, <3>2
      <4> QED BY <2>4, <3>3, <4>1 DEF Begins
    <3>5. \A a, b \in DOMAIN s : s[a] = s[b] => a = b
      BY <1>5, <1>6, <1>20, NoTargetTwice
    <3> QED BY <1>7, <1>8, <3>1, <3>4, <3>5 DEF Leaves
  <2>5. \A j \in 1..Len(E) : Begins(q[1], E[j]) /\ \A k \in 2..Len(q) : ~Begins(q[k], E[j])
    BY <1>4, <1>12, <1>13, <2>3
  <2> QED BY <1>13, <1>17, <2>1, <2>2, <2>4, <2>5, ApartKept
<1>21. Searches(r, D)'
  BY <1>1, <1>17, <1>19, <1>20, PathsFixed DEF Searches
<1>22. Tally(D, count)'
  BY <1>1, <1>2, PathsFixed
<1>23. phase' = "paths" /\ within' /\ count' <= MaxPaths /\ ~Analyzed'
  BY <1>1 DEF PathInv, Analyzed
<1> QED BY <1>17, <1>21, <1>22, <1>23 DEF PathInv

\* The path search keeps to its invariant, whatever the other searches do.
LEMMA PathStep == AnalyzerAssumption /\ TypeOK /\ PathInv /\ [Next]_vars => PathInv'
<1> SUFFICES ASSUME AnalyzerAssumption, TypeOK, PathInv, [Next]_vars PROVE PathInv'
  OBVIOUS
<1>1. CASE Pop \/ Scan \/ Root \/ Push \/ Backtrack \/ Found \/ Collect \/ Collected \/ NoCycle
  <2>1. trans' = trans /\ UNCHANGED pathVars /\ phase # "done" /\ phase' # "done"
    BY <1>1 DEF Pop, Scan, Root, Push, Backtrack, Found, Collect, Collected, NoCycle,
                Descending, defVars
  <2> QED BY <2>1, PathFrame DEF Analyzed
<1>2. CASE Searched
  <2>1. trans' = trans /\ UNCHANGED pathVars /\ phase # "done" /\ ~Analyzed'
    BY <1>2 DEF Searched, defVars, Analyzed
  <2> QED BY <2>1, PathFrame
<1>3. CASE UNCHANGED vars
  <2>1. trans' = trans /\ UNCHANGED pathVars /\ phase' = phase /\ asked' = asked
    BY <1>3 DEF vars, defVars, pathVars
  <2> QED BY <2>1, PathFrame DEF Analyzed
<1>4. CASE Stray
  BY <1>4, StrayKeeps
<1>5. CASE Counted
  BY <1>5, CountedKeeps
<1>6. CASE Extend
  BY <1>6, ExtendKeeps
<1>7. CASE TooMany
  <2>1. /\ phase = "paths" /\ phase' = "done" /\ ~within'
        /\ trans' = trans /\ frontier' = frontier /\ count' = count
    BY <1>7 DEF TooMany, defVars
  <2>2. PICK D : Tally(D, count)
    BY <2>1 DEF PathInv
  <2>3. Tally(D, count)'
    BY <2>1, <2>2, PathsFixed
  <2> QED BY <2>1, <2>3 DEF PathInv
<1>8. CASE AllPaths
  <2>1. /\ phase = "paths" /\ phase' = "done" /\ frontier = <<>>
        /\ trans' = trans /\ frontier' = frontier /\ count' = count /\ within' = within
    BY <1>8 DEF AllPaths, defVars, pathVars
  <2>2. PICK D, q : Tally(D, count) /\ Searches(q, D)
    BY <2>1 DEF PathInv
  <2>3. Len(q) = 0
    BY <2>1, <2>2 DEF Searches, Traces
  <2>4. D = CompletePaths /\ count <= MaxPaths
    <3>1. 1..Len(q) = {}
      BY <2>3
    <3>2. \A p \in CompletePaths : p \in D
      BY <2>2, <3>1 DEF Searches, Covers
    <3>3. D \subseteq CompletePaths
      BY <2>2 DEF Tally
    <3>4. count <= MaxPaths
      BY <2>1 DEF PathInv
    <3>5. \A p \in D : p \in CompletePaths
      BY <3>3
    <3> QED BY <3>2, <3>4, <3>5
  <2>5. Tally(D, count)' /\ D = CompletePaths'
    BY <2>1, <2>2, <2>4, PathsFixed
  <2> QED BY <2>1, <2>4, <2>5 DEF PathInv
<1> QED BY <1>1, <1>2, <1>3, <1>4, <1>5, <1>6, <1>7, <1>8 DEF Next

\* pathsWithinBudget passes a definition only if it has no more complete simple paths
\* than MaxAnalysisPaths, and refuses it by count only if it has more; where a node
\* names a target twice the count is of transitions, and only the first is sure.
THEOREM PathsCounted == Spec => []PathBudget
<1>1. Init => PathInv
  BY AnalyzerAssumption, PathInit
<1>2. TypeOK /\ PathInv /\ [Next]_vars => PathInv'
  BY AnalyzerAssumption, PathStep
<1>3. TypeOK /\ PathInv => PathBudget
  <2> SUFFICES ASSUME TypeOK, PathInv, Analyzed
               PROVE  /\ within => Cardinality(CompletePaths) <= MaxPaths
                      /\ count > MaxPaths /\ NoTwins => Cardinality(CompletePaths) > MaxPaths
    BY DEF PathBudget
  <2>1. PICK D : /\ Tally(D, count)
                 /\ within => D = CompletePaths /\ count <= MaxPaths
    BY DEF PathInv
  <2>2. PICK C : C = CompletePaths /\ IsFiniteSet(C)
    BY AnalyzerAssumption, PathsFinite
  <2>3. D \subseteq C /\ Cardinality(D) <= Cardinality(C)
    BY <2>1, <2>2, FS_Subset DEF Tally
  <2>4. PICK d \in Nat, c \in Nat : d = Cardinality(D) /\ c = Cardinality(C)
    BY <2>1, <2>2, FS_CardinalityType DEF Tally
  <2>5. count \in Nat /\ MaxPaths \in Nat
    BY AnalyzerAssumption DEF TypeOK
  <2>6. within => c = d /\ d <= count /\ count <= MaxPaths
    BY <2>1, <2>2, <2>4 DEF Tally
  <2>7. NoTwins => count = d /\ d <= c
    BY <2>1, <2>3, <2>4 DEF Tally
  <2>8. (within => c <= MaxPaths) /\ (count > MaxPaths /\ NoTwins => c > MaxPaths)
    BY <2>5, <2>6, <2>7
  <2> QED BY <2>2, <2>4, <2>8
<1> QED BY <1>1, <1>2, <1>3, TypeCorrect, PTL DEF Spec
=============================================================================
