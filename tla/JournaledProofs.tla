--------------------------- MODULE JournaledProofs ---------------------------
(***************************************************************************)
(* Theorems about JournaledInstance: what the journal, the executor and the *)
(* context of a call say of one another, however often the process crashes, *)
(* as long as the journal accepts what is written to it (lost = 0).         *)
(***************************************************************************)
EXTENDS JournalProofs

-----------------------------------------------------------------------------
(* The inductive invariant, part by part. *)

Entry == [key : Cmd, done : BOOLEAN]

Context == [bound : BOOLEAN, status : Status, current : Node \cup {NoNode},
            event : EventId \cup {NoEvent}, consumed : SUBSET EventId,
            visits : [Node -> 0 .. MaxNodeVisits], undo : Seq(Entry)]

Answers == {"completed", "failed", "skipped"}

CommandFact == [kind : {"command_issued", "compensation_pushed", "compensation_fired"}, cmd : Cmd]
                 \cup [kind : {"command_result"}, cmd : Cmd, answer : Answers]

Fact == [kind : {"started"}] \cup [kind : {"event_consumed"}, event : EventId]
          \cup [kind : {"node_visited"}, node : Node]
          \cup [kind : {"transition", "node_set"}, node : Node \cup {NoNode}]
          \cup [kind : {"status"}, status : Status] \cup CommandFact

Calls == [op : {"start", "feed"}, event : EventId] \cup [op : {"compensate"}, event : {NoEvent}]

JournalInv ==
  /\ log \in Seq(Fact)
  /\ {rebuilt, restored, ctx} \subseteq Context
  /\ snap \in [upto : 0 .. Len(log), ctx : Context]

DataInv ==
  /\ executed \subseteq Cmd /\ queue \subseteq Cmd /\ created \in BOOLEAN
  /\ cmd \in Cmd \cup {NoCmd} /\ answer \in Answers \cup {"none"}
  /\ {emit, goal} \subseteq Node \cup {NoNode}

TypeInv == JournalInv /\ DataInv

\* Where a call may stand before the context is bound to an instance.
UnboundAt == {"idle", "bind", "redeliver", "accept", "drain", "compensate", "sync"}
Stepping  == {"decide", "move", "dispatch"}
Carrying  == {"execute", "resolve"}

\* What a call knows at the point it has reached.
CallInv ==
  /\ ~created => log = <<>> /\ pc = "idle"
  /\ pc # "idle" => call \in Calls
  /\ pc \in {"bind", "accept"} => call.op # "compensate"
  /\ pc = "idle" => ctx = Blank
  /\ pc = "bind" => ctx = Blank /\ log = <<>>
  /\ pc # "idle" /\ ~ctx.bound =>
       /\ log = <<>> /\ pc \in UnboundAt
       /\ ctx.current = NoNode /\ ctx.undo = <<>>
       /\ call.op = "start" => pc = "bind"
  /\ pc \in Stepping => emit \in Node
  /\ pc = "decide" => ctx.current = emit
  /\ pc = "move" => ctx.status = "running"
  /\ pc \in Carrying \cup {"push"} => back \in {"redeliver", "judge", "compensate"}

\* Two contexts are the same but for the current event; that too, if every event
\* has a name.
Named == \A e \in EventId : NameOf[e] # NoName
Agrees(c, d) ==
  /\ c.bound = d.bound /\ c.status = d.status /\ c.current = d.current
  /\ c.consumed = d.consumed /\ c.visits = d.visits /\ c.undo = d.undo
  /\ Named => c.event = d.event

LiveInv ==
  /\ log = <<>> => rebuilt = Blank /\ restored = Blank
  /\ log # <<>> => rebuilt.bound
  /\ Agrees(restored, rebuilt)
  /\ ctx.bound => Agrees(ctx, rebuilt)

FoldInv ==
  /\ rebuilt = Fold(log)
  /\ restored = IF snap.upto = 0 THEN rebuilt
                ELSE FoldOnto(snap.ctx, occurrencesAfter(log, snap.upto))

\* One command at most is unresolved, and every call past redelivery knows it.
PendingInv ==
  /\ \A c, d \in PendingCommands : c = d
  /\ pc = "redeliver" => queue = PendingCommands
  /\ pc \in Carrying => PendingCommands = {cmd} /\ cmd \in Cmd
  /\ pc \notin Carrying \cup {"idle", "redeliver"} => PendingCommands = {}
  /\ pc \in Carrying \cup {"push"} /\ back = "redeliver" => queue = {}

\* What the facts about commands say of what was carried out.
RecordInv ==
  /\ \A c \in Issued : Latest(c) # {}
  /\ executed \subseteq Issued
  /\ Answered(Answers) \subseteq Issued \ PendingCommands
  /\ FailedCommands \cap executed = {}
  /\ Issued \ PendingCommands \subseteq executed \cup FailedCommands
  /\ pc = "resolve" =>
       /\ answer \in Answers
       /\ answer = "failed" <=> cmd \notin executed
       /\ answer = "completed" => \A i \in DOMAIN rebuilt.undo : Origin(rebuilt.undo[i].key) # cmd
  /\ pc = "push" =>
       /\ cmd \in executed /\ ~IsUndo(cmd) /\ cmd.node \in Compensable
       /\ \A i \in DOMAIN rebuilt.undo : Origin(rebuilt.undo[i].key) # cmd

\* The undo stack holds each effect once, at the place its key names.
UndoInv ==
  /\ \A i \in DOMAIN rebuilt.undo :
       LET key == rebuilt.undo[i].key
       IN  key.pos = i /\ key.node \in Compensable /\ Origin(key) \in executed
  /\ \A i, j \in DOMAIN rebuilt.undo :
       Origin(rebuilt.undo[i].key) = Origin(rebuilt.undo[j].key) => i = j

\* The compensation of key c was begun.
Done(undo, c) == c.pos \in DOMAIN undo /\ undo[c.pos] = [key |-> c, done |-> TRUE]

\* No key the journal knows can come up again.
FreshInv ==
  /\ \A c \in Issued : IF IsUndo(c) THEN Done(rebuilt.undo, c) ELSE c.visit <= rebuilt.visits[c.node]
  /\ pc \in Stepping =>
       /\ rebuilt.visits[emit] > 0
       /\ \A c \in Issued : ~IsUndo(c) /\ c.node = emit => c.visit < rebuilt.visits[emit]
  /\ pc = "undo" => IsUndo(cmd) /\ Done(rebuilt.undo, cmd) /\ cmd \notin Issued

\* The journal's facts about compensation are those of the undo stack, in order.
OrderInv ==
  /\ \A i \in DOMAIN log : log[i].kind = "compensation_fired" => Done(rebuilt.undo, log[i].cmd)
  /\ \A j \in DOMAIN log : log[j].kind = "compensation_pushed" =>
       /\ log[j].cmd.pos \in DOMAIN rebuilt.undo
       /\ rebuilt.undo[log[j].cmd.pos].key = log[j].cmd
       /\ Done(rebuilt.undo, log[j].cmd) =>
            \E k \in j + 1 .. Len(log) : log[k].kind = "compensation_fired" /\ log[k].cmd = log[j].cmd
  /\ UndoneInReverse

Inv == /\ TypeInv /\ CallInv /\ LiveInv /\ FoldInv
       /\ PendingInv /\ RecordInv /\ UndoInv /\ FreshInv /\ OrderInv

IInv == lost \in Nat /\ (lost = 0 => Inv)

-----------------------------------------------------------------------------
(* Applying one fact to a context.                                         *)

\* Marking entries as done keeps a stack a stack of the same keys.
LEMMA FiredType ==
  ASSUME NEW undo \in Seq(Entry), NEW key
  PROVE  /\ Fired(undo, key) \in Seq(Entry)
         /\ DOMAIN Fired(undo, key) = DOMAIN undo
         /\ \A i \in DOMAIN undo : Fired(undo, key)[i] =
              [key |-> undo[i].key, done |-> (undo[i].done \/ undo[i].key = key)]
<1>1. \A i \in DOMAIN undo : undo[i] \in Entry
  OBVIOUS
<1>2. DOMAIN undo = 1 .. Len(undo) /\ Len(undo) \in Nat
  OBVIOUS
<1>3. DOMAIN Fired(undo, key) = DOMAIN undo
  BY DEF Fired
<1>4. ASSUME NEW i \in DOMAIN undo
      PROVE  Fired(undo, key)[i] = [key |-> undo[i].key, done |-> (undo[i].done \/ undo[i].key = key)]
  <2>1. Fired(undo, key)[i] = IF undo[i].key = key THEN [undo[i] EXCEPT !.done = TRUE] ELSE undo[i]
    BY DEF Fired
  <2>2. PICK e \in Entry : e = undo[i]
    BY <1>1
  <2>3. (IF e.key = key THEN [e EXCEPT !.done = TRUE] ELSE e)
          = [key |-> e.key, done |-> (e.done \/ e.key = key)]
    BY DEF Entry
  <2> QED BY <2>1, <2>2, <2>3
<1>5. ASSUME NEW i \in DOMAIN undo PROVE Fired(undo, key)[i] \in Entry
  <2>1. Fired(undo, key)[i] = IF undo[i].key = key THEN [undo[i] EXCEPT !.done = TRUE] ELSE undo[i]
    BY DEF Fired
  <2>2. PICK e \in Entry : e = undo[i]
    BY <1>1
  <2>3. (IF e.key = key THEN [e EXCEPT !.done = TRUE] ELSE e) \in Entry
    BY DEF Entry
  <2> QED BY <2>1, <2>2, <2>3
<1>6. Fired(undo, key) \in Seq(Entry)
  <2> DEFINE g == Fired(undo, key)
             n == Len(undo)
  <2>1. g = [i \in 1 .. n |-> g[i]]
    BY <1>2, <1>3 DEF Fired
  <2>2. n \in Nat /\ \A i \in 1 .. n : g[i] \in Entry
    BY <1>2, <1>5
  <2> HIDE DEF g, n
  <2>3. [i \in 1 .. n |-> g[i]] \in Seq(Entry)
    BY <2>2
  <2> QED BY <2>1, <2>3 DEF g
<1> QED BY <1>3, <1>4, <1>6

\* A context stays a context, as long as the visit fuse holds.
LEMMA ApplyOccType ==
  ASSUME NEW c \in Context, NEW f \in Fact,
         f.kind = "node_visited" => c.visits[f.node] < MaxNodeVisits
  PROVE  ApplyOcc(c, f) \in Context
<1> USE DEF Context, ApplyOcc
<1>1. CASE f.kind = "started"
  BY <1>1
<1>2. CASE f.kind = "event_consumed"
  BY <1>2 DEF Fact, CommandFact
<1>3. CASE f.kind = "node_visited"
  <2>1. f.node \in Node /\ c.visits[f.node] + 1 \in 0 .. MaxNodeVisits
    BY <1>3, JournaledAssumption DEF Fact, CommandFact
  <2>2. Visited(c.visits, f.node) \in [Node -> 0 .. MaxNodeVisits]
    BY <2>1 DEF Visited
  <2> QED BY <1>3, <2>2
<1>4. CASE f.kind = "transition"
  BY <1>4 DEF Fact, CommandFact, Status
<1>5. CASE f.kind = "node_set"
  BY <1>5 DEF Fact, CommandFact
<1>6. CASE f.kind = "status"
  BY <1>6 DEF Fact, CommandFact
<1>7. CASE f.kind = "compensation_pushed"
  <2>1. [key |-> f.cmd, done |-> FALSE] \in Entry
    BY <1>7 DEF Fact, CommandFact, Entry
  <2>2. Append(c.undo, [key |-> f.cmd, done |-> FALSE]) \in Seq(Entry)
    BY <2>1, AppendProperties
  <2> QED BY <1>7, <2>2
<1>8. CASE f.kind = "compensation_fired"
  <2>1. c.undo \in Seq(Entry)
    OBVIOUS
  <2>2. Fired(c.undo, f.cmd) \in Seq(Entry)
    BY <2>1, FiredType
  <2> QED BY <1>8, <2>2
<1> QED BY <1>1, <1>2, <1>3, <1>4, <1>5, <1>6, <1>7, <1>8

\* Contexts that agree still agree after the same fact.
LEMMA ApplyOccAgrees ==
  ASSUME NEW c \in Context, NEW d \in Context, NEW f \in Fact, Agrees(c, d)
  PROVE  Agrees(ApplyOcc(c, f), ApplyOcc(d, f))
BY DEF Context, ApplyOcc, Agrees

\* Most facts leave the visits and the undo stack alone, and only the first one binds.
LEMMA ApplyOccRest ==
  ASSUME NEW c \in Context, NEW f
  PROVE  /\ f.kind # "node_visited" => ApplyOcc(c, f).visits = c.visits
         /\ f.kind \notin {"compensation_pushed", "compensation_fired"} =>
              ApplyOcc(c, f).undo = c.undo
         /\ ApplyOcc(c, f).bound = (c.bound \/ f.kind = "started")
BY DEF Context, ApplyOcc

-----------------------------------------------------------------------------
(* What a recorded fact leaves true of the journal and the contexts.       *)

\* A fact of the context's instance keeps the three contexts in step.
LEMMA RecordedFact ==
  ASSUME JournalInv, LiveInv, FoldInv,
         NEW c \in Context, NEW f \in Fact, ctx' = c, snap' = snap, Appended(f),
         c.bound, Agrees(c, ApplyOcc(rebuilt, f)),
         f.kind = "node_visited" => rebuilt.visits[f.node] < MaxNodeVisits
  PROVE  JournalInv' /\ LiveInv' /\ FoldInv'
<1>1. /\ log' = Append(log, f) /\ log' \in Seq(Fact) /\ log' # <<>> /\ Len(log') = Len(log) + 1
      /\ Len(log) \in Nat
  BY LogGrows DEF Appended, JournalInv
<1>2. /\ rebuilt' = ApplyOcc(rebuilt, f) /\ restored' = ApplyOcc(restored, f)
      /\ ctx' = c /\ snap' = snap
  BY DEF Appended
<1>3. rebuilt \in Context /\ restored \in Context /\ restored.visits = rebuilt.visits
  BY DEF JournalInv, LiveInv, Agrees
<1>4. rebuilt' \in Context /\ restored' \in Context
  BY <1>2, <1>3, ApplyOccType
<1>5. snap' \in [upto : 0 .. Len(log'), ctx : Context]
  BY <1>1, <1>2 DEF JournalInv
<1>6. JournalInv'
  BY <1>1, <1>2, <1>4, <1>5 DEF JournalInv
<1>7. Agrees(restored', rebuilt')
  BY <1>2, <1>3, ApplyOccAgrees DEF LiveInv
<1>8. Agrees(ctx', rebuilt') /\ rebuilt'.bound
  BY <1>2 DEF Agrees
<1>9. LiveInv'
  BY <1>1, <1>7, <1>8 DEF LiveInv, Agrees, Named
<1>10. Fold(log') = rebuilt'
  <2>1. Fold(log') = ApplyOcc(Fold(log), f)
    BY <1>1, FoldOfAppend DEF Fold, JournalInv
  <2> QED BY <2>1, <1>2 DEF FoldInv
<1>11. restored' = IF snap'.upto = 0 THEN rebuilt'
                   ELSE FoldOnto(snap'.ctx, occurrencesAfter(log', snap'.upto))
  <2>1. snap.upto \in 0 .. Len(log) /\ log \in Seq(Fact)
    BY DEF JournalInv
  <2>2. /\ occurrencesAfter(log, snap.upto) \in Seq(Fact)
        /\ occurrencesAfter(log', snap.upto) = Append(occurrencesAfter(log, snap.upto), f)
    BY <1>1, <2>1, AfterGrows
  <2>3. FoldOnto(snap.ctx, occurrencesAfter(log', snap.upto))
          = ApplyOcc(FoldOnto(snap.ctx, occurrencesAfter(log, snap.upto)), f)
    BY <2>2, FoldOfAppend
  <2> QED BY <1>2, <2>3 DEF FoldInv
<1>12. FoldInv'
  BY <1>10, <1>11 DEF FoldInv
<1> QED BY <1>6, <1>9, <1>12

\* A fact that is not about compensation leaves the order of compensation alone.
LEMMA OrderKept ==
  ASSUME log \in Seq(Fact), NEW f \in Fact, log' = Append(log, f),
         f.kind \notin {"compensation_pushed", "compensation_fired"},
         rebuilt'.undo = rebuilt.undo, OrderInv
  PROVE  OrderInv'
<1>1. /\ DOMAIN log = 1 .. Len(log) /\ DOMAIN log' = 1 .. Len(log) + 1 /\ Len(log) \in Nat
      /\ Len(log') = Len(log) + 1 /\ log'[Len(log) + 1] = f
      /\ \A i \in DOMAIN log : log'[i] = log[i]
  BY LogGrows
<1>2. \A i \in DOMAIN log' :
        log'[i].kind \in {"compensation_pushed", "compensation_fired"} =>
          i \in DOMAIN log /\ log'[i] = log[i] /\ i \in Nat /\ 1 .. i - 1 \subseteq DOMAIN log
  BY <1>1
<1>3. \A c : Done(rebuilt'.undo, c) <=> Done(rebuilt.undo, c)
  OBVIOUS
<1>4. \A i \in DOMAIN log' : log'[i].kind = "compensation_fired" => Done(rebuilt'.undo, log'[i].cmd)
  BY <1>2, <1>3 DEF OrderInv
<1>5. ASSUME NEW j \in DOMAIN log', log'[j].kind = "compensation_pushed"
      PROVE  /\ log'[j].cmd.pos \in DOMAIN rebuilt'.undo
             /\ rebuilt'.undo[log'[j].cmd.pos].key = log'[j].cmd
             /\ Done(rebuilt'.undo, log'[j].cmd) =>
                  \E k \in j + 1 .. Len(log') : log'[k].kind = "compensation_fired" /\ log'[k].cmd = log'[j].cmd
  <2>1. j \in DOMAIN log /\ log'[j] = log[j] /\ log[j].kind = "compensation_pushed"
    BY <1>2, <1>5
  <2>2. ASSUME Done(rebuilt.undo, log[j].cmd)
        PROVE  \E k \in j + 1 .. Len(log') : log'[k].kind = "compensation_fired" /\ log'[k].cmd = log[j].cmd
    <3>1. PICK k \in j + 1 .. Len(log) : log[k].kind = "compensation_fired" /\ log[k].cmd = log[j].cmd
      BY <2>1, <2>2 DEF OrderInv
    <3>2. k \in DOMAIN log /\ k \in j + 1 .. Len(log')
      BY <1>1, <2>1
    <3>3. log'[k] = log[k]
      BY <1>1, <3>2
    <3> QED BY <3>1, <3>2, <3>3
  <2> QED BY <1>3, <2>1, <2>2 DEF OrderInv
<1>6. UndoneInReverse'
  <2> SUFFICES ASSUME NEW i \in DOMAIN log', log'[i].kind = "compensation_fired"
               PROVE  /\ \A j \in 1 .. i - 1 : log'[j].kind = "compensation_fired" => log'[j].cmd # log'[i].cmd
                      /\ \A j \in 1 .. i - 1 :
                           log'[j].kind = "compensation_pushed" /\ log'[j].cmd.pos > log'[i].cmd.pos =>
                             \E k \in j + 1 .. i - 1 :
                               log'[k].kind = "compensation_fired" /\ log'[k].cmd = log'[j].cmd
    BY DEF UndoneInReverse
  <2>1. /\ i \in DOMAIN log /\ log'[i] = log[i] /\ log[i].kind = "compensation_fired" /\ i \in Nat
        /\ 1 .. i - 1 \subseteq DOMAIN log
    BY <1>2
  <2>2. \A j \in 1 .. i - 1 : log'[j] = log[j]
    BY <1>1, <2>1
  <2>3. \A j \in 1 .. i - 1 : j + 1 .. i - 1 \subseteq 1 .. i - 1
    BY <2>1
  <2> QED BY <2>1, <2>2, <2>3 DEF OrderInv, UndoneInReverse
<1> QED BY <1>4, <1>5, <1>6 DEF OrderInv

\* Nothing is asked of the journal's answers but these.
CommandFrame ==
  /\ Issued' = Issued /\ PendingCommands' = PendingCommands /\ FailedCommands' = FailedCommands
  /\ Answered(Answers)' = Answered(Answers)
  /\ \A c : Latest(c)' = Latest(c)
  /\ rebuilt'.undo = rebuilt.undo /\ rebuilt'.visits = rebuilt.visits

\* Where nothing is written, nothing about a command changes.
LEMMA FrameOfSame ==
  ASSUME log' = log, rebuilt' = rebuilt, OrderInv
  PROVE  CommandFrame /\ OrderInv'
<1>1. \A k : Facts(k)' = Facts(k)
  BY DEF Facts
<1>2. Issued' = Issued /\ Answered(Answers)' = Answered(Answers)
  BY <1>1 DEF Issued, Answered
<1>3. \A c : About(c)' = About(c)
  BY DEF About
<1>4. \A c : Latest(c)' = Latest(c)
  BY <1>3 DEF Latest
<1>5. PendingCommands' = PendingCommands /\ FailedCommands' = FailedCommands
  BY <1>2, <1>4 DEF PendingCommands, FailedCommands
<1>7. UndoneInReverse' <=> UndoneInReverse
  BY DEF UndoneInReverse
<1>8. OrderInv'
  BY <1>7 DEF OrderInv
<1> QED BY <1>2, <1>4, <1>5, <1>8 DEF CommandFrame

QuietKinds == {"started", "event_consumed", "transition", "node_set", "status"}

\* A fact of a quiet kind changes nothing about a command.
LEMMA FrameOfQuiet ==
  ASSUME log \in Seq(Fact), rebuilt \in Context, NEW f \in Fact, f.kind \in QuietKinds,
         log' = Append(log, f), rebuilt' = ApplyOcc(rebuilt, f), OrderInv
  PROVE  CommandFrame /\ OrderInv'
<1>1. rebuilt'.undo = rebuilt.undo /\ rebuilt'.visits = rebuilt.visits
  BY ApplyOccRest DEF QuietKinds
<1>2. OrderInv'
  BY <1>1, OrderKept DEF QuietKinds
<1>3. f.kind \notin {"command_issued", "command_result"}
  BY DEF QuietKinds
<1>4. /\ Issued' = Issued /\ PendingCommands' = PendingCommands /\ FailedCommands' = FailedCommands
      /\ \A A : Answered(A)' = Answered(A)
      /\ \A c : Latest(c)' = Latest(c)
  BY <1>3, QuietFact
<1> QED BY <1>1, <1>2, <1>4 DEF CommandFrame

\* Where the command variables do not matter.
Calm == {"idle", "bind", "accept", "place", "run", "drain", "decide", "move", "dispatch",
         "judge", "compensate", "sync"}

\* A step between two such points that asks nothing of the journal's commands.
LEMMA QuietStep ==
  ASSUME CommandFrame, executed' = executed, pc' \in Calm,
         PendingInv, RecordInv, UndoInv, FreshInv,
         PendingCommands = {} \/ pc' = "idle",
         pc' \in Stepping => pc \in Stepping /\ emit' = emit
  PROVE  PendingInv' /\ RecordInv' /\ UndoInv' /\ FreshInv'
<1>1. PendingInv'
  BY DEF CommandFrame, PendingInv, Calm, Carrying
<1>2. RecordInv'
  BY DEF CommandFrame, RecordInv, Calm
<1>3. UndoInv'
  BY DEF CommandFrame, UndoInv
<1>4. FreshInv'
  <2>1. rebuilt'.undo = rebuilt.undo /\ rebuilt'.visits = rebuilt.visits
    BY DEF CommandFrame
  <2> QED BY <2>1 DEF CommandFrame, FreshInv, Calm
<1> QED BY <1>1, <1>2, <1>3, <1>4

\* The call's context follows the fact as the journal's does.
LEMMA LiveFact ==
  ASSUME JournalInv, LiveInv, NEW c, NEW f \in Fact, ctx.bound, Agrees(c, ApplyOcc(ctx, f))
  PROVE  Agrees(c, ApplyOcc(rebuilt, f))
<1>1. Agrees(ApplyOcc(ctx, f), ApplyOcc(rebuilt, f))
  BY ApplyOccAgrees DEF JournalInv, LiveInv
<1> QED BY <1>1 DEF Agrees

\* A step that writes nothing, and goes on with the context or takes another
\* one the journal stands for.
LEMMA UnwrittenStep ==
  ASSUME JournalInv, LiveInv, FoldInv, UNCHANGED journal, snap' = snap,
         ctx' \in Context, ctx'.bound => Agrees(ctx', rebuilt)
  PROVE  JournalInv' /\ LiveInv' /\ FoldInv'
<1> USE DEF journal
<1>1. JournalInv'
  BY DEF JournalInv
<1>2. LiveInv'
  BY DEF LiveInv, Agrees, Named
<1>3. FoldInv'
  BY DEF FoldInv
<1> QED BY <1>1, <1>2, <1>3

CommandInv == PendingInv /\ RecordInv /\ UndoInv /\ FreshInv /\ OrderInv
JournalPart == JournalInv /\ LiveInv /\ FoldInv

\* A quiet fact recorded, or kept from the journal of no instance.
LEMMA QuietRecord ==
  ASSUME Inv, lost' = lost, lost \in Nat, executed' = executed,
         NEW c \in Context, NEW f \in Fact, f.kind \in QuietKinds, Record(c, f),
         c.bound => Agrees(c, ApplyOcc(rebuilt, f)),
         PendingCommands = {}, pc' \in Calm,
         pc' \in Stepping => pc \in Stepping /\ emit' = emit
  PROVE  JournalPart' /\ CommandInv'
<1>0. JournalInv /\ LiveInv /\ FoldInv /\ CommandInv /\ log \in Seq(Fact) /\ rebuilt \in Context
  BY DEF Inv, TypeInv, JournalInv, CommandInv
<1>1. ctx' = c /\ snap' = snap /\ IF c.bound THEN Appended(f) ELSE UNCHANGED journal
  BY DEF Record
<1>2. CASE c.bound
  <2>1. JournalPart'
    <3>1. Appended(f) /\ f.kind # "node_visited"
      BY <1>1, <1>2 DEF QuietKinds
    <3> QED BY <1>0, <1>1, <1>2, <3>1, RecordedFact DEF JournalPart
  <2>2. CommandFrame /\ OrderInv'
    BY <1>0, <1>1, <1>2, FrameOfQuiet DEF Appended, CommandInv
  <2> QED BY <1>0, <2>1, <2>2, QuietStep DEF CommandInv
<1>3. CASE ~c.bound
  <2>1. JournalPart'
    BY <1>0, <1>1, <1>3, UnwrittenStep DEF JournalPart
  <2>2. CommandFrame /\ OrderInv'
    BY <1>0, <1>1, <1>3, FrameOfSame DEF journal, CommandInv
  <2> QED BY <1>0, <2>1, <2>2, QuietStep DEF CommandInv
<1> QED BY <1>2, <1>3

\* A silent step between two points where no command is under way.
LEMMA QuietSilence ==
  ASSUME Inv, UNCHANGED <<journal, snap, executed>>,
         ctx' \in Context, ctx'.bound => Agrees(ctx', rebuilt),
         PendingCommands = {} \/ pc' = "idle", pc' \in Calm,
         pc' \in Stepping => pc \in Stepping /\ emit' = emit
  PROVE  JournalPart' /\ CommandInv'
<1>0. JournalInv /\ LiveInv /\ FoldInv /\ CommandInv
  BY DEF Inv, TypeInv, CommandInv
<1>1. JournalPart'
  BY <1>0, UnwrittenStep DEF JournalPart
<1>2. CommandFrame /\ OrderInv'
  BY <1>0, FrameOfSame DEF journal, CommandInv
<1> QED BY <1>0, <1>1, <1>2, QuietStep DEF CommandInv

-----------------------------------------------------------------------------
(* The steps, one by one: first those that record a quiet fact.            *)

\* The status of the call's context, set and recorded.
LEMMA StatusFact ==
  ASSUME JournalInv, LiveInv, NEW s \in Status
  PROVE  /\ [kind |-> "status", status |-> s] \in Fact
         /\ [ctx EXCEPT !.status = s] \in Context
         /\ [ctx EXCEPT !.status = s].bound = ctx.bound
         /\ ctx.bound => Agrees([ctx EXCEPT !.status = s],
                                ApplyOcc(rebuilt, [kind |-> "status", status |-> s]))
<1>1. [kind |-> "status", status |-> s] \in Fact
  BY DEF Fact
<1>2. [ctx EXCEPT !.status = s] \in Context /\ [ctx EXCEPT !.status = s].bound = ctx.bound
  BY DEF JournalInv, Context
<1>3. Agrees([ctx EXCEPT !.status = s], ApplyOcc(ctx, [kind |-> "status", status |-> s]))
  BY DEF JournalInv, Context, Agrees, ApplyOcc
<1> QED BY <1>1, <1>2, <1>3, LiveFact

\* Setting the status writes it down first (setStatus).
LEMMA StatusStep ==
  ASSUME Inv, lost' = lost, lost \in Nat, executed' = executed,
         NEW s \in Status, SetStatus(s), PendingCommands = {}, pc' \in Calm,
         pc' \in Stepping => pc \in Stepping /\ emit' = emit
  PROVE  /\ JournalPart' /\ CommandInv'
         /\ ctx' = [ctx EXCEPT !.status = s] /\ ctx'.bound = ctx.bound /\ ctx'.status = s
         /\ ctx'.current = ctx.current /\ ctx'.undo = ctx.undo
         /\ ~ctx.bound => log' = log
<1>1. JournalInv /\ LiveInv /\ ctx \in Context
  BY DEF Inv, TypeInv, JournalInv
<1>2. /\ [kind |-> "status", status |-> s] \in Fact
      /\ [ctx EXCEPT !.status = s] \in Context
      /\ [ctx EXCEPT !.status = s].bound = ctx.bound
      /\ ctx.bound => Agrees([ctx EXCEPT !.status = s],
                             ApplyOcc(rebuilt, [kind |-> "status", status |-> s]))
  BY <1>1, StatusFact
<1>3. Record([ctx EXCEPT !.status = s], [kind |-> "status", status |-> s])
  BY DEF SetStatus
<1>4. [kind |-> "status", status |-> s].kind \in QuietKinds
  BY DEF QuietKinds
<1>5. JournalPart' /\ CommandInv'
  BY <1>2, <1>3, <1>4, QuietRecord
<1>6. ctx' = [ctx EXCEPT !.status = s] /\ (~ctx.bound => log' = log)
  BY <1>2, <1>3 DEF Record, journal
<1> QED BY <1>1, <1>2, <1>5, <1>6 DEF Context

\* The parts of the invariant, put together again.
LEMMA InvOfParts ==
  ASSUME JournalPart', CommandInv', DataInv', CallInv'
  PROVE  Inv'
BY DEF Inv, TypeInv, JournalPart, CommandInv

\* What a step starts from.
LEMMA PartsOfInv ==
  ASSUME Inv
  PROVE  JournalPart /\ CommandInv /\ JournalInv /\ LiveInv /\ FoldInv /\ PendingInv /\ RecordInv
           /\ UndoInv /\ FreshInv /\ OrderInv /\ DataInv /\ CallInv
           /\ ctx \in Context /\ rebuilt \in Context /\ log \in Seq(Fact)
BY DEF Inv, TypeInv, JournalInv, JournalPart, CommandInv

Quiet == {"bind", "accept", "place", "run", "drain", "decide", "move", "dispatch", "judge",
          "compensate", "sync"}

\* Past redelivery and outside of the delivery of a command, none is pending.
LEMMA NonePending ==
  ASSUME Inv, pc \in Quiet
  PROVE  PendingCommands = {}
BY DEF Inv, PendingInv, Quiet, Carrying

\* Every route of a step leads to a node or to the empty ID.
LEMMA StepTargetsType ==
  ASSUME NEW n \in Node, NEW name
  PROVE  StepTargets(n, name) \subseteq Node \cup {NoNode}
<1>1. ASSUME NEW S \in SUBSET DOMAIN Trans[n]
      PROVE  FirstNext(n, S) \subseteq Node \cup {NoNode}
  BY DefinitionAssumption DEF FirstNext, Transition
<1>2. Fallthrough(n, name) \subseteq Node \cup {NoNode}
  BY <1>1 DEF Fallthrough, EventNext, EventMatches, AutoNext
<1>3. WhenNexts(n) \subseteq Node \cup {NoNode}
  <2>1. FirstNext(n, {i \in DOMAIN Trans[n] : ~Trans[n][i].when}) \subseteq Node \cup {NoNode}
    BY <1>1
  <2>2. \A i \in DOMAIN Trans[n] : Trans[n][i].next \in Node \cup {NoNode}
    BY DefinitionAssumption DEF Transition
  <2> QED BY <2>1, <2>2 DEF WhenNexts, OrNone
<1> QED BY <1>2, <1>3 DEF StepTargets, ChainOutcomes

\* The status is all that these steps record.
LEMMA StatusSteps ==
  ASSUME Inv, lost \in Nat, lost' = lost, Run \/ DrainFails \/ StepEnd \/ StepFails \/ StepRuns
  PROVE  Inv'
<1> DEFINE P == JournalPart' /\ CommandInv' /\ ctx'.bound = ctx.bound
                /\ ctx'.current = ctx.current /\ ctx'.undo = ctx.undo /\ (~ctx.bound => log' = log)
                /\ (StepRuns => ctx'.status = "running")
<1>0. /\ CallInv /\ DataInv
      /\ {"running", "failed", "completed"} \subseteq Status
  BY PartsOfInv DEF Status, Terminal
<1> USE DEF Quiet, Calm, Stepping
<1>1. CASE Run
  <2>1. P
    BY <1>0, <1>1, StatusStep, NonePending DEF Run, StepRuns
  <2> HIDE DEF P
  <2>2. DataInv'
    BY <1>0, <1>1 DEF Run, SetStatus, Record, DataInv, deliverVars, stepVars
  <2>3. CallInv'
    BY <1>0, <1>1, <2>1 DEF P, Run, SetStatus, Record, CallInv, UnboundAt, Carrying, deliverVars, stepVars
  <2> QED BY <2>1, <2>2, <2>3, InvOfParts DEF P
<1>2. CASE DrainFails
  <2>1. P
    BY <1>0, <1>2, StatusStep, NonePending DEF DrainFails, StepRuns
  <2> HIDE DEF P
  <2>2. DataInv'
    BY <1>0, <1>2 DEF DrainFails, SetStatus, Record, DataInv, deliverVars, stepVars
  <2>3. CallInv'
    BY <1>0, <1>2, <2>1 DEF P, DrainFails, SetStatus, Record, CallInv, UnboundAt, Carrying, deliverVars, stepVars
  <2> QED BY <2>1, <2>2, <2>3, InvOfParts DEF P
<1>3. CASE StepEnd
  <2>1. P
    <3>1. PendingCommands = {} /\ pc' \in Calm /\ executed' = executed /\ emit' = emit
      BY <1>3, NonePending DEF StepEnd, stepVars
    <3>2. SetStatus("completed") \/ SetStatus("failed")
      BY <1>3 DEF StepEnd
    <3> QED BY <1>0, <1>3, <3>1, <3>2, StatusStep DEF StepEnd, StepRuns
  <2> HIDE DEF P
  <2>2. DataInv'
    BY <1>0, <1>3 DEF StepEnd, SetStatus, Record, DataInv, deliverVars, stepVars
  <2>3. CallInv'
    BY <1>0, <1>3, <2>1 DEF P, StepEnd, SetStatus, Record, CallInv, UnboundAt, Carrying, deliverVars, stepVars
  <2> QED BY <2>1, <2>2, <2>3, InvOfParts DEF P
<1>4. CASE StepFails
  <2>1. P
    BY <1>0, <1>4, StatusStep, NonePending DEF StepFails, StepRuns, stepVars
  <2> HIDE DEF P
  <2>2. DataInv'
    BY <1>0, <1>4 DEF StepFails, SetStatus, Record, DataInv, deliverVars, stepVars
  <2>3. CallInv'
    BY <1>0, <1>4, <2>1 DEF P, StepFails, SetStatus, Record, CallInv, UnboundAt, Carrying, deliverVars, stepVars
  <2> QED BY <2>1, <2>2, <2>3, InvOfParts DEF P
<1>5. CASE StepRuns
  <2>0. goal' \in Node \cup {NoNode}
    BY <1>0, <1>5, StepTargetsType DEF StepRuns, CallInv
  <2>1. P
    BY <1>0, <1>5, StatusStep, NonePending DEF StepRuns
  <2> HIDE DEF P
  <2>2. DataInv'
    BY <1>0, <1>5, <2>0 DEF StepRuns, SetStatus, Record, DataInv, deliverVars, stepVars
  <2>3. CallInv'
    BY <1>0, <1>5, <2>1 DEF P, StepRuns, SetStatus, Record, CallInv, UnboundAt, Carrying, deliverVars, stepVars
  <2> QED BY <2>1, <2>2, <2>3, InvOfParts DEF P
<1> QED BY <1>1, <1>2, <1>3, <1>4, <1>5

\* Start of a fresh context: the instance is bound and on record.
LEMMA BindKeeps ==
  ASSUME Inv, lost \in Nat, lost' = lost, Bind
  PROVE  Inv'
<1> DEFINE c == [ctx EXCEPT !.bound = TRUE]
           f == [kind |-> "started"]
<1>0. CallInv /\ DataInv /\ LiveInv /\ JournalInv /\ ctx \in Context /\ rebuilt \in Context
  BY PartsOfInv
<1>1. Record(c, f) /\ executed' = executed
  BY DEF Bind
<1>2. f \in Fact /\ f.kind \in QuietKinds
  BY <1>0 DEF Bind, Fact, QuietKinds, DataInv, CallInv, Calls
<1>3. c \in Context
  BY <1>0 DEF Bind, Context, DataInv, CallInv, Calls
<1>4. c.bound => Agrees(c, ApplyOcc(rebuilt, f))
  <2>1. ctx = Blank /\ rebuilt = Blank
    BY <1>0 DEF Bind, CallInv, LiveInv
  <2> QED BY <2>1 DEF Blank, Agrees, ApplyOcc
<1>5. PendingCommands = {} /\ pc' \in Calm /\ (pc' \in Stepping => pc \in Stepping /\ emit' = emit)
  BY NonePending DEF Bind, Quiet, Calm, Stepping, stepVars
<1>6. ctx' = c /\ (~c.bound => log' = log)
  BY <1>1 DEF Record, journal
<1>7. JournalPart' /\ CommandInv'
  <2> HIDE DEF c, f
  <2> QED BY <1>1, <1>2, <1>3, <1>4, <1>5, QuietRecord
<1>8. DataInv'
  BY <1>0 DEF Bind, Record, DataInv, deliverVars, stepVars
<1>9. CallInv'
  BY <1>0, <1>3, <1>6 DEF Bind, Record, CallInv, Context, UnboundAt, Stepping, Carrying, deliverVars, stepVars
<1> QED BY <1>7, <1>8, <1>9, InvOfParts

\* The event is on record as consumed (AcceptEvent).
LEMMA AcceptEventKeeps ==
  ASSUME Inv, lost \in Nat, lost' = lost, AcceptEvent
  PROVE  Inv'
<1> DEFINE c == [ctx EXCEPT !.consumed = @ \cup {call.event}, !.event = call.event]
           f == [kind |-> "event_consumed", event |-> call.event]
<1>0. CallInv /\ DataInv /\ LiveInv /\ JournalInv /\ ctx \in Context /\ rebuilt \in Context
  BY PartsOfInv
<1>1. Record(c, f) /\ executed' = executed
  BY DEF AcceptEvent
<1>2. f \in Fact /\ f.kind \in QuietKinds
  BY <1>0 DEF AcceptEvent, Fact, QuietKinds, DataInv, CallInv, Calls
<1>3. c \in Context
  BY <1>0 DEF AcceptEvent, Context, DataInv, CallInv, Calls
<1>4. c.bound => Agrees(c, ApplyOcc(rebuilt, f))
  <2>1. Agrees(c, ApplyOcc(ctx, f))
    BY <1>0 DEF AcceptEvent, CallInv, Calls, Context, Agrees, ApplyOcc, Named
  <2>2. c.bound = ctx.bound
    BY <1>0 DEF Context
  <2> HIDE DEF c, f
  <2> QED BY <1>0, <1>2, <2>1, <2>2, LiveFact
<1>5. PendingCommands = {} /\ pc' \in Calm /\ (pc' \in Stepping => pc \in Stepping /\ emit' = emit)
  BY NonePending DEF AcceptEvent, Quiet, Calm, Stepping, stepVars
<1>6. ctx' = c /\ (~c.bound => log' = log)
  BY <1>1 DEF Record, journal
<1>7. JournalPart' /\ CommandInv'
  <2> HIDE DEF c, f
  <2> QED BY <1>1, <1>2, <1>3, <1>4, <1>5, QuietRecord
<1>8. DataInv'
  BY <1>0 DEF AcceptEvent, Record, DataInv, deliverVars, stepVars
<1>9. CallInv'
  BY <1>0, <1>3, <1>6 DEF AcceptEvent, Record, CallInv, Context, UnboundAt, Stepping, Carrying, deliverVars, stepVars
<1> QED BY <1>7, <1>8, <1>9, InvOfParts

\* Start places the instance at the start node.
LEMMA PlaceKeeps ==
  ASSUME Inv, lost \in Nat, lost' = lost, Place
  PROVE  Inv'
<1> DEFINE c == [ctx EXCEPT !.current = StartNode]
           f == [kind |-> "node_set", node |-> StartNode]
<1>0. CallInv /\ DataInv /\ LiveInv /\ JournalInv /\ ctx \in Context /\ rebuilt \in Context
  BY PartsOfInv
<1>1. Record(c, f) /\ executed' = executed
  BY DEF Place
<1>2. f \in Fact /\ f.kind \in QuietKinds
  BY <1>0, DefinitionAssumption DEF Place, Fact, QuietKinds, DataInv, CallInv, Calls
<1>3. c \in Context
  BY <1>0, DefinitionAssumption DEF Place, Context, DataInv, CallInv, Calls
<1>4. c.bound => Agrees(c, ApplyOcc(rebuilt, f))
  <2>1. Agrees(c, ApplyOcc(ctx, f))
    BY <1>0 DEF Context, Agrees, ApplyOcc
  <2>2. c.bound = ctx.bound
    BY <1>0 DEF Context
  <2> HIDE DEF c, f
  <2> QED BY <1>0, <1>2, <2>1, <2>2, LiveFact
<1>5. PendingCommands = {} /\ pc' \in Calm /\ (pc' \in Stepping => pc \in Stepping /\ emit' = emit)
  BY NonePending DEF Place, Quiet, Calm, Stepping, stepVars
<1>6. ctx' = c /\ (~c.bound => log' = log)
  BY <1>1 DEF Record, journal
<1>7. JournalPart' /\ CommandInv'
  <2> HIDE DEF c, f
  <2> QED BY <1>1, <1>2, <1>3, <1>4, <1>5, QuietRecord
<1>8. DataInv'
  BY <1>0 DEF Place, Record, DataInv, deliverVars, stepVars
<1>9. CallInv'
  BY <1>0, <1>3, <1>6 DEF Place, Record, CallInv, Context, UnboundAt, Stepping, Carrying, deliverVars, stepVars
<1> QED BY <1>7, <1>8, <1>9, InvOfParts

\* The transition is on record before the node's effects are dispatched (Step).
LEMMA StepMovesKeeps ==
  ASSUME Inv, lost \in Nat, lost' = lost, StepMoves
  PROVE  Inv'
<1> DEFINE c == [ctx EXCEPT !.current = goal]
           f == [kind |-> "transition", node |-> goal]
<1>0. CallInv /\ DataInv /\ LiveInv /\ JournalInv /\ ctx \in Context /\ rebuilt \in Context
  BY PartsOfInv
<1>1. Record(c, f) /\ executed' = executed
  BY DEF StepMoves
<1>2. f \in Fact /\ f.kind \in QuietKinds
  BY <1>0 DEF StepMoves, Fact, QuietKinds, DataInv, CallInv, Calls
<1>3. c \in Context
  BY <1>0 DEF StepMoves, Context, DataInv, CallInv, Calls
<1>4. c.bound => Agrees(c, ApplyOcc(rebuilt, f))
  <2>1. Agrees(c, ApplyOcc(ctx, f))
    BY <1>0 DEF StepMoves, CallInv, Context, Agrees, ApplyOcc
  <2>2. c.bound = ctx.bound
    BY <1>0 DEF Context
  <2> HIDE DEF c, f
  <2> QED BY <1>0, <1>2, <2>1, <2>2, LiveFact
<1>5. PendingCommands = {} /\ pc' \in Calm /\ (pc' \in Stepping => pc \in Stepping /\ emit' = emit)
  BY NonePending DEF StepMoves, Quiet, Calm, Stepping, stepVars
<1>6. ctx' = c /\ (~c.bound => log' = log)
  BY <1>1 DEF Record, journal
<1>7. JournalPart' /\ CommandInv'
  <2> HIDE DEF c, f
  <2> QED BY <1>1, <1>2, <1>3, <1>4, <1>5, QuietRecord
<1>8. DataInv'
  BY <1>0 DEF StepMoves, Record, DataInv, deliverVars, stepVars
<1>9. CallInv'
  BY <1>0, <1>3, <1>6 DEF StepMoves, Record, CallInv, Context, UnboundAt, Stepping, Carrying, deliverVars, stepVars
<1> QED BY <1>7, <1>8, <1>9, InvOfParts

-----------------------------------------------------------------------------
(* ... those that write nothing while no command is under way, ...         *)

\* Steps that write nothing.
LEMMA SilentSteps ==
  ASSUME Inv, lost' = lost,
         Enter \/ DispatchNothing \/ Compensated
  PROVE  Inv'
<1>0. CallInv /\ DataInv /\ LiveInv /\ PendingInv /\ ctx \in Context
  BY PartsOfInv
<1>1. UNCHANGED <<journal, snap, executed, created, ctx, call>>
  BY DEF Enter, DispatchNothing, Compensated, Silent
<1>2. PendingCommands = {} /\ pc' \in Calm /\ pc' \notin Stepping
  BY <1>0, NonePending DEF Enter, DispatchNothing, Compensated, Quiet, Calm, Stepping, PendingInv
<1>3. JournalPart' /\ CommandInv'
  BY <1>0, <1>1, <1>2, QuietSilence DEF LiveInv
<1>4. DataInv'
  BY <1>0, <1>1 DEF Enter, DispatchNothing, Compensated, DataInv, deliverVars, stepVars
<1>5. CallInv'
  BY <1>0, <1>1 DEF Enter, DispatchNothing, Compensated, CallInv, Calls, UnboundAt, Stepping,
                    Carrying, journal, deliverVars, stepVars
<1> QED BY <1>3, <1>4, <1>5, InvOfParts

\* After the effects of a node: failed, ended, parked or on to the next one (drain).
LEMMA JudgeKeeps ==
  ASSUME Inv, lost \in Nat, lost' = lost, Judge
  PROVE  Inv'
<1>0. CallInv /\ DataInv /\ LiveInv /\ ctx \in Context /\ {"waiting", "failed"} \subseteq Status
  BY PartsOfInv DEF Status, Terminal
<1>1. /\ pc = "judge" /\ PendingCommands = {} /\ pc' \in {"compensate", "sync", "drain"}
      /\ ctx.bound /\ created /\ created' = created /\ call' = call /\ executed' = executed
  BY <1>0, NonePending DEF Judge, JudgeFailed, JudgeCritical, JudgeEnded, JudgeWaits, JudgeGoesOn,
       Silent, SetStatus, Record, Quiet, CallInv, UnboundAt
<1>2. pc' \in Calm /\ pc' \notin Stepping
  BY <1>1 DEF Calm, Stepping
<1>3. JournalPart' /\ CommandInv' /\ ctx'.bound
  <2>1. CASE UNCHANGED <<journal, snap, ctx>>
    BY <1>0, <1>1, <1>2, <2>1, QuietSilence DEF LiveInv
  <2>2. CASE SetStatus("waiting") \/ SetStatus("failed")
    BY <1>0, <1>1, <1>2, <2>2, StatusStep
  <2> QED BY <2>1, <2>2 DEF Judge, JudgeFailed, JudgeCritical, JudgeEnded, JudgeWaits, JudgeGoesOn, Silent
<1>4. DataInv'
  BY <1>0, <1>1 DEF Judge, DataInv
<1>5. CallInv'
  BY <1>0, <1>1, <1>3 DEF Judge, CallInv, Stepping, Carrying
<1> QED BY <1>3, <1>4, <1>5, InvOfParts

\* A new instance has an empty journal (Manager.Create).
LEMMA CreateKeeps ==
  ASSUME Inv, NEW e \in EventId, Create(e)
  PROVE  Inv'
<1>0. CallInv /\ DataInv /\ LiveInv /\ ctx \in Context
  BY PartsOfInv
<1>1. log = <<>> /\ PendingCommands = {}
  <2>1. log = <<>>
    BY <1>0 DEF Create, CallInv
  <2> QED BY <2>1 DEF PendingCommands, Issued, Facts
<1>2. JournalPart' /\ CommandInv'
  BY <1>0, <1>1, QuietSilence DEF Create, Calm, Stepping, LiveInv
<1>3. DataInv'
  BY <1>0 DEF Create, DataInv, deliverVars, stepVars
<1>4. CallInv'
  BY <1>0, <1>1 DEF Create, CallInv, Calls, UnboundAt, Blank, Stepping, Carrying, journal, deliverVars, stepVars
<1> QED BY <1>2, <1>3, <1>4, InvOfParts

\* A context that holds nothing is a context, and bound to no instance.
LEMMA BlankIsContext == Blank \in Context /\ ~Blank.bound
<1>1. [n \in Node |-> 0] \in [Node -> 0 .. MaxNodeVisits]
  BY JournaledAssumption
<1>2. <<>> \in Seq(Entry)
  OBVIOUS
<1> QED BY <1>1, <1>2 DEF Blank, Context, Status

\* A crash takes the context of the call and leaves the journal and the executor.
LEMMA CrashKeeps ==
  ASSUME Inv, Crash
  PROVE  Inv'
<1>0. CallInv /\ DataInv
  BY PartsOfInv
<1>1. JournalPart' /\ CommandInv'
  BY BlankIsContext, QuietSilence DEF Crash, Calm, Stepping
<1>2. DataInv'
  BY <1>0 DEF Crash, DataInv
<1>3. CallInv'
  BY <1>0 DEF Crash, CallInv, Stepping, Carrying, journal
<1> QED BY <1>1, <1>2, <1>3, InvOfParts

\* maybeSnapshot: the context that becomes the snapshot is what the journal folds to.
LEMMA SyncKeeps ==
  ASSUME Inv, Sync
  PROVE  Inv'
<1>0. /\ CallInv /\ DataInv /\ LiveInv /\ FoldInv /\ JournalInv /\ CommandInv /\ OrderInv
      /\ ctx \in Context /\ log \in Seq(Fact) /\ PendingInv /\ RecordInv /\ UndoInv /\ FreshInv
  BY PartsOfInv
<1>1. /\ pc = "sync" /\ pc' = "idle" /\ ctx' = Blank /\ log' = log /\ rebuilt' = rebuilt
      /\ executed' = executed /\ created' = created
  BY DEF Sync
<1>2. CommandInv'
  <2>1. CommandFrame /\ OrderInv'
    BY <1>0, <1>1, FrameOfSame
  <2> QED BY <1>0, <1>1, <2>1, QuietStep DEF CommandInv, Calm, Stepping
<1>3. ASSUME UNCHANGED <<snap, restored>> PROVE JournalPart'
  BY <1>1, <1>3, <1>0, BlankIsContext, UnwrittenStep DEF journal, JournalPart
<1>4. ASSUME snap' = [upto |-> Len(log), ctx |-> ctx],
             restored' = IF Len(log) > 0 THEN ctx ELSE restored
      PROVE  JournalPart'
  <2>1. Len(log) \in Nat /\ (Len(log) = 0 => log = <<>>) /\ (log = <<>> => Len(log) = 0)
    BY <1>0
  <2>2. log # <<>> => ctx.bound
    BY <1>0, <1>1 DEF CallInv
  <2>3. restored' \in Context /\ ctx' \in Context /\ ~ctx'.bound
    BY <1>0, <1>1, <1>4, BlankIsContext DEF JournalInv
  <2>4. Agrees(restored', rebuilt)
    BY <1>0, <1>4, <2>1, <2>2 DEF LiveInv
  <2>5. JournalInv'
    BY <1>0, <1>1, <1>4, <2>1, <2>3 DEF JournalInv
  <2>6. LiveInv'
    <3>1. log = <<>> => restored' = restored
      BY <1>4, <2>1
    <3> QED BY <1>0, <1>1, <2>3, <2>4, <3>1 DEF LiveInv
  <2>7. FoldInv'
    <3>1. CASE log = <<>>
      <4>1. snap'.upto = 0 /\ restored' = restored /\ snap.upto = 0
        BY <1>0, <1>4, <2>1, <3>1 DEF JournalInv
      <4> QED BY <1>0, <1>1, <4>1 DEF FoldInv
    <3>2. CASE log # <<>>
      <4>1. snap'.upto = Len(log) /\ snap'.upto # 0 /\ snap'.ctx = ctx /\ restored' = ctx
        BY <1>4, <2>1, <3>2
      <4>2. FoldOnto(ctx, occurrencesAfter(log, Len(log))) = ctx
        BY <1>0, AfterAll, FoldOfNone
      <4> QED BY <1>0, <1>1, <4>1, <4>2 DEF FoldInv
    <3> QED BY <3>1, <3>2
  <2> QED BY <2>5, <2>6, <2>7 DEF JournalPart
<1>5. JournalPart'
  BY <1>3, <1>4 DEF Sync
<1>6. DataInv'
  BY <1>0 DEF Sync, DataInv, deliverVars, stepVars
<1>7. CallInv'
  BY <1>0, <1>1 DEF CallInv, Stepping, Carrying
<1> QED BY <1>2, <1>5, <1>6, <1>7, InvOfParts

-----------------------------------------------------------------------------
(* ... and those of a command: its visit, its issue, its delivery.         *)

\* Commands on record are commands.
LEMMA IssuedType ==
  ASSUME log \in Seq(Fact)
  PROVE  Issued \subseteq Cmd /\ PendingCommands \subseteq Issued
<1>1. ASSUME NEW i \in DOMAIN log, log[i].kind = "command_issued" PROVE log[i].cmd \in Cmd
  <2>1. log[i] \in Fact
    OBVIOUS
  <2> QED BY <1>1, <2>1 DEF Fact, CommandFact
<1>2. Issued \subseteq Cmd
  BY <1>1 DEF Issued, Facts
<1> QED BY <1>2 DEF PendingCommands

\* A fact of a bound context is in the journal, as nothing is lost.
LEMMA RecordOfBound ==
  ASSUME NEW c, NEW f, Record(c, f), c.bound, lost' = lost, lost \in Nat
  PROVE  ctx' = c /\ snap' = snap /\ created' = created /\ call' = call
           /\ Appended(f) /\ log' = Append(log, f) /\ rebuilt' = ApplyOcc(rebuilt, f)
BY DEF Record, Appended

\* A visit is counted before the node acts: no command of this visit is on record.
LEMMA StepVisitKeeps ==
  ASSUME Inv, lost \in Nat, lost' = lost, StepVisit
  PROVE  Inv'
<1> DEFINE n == ctx.current
           c == [ctx EXCEPT !.visits[ctx.current] = @ + 1]
           f == [kind |-> "node_visited", node |-> ctx.current]
<1>0. /\ CallInv /\ DataInv /\ LiveInv /\ FoldInv /\ JournalInv /\ PendingInv /\ RecordInv
      /\ UndoInv /\ FreshInv /\ OrderInv
      /\ ctx \in Context /\ rebuilt \in Context /\ log \in Seq(Fact)
  BY PartsOfInv
<1>1. n \in Node /\ ctx.bound /\ pc = "drain" /\ pc' = "decide" /\ emit' = n /\ ctx.visits[n] < MaxNodeVisits
  BY <1>0, DefinitionAssumption DEF StepVisit, CallInv
<1>2. f \in Fact /\ f.kind = "node_visited" /\ f.node = n
  BY <1>1 DEF Fact
<1>3. Agrees(ctx, rebuilt) /\ rebuilt.visits = ctx.visits /\ rebuilt.undo = ctx.undo
  BY <1>0, <1>1 DEF LiveInv, Agrees
<1>4. ApplyOcc(ctx, f) = c
  BY <1>0, <1>2 DEF ApplyOcc, Context, Visited
<1>5. c \in Context /\ c.bound
  <2>1. ApplyOcc(ctx, f) \in Context
    BY <1>0, <1>1, <1>2, ApplyOccType
  <2>2. ApplyOcc(ctx, f).bound
    BY <1>0, <1>1, ApplyOccRest
  <2> QED BY <1>4, <2>1, <2>2
<1>6. Agrees(c, ApplyOcc(rebuilt, f))
  BY <1>0, <1>2, <1>3, <1>4, ApplyOccAgrees
<1>7. ctx' = c /\ snap' = snap /\ created' = created /\ call' = call
        /\ Appended(f) /\ log' = Append(log, f) /\ rebuilt' = ApplyOcc(rebuilt, f)
  <2>1. Record(c, f)
    BY DEF StepVisit
  <2> HIDE DEF c, f
  <2> QED BY <1>5, <2>1, RecordOfBound
<1>8. c.current = ctx.current
  BY <1>0 DEF Context
<1> HIDE DEF c, f
<1>9. JournalPart'
  BY <1>0, <1>1, <1>2, <1>3, <1>5, <1>6, <1>7, RecordedFact DEF JournalPart
<1>10. /\ rebuilt'.undo = rebuilt.undo
       /\ rebuilt'.visits = [rebuilt.visits EXCEPT ![n] = @ + 1]
  <2>1. rebuilt'.undo = rebuilt.undo
    BY <1>0, <1>2, <1>7, ApplyOccRest
  <2>2. rebuilt'.visits = Visited(rebuilt.visits, n)
    BY <1>0, <1>2, <1>7 DEF ApplyOcc, Context
  <2> QED BY <2>1, <2>2 DEF Visited
<1>11. OrderInv'
  BY <1>0, <1>2, <1>7, <1>10, OrderKept
<1>12. /\ Issued' = Issued /\ PendingCommands' = PendingCommands /\ FailedCommands' = FailedCommands
       /\ \A A : Answered(A)' = Answered(A)
       /\ \A d : Latest(d)' = Latest(d)
  BY <1>0, <1>2, <1>7, QuietFact
<1>13. executed' = executed /\ PendingCommands = {}
  BY <1>1, NonePending DEF StepVisit, Quiet
<1>14. PendingInv'
  BY <1>1, <1>12, <1>13 DEF PendingInv, Carrying
<1>15. RecordInv'
  BY <1>0, <1>1, <1>10, <1>12, <1>13 DEF RecordInv
<1>16. UndoInv'
  BY <1>0, <1>10, <1>13 DEF UndoInv
<1>17. FreshInv'
  <2>1. \A m \in Node : rebuilt.visits[m] \in Nat /\ rebuilt'.visits[m] \in Nat
                          /\ rebuilt.visits[m] <= rebuilt'.visits[m]
    BY <1>0, <1>10 DEF Context
  <2>2. rebuilt'.visits[n] = rebuilt.visits[n] + 1
    BY <1>0, <1>1, <1>10 DEF Context
  <2>3. \A d \in Issued : d.node \in Node /\ d.visit \in Nat
    BY <1>0, IssuedType, JournaledAssumption DEF Cmd
  <2> HIDE DEF n
  <2>4. \A d \in Issued : IF IsUndo(d) THEN Done(rebuilt'.undo, d) ELSE d.visit <= rebuilt'.visits[d.node]
    BY <1>0, <1>10, <2>1, <2>3 DEF FreshInv
  <2>5. \A d \in Issued : ~IsUndo(d) /\ d.node = n => d.visit < rebuilt'.visits[n]
    BY <1>0, <1>1, <2>1, <2>2, <2>3 DEF FreshInv
  <2>6. rebuilt'.visits[n] > 0
    BY <1>1, <2>1, <2>2
  <2> QED BY <1>1, <1>12, <2>4, <2>5, <2>6 DEF FreshInv
<1>18. DataInv'
  BY <1>0, <1>1 DEF StepVisit, Record, DataInv, deliverVars, stepVars
<1>19. CallInv'
  BY <1>0, <1>1, <1>5, <1>7, <1>8 DEF StepVisit, CallInv, Stepping, Carrying
<1> QED BY <1>9, <1>11, <1>14, <1>15, <1>16, <1>17, <1>18, <1>19, InvOfParts DEF CommandInv

\* Manager.load finds every command that is still pending.
LEMMA LoadKeeps ==
  ASSUME Inv, NEW op \in {"feed", "compensate"}, NEW e,
         [op |-> op, event |-> e] \in Calls, Load(op, e)
  PROVE  Inv'
<1>0. /\ CallInv /\ DataInv /\ LiveInv /\ FoldInv /\ JournalInv /\ PendingInv /\ RecordInv
      /\ UndoInv /\ FreshInv /\ OrderInv /\ log \in Seq(Fact)
  BY PartsOfInv
<1>1. /\ UNCHANGED <<journal, snap, executed, created>> /\ ctx' \in {rebuilt, restored}
      /\ pc' = "redeliver" /\ created /\ queue' = PendingCommands
      /\ call' = [op |-> op, event |-> e] /\ log' = log
  BY DEF Load, journal
<1>2. ctx' \in Context /\ Agrees(ctx', rebuilt)
  BY <1>0, <1>1 DEF JournalInv, LiveInv, Agrees
<1>3. JournalPart'
  BY <1>0, <1>1, <1>2, UnwrittenStep DEF JournalPart
<1>4. CommandFrame /\ OrderInv'
  BY <1>0, <1>1, FrameOfSame DEF journal
<1>5. PendingInv' /\ RecordInv' /\ UndoInv' /\ FreshInv'
  <2>1. PendingInv'
    BY <1>0, <1>1, <1>4 DEF PendingInv, CommandFrame, Carrying
  <2>2. RecordInv'
    BY <1>0, <1>1, <1>4 DEF RecordInv, CommandFrame
  <2>3. UndoInv'
    BY <1>0, <1>1, <1>4 DEF UndoInv, CommandFrame
  <2>4. FreshInv'
    BY <1>0, <1>1, <1>4 DEF FreshInv, CommandFrame, Stepping
  <2> QED BY <2>1, <2>2, <2>3, <2>4
<1>6. DataInv'
  BY <1>0, <1>1, IssuedType DEF Load, DataInv, stepVars
<1>7. CallInv'
  <2>1. ~ctx'.bound => log = <<>> /\ rebuilt = Blank
    BY <1>0, <1>2 DEF LiveInv, Agrees
  <2>2. ~ctx'.bound => ctx'.current = NoNode /\ ctx'.undo = <<>>
    BY <1>2, <2>1 DEF Agrees, Blank
  <2> QED BY <1>0, <1>1, <2>1, <2>2 DEF CallInv, UnboundAt, Stepping, Carrying
<1> QED BY <1>3, <1>4, <1>5, <1>6, <1>7, InvOfParts DEF CommandInv

\* A command is put on record: a new one, or the one that is pending once more.
LEMMA IssueStep ==
  ASSUME Inv, lost \in Nat, lost' = lost, executed' = executed, NEW c \in Cmd, ctx.bound,
         Record(ctx, [kind |-> "command_issued", cmd |-> c]),
         pc' = "execute", cmd' = c, back' = "redeliver" => queue' = {},
         PendingCommands \subseteq {c}, c \in PendingCommands \/ c \notin Issued,
         IF IsUndo(c) THEN Done(rebuilt.undo, c) ELSE c.visit <= rebuilt.visits[c.node]
  PROVE  /\ JournalPart' /\ CommandInv'
         /\ ctx' = ctx /\ created' = created /\ call' = call
         /\ Issued' = Issued \cup {c} /\ \A A : Answered(A)' = Answered(A)
<1> DEFINE f == [kind |-> "command_issued", cmd |-> c]
<1>0. /\ LiveInv /\ FoldInv /\ JournalInv /\ PendingInv /\ RecordInv
      /\ UndoInv /\ FreshInv /\ OrderInv
      /\ ctx \in Context /\ rebuilt \in Context /\ log \in Seq(Fact)
  BY PartsOfInv
<1>1. f \in Fact /\ f.kind = "command_issued"
  BY DEF Fact, CommandFact
<1>2. /\ ctx' = ctx /\ snap' = snap /\ created' = created /\ call' = call
      /\ Appended(f) /\ log' = Append(log, f) /\ rebuilt' = ApplyOcc(rebuilt, f)
  BY RecordOfBound
<1>3. Agrees(ctx, rebuilt)
  BY <1>0 DEF LiveInv
<1>4. rebuilt' = rebuilt
  BY <1>1, <1>2 DEF ApplyOcc
<1>5. JournalPart'
  <2>1. Agrees(ctx, ApplyOcc(rebuilt, f))
    BY <1>2, <1>3, <1>4
  <2> HIDE DEF f
  <2> QED BY <1>0, <1>1, <1>2, <2>1, RecordedFact DEF JournalPart
<1>6. /\ Issued' = Issued \cup {c} /\ PendingCommands' = PendingCommands \cup {c}
      /\ FailedCommands' = FailedCommands \ {c}
      /\ \A A : Answered(A)' = Answered(A)
      /\ \A d : d # c => Latest(d)' = Latest(d)
      /\ Latest(c)' # {}
  BY <1>0, <1>1, <1>2, IssueFact
<1>7. OrderInv'
  <2> HIDE DEF f
  <2> QED BY <1>0, <1>1, <1>2, <1>4, OrderKept
<1>8. PendingInv'
  BY <1>6 DEF PendingInv, Carrying
<1>9. RecordInv'
  BY <1>0, <1>4, <1>6 DEF RecordInv
<1>10. UndoInv'
  BY <1>0, <1>4 DEF UndoInv
<1>11. FreshInv'
  BY <1>0, <1>4, <1>6 DEF FreshInv, Stepping
<1> QED BY <1>2, <1>5, <1>6, <1>7, <1>8, <1>9, <1>10, <1>11 DEF CommandInv

\* Redelivery: the pending command again.
LEMMA RedeliverKeeps ==
  ASSUME Inv, lost \in Nat, lost' = lost, NEW c \in queue, Redeliver(c)
  PROVE  Inv' /\ Issued' = Issued /\ \A A : Answered(A)' = Answered(A)
<1>0. /\ CallInv /\ DataInv /\ PendingInv /\ FreshInv /\ log \in Seq(Fact)
  BY PartsOfInv
<1>1. pc = "redeliver" /\ queue = PendingCommands /\ c \in PendingCommands /\ c \in Issued /\ c \in Cmd
  BY <1>0, IssuedType DEF Redeliver, PendingInv
<1>2. PendingCommands = {c} /\ queue' = {}
  BY <1>0, <1>1 DEF PendingInv, Redeliver
<1>3. ctx.bound
  <2>1. log # <<>>
    BY <1>1 DEF Issued, Facts
  <2> QED BY <1>0, <1>1, <2>1 DEF CallInv
<1>4. IF IsUndo(c) THEN Done(rebuilt.undo, c) ELSE c.visit <= rebuilt.visits[c.node]
  BY <1>0, <1>1 DEF FreshInv
<1>5. /\ JournalPart' /\ CommandInv' /\ ctx' = ctx /\ created' = created /\ call' = call
      /\ Issued' = Issued \cup {c} /\ \A A : Answered(A)' = Answered(A)
  BY <1>1, <1>2, <1>3, <1>4, IssueStep DEF Redeliver
<1>6. DataInv'
  BY <1>0, <1>1, <1>2, <1>5 DEF Redeliver, DataInv, stepVars
<1>7. CallInv'
  BY <1>0, <1>1, <1>3, <1>5 DEF Redeliver, CallInv, Stepping, Carrying
<1> QED BY <1>1, <1>5, <1>6, <1>7, InvOfParts

\* Dispatch: the command of the visit that was just counted.
LEMMA DispatchKeeps ==
  ASSUME Inv, lost \in Nat, lost' = lost, Dispatch
  PROVE  /\ Inv' /\ cmd' \in Cmd \ Issued /\ ~IsUndo(cmd')
         /\ Issued' = Issued \cup {cmd'} /\ \A A : Answered(A)' = Answered(A)
<1>0. /\ CallInv /\ DataInv /\ PendingInv /\ FreshInv /\ LiveInv /\ ctx \in Context
      /\ log \in Seq(Fact)
  BY PartsOfInv
<1>1. /\ pc = "dispatch" /\ emit \in Node /\ ctx.bound /\ PendingCommands = {}
      /\ rebuilt.visits = ctx.visits
  BY <1>0, NonePending DEF Dispatch, CallInv, UnboundAt, Stepping, Quiet, LiveInv, Agrees
<1> DEFINE c == [node |-> emit, visit |-> ctx.visits[emit], pos |-> 0]
<1>2. cmd' = c /\ back' = "judge" /\ pc' = "execute" /\ executed' = executed
  BY DEF Dispatch, ToCommand
<1>3. ctx.visits[emit] \in 1 .. MaxNodeVisits
  BY <1>0, <1>1, JournaledAssumption DEF FreshInv, Stepping, Context
<1>4. c \in Cmd /\ ~IsUndo(c) /\ c.visit = rebuilt.visits[c.node] /\ c.node = emit
  <2>1. Cardinality(Compensable) * MaxNodeVisits \in Nat
    BY JournaledAssumption, FS_CardinalityType
  <2>2. 0 \in 0 .. Cardinality(Compensable) * MaxNodeVisits
    BY <2>1
  <2> QED BY <1>1, <1>3, <2>2 DEF Cmd, IsUndo
<1>5. c \notin Issued
  <2>1. c.visit \in Nat
    BY <1>3
  <2> HIDE DEF c
  <2> QED BY <1>0, <1>1, <1>4, <2>1 DEF FreshInv, Stepping
<1>6. Record(ctx, [kind |-> "command_issued", cmd |-> c])
  BY <1>2 DEF Dispatch
<1>7. c.visit <= rebuilt.visits[c.node]
  BY <1>3, <1>4
<1> HIDE DEF c
<1>8. /\ JournalPart' /\ CommandInv' /\ ctx' = ctx /\ created' = created /\ call' = call
      /\ Issued' = Issued \cup {c} /\ \A A : Answered(A)' = Answered(A)
  BY <1>1, <1>2, <1>4, <1>5, <1>6, <1>7, IssueStep
<1>9. DataInv'
  BY <1>0, <1>2, <1>4, <1>8 DEF Dispatch, DataInv, stepVars
<1>10. CallInv'
  BY <1>0, <1>1, <1>2, <1>8 DEF CallInv, Stepping, Carrying
<1> QED BY <1>2, <1>4, <1>5, <1>8, <1>9, <1>10, InvOfParts

\* Compensation: the command of the entry that was just begun.
LEMMA IssueUndoKeeps ==
  ASSUME Inv, lost \in Nat, lost' = lost, IssueUndo
  PROVE  /\ Inv' /\ cmd' \in Cmd \ Issued /\ IsUndo(cmd') /\ Origin(cmd') \in executed
         /\ Issued' = Issued \cup {cmd'} /\ \A A : Answered(A)' = Answered(A)
<1>0. /\ CallInv /\ DataInv /\ PendingInv /\ FreshInv /\ UndoInv /\ rebuilt \in Context
      /\ log \in Seq(Fact)
  BY PartsOfInv
<1>1. /\ pc = "undo" /\ pc' = "execute" /\ back' = "compensate" /\ cmd' = cmd
      /\ executed' = executed /\ PendingCommands = {} /\ ctx.bound
      /\ Record(ctx, [kind |-> "command_issued", cmd |-> cmd])
  BY <1>0 DEF IssueUndo, PendingInv, Carrying, CallInv, UnboundAt
<1>2. IsUndo(cmd) /\ Done(rebuilt.undo, cmd) /\ cmd \notin Issued
  BY <1>0, <1>1 DEF FreshInv
<1>3. cmd \in Cmd /\ Origin(cmd) \in executed
  <2>1. cmd.pos \in DOMAIN rebuilt.undo /\ rebuilt.undo[cmd.pos].key = cmd
    BY <1>2 DEF Done
  <2>2. rebuilt.undo[cmd.pos] \in Entry
    BY <1>0, <2>1 DEF Context
  <2> QED BY <1>0, <2>1, <2>2 DEF UndoInv, Entry
<1>4. /\ JournalPart' /\ CommandInv' /\ ctx' = ctx /\ created' = created /\ call' = call
      /\ Issued' = Issued \cup {cmd} /\ \A A : Answered(A)' = Answered(A)
  BY <1>1, <1>2, <1>3, IssueStep
<1>5. DataInv'
  BY <1>0, <1>1, <1>3, <1>4 DEF IssueUndo, DataInv, stepVars
<1>6. CallInv'
  BY <1>0, <1>1, <1>4 DEF CallInv, Stepping, Carrying
<1> QED BY <1>1, <1>2, <1>3, <1>4, <1>5, <1>6, InvOfParts

\* A command that is pending is no dead letter.
LEMMA PendingNotFailed ==
  ASSUME NEW c \in PendingCommands, Latest(c) # {}
  PROVE  c \notin FailedCommands
<1>1. PICK f : f \in Latest(c)
  OBVIOUS
<1>2. f.kind = "command_issued"
  BY <1>1 DEF PendingCommands
<1> QED BY <1>1, <1>2 DEF FailedCommands

\* Execution: the pending command is carried out, skipped, or fails.
LEMMA ExecuteKeeps ==
  ASSUME Inv, Execute
  PROVE  /\ Inv' /\ Issued' = Issued /\ \A A : Answered(A)' = Answered(A)
         /\ cmd \in Cmd /\ PendingCommands = {cmd} /\ cmd \in Issued
<1>0. /\ CallInv /\ DataInv /\ PendingInv /\ RecordInv /\ LiveInv /\ FoldInv /\ JournalInv
      /\ UndoInv /\ FreshInv /\ OrderInv /\ ctx \in Context
  BY PartsOfInv
<1>1. /\ pc = "execute" /\ pc' = "resolve"
      /\ UNCHANGED <<journal, snap, created, ctx, call, stepVars, cmd, back, queue>>
  BY DEF Execute
<1>2. PendingCommands = {cmd} /\ cmd \in Cmd /\ cmd \in Issued
  BY <1>0, <1>1 DEF PendingInv, Carrying, PendingCommands
<1>3. CommandFrame /\ OrderInv'
  BY <1>0, <1>1, FrameOfSame DEF journal
<1>4. JournalPart'
  BY <1>0, <1>1, UnwrittenStep DEF JournalPart, LiveInv
<1>5. \/ cmd \in executed /\ answer' = "skipped" /\ executed' = executed
      \/ cmd \notin executed /\ answer' = "completed" /\ executed' = executed \cup {cmd}
      \/ cmd \notin executed /\ answer' = "failed" /\ executed' = executed
  BY DEF Execute
<1>6. executed \subseteq executed' /\ executed' \subseteq executed \cup {cmd}
        /\ answer' \in Answers /\ (answer' = "failed" <=> cmd \notin executed')
        /\ (answer' = "completed" => cmd \notin executed)
  BY <1>5 DEF Answers
<1>7. PendingInv'
  BY <1>0, <1>1, <1>2, <1>3 DEF PendingInv, CommandFrame, Carrying
<1>8. RecordInv'
  <2>1. cmd \notin FailedCommands
    BY <1>0, <1>2, PendingNotFailed DEF RecordInv
  <2>2. cmd \notin executed => \A i \in DOMAIN rebuilt.undo : Origin(rebuilt.undo[i].key) # cmd
    BY <1>0 DEF UndoInv
  <2>3. FailedCommands \cap executed' = {}
    BY <1>0, <1>6, <2>1 DEF RecordInv
  <2>4. cmd' = cmd /\ rebuilt'.undo = rebuilt.undo
    BY <1>1, <1>3 DEF CommandFrame
  <2>5. Issued' \ PendingCommands' \subseteq executed' \cup FailedCommands'
    BY <1>0, <1>3, <1>6 DEF RecordInv, CommandFrame
  <2> QED BY <1>0, <1>1, <1>2, <1>3, <1>6, <2>2, <2>3, <2>4, <2>5 DEF RecordInv, CommandFrame
<1>9. UndoInv'
  BY <1>0, <1>3, <1>6 DEF UndoInv, CommandFrame
<1>10. FreshInv'
  BY <1>0, <1>1, <1>3 DEF FreshInv, CommandFrame, Stepping
<1>11. DataInv'
  BY <1>0, <1>1, <1>2, <1>6 DEF DataInv, stepVars
<1>12. CallInv'
  BY <1>0, <1>1 DEF CallInv, UnboundAt, Stepping, Carrying, journal, stepVars
<1>13. \A A : Answered(A)' = Answered(A)
  BY <1>1 DEF Answered, Facts, journal
<1> QED BY <1>2, <1>3, <1>4, <1>7, <1>8, <1>9, <1>10, <1>11, <1>12, <1>13, InvOfParts
        DEF CommandInv, CommandFrame

\* Resolution: the result is on record, and nothing is pending.
LEMMA ResolveKeeps ==
  ASSUME Inv, lost \in Nat, lost' = lost, Resolve
  PROVE  /\ Inv' /\ Issued' = Issued /\ executed' = executed
         /\ cmd \in Cmd /\ PendingCommands = {cmd} /\ cmd \in Issued
         /\ answer \in Answers /\ (answer = "failed" <=> cmd \notin executed)
         /\ \A A : Answered(A)' = IF answer \in A THEN Answered(A) \cup {cmd} ELSE Answered(A)
<1> DEFINE f == [kind |-> "command_result", cmd |-> cmd, answer |-> answer]
<1>0. /\ CallInv /\ DataInv /\ PendingInv /\ RecordInv /\ LiveInv /\ FoldInv /\ JournalInv
      /\ UndoInv /\ FreshInv /\ OrderInv
      /\ ctx \in Context /\ rebuilt \in Context /\ log \in Seq(Fact)
  BY PartsOfInv
<1>1. /\ pc = "resolve" /\ pc' = PushedNext(answer) /\ Record(ctx, f) /\ Delivered
      /\ UNCHANGED <<executed, stepVars, queue>>
  BY DEF Resolve
<1>2. PendingCommands = {cmd} /\ cmd \in Cmd /\ cmd \in Issued /\ ctx.bound
  BY <1>0, <1>1 DEF PendingInv, Carrying, PendingCommands, CallInv, UnboundAt
<1>3. /\ answer \in Answers /\ (answer = "failed" <=> cmd \notin executed)
      /\ answer = "completed" => \A i \in DOMAIN rebuilt.undo : Origin(rebuilt.undo[i].key) # cmd
  BY <1>0, <1>1 DEF RecordInv
<1>4. f \in Fact /\ f.kind = "command_result"
  BY <1>2, <1>3 DEF Fact, CommandFact
<1>5. /\ ctx' = ctx /\ snap' = snap /\ created' = created /\ call' = call
      /\ Appended(f) /\ log' = Append(log, f) /\ rebuilt' = ApplyOcc(rebuilt, f)
  <2> HIDE DEF f
  <2> QED BY <1>1, <1>2, RecordOfBound
<1>6. rebuilt' = rebuilt
  BY <1>4, <1>5 DEF ApplyOcc
<1>7. /\ Issued' = Issued
      /\ PendingCommands' = PendingCommands \ {cmd}
      /\ FailedCommands' = IF answer = "failed" THEN FailedCommands \cup {cmd} ELSE FailedCommands \ {cmd}
      /\ \A A : Answered(A)' = IF answer \in A THEN Answered(A) \cup {cmd} ELSE Answered(A)
      /\ \A d \in Issued : Latest(d)' # {}
  <2>1. PICK k \in Issued : k = cmd
    BY <1>2
  <2>2. PICK a : a = answer
    OBVIOUS
  <2>3. /\ [kind |-> "command_result", cmd |-> k, answer |-> a] \in Fact
        /\ log' = Append(log, [kind |-> "command_result", cmd |-> k, answer |-> a])
    BY <1>4, <1>5, <2>1, <2>2
  <2>4. /\ Issued' = Issued
        /\ PendingCommands' = PendingCommands \ {k}
        /\ FailedCommands' = IF a = "failed" THEN FailedCommands \cup {k} ELSE FailedCommands \ {k}
        /\ \A A : Answered(A)' = IF a \in A THEN Answered(A) \cup {k} ELSE Answered(A)
        /\ \A d : d # k => Latest(d)' = Latest(d)
        /\ Latest(k)' # {}
    BY <1>0, <2>1, <2>3, ResultFact
  <2>5. \A d \in Issued : Latest(d)' # {}
    BY <1>0, <2>4 DEF RecordInv
  <2> QED BY <2>1, <2>2, <2>4, <2>5
<1> HIDE DEF f
<1>8. JournalPart'
  <2>1. Agrees(ctx, ApplyOcc(rebuilt, f))
    BY <1>0, <1>2, <1>5, <1>6 DEF LiveInv
  <2> QED BY <1>0, <1>2, <1>4, <1>5, <2>1, RecordedFact DEF JournalPart
<1>9. OrderInv'
  BY <1>0, <1>4, <1>5, <1>6, OrderKept
<1>10. /\ back \in {"redeliver", "judge", "compensate"} /\ (back = "redeliver" => queue = {})
  BY <1>0, <1>1 DEF CallInv, PendingInv, Carrying
<1>11. \/ /\ pc' = "push" /\ cmd' = cmd /\ back' = back /\ answer' = answer
          /\ answer = "completed" /\ ~IsUndo(cmd) /\ cmd.node \in Compensable
       \/ /\ pc' = back /\ cmd' = NoCmd /\ back' = "none" /\ answer' \in {answer, "none"}
  BY <1>1, <1>10 DEF PushedNext, Delivered
<1>12. PendingInv'
  BY <1>1, <1>2, <1>7, <1>10, <1>11 DEF PendingInv, Carrying
<1>13. RecordInv'
  <2>1. \A d \in Issued : Latest(d)' # {}
    BY <1>7
  <2>2. Answered(Answers)' \subseteq Issued' \ PendingCommands'
    BY <1>0, <1>2, <1>7 DEF RecordInv
  <2>3. FailedCommands' \cap executed' = {}
    BY <1>0, <1>1, <1>3, <1>7 DEF RecordInv
  <2>4. Issued' \ PendingCommands' \subseteq executed' \cup FailedCommands'
    BY <1>0, <1>1, <1>2, <1>3, <1>7 DEF RecordInv
  <2>5. pc' # "resolve"
    BY <1>10, <1>11
  <2>6. pc' = "push" =>
          /\ cmd' \in executed' /\ ~IsUndo(cmd') /\ cmd'.node \in Compensable
          /\ \A i \in DOMAIN rebuilt'.undo : Origin(rebuilt'.undo[i].key) # cmd'
    BY <1>1, <1>3, <1>6, <1>10, <1>11
  <2>7. executed' \subseteq Issued'
    BY <1>0, <1>1, <1>7 DEF RecordInv
  <2> QED BY <1>7, <2>1, <2>2, <2>3, <2>4, <2>5, <2>6, <2>7 DEF RecordInv
<1>14. UndoInv'
  BY <1>0, <1>1, <1>6 DEF UndoInv
<1>15. FreshInv'
  BY <1>0, <1>6, <1>7, <1>10, <1>11 DEF FreshInv, Stepping
<1>16. DataInv'
  BY <1>0, <1>1, <1>5, <1>11 DEF DataInv, stepVars
<1>17. CallInv'
  BY <1>0, <1>1, <1>2, <1>5, <1>10, <1>11 DEF CallInv, Stepping, Carrying
<1> QED BY <1>1, <1>2, <1>3, <1>7, <1>8, <1>9, <1>12, <1>13, <1>14, <1>15, <1>16, <1>17, InvOfParts
        DEF CommandInv

\* There is room on the stack for every effect that is not there yet: each entry
\* has a visit of a node of its own.
LEMMA RoomToPush ==
  ASSUME NEW undo \in Seq(Entry), NEW c \in Cmd, ~IsUndo(c), c.node \in Compensable,
         \A i \in DOMAIN undo : undo[i].key.node \in Compensable /\ Origin(undo[i].key) # c,
         \A i, j \in DOMAIN undo : Origin(undo[i].key) = Origin(undo[j].key) => i = j
  PROVE  Len(undo) + 1 \in 1 .. Cardinality(Compensable) * MaxNodeVisits
<1> DEFINE N == Len(undo) + 1
           k == [i \in 1 .. N |-> IF i = N THEN c ELSE undo[i].key]
           D == Compensable \X (1 .. MaxNodeVisits)
           f == [i \in 1 .. N |-> <<k[i].node, k[i].visit>>]
<1>1. /\ N \in Nat /\ N > 0 /\ DOMAIN undo = 1 .. Len(undo)
      /\ \A i \in 1 .. N : i # N => i \in DOMAIN undo
  OBVIOUS
<1>2. IsFiniteSet(D) /\ Cardinality(D) = Cardinality(Compensable) * MaxNodeVisits
  <2> DEFINE I == 1 .. MaxNodeVisits
  <2>1. IsFiniteSet(I) /\ Cardinality(I) = MaxNodeVisits
    <3>1. MaxNodeVisits - 1 + 1 = MaxNodeVisits /\ ~(1 > MaxNodeVisits) /\ MaxNodeVisits \in Int
      BY JournaledAssumption
    <3> QED BY <3>1, FS_Interval
  <2>2. IsFiniteSet(Compensable)
    BY JournaledAssumption
  <2> HIDE DEF I
  <2>3. IsFiniteSet(Compensable \X I) /\ Cardinality(Compensable \X I) = Cardinality(Compensable) * Cardinality(I)
    BY <2>1, <2>2, FS_Product
  <2> QED BY <2>1, <2>3 DEF I
<1>3. IsFiniteSet(1 .. N) /\ Cardinality(1 .. N) = N
  BY <1>1, FS_Interval
<1>4. Cardinality(D) \in Nat
  BY <1>2, FS_CardinalityType
<1>5. \A i \in 1 .. N : k[i] \in Cmd /\ k[i].node \in Compensable
  <2>1. \A i \in DOMAIN undo : undo[i] \in Entry
    OBVIOUS
  <2>2. \A i \in DOMAIN undo : undo[i].key \in Cmd
    BY <2>1 DEF Entry
  <2> QED BY <1>1, <2>2
<1>6. f \in [1 .. N -> D]
  BY <1>5 DEF Cmd
<1>7. \A i \in 1 .. N : f[i] = <<k[i].node, k[i].visit>>
  OBVIOUS
<1>8. \A i, j \in 1 .. N : Origin(k[i]) = Origin(k[j]) => i = j
  <2>1. Origin(c) = c
    BY DEF Origin, IsUndo, Cmd
  <2>2. \A i \in DOMAIN undo : k[i] = undo[i].key /\ i # N
    BY <1>1
  <2>3. k[N] = c
    BY <1>1
  <2> HIDE DEF k, N
  <2> QED BY <1>1, <2>1, <2>2, <2>3
<1> HIDE DEF N, k, D, f
<1>9. \A i, j \in 1 .. N : f[i] = f[j] => i = j
  <2>1. \A a, b \in Cmd : a.node = b.node /\ a.visit = b.visit => Origin(a) = Origin(b)
    BY DEF Cmd, Origin
  <2> QED BY <1>5, <1>7, <1>8, <2>1
<1>10. ~(Cardinality(D) < N)
  <2> DEFINE S == 1 .. N
  <2>1. IsFiniteSet(S) /\ Cardinality(S) = N /\ f \in [S -> D] /\ \A i, j \in S : f[i] = f[j] => i = j
    BY <1>3, <1>6, <1>9
  <2> HIDE DEF S
  <2> QED BY <1>2, <2>1, FS_PigeonHole
<1>11. N <= Cardinality(D)
  BY <1>1, <1>4, <1>10
<1> QED BY <1>1, <1>2, <1>4, <1>11 DEF N

\* An entry put on top of the stack: it is not done, and its effect was carried out.
LEMMA PushKeeps ==
  ASSUME Inv, lost \in Nat, lost' = lost, Push
  PROVE  Inv'
<1> DEFINE key == [cmd EXCEPT !.pos = Len(ctx.undo) + 1]
           e == [key |-> key, done |-> FALSE]
           c == [ctx EXCEPT !.undo = Append(@, e)]
           f == [kind |-> "compensation_pushed", cmd |-> key]
           U == rebuilt.undo
           n == Len(U)
<1>0. /\ CallInv /\ DataInv /\ LiveInv /\ FoldInv /\ JournalInv /\ PendingInv /\ RecordInv
      /\ UndoInv /\ FreshInv /\ OrderInv /\ UndoneInReverse
      /\ ctx \in Context /\ rebuilt \in Context /\ log \in Seq(Fact) /\ U \in Seq(Entry)
  BY PartsOfInv DEF OrderInv, Context
<1>1. /\ pc = "push" /\ pc' = back /\ Record(c, f) /\ Delivered
      /\ UNCHANGED <<executed, stepVars, queue>>
  BY DEF Push
<1>2. /\ ctx.bound /\ PendingCommands = {} /\ cmd \in executed /\ cmd \in Cmd /\ ~IsUndo(cmd)
      /\ cmd.node \in Compensable /\ \A i \in DOMAIN U : Origin(U[i].key) # cmd
  BY <1>0, <1>1 DEF CallInv, UnboundAt, PendingInv, RecordInv, Carrying, DataInv
<1>3. Agrees(ctx, rebuilt) /\ ctx.undo = U /\ n \in Nat
  <2>1. n \in Nat
    BY <1>0
  <2> QED BY <1>0, <1>2, <2>1 DEF LiveInv, Agrees
<1>4. key \in Cmd /\ key.pos = n + 1 /\ key.node = cmd.node /\ Origin(key) = cmd
  <2>1. n + 1 \in 1 .. Cardinality(Compensable) * MaxNodeVisits
    BY <1>0, <1>2, RoomToPush DEF UndoInv
  <2>2. Cardinality(Compensable) * MaxNodeVisits \in Nat
    BY JournaledAssumption, FS_CardinalityType
  <2>3. n + 1 \in 0 .. Cardinality(Compensable) * MaxNodeVisits
    BY <2>1, <2>2
  <2>4. [cmd EXCEPT !.pos = n + 1] \in Cmd
    BY <1>2, <2>3 DEF Cmd
  <2>5. Origin([cmd EXCEPT !.pos = n + 1]) = cmd
    BY <1>2 DEF Cmd, Origin, IsUndo
  <2>6. [cmd EXCEPT !.pos = n + 1].pos = n + 1 /\ [cmd EXCEPT !.pos = n + 1].node = cmd.node
    BY <1>2 DEF Cmd
  <2> QED BY <1>3, <2>4, <2>5, <2>6
<1> HIDE DEF key
<1>5. f \in Fact /\ f.kind = "compensation_pushed" /\ f.cmd = key
  BY <1>4 DEF Fact, CommandFact
<1>6. ApplyOcc(ctx, f) = c
  BY <1>5 DEF ApplyOcc
<1>7. c \in Context /\ c.bound /\ c.current = ctx.current
  <2>1. ApplyOcc(ctx, f) \in Context
    BY <1>0, <1>5, ApplyOccType
  <2> QED BY <1>0, <1>2, <1>6, <2>1 DEF Context
<1>8. Agrees(c, ApplyOcc(rebuilt, f))
  BY <1>0, <1>3, <1>5, <1>6, ApplyOccAgrees
<1>9. /\ ctx' = c /\ snap' = snap /\ created' = created /\ call' = call
      /\ Appended(f) /\ log' = Append(log, f) /\ rebuilt' = ApplyOcc(rebuilt, f)
  <2> HIDE DEF c, f
  <2> QED BY <1>1, <1>7, RecordOfBound
<1>10. rebuilt'.undo = Append(U, e) /\ rebuilt'.visits = rebuilt.visits
  BY <1>0, <1>5, <1>9 DEF ApplyOcc, Context
<1>11. e.key = key /\ e.done = FALSE /\ e \in Entry
  BY <1>4 DEF Entry
<1> HIDE DEF c, f, e
<1>12. JournalPart'
  BY <1>0, <1>5, <1>7, <1>8, <1>9, RecordedFact DEF JournalPart
<1>13. /\ Issued' = Issued /\ PendingCommands' = PendingCommands /\ FailedCommands' = FailedCommands
       /\ \A A : Answered(A)' = Answered(A)
       /\ \A d : Latest(d)' = Latest(d)
  BY <1>0, <1>5, <1>9, QuietFact
<1> DEFINE V == rebuilt'.undo
<1>14. /\ DOMAIN U = 1 .. n /\ DOMAIN V = 1 .. n + 1 /\ V[n + 1] = e
       /\ \A i \in 1 .. n : V[i] = U[i]
  BY <1>0, <1>10, <1>11, AppendProperties
<1> HIDE DEF U, V, n
<1>15. /\ back \in {"redeliver", "judge", "compensate"} /\ (back = "redeliver" => queue = {})
       /\ cmd' \in {NoCmd, cmd} /\ answer' \in {answer, "none"}
  BY <1>0, <1>1 DEF CallInv, PendingInv, Carrying, Delivered
<1>16. PendingInv'
  BY <1>1, <1>2, <1>13, <1>15 DEF PendingInv, Carrying
<1>17. RecordInv'
  BY <1>0, <1>1, <1>13, <1>15 DEF RecordInv
<1>18. UndoInv'
  <2>1. ASSUME NEW i \in DOMAIN V
        PROVE  V[i].key.pos = i /\ V[i].key.node \in Compensable /\ Origin(V[i].key) \in executed
    <3>1. CASE i = n + 1
      BY <1>2, <1>4, <1>11, <1>14, <3>1
    <3>2. CASE i # n + 1
      <4>1. i \in DOMAIN U /\ V[i] = U[i]
        BY <1>3, <1>14, <3>2
      <4> QED BY <1>0, <4>1 DEF UndoInv, U
    <3> QED BY <3>1, <3>2
  <2>2. ASSUME NEW i \in DOMAIN V, NEW j \in DOMAIN V, Origin(V[i].key) = Origin(V[j].key)
        PROVE  i = j
    <3>1. \A x \in DOMAIN V : x # n + 1 => x \in DOMAIN U /\ V[x] = U[x]
      BY <1>3, <1>14
    <3>2. Origin(V[n + 1].key) = cmd
      BY <1>4, <1>11, <1>14
    <3> QED BY <1>0, <1>2, <2>2, <3>1, <3>2 DEF UndoInv, U
  <2> QED BY <1>1, <2>1, <2>2 DEF UndoInv, V
<1>19. \A d : Done(U, d) => Done(V, d)
  BY <1>3, <1>14 DEF Done
<1>20. \A d : Done(V, d) => Done(U, d)
  BY <1>3, <1>11, <1>14 DEF Done
<1>21. FreshInv'
  BY <1>0, <1>1, <1>10, <1>13, <1>15, <1>19 DEF FreshInv, Stepping, U, V
<1>22. OrderInv'
  <2>1. /\ DOMAIN log = 1 .. Len(log) /\ DOMAIN log' = 1 .. Len(log) + 1 /\ Len(log) \in Nat
        /\ Len(log') = Len(log) + 1 /\ log'[Len(log) + 1] = f
        /\ \A i \in DOMAIN log : log'[i] = log[i]
    BY <1>0, <1>5, <1>9, LogGrows
  <2>2. ASSUME NEW i \in DOMAIN log', log'[i].kind = "compensation_fired"
        PROVE  /\ i \in DOMAIN log /\ log'[i] = log[i] /\ i \in Nat /\ i <= Len(log)
               /\ \A j \in 1 .. i - 1 : j \in DOMAIN log /\ log'[j] = log[j] /\ j + 1 .. i - 1 \subseteq 1 .. i - 1
    <3>1. i # Len(log) + 1
      BY <1>5, <2>1, <2>2
    <3> QED BY <2>1, <3>1
  <2>3. \A i \in DOMAIN log' : log'[i].kind = "compensation_fired" => Done(V, log'[i].cmd)
    BY <1>0, <1>19, <2>2 DEF OrderInv, U
  <2>4. ASSUME NEW j \in DOMAIN log', log'[j].kind = "compensation_pushed"
        PROVE  /\ log'[j].cmd.pos \in DOMAIN V
               /\ V[log'[j].cmd.pos].key = log'[j].cmd
               /\ Done(V, log'[j].cmd) =>
                    \E k \in j + 1 .. Len(log') : log'[k].kind = "compensation_fired" /\ log'[k].cmd = log'[j].cmd
    <3>1. CASE j = Len(log) + 1
      <4>1. log'[j].cmd = key /\ key.pos = n + 1
        BY <1>4, <1>5, <2>1, <3>1
      <4>2. ~Done(V, key)
        BY <1>4, <1>11, <1>14 DEF Done
      <4> QED BY <1>3, <1>11, <1>14, <4>1, <4>2
    <3>2. CASE j # Len(log) + 1
      <4>1. j \in DOMAIN log /\ log'[j] = log[j] /\ log[j].kind = "compensation_pushed"
        BY <2>1, <2>4, <3>2
      <4>2. log[j].cmd.pos \in DOMAIN U /\ U[log[j].cmd.pos].key = log[j].cmd
        BY <1>0, <4>1 DEF OrderInv, U
      <4>3. log[j].cmd.pos \in DOMAIN V /\ V[log[j].cmd.pos] = U[log[j].cmd.pos]
        BY <1>3, <1>14, <4>2
      <4>4. ASSUME Done(U, log[j].cmd)
            PROVE  \E k \in j + 1 .. Len(log') : log'[k].kind = "compensation_fired" /\ log'[k].cmd = log[j].cmd
        <5>1. PICK k \in j + 1 .. Len(log) : log[k].kind = "compensation_fired" /\ log[k].cmd = log[j].cmd
          BY <1>0, <4>1, <4>4 DEF OrderInv, U
        <5>2. k \in DOMAIN log /\ k \in j + 1 .. Len(log')
          BY <2>1, <4>1
        <5> QED BY <2>1, <5>1, <5>2
      <4> QED BY <1>20, <4>1, <4>2, <4>3, <4>4
    <3> QED BY <3>1, <3>2
  <2>5. UndoneInReverse'
    <3> SUFFICES ASSUME NEW i \in DOMAIN log', log'[i].kind = "compensation_fired"
                 PROVE  /\ \A j \in 1 .. i - 1 : log'[j].kind = "compensation_fired" => log'[j].cmd # log'[i].cmd
                        /\ \A j \in 1 .. i - 1 :
                             log'[j].kind = "compensation_pushed" /\ log'[j].cmd.pos > log'[i].cmd.pos =>
                               \E k \in j + 1 .. i - 1 :
                                 log'[k].kind = "compensation_fired" /\ log'[k].cmd = log'[j].cmd
      BY DEF UndoneInReverse
    <3>1. i \in DOMAIN log /\ log'[i] = log[i] /\ log[i].kind = "compensation_fired"
      BY <2>2
    <3>2. \A j \in 1 .. i - 1 : log'[j] = log[j] /\ j + 1 .. i - 1 \subseteq 1 .. i - 1
      BY <2>2
    <3>3. ASSUME NEW j \in 1 .. i - 1, log'[j].kind = "compensation_fired"
          PROVE  log'[j].cmd # log'[i].cmd
      <4>1. log[j].kind = "compensation_fired" /\ log'[j] = log[j]
        BY <3>2, <3>3
      <4> QED BY <1>0, <3>1, <4>1 DEF UndoneInReverse
    <3>4. ASSUME NEW j \in 1 .. i - 1, log'[j].kind = "compensation_pushed", log'[j].cmd.pos > log'[i].cmd.pos
          PROVE  \E k \in j + 1 .. i - 1 : log'[k].kind = "compensation_fired" /\ log'[k].cmd = log'[j].cmd
      <4>1. log[j].kind = "compensation_pushed" /\ log'[j] = log[j] /\ log[j].cmd.pos > log[i].cmd.pos
        BY <3>1, <3>2, <3>4
      <4>2. PICK k \in j + 1 .. i - 1 : log[k].kind = "compensation_fired" /\ log[k].cmd = log[j].cmd
        BY <1>0, <3>1, <4>1 DEF UndoneInReverse
      <4>3. log'[k] = log[k]
        BY <3>2
      <4> QED BY <4>1, <4>2, <4>3
    <3> QED BY <3>3, <3>4
  <2> QED BY <2>3, <2>4, <2>5 DEF OrderInv, V
<1>23. DataInv'
  BY <1>0, <1>1, <1>2, <1>9, <1>15 DEF DataInv, stepVars
<1>24. back' \in {back, "none"} /\ ctx'.bound
  BY <1>1, <1>7, <1>9 DEF Delivered
<1>25. CallInv'
  BY <1>0, <1>1, <1>9, <1>15, <1>24 DEF CallInv, Stepping, Carrying
<1> QED BY <1>12, <1>16, <1>17, <1>18, <1>21, <1>22, <1>23, <1>25, InvOfParts DEF CommandInv

\* With keys that name their places, marking a key marks one entry.
LEMMA FiredAtItsPlace ==
  ASSUME NEW undo \in Seq(Entry), \A j \in DOMAIN undo : undo[j].key.pos = j, NEW i \in DOMAIN undo
  PROVE  /\ Fired(undo, undo[i].key) = [undo EXCEPT ![i].done = TRUE]
         /\ Fired(undo, undo[i].key)[i] = [key |-> undo[i].key, done |-> TRUE]
         /\ \A j \in DOMAIN undo : j # i => Fired(undo, undo[i].key)[j] = undo[j]
<1> DEFINE F == Fired(undo, undo[i].key)
<1>1. /\ DOMAIN F = DOMAIN undo /\ F \in Seq(Entry)
      /\ \A j \in DOMAIN undo : F[j] = IF undo[j].key = undo[i].key
                                       THEN [undo[j] EXCEPT !.done = TRUE] ELSE undo[j]
  BY FiredType DEF Fired
<1>2. \A j \in DOMAIN undo : undo[j].key = undo[i].key => j = i
  OBVIOUS
<1>3. \A j \in DOMAIN undo : F[j] = IF j = i THEN [undo[j] EXCEPT !.done = TRUE] ELSE undo[j]
  BY <1>1, <1>2
<1>4. F[i] = [key |-> undo[i].key, done |-> (undo[i].done \/ undo[i].key = undo[i].key)]
  BY FiredType
<1>5. F[i] = [key |-> undo[i].key, done |-> TRUE]
  BY <1>4
<1>6. F = [j \in DOMAIN undo |-> F[j]]
  BY <1>1 DEF Fired
<1> HIDE DEF F
<1>7. F = [undo EXCEPT ![i].done = TRUE]
  BY <1>3, <1>6
<1> QED BY <1>3, <1>5, <1>7 DEF F

\* The compensation that is begun is the one of the top entry not yet done.
LEMMA FireKeeps ==
  ASSUME Inv, lost \in Nat, lost' = lost, Fire
  PROVE  Inv'
<1> DEFINE U == rebuilt.undo
<1>0. /\ CallInv /\ DataInv /\ LiveInv /\ FoldInv /\ JournalInv /\ PendingInv /\ RecordInv
      /\ UndoInv /\ FreshInv /\ OrderInv /\ UndoneInReverse
      /\ ctx \in Context /\ rebuilt \in Context /\ log \in Seq(Fact) /\ U \in Seq(Entry)
  BY PartsOfInv DEF OrderInv, Context
<1>1. PICK i \in DOMAIN ctx.undo :
         /\ ~ctx.undo[i].done /\ \A j \in DOMAIN ctx.undo : ~ctx.undo[j].done => j <= i
         /\ Record([ctx EXCEPT !.undo[i].done = TRUE],
                   [kind |-> "compensation_fired", cmd |-> ctx.undo[i].key])
         /\ cmd' = ctx.undo[i].key
  BY DEF Fire, Undone, NextUndone
<1>2. /\ pc = "compensate" /\ pc' = "undo" /\ PendingCommands = {}
      /\ UNCHANGED <<executed, stepVars, answer, back, queue>>
  BY NonePending DEF Fire, Quiet
<1>3. ctx.bound /\ Agrees(ctx, rebuilt) /\ ctx.undo = U
  <2>1. ctx.undo # <<>>
    BY <1>1
  <2> QED BY <1>0, <1>2, <2>1 DEF CallInv, LiveInv, Agrees
<1> DEFINE key == U[i].key
           c == [ctx EXCEPT !.undo[i].done = TRUE]
           f == [kind |-> "compensation_fired", cmd |-> key]
<1>4. /\ i \in DOMAIN U /\ i \in Nat /\ ~U[i].done /\ \A j \in DOMAIN U : ~U[j].done => j <= i
      /\ Record(c, f) /\ cmd' = key
  BY <1>0, <1>1, <1>3
<1>5. key \in Cmd /\ key.pos = i /\ U[i] \in Entry
  <2>1. U[i] \in Entry /\ key.pos = i
    BY <1>0, <1>4 DEF UndoInv
  <2> QED BY <2>1 DEF Entry
<1>6. f \in Fact /\ f.kind = "compensation_fired" /\ f.cmd = key
  BY <1>5 DEF Fact, CommandFact
<1>7. /\ Fired(U, key) = [U EXCEPT ![i].done = TRUE]
      /\ Fired(U, key)[i] = [key |-> key, done |-> TRUE]
      /\ \A j \in DOMAIN U : j # i => Fired(U, key)[j] = U[j]
      /\ DOMAIN Fired(U, key) = DOMAIN U
  <2>1. \A j \in DOMAIN U : U[j].key.pos = j
    BY <1>0 DEF UndoInv
  <2>2. U \in Seq(Entry) /\ i \in DOMAIN U
    BY <1>0, <1>4
  <2> HIDE DEF U
  <2>3. DOMAIN Fired(U, U[i].key) = DOMAIN U
    BY <2>2, FiredType
  <2>4. /\ Fired(U, U[i].key) = [U EXCEPT ![i].done = TRUE]
        /\ Fired(U, U[i].key)[i] = [key |-> U[i].key, done |-> TRUE]
        /\ \A j \in DOMAIN U : j # i => Fired(U, U[i].key)[j] = U[j]
    BY <2>1, <2>2, FiredAtItsPlace
  <2> QED BY <2>3, <2>4
<1>8. ApplyOcc(ctx, f) = c
  <2>1. ApplyOcc(ctx, f) = [ctx EXCEPT !.undo = Fired(@, key)]
    BY <1>6 DEF ApplyOcc
  <2>2. c = [ctx EXCEPT !.undo = [ctx.undo EXCEPT ![i].done = TRUE]]
    OBVIOUS
  <2> HIDE DEF c, f, U
  <2> QED BY <1>3, <1>7, <2>1, <2>2
<1> HIDE DEF c
<1>9. c \in Context /\ c.bound
  BY <1>0, <1>3, <1>6, <1>8, ApplyOccType, ApplyOccRest
<1>10. Agrees(c, ApplyOcc(rebuilt, f))
  BY <1>0, <1>3, <1>6, <1>8, ApplyOccAgrees
<1>11. /\ ctx' = c /\ snap' = snap /\ created' = created /\ call' = call
       /\ Appended(f) /\ log' = Append(log, f) /\ rebuilt' = ApplyOcc(rebuilt, f)
  <2> HIDE DEF f
  <2> QED BY <1>4, <1>9, RecordOfBound
<1>12. rebuilt'.undo = Fired(U, key) /\ rebuilt'.visits = rebuilt.visits
  BY <1>0, <1>6, <1>11 DEF ApplyOcc, Context
<1> HIDE DEF f
<1>13. JournalPart'
  BY <1>0, <1>6, <1>9, <1>10, <1>11, RecordedFact DEF JournalPart
<1>14. /\ Issued' = Issued /\ PendingCommands' = PendingCommands /\ FailedCommands' = FailedCommands
       /\ \A A : Answered(A)' = Answered(A)
       /\ \A d : Latest(d)' = Latest(d)
  BY <1>0, <1>6, <1>11, QuietFact
<1> DEFINE V == rebuilt'.undo
<1>15. /\ DOMAIN V = DOMAIN U /\ V[i] = [key |-> key, done |-> TRUE]
       /\ \A j \in DOMAIN U : j # i => V[j] = U[j]
       /\ \A j \in DOMAIN U : V[j].key = U[j].key
  BY <1>7, <1>12
<1> HIDE DEF V, U, key
<1>16. PendingInv'
  BY <1>2, <1>14 DEF PendingInv, Carrying
<1>17. RecordInv'
  BY <1>0, <1>2, <1>14 DEF RecordInv
<1>18. UndoInv'
  BY <1>0, <1>2, <1>15 DEF UndoInv, U, V
<1>19. \A d : Done(U, d) => Done(V, d)
  BY <1>4, <1>15 DEF Done
<1>20. \A d : Done(V, d) => d = key \/ Done(U, d)
  BY <1>15 DEF Done
<1>21. Done(V, key) /\ ~Done(U, key)
  BY <1>4, <1>5, <1>15 DEF Done
<1>22. FreshInv'
  <2>1. key.pos # 0
    BY <1>0, <1>4, <1>5 DEF U
  <2>2. key \notin Issued
    BY <1>0, <1>21, <2>1 DEF FreshInv, IsUndo, U
  <2> QED BY <1>0, <1>2, <1>4, <1>12, <1>14, <1>19, <1>21, <2>1, <2>2 DEF FreshInv, IsUndo, Stepping, U, V
<1>23. OrderInv'
  <2>1. /\ DOMAIN log = 1 .. Len(log) /\ DOMAIN log' = 1 .. Len(log) + 1 /\ Len(log) \in Nat
        /\ Len(log') = Len(log) + 1 /\ log'[Len(log) + 1] = f
        /\ \A x \in DOMAIN log : log'[x] = log[x]
    BY <1>0, <1>6, <1>11, LogGrows
  <2>2. \A x \in DOMAIN log' : x \in DOMAIN log \/ x = Len(log) + 1
    BY <2>1
  <2>3. \A x \in DOMAIN log' : log'[x].kind = "compensation_fired" => Done(V, log'[x].cmd)
    BY <1>0, <1>6, <1>19, <1>21, <2>1, <2>2 DEF OrderInv, U
  <2>4. ASSUME NEW j \in DOMAIN log', log'[j].kind = "compensation_pushed"
        PROVE  /\ log'[j].cmd.pos \in DOMAIN V
               /\ V[log'[j].cmd.pos].key = log'[j].cmd
               /\ Done(V, log'[j].cmd) =>
                    \E k \in j + 1 .. Len(log') : log'[k].kind = "compensation_fired" /\ log'[k].cmd = log'[j].cmd
    <3>1. j \in DOMAIN log /\ log'[j] = log[j] /\ log[j].kind = "compensation_pushed"
      BY <1>6, <2>1, <2>2, <2>4
    <3>2. log[j].cmd.pos \in DOMAIN U /\ U[log[j].cmd.pos].key = log[j].cmd
      BY <1>0, <3>1 DEF OrderInv, U
    <3>3. ASSUME log[j].cmd = key
          PROVE  \E k \in j + 1 .. Len(log') : log'[k].kind = "compensation_fired" /\ log'[k].cmd = log[j].cmd
      <4>1. Len(log) + 1 \in j + 1 .. Len(log')
        BY <2>1, <3>1
      <4> QED BY <1>6, <2>1, <3>3, <4>1
    <3>4. ASSUME Done(U, log[j].cmd)
          PROVE  \E k \in j + 1 .. Len(log') : log'[k].kind = "compensation_fired" /\ log'[k].cmd = log[j].cmd
      <4>1. PICK k \in j + 1 .. Len(log) : log[k].kind = "compensation_fired" /\ log[k].cmd = log[j].cmd
        BY <1>0, <3>1, <3>4 DEF OrderInv, U
      <4>2. k \in DOMAIN log /\ k \in j + 1 .. Len(log')
        BY <2>1, <3>1
      <4> QED BY <2>1, <4>1, <4>2
    <3> QED BY <1>15, <1>20, <3>1, <3>2, <3>3, <3>4
  <2>5. UndoneInReverse'
    <3> SUFFICES ASSUME NEW x \in DOMAIN log', log'[x].kind = "compensation_fired"
                 PROVE  /\ \A j \in 1 .. x - 1 : log'[j].kind = "compensation_fired" => log'[j].cmd # log'[x].cmd
                        /\ \A j \in 1 .. x - 1 :
                             log'[j].kind = "compensation_pushed" /\ log'[j].cmd.pos > log'[x].cmd.pos =>
                               \E k \in j + 1 .. x - 1 :
                                 log'[k].kind = "compensation_fired" /\ log'[k].cmd = log'[j].cmd
      BY DEF UndoneInReverse
    <3>1. \A j \in 1 .. x - 1 : j \in DOMAIN log /\ log'[j] = log[j] /\ j + 1 .. x - 1 \subseteq 1 .. x - 1
      BY <2>1
    <3>2. CASE x \in DOMAIN log
      <4>1. log'[x] = log[x]
        BY <2>1, <3>2
      <4>2. log[x].kind = "compensation_fired"
        BY <4>1
      <4>3. /\ \A j \in 1 .. x - 1 : log[j].kind = "compensation_fired" => log[j].cmd # log[x].cmd
            /\ \A j \in 1 .. x - 1 :
                 log[j].kind = "compensation_pushed" /\ log[j].cmd.pos > log[x].cmd.pos =>
                   \E k \in j + 1 .. x - 1 : log[k].kind = "compensation_fired" /\ log[k].cmd = log[j].cmd
        BY <1>0, <3>2, <4>2 DEF UndoneInReverse
      <4>4. ASSUME NEW j \in 1 .. x - 1, log'[j].kind = "compensation_pushed",
                   log'[j].cmd.pos > log'[x].cmd.pos
            PROVE  \E k \in j + 1 .. x - 1 : log'[k].kind = "compensation_fired" /\ log'[k].cmd = log'[j].cmd
        <5>1. PICK k \in j + 1 .. x - 1 : log[k].kind = "compensation_fired" /\ log[k].cmd = log[j].cmd
          BY <3>1, <4>1, <4>3, <4>4
        <5> QED BY <3>1, <5>1
      <4> QED BY <3>1, <4>1, <4>3, <4>4
    <3>3. CASE x = Len(log) + 1
      <4>1. log'[x].cmd = key /\ x - 1 = Len(log)
        BY <1>6, <2>1, <3>3
      <4>2. ASSUME NEW j \in 1 .. x - 1, log'[j].kind = "compensation_fired"
            PROVE  log'[j].cmd # key
        BY <1>0, <1>21, <3>1, <4>2 DEF OrderInv, U
      <4>3. ASSUME NEW j \in 1 .. x - 1, log'[j].kind = "compensation_pushed", log'[j].cmd.pos > i
            PROVE  \E k \in j + 1 .. x - 1 : log'[k].kind = "compensation_fired" /\ log'[k].cmd = log'[j].cmd
        <5>1. log[j].kind = "compensation_pushed" /\ log'[j] = log[j] /\ j \in DOMAIN log
          BY <3>1, <4>3
        <5>2. log[j].cmd.pos \in DOMAIN U /\ U[log[j].cmd.pos].key = log[j].cmd
          BY <1>0, <5>1 DEF OrderInv, U
        <5>3. U[log[j].cmd.pos].done /\ U[log[j].cmd.pos] \in Entry
          <6>1. log[j].cmd.pos \in Nat /\ ~(log[j].cmd.pos <= i)
            BY <1>0, <1>4, <4>3, <5>1, <5>2 DEF U
          <6> QED BY <1>0, <1>4, <5>2, <6>1 DEF U
        <5>4. Done(U, log[j].cmd)
          BY <5>2, <5>3 DEF Done, Entry
        <5>5. PICK k \in j + 1 .. Len(log) : log[k].kind = "compensation_fired" /\ log[k].cmd = log[j].cmd
          BY <1>0, <5>1, <5>4 DEF OrderInv, U
        <5> QED BY <3>1, <4>1, <5>1, <5>5
      <4> QED BY <1>5, <4>1, <4>2, <4>3
    <3> QED BY <2>2, <3>2, <3>3
  <2> QED BY <2>3, <2>4, <2>5 DEF OrderInv, V
<1>24. DataInv'
  BY <1>0, <1>2, <1>4, <1>5, <1>11 DEF DataInv, stepVars
<1>25. CallInv'
  BY <1>0, <1>2, <1>9, <1>11 DEF CallInv, Stepping, Carrying
<1> QED BY <1>13, <1>16, <1>17, <1>18, <1>22, <1>23, <1>24, <1>25, InvOfParts DEF CommandInv

-----------------------------------------------------------------------------
(* The invariant, from the initial state on.                               *)

\* The journal refuses facts one at a time and never takes a refusal back.
LEMMA LostGrows ==
  ASSUME lost \in Nat, [Next]_vars
  PROVE  lost' \in Nat /\ lost' >= lost
<1> DEFINE G == lost' = lost \/ lost' = lost + 1
<1> SUFFICES G
  OBVIOUS
<1>1. ASSUME NEW c, NEW f, Record(c, f) PROVE G
  BY <1>1 DEF Record
<1>2. ASSUME NEW s, SetStatus(s) PROVE G
  BY <1>1, <1>2 DEF SetStatus
<1>3. ASSUME NEW e, Create(e) PROVE G
  BY <1>3 DEF Create, bounds
<1>4. ASSUME NEW op, NEW e, Load(op, e) PROVE G
  BY <1>4 DEF Load, bounds
<1>5. ASSUME NEW c, Redeliver(c) PROVE G
  BY <1>1, <1>5 DEF Redeliver
<1>6. CASE Bind \/ AcceptEvent \/ Place \/ StepVisit \/ StepMoves
  BY <1>1, <1>6 DEF Bind, AcceptEvent, Place, StepVisit, StepMoves
<1>7. CASE Run \/ DrainFails \/ StepEnd \/ StepFails \/ StepRuns
  BY <1>2, <1>7 DEF Run, DrainFails, StepEnd, StepFails, StepRuns
<1>8. CASE Enter \/ DispatchNothing \/ Compensated
  BY <1>8 DEF Enter, DispatchNothing, Compensated, Silent, bounds
<1>9. CASE Dispatch \/ Resolve \/ Push \/ IssueUndo \/ Fire
  BY <1>1, <1>9 DEF Dispatch, Resolve, Push, IssueUndo, Fire
<1>10. CASE Judge
  BY <1>2, <1>10 DEF Judge, JudgeFailed, JudgeCritical, JudgeEnded, JudgeWaits, JudgeGoesOn, Silent, bounds
<1>11. CASE Execute \/ Sync \/ Crash
  BY <1>11 DEF Execute, Sync, Crash, bounds
<1>12. CASE UNCHANGED vars
  BY <1>12 DEF vars, bounds
<1> QED
  BY <1>3, <1>4, <1>5, <1>6, <1>7, <1>8, <1>9, <1>10, <1>11, <1>12 DEF Next, Feed, Compensate, Work

\* Nothing happens.
LEMMA StutterKeeps ==
  ASSUME Inv, UNCHANGED vars
  PROVE  Inv'
<1>1. /\ log' = log /\ rebuilt' = rebuilt /\ restored' = restored /\ snap' = snap /\ ctx' = ctx
      /\ executed' = executed /\ created' = created /\ pc' = pc /\ call' = call
      /\ UNCHANGED <<emit, goal, cmd, answer, back, queue>>
  BY DEF vars, journal, callVars
<1>2. /\ JournalInv /\ LiveInv /\ FoldInv /\ PendingInv /\ RecordInv /\ UndoInv /\ FreshInv
      /\ OrderInv /\ DataInv /\ CallInv
  BY PartsOfInv
<1>3. CommandFrame /\ OrderInv'
  BY <1>1, <1>2, FrameOfSame
<1>4. JournalPart'
  BY <1>1, <1>2, UnwrittenStep DEF journal, JournalPart, LiveInv, JournalInv
<1>5. PendingInv'
  BY <1>1, <1>2, <1>3 DEF PendingInv, CommandFrame
<1>6. RecordInv'
  BY <1>1, <1>2, <1>3 DEF RecordInv, CommandFrame
<1>7. UndoInv'
  BY <1>1, <1>2, <1>3 DEF UndoInv, CommandFrame
<1>8. FreshInv'
  BY <1>1, <1>2, <1>3 DEF FreshInv, CommandFrame
<1>9. DataInv' /\ CallInv'
  BY <1>1, <1>2 DEF DataInv, CallInv
<1> QED BY <1>3, <1>4, <1>5, <1>6, <1>7, <1>8, <1>9, InvOfParts DEF CommandInv

\* An instance without a record has an empty journal, and that folds to a blank context.
LEMMA InitIInv == Init => IInv
<1> SUFFICES ASSUME Init PROVE IInv
  OBVIOUS
<1>1. log = <<>> /\ DOMAIN log = {} /\ Len(log) = 0
  BY DEF Init
<1>2. Blank \in Context /\ ~Blank.bound
  BY BlankIsContext
<1>3. Issued = {} /\ PendingCommands = {} /\ FailedCommands = {} /\ Answered(Answers) = {}
  BY <1>1 DEF Issued, PendingCommands, FailedCommands, Answered, Facts
<1>4. JournalInv
  <2>1. snap \in [upto : 0 .. Len(log), ctx : Context]
    BY <1>1, <1>2 DEF Init, NoSnap
  <2> QED BY <1>1, <1>2, <2>1 DEF Init, JournalInv
<1>5. DataInv
  BY DEF Init, DataInv, Answers
<1>6. CallInv
  BY <1>1 DEF Init, CallInv, Stepping, Carrying
<1>7. LiveInv
  BY <1>1, <1>2 DEF Init, LiveInv, Agrees
<1>8. FoldInv
  BY <1>1, FoldOfNone DEF Init, FoldInv, Fold, NoSnap
<1>9. PendingInv
  BY <1>3 DEF Init, PendingInv, Carrying
<1>10. RecordInv
  BY <1>3 DEF Init, RecordInv
<1>11. UndoInv
  BY DEF Init, UndoInv, Blank
<1>12. FreshInv
  BY <1>3 DEF Init, FreshInv, Stepping
<1>13. OrderInv
  BY <1>1 DEF OrderInv, UndoneInReverse
<1> QED BY <1>4, <1>5, <1>6, <1>7, <1>8, <1>9, <1>10, <1>11, <1>12, <1>13 DEF Init, IInv, Inv, TypeInv

\* Every step the journal refuses nothing in keeps the invariant.
LEMMA NextKeepsInv ==
  ASSUME Inv, lost \in Nat, lost' = lost, [Next]_vars
  PROVE  Inv'
<1>1. CASE \E e \in EventId : Create(e)
  BY <1>1, CreateKeeps
<1>2. CASE Feed
  <2>1. PICK e \in EventId : Load("feed", e)
    BY <1>2 DEF Feed
  <2>2. [op |-> "feed", event |-> e] \in Calls
    BY DEF Calls
  <2> QED BY <2>1, <2>2, LoadKeeps
<1>3. CASE Compensate
  <2>1. [op |-> "compensate", event |-> NoEvent] \in Calls
    BY DEF Calls
  <2> QED BY <1>3, <2>1, LoadKeeps DEF Compensate
<1>4. CASE Crash
  BY <1>4, CrashKeeps
<1>5. CASE Work
  BY <1>5, BindKeeps, AcceptEventKeeps, PlaceKeeps, StatusSteps, RedeliverKeeps, SilentSteps,
     StepVisitKeeps, StepMovesKeeps, DispatchKeeps, ExecuteKeeps, ResolveKeeps, PushKeeps,
     JudgeKeeps, FireKeeps, IssueUndoKeeps, SyncKeeps DEF Work
<1>6. CASE UNCHANGED vars
  BY <1>6, StutterKeeps
<1> QED BY <1>1, <1>2, <1>3, <1>4, <1>5, <1>6 DEF Next

\* Every step keeps the invariant, as long as the journal refused nothing.
LEMMA StepIInv == IInv /\ [Next]_vars => IInv'
<1> SUFFICES ASSUME IInv, [Next]_vars PROVE IInv'
  OBVIOUS
<1>1. lost \in Nat /\ lost' \in Nat /\ lost' >= lost
  BY LostGrows DEF IInv
<1>2. ASSUME lost' = 0 PROVE Inv'
  <2>1. lost = 0 /\ lost' = lost
    BY <1>1, <1>2
  <2> QED BY <1>1, <2>1, NextKeepsInv DEF IInv
<1> QED BY <1>1, <1>2 DEF IInv

\* The inductive invariant holds in every state the instance can reach.
THEOREM InductiveInvariant == Spec => []IInv
<1> QED BY InitIInv, StepIInv, PTL DEF Spec

-----------------------------------------------------------------------------
(* What follows of every state.                                            *)

\* The variables keep to the values the code can give them; the visit counters
\* to the visit fuse, and the keys to the visits and the places of the undo stack.
THEOREM TypeCorrect == Spec => [](lost = 0 => TypeOK)
<1>1. ASSUME Inv PROVE TypeOK
  <2>1. ctx \in Context /\ snap.upto \in 0 .. Len(log) /\ DataInv /\ CallInv
    BY <1>1 DEF Inv, TypeInv, JournalInv
  <2> QED BY <2>1 DEF TypeOK, DataInv, CallInv, Context, Answers
<1>2. IInv => (lost = 0 => TypeOK)
  BY <1>1 DEF IInv
<1> QED BY <1>2, InductiveInvariant, PTL

\* Write-ahead (deliver): nothing is carried out that the journal does not hold
\* as issued, and nothing is pushed for compensation that was not carried out.
THEOREM EffectsAreWrittenAhead == Spec => [](lost = 0 => WriteAhead)
<1>1. ASSUME Inv PROVE WriteAhead
  <2>1. RecordInv /\ UndoInv /\ OrderInv
    BY <1>1, PartsOfInv
  <2>2. ASSUME NEW f \in Facts("compensation_pushed") PROVE Origin(f.cmd) \in executed
    <3>1. PICK j \in DOMAIN log : log[j] = f /\ log[j].kind = "compensation_pushed"
      BY <2>2 DEF Facts
    <3>2. f.cmd.pos \in DOMAIN rebuilt.undo /\ rebuilt.undo[f.cmd.pos].key = f.cmd
      BY <2>1, <3>1 DEF OrderInv
    <3> QED BY <2>1, <3>2 DEF UndoInv
  <2> QED BY <2>1, <2>2 DEF WriteAhead, RecordInv
<1>2. IInv => (lost = 0 => WriteAhead)
  BY <1>1 DEF IInv
<1> QED BY <1>2, InductiveInvariant, PTL

\* Redelivery before work (Manager.load): one command at most is ever unresolved,
\* and past redelivery it is the one the call is delivering.
THEOREM OneCommandPending == Spec => [](lost = 0 => OnePending)
<1>1. ASSUME Inv PROVE OnePending
  <2>1. PendingInv
    BY <1>1, PartsOfInv
  <2>2. Cardinality(PendingCommands) <= 1
    <3>1. CASE PendingCommands = {}
      BY <3>1, FS_EmptySet
    <3>2. CASE PendingCommands # {}
      <4>1. PICK c : c \in PendingCommands
        BY <3>2
      <4>2. PendingCommands = {c}
        BY <2>1, <4>1 DEF PendingInv
      <4> QED BY <4>2, FS_Singleton
    <3> QED BY <3>1, <3>2
  <2>3. pc \notin {"idle", "redeliver"} => PendingCommands \subseteq {cmd}
    BY <2>1 DEF PendingInv
  <2> QED BY <2>2, <2>3 DEF OnePending
<1>2. IInv => (lost = 0 => OnePending)
  BY <1>1 DEF IInv
<1> QED BY <1>2, InductiveInvariant, PTL

\* The record is true: a resolved command was carried out, or it is a dead letter
\* and was not.
THEOREM RecordIsTrue == Spec => [](lost = 0 => Accounted)
<1>1. ASSUME Inv PROVE Accounted
  BY <1>1, PartsOfInv DEF RecordInv, Accounted
<1>2. IInv => (lost = 0 => Accounted)
  BY <1>1 DEF IInv
<1> QED BY <1>2, InductiveInvariant, PTL

\* Compensation undoes what was done in reverse (compensate): every entry once,
\* and none before those pushed after it and before the firing.
THEOREM CompensatedInReverse == Spec => [](lost = 0 => UndoneInReverse)
<1>1. ASSUME Inv PROVE UndoneInReverse
  BY <1>1, PartsOfInv DEF OrderInv
<1>2. IInv => (lost = 0 => UndoneInReverse)
  BY <1>1 DEF IInv
<1> QED BY <1>2, InductiveInvariant, PTL

\* Contexts that agree, and on the event too, are the same context.
LEMMA AgreedIsEqual ==
  ASSUME NEW c \in Context, NEW d \in Context, Agrees(c, d), Named
  PROVE  c = d
BY DEF Context, Agrees

\* Recovery (foldContext, occurrencesAfter): whether the host loads the snapshot
\* and the facts after it or the whole journal, it gets the context the last call
\* worked on, as long as every event has a name: the fold keeps the current event
\* of one that has none, and the live context takes it.
THEOREM FoldRestoresContext ==
  ASSUME Named
  PROVE  Spec => [](lost = 0 => FoldIsLive)
<1>1. ASSUME Inv PROVE FoldIsLive
  <2>1. ctx.bound => ctx = rebuilt
    BY <1>1, PartsOfInv, AgreedIsEqual DEF LiveInv
  <2> QED BY <1>1, <2>1, PartsOfInv DEF FoldInv, FoldIsLive
<1>2. IInv => (lost = 0 => FoldIsLive)
  BY <1>1 DEF IInv
<1> QED BY <1>2, InductiveInvariant, PTL

\* The live context and the rebuilt one agree with the fold of all the facts on
\* everything but the current event.
Recovered ==
  /\ ctx.bound => Agrees(ctx, Fold(log))
  /\ Agrees(restored, Fold(log))

\* Whatever the events are called, a Load after any crash gets the status, the
\* place, the counters, the consumed events and the undo stack of the last call
\* back (foldContext, foldOnto), from a snapshot or from the first fact on.
THEOREM FoldRestoresAllButTheEvent == Spec => [](lost = 0 => Recovered)
<1>1. ASSUME Inv PROVE Recovered
  BY <1>1, PartsOfInv DEF LiveInv, FoldInv, Recovered
<1>2. IInv => (lost = 0 => Recovered)
  BY <1>1 DEF IInv
<1> QED BY <1>2, InductiveInvariant, PTL

-----------------------------------------------------------------------------
(* What follows of every step: an abstract delivery, without processes and  *)
(* crashes.                                                                *)

\* A step that leaves the journal as it is, or adds a fact about no command.
LeavesCommands == \/ log' = log
                  \/ \E f : log' = Append(log, f) /\ f.kind \notin {"command_issued", "command_result"}

\* Such a step issues and answers no command.
LEMMA QuietLog ==
  ASSUME log \in Seq(Fact), LeavesCommands
  PROVE  Issued' = Issued /\ \A A : Answered(A)' = Answered(A)
<1>1. CASE log' = log
  BY <1>1 DEF Issued, Answered, Facts
<1>2. CASE \E f : log' = Append(log, f) /\ f.kind \notin {"command_issued", "command_result"}
  <2>1. PICK f : log' = Append(log, f) /\ f.kind \notin {"command_issued", "command_result"}
    BY <1>2
  <2> DEFINE T == Fact \cup {f}
  <2>2. f \in T /\ log \in Seq(T)
    OBVIOUS
  <2> HIDE DEF T
  <2> QED BY <2>1, <2>2, QuietFact
<1> QED BY <1>1, <1>2 DEF LeavesCommands

\* Every step but those of the delivery of a command is one of these, and has the
\* executor do nothing.
Delivering == \/ \E c \in queue : Redeliver(c)
              \/ Dispatch \/ IssueUndo \/ Execute \/ Resolve

\* A fact that is not about a command leaves the commands.
LEMMA RecordLeaves ==
  ASSUME NEW c, NEW f, Record(c, f), f.kind \notin {"command_issued", "command_result"}
  PROVE  LeavesCommands
BY DEF Record, Appended, LeavesCommands, journal

\* A status is not about a command.
LEMMA StatusLeaves ==
  ASSUME NEW s, SetStatus(s)
  PROVE  LeavesCommands
BY RecordLeaves DEF SetStatus

\* All but the deliveries leave the commands and the executor alone.
LEMMA QuietSteps ==
  ASSUME [Next]_vars, ~Delivering
  PROVE  LeavesCommands /\ executed' = executed
<1>1. ASSUME NEW e, Create(e) PROVE LeavesCommands /\ executed' = executed
  BY <1>1 DEF Create, LeavesCommands, journal
<1>2. ASSUME NEW op, NEW e, Load(op, e) PROVE LeavesCommands /\ executed' = executed
  BY <1>2 DEF Load, LeavesCommands, journal
<1>3. CASE Bind
  BY <1>3, RecordLeaves DEF Bind
<1>4. CASE AcceptEvent
  BY <1>4, RecordLeaves DEF AcceptEvent
<1>5. CASE Place
  BY <1>5, RecordLeaves DEF Place
<1>6. CASE StepVisit
  BY <1>6, RecordLeaves DEF StepVisit
<1>7. CASE StepMoves
  BY <1>7, RecordLeaves DEF StepMoves
<1>8. CASE Push
  BY <1>8, RecordLeaves DEF Push
<1>9. CASE Fire
  BY <1>9, RecordLeaves DEF Fire
<1>10. CASE Run \/ DrainFails \/ StepEnd \/ StepFails \/ StepRuns
  BY <1>10, StatusLeaves DEF Run, DrainFails, StepEnd, StepFails, StepRuns
<1>11. CASE Enter \/ DispatchNothing \/ Compensated
  BY <1>11 DEF Enter, DispatchNothing, Compensated, Silent, LeavesCommands, journal
<1>12. CASE Judge
  BY <1>12, StatusLeaves DEF Judge, JudgeFailed, JudgeCritical, JudgeEnded, JudgeWaits, JudgeGoesOn,
     Silent, LeavesCommands, journal
<1>13. CASE Sync \/ Crash
  BY <1>13 DEF Sync, Crash, LeavesCommands, journal
<1>14. CASE UNCHANGED vars
  BY <1>14 DEF vars, LeavesCommands, journal
<1> QED BY <1>1, <1>2, <1>3, <1>4, <1>5, <1>6, <1>7, <1>8, <1>9, <1>10, <1>11, <1>12, <1>13, <1>14
        DEF Next, Feed, Compensate, Work, Delivering

\* A node that is passed again acts again (ToCommand, IncrVisit): outside of
\* redelivery a command never carries a key the journal already knows.
THEOREM KeysAreFresh == Spec /\ [](lost = 0) => FreshCommands
<1>1. IInv /\ lost = 0 /\ (lost = 0)' /\ [Next]_vars =>
        [(Dispatch \/ IssueUndo) => cmd' \notin Issued]_vars
  <2> SUFFICES ASSUME IInv, lost = 0, lost' = 0, Dispatch \/ IssueUndo
               PROVE  cmd' \notin Issued
    OBVIOUS
  <2>1. Inv /\ lost \in Nat /\ lost' = lost
    BY DEF IInv
  <2> QED BY <2>1, DispatchKeeps, IssueUndoKeeps
<1> QED BY <1>1, InductiveInvariant, PTL DEF Spec, FreshCommands

\* The executor's answers, as the record tells them.
Carried == Answered({"completed", "skipped"})
Dead    == Answered({"failed"})

\* Every answer is one of a command carried out, or a dead one.
LEMMA AnswersSplit == Answered(Answers) = Carried \cup Dead
BY DEF Answers, Answered, Carried, Dead

\* A new command is on record before it is carried out; what it undoes took place.
LEMMA IssueRefines ==
  ASSUME Inv, lost \in Nat, lost' = lost, Dispatch \/ IssueUndo
  PROVE  \E c \in Cmd : Delivery!Issue(c)
<1>1. PICK c : c = cmd'
  OBVIOUS
<1>2. /\ c \in Cmd /\ c \notin Issued /\ Issued' = Issued \cup {c}
      /\ Answered({"completed", "skipped"})' = Answered({"completed", "skipped"})
      /\ Answered({"failed"})' = Answered({"failed"})
      /\ IsUndo(c) => Origin(c) \in executed
  BY <1>1, DispatchKeeps, IssueUndoKeeps
<1>3. executed' = executed
  BY DEF Dispatch, IssueUndo
<1>4. Origin(c) # c => IsUndo(c)
  BY <1>2 DEF Origin, IsUndo, Cmd
<1> QED BY <1>2, <1>3, <1>4 DEF Delivery!Issue

\* The executor acts on a command on record and unresolved, and once.
LEMMA ExecuteRefines ==
  ASSUME Inv, Execute
  PROVE  (\E c \in Cmd : Delivery!Act(c)) \/ UNCHANGED Delivery!vars
<1>1. /\ cmd \in Cmd /\ PendingCommands = {cmd} /\ cmd \in Issued /\ Issued' = Issued
      /\ Answered({"completed", "skipped"})' = Answered({"completed", "skipped"})
      /\ Answered({"failed"})' = Answered({"failed"})
  BY ExecuteKeeps
<1>2. Delivery!Open(cmd)
  BY <1>1, AnswersSplit, PartsOfInv DEF RecordInv, Delivery!Open, Carried, Dead
<1>3. CASE executed' = executed
  BY <1>1, <1>3 DEF Delivery!vars
<1>4. CASE cmd \notin executed /\ executed' = executed \cup {cmd}
  BY <1>1, <1>2, <1>4 DEF Delivery!Act
<1> QED BY <1>3, <1>4 DEF Execute

\* The result that is recorded is what became of the command.
LEMMA ResolveRefines ==
  ASSUME Inv, lost \in Nat, lost' = lost, Resolve
  PROVE  \E c \in Cmd : Delivery!Resolve(c)
<1>1. /\ cmd \in Cmd /\ PendingCommands = {cmd} /\ cmd \in Issued
      /\ Issued' = Issued /\ executed' = executed
      /\ answer \in Answers /\ (answer = "failed" <=> cmd \notin executed)
      /\ \A A : Answered(A)' = IF answer \in A THEN Answered(A) \cup {cmd} ELSE Answered(A)
  BY ResolveKeeps
<1>2. Delivery!Open(cmd)
  BY <1>1, AnswersSplit, PartsOfInv DEF RecordInv, Delivery!Open, Carried, Dead
<1>3. CASE answer = "failed"
  BY <1>1, <1>2, <1>3 DEF Delivery!Resolve
<1>4. CASE answer \in {"completed", "skipped"}
  BY <1>1, <1>2, <1>4 DEF Delivery!Resolve
<1> QED BY <1>1, <1>3, <1>4 DEF Answers

\* Every step is one of the delivery, or leaves it as it is.
LEMMA StepRefines ==
  ASSUME Inv, lost \in Nat, lost' = lost, [Next]_vars
  PROVE  [Delivery!Next]_Delivery!vars
<1>1. CASE Dispatch \/ IssueUndo
  BY <1>1, IssueRefines DEF Delivery!Next
<1>2. CASE Execute
  BY <1>2, ExecuteRefines DEF Delivery!Next
<1>3. CASE Resolve
  BY <1>3, ResolveRefines DEF Delivery!Next
<1>4. CASE \E c \in queue : Redeliver(c)
  <2>1. executed' = executed
    BY <1>4 DEF Redeliver
  <2>2. Issued' = Issued /\ \A A : Answered(A)' = Answered(A)
    BY <1>4, RedeliverKeeps
  <2> QED BY <2>1, <2>2 DEF Delivery!vars
<1>5. CASE ~Delivering
  <2>1. log \in Seq(Fact)
    BY PartsOfInv
  <2>2. LeavesCommands /\ executed' = executed
    BY <1>5, QuietSteps
  <2>3. Issued' = Issued /\ \A A : Answered(A)' = Answered(A)
    BY <2>1, <2>2, QuietLog
  <2> QED BY <2>2, <2>3 DEF Delivery!vars
<1> QED BY <1>1, <1>2, <1>3, <1>4, <1>5 DEF Delivering

\* An instance rebuilt after any number of crashes promises the same about its
\* effects as one that never crashed.
THEOREM ImplementsDelivery == Spec /\ [](lost = 0) => DeliverySpec
<1>1. Init => Delivery!Init
  BY DEF Init, Delivery!Init, Issued, Answered, Facts
<1>2. IInv /\ lost = 0 /\ (lost = 0)' /\ [Next]_vars => [Delivery!Next]_Delivery!vars
  BY StepRefines DEF IInv
<1> QED BY <1>1, <1>2, InductiveInvariant, PTL DEF Spec, DeliverySpec, Delivery!Spec
=============================================================================
