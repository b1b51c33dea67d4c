-------------------------- MODULE JournaledInstance --------------------------
(***************************************************************************)
(* One instance of a linear process under dsl.Manager with a journal: every *)
(* call of the host rebuilds the context from the journal, delivers again   *)
(* what was issued and never resolved, does its work one journalled fact at *)
(* a time, and drops the context.  The process may crash between any two    *)
(* facts; the journal, the snapshot and the executor's record of the keys   *)
(* it has carried out survive.  Parallel scopes and the clock are left to   *)
(* Runtime: the definitions here have neither forks nor time limits.        *)
(***************************************************************************)
EXTENDS ProcessDef, SequencesExt

CONSTANTS
  EventId,         \* IDs of the events the host may deliver
  NoEvent,         \* CurrentEvent = nil
  NameOf,          \* Event.Name of each event
  MaxNodeVisits,   \* Runtime.maxNodeVisits()
  SnapshotEveryN,  \* Manager.SnapshotEveryN; 0 where Manager.Snapshots is nil
  MaxCrash,        \* bound of the model: crashes of the process
  MaxLost          \* bound of the model: appends the journal refuses

ASSUME JournaledAssumption ==
  /\ NoEvent \notin EventId
  /\ NameOf \in [EventId \cup {NoEvent} -> EventName \cup {NoName}]
  /\ MaxNodeVisits \in Nat \ {0}
  /\ IsFiniteSet(Compensable)
  /\ {SnapshotEveryN, MaxCrash, MaxLost} \subseteq Nat
  /\ \A n \in Node : NodeType[n] \notin {"parallel", "timer"} /\ Deadline[n] = NoNode

VARIABLES
  log,       \* the journal of the instance
  rebuilt,   \* the fold of the journal, kept up fact by fact
  snap,      \* its latest snapshot
  restored,  \* the snapshot with the facts since then folded onto it
  executed,  \* the executor's idempotency store
  created,   \* the instance has a record in the store
  \* the call under way, gone when the process crashes
  ctx, call, pc, emit, goal, cmd, answer, back, queue,
  \* bounds of the model
  crashes, lost

journal  == <<log, rebuilt, restored>>
callVars == <<ctx, call, pc, emit, goal, cmd, answer, back, queue>>
bounds   == <<crashes, lost>>
vars     == <<journal, snap, executed, created, callVars, bounds>>

-----------------------------------------------------------------------------
Terminal == {"completed", "failed"}
Status   == {"pending", "running", "waiting"} \cup Terminal

\* Idempotency keys.  A command of a node is <execution>:<node>:<visit>:<index>
\* (pos = 0); the compensation pushed at place pos is undo:<pos>:<its command>.
Cmd    == [node : Node, visit : 1 .. MaxNodeVisits, pos : 0 .. Cardinality(Compensable) * MaxNodeVisits]
NoCmd  == [node |-> NoNode, visit |-> 0, pos |-> 0]
Origin(c) == [c EXCEPT !.pos = 0]
IsUndo(c) == c.pos # 0

\* ToCommand, after the visit was counted.  Mutant: the visit is left out.
ToCommandSameKey(c, n) == [node |-> n, visit |-> 1, pos |-> 0]
ToCommand(c, n) == [node |-> n, visit |-> c.visits[n], pos |-> 0]

\* ExecutionContext as far as the journal carries it; bound: InstanceID is set.
Blank == [bound |-> FALSE, status |-> "pending", current |-> NoNode, event |-> NoEvent,
          consumed |-> {}, visits |-> [n \in Node |-> 0], undo |-> <<>>]
NoSnap == [upto |-> 0, ctx |-> Blank]
NoCall == [op |-> "none", event |-> NoEvent]

Facts(kind) == {log[i] : i \in {j \in DOMAIN log : log[j].kind = kind}}

Fired(undo, key) ==
  [i \in DOMAIN undo |-> IF undo[i].key = key THEN [undo[i] EXCEPT !.done = TRUE] ELSE undo[i]]

Visited(visits, n) == [visits EXCEPT ![n] = @ + 1]

\* applyOcc: one fact applied to a context; commands leave the context alone,
\* and an event without a name does not become the current one.
ApplyOcc(c, f) ==
  CASE f.kind = "started"             -> [c EXCEPT !.bound = TRUE]
    [] f.kind = "event_consumed"      -> [c EXCEPT !.consumed = @ \cup {f.event},
                                                   !.event = IF NameOf[f.event] = NoName
                                                             THEN @ ELSE f.event]
    [] f.kind = "node_visited"        -> [c EXCEPT !.visits = Visited(@, f.node)]
    [] f.kind = "transition"          -> [c EXCEPT !.current = f.node, !.status = "running"]
    [] f.kind = "node_set"            -> [c EXCEPT !.current = f.node]
    [] f.kind = "status"              -> [c EXCEPT !.status = f.status]
    [] f.kind = "compensation_pushed" -> [c EXCEPT !.undo = Append(@, [key |-> f.cmd, done |-> FALSE])]
    [] f.kind = "compensation_fired"  -> [c EXCEPT !.undo = Fired(@, f.cmd)]
    [] OTHER                          -> c

FoldOnto(c, occs) == FoldLeft(ApplyOcc, c, occs)
Fold(occs)        == FoldOnto(Blank, occs)
\* Mutant: the last fact the snapshot holds is folded again.
occurrencesFrom(occs, after)  == SubSeq(occs, IF after = 0 THEN 1 ELSE after, Len(occs))
occurrencesAfter(occs, after) == SubSeq(occs, after + 1, Len(occs))

\* The last fact the journal holds about command c; none for a command unheard of.
About(c)  == {i \in DOMAIN log : log[i].kind \in {"command_issued", "command_result"} /\ log[i].cmd = c}
Latest(c) == {log[i] : i \in {j \in About(c) : \A k \in About(c) : k <= j}}
Issued    == {f.cmd : f \in Facts("command_issued")}
Answered(answers) == {f.cmd : f \in {g \in Facts("command_result") : g.answer \in answers}}

\* PendingCommands: issued, and no result since.
PendingCommands == {c \in Issued : \A f \in Latest(c) : f.kind = "command_issued"}
\* FailedCommands, the dead-letter view: the latest result is a failure.
FailedCommands  == {c \in Issued : \A f \in Latest(c) : f.kind = "command_result" /\ f.answer = "failed"}

-----------------------------------------------------------------------------
Init ==
  /\ log = <<>> /\ rebuilt = Blank /\ snap = NoSnap /\ restored = Blank
  /\ executed = {} /\ created = FALSE
  /\ ctx = Blank /\ call = NoCall /\ pc = "idle"
  /\ emit = NoNode /\ goal = NoNode /\ cmd = NoCmd /\ answer = "none" /\ back = "none"
  /\ queue = {}
  /\ crashes = 0 /\ lost = 0

\* Journal.Append; foldOnto applies facts one at a time, so the context the
\* journal stands for follows it fact by fact.
Appended(f) ==
  /\ log' = Append(log, f)
  /\ rebuilt' = ApplyOcc(rebuilt, f)
  /\ restored' = ApplyOcc(restored, f)

\* record: the live context becomes c and fact f goes to the journal of the
\* instance the context is bound to.  A journal that refuses the fact leaves
\* an error for the end of the call, and the call goes on.
Record(c, f) ==
  /\ ctx' = c
  /\ \/ (IF c.bound THEN Appended(f) ELSE UNCHANGED journal) /\ UNCHANGED lost
     \/ lost < MaxLost /\ lost' = lost + 1 /\ UNCHANGED journal
  /\ UNCHANGED <<snap, created, call, crashes>>

SetStatus(s) == Record([ctx EXCEPT !.status = s], [kind |-> "status", status |-> s])

\* A step that records nothing.
Silent == UNCHANGED <<journal, snap, executed, created, ctx, call, bounds>>

\* Variables of the step that the delivery of a command does not use, and those it does.
stepVars    == <<emit, goal>>
deliverVars == <<cmd, answer, back, queue>>

-----------------------------------------------------------------------------
\* Manager.Start: the record is created, at most once for an ID.
Create(e) ==
  /\ pc = "idle" /\ ~created
  /\ created' = TRUE
  /\ call' = [op |-> "start", event |-> e] /\ pc' = "bind"
  /\ UNCHANGED <<journal, snap, executed, ctx, stepVars, deliverVars, bounds>>

\* Runtime.Start: the IDs, the event, the start node and the status, in turn.
Bind ==
  /\ pc = "bind" /\ pc' = "accept"
  /\ Record([ctx EXCEPT !.bound = TRUE], [kind |-> "started"])
  /\ UNCHANGED <<executed, stepVars, deliverVars>>

AcceptEvent ==
  /\ pc = "accept" /\ pc' = IF call.op = "start" THEN "place" ELSE "drain"
  /\ Record([ctx EXCEPT !.consumed = @ \cup {call.event}, !.event = call.event],
            [kind |-> "event_consumed", event |-> call.event])
  /\ UNCHANGED <<executed, stepVars, deliverVars>>

Place ==
  /\ pc = "place" /\ pc' = "run"
  /\ Record([ctx EXCEPT !.current = StartNode], [kind |-> "node_set", node |-> StartNode])
  /\ UNCHANGED <<executed, stepVars, deliverVars>>

Run ==
  /\ pc = "run" /\ pc' = "drain"
  /\ SetStatus("running")
  /\ UNCHANGED <<executed, stepVars, deliverVars>>

-----------------------------------------------------------------------------
\* Mutant: compensations are not looked for.
LoadForwardOnly(op, e) ==
  /\ pc = "idle" /\ created
  /\ ctx' \in {rebuilt, restored}
  /\ call' = [op |-> op, event |-> e]
  /\ queue' = {c \in PendingCommands : ~IsUndo(c)} /\ pc' = "redeliver"
  /\ UNCHANGED <<journal, snap, executed, created, stepVars, cmd, answer, back, bounds>>
\* Manager.load opens every other call: the latest snapshot and the facts after
\* it, or the whole journal when the snapshot is missing or does not parse.
Load(op, e) ==
  /\ pc = "idle" /\ created
  /\ ctx' \in {rebuilt, restored}
  /\ call' = [op |-> op, event |-> e]
  /\ queue' = PendingCommands /\ pc' = "redeliver"
  /\ UNCHANGED <<journal, snap, executed, created, stepVars, cmd, answer, back, bounds>>

\* deliver, first half: the command is on record before it is carried out.
Redeliver(c) ==
  /\ pc = "redeliver" /\ c \in queue
  /\ Record(ctx, [kind |-> "command_issued", cmd |-> c])
  /\ cmd' = c /\ back' = "redeliver" /\ pc' = "execute" /\ queue' = queue \ {c}
  /\ UNCHANGED <<executed, stepVars, answer>>

\* Feed up to AcceptEvent, as in Runtime.
Refused(e) ==
  \/ ctx.status \in Terminal
  \/ e \in ctx.consumed
  \/ ctx.status = "waiting" /\ IsWaitingNode(ctx.current)
       /\ ~NodeAcceptsEvent(ctx.current, NameOf[e])

\* Mutant: the call does not wait for the old commands.
EnterAtOnce ==
  /\ pc = "redeliver"
  /\ pc' = CASE call.op = "compensate" -> "compensate"
             [] Refused(call.event)    -> "sync"
             [] OTHER                  -> "accept"
  /\ Silent /\ UNCHANGED <<stepVars, deliverVars>>
Enter ==
  /\ pc = "redeliver" /\ queue = {}
  /\ pc' = CASE call.op = "compensate" -> "compensate"
             [] Refused(call.event)    -> "sync"
             [] OTHER                  -> "accept"
  /\ Silent /\ UNCHANGED <<stepVars, deliverVars>>

-----------------------------------------------------------------------------
\* drain: the visit fuse, and a current node the definition does not hold.
DrainFails ==
  /\ pc = "drain" /\ pc' = "compensate"
  /\ ctx.current \in Node => ctx.visits[ctx.current] >= MaxNodeVisits
  /\ SetStatus("failed")
  /\ UNCHANGED <<executed, stepVars, deliverVars>>

StepVisit ==
  /\ pc = "drain" /\ pc' = "decide"
  /\ ctx.current \in Node /\ ctx.visits[ctx.current] < MaxNodeVisits
  /\ Record([ctx EXCEPT !.visits[ctx.current] = @ + 1],
            [kind |-> "node_visited", node |-> ctx.current])
  /\ emit' = ctx.current
  /\ UNCHANGED <<executed, goal, deliverVars>>

StepEnd ==
  /\ pc = "decide" /\ pc' = "dispatch" /\ NodeType[ctx.current] = "end"
  /\ \/ SetStatus("completed")
     \/ ctx.current \in MayFail /\ SetStatus("failed")
  /\ UNCHANGED <<executed, stepVars, deliverVars>>

StepFails ==
  /\ pc = "decide" /\ pc' = "dispatch" /\ NodeType[ctx.current] # "end"
  /\ StepMayFail(ctx.current, NameOf[ctx.event])
  /\ SetStatus("failed")
  /\ UNCHANGED <<executed, stepVars, deliverVars>>

\* assignTransition: first the status, then the move.
StepRuns ==
  /\ pc = "decide" /\ pc' = "move" /\ NodeType[ctx.current] # "end"
  /\ goal' \in StepTargets(ctx.current, NameOf[ctx.event])
  /\ SetStatus("running")
  /\ UNCHANGED <<executed, emit, deliverVars>>

StepMoves ==
  /\ pc = "move" /\ pc' = "dispatch"
  /\ Record([ctx EXCEPT !.current = goal], [kind |-> "transition", node |-> goal])
  /\ goal' = NoNode
  /\ UNCHANGED <<executed, emit, deliverVars>>

-----------------------------------------------------------------------------
\* dispatchSideEffects, once the step is on record.
DispatchNothing ==
  /\ pc = "dispatch" /\ pc' = "judge" /\ emit \notin Effectful
  /\ Silent /\ UNCHANGED <<stepVars, deliverVars>>

\* Mutant: the command is not put on record.
DispatchUnrecorded ==
  /\ pc = "dispatch" /\ pc' = "execute" /\ emit \in Effectful
  /\ cmd' = ToCommand(ctx, emit) /\ back' = "judge"
  /\ UNCHANGED <<journal, snap, executed, created, ctx, call, stepVars, answer, queue, bounds>>
Dispatch ==
  /\ pc = "dispatch" /\ pc' = "execute" /\ emit \in Effectful
  /\ cmd' = ToCommand(ctx, emit) /\ back' = "judge"
  /\ Record(ctx, [kind |-> "command_issued", cmd |-> cmd'])
  /\ UNCHANGED <<executed, stepVars, answer, queue>>

\* Mutant: the executor does not look at the key.
ExecuteBlind ==
  /\ pc = "execute" /\ pc' = "resolve"
  /\ \/ answer' = "completed" /\ executed' = executed \cup {cmd}
     \/ answer' = "failed" /\ UNCHANGED executed
  /\ UNCHANGED <<journal, snap, created, ctx, call, stepVars, cmd, back, queue, bounds>>
\* CommandOrchestrator.Execute and the executor: a key carried out before is
\* skipped; otherwise some attempt succeeds or the last one fails.
Execute ==
  /\ pc = "execute" /\ pc' = "resolve"
  /\ IF cmd \in executed
     THEN answer' = "skipped" /\ UNCHANGED executed
     ELSE \/ answer' = "completed" /\ executed' = executed \cup {cmd}
          \/ answer' = "failed" /\ UNCHANGED executed
  /\ UNCHANGED <<journal, snap, created, ctx, call, stepVars, cmd, back, queue, bounds>>

\* Mutant: whatever the result.
PushedNextAlways(result) ==
  IF ~IsUndo(cmd) /\ cmd.node \in Compensable THEN "push" ELSE back
\* A result that is completed, of a node that declares a compensation, is pushed.
PushedNext(result) ==
  IF result = "completed" /\ ~IsUndo(cmd) /\ cmd.node \in Compensable THEN "push" ELSE back

Delivered ==
  IF pc' = "push" THEN UNCHANGED <<cmd, answer, back>>
  ELSE cmd' = NoCmd /\ back' = "none" /\ answer' = IF pc' = "judge" THEN answer ELSE "none"

Resolve ==
  /\ pc = "resolve" /\ pc' = PushedNext(answer)
  /\ Record(ctx, [kind |-> "command_result", cmd |-> cmd, answer |-> answer])
  /\ Delivered
  /\ UNCHANGED <<executed, stepVars, queue>>

\* recordCompensation
Push ==
  /\ pc = "push" /\ pc' = back
  /\ LET key == [cmd EXCEPT !.pos = Len(ctx.undo) + 1]
     IN  Record([ctx EXCEPT !.undo = Append(@, [key |-> key, done |-> FALSE])],
                [kind |-> "compensation_pushed", cmd |-> key])
  /\ Delivered
  /\ UNCHANGED <<executed, stepVars, queue>>

-----------------------------------------------------------------------------
\* What drain makes of the step, in this order: an error, a critical effect that
\* failed, the end, a node to wait at, or another round.
CriticalFailed == emit \in Critical /\ answer = "failed"

JudgeFailed ==
  /\ pc = "judge" /\ ctx.status = "failed" /\ pc' = "compensate"
  /\ Silent

JudgeCritical ==
  /\ pc = "judge" /\ ctx.status # "failed" /\ CriticalFailed /\ pc' = "compensate"
  /\ SetStatus("failed") /\ UNCHANGED executed

JudgeEnded ==
  /\ pc = "judge" /\ ctx.status = "completed" /\ ~CriticalFailed /\ pc' = "sync"
  /\ Silent

JudgeWaits ==
  /\ pc = "judge" /\ ctx.status = "running" /\ ~CriticalFailed
  /\ IsWaitingNode(ctx.current) /\ pc' = "sync"
  /\ SetStatus("waiting") /\ UNCHANGED executed

JudgeGoesOn ==
  /\ pc = "judge" /\ ctx.status = "running" /\ ~CriticalFailed
  /\ ~IsWaitingNode(ctx.current) /\ pc' = "drain"
  /\ Silent

Judge ==
  /\ JudgeFailed \/ JudgeCritical \/ JudgeEnded \/ JudgeWaits \/ JudgeGoesOn
  /\ emit' = NoNode /\ answer' = "none"
  /\ UNCHANGED <<goal, cmd, back, queue>>

-----------------------------------------------------------------------------
\* compensate: the entry pushed last of those not yet done.
Undone == {i \in DOMAIN ctx.undo : ~ctx.undo[i].done}

\* Mutant: the entry pushed first.
FirstUndone(i) == i \in Undone /\ \A j \in Undone : i <= j
NextUndone(i) == i \in Undone /\ \A j \in Undone : j <= i

Fire ==
  /\ pc = "compensate" /\ pc' = "undo"
  /\ \E i \in Undone :
       /\ NextUndone(i)
       /\ Record([ctx EXCEPT !.undo[i].done = TRUE],
                 [kind |-> "compensation_fired", cmd |-> ctx.undo[i].key])
       /\ cmd' = ctx.undo[i].key
  /\ UNCHANGED <<executed, stepVars, answer, back, queue>>

IssueUndo ==
  /\ pc = "undo" /\ pc' = "execute" /\ back' = "compensate"
  /\ Record(ctx, [kind |-> "command_issued", cmd |-> cmd])
  /\ UNCHANGED <<executed, stepVars, cmd, answer, queue>>

Compensated ==
  /\ pc = "compensate" /\ Undone = {} /\ pc' = "sync"
  /\ Silent /\ UNCHANGED <<stepVars, deliverVars>>

-----------------------------------------------------------------------------
\* Manager.sync: maybeSnapshot, and the runtime is dropped.  A snapshot of an
\* empty journal is kept and never used.
SnapshotDue == /\ SnapshotEveryN > 0
               /\ snap = NoSnap \/ Len(log) - snap.upto >= SnapshotEveryN

Sync ==
  /\ pc = "sync" /\ pc' = "idle"
  /\ IF SnapshotDue
     THEN /\ snap' = [upto |-> Len(log), ctx |-> ctx]
          /\ restored' = IF Len(log) > 0 THEN ctx ELSE restored
     ELSE UNCHANGED <<snap, restored>>
  /\ ctx' = Blank /\ call' = NoCall
  /\ UNCHANGED <<log, rebuilt, executed, created, stepVars, deliverVars, bounds>>

\* The process dies: what is not in the journal, the store or the executor is gone.
Crash ==
  /\ pc # "idle" /\ crashes < MaxCrash
  /\ crashes' = crashes + 1
  /\ ctx' = Blank /\ call' = NoCall /\ pc' = "idle"
  /\ emit' = NoNode /\ goal' = NoNode /\ cmd' = NoCmd /\ answer' = "none" /\ back' = "none"
  /\ queue' = {}
  /\ UNCHANGED <<journal, snap, executed, created, lost>>

-----------------------------------------------------------------------------
Work == \/ Bind \/ AcceptEvent \/ Place \/ Run
        \/ (\E c \in queue : Redeliver(c)) \/ Enter
        \/ DrainFails \/ StepVisit \/ StepEnd \/ StepFails \/ StepRuns \/ StepMoves
        \/ DispatchNothing \/ Dispatch \/ Execute \/ Resolve \/ Push \/ Judge
        \/ Fire \/ IssueUndo \/ Compensated \/ Sync

Feed       == \E e \in EventId : Load("feed", e)
Compensate == Load("compensate", NoEvent)

Next == (\E e \in EventId : Create(e)) \/ Feed \/ Compensate \/ Work \/ Crash

Spec == Init /\ [][Next]_vars

\* A call under way goes on, and the host keeps calling.
FairSpec == Spec /\ WF_vars(Feed \/ Work)

-----------------------------------------------------------------------------
(* Properties. *)

\* The variables keep to the values the code can give them.
TypeOK ==
  /\ executed \subseteq Cmd /\ created \in BOOLEAN
  /\ ctx.status \in Status /\ ctx.current \in Node \cup {NoNode}
  /\ ctx.consumed \subseteq EventId /\ ctx.visits \in [Node -> 0 .. MaxNodeVisits]
  /\ snap.upto \in 0 .. Len(log)
  /\ cmd \in Cmd \cup {NoCmd} /\ queue \subseteq Cmd
  /\ answer \in {"none", "completed", "failed", "skipped"}
  /\ ~created => log = <<>> /\ pc = "idle"

\* Write-ahead (deliver): nothing is carried out that the journal does not hold
\* as issued, and nothing is pushed for compensation that was not carried out.
WriteAhead ==
  /\ executed \subseteq Issued
  /\ \A f \in Facts("compensation_pushed") : Origin(f.cmd) \in executed

\* The context a call works on is at every point what the journal stands for,
\* and that is the fold of its facts, from the first one or from those after the
\* snapshot (foldContext, occurrencesAfter in journal.go; store.go).
FoldIsLive ==
  /\ ctx.bound => ctx = rebuilt
  /\ rebuilt = Fold(log)
  /\ restored = IF snap.upto = 0 THEN rebuilt
                ELSE FoldOnto(snap.ctx, occurrencesAfter(log, snap.upto))

\* At most one command is ever unresolved, however often the process crashed:
\* load resolves the old one before a new one is issued.
OnePending ==
  /\ Cardinality(PendingCommands) <= 1
  /\ pc \notin {"idle", "redeliver"} => PendingCommands \subseteq {cmd}

\* The record is true: a resolved command was carried out, or it is a dead letter
\* and was not.
Accounted ==
  LET settled == Issued \ PendingCommands
  IN  /\ FailedCommands \cap executed = {}
      /\ settled \subseteq executed \cup FailedCommands

\* Compensation fires every entry once, and no entry before those pushed after it
\* and before the firing (compensate).
UndoneInReverse ==
  \A i \in DOMAIN log : log[i].kind = "compensation_fired" =>
    /\ \A j \in 1 .. i - 1 : log[j].kind = "compensation_fired" => log[j].cmd # log[i].cmd
    /\ \A j \in 1 .. i - 1 :
         log[j].kind = "compensation_pushed" /\ log[j].cmd.pos > log[i].cmd.pos =>
           \E k \in j + 1 .. i - 1 : log[k].kind = "compensation_fired" /\ log[k].cmd = log[j].cmd

\* A node that is passed again acts again: outside redelivery a command never
\* carries a key the journal already knows (ToCommand, IncrVisit, fold).
FreshCommands ==
  [][(Dispatch \/ IssueUndo) => cmd' \notin Issued]_vars

\* An instance rebuilt after any number of crashes promises the same about its
\* effects as one that never crashed.
Delivery == INSTANCE EffectDelivery WITH
  Command <- Cmd, issued <- Issued, acted <- executed,
  done <- Answered({"completed", "skipped"}), dead <- Answered({"failed"})
DeliverySpec == Delivery!Spec

\* A command on record and unresolved is resolved in the end, by this process or
\* a later one, while the host goes on; also when the journal refused its result.
\* The first fact must be on record: without it no call is written down.
IssuedIsResolved ==
  PendingCommands # {} /\ rebuilt.bound ~> PendingCommands = {}

-----------------------------------------------------------------------------
(* What the documentation says and a crash breaks. *)

\* sideeffect.go: the process does not go on after a critical effect that failed.
CriticalStops ==
  \A i \in DOMAIN log :
    log[i].kind = "command_result" /\ log[i].answer = "failed"
      /\ log[i].cmd.node \in Critical /\ ~IsUndo(log[i].cmd)
    => \A j \in i + 1 .. Len(log) : log[j].kind # "node_visited"

\* README: every effect carried out that declares a compensation is on the undo
\* stack; between calls, and once its command is resolved.
CarriedOutIsUndoable ==
  pc = "idle" =>
    \A c \in executed \ PendingCommands : c.node \in Compensable /\ ~IsUndo(c) =>
      \E i \in DOMAIN rebuilt.undo : Origin(rebuilt.undo[i].key) = c
=============================================================================
