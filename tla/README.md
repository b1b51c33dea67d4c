# TLA+ verification of the process runtime

This directory models the workflow runtime under `src/dsl` in TLA+: one
instance in memory, one instance over a journal with crashes, the questions put
to models and people and who answers them, the Manager that runs many instances,
the activation of definition versions and the static analysis of a definition.
TLC checks the models on small processes; TLAPS proves the central invariants
for every process definition, any number of branches, goroutines and instances.

## 1. The system

The program runs business processes declared in JSON. A definition is a graph
of nodes (`start`, `approval`, `subprocess`, `condition`, `action`,
`notification`, `parallel`, `join`, `timer`, `ai`, `end`) joined by transitions
that are chosen by event name, by a `when` expression or by default. One
*instance* of a definition is an `ExecutionContext`; a `Runtime` advances it.

| part | state | operations | talks to |
|---|---|---|---|
| Instance runtime (`runtime.go`, `executor.go`) | status, current node, current event, visit counts | `Start`, `Feed`, `WakeDue`, `Compensate`; inside them `drain`, `Step` | everything below, by calls |
| Parallel scopes (`parallel.go`, `runtime.go`) | stack of scopes, each with its branches | `stepParallel`, `runParallelMode`, `advanceBranch`, `feedBranch`, `settleScope`, `completeParallel` | waiting table, effects |
| Waiting table (`temporal.go`) | slot -> kind, node, visit, expiry | `parkWaiting`, `clearWaiting`, `WakeDue`, `fireWaiting` | consumed set (wake keys), scopes |
| Event bookkeeping (`context.go`) | consumed event IDs, each with its time | `AcceptEvent`, `TryConsumeEvent`, `ReleaseEvent`, sweep of old IDs | journal, snapshots |
| Effects (`sideeffect.go`, `runtime.go` deliver) | executor's idempotency store | `ToCommand`, `Execute`, `deliver` | undo stack, journal |
| Compensation (`compensate.go`) | undo stack | `recordCompensation`, `Compensate`, `onFailure` | effects |
| Data contract (`contract.go`, `expression.go`, `typechecker.go`) | variables | `enterNode`, `leaveNode`, `evalWhenChain` | - |
| Journal (`journal.go`, `replay.go`) | append-only occurrences | `record`, `FoldTo`, `Resume`, `PendingCommands`, `FailedCommands` | store |
| Manager and stores (`manager.go`, `store.go`, `store-postgres`) | live runtimes, summaries, snapshots, instance locks | `Start`, `Feed`, `WakeDueSweep`, `Compensate`, `load`, `sync` | runtime, journal |
| AI nodes, principals (`ai.go`, `principal.go`) | request ID in the waiting slot, issued commands | `emitAIRequest`, `feedAI`, `resolveAINext`, `attributeAICallback`, `validateBranchPrincipal` | runtime, waiting table, effects |
| Activation, registry (`activation.go`, `registry.go`) | registered versions, active states | `RegisterVersion`, `Activate`, `State`, `foldActivation` | journal |
| Parser, validator, analyzer | none | `Analyze`: three graph searches; `Validate`: one, and the checks of single fields | - |
| Evidence, compare, diff, simulator | none | reports over a journal | - |
| Gateway (`gateway/lua`) | counters, tokens | limiters, authentication | none of the above |

What makes it hard: one host call is a long chain of steps whose order the
journal records; the same instance is moved by events, by the clock and by its
own automatic nodes; branches of a scope share the visit counters, the
instance's status and the waiting table with the instance; effects happen after
the step that declares them; and the process may stop between any two of these.

What makes each part correct:

* runtime: no call leaves the instance running; a terminal instance stays
  terminal; an event counts as consumed exactly when it moved something; every
  call returns, whatever loops the definition holds;
* scopes: one owner of the instance at a time (drain or an open scope), a
  scope that is decided is closed at once, no branch is forgotten, a finished
  branch stays finished;
* waiting table: whoever waits at a timed node has a live slot, a slot never
  fires for a wait that is over, a timed wait ends;
* compensation: the stack is a record, and a failed instance has nothing
  outstanding when automatic compensation is on;
* events: the table of consumed IDs forgets only its oldest entries; an event is on
  record exactly if it moved or failed something;
* ai nodes and principals: an answer that names its request moves the branch that
  asked, once; no request is issued under the key of another; a node that
  demands an owner gets one;
* journal: folding rebuilds the live state, from the first fact or from a
  snapshot; nothing is carried out that is not on record, nothing twice, and the
  record tells truly what became of it, over any crash;
* manager: what a call works on is what the journal stands for; an ID begins
  once; the summaries the sweep goes by are true; every call returns and a due
  instance is woken in the end;
* analyzer: what it reports is there, what it passes is clean, and it ends on every
  graph;
* activation: what is active is the last fact on record, one fact of a version
  per process, and the fact says what the registry says.

## 2. The modules

| module | role |
|---|---|
| `ProcessDef` | a definition as constants, and where a node may lead: `StepTargets` (`stepSelectTransition`), `FeedTargets` (`feedBranch`), `BranchTargets` (`advanceBranch`), `WhenNexts` (`evalWhenChain`) |
| `Runtime` | one instance in memory, with forks, deadlines and timers: one action per step, the specification, the properties |
| `EffectDelivery` | the abstract promise about side effects: on record first, carried out at most once, a true record, compensation only of what took place |
| `JournaledInstance` | one instance of a linear process over journal, snapshot and executor, one journalled fact at a time, with crashes; implements `EffectDelivery` |
| `Manager` | goroutines, stripe locks, store of summaries, sweep; what a call does to an instance is any arrival |
| `EventTable` | the table of consumed event IDs: live, as the journal folds it, as a snapshot keeps it |
| `Decision` | ai nodes and owners: requests, answers, the gates of `Feed`, on the instance or on branches, one fact at a time, with crashes; a refinement of `EventTable` |
| `Analyzer` | the searches of `Analyze` and of `Validate`, step by step |
| `Activation` | registry, activator and the ledger of activations, with concurrent callers, refused appends and restarts |
| `MCProcess`, `MCJournaled`, `MCManager`, `MCActivation`, `MCDecision`, `MCAnalyzer` | instances for TLC |
| `RuntimeProofs`, `JournaledProofs`, `ManagerProofs`, `ActivationProofs`, `EventTableProofs`, `DecisionProofs`, `AnalyzerProofs` | inductive invariants and what follows from them, checked by TLAPS |
| `JournalProofs` | lemmas on the fold of a journal, and on the facts about commands, that `JournaledProofs` cites |

How they compose: `Runtime` and `JournaledInstance` extend `ProcessDef` and
model the same `Step`, the first with everything that happens in memory within
one call, the second with everything that lies between two facts. `Manager`
abstracts a call of either to "departs, comes to rest" and adds the other
goroutines. `JournaledInstance` takes `EffectDelivery` as an `INSTANCE` and is
checked against its specification. `Decision` extends `EventTable`: its `Feed`,
`GiveBack`, `Save`, `Wait` and `Crash` are `Consume`, `Release`, `Snapshot`, `Tick`
and `Rebuild` with what else the call does, its other steps leave the table
alone, and `DecisionProofs` (`TableStutters`) proves that every step of one is a
step of the other or a stutter, so that what is proved of the table holds there.

### State and actions of `Runtime`

`status`, `current`, `event`, `consumed`, `visits`, `scopes`, `waitings`, `undo`
are the fields of `ExecutionContext`; `woken` is the part of the consumed table
that holds wake keys. A call of the host is cut into steps where the order of
journalled facts matters; `pc` says where the call stands, and `emit`, `loop`,
`todo`, `cur`, `steps`, `routed`, `due`, `slot` are the local variables of the
Go functions (the node whose effects are dispatched, the loop a branch advance
returns to, the branches not yet visited, the branch at hand, the loop counter,
`Feed`'s `routed`, the expired slots of a `WakeDue`, the slot that fires).
`drove` is a history variable: the events that moved something.

| pc | code | actions |
|---|---|---|
| `idle` | between host calls | `Start`, `FeedInstance`, `FeedScope`, `WakeDue`, `Compensate` |
| `drain` | head of `drain`'s loop, then `Step` | `DrainRunaway`, `StepMissing`, `StepEnd`, `StepFork`, `StepMove`, `StepFail` |
| `dispatch` | `dispatchSideEffects` and the rest of the loop body | `DispatchFailed`, `DispatchForked`, `DispatchCompleted`, `DispatchMoved` |
| `park` | `parkInstance` | `Park` |
| `fork`, `feed`, `advance` | `runParallelMode`, `Feed`'s loop, `advanceBranch` | `RunBranch`, `Feed...`, `Advance...` |
| `fork`/`feed`/`settle` with nothing to do | `settleScope` | `SettleFails`, `SettleConverges`, `SettleTimesOut`, `SettleWaits` |
| `wake`, `fire` | `WakeDue`'s loop, `fireWaiting` | `WakeDuplicate`, `WakeConsume`, `Fire...` |

What the model chooses freely is what the code cannot know: the answer of a
`when` guard, whether a mapping of a node in `MayFail` raises an error, whether
an effect succeeds, which slots have expired, whether a scope's elapsed time is
past its timeout, and the order of branches (`Branches` is a Go map). Due slots
are fired in any order, where the code takes the one that expired first: with
free expiry times every order is possible.

Left out of `Runtime`: `ai` nodes and principals (see `Decision`), several effects on one node
(one effect stands for them), the panic of a feed to a waiting condition branch
whose input mapping fails (conditions are kept out of `MayFail`), and a node
that a definition's deadline names without holding it (the validator refuses
it). The scope's mode, failure policy, `required`, timeout and join are the
constant `ForkOf`: the merge of the fork's and the join's settings and the
search for the common join are pure functions of the definition.
`cancelPendingBranches` marks branches of a scope that is popped in the same
call, so only its effect on the waiting table (none) is visible. The host is
taken to call `Start` before `Feed`.

### State and actions of `JournaledInstance`

`log` is the journal of the instance and `rebuilt` what `Fold` makes of it, kept
up fact by fact; `snap` is the latest snapshot and `restored` the snapshot with
the later facts folded onto it (`FoldIsLive` checks both against the fold
itself); `executed` is the executor's idempotency store, `created` the record
of the instance. These survive `Crash`; `ctx` (the `ExecutionContext`), `call`,
`pc` and the local variables of the Go functions do not. An action ends where
the next fact is recorded, so a crash falls between any two facts, and between
a fact and the effect it announces.

`Create`, `Bind`, `AcceptEvent`, `Place`, `Run` are `Manager.Start` and
`Runtime.Start`; `Load` and `Redeliver` are `Manager.load`, `Enter` the rest of
`Feed` up to `AcceptEvent`; `DrainFails` ... `StepMoves` are `drain` and `Step`;
`Dispatch`, `Execute`, `Resolve`, `Push` are `deliver` and `recordCompensation`;
`Judge` is what `drain` makes of the step; `Fire`, `IssueUndo`, `Compensated`
are `compensate`; `Sync` is `sync` with `maybeSnapshot`. `record` may be refused
by the journal (`MaxLost`): the call goes on, as in the code. A command is its
idempotency key. The executor is modelled from how the code uses it: a key it
has carried out is answered `skipped`; otherwise it carries it out or fails,
which stands for all attempts of the orchestrator.

Left out: forks, deadlines and timers (no definition here has any), variables.

### State and actions of `Manager`

`run` is what the journal of an instance stands for, `rec` its summary in the
store, both reduced to a status and a wake-up time; `holder` the stripe locks;
`pc`, `op`, `inst`, `at`, `mem`, `list` the locals of each goroutine. `Call`,
`Lock`, `Create`, `Begin`, `Load`, `LoadFails`, `Departs`, `Stays`,
`FailsUnborn`, `Arrives`, `Sync` are `Start`, `Feed` and `Compensate` cut where
another goroutine or a crash can come between; `Sweep`, `SweepNext`, `SweepEnds`
are `WakeDueSweep`, which lists before it locks. `Broken` instances are those
whose load fails (definition unknown, journal unreadable). `torn` remembers
instances whose last call died before `sync`. Store failures are left out.

### State and actions of `Activation`

`entries` and `order` are the registry's map and its cached list; `states` the
activator's map; `journal` the ledger; `holder` the activator's lock; `call` the
locals of each goroutine. `Activate`, `Gate`, `LockDraft`/`LockActive`,
`Record`/`Refused` and `Flip` are one call of `Activate`: the registry is read
before the lock, the fact comes before the state. Rejected calls change nothing
and are not steps. Left out: an activator without journal (it has no facts to
compare with), `RegisteredAt`, and the canonical hash (`canonicalBytes`), of
which only equality is used.

### State and actions of `EventTable`

`table` is `processedEvents`, `ledger` the table the whole journal folds to,
`restored` the one a restart makes of the latest snapshot and the facts since;
`clock` is `time.Now()`. `Consume` is `trackEvent` with the sweep it starts when
the table is full (`Swept`: what is past its time to live, then the oldest, and
of two equally old ones either, as the sort is not stable); `Release` is
`ReleaseEvent`. The journal keeps both and never sweeps. A crash may come back
with either of the two tables (`Rebuild`). context.go:211 says that eviction
touches the memory of the runtime only; a snapshot keeps the swept table all
the same, and a context restored from it knows no more than it.

### State and actions of `Decision`

`forked` says whether the instance is in a scope; a *seat* is the instance or one
of its branches. `at`, `st`, `slot`, `visits` are the current node, the branch's
status, the waiting slot (node and request ID) and the visit counts; `asked` the
request IDs of the `command_issued` facts. `call` holds the locals of the `Feed`
in progress. `decided` is a history variable: who answered which seat, with
which event, naming which request.

| pc | code | actions |
|---|---|---|
| `idle` | between calls | `Send` (a `Feed` with any content), `Save`, `Wait` |
| `dispatch` | `Feed`'s loop over the branches, `feedBranch`; at the start `runParallelMode` | `Dispatch` |
| `clear`, `visit`, `resolve`, `move` | `clearWaiting`, `IncrVisit`, `resolveAINext`, the transition fact: in this order for an instance, a branch counts its visit first and clears when it is to move | `Leave`, `Visit`, `Resolve`, `Fail`, `Move` |
| `arrive`, `slot`, `bind`, `ask`, `rest` | `parkInstance` or `advanceBranch`: visit, `parkWaiting`, `emitAIRequest` (slot first, then the command), status | `Arrive`, `Finish`, `Park`, `Bind`, `Ask`, `Rest` |
| `settle` | `ReleaseEvent`, `settleScope` | `GiveBack`, `Settle` |

`Admitted` is all `Feed` asks before it consumes: the event is one the node takes,
and the owner is valid where the node demands one. `Crash` may fall between any
two facts; variables are what the facts on record fold to, so it loses `call`
and rebuilds the table.

Not here: the data of an answer (a failed inference, a broken schema and a wrong
choice all lead to `onError`, one route per `Result`), prompts, deadlines of ai
nodes, other scope modes than `all`, what follows the join, effects and
compensation (`Runtime` has them). `Feed` is not called on a scope whose branches
have all ended, which only a crash before `settleScope` leaves: there the code
steps the fork again.

### State and actions of `Analyzer`

`trans` and `esc` are a definition's transitions and its escalations (`onError`,
`deadline`), `asked` which of the two functions runs. `Pop` and `Scan` are the
breadth-first search for reachable nodes, one transition at a time; `Root`,
`Push`, `Backtrack`, `Found`, `Collect`, `Collected`, `NoCycle` are
`detectCycleFirst`, with the recursion as a stack and any node as the next root
(the code ranges over a Go map); `Stray`, `Counted`, `Extend`, `TooMany`,
`AllPaths` are `pathsWithinBudget`. The checks of single nodes are the operators
`DeadEnd` and `InvalidTerminal`; `IsClean` is what they and the searches say
about the graph, which `AnalysisReport.IsClean` implies. Labels of transitions
(`missing_transition`, `duplicate_transition`) and all checks of single fields in
`Validate` are left out.

## 3. The runs

| run | what it explores | expects |
|---|---|---|
| `process` | `MCProcess`: a linear lane (approval with a deadline and a rework loop, timer, critical compensable payment, condition) and a parallel one (two branches, timer, approval and gate, mode `all`, the join may lead back to the fork); 4 events | pass |
| `fork_some` | the parallel lane with mode `n_of_m` and `required` 1, so that a branch is cut off while its slot is armed; `onFail` fail, convergence timeout, branch deadline, tripped fuses | pass |
| `journaled` | `MCJournaled`: payment, review that may send back, shipment; snapshots, two crashes | pass |
| `journaled_live` | the same with one crash and one refused append, under fairness | pass |
| `ai` | `MCDecision`: a model triages, a person signs or sends back; on the instance or on two branches; 7 contents of answers, 3 event IDs, a table of 2; one crash | pass |
| `manager` | a live and a broken instance on one stripe, two goroutines, one crash | pass |
| `activation` | two versions, two contents, two goroutines, one restart | pass |
| `analyzer` | `MCAnalyzer`: all definitions of 4 nodes with up to two transitions each, with missing, empty and doubled targets and escalations | pass |
| `wake_key`, `undo_lost`, `critical_forgotten`, `unattributed` | variants of the same processes | violation, see findings |

`MCProcess` covers the instance path (every node type but `subprocess` and `ai`,
both ways a deadline can end and all failure paths) and the scopes. Four events
are enough for a start event, one for each answer and a duplicate of an answer:
the fifth would repeat one. It has two branches because every rule of
the scope (all, n of m, fail fast, exhausted) separates on two, and a
retry loop because stale state of a first round shows in the second.
`MCJournaled` has two compensable effects, so that the order of compensation
shows, one of them critical, and a loop, so that a node acts twice under two
keys; two crashes, because the second can hit the recovery from the first;
a snapshot every six facts, so that snapshots fall inside and between calls'
facts. `MCManager` needs two goroutines for every race on one stripe, and a
`Broken` instance beside the live one; `Limit` 2 lets the sweep see both.
`MCActivation` needs two callers for a race and two contents for a conflict.
`MCDecision` has two branches, so that an answer can meet the wrong one, and a way
back to the question, so that a late answer meets the next; three events for a
table of two, so that an ID is forgotten and comes again; a time to live of two
ticks, so that both ways of forgetting happen. Its branches and event IDs are
symmetric (no property orders them). In `MCAnalyzer` four nodes hold a cycle
beside a path, a cycle behind a finished node and two paths that meet; it takes
its two limits, 512 and 8192 in the code, as 2 and 3, so that graphs of
this size lie on both sides of them.

`MaxNodeVisits`, `MaxBranchSteps`, `MaxDrainSteps`, `SnapshotEveryN`, `Limit`,
`Cap`, `TTL`, `MaxPaths` and `MaxStates` are parameters of the code, set small so
that fuses and limits are reached. Bounds of the models alone: `VisitCap` and
`MaxVisits` (the host stops feeding once a node was visited that often),
`MaxCrash`, `MaxLost`, `MaxTime`. Deadlock is not checked for `Runtime`, since an
instance that is terminal, or waits for an event the host no longer has, really
stops, nor for `Analyzer`, a function that returns; the other models check it.

### Properties

`Runtime`: `InstanceSlotIsCurrent` and `BranchSlotIsLive` (no slot outlives its
wait); `TimedWaitArmed` (no timed wait without its slot); `NeverLeftRunning`;
`OpenScopeUndecided` (a decided scope is closed at once); `BranchesParked` (no
branch is forgotten); `ConsumedExactlyIfDrove` (an event is neither burned nor
applied without a record); `FailedMeansCompensated`; `Inv` (the inductive
invariant: types, one scope and never beside drain, and what the proof needs);
the action properties `TerminalIsFinal`, `DoneBranchInert`; the liveness
properties `CallsReturn`, `TimedWaitEnds`.

Some of them hold only while the code keeps away from a known weakness, which a
violation run or section 4 shows: `TimedWaitArmed` where no two waits share a
wake key, `BranchSlotIsLive` and `DoneBranchInert` where no branch is cancelled
while it is armed, `TerminalIsFinal` where no scope slot and branch slot expire
together, `FailedMeansCompensated` where no deadline's mapping fails,
`BranchesParked` where the step limit is not reached. The definition of
`process` is one of these; section 5 names the conditions and proves that
nothing else is needed.

`JournaledInstance`: `WriteAhead`, `OnePending`, `Accounted` (every resolved
command was carried out or is a dead letter and was not), `FoldIsLive` (the
context a call works on is what the journal stands for, folded whole or from the
snapshot), `UndoneInReverse` (over all restarts), `FreshCommands` (a node that is
passed again acts again), `DeliverySpec` (refinement of `EffectDelivery`) and
`IssuedIsResolved` (a command on record is resolved in the end, if the
`started` fact is on record: otherwise no call of the instance is journalled).
`WriteAhead`, `FoldIsLive` and their like are checked with `MaxLost` 0: after a
refused append the code goes on and acts on what is not on record.

`Decision`: `AnsweredOnce` (an answer that names its request moves the branch that
asked and no other, and no request is answered twice), `FreshRequests`,
`Attributed` (a recorded decision has the owner its node demands; without the
exception for an instance after a crash it is `NeverUnowned`, finding 4),
`Correlated` (who waits holds the slot of its own node with a request that is
issued and open), `EventsAccounted` (the events on record are those that moved or
failed a seat), and `FoldIsStricter` of `EventTable` (the live and the restored
table have lost only the oldest of what the journal holds).

`Analyzer`: `ReachExact` (the least closed set), `CycleExact` (a cycle is reported
exactly if there is one, and what is reported is one), `CleanEnds` (a definition
without a diagnostic has no part that is never left), `PathBudget` (the verdict
against the set of complete simple paths), `Finishes`.

`Manager`: `Serialized`, `SummaryIsTrue`, `BegunOnce`, `CallsReturn`,
`DueIsWoken`. `Activation`: `LiveIsLatest`, `OneFact`, `Accountable`.

### Fairness

`Runtime`: `WF(CallStep)`: a call that was made runs on, as a goroutine does.
`WF(Start)`: an instance that was created is started. `SF` of a `WakeDue` that
reports slot `s`, for each `s`: the host's timer (or the Manager's periodic
sweep) comes back again and again, and gets its turn between other calls. No
fairness is assumed of events: nobody has to approve anything. `CallsReturn`
needs only the first.

`JournaledInstance`: `WF(Feed \/ Work)`: a call runs on, and the host calls
again, as it must for `load` to deliver anything. `Manager`: `WF(Goes(w))`, a
goroutine inside a call runs on; `SF(Lock(w))`, since `sync.Mutex` hands over to
a waiter that starves; `SF` of some goroutine's `Sweep`, the host's ticker.
`Analyzer`: `WF(Next)`, a function that was called runs on.

## 4. Findings

1. `wake_key`: the key `wake:<slot>:<kind>:<visit>` (temporal.go:162) does not
   name the node, and firing a deadline does not count a visit, so a later
   timed wait may be taken for a replay and its slot dropped.
2. `undo_lost`: the undo entry is pushed after the result is on record, and only
   for a result `completed`; a crash in between, or before the result (the
   redelivery is answered `skipped`), leaves an effect without compensation.
3. `critical_forgotten`: that a failed critical effect fails the instance is
   decided by `drain` alone; after a crash, `load` delivers the command again and
   drops its result, and the process goes on.
4. `unattributed`: the gate that demands an owner is passed only when the instance
   `waits` (runtime.go:243). `running` goes on record before the move and `waiting`
   after the arrival, so after a crash in between the next event goes past the
   gate, and a decision without an owner is recorded, which runtime.go:225-227
   rules out.

Seen while modelling, not made into runs:

* A failure inside `fireWaiting` (temporal.go:217-234) does not call `onFailure`,
  though runtime.go:32-33 promises compensation of a failed instance:
  `FailedMeansCompensated` fails in `process` with `review` in `MayFail`.
* `WakeDue` looks at the status once (temporal.go:154), before the first slot fires: a
  branch deadline that fails and then the scope's timeout take an instance from
  `failed` to `timed_out` (`TerminalIsFinal` fails in `fork_some`), and a branch slot
  after the scope's timeout makes a `timed_out` one wait again (with `required` 2).
* A crash between the slot (`waiting_set`) and the command (`command_issued`) of an
  ai node: the request is never issued, since redelivery knows only commands on
  record, and the node waits for an answer nobody was asked for. A failed
  inference command leaves the node waiting, too.
* An instance without a scope does not look at the request an answer names: a
  late answer of an earlier visit is taken for the present one.
* `attributeAICallback` attributes a payload only while a slot is armed; after a
  crash that left none, a complete payload is refused for want of an owner.
* A branch whose process died between its move and its parking is `running` on
  record: `Feed` and `WakeDue` pass it by, and its scope never converges.
* The output of an inference is written variable by variable before a later one is
  found to break its schema (ai.go:183-192): what was written stays.
* `detectCycleFirst` takes no self-loop for a cycle, and names the last node of a
  cycle twice. `pathsWithinBudget` counts two transitions to one target as two
  paths, though analyzer.go:222 speaks of distinct ones. `Analyze` follows
  neither `onError` nor `deadline`: it may report `unreachable_node` where
  `Validate` does not. It reports neither targets that do not exist nor a
  transition that leads nowhere.
* The validator refuses a `deadline` on ai nodes, which temporal.go:86 supports, and
  `ValidNodeTypes` has no `join`, which validator.go:244 checks.
* A parallel node inside a branch is walked as an automatic node (runtime.go:551):
  its fork is never opened.
* `Manager.WakeDueSweep` skips a bad instance so that it does not block the rest
  (manager.go:331), but its summary stays due and the listing is ordered by
  wake-up time before it is cut: as many bad instances as the limit head every
  listing, and nothing else is woken. `DueIsWoken` fails with `Limit` 1.
* `MemoryInstanceStore.ListWakeable` cuts to its limit before it orders.
* `cancelPendingBranches` (runtime.go:842) clears no slot: a cancelled branch stays
  armed, and its slot fires with no branch to move, or for the next round's.
* `maxBranchSteps` (200) is reached before the visit fuse (500): the branch is
  left running and no event or slot advances it.
* After a refused append the call goes on: effects are carried out that are not
  on record, and a snapshot may hold what the journal does not.
* A crash between `CreateInstance` and the first fact leaves an ID that can
  neither be started nor fed; one after an event is consumed loses the event's
  effect; one after a compensation is marked fired loses the compensation. An
  instance whose call died before `sync` keeps a stale summary, and the sweep
  may not list it until it is called again.
* Folding takes an event without a name for no event; the live run keeps it.
* After a restart the activator answers `draft` for a version whose activation
  is on record; activating it again writes a second fact, and the registry takes
  another content for it. `LiveIsLatest` holds over this, since the later fact
  overwrites; the header of activation.go (lines 18-19) compares fold and live
  state field by field, which is true of one process.

## 5. The proofs

`RuntimeProofs` proves, for every definition, event set and setting of the
fuses that meet `DefinitionAssumption` and `RuntimeAssumption` (what parser and
validator guarantee: transitions lead to nodes or to the empty ID, the start
node exists, effects belong to nodes):

* `InvariantHolds`: `Spec => []Inv`, and from it `TypeCorrect`,
  `ScopesDisciplined`, `InstanceSlotCurrent`, `ScopesSettled`, `CallsSettle`;
* `UndoRecorded`: `Spec => UndoIsRecord`;
* under the hypotheses on the definition given below, `EventsMoveSomething`,
  `FailedIsCompensated`, `BranchSlotsLive`, `TerminalStays`, `DoneBranchesInert`,
  `BranchesStandParked`, `TimedWaitsArmed`.

The properties are not inductive on their own. That an event for the instance
finds no open scope needs `OpenScopeUndecided` (a satisfied scope would let
`Feed` drain beside it); that a branch slot moves a branch of the open scope
needs the shape of the waiting table; that firing a deadline of the instance
meets no open scope needs `InstanceSlotIsCurrent`; and each of these is
disturbed in the middle of a call, so `ScopeDiscipline` says for every `pc` what
the loops rely on. `Inv` is their conjunction with the types of the context and
of the call. The proof has lemmas on the operators (`RouteTypes`, `Clearing`,
`Parking`, `BranchUpdate`, `Popping`, `FreshUnsettled`, `UndoTypes`,
`Recording`), two lemmas on the two ways a step may end (`Returning`: the call
is over; `GoingOn`: it goes on), one lemma per phase of a call, and `InvStep`,
which puts them together.

The properties that hold of some definitions only are theorems with a hypothesis
each, an operator of `RuntimeProofs` that says of a definition which weakness it
keeps away from. All of these hold of the definition of `process`, which the run
shows to satisfy the properties. That of `fork_some` meets `DeadEndsMap` alone:
TLC finds `BranchSlotIsLive`, `BranchesParked`, `FailedMeansCompensated`,
`TerminalIsFinal` and `TimedWaitArmed` violated there, while
`ConsumedExactlyIfDrove` holds, as its theorem says of a host that leaves terminal
instances alone.

| theorem | property | needs | because otherwise |
|---|---|---|---|
| `EventsMoveSomething` | `ConsumedExactlyIfDrove` | `ScopesUntimed`, if the host wakes terminal instances | a scope's timeout leaves the event that came with it on record, and a branch slot that is still armed makes the instance wait again |
| `FailedIsCompensated` | `FailedMeansCompensated` | `DeadlinesMap` | a failure inside `fireWaiting` does not compensate |
| `BranchSlotsLive` | `BranchSlotIsLive` | `ScopesAwaitAll`, `DeadlinesMap` | a cancelled branch stays armed |
| `TerminalStays` | `TerminalIsFinal` | these and `ScopesUntimed` | a scope's timeout and a branch slot fire in one `WakeDue`, in either order |
| `DoneBranchesInert` | `DoneBranchInert` | `ScopesAwaitAll`, `DeadlinesMap`, `DeadEndsMap` | as for slots; and a branch in a dead end that fails there |
| `BranchesStandParked` | `BranchesParked` | `ScopesAwaitAll`, `DeadlinesMap`, `BranchesShort` | `maxBranchSteps` leaves a branch running |
| `TimedWaitsArmed` | `TimedWaitArmed` | `DeadlinesMap`, `BranchesShort`, and no step that drops a slot as a replay | `wake_key` |

`DeadlinesMap`: no node with a deadline has a mapping that may fail.
`ScopesUntimed`: no scope has a timeout. `ScopesAwaitAll`: every scope has mode
`all` and `onFail` `continue`. `DeadEndsMap`: an automatic node that leads nowhere
has no mapping that may fail. `BranchesShort`: the nodes have a rank below
`MaxBranchSteps` that falls along every route a branch walks by itself, so the
walk between two waits is short of the limit. The last hypothesis of
`TimedWaitsArmed` is on the behaviour, `[][\A s \in Slot : ~WakeDuplicate(s)]_vars`:
the theorem says that the reused wake key of finding 1 is the one way to lose the
slot of a timed wait. Their invariants extend `Inv`, one group of conjuncts for
each `pc`: `EventInv` and `FailedInv` (what is owed in the middle of a call),
`BranchInv` (`SlotsHeld`: an armed branch slot is held by a branch of the open
scope that waits there, but for the branch at hand), `TerminalInv` (no slot is
left that could wake), `DoneWaits`, `ParkedInv` with `StepsInv` (the steps of the
branch at hand and the rank of its node together stay below the limit), and
`WatchInv` (who waits at a timed node is watched by its slot).

`JournaledProofs` proves, for every definition, set of events and snapshot interval
that meets `JournaledAssumption` (with `ProcessDef`'s), any number of
crashes and as long as the journal refuses nothing (`lost = 0`):
`EffectsAreWrittenAhead`, `OneCommandPending`, `RecordIsTrue`,
`CompensatedInReverse`, `FoldRestoresContext`, `KeysAreFresh`, `TypeCorrect`, and
`ImplementsDelivery`, the refinement of `EffectDelivery`. What happens after a
refused append is section 4; there the properties fail, so `IInv` is
`lost = 0 => Inv` and every step from a state with `lost = 0` is proved. `Inv` has
these parts, and each needs the others:

* `CallInv`: what a call knows at each `pc` (an unbound context has an empty
  journal; a step stands at the node it emits for);
* `LiveInv`, `FoldInv`: live context, rebuilt one, restored one and the fold of
  the log agree. `FoldOfAppend`, by induction over the length of the log with a
  set of naturals in place of the predicate (`SetInduction`), gives the fold of a
  log with one fact more; all steps go through it;
* `PendingInv`: one command at most is unresolved, and redelivery has it in hand;
* `RecordInv`: what is on record as resolved was carried out or failed for good;
* `UndoInv`: the undo stack holds each effect once, at the place its key names;
* `FreshInv`: a key on record has a visit count no greater than its node's, less
  at a node whose command is still to come; the key of a compensation is of an
  entry that is marked;
* `OrderInv`: the facts about compensation stand in the log as on the stack.

The context after a restart is compared up to the current event
(`Agrees`), because the fold takes a nameless event for none (section 4):
`FoldRestoresAllButTheEvent` holds of every event set, `FoldRestoresContext`
(`FoldIsLive`) supposes that every event has a name. For the refinement, every
action has a lemma that it issues, carries out, resolves or compensates one
command of the abstract state, or none of it (`StepRefines`).

`ManagerProofs` proves, for any sets of instances, goroutines and stripes that
meet `ManagerAssumption`: `TypeCorrect` (with the lock: a stripe is held by
exactly the goroutine inside a call on it), `CallsSerialized`, `SummariesTrue`,
`BeginsOnce`. `IInv` adds what a call relies on in its middle: the context it
has loaded is the journal's (`Loaded`), between `CreateInstance` and the first
fact there is a record and no journal (`Unbegun`), what has a journal has a
record (`Recorded`), and an instance no writing call is in has a true summary
(`Untouched`, which is `SummaryIsTrue` without the reference to the lock, so that
a call that only loads preserves it). `AloneAt` turns the lock into "nobody else
is inside a call of this instance"; each action has its lemma, with one step per
part of `IInv`.

`ActivationProofs` proves, for any versions, contents, people and goroutines:
`LiveIsLatestHolds`, `OneFactHolds`, `AccountableHolds`. Fact and state are
written in two steps, so `IInv` speaks of the call between them (`Midway`), of
which the lock allows one (`Locked`); what it read before the lock stays true
because an entry is never overwritten (`Read`). `OnRecord` and `Carried` tie
states to this process's facts; `FoldFinds` derives that the fold of the whole
ledger, which other processes wrote too, ends at that fact. `NilAssumption` says
that nil is neither an entry nor a state.

`EventTableProofs` proves `FoldIsStricter` for any capacity, time to live and order
of operations. It is not inductive alone: an ID entered now must be no older than
any entry, so `TableInv` adds that no entry on record is newer than the clock.

`DecisionProofs` proves, for any nodes, branches, routes and events:
`TypeCorrect`, `OwnersAnswer` (`Attributed`), `AnswersOnce` (`AnsweredOnce`),
`RequestsAreFresh` (`FreshRequests`), `QuestionsMatch` (`Correlated`),
`EventsAreAccounted` (`EventsAccounted`) and, by the refinement `TableStutters`,
`EventsKeepYoungest`. `Inv` is `TypeInv` (types of the facts, `StateInv`, and of
the call at each `pc`, `CallInv`), `SeatInv` (whose seat a call works on, and where
that seat stands), `OwnInv` (the owner has been looked at
for every branch that is still to see the event), `FreshInv` (a request on record
has a visit count no greater than its node's) and `OnceInv` (an answered request
is in no slot). That requests are fresh rests on the visit being counted before
every parking; that they are answered once, on the slot being cleared with the
answer and on freshness. The two that hold up to the first crash speak of the
order of a whole call: `MatchInv` says for each `pc` how slot, place and requests
of the seat at hand stand to one another while the others match, and `LedgerInv`
that an event on record has moved or failed a seat or is that of the call, which
has not given it back yet, and that until as many events have moved a seat as
the table holds none of them is forgotten.

`AnalyzerProofs` proves, for every finite definition: `TypeCorrect`,
`ReachesExactly`, `CyclesExactly`, `CleanMeansEnds`, `PathsCounted`. `IInv` has `ReachInv` (what has
been met is in the queue, at hand or scanned, and every closed set holds it),
`ColorInv` (a black node leads to black ones only, and black nodes alone hold no
cycle), `StackInv` (the gray nodes are the stack, each the parent of the next),
`CollectInv` (the cycle so far is the top of the stack) and `VerdictInv`. The step
that matters is `Popping`: a node that turns black closes no cycle among black
nodes.

`PathsCounted` (`PathBudget`) has an invariant of its own, `PathInv`. The frontier
of the search keeps the last node and the IDs met, not the path; `Traces` gives
each entry a path it stands for. `Covers`: a complete path is counted or begins
with one of those. `Apart`: unless a node names a target twice, none of them
begins another or a path that is counted. `Tally`: the counter is no less than the
number of counted paths, and equal to it without such targets. So an empty
frontier means that every complete path is counted, and without such targets a
full counter that so many were found. That there are finitely many simple paths is `PathsFinite`, an
injection of paths into sets of (place, node) pairs.

Only model-checked: liveness under fairness, out of the prover's reach; the type
of the sorted list in `Activation`; the properties above without the hypotheses given; everything about
`JournaledInstance` after a refused append, of which nothing is claimed.

## 6. Not modelled, and the plan

In order:

1. Scopes, waiting slots and wake keys in the journalled model, with the same
   fork open twice (`foldOnto` applies a branch fact to the first scope of its
   fork, the live run to the one on top).
2. `ForkConfig`: common-join search, merge of fork and join settings, as
   operators checked against their definitions on small graphs.
3. Two processes on one journal: `PostgresJournal.Append` reads the next
   sequence number and inserts it, one of two appenders fails.
4. Deadlines of ai nodes in `Decision`, and the scope modes other than `all`.
5. The gateway's counters.

Theorems to come: the measures behind `CallsReturn`, as invariants on `steps` and
`visits`.

Not planned: expression evaluation, parsing, type checking and the validator's
checks of single fields (pure data),
evidence, comparison, diff and simulation (reports), SQL and HTTP.
