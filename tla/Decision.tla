------------------------------- MODULE Decision -------------------------------
(***************************************************************************)
(* Who decides, and on which question: ai nodes and approvals that demand  *)
(* an owner (dsl/ai.go, dsl/principal.go, Feed and its parts in            *)
(* dsl/runtime.go), over the table of consumed events.                     *)
(*                                                                         *)
(* A seat is a place where the instance waits: the instance itself, or     *)
(* each branch of one parallel scope.  All seats walk the same nodes.  An  *)
(* ai node issues an inference request when a seat parks at it, and the    *)
(* host feeds the answer back as an event, which may name the request.     *)
(*                                                                         *)
(* A step records one fact, so a crash may fall between any two.  The      *)
(* variables hold what the facts on record fold to; `call' is what only    *)
(* the running Feed knows and a crash loses.                               *)
(***************************************************************************)
EXTENDS EventTable

CONSTANTS
  Instance,      \* instanceSlot: the seat of an instance without a scope
  Branch,        \* the branches of the scope
  Ai, Approval,  \* the waiting nodes, by type
  Required,      \* nodes declaring requirePrincipal
  Entry, Exit,   \* where a seat starts; what follows the waiting nodes
  None,          \* no node, no request
  Result, Reply, \* what an inference result says; the names of other events
  Route,         \* Node -> Result \cup Reply -> Node, Exit or None
  FailFast,      \* onFail=fail
  Content,       \* contents of the events the host sends
  MaxVisits,     \* bound of the model: visits of an ai node
  MaxCrash       \* bound of the model: crashes

Node == Ai \cup Approval
Seat == Branch \cup {Instance}
\* Whose the decision is.  model: the payload names model, version and prompt
\* version; partial: the model only; agent: the host passes a complete model
\* principal; person: it passes one of another kind.
By == {"nobody", "model", "partial", "agent", "person"}

ASSUME DecisionAssumption ==
  /\ Ai \cap Approval = {} /\ Instance \notin Branch /\ Exit \notin Node 
  /\ None \notin Node \cup {Exit} \cup Seat \cup Result \cup Reply \cup (Ai \X Nat \X Seat)
  /\ Result \cap Reply = {} /\ Required \subseteq Node /\ Entry \in Node
  /\ Route \in [Node -> [Result \cup Reply -> Node \cup {Exit, None}]]
  /\ FailFast \in BOOLEAN /\ MaxVisits \in Nat /\ MaxCrash \in Nat
  /\ Content \subseteq [says : Result \cup Reply, by : By, names : BOOLEAN]

VARIABLES
  forked,   \* the instance is in the scope
  status,   \* ExecutionContext.Status
  at,       \* CurrentNode of each seat
  st,       \* BranchState.Status
  slot,     \* Waitings: node and request ID
  visits,   \* VisitCounts of the ai nodes
  asked,    \* request IDs of the command_issued facts
  decided,  \* the decisions: who answered which seat, with which event
  call,     \* the Feed (or Start) in progress
  crashes

seatVars == <<forked, at, st, slot, visits, asked>>
vars     == <<seatVars, status, decided, call, crashes, tableVars>>

Seats   == IF forked THEN Branch ELSE {Instance}
NoSlot  == [node |-> None, req |-> None]
NoEvent == [id |-> None, says |-> None, by |-> "nobody", ref |-> None]
Idle    == [pc |-> "idle", ev |-> NoEvent, seat |-> None, todo |-> {}, routed |-> FALSE, held |-> None]
Pc      == {"idle", "dispatch", "clear", "visit", "resolve", "move",
            "arrive", "slot", "bind", "ask", "rest", "settle"}

Ended    == \A b \in Branch : st[b] \in {"done", "failed"}
FailsNow == FailFast /\ \E b \in Branch : st[b] = "failed"
AllSaw   == call.pc = "dispatch" /\ call.todo = {}

Terminal == {"completed", "failed"}
Here     == at[call.seat]
Goto(p)  == call' = [call EXCEPT !.pc = p]
\* A branch is done with: on to the next one.  The instance: the call returns.
Through  == call' = IF forked THEN [call EXCEPT !.pc = "dispatch", !.seat = None, !.held = None] ELSE Idle

-----------------------------------------------------------------------------
(* What the code asks of an event. *)

\* nodeAcceptsEvent: an ai node takes the callback, an approval a reply it routes.
Accepts(n, ev) == \/ n \in Ai /\ ev.says \in Result
                  \/ n \in Approval /\ ev.says \in Reply /\ Route[n][ev.says] # None

\* resolveAINext, stepSelectTransition: where the event leads; None is an error.
\* A failed inference, an output that breaks its schema or a choice that is not a
\* candidate leads to onError.
Target(n, ev) == IF Accepts(n, ev) THEN Route[n][ev.says] ELSE None

\* validDecisionPrincipal.
Owns(n, by) == IF n \in Ai THEN by \in {"model", "agent"} ELSE by # "nobody"

Waits(s) == IF forked THEN st[s] = "waiting" ELSE TRUE
\* awaitingAICallback.
Awaiting(ev) ==
  /\ ev.says \in Result
  /\ \E s \in Seats : Waits(s) /\ at[s] \in Ai /\ slot[s] # NoSlot

\* attributeAICallback: the model a payload names becomes the owner, if an ai node
\* is waiting and the host names no owner itself.
Attribute(ev) ==
  IF ev.by \in {"model", "partial"} /\ ~Awaiting(ev) THEN [ev EXCEPT !.by = "nobody"] ELSE ev

\* Mutant: a branch is not asked who decides.
AdmittedUnowned(ev) ==
  /\ status \notin Terminal
  /\ ~forked /\ status = "waiting" => /\ Accepts(at[Instance], ev)
                                      /\ at[Instance] \in Required => Owns(at[Instance], ev.by)
\* Feed up to AcceptEvent: what it refuses it does not put on record.
Admitted(ev) ==
  /\ status \notin Terminal
  /\ ~forked /\ status = "waiting" => Accepts(at[Instance], ev)
  /\ \A s \in Seats :
       /\ IF forked THEN Waits(s) ELSE status = "waiting"
       /\ at[s] \in Required /\ Accepts(at[s], ev)
       => Owns(at[s], ev.by)

\* Mutant: an answer goes to every branch that waits for one.
MatchesAny(s, ev) == Accepts(at[s], ev)
\* feedAI: an answer that names a request goes to the branch that waits for it.
Matches(s, ev) ==
  /\ Accepts(at[s], ev)
  /\ at[s] \in Ai /\ ev.ref # None => slot[s].req = ev.ref

\* Mutant: a request is not told from the one of an earlier visit.
RequestIDUnvisited(n, s) == <<n, 1, s>>
\* aiRequestCommandID.
RequestID(n, s) == <<n, visits[n], s>>

-----------------------------------------------------------------------------
Init ==
  /\ TableInit
  /\ forked \in BOOLEAN
  /\ status = "running" /\ st = [b \in Branch |-> "running"]
  /\ at = [s \in Seat |-> Entry] /\ slot = [s \in Seat |-> NoSlot]
  /\ visits = [n \in Ai |-> 0] /\ asked = {} /\ decided = {} /\ crashes = 0
  /\ call = IF forked THEN [Idle EXCEPT !.pc = "dispatch", !.todo = Branch, !.routed = TRUE]
                      ELSE [Idle EXCEPT !.pc = "arrive", !.seat = Instance]

\* Feed: the gates, then AcceptEvent.  Every waiting branch is to see the event.
Feed(ev) ==
  /\ call.pc = "idle" /\ \A n \in Ai : visits[n] < MaxVisits
  /\ ~(forked /\ Ended)   \* only a crash leaves a scope ended and not settled
  /\ Admitted(ev)
  /\ Consume(ev.id)
  /\ call' = IF forked
             THEN [Idle EXCEPT !.pc = "dispatch", !.ev = ev, !.todo = {b \in Branch : Waits(b)}]
             ELSE [Idle EXCEPT !.pc = "clear", !.ev = ev, !.seat = Instance]
  /\ UNCHANGED <<seatVars, status, decided, crashes>>

Send == \E c \in Content, e \in EventId : \E ref \in IF c.names THEN asked ELSE {None} :
          Feed(Attribute([id |-> e, says |-> c.says, by |-> c.by, ref |-> ref]))

\* feedBranch on the next branch, in the order of the map.  At Start every branch
\* is walked to its first waiting node.
Dispatch(b) ==
  /\ call.pc = "dispatch" /\ b \in call.todo
  /\ LET starting == call.ev = NoEvent
         hit      == Matches(b, call.ev)
     IN  call' = [call EXCEPT !.todo = @ \ {b},
                    !.seat   = IF starting \/ hit THEN b ELSE None,
                    !.routed = @ \/ hit,
                    !.pc     = IF starting THEN "arrive" ELSE IF ~hit THEN "dispatch"
                               ELSE IF at[b] \in Ai THEN "visit" ELSE "clear"]
  /\ UNCHANGED <<seatVars, status, decided, crashes, tableVars>>

\* Mutant: only the slot of the instance is cleared.
LeaveInstance ==
  /\ call.pc = "clear"
  /\ slot' = [slot EXCEPT ![Instance] = NoSlot]
  /\ call' = [call EXCEPT !.held = slot[call.seat].req,
                !.pc = IF forked THEN "move" ELSE IF Here = Exit THEN "arrive" ELSE "visit"]
  /\ UNCHANGED <<forked, status, at, st, visits, asked, decided, crashes, tableVars>>
\* clearWaiting: of the instance before it steps, of a branch once it is to move.
Leave ==
  /\ call.pc = "clear"
  /\ slot' = [slot EXCEPT ![call.seat] = NoSlot]
  /\ call' = [call EXCEPT !.held = slot[call.seat].req,
                !.pc = IF forked THEN "move" ELSE IF Here = Exit THEN "arrive" ELSE "visit"]
  /\ UNCHANGED <<forked, status, at, st, visits, asked, decided, crashes, tableVars>>

\* IncrVisit of the node whose answer is at hand.
Visit ==
  /\ call.pc = "visit"
  /\ visits' = IF Here \in Ai THEN [visits EXCEPT ![Here] = @ + 1] ELSE visits
  /\ Goto("resolve")
  /\ UNCHANGED <<forked, status, at, st, slot, asked, decided, crashes, tableVars>>

Decision == [seat |-> call.seat, node |-> Here, id |-> call.ev.id, by |-> call.ev.by,
             ref |-> call.ev.ref, late |-> crashes > 0,
             key |-> IF call.held # None THEN call.held ELSE slot[call.seat].req]

\* The answer leads nowhere: the instance or the branch fails, its slot kept.
Fail ==
  /\ call.pc = "resolve" /\ Target(Here, call.ev) = None
  /\ decided' = decided \cup {Decision}
  /\ IF forked THEN st' = [st EXCEPT ![call.seat] = "failed"] /\ UNCHANGED status
               ELSE status' = "failed" /\ UNCHANGED st
  /\ Through
  /\ UNCHANGED <<forked, at, slot, visits, asked, crashes, tableVars>>

\* The answer leads on.  An instance is set running first (assignTransition); a
\* branch has its slot cleared (feedAI).
Resolve ==
  /\ call.pc = "resolve" /\ Target(Here, call.ev) # None
  /\ IF forked THEN Goto("clear") /\ UNCHANGED status
               ELSE Goto("move") /\ status' = "running"
  /\ UNCHANGED <<seatVars, decided, crashes, tableVars>>

\* The transition or branch fact, with its owner.
Move ==
  /\ call.pc = "move"
  /\ decided' = decided \cup {Decision}
  /\ at' = [at EXCEPT ![call.seat] = Target(Here, call.ev)]
  /\ Goto("arrive")
  /\ UNCHANGED <<forked, status, st, slot, visits, asked, crashes, tableVars>>

\* parkInstance, advanceBranch: at an ai node the visit is counted before parking.
Arrive ==
  /\ call.pc = "arrive" /\ Here # Exit
  /\ visits' = IF Here \in Ai THEN [visits EXCEPT ![Here] = @ + 1] ELSE visits
  /\ Goto(IF Here \in Ai THEN "slot" ELSE "rest")
  /\ UNCHANGED <<forked, status, at, st, slot, asked, decided, crashes, tableVars>>

\* The end node, or the join for a branch.
Finish ==
  /\ call.pc = "arrive" /\ Here = Exit
  /\ IF forked THEN st' = [st EXCEPT ![call.seat] = "done"] /\ UNCHANGED status
               ELSE status' = "completed" /\ UNCHANGED st
  /\ Through
  /\ UNCHANGED <<forked, at, slot, visits, asked, decided, crashes, tableVars>>

\* parkWaiting; a slot that waits at this node already is kept.
Park ==
  /\ call.pc = "slot"
  /\ slot' = IF slot[call.seat].node = Here THEN slot
             ELSE [slot EXCEPT ![call.seat] = [node |-> Here, req |-> None]]
  /\ Goto("bind")
  /\ UNCHANGED <<forked, status, at, st, visits, asked, decided, crashes, tableVars>>

\* emitAIRequest: the request ID is put on record in the slot ...
Bind ==
  /\ call.pc = "bind"
  /\ slot' = [slot EXCEPT ![call.seat].req = RequestID(Here, call.seat)]
  /\ Goto("ask")
  /\ UNCHANGED <<forked, status, at, st, visits, asked, decided, crashes, tableVars>>

\* ... and the command is issued.
Ask ==
  /\ call.pc = "ask"
  /\ asked' = asked \cup {slot[call.seat].req}
  /\ Goto("rest")
  /\ UNCHANGED <<forked, status, at, st, slot, visits, decided, crashes, tableVars>>

\* The seat waits.
Rest ==
  /\ call.pc = "rest"
  /\ IF forked THEN st' = [st EXCEPT ![call.seat] = "waiting"] /\ UNCHANGED status
               ELSE status' = "waiting" /\ UNCHANGED st
  /\ Through
  /\ UNCHANGED <<forked, at, slot, visits, asked, decided, crashes, tableVars>>

\* Mutant: an event nobody took is kept.
GiveBackNothing ==
  /\ AllSaw /\ ~Ended /\ ~FailsNow /\ ~call.routed
  /\ Goto("settle")
  /\ UNCHANGED <<seatVars, status, decided, crashes, tableVars>>
\* Every branch has seen the event and none moved: it is given back.
GiveBack ==
  /\ AllSaw /\ ~Ended /\ ~FailsNow /\ ~call.routed
  /\ Release(call.ev.id)
  /\ Goto("settle")
  /\ UNCHANGED <<seatVars, status, decided, crashes>>

\* settleScope: the scope fails, converges or goes on waiting.  What follows the
\* join is left to the Runtime module.
Settle ==
  /\ \/ AllSaw /\ (Ended \/ FailsNow \/ call.routed)
     \/ call.pc = "settle"
  /\ status' = IF FailsNow THEN "failed" ELSE IF Ended THEN "completed" ELSE "waiting"
  /\ call' = Idle
  /\ UNCHANGED <<seatVars, decided, crashes, tableVars>>

\* A snapshot is saved between calls.
Save == call.pc = "idle" /\ Snapshot /\ UNCHANGED <<seatVars, status, decided, call, crashes>>
Wait == call.pc = "idle" /\ Tick /\ UNCHANGED <<seatVars, status, decided, call, crashes>>

\* The process dies; another rebuilds the context from the journal.
Crash ==
  /\ crashes < MaxCrash /\ crashes' = crashes + 1
  /\ Rebuild
  /\ call' = Idle
  /\ UNCHANGED <<seatVars, status, decided>>

Next == \/ Send \/ \E b \in Branch : Dispatch(b)
        \/ Leave \/ Visit \/ Fail \/ Resolve \/ Move
        \/ Arrive \/ Finish \/ Park \/ Bind \/ Ask \/ Rest
        \/ GiveBack \/ Settle \/ Save \/ Wait \/ Crash

Spec == Init /\ [][Next]_vars

-----------------------------------------------------------------------------
(* Properties. *)

TypeOK ==
  /\ forked \in BOOLEAN /\ status \in {"running", "waiting"} \cup Terminal
  /\ at \in [Seat -> Node \cup {Exit}]
  /\ st \in [Branch -> {"running", "waiting", "done", "failed"}]
  /\ visits \in [Ai -> Nat] /\ asked \subseteq Ai \X Nat \X Seat
  /\ slot \in [Seat -> [node : Ai \cup {None}, req : (Ai \X Nat \X Seat) \cup {None}]]
  /\ call.pc \in Pc /\ call.seat \in Seat \cup {None} /\ call.todo \subseteq Branch
  /\ crashes \in Nat
  /\ TableTypeOK

\* Among branches an answer that names a request moves the seat that asked it and
\* no other, and no request is answered twice (feedAI, runtime.go:722-730).
AnsweredOnce ==
  /\ \A d \in decided : d.seat \in Branch /\ d.node \in Ai /\ d.ref # None => d.ref = d.key
  /\ \A d, e \in decided : d.key = e.key /\ d.key # None => d = e

\* No inference is ever asked for under the key of an earlier one, a crash and a
\* second visit in between or not (aiRequestCommandID, ai.go:262-271).
FreshRequests == [][Ask => slot[call.seat].req \notin asked]_vars

\* A decision on a node that demands an owner has one that answers for it
\* (runtime.go:222-228): always in a scope, and in an instance without one until
\* a crash.
Attributed == \A d \in decided : d.node \in Required /\ (d.seat \in Branch \/ ~d.late)
                => Owns(d.node, d.by)

\* The comment above Feed promises it without the exception (runtime.go:224-228).
NeverUnowned == \A d \in decided : d.node \in Required => Owns(d.node, d.by)

\* A seat that waits is matched with its own open question: the slot is that of
\* its node, the request in it has been issued and has not been answered; and but
\* for a crash every seat waiting at an ai node has one, and no other does.
Parked(s) == IF forked THEN st[s] = "waiting" ELSE status = "waiting"
Correlated ==
  call.pc = "idle" => \A s \in Seats : Parked(s) =>
    /\ slot[s] # NoSlot => slot[s].node = at[s]
    /\ slot[s].req # None => \A d \in decided : d.key # slot[s].req
    /\ crashes = 0 => /\ slot[s] # NoSlot <=> at[s] \in Ai
                      /\ slot[s] # NoSlot => slot[s].req \in asked

\* The events on the ledger are those that moved or failed a seat: what moved
\* nothing was given back, and what moved something is kept until the table has
\* been full (Feed, runtime.go:217-220).
EventsAccounted ==
  call.pc = "idle" /\ crashes = 0 =>
    LET moved == {d.id : d \in decided}
    IN  Held(ledger) \subseteq moved /\ (Cardinality(moved) < Cap => moved \subseteq Held(ledger))
=============================================================================
