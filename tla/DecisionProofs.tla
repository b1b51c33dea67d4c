---------------------------- MODULE DecisionProofs ----------------------------
(***************************************************************************)
(* Who decides and on which question, for every graph of waiting nodes,    *)
(* set of branches and number of crashes.                                  *)
(***************************************************************************)
EXTENDS Decision, EventTableProofs, FiniteSetTheorems

-----------------------------------------------------------------------------
(* The inductive invariant. *)

KeyOf(s) == Ai \X Nat \X {s}
Key      == Ai \X Nat \X Seat
Event    == [id : EventId, says : Result \cup Reply, by : By, ref : Key \cup {None}]
Call     == [pc : Pc, ev : Event \cup {NoEvent}, seat : Seat \cup {None}, todo : SUBSET Branch,
             routed : BOOLEAN, held : Key \cup {None}]
Answer   == [seat : Seat, node : Node, id : EventId, by : By, ref : Key \cup {None},
             late : BOOLEAN, key : Key \cup {None}]

StateInv ==
  /\ forked \in BOOLEAN /\ status \in {"running", "waiting"} \cup Terminal
  /\ at \in [Seat -> Node \cup {Exit}]
  /\ st \in [Branch -> {"running", "waiting", "done", "failed"}]
  /\ visits \in [Ai -> Nat] /\ asked \subseteq Key /\ decided \subseteq Answer
  /\ slot \in [Seat -> [node : Ai \cup {None}, req : Key \cup {None}]]
  /\ crashes \in Nat
CallInv == call \in Call
TypeInv == StateInv /\ CallInv

\* A seat is being answered.
Busy == {"visit", "resolve", "clear", "move"}

\* What the running call knows of its seat and of the branches still to see the event.
SeatInv ==
  /\ call.pc \in {"dispatch", "settle"} => forked
  /\ call.pc \notin {"idle", "dispatch", "settle"} => call.seat \in Seats
  /\ call.pc \in {"visit", "resolve", "move"} \/ (call.pc = "clear" /\ forked) => Here \in Node
  /\ call.pc \in Busy => call.ev \in Event
  /\ forked /\ call.pc # "idle" /\ ~call.routed => call.ev \in Event
  /\ call.pc \in {"slot", "bind", "ask"} => Here \in Ai
  /\ call.pc = "ask" => slot[call.seat].req # None
  /\ call.pc = "move" \/ (call.pc = "clear" /\ forked) => Target(Here, call.ev) # None
  /\ \A b \in call.todo : b # call.seat /\ st[b] # "failed"
  /\ forked /\ call.pc \notin {"idle", "dispatch", "settle"} => st[call.seat] # "failed"

\* The gates have been passed for every seat the event may still move; an instance
\* that never crashed is not left running.
OwnInv ==
  /\ ~forked /\ crashes = 0 /\ call.pc = "idle" => status # "running"
  /\ call.ev \in Event => \A b \in call.todo :
       at[b] \in Required /\ Accepts(at[b], call.ev) => Owns(at[b], call.ev.by)
  /\ call.pc \in Busy /\ (forked \/ crashes = 0) /\ Here \in Required => Owns(Here, call.ev.by)
  /\ Attributed

\* No request ID in use is ahead of the visits of its node, and when one is about to
\* be made none in use is even with them.
Used(k) == \/ k \in asked \/ k = call.held
           \/ \E s \in Seat : slot[s].req = k
           \/ \E d \in decided : d.key = k
FreshInv ==
  /\ \A n \in Ai, v \in Nat, s \in Seat : Used(<<n, v, s>>) => v <= visits[n]
  /\ call.pc \in {"slot", "bind"} =>
       \A v \in Nat, s \in Seat : Used(<<Here, v, s>>) => v < visits[Here]
  /\ call.pc = "ask" => slot[call.seat].req \notin asked

\* A request stands in the slot of the seat that made it until the answer is on
\* record; only a branch that failed keeps one that was answered.
OnceInv ==
  /\ \A s \in Seat : slot[s].req \in KeyOf(s) \cup {None}
  /\ \A d \in decided, s \in Seat : d.key # None /\ slot[s].req = d.key
                                    => s \in Branch /\ st[s] = "failed"
  /\ call.pc \in {"idle", "dispatch", "settle", "clear"} => call.held = None
  /\ forked /\ call.pc \in {"visit", "resolve"} => call.held = None
  /\ call.pc = "move" \/ (~forked /\ call.pc \in {"visit", "resolve"}) => slot[call.seat] = NoSlot
  /\ call.pc \in Busy /\ call.held # None => /\ \A d \in decided : d.key # call.held
                                             /\ \A s \in Seat : slot[s].req # call.held
  /\ forked /\ call.pc \in Busy /\ Here \in Ai /\ call.ev.ref # None =>
       call.ev.ref = IF call.pc = "move" THEN call.held ELSE slot[call.seat].req
  /\ AnsweredOnce

\* A slot is that of the node its seat stands at; a seat that waits at an ai node
\* has its question on record, as long as no crash came between the two.
MatchInv ==
  /\ \A s \in Seat : slot[s] # NoSlot => slot[s].node = at[s]
  /\ call.pc \in {"bind", "ask"} => slot[call.seat].node = Here
  /\ call.pc = "idle" => call = Idle
  /\ call.pc \in {"dispatch", "settle"} => call.seat = None
  /\ call.pc = "rest" /\ Here \in Ai => slot[call.seat].req \in asked
  /\ crashes = 0 => \A s \in Seats : Parked(s) /\ s # call.seat /\ at[s] \in Ai
                                     => slot[s].req \in asked

Inv == TypeInv /\ SeatInv /\ OwnInv /\ FreshInv /\ OnceInv /\ MatchInv

\* The events that moved or failed a seat, and the one under way that is not given back.
Moved  == {d.id : d \in decided}
Asking == call.ev # NoEvent
Taken  == Asking /\ call.pc # "settle"

\* Before the first crash: what a call may still give back has moved nothing, and
\* while fewer events than the table has room for have moved a seat, none of them
\* is forgotten and sent again.
LedgerInv ==
  /\ IsFiniteSet(Moved)
  /\ crashes = 0 =>
       /\ forked /\ call.pc = "idle" /\ FailsNow => status \in Terminal
       /\ forked /\ Asking /\ ~call.routed =>
            call.pc \in {"dispatch", "settle"} /\ ~Ended /\ ~FailsNow
       /\ forked /\ Asking /\ ~call.routed /\ Cardinality(Moved) < Cap => call.ev.id \notin Moved
       /\ call.pc = "clear" => Here \in Node
       /\ Taken => call.ev.id \in Held(table)
       /\ Cardinality(Moved) < Cap => Moved \subseteq Held(table)
       /\ Held(ledger) \subseteq IF Taken THEN Moved \cup {call.ev.id} ELSE Moved
       /\ Asking /\ call.pc \notin Busy /\ (forked => call.routed) => call.ev.id \in Moved

-----------------------------------------------------------------------------
\* What the host sends becomes an event with its owner (attributeAICallback).
LEMMA SendsEvent == TypeInv /\ Send => \E ev \in Event : Feed(ev)
PROOF
<1> SUFFICES ASSUME TypeInv, Send PROVE \E ev \in Event : Feed(ev)
  OBVIOUS
<1>1. PICK c \in Content, e \in EventId, ref \in Key \cup {None} :
        Feed(Attribute([id |-> e, says |-> c.says, by |-> c.by, ref |-> ref]))
  BY DEF Send, TypeInv, StateInv
<1>2. c.says \in Result \cup Reply /\ c.by \in By
  BY DecisionAssumption
<1>3. Attribute([id |-> e, says |-> c.says, by |-> c.by, ref |-> ref]) \in Event
  BY <1>2 DEF Attribute, Event, By
<1> QED BY <1>1, <1>3

\* An event leads to a node, to the exit or nowhere (resolveAINext).
LEMMA TargetType == ASSUME NEW n \in Node, NEW ev PROVE Target(n, ev) \in Node \cup {Exit, None}
PROOF BY DecisionAssumption DEF Target, Accepts, Node

\* A decision is put on record by a seat at a waiting node.
LEMMA DecisionType ==
  ASSUME TypeInv, SeatInv, call.pc \in {"resolve", "move"} PROVE Decision \in Answer
PROOF
<1>1. call.seat \in Seat /\ Here \in Node /\ call.ev \in Event
  BY DEF SeatInv, Seats, Seat, Busy, TypeInv, StateInv, CallInv
<1>2. call.ev.id \in EventId /\ call.ev.by \in By /\ call.ev.ref \in Key \cup {None}
  BY <1>1 DEF Event
<1>3. call.held \in Key \cup {None} /\ slot[call.seat].req \in Key \cup {None} /\ (crashes > 0) \in BOOLEAN
  BY <1>1 DEF TypeInv, StateInv, CallInv, Call
<1> QED BY <1>1, <1>2, <1>3 DEF Decision, Answer

\* Every step of Next keeps the types of the state ...
LEMMA StateStep == TypeInv /\ SeatInv /\ [Next]_vars => StateInv'
PROOF
<1> SUFFICES ASSUME TypeInv /\ SeatInv, [Next]_vars PROVE StateInv'
  OBVIOUS
<1> USE DecisionAssumption DEF TypeInv, StateInv, SeatInv, seatVars, Seats, Seat, Terminal, NoSlot
<1>1. ASSUME NEW ev \in Event, Feed(ev) PROVE StateInv'
  BY <1>1 DEF Feed
<1>2. ASSUME NEW b \in Branch, Dispatch(b) PROVE StateInv'
  BY <1>2 DEF Dispatch
<1>3. CASE Leave
  BY <1>3 DEF Leave
<1>4. CASE Visit
  BY <1>4 DEF Visit
<1>5. CASE Fail
  <2>1. decided' \subseteq Answer
    BY <1>5, DecisionType DEF Fail
  <2>2. call.seat \in Seat /\ (forked => call.seat \in Branch)
    BY <1>5 DEF Fail
  <2> QED BY <1>5, <2>1, <2>2 DEF Fail
<1>6. CASE Resolve
  BY <1>6 DEF Resolve
<1>7. CASE Move
  <2>1. call.seat \in Seat /\ Target(Here, call.ev) \in Node \cup {Exit}
    BY <1>7, TargetType DEF Move
  <2>2. decided' \subseteq Answer
    BY <1>7, DecisionType DEF Move
  <2> QED BY <1>7, <2>1, <2>2 DEF Move
<1>8. CASE Arrive
  BY <1>8 DEF Arrive
<1>9. CASE Finish
  BY <1>9 DEF Finish, Through
<1>10. CASE Park
  BY <1>10 DEF Park
<1>11. CASE Bind
  <2>1. call.seat \in Seat /\ RequestID(Here, call.seat) \in Key
    BY <1>11 DEF Bind, RequestID, Key
  <2> QED BY <1>11, <2>1 DEF Bind
<1>12. CASE Ask
  <2>1. call.seat \in Seat /\ slot[call.seat].req \in Key
    BY <1>12 DEF Ask
  <2> QED BY <1>12, <2>1 DEF Ask
<1>13. CASE Rest
  BY <1>13 DEF Rest, Through
<1>14. CASE GiveBack
  BY <1>14 DEF GiveBack, Release
<1>15. CASE Settle
  BY <1>15 DEF Settle
<1>16. CASE Save
  BY <1>16 DEF Save, Snapshot
<1>17. CASE Wait
  BY <1>17 DEF Wait, Tick
<1>18. CASE Crash
  BY <1>18 DEF Crash, Rebuild
<1>19. CASE UNCHANGED vars
  BY <1>19 DEF vars
<1> QED BY <1>1, <1>2, <1>3, <1>4, <1>5, <1>6, <1>7, <1>8, <1>9, <1>10, <1>11, <1>12, <1>13, <1>14, <1>15, <1>16, <1>17, <1>18, <1>19, SendsEvent DEF Next

\* ... and of the call in progress.
LEMMA CallStep == TypeInv /\ SeatInv /\ [Next]_vars => CallInv'
PROOF
<1> SUFFICES ASSUME TypeInv /\ SeatInv, [Next]_vars PROVE CallInv'
  OBVIOUS
<1> USE DecisionAssumption DEF TypeInv, CallInv, Call, Idle, Pc, Goto, Through
<1>1. ASSUME NEW ev \in Event, Feed(ev) PROVE CallInv'
  BY <1>1 DEF Feed, Seat
<1>2. ASSUME NEW b \in Branch, Dispatch(b) PROVE CallInv'
  BY <1>2 DEF Dispatch, Seat
<1>3. CASE Leave
  <2>1. call.seat \in Seat /\ slot[call.seat].req \in Key \cup {None}
    BY <1>3 DEF Leave, SeatInv, Seats, Seat, StateInv
  <2> QED BY <1>3, <2>1 DEF Leave
<1>4. CASE Visit
  BY <1>4 DEF Visit
<1>5. CASE Fail
  BY <1>5 DEF Fail, Through
<1>6. CASE Resolve
  BY <1>6 DEF Resolve
<1>7. CASE Move
  BY <1>7 DEF Move
<1>8. CASE Arrive
  BY <1>8 DEF Arrive
<1>9. CASE Finish
  BY <1>9 DEF Finish, Through
<1>10. CASE Park
  BY <1>10 DEF Park
<1>11. CASE Bind
  BY <1>11 DEF Bind
<1>12. CASE Ask
  BY <1>12 DEF Ask
<1>13. CASE Rest
  BY <1>13 DEF Rest, Through
<1>14. CASE GiveBack
  BY <1>14 DEF GiveBack, Release
<1>15. CASE Settle
  BY <1>15 DEF Settle
<1>16. CASE Save
  BY <1>16 DEF Save, Snapshot
<1>17. CASE Wait
  BY <1>17 DEF Wait, Tick
<1>18. CASE Crash
  BY <1>18 DEF Crash, Rebuild
<1>19. CASE UNCHANGED vars
  BY <1>19 DEF vars
<1> QED BY <1>1, <1>2, <1>3, <1>4, <1>5, <1>6, <1>7, <1>8, <1>9, <1>10, <1>11, <1>12, <1>13, <1>14, <1>15, <1>16, <1>17, <1>18, <1>19, SendsEvent DEF Next

\* Both together.
LEMMA TypeStep == TypeInv /\ SeatInv /\ [Next]_vars => TypeInv'
PROOF BY StateStep, CallStep DEF TypeInv

\* Every step keeps what the call knows of its seat (Feed, feedBranch, advanceBranch).
LEMMA SeatStep == TypeInv /\ SeatInv /\ [Next]_vars => SeatInv'
PROOF
<1> SUFFICES ASSUME TypeInv /\ SeatInv, [Next]_vars PROVE SeatInv'
  OBVIOUS
<1> USE DecisionAssumption DEF TypeInv, StateInv, CallInv, SeatInv, Call, seatVars, tableVars, Idle, Pc, Goto, Through, Seats, Seat, Terminal, NoSlot, Busy, Here
<1>1. ASSUME NEW ev \in Event, Feed(ev) PROVE SeatInv'
  BY <1>1 DEF Feed, Waits
<1>2. ASSUME NEW b \in Branch, Dispatch(b) PROVE SeatInv'
  <2>1. /\ forked /\ at[b] \in Node \cup {Exit} /\ Exit \notin Node
        /\ UNCHANGED <<seatVars, status, decided>>
    BY <1>2 DEF Dispatch
  <2>2. ASSUME Matches(b, call.ev) PROVE at[b] \in Node /\ (at[b] \notin Ai => Target(at[b], call.ev) # None)
    BY <2>2 DEF Matches, Accepts, Target, Node
  <2>3. call.ev # NoEvent => call.ev \in Event
    OBVIOUS
  <2>4. CASE call.ev = NoEvent
    BY <1>2, <2>1, <2>4 DEF Dispatch
  <2>5. CASE call.ev # NoEvent /\ ~Matches(b, call.ev)
    BY <1>2, <2>1, <2>5 DEF Dispatch
  <2>6. CASE call.ev # NoEvent /\ Matches(b, call.ev)
    BY <1>2, <2>1, <2>2, <2>3, <2>6 DEF Dispatch
  <2> QED BY <2>4, <2>5, <2>6
<1>3. CASE Leave
  BY <1>3 DEF Leave
<1>4. CASE Visit
  BY <1>4 DEF Visit
<1>5. CASE Fail
  BY <1>5 DEF Fail, Through
<1>6. CASE Resolve
  <2>1. /\ Target(Here, call.ev) # None /\ UNCHANGED seatVars /\ call.pc = "resolve"
        /\ call' = [call EXCEPT !.pc = IF forked THEN "clear" ELSE "move"]
    BY <1>6 DEF Resolve
  <2> QED BY <2>1
<1>7. CASE Move
  BY <1>7 DEF Move
<1>8. CASE Arrive
  BY <1>8 DEF Arrive
<1>9. CASE Finish
  BY <1>9 DEF Finish, Through
<1>10. CASE Park
  BY <1>10 DEF Park
<1>11. CASE Bind
  BY <1>11 DEF Bind, RequestID
<1>12. CASE Ask
  BY <1>12 DEF Ask
<1>13. CASE Rest
  BY <1>13 DEF Rest, Through
<1>14. CASE GiveBack
  BY <1>14 DEF GiveBack, AllSaw
<1>15. CASE Settle
  BY <1>15 DEF Settle
<1>16. CASE Save
  BY <1>16 DEF Save, Snapshot
<1>17. CASE Wait
  BY <1>17 DEF Wait, Tick
<1>18. CASE Crash
  BY <1>18 DEF Crash, Rebuild
<1>19. CASE UNCHANGED vars
  BY <1>19 DEF vars
<1> QED BY <1>1, <1>2, <1>3, <1>4, <1>5, <1>6, <1>7, <1>8, <1>9, <1>10, <1>11, <1>12, <1>13, <1>14, <1>15, <1>16, <1>17, <1>18, <1>19, SendsEvent DEF Next

\* Every step keeps to the gates: an event meets them in Feed, and no seat moves
\* between the gate and its turn (Feed, validateBranchPrincipal).
LEMMA OwnStep == TypeInv /\ SeatInv /\ OwnInv /\ [Next]_vars => OwnInv'
PROOF
<1> SUFFICES ASSUME TypeInv /\ SeatInv /\ OwnInv, [Next]_vars PROVE OwnInv'
  OBVIOUS
<1> USE DecisionAssumption DEF TypeInv, StateInv, CallInv, SeatInv, OwnInv, Attributed, Call, seatVars, tableVars, Idle, Pc, Goto, Through, Seats, Seat, Terminal, NoSlot, Busy, Here
<1>1. ASSUME NEW ev \in Event, Feed(ev) PROVE OwnInv'
  <2>1. /\ call'.ev = ev /\ (ev \in Event) /\ UNCHANGED <<seatVars, status, decided, crashes>>
        /\ call'.pc = (IF forked THEN "dispatch" ELSE "clear") /\ (~forked => call'.seat = Instance)
        /\ call'.todo = (IF forked THEN {b \in Branch : Waits(b)} ELSE {})
    BY <1>1 DEF Feed
  <2>2. status \notin Terminal /\ (~forked /\ status = "waiting" => Accepts(at[Instance], ev))
        /\ \A s \in Seats : (IF forked THEN Waits(s) ELSE status = "waiting") /\ at[s] \in Required /\ Accepts(at[s], ev)
                         => Owns(at[s], ev.by)
    BY <1>1 DEF Feed, Admitted
  <2>3. ~forked /\ crashes = 0 => status = "waiting"
    BY <1>1, <2>2 DEF Feed
  <2>4. CASE forked
    BY <2>1, <2>2, <2>4
  <2>5. CASE ~forked
    BY <2>1, <2>2, <2>3, <2>5
  <2> QED BY <2>4, <2>5
<1>2. ASSUME NEW b \in Branch, Dispatch(b) PROVE OwnInv'
  <2>1. /\ forked /\ UNCHANGED <<seatVars, status, decided, crashes>>
        /\ b \in call.todo /\ call'.ev = call.ev /\ call'.todo \subseteq call.todo
    BY <1>2 DEF Dispatch
  <2>2. call'.pc \in Busy => /\ call'.seat = b /\ call.ev # NoEvent /\ Matches(b, call.ev)
    BY <1>2 DEF Dispatch
  <2>3. Matches(b, call.ev) => Accepts(at[b], call.ev)
    BY DEF Matches
  <2>4. call'.pc # "idle"
    BY <1>2 DEF Dispatch
  <2>5. call.ev # NoEvent => call.ev \in Event
    OBVIOUS
  <2> QED BY <2>1, <2>2, <2>3, <2>4, <2>5
<1>3. CASE Leave
  BY <1>3 DEF Leave
<1>4. CASE Visit
  BY <1>4 DEF Visit
<1>5. CASE Fail
  <2>1. call.seat \in Seats /\ (call.seat \in Branch => forked) /\ (~(crashes > 0) => crashes = 0)
    BY <1>5 DEF Fail
  <2>2. Here \in Required /\ (call.seat \in Branch \/ ~(crashes > 0)) => Owns(Here, call.ev.by)
    BY <1>5, <2>1 DEF Fail
  <2>3. /\ Decision.node = Here /\ Decision.by = call.ev.by /\ Decision.seat = call.seat
        /\ Decision.late = (crashes > 0)
    BY DEF Decision
  <2>4. decided' = decided \cup {Decision}
    BY <1>5 DEF Fail
  <2>5. Decision.node \in Required /\ (Decision.seat \in Branch \/ ~Decision.late)
        => Owns(Decision.node, Decision.by)
    BY <2>2, <2>3, Zenon
  <2>6. Attributed'
    BY <2>4, <2>5 DEF Attributed
  <2> QED BY <1>5, <2>6 DEF Fail
<1>6. CASE Resolve
  BY <1>6 DEF Resolve
<1>7. CASE Move
  <2>1. call.seat \in Seats /\ (call.seat \in Branch => forked) /\ (~(crashes > 0) => crashes = 0)
    BY <1>7 DEF Move
  <2>2. Here \in Required /\ (call.seat \in Branch \/ ~(crashes > 0)) => Owns(Here, call.ev.by)
    BY <1>7, <2>1 DEF Move
  <2>3. /\ Decision.node = Here /\ Decision.by = call.ev.by /\ Decision.seat = call.seat
        /\ Decision.late = (crashes > 0)
    BY DEF Decision
  <2>4. decided' = decided \cup {Decision}
    BY <1>7 DEF Move
  <2>5. Decision.node \in Required /\ (Decision.seat \in Branch \/ ~Decision.late)
        => Owns(Decision.node, Decision.by)
    BY <2>2, <2>3, Zenon
  <2>6. Attributed'
    BY <2>4, <2>5 DEF Attributed
  <2> QED BY <1>7, <2>6 DEF Move
<1>8. CASE Arrive
  BY <1>8 DEF Arrive
<1>9. CASE Finish
  BY <1>9 DEF Finish, Through
<1>10. CASE Park
  BY <1>10 DEF Park
<1>11. CASE Bind
  BY <1>11 DEF Bind
<1>12. CASE Ask
  BY <1>12 DEF Ask
<1>13. CASE Rest
  BY <1>13 DEF Rest, Through
<1>14. CASE GiveBack
  BY <1>14 DEF GiveBack, AllSaw
<1>15. CASE Settle
  BY <1>15 DEF Settle
<1>16. CASE Save
  BY <1>16 DEF Save, Snapshot
<1>17. CASE Wait
  BY <1>17 DEF Wait, Tick
<1>18. CASE Crash
  BY <1>18 DEF Crash, Rebuild
<1>19. CASE UNCHANGED vars
  BY <1>19 DEF vars
<1> QED BY <1>1, <1>2, <1>3, <1>4, <1>5, <1>6, <1>7, <1>8, <1>9, <1>10, <1>11, <1>12, <1>13, <1>14, <1>15, <1>16, <1>17, <1>18, <1>19, SendsEvent DEF Next

\* A seat without a request is not mistaken for one.
LEMMA NoneIsNoKey == None \notin Key
PROOF BY DecisionAssumption DEF Key

\* A step that puts no request ID in use keeps the IDs in use behind the visits.
NoNew == \A k \in Key : Used(k)' => Used(k)

\* Such a step does not bring the next request ID into use.
LEMMA KeepsFresh ==
  ASSUME TypeInv, FreshInv, NoNew, visits' = visits, call.pc' \notin {"slot", "bind", "ask"}
  PROVE  FreshInv'
PROOF BY DEF TypeInv, StateInv, FreshInv, NoNew, Key

\* The keys a decision can carry are in use.
LEMMA DecisionUsed ==
  ASSUME TypeInv, SeatInv, call.pc \in {"resolve", "move"} PROVE Used(Decision.key)
PROOF
<1>1. call.seat \in Seat
  BY DEF SeatInv, Seats, Seat
<1>2. Decision.key \in {call.held, slot[call.seat].req}
  BY DEF Decision
<1> QED BY <1>1, <1>2 DEF Used

\* Every step keeps request IDs behind the visits; arriving makes room for one
\* (parkInstance, advanceBranch, emitAIRequest).
LEMMA FreshStep == TypeInv /\ SeatInv /\ FreshInv /\ [Next]_vars => FreshInv'
PROOF
<1> SUFFICES ASSUME TypeInv /\ SeatInv /\ FreshInv, [Next]_vars PROVE FreshInv'
  OBVIOUS
<1> USE DecisionAssumption DEF TypeInv, StateInv, CallInv, SeatInv, Call, seatVars, Idle, Goto, Through, Seats, Seat, NoSlot, Here
<1>1. ASSUME NEW ev \in Event, Feed(ev) PROVE FreshInv'
  <2>1. NoNew
    BY <1>1, NoneIsNoKey DEF NoNew, Used, Feed
  <2> QED BY <1>1, <2>1, KeepsFresh DEF Feed
<1>2. ASSUME NEW b \in Branch, Dispatch(b) PROVE FreshInv'
  <2>1. NoNew
    BY <1>2, NoneIsNoKey DEF NoNew, Used, Dispatch
  <2> QED BY <1>2, <2>1, KeepsFresh DEF Dispatch
<1>3. CASE Leave
  <2>1. NoNew
    BY <1>3, NoneIsNoKey DEF NoNew, Used, Leave
  <2> QED BY <1>3, <2>1, KeepsFresh DEF Leave
<1>4. CASE Visit
  <2>1. NoNew
    BY <1>4, NoneIsNoKey DEF NoNew, Used, Visit
  <2>2. \A n \in Ai : visits[n] \in Nat /\ visits'[n] \in Nat /\ visits[n] <= visits'[n]
    BY <1>4 DEF Visit
  <2>3. \A n \in Ai, v \in Nat, s \in Seat : <<n, v, s>> \in Key
    BY DEF Key
  <2>4. \A n \in Ai, v \in Nat, s \in Seat : Used(<<n, v, s>>)' => v <= visits'[n]
    BY <2>1, <2>2, <2>3 DEF NoNew, FreshInv
  <2>5. call'.pc = "resolve"
    BY <1>4 DEF Visit
  <2> QED BY <2>4, <2>5 DEF FreshInv
<1>5. CASE Fail
  <2>1. Used(Decision.key) /\ decided' = decided \cup {Decision}
    BY <1>5, DecisionUsed DEF Fail
  <2>2. NoNew
    BY <1>5, <2>1, NoneIsNoKey DEF NoNew, Used, Fail
  <2> QED BY <1>5, <2>2, KeepsFresh DEF Fail
<1>6. CASE Resolve
  <2>1. NoNew
    BY <1>6, NoneIsNoKey DEF NoNew, Used, Resolve
  <2> QED BY <1>6, <2>1, KeepsFresh DEF Resolve
<1>7. CASE Move
  <2>1. Used(Decision.key) /\ decided' = decided \cup {Decision}
    BY <1>7, DecisionUsed DEF Move
  <2>2. NoNew
    BY <1>7, <2>1, NoneIsNoKey DEF NoNew, Used, Move
  <2> QED BY <1>7, <2>2, KeepsFresh DEF Move
<1>8. CASE Arrive
  <2>1. NoNew
    BY <1>8, NoneIsNoKey DEF NoNew, Used, Arrive
  <2>2. \A n \in Ai : visits[n] \in Nat /\ visits'[n] \in Nat /\ visits[n] <= visits'[n]
    BY <1>8 DEF Arrive
  <2>3. \A n \in Ai, v \in Nat, s \in Seat : <<n, v, s>> \in Key
    BY DEF Key
  <2>4. \A n \in Ai, v \in Nat, s \in Seat : Used(<<n, v, s>>)' => v <= visits[n]
    BY <2>1, <2>3 DEF NoNew, FreshInv
  <2>5. \A n \in Ai, v \in Nat, s \in Seat : Used(<<n, v, s>>)' => v <= visits'[n]
    BY <2>2, <2>4
  <2>6. call'.pc \in {"slot", "rest"} /\ Here' = Here
        /\ (call'.pc = "slot" => Here \in Ai /\ visits'[Here] = visits[Here] + 1)
    BY <1>8 DEF Arrive
  <2>7. call'.pc = "slot" => \A v \in Nat, s \in Seat : Used(<<Here, v, s>>)' => v < visits'[Here]
    BY <2>2, <2>4, <2>6
  <2> QED BY <2>5, <2>6, <2>7 DEF FreshInv
<1>9. CASE Finish
  <2>1. NoNew
    BY <1>9, NoneIsNoKey DEF NoNew, Used, Finish
  <2> QED BY <1>9, <2>1, KeepsFresh DEF Finish
<1>10. CASE Park
  <2>1. NoNew
    BY <1>10, NoneIsNoKey DEF NoNew, Used, Park
  <2>2. Here' = Here /\ visits' = visits /\ call'.pc = "bind" /\ call.pc = "slot"
    BY <1>10 DEF Park
  <2> QED BY <2>1, <2>2 DEF FreshInv, NoNew, Key
<1>11. CASE Bind
  <2>1. /\ call.seat \in Seat /\ Here \in Ai /\ visits[Here] \in Nat
        /\ slot'[call.seat].req = <<Here, visits[Here], call.seat>>
        /\ \A s \in Seat : s # call.seat => slot'[s] = slot[s]
        /\ UNCHANGED <<visits, asked, decided>> /\ call'.held = call.held /\ call'.seat = call.seat
        /\ call'.pc = "ask" /\ call.pc = "bind"
    BY <1>11 DEF Bind, RequestID
  <2>2. \A k \in Key : Used(k)' => Used(k) \/ k = <<Here, visits[Here], call.seat>>
    BY <2>1 DEF Used
  <2>3. \A n \in Ai, v \in Nat, s \in Seat : Used(<<n, v, s>>)' => v <= visits'[n]
    BY <2>1, <2>2 DEF FreshInv, Key
  <2>4. <<Here, visits[Here], call.seat>> \notin asked
    BY <2>1 DEF FreshInv, Used
  <2>5. (slot[call.seat].req \notin asked)'
    <3>1. slot'[call'.seat].req = <<Here, visits[Here], call.seat>> /\ asked' = asked
      BY <2>1
    <3> QED BY ONLY <2>4, <3>1
  <2>6. call'.pc \notin {"slot", "bind"}
    BY <2>1
  <2> QED BY ONLY <2>3, <2>5, <2>6 DEF FreshInv
<1>12. CASE Ask
  <2>1. call.seat \in Seat
    BY <1>12 DEF Ask
  <2>2. NoNew
    BY <1>12, <2>1, NoneIsNoKey DEF NoNew, Used, Ask
  <2> QED BY <1>12, <2>2, KeepsFresh DEF Ask
<1>13. CASE Rest
  <2>1. NoNew
    BY <1>13, NoneIsNoKey DEF NoNew, Used, Rest
  <2> QED BY <1>13, <2>1, KeepsFresh DEF Rest
<1>14. CASE GiveBack
  <2>1. NoNew
    BY <1>14, NoneIsNoKey DEF NoNew, Used, GiveBack, AllSaw
  <2> QED BY <1>14, <2>1, KeepsFresh DEF GiveBack, AllSaw
<1>15. CASE Settle
  <2>1. NoNew
    BY <1>15, NoneIsNoKey DEF NoNew, Used, Settle
  <2> QED BY <1>15, <2>1, KeepsFresh DEF Settle
<1>16. CASE Save
  BY <1>16 DEF Save, Snapshot, Used, FreshInv
<1>17. CASE Wait
  BY <1>17 DEF Wait, Used, FreshInv
<1>18. CASE Crash
  <2>1. NoNew
    BY <1>18, NoneIsNoKey DEF NoNew, Used, Crash
  <2> QED BY <1>18, <2>1, KeepsFresh DEF Crash
<1>19. CASE UNCHANGED vars
  BY <1>19 DEF vars, Used, FreshInv
<1> QED BY <1>1, <1>2, <1>3, <1>4, <1>5, <1>6, <1>7, <1>8, <1>9, <1>10, <1>11, <1>12, <1>13, <1>14, <1>15, <1>16, <1>17, <1>18, <1>19, SendsEvent DEF Next

\* A request names the seat that makes it (aiRequestCommandID).
LEMMA OneSeat ==
  ASSUME NEW s \in Seat, NEW t \in Seat, NEW k \in KeyOf(s) \cup {None}, k \in KeyOf(t)
  PROVE  s = t
PROOF BY NoneIsNoKey DEF KeyOf, Key

\* Every step keeps a request in one slot or on record as answered (feedAI,
\* clearWaiting).
LEMMA OnceStep == TypeInv /\ SeatInv /\ FreshInv /\ OnceInv /\ [Next]_vars => OnceInv'
PROOF
<1> SUFFICES ASSUME TypeInv /\ SeatInv /\ FreshInv /\ OnceInv, [Next]_vars PROVE OnceInv'
  OBVIOUS
<1> USE DecisionAssumption DEF TypeInv, StateInv, CallInv, SeatInv, OnceInv, AnsweredOnce, Call, seatVars, Idle, Goto, Through, Seats, Seat, NoSlot, Busy, Here
<1>1. ASSUME NEW ev \in Event, Feed(ev) PROVE OnceInv'
  BY <1>1 DEF Feed
<1>2. ASSUME NEW b \in Branch, Dispatch(b) PROVE OnceInv'
  <2>1. /\ forked /\ call'.held = None /\ UNCHANGED <<seatVars, status, decided>>
        /\ call'.ev = call.ev /\ call'.pc \in {"dispatch", "arrive", "visit", "clear"}
    BY <1>2 DEF Dispatch
  <2>2. call'.pc \in {"visit", "clear"} => call'.seat = b /\ Matches(b, call.ev)
    BY <1>2 DEF Dispatch
  <2>3. Matches(b, call.ev) /\ at[b] \in Ai /\ call.ev.ref # None => slot[b].req = call.ev.ref
    BY DEF Matches
  <2> QED BY <2>1, <2>2, <2>3
<1>3. CASE Leave
  <2>1. /\ call.seat \in Seat /\ call.held = None /\ call.pc = "clear"
        /\ slot'[call.seat] = NoSlot /\ \A s \in Seat : s # call.seat => slot'[s] = slot[s]
        /\ UNCHANGED <<forked, at, st, decided>>
        /\ call'.held = slot[call.seat].req /\ call'.seat = call.seat /\ call'.ev = call.ev
        /\ call'.pc \in {"move", "visit", "arrive"} /\ (forked <=> call'.pc = "move")
    BY <1>3 DEF Leave
  <2>2. NoSlot.req = None
    OBVIOUS
  <2>3. \A s \in Seat : slot'[s].req \in {None, slot[s].req}
    BY <2>1, <2>2
  <2>4. ASSUME call'.held # None
        PROVE  /\ \A d \in decided : d.key # call'.held
               /\ \A s \in Seat : slot'[s].req # call'.held
    <3>1. \A d \in decided : d.key # call'.held
      BY <1>3, <2>1, <2>4 DEF Leave
    <3>2. \A s \in Seat : slot'[s].req # call'.held
      BY <2>1, <2>2, <2>4, OneSeat
    <3> QED BY <3>1, <3>2
  <2>5. (\A s \in Seat : slot[s].req \in KeyOf(s) \cup {None})'
    BY <2>3
  <2>6. \A d \in decided', s \in Seat : d.key # None /\ slot'[s].req = d.key
          => s \in Branch /\ st'[s] = "failed"
    BY <2>1, <2>3
  <2>7. forked /\ Here \in Ai /\ call.ev.ref # None => call.ev.ref = call'.held
    BY <2>1
  <2> QED BY <2>1, <2>4, <2>5, <2>6, <2>7
<1>4. CASE Visit
  BY <1>4 DEF Visit
<1>5. CASE Fail
  <2>1. /\ decided' = decided \cup {Decision} /\ call.seat \in Seats /\ Decision \in Answer
        /\ UNCHANGED <<forked, slot>>
    BY <1>5, DecisionType DEF Fail
  <2>2. /\ Decision.seat = call.seat /\ Decision.node = Here /\ Decision.ref = call.ev.ref
        /\ Decision.key = (IF call.held # None THEN call.held ELSE slot[call.seat].req)
    BY DEF Decision
  <2>3. Decision.key # None => \A d \in decided : d.key # Decision.key
    BY <1>5, <2>1, <2>2 DEF Fail
  <2>4. call.seat \in Branch /\ Here \in Ai /\ call.ev.ref # None => call.ev.ref = Decision.key
    BY <1>5, <2>1, <2>2 DEF Fail
  <2>5. AnsweredOnce'
    BY <2>1, <2>2, <2>3, <2>4 DEF AnsweredOnce
  <2>6. ASSUME Decision.key # None, NEW s \in Seat, slot[s].req = Decision.key
        PROVE  s \in Branch /\ st'[s] = "failed"
    BY <1>5, <2>1, <2>2, <2>6, OneSeat DEF Fail
  <2>7. \A d \in decided', s \in Seat : d.key # None /\ slot'[s].req = d.key
          => s \in Branch /\ st'[s] = "failed"
    BY <1>5, <2>1, <2>6 DEF Fail
  <2>8. (\A s \in Seat : slot[s].req \in KeyOf(s) \cup {None})'
    BY <2>1
  <2>9. call'.pc \notin Busy /\ (call'.pc # "arrive" => call'.held = None)
    BY <1>5 DEF Fail
  <2> QED BY <2>5, <2>7, <2>8, <2>9
<1>6. CASE Resolve
  BY <1>6 DEF Resolve
<1>7. CASE Move
  <2>1. /\ decided' = decided \cup {Decision} /\ call.seat \in Seats /\ Decision \in Answer
        /\ UNCHANGED <<forked, slot>>
    BY <1>7, DecisionType DEF Move
  <2>2. /\ Decision.seat = call.seat /\ Decision.node = Here /\ Decision.ref = call.ev.ref
        /\ Decision.key = (IF call.held # None THEN call.held ELSE slot[call.seat].req)
    BY DEF Decision
  <2>3. Decision.key # None => \A d \in decided : d.key # Decision.key
    BY <1>7, <2>1, <2>2 DEF Move
  <2>4. call.seat \in Branch /\ Here \in Ai /\ call.ev.ref # None => call.ev.ref = Decision.key
    BY <1>7, <2>1, <2>2 DEF Move
  <2>5. AnsweredOnce'
    BY <2>1, <2>2, <2>3, <2>4 DEF AnsweredOnce
  <2>6. ASSUME Decision.key # None, NEW s \in Seat, slot[s].req = Decision.key
        PROVE  s \in Branch /\ st'[s] = "failed"
    BY <1>7, <2>1, <2>2, <2>6, OneSeat DEF Move
  <2>7. \A d \in decided', s \in Seat : d.key # None /\ slot'[s].req = d.key
          => s \in Branch /\ st'[s] = "failed"
    BY <1>7, <2>1, <2>6 DEF Move
  <2>8. (\A s \in Seat : slot[s].req \in KeyOf(s) \cup {None})'
    BY <2>1
  <2>9. call'.pc \notin Busy /\ (call'.pc # "arrive" => call'.held = None)
    BY <1>7 DEF Move
  <2> QED BY <2>5, <2>7, <2>8, <2>9
<1>8. CASE Arrive
  BY <1>8 DEF Arrive
<1>9. CASE Finish
  BY <1>9 DEF Finish, Through
<1>10. CASE Park
  BY <1>10 DEF Park
<1>11. CASE Bind
  <2>1. /\ call.seat \in Seat /\ Here \in Ai /\ visits[Here] \in Nat
        /\ slot'[call.seat].req = <<Here, visits[Here], call.seat>>
        /\ \A s \in Seat : s # call.seat => slot'[s] = slot[s]
        /\ decided' = decided /\ st' = st /\ forked' = forked /\ call'.held = call.held
        /\ call'.pc = "ask"
    BY <1>11 DEF Bind, RequestID
  <2>2. slot'[call.seat].req \in KeyOf(call.seat)
    BY <2>1 DEF KeyOf
  <2>3. \A d \in decided : d.key # <<Here, visits[Here], call.seat>>
    <3>1. call.pc = "bind"
      BY <1>11 DEF Bind
    <3>2. ~Used(<<Here, visits[Here], call.seat>>)
      BY <2>1, <3>1 DEF FreshInv
    <3> QED BY <3>2 DEF Used
  <2>4. \A s \in Seat : (slot[s].req \in KeyOf(s) \cup {None})'
    BY <2>1, <2>2
  <2>5. \A d \in decided', s \in Seat : d.key # None /\ slot'[s].req = d.key
          => s \in Branch /\ st'[s] = "failed"
    BY <2>1, <2>3
  <2> QED BY <2>1, <2>4, <2>5
<1>12. CASE Ask
  BY <1>12 DEF Ask
<1>13. CASE Rest
  BY <1>13 DEF Rest, Through
<1>14. CASE GiveBack
  BY <1>14 DEF GiveBack, AllSaw
<1>15. CASE Settle
  BY <1>15 DEF Settle
<1>16. CASE Save
  BY <1>16 DEF Save, Snapshot
<1>17. CASE Wait
  BY <1>17 DEF Wait, Tick
<1>18. CASE Crash
  BY <1>18 DEF Crash, Rebuild
<1>19. CASE UNCHANGED vars
  BY <1>19 DEF vars
<1> QED BY <1>1, <1>2, <1>3, <1>4, <1>5, <1>6, <1>7, <1>8, <1>9, <1>10, <1>11, <1>12, <1>13, <1>14, <1>15, <1>16, <1>17, <1>18, <1>19, SendsEvent DEF Next

\* Every step keeps a slot with its node and a waiting seat with its question
\* (parkWaiting, emitAIRequest, clearWaiting).
LEMMA MatchStep == TypeInv /\ SeatInv /\ OnceInv /\ MatchInv /\ [Next]_vars => MatchInv'
PROOF
<1> SUFFICES ASSUME TypeInv /\ SeatInv /\ OnceInv /\ MatchInv, [Next]_vars PROVE MatchInv'
  OBVIOUS
<1> USE DecisionAssumption DEF TypeInv, StateInv, CallInv, SeatInv, MatchInv, Parked, Call, seatVars, Idle, Goto, Through, Seats, Seat, NoSlot, Here
<1>1. ASSUME NEW ev \in Event, Feed(ev) PROVE MatchInv'
  BY <1>1 DEF Feed
<1>2. ASSUME NEW b \in Branch, Dispatch(b) PROVE MatchInv'
  <2>1. /\ forked /\ UNCHANGED <<seatVars, status, crashes>> /\ b \in call.todo
        /\ call.seat = None /\ call'.pc \in {"dispatch", "arrive", "visit", "clear"}
        /\ call'.seat \in {b, None} /\ (call'.pc = "dispatch" => call'.seat = None)
    BY <1>2 DEF Dispatch
  <2> QED BY <2>1
<1>3. CASE Leave
  <2>1. /\ call.seat \in Seats /\ slot'[call.seat] = NoSlot
        /\ \A s \in Seat : s # call.seat => slot'[s] = slot[s]
        /\ UNCHANGED <<forked, status, at, st, asked, crashes>>
        /\ call'.seat = call.seat /\ call'.pc \in {"move", "arrive", "visit"}
    BY <1>3 DEF Leave
  <2> QED BY <2>1
<1>4. CASE Visit
  BY <1>4 DEF Visit
<1>5. CASE Fail
  BY <1>5 DEF Fail, Through, Terminal
<1>6. CASE Resolve
  <2>1. /\ UNCHANGED <<seatVars, crashes>> /\ call.seat \in Seats
        /\ call' = [call EXCEPT !.pc = IF forked THEN "clear" ELSE "move"]
    BY <1>6 DEF Resolve
  <2> QED BY <1>6, <2>1 DEF Resolve
<1>7. CASE Move
  <2>1. /\ call.seat \in Seats /\ slot[call.seat] = NoSlot /\ call'.seat = call.seat
        /\ call'.pc = "arrive" /\ UNCHANGED <<forked, status, st, slot, asked, crashes>>
        /\ \A s \in Seat : s # call.seat => at'[s] = at[s]
    BY <1>7 DEF Move, OnceInv
  <2> QED BY <2>1
<1>8. CASE Arrive
  BY <1>8 DEF Arrive
<1>9. CASE Finish
  <2>1. /\ call.seat \in Seats /\ UNCHANGED <<forked, at, slot, asked, crashes>> /\ Here \notin Ai
        /\ (IF forked THEN call'.pc = "dispatch" /\ call'.seat = None
                         ELSE call' = Idle /\ status' = "completed")
    BY <1>9 DEF Finish, Through, Node
  <2>2. \A s \in Seats : s # call.seat /\ Parked(s)' => Parked(s)
    BY <1>9 DEF Finish
  <2> QED BY <2>1, <2>2
<1>10. CASE Park
  <2>1. /\ call.seat \in Seats /\ call'.seat = call.seat /\ call'.pc = "bind" /\ Here \in Ai
        /\ slot'[call.seat].node = Here
        /\ \A s \in Seat : s # call.seat => slot'[s] = slot[s]
        /\ UNCHANGED <<forked, status, at, st, asked, crashes>>
    BY <1>10 DEF Park
  <2> QED BY <2>1
<1>11. CASE Bind
  <2>1. /\ call.seat \in Seats /\ call'.seat = call.seat /\ call'.pc = "ask"
        /\ slot'[call.seat].node = Here
        /\ \A s \in Seat : s # call.seat => slot'[s] = slot[s]
        /\ UNCHANGED <<forked, status, at, st, asked, crashes>>
    BY <1>11 DEF Bind
  <2> QED BY <2>1
<1>12. CASE Ask
  BY <1>12 DEF Ask
<1>13. CASE Rest
  <2>1. /\ call.seat \in Seats /\ UNCHANGED <<forked, at, slot, asked, crashes>>
        /\ (Here \in Ai => slot[call.seat].req \in asked)
        /\ (IF forked THEN call'.pc = "dispatch" /\ call'.seat = None ELSE call' = Idle)
    BY <1>13 DEF Rest, Through
  <2>2. \A s \in Seats : s # call.seat /\ Parked(s)' => Parked(s)
    BY <1>13 DEF Rest
  <2> QED BY <2>1, <2>2
<1>14. CASE GiveBack
  BY <1>14 DEF GiveBack, AllSaw
<1>15. CASE Settle
  <2>1. /\ forked /\ call.seat = None /\ call' = Idle /\ UNCHANGED <<seatVars, crashes>>
    BY <1>15 DEF Settle, AllSaw
  <2> QED BY <2>1
<1>16. CASE Save
  BY <1>16 DEF Save, Snapshot
<1>17. CASE Wait
  BY <1>17 DEF Wait, Tick
<1>18. CASE Crash
  <2>1. crashes' # 0
    BY <1>18 DEF Crash
  <2> QED BY <1>18, <2>1 DEF Crash, Rebuild
<1>19. CASE UNCHANGED vars
  BY <1>19 DEF vars
<1> QED BY <1>1, <1>2, <1>3, <1>4, <1>5, <1>6, <1>7, <1>8, <1>9, <1>10, <1>11, <1>12, <1>13, <1>14, <1>15, <1>16, <1>17, <1>18, <1>19, SendsEvent DEF Next

-----------------------------------------------------------------------------
(* The ledger of events, before the first crash. *)

\* The event at hand has moved one seat more.
LEMMA MovedGrows ==
  ASSUME TypeInv, SeatInv, IsFiniteSet(Moved), call.pc \in {"resolve", "move"},
         decided' = decided \cup {Decision}
  PROVE  /\ Moved' = Moved \cup {call.ev.id} /\ IsFiniteSet(Moved')
         /\ Cardinality(Moved') < Cap => Cardinality(Moved) < Cap
PROOF
<1>1. Moved' = Moved \cup {call.ev.id}
  <2>1. PICK e : e = Decision
    OBVIOUS
  <2>2. e.id = call.ev.id /\ decided' = decided \cup {e}
    BY <2>1 DEF Decision
  <2>3. Moved' = {d.id : d \in decided \cup {e}}
    BY <2>2 DEF Moved
  <2> QED BY <2>2, <2>3 DEF Moved
<1>2. IsFiniteSet(Moved')
  BY <1>1, FS_AddElement
<1>3. Cardinality(Moved) <= Cardinality(Moved')
  <2>1. Moved \in SUBSET Moved'
    BY <1>1
  <2> QED BY <1>2, <2>1, FS_Subset
<1>4. Cardinality(Moved) \in Nat /\ Cardinality(Moved') \in Nat /\ Cap \in Nat
  BY <1>2, FS_CardinalityType, TableAssumption
<1> QED BY <1>1, <1>2, <1>3, <1>4

\* A table with room is not swept: it keeps what it holds, and takes the event.
LEMMA Consuming ==
  ASSUME TableInv, NEW e \in EventId, Consume(e)
  PROVE  /\ e \in Held(table') /\ e \notin Held(table)
         /\ Held(ledger') = Held(ledger) \cup {e}
         /\ IsFiniteSet(Held(table)) /\ Cardinality(Held(table)) < Cap
              => Held(table) \subseteq Held(table')
PROOF
<1> USE DEF TableInv, TableTypeOK, Table
<1>1. PICK s : /\ table' = With(s, e, clock)
               /\ s \in IF Cardinality(Held(table)) >= Cap THEN Swept(table, clock) ELSE {table}
  BY DEF Consume, Tracked
<1>2. s \in Table
  BY <1>1, SweptYoungest DEF FoldIsStricter
<1>3. \A t \in Table : Held(With(t, e, clock)) = Held(t) \cup {e}
  BY DEF Held, With
<1>4. Held(table') = Held(s) \cup {e}
  BY <1>1, <1>2, <1>3
<1>5. Held(ledger') = Held(ledger) \cup {e}
  BY <1>3 DEF Consume
<1>6. ASSUME IsFiniteSet(Held(table)), Cardinality(Held(table)) < Cap PROVE s = table
  <2>1. Cardinality(Held(table)) \in Nat
    BY <1>6, FS_CardinalityType
  <2>2. ~(Cardinality(Held(table)) >= Cap)
    BY <1>6, <2>1, TableAssumption
  <2> QED BY <1>1, <2>2
<1> QED BY <1>4, <1>5, <1>6 DEF Consume, Seen, Held

\* What the live table holds the ledger holds.
LEMMA TableOnLedger == TableInv => Held(table) \subseteq Held(ledger)
PROOF BY DEF TableInv, FoldIsStricter, Youngest, Held

\* A step that leaves the table alone and puts no decision on record.
LEMMA LedgerSame ==
  ASSUME UNCHANGED <<table, ledger, decided>>
  PROVE  Moved' = Moved /\ Held(table') = Held(table) /\ Held(ledger') = Held(ledger)
PROOF BY DEF Moved, Held

\* Every step keeps account of the events (Feed, TryConsumeEvent, ReleaseEvent).
LEMMA LedgerStep == Inv /\ TableInv /\ LedgerInv /\ [Next]_vars => LedgerInv'
PROOF
<1> SUFFICES ASSUME Inv /\ TableInv /\ LedgerInv, [Next]_vars PROVE LedgerInv'
  OBVIOUS
<1>0. TypeInv /\ SeatInv /\ OwnInv /\ MatchInv /\ Held(table) \subseteq Held(ledger)
  BY TableOnLedger DEF Inv
<1> USE DecisionAssumption DEF LedgerInv, Asking, Taken, Busy, Idle, Goto, Through, Seats, Seat, seatVars
<1>1. ASSUME NEW ev \in Event, Feed(ev) PROVE LedgerInv'
  <2>1. /\ call = Idle /\ call'.ev = ev /\ call'.routed = FALSE /\ ev # NoEvent /\ ev.id \in EventId
        /\ UNCHANGED <<seatVars, status, decided, crashes>>
        /\ call'.pc = (IF forked THEN "dispatch" ELSE "clear") /\ (~forked => call'.seat = Instance)
        /\ status \notin Terminal /\ ~(forked /\ Ended) /\ Consume(ev.id)
    BY <1>0, <1>1 DEF Feed, MatchInv, Admitted, Event, NoEvent
  <2>2. Moved' = Moved
    BY <2>1 DEF Moved
  <2>3. /\ ev.id \in Held(table') /\ ev.id \notin Held(table)
        /\ Held(ledger') = Held(ledger) \cup {ev.id}
        /\ IsFiniteSet(Held(table)) /\ Cardinality(Held(table)) < Cap => Held(table) \subseteq Held(table')
    BY <2>1, Consuming
  <2>4. crashes = 0 => Held(ledger) \subseteq Moved /\ Held(table) \in SUBSET Moved
    BY <1>0, <2>1
  <2>5. ASSUME crashes = 0, Cardinality(Moved) < Cap
        PROVE  Moved \subseteq Held(table') /\ ev.id \notin Moved
    <3>1. Moved \subseteq Held(table)
      BY <2>5
    <3>2. IsFiniteSet(Held(table)) /\ Held(table) = Moved
      BY <2>4, <2>5, <3>1
    <3> QED BY <2>3, <2>5, <3>1, <3>2
  <2>6. crashes = 0 /\ ~forked => call'.seat = Instance /\ at[Instance] \in Node
    <3>1. crashes = 0 /\ ~forked => status = "waiting"
      BY <1>0, <2>1 DEF OwnInv, TypeInv, StateInv
    <3>2. ~forked /\ status = "waiting" => Accepts(at[Instance], ev)
      BY <1>1 DEF Feed, Admitted
    <3> QED BY <2>1, <3>1, <3>2 DEF Accepts, Node
  <2>7. (~Ended' /\ (FailsNow' <=> FailsNow)) \/ ~forked
    BY <2>1 DEF Ended, FailsNow
  <2>8. crashes = 0 /\ forked => ~FailsNow
    BY <2>1
  <2> QED BY <2>1, <2>2, <2>3, <2>4, <2>5, <2>6, <2>7, <2>8 DEF Here
<1>2. ASSUME NEW b \in Branch, Dispatch(b) PROVE LedgerInv'
  <2>1. /\ forked /\ UNCHANGED <<seatVars, status, decided, crashes, tableVars>>
        /\ call.pc = "dispatch" /\ call'.ev = call.ev
        /\ \/ call'.pc = "dispatch" /\ call'.routed = call.routed
           \/ call'.pc = "arrive" /\ call.ev = NoEvent
           \/ call'.pc \in {"visit", "clear"} /\ call'.routed /\ call'.seat = b /\ Matches(b, call.ev)
    BY <1>0, <1>2 DEF Dispatch, SeatInv, TypeInv, CallInv, Call
  <2>2. Moved' = Moved /\ Held(table') = Held(table) /\ Held(ledger') = Held(ledger)
    BY <2>1, LedgerSame DEF tableVars
  <2>3. Matches(b, call.ev) => at[b] \in Node
    BY DEF Matches, Accepts, Node
  <2>4. Ended' = Ended /\ FailsNow' = FailsNow
    BY <2>1 DEF Ended, FailsNow
  <2> QED BY <2>1, <2>2, <2>3, <2>4 DEF Here
<1>3. CASE Leave
  <2>1. /\ call.pc = "clear" /\ UNCHANGED <<forked, at, st, status, decided, crashes, tableVars>>
        /\ call'.seat = call.seat /\ call'.ev = call.ev /\ call'.routed = call.routed
        /\ call'.pc = (IF forked THEN "move" ELSE IF Here = Exit THEN "arrive" ELSE "visit")
    BY <1>0, <1>3 DEF Leave, TypeInv, CallInv, Call
  <2>2. Moved' = Moved /\ Held(table') = Held(table) /\ Held(ledger') = Held(ledger)
    BY <2>1, LedgerSame DEF tableVars
  <2> QED BY <2>1, <2>2
<1>4. CASE Visit
  <2>1. /\ call.pc = "visit" /\ call' = [call EXCEPT !.pc = "resolve"]
        /\ UNCHANGED <<forked, status, at, st, decided, crashes, tableVars>>
    BY <1>4 DEF Visit
  <2>2. Moved' = Moved /\ Held(table') = Held(table) /\ Held(ledger') = Held(ledger)
    BY <2>1, LedgerSame DEF tableVars
  <2> QED BY <1>0, <2>1, <2>2 DEF TypeInv, CallInv, Call
<1>5. CASE Fail
  <2>1. /\ call.pc = "resolve" /\ decided' = decided \cup {Decision}
        /\ UNCHANGED <<forked, at, crashes, tableVars>> /\ call.ev \in Event
        /\ (IF forked THEN call'.pc = "dispatch" /\ call'.ev = call.ev /\ call'.routed = call.routed
                      ELSE call' = Idle)
    BY <1>0, <1>5 DEF Fail, SeatInv, TypeInv, CallInv, Call
  <2>2. /\ Moved' = Moved \cup {call.ev.id} /\ IsFiniteSet(Moved')
        /\ Cardinality(Moved') < Cap => Cardinality(Moved) < Cap
    BY <1>0, <2>1, MovedGrows
  <2>3. Held(table') = Held(table) /\ Held(ledger') = Held(ledger)
    BY <2>1 DEF tableVars, Held
  <2>4. call.ev # NoEvent
    BY <2>1 DEF NoEvent, Event
  <2>5. crashes = 0 => (forked => call.routed)
    BY <2>1, <2>4
  <2> QED BY <2>1, <2>2, <2>3, <2>4, <2>5
<1>6. CASE Resolve
  <2>1. /\ call.pc = "resolve" /\ UNCHANGED <<seatVars, decided, crashes, tableVars>>
        /\ call' = [call EXCEPT !.pc = IF forked THEN "clear" ELSE "move"]
    BY <1>6 DEF Resolve
  <2>2. Moved' = Moved /\ Held(table') = Held(table) /\ Held(ledger') = Held(ledger)
    BY <2>1, LedgerSame DEF tableVars
  <2>3. Here \in Node /\ (Here \in Node)'
    BY <1>0, <2>1 DEF SeatInv, TypeInv, CallInv, Call, Here
  <2> QED BY <1>0, <2>1, <2>2, <2>3 DEF TypeInv, CallInv, Call
<1>7. CASE Move
  <2>1. /\ call.pc = "move" /\ decided' = decided \cup {Decision} /\ call.ev \in Event
        /\ UNCHANGED <<forked, status, st, crashes, tableVars>>
        /\ call'.pc = "arrive" /\ call'.ev = call.ev /\ call'.routed = call.routed
    BY <1>0, <1>7 DEF Move, SeatInv, TypeInv, CallInv, Call
  <2>2. /\ Moved' = Moved \cup {call.ev.id} /\ IsFiniteSet(Moved')
        /\ Cardinality(Moved') < Cap => Cardinality(Moved) < Cap
    BY <1>0, <2>1, MovedGrows
  <2>3. Held(table') = Held(table) /\ Held(ledger') = Held(ledger)
    BY <2>1 DEF tableVars, Held
  <2>4. call.ev # NoEvent
    BY <2>1 DEF NoEvent, Event
  <2>5. crashes = 0 => (forked => call.routed)
    BY <2>1, <2>4
  <2> QED BY <2>1, <2>2, <2>3, <2>4, <2>5
<1>8. CASE Arrive \/ Finish \/ Park \/ Bind \/ Ask \/ Rest
  <2>1. /\ call.pc \in {"arrive", "slot", "bind", "ask", "rest"}
        /\ UNCHANGED <<forked, decided, crashes, tableVars>>
        /\ \/ /\ call'.pc \in {"slot", "bind", "ask", "rest"} \/ (forked /\ call'.pc = "dispatch")
              /\ call'.ev = call.ev /\ call'.routed = call.routed
           \/ ~forked /\ call' = Idle
    BY <1>0, <1>8 DEF Arrive, Finish, Park, Bind, Ask, Rest, TypeInv, CallInv, Call
  <2>2. Moved' = Moved /\ Held(table') = Held(table) /\ Held(ledger') = Held(ledger)
    BY <2>1, LedgerSame DEF tableVars
  <2>3. crashes = 0 => (forked /\ Asking => call.routed)
    BY <2>1
  <2> QED BY <2>1, <2>2, <2>3
<1>9. CASE GiveBack
  <2>1. /\ call.pc = "dispatch" /\ ~Ended /\ ~FailsNow /\ ~call.routed /\ forked
        /\ call.ev \in Event /\ call.ev # NoEvent
        /\ UNCHANGED <<seatVars, status, decided, crashes>> /\ Release(call.ev.id)
        /\ call'.pc = "settle" /\ call'.ev = call.ev /\ call'.routed = call.routed
    BY <1>0, <1>9 DEF GiveBack, AllSaw, SeatInv, TypeInv, CallInv, Call, NoEvent, Event
  <2>2. Moved' = Moved /\ Ended' = Ended /\ FailsNow' = FailsNow
    BY <2>1 DEF Moved, Ended, FailsNow
  <2>3. Held(table') = Held(table) \ {call.ev.id} /\ Held(ledger') = Held(ledger) \ {call.ev.id}
    BY <2>1 DEF Release, Held, Without, TableInv, TableTypeOK, Table
  <2> QED BY <2>1, <2>2, <2>3
<1>10. CASE Settle
  <2>1. /\ forked /\ call.pc \in {"dispatch", "settle"} /\ call' = Idle
        /\ UNCHANGED <<seatVars, decided, crashes, tableVars>>
        /\ (call.pc = "dispatch" => Ended \/ FailsNow \/ call.routed)
        /\ (FailsNow => status' = "failed")
    BY <1>0, <1>10 DEF Settle, AllSaw, SeatInv
  <2>2. Moved' = Moved /\ Held(table') = Held(table) /\ Held(ledger') = Held(ledger)
    BY <2>1, LedgerSame DEF tableVars
  <2>3. FailsNow' = FailsNow
    BY <2>1 DEF FailsNow
  <2>4. crashes = 0 => Held(ledger) \subseteq Moved
    BY <2>1
  <2> QED BY <2>1, <2>2, <2>3, <2>4 DEF Terminal
<1>11. CASE Save \/ Wait
  <2>1. /\ UNCHANGED <<seatVars, status, decided, call, crashes, table, ledger>>
    BY <1>11 DEF Save, Wait, Snapshot, Tick
  <2>2. Moved' = Moved /\ Held(table') = Held(table) /\ Held(ledger') = Held(ledger)
    BY <2>1, LedgerSame
  <2>3. FailsNow' = FailsNow /\ Ended' = Ended /\ Here' = Here
    BY <2>1 DEF FailsNow, Ended, Here
  <2> QED BY <2>1, <2>2, <2>3
<1>12. CASE Crash
  <2>1. crashes' # 0 /\ decided' = decided
    BY <1>0, <1>12 DEF Crash, TypeInv, StateInv
  <2>2. Moved' = Moved
    BY <2>1 DEF Moved
  <2> QED BY <2>1, <2>2
<1>13. CASE UNCHANGED vars
  <2>1. UNCHANGED <<seatVars, status, decided, call, crashes, table, ledger>>
    BY <1>13 DEF vars, tableVars
  <2>2. Moved' = Moved /\ Held(table') = Held(table) /\ Held(ledger') = Held(ledger)
    BY <2>1, LedgerSame
  <2>3. FailsNow' = FailsNow /\ Ended' = Ended /\ Here' = Here
    BY <2>1 DEF FailsNow, Ended, Here
  <2> QED BY <2>1, <2>2, <2>3
<1> QED BY <1>0, <1>1, <1>2, <1>3, <1>4, <1>5, <1>6, <1>7, <1>8, <1>9, <1>10, <1>11, <1>12, <1>13, SendsEvent DEF Next
-----------------------------------------------------------------------------
(* The theorems. *)

\* Start has put the instance at its first node; nothing is asked or decided.
LEMMA InitInv == Init => Inv
PROOF
<1> SUFFICES ASSUME Init PROVE Inv
  OBVIOUS
<1> USE DecisionAssumption DEF Init, Idle, NoSlot, Seat, Seats
<1>1. NoEvent \notin Event /\ call.ev = NoEvent /\ call.held = None
  BY DEF NoEvent, Event
<1>2. TypeInv
  BY DEF TypeInv, StateInv, CallInv, Call, Pc, Terminal
<1>3. SeatInv
  BY DEF SeatInv, Here, Busy
<1>4. OwnInv
  BY <1>1 DEF OwnInv, Busy, Attributed
<1>5. \A k \in Key : ~Used(k)
  BY <1>1, NoneIsNoKey DEF Used
<1>6. FreshInv
  BY <1>5 DEF FreshInv, Key
<1>7. OnceInv
  BY <1>1 DEF OnceInv, AnsweredOnce, Busy
<1>8. MatchInv
  BY DEF MatchInv, Parked
<1> QED BY <1>2, <1>3, <1>4, <1>6, <1>7, <1>8 DEF Inv

\* The invariant is inductive.
LEMMA InvStep == Inv /\ [Next]_vars => Inv'
PROOF BY TypeStep, SeatStep, OwnStep, FreshStep, OnceStep, MatchStep DEF Inv

\* To the table of consumed events every step is one of its own operations or none.
LEMMA TableStutters == Inv /\ [Next]_vars => [TableNext]_tableVars
PROOF
<1> SUFFICES ASSUME Inv, [Next]_vars PROVE [TableNext]_tableVars
  OBVIOUS
<1>1. CASE Send
  <2>1. PICK c \in Content, e \in EventId : \E ref \in IF c.names THEN asked ELSE {None} :
          Feed(Attribute([id |-> e, says |-> c.says, by |-> c.by, ref |-> ref]))
    BY <1>1 DEF Send
  <2>2. Consume(e)
    BY <2>1 DEF Feed, Attribute
  <2> QED BY <2>2 DEF TableNext
<1>2. CASE GiveBack
  <2>1. Release(call.ev.id)
    BY <1>2 DEF GiveBack
  <2>2. call.ev \in Event
    BY <1>2 DEF GiveBack, AllSaw, Inv, SeatInv
  <2> QED BY <2>1, <2>2 DEF TableNext, Event
<1>3. CASE Save \/ Wait \/ Crash
  BY <1>3 DEF Save, Wait, Crash, TableNext
<1>4. CASE UNCHANGED tableVars
  BY <1>4
<1>5. Send \/ GiveBack \/ Save \/ Wait \/ Crash \/ UNCHANGED tableVars
  BY DEF Next, Dispatch, Leave, Visit, Fail, Resolve, Move, Arrive, Finish, Park, Bind, Ask,
         Rest, Settle, vars
<1> QED BY <1>1, <1>2, <1>3, <1>4, <1>5


\* The types hold (Decision and its table).
THEOREM TypeCorrect == Spec => []TypeOK
PROOF
<1>1. Init => Inv /\ TableInv
  BY InitInv, TableInitInv DEF Init
<1>2. Inv /\ TableInv /\ [Next]_vars => Inv' /\ TableInv'
  BY InvStep, TableStutters, TableStep
<1>3. Inv /\ TableInv => TypeOK
  BY DEF Inv, TypeInv, StateInv, CallInv, TypeOK, TableInv, Key, Call, NoSlot, Seat
<1> QED BY <1>1, <1>2, <1>3, PTL DEF Spec

\* Whatever crashes, a decision in a scope on a node that demands an owner has one
\* that answers for it, and so has one of an instance until a crash
\* (runtime.go:222-228 and 308-326).
THEOREM OwnersAnswer == Spec => []Attributed
PROOF
<1>1. Inv => Attributed
  BY DEF Inv, OwnInv
<1> QED BY InitInv, InvStep, <1>1, PTL DEF Spec

\* Among branches an answer moves only the seat that asked for it, and no request is
\* answered twice (feedAI, runtime.go:722-730).
THEOREM AnswersOnce == Spec => []AnsweredOnce
PROOF
<1>1. Inv => AnsweredOnce
  BY DEF Inv, OnceInv
<1> QED BY InitInv, InvStep, <1>1, PTL DEF Spec

\* A seat that waits is matched with its own open question: the slot is that of its
\* node and what it asks is unanswered; before the first crash every seat waiting at
\* an ai node has a question on record, and no other has one (parkWaiting,
\* emitAIRequest, feedAI).
THEOREM QuestionsMatch == Spec => []Correlated
PROOF
<1>1. ASSUME Inv, call.pc = "idle", NEW s \in Seats, Parked(s)
      PROVE  /\ slot[s] # NoSlot => slot[s].node = at[s]
             /\ slot[s].req # None => \A d \in decided : d.key # slot[s].req
             /\ crashes = 0 => /\ slot[s] # NoSlot <=> at[s] \in Ai
                               /\ slot[s] # NoSlot => slot[s].req \in asked
  <2>1. s \in Seat /\ TypeInv /\ OnceInv /\ MatchInv
    BY <1>1 DEF Inv, Seats, Seat
  <2>2. slot[s] # NoSlot => slot[s].node = at[s]
    BY <2>1 DEF MatchInv
  <2>3. slot[s].req # None => \A d \in decided : d.key # slot[s].req
    BY <1>1, <2>1, DecisionAssumption DEF OnceInv, Parked, Seats
  <2>4. slot[s] # NoSlot => at[s] \in Ai
    <3>1. slot[s].node \in Ai \cup {None} /\ at[s] \in Node \cup {Exit} /\ None \notin Node \cup {Exit}
      BY <2>1, DecisionAssumption DEF TypeInv, StateInv
    <3> QED BY <2>2, <3>1
  <2>5. crashes = 0 /\ at[s] \in Ai => slot[s].req \in asked
    BY <1>1, <2>1, DecisionAssumption DEF MatchInv, Idle, Seat
  <2>6. NoSlot.req \notin asked
    BY <2>1, NoneIsNoKey DEF TypeInv, StateInv, NoSlot
  <2> QED BY <2>2, <2>3, <2>4, <2>5, <2>6
<1>2. Inv => Correlated
  BY <1>1 DEF Correlated
<1> QED BY InitInv, InvStep, <1>2, PTL DEF Spec

\* No request is issued under the key of an earlier one (aiRequestCommandID).
THEOREM RequestsAreFresh == Spec => FreshRequests
PROOF
<1>1. Inv /\ [Next]_vars => [Ask => slot[call.seat].req \notin asked]_vars
  BY DEF Inv, FreshInv, Ask
<1> QED BY InitInv, InvStep, <1>1, PTL DEF Spec, FreshRequests

\* Feed, a crash and a recovery use the table as its own specification allows, so it
\* forgets from the old end only (context.go:209-250).
THEOREM EventsKeepYoungest == Spec => []FoldIsStricter
PROOF
<1>1. Init => Inv /\ TableInv
  BY InitInv, TableInitInv DEF Init
<1>2. Inv /\ TableInv /\ [Next]_vars => Inv' /\ TableInv'
  BY InvStep, TableStutters, TableStep
<1>3. TableInv => FoldIsStricter
  BY DEF TableInv
<1> QED BY <1>1, <1>2, <1>3, PTL DEF Spec

\* Until a crash the events on the ledger are those that moved or failed a seat: what
\* moved nothing was given back, and what moved something is kept until the table has
\* been full (Feed, runtime.go:217-220).
THEOREM EventsAreAccounted == Spec => []EventsAccounted
PROOF
<1>1. Init => Inv /\ TableInv
  BY InitInv, TableInitInv DEF Init
<1>2. Init => LedgerInv
  <2> SUFFICES ASSUME Init PROVE LedgerInv
    OBVIOUS
  <2>1. Moved = {} /\ call.ev = NoEvent /\ call.pc \in {"dispatch", "arrive"} /\ Held(ledger) = {}
    BY DEF Init, TableInit, Held, Empty, Moved, Idle
  <2> QED BY <2>1, FS_EmptySet DEF LedgerInv, Asking, Taken
<1>3. Inv /\ TableInv /\ LedgerInv /\ [Next]_vars => Inv' /\ TableInv' /\ LedgerInv'
  BY InvStep, TableStutters, TableStep, LedgerStep
<1>4. Inv /\ TableInv /\ LedgerInv => EventsAccounted
  <2> SUFFICES ASSUME Inv, TableInv, LedgerInv, call.pc = "idle", crashes = 0
               PROVE  /\ Held(ledger) \subseteq Moved
                      /\ Cardinality(Moved) < Cap => Moved \subseteq Held(ledger)
    BY DEF EventsAccounted, Moved
  <2>1. ~Taken
    BY DEF Inv, MatchInv, Idle, Taken, Asking
  <2> QED BY <2>1, TableOnLedger DEF LedgerInv
<1> QED BY <1>1, <1>2, <1>3, <1>4, PTL DEF Spec
=============================================================================
