------------------------------ MODULE EventTable ------------------------------
(***************************************************************************)
(* The table of consumed event IDs (dsl/context.go processedEvents).  The  *)
(* live table is swept when it is full: first what is past its time to     *)
(* live, then the oldest entries.  The journal keeps every consumption and *)
(* every release; folding it, or the part after a snapshot, rebuilds a     *)
(* table without sweeping.  A table maps an ID to the time it was consumed *)
(* at, 0 for an ID it does not hold.                                       *)
(***************************************************************************)
EXTENDS Naturals, FiniteSets

CONSTANTS
  EventId,   \* IDs events carry
  Cap,       \* maxProcessedEvents
  TTL,       \* processedEventTTL
  MaxTime    \* bound of the model: the clock

ASSUME TableAssumption == Cap \in Nat \ {0} /\ TTL \in Nat /\ MaxTime \in Nat

VARIABLES
  table,     \* ExecutionContext.processedEvents
  ledger,    \* the table the whole journal folds to
  restored,  \* the table of the latest snapshot with the facts since then
  clock      \* time.Now()

tableVars == <<table, ledger, restored, clock>>

Held(t)       == {e \in EventId : t[e] # 0}
With(t, e, n) == [t EXCEPT ![e] = n]
Without(t, e) == [t EXCEPT ![e] = 0]
Only(t, K)    == [e \in EventId |-> IF e \in K THEN t[e] ELSE 0]
Empty         == [e \in EventId |-> 0]

Expired(t, e, now) == t[e] + TTL <= now

-----------------------------------------------------------------------------
\* Mutant: the newest entries are evicted.
SweptNewest(t, now) ==
  LET fresh == {e \in Held(t) : ~Expired(t, e, now)}
  IN  {Only(t, K) : K \in {L \in SUBSET fresh :
         /\ Cardinality(L) < Cap
         /\ L = fresh \/ Cardinality(L) = Cap - 1
         /\ \A e \in fresh \ L, k \in L : t[k] <= t[e]}}
\* sweepProcessedEventsLocked: what it may leave of a table.  What is past its
\* time goes; of the rest the oldest go until there is room for one more, and of
\* two that are equally old either.
Swept(t, now) ==
  LET fresh == {e \in Held(t) : ~Expired(t, e, now)}
  IN  {Only(t, K) : K \in {L \in SUBSET fresh :
         /\ Cardinality(L) < Cap
         /\ L = fresh \/ Cardinality(L) = Cap - 1
         /\ \A e \in fresh \ L, k \in L : t[e] <= t[k]}}

\* trackEvent: a full table is swept before the ID is entered.
Tracked(t, e, now) ==
  {With(s, e, now) : s \in IF Cardinality(Held(t)) >= Cap THEN Swept(t, now) ELSE {t}}

-----------------------------------------------------------------------------
TableInit == /\ table = Empty /\ ledger = Empty /\ restored = Empty
             /\ clock = 1

\* TryConsumeEvent and AcceptEvent refuse an ID the table holds.
Seen(e) == table[e] # 0

\* AcceptEvent: the ID enters the table and goes on record.
Consume(e) ==
  /\ ~Seen(e)
  /\ table' \in Tracked(table, e, clock)
  /\ ledger' = With(ledger, e, clock) /\ restored' = With(restored, e, clock)
  /\ UNCHANGED clock

\* ReleaseEvent: an event that moved nothing is given back.  The caller releases
\* what it has just consumed, so the table still holds it.
Release(e) ==
  /\ Seen(e)
  /\ table' = Without(table, e)
  /\ ledger' = Without(ledger, e) /\ restored' = Without(restored, e)
  /\ UNCHANGED clock

\* The table as a snapshot keeps it: the live one, swept as it is.
Snapshot == restored' = table /\ UNCHANGED <<table, ledger, clock>>

\* A context rebuilt from the whole journal or from the snapshot.
Rebuild == table' \in {ledger, restored} /\ UNCHANGED <<ledger, restored, clock>>

Tick == clock < MaxTime /\ clock' = clock + 1 /\ UNCHANGED <<table, ledger, restored>>

TableNext == \/ \E e \in EventId : Consume(e) \/ Release(e)
             \/ Snapshot \/ Rebuild \/ Tick

TableSpec == TableInit /\ [][TableNext]_tableVars

-----------------------------------------------------------------------------
(* Properties. *)

Table == [EventId -> Nat]
TableTypeOK == /\ table \in Table /\ ledger \in Table /\ restored \in Table
               /\ clock \in Nat \ {0}

\* Of what l holds, t has lost only the oldest.
Youngest(t, l) ==
  /\ \A e \in Held(t) : t[e] = l[e]
  /\ \A e \in Held(l) \ Held(t), k \in Held(t) : l[e] <= t[k]

\* Sweeping errs on one side only, and at the old end: what the live table or one
\* rebuilt from a snapshot refuses, the whole journal refuses too, and what they
\* have forgotten is no younger than anything they hold (context.go:209-250).
FoldIsStricter == Youngest(table, ledger) /\ Youngest(restored, ledger)
=============================================================================
