--------------------------- MODULE EventTableProofs ---------------------------
(***************************************************************************)
(* The table of consumed events, for every capacity, time to live and set  *)
(* of IDs.  The invariant is FoldIsStricter itself, once the age of every  *)
(* entry on record is known not to lie ahead of the clock.                 *)
(***************************************************************************)
EXTENDS EventTable, TLAPS

\* Nothing on record is from the future.
Past == \A e \in EventId : ledger[e] <= clock

TableInv == TableTypeOK /\ Past /\ FoldIsStricter

\* Entering an ID with the current time keeps the youngest (trackEvent).
LEMMA WithYoungest ==
  ASSUME NEW t \in Table, NEW l \in Table, NEW e \in EventId, NEW now \in Nat \ {0},
         Youngest(t, l), \A d \in EventId : l[d] <= now
  PROVE  /\ With(t, e, now) \in Table
         /\ Youngest(With(t, e, now), With(l, e, now))
PROOF BY DEF Youngest, Held, With, Table

\* So does taking an ID out on both sides (ReleaseEvent).
LEMMA WithoutYoungest ==
  ASSUME NEW t \in Table, NEW l \in Table, NEW e \in EventId, Youngest(t, l)
  PROVE  /\ Without(t, e) \in Table
         /\ Youngest(Without(t, e), Without(l, e))
PROOF BY DEF Youngest, Held, Without, Table

\* A sweep lets the old go first, so it keeps the youngest
\* (sweepProcessedEventsLocked).
LEMMA SweptYoungest ==
  ASSUME NEW t \in Table, NEW l \in Table, NEW now \in Nat, NEW s \in Swept(t, now),
         Youngest(t, l)
  PROVE  s \in Table /\ Youngest(s, l)
PROOF
<1> DEFINE fresh == {e \in Held(t) : ~Expired(t, e, now)}
<1>1. PICK K \in SUBSET fresh : /\ s = Only(t, K)
                                /\ \A e \in fresh \ K, k \in K : t[e] <= t[k]
  BY DEF Swept
<1>2. /\ s \in Table /\ Held(s) = K /\ K \subseteq Held(t)
      /\ \A e \in K : s[e] = t[e]
  BY <1>1 DEF Only, Held, Table
<1>3. ASSUME NEW e \in Held(l) \ Held(s), NEW k \in Held(s)
      PROVE  l[e] <= s[k]
  <2>1. e \in EventId /\ k \in K /\ k \in Held(t) /\ s[k] = t[k]
    BY <1>2 DEF Held
  <2>2. CASE e \notin Held(t)
    BY <2>1, <2>2 DEF Youngest
  <2>3. CASE e \in Held(t) /\ e \in fresh
    BY <1>1, <1>2, <2>1, <2>3 DEF Youngest
  <2>4. CASE e \in Held(t) /\ e \notin fresh
    <3>1. t[e] + TTL <= now /\ ~(t[k] + TTL <= now)
      BY <2>1, <2>4 DEF Expired
    <3>2. t[e] \in Nat /\ t[k] \in Nat /\ TTL \in Nat /\ l[e] = t[e]
      BY <2>1, <2>4, TableAssumption DEF Table, Held, Youngest
    <3> QED BY <3>1, <3>2, <2>1
  <2> QED BY <2>2, <2>3, <2>4
<1> QED BY <1>2, <1>3 DEF Youngest

\* The table starts empty.
LEMMA TableInitInv == TableInit => TableInv
PROOF BY DEF TableInit, TableInv, TableTypeOK, Past, FoldIsStricter, Youngest, Held, Empty, Table

\* Every operation on the table keeps the invariant.
LEMMA TableStep == TableInv /\ [TableNext]_tableVars => TableInv'
PROOF
<1> SUFFICES ASSUME TableInv, [TableNext]_tableVars PROVE TableInv'
  OBVIOUS
<1> USE DEF TableInv, TableTypeOK, FoldIsStricter
<1>1. ASSUME NEW e \in EventId, Consume(e) PROVE TableInv'
  <2>1. PICK s : s \in Table /\ Youngest(s, ledger) /\ table' = With(s, e, clock)
    <3>1. PICK s \in IF Cardinality(Held(table)) >= Cap THEN Swept(table, clock) ELSE {table} :
            table' = With(s, e, clock)
      BY <1>1 DEF Consume, Tracked
    <3>2. s \in Table /\ Youngest(s, ledger)
      BY <3>1, SweptYoungest
    <3> QED BY <3>1, <3>2
  <2>2. (table \in Table /\ Youngest(table, ledger))'
    BY <1>1, <2>1, WithYoungest DEF Consume, Past
  <2>3. (restored \in Table /\ Youngest(restored, ledger))'
    BY <1>1, WithYoungest DEF Consume, Past
  <2>4. (ledger \in Table /\ Past /\ clock \in Nat \ {0})'
    BY <1>1 DEF Consume, Past, With, Table
  <2> QED BY <2>2, <2>3, <2>4
<1>2. ASSUME NEW e \in EventId, Release(e) PROVE TableInv'
  <2>1. (table \in Table /\ restored \in Table /\ FoldIsStricter)'
    BY <1>2, WithoutYoungest DEF Release
  <2>2. (ledger \in Table /\ Past /\ clock \in Nat \ {0})'
    BY <1>2 DEF Release, Past, Without, Table
  <2> QED BY <2>1, <2>2
<1>3. CASE Snapshot
  BY <1>3 DEF Snapshot, Past
<1>4. CASE Rebuild
  BY <1>4 DEF Rebuild, Past, Youngest, Held, Table
<1>5. CASE Tick
  BY <1>5 DEF Tick, Past, Table
<1>6. CASE UNCHANGED tableVars
  BY <1>6 DEF tableVars, Past
<1> QED BY <1>1, <1>2, <1>3, <1>4, <1>5, <1>6 DEF TableNext

\* Whatever is consumed, given back, swept, saved and restored, in any order, the
\* table forgets from the old end only (context.go:209-250).
THEOREM TableKeepsYoungest == TableSpec => [](TableTypeOK /\ FoldIsStricter)
PROOF
<1>1. TableInv => TableTypeOK /\ FoldIsStricter
  BY DEF TableInv
<1> QED BY TableInitInv, TableStep, <1>1, PTL DEF TableSpec
=============================================================================
