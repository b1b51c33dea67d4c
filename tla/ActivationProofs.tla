-------------------------- MODULE ActivationProofs --------------------------
(***************************************************************************)
(* For every set of versions, contents, people and goroutines: what is     *)
(* active is the last fact on record, a process puts one fact of a version *)
(* on record, and each says what the registry says.                        *)
(*                                                                         *)
(* The three hold together.  A fact and its state are written apart, so    *)
(* the invariant speaks of the call that stands between them; that there   *)
(* is one such call at most is the activator's lock.                       *)
(***************************************************************************)
EXTENDS Activation, TLAPS

-----------------------------------------------------------------------------
(* The inductive invariant, part by part. *)

\* What the steps read and write, the sorted list apart.
Typed ==
  /\ entries \in [Version -> Entry \cup {Nothing}]
  /\ states \in [Version -> State \cup {Nothing}]
  /\ call \in [Caller -> Calls]
  /\ journal \in Seq(State)
  /\ born \in 0..Len(journal)
  /\ now \in 0..MaxTime

\* The holder of the lock is the goroutine between the check and the flip.
Locked == \A w \in Caller : call[w].at \in {"append", "flip"} <=> holder = w

\* Fact or state f says what the registry says.
Tells(f) ==
  /\ entries[f.version] # Nothing
  /\ f.hash = entries[f.version].hash
  /\ f.proposer = entries[f.version].proposer
  /\ f.owner = entries[f.version].owner

\* The entry that was read before the lock is the registry's still.
Current(c) ==
  /\ c.at = "lock" => Attributed(c.entry) /\ entries[c.version] = c.entry
  /\ c.at \in {"append", "flip"} => Tells(c.next)

Read == \A w \in Caller : Current(call[w])

\* Until the flip the version is a draft; until the append it has no fact either,
\* and between the two the last fact is the one that is about to be its state.
Midway ==
  \A w \in Caller :
    /\ call[w].at \in {"append", "flip"} => states[call[w].next.version] = Nothing
    /\ call[w].at = "append" => \A i \in Mine : journal[i].version # call[w].next.version
    /\ call[w].at = "flip" => Len(journal) \in Mine /\ journal[Len(journal)] = call[w].next

\* What is active was put on record by this process.
OnRecord ==
  \A v \in Version : states[v] # Nothing =>
    states[v].version = v /\ \E i \in Mine : journal[i] = states[v]

\* What this process put on record is active, or about to be.
Carried ==
  \A i \in Mine :
    \/ states[journal[i].version] = journal[i]
    \/ i = Len(journal) /\ \E w \in Caller : call[w].at = "flip"

IInv ==
  Typed /\ Locked /\ Read /\ Midway /\ OnRecord /\ Carried /\ OneFact /\ Accountable

-----------------------------------------------------------------------------
(* Lemmas. *)

\* The places of a call, and the fields each has.
LEMMA CallFields ==
  ASSUME NEW c \in Calls
  PROVE  /\ c.at \in {"idle", "gate", "lock", "append", "flip"}
         /\ c.at = "idle" => c = Idle
         /\ c.at = "gate" => c.version \in Version /\ c.actor \in Person
         /\ c.at = "lock" => c.version \in Version /\ c.actor \in Person /\ c.entry \in Entry
         /\ c.at \in {"append", "flip"} => c.next \in State
BY DEF Calls, Idle

\* A call that proposes a state from an attributed entry.
LEMMA ProposedType ==
  ASSUME now \in 0..MaxTime, NEW c \in Calls, c.at = "lock", Attributed(c.entry)
  PROVE  /\ Proposed(c) \in State
         /\ [at |-> "append", next |-> Proposed(c)] \in Calls
<1>1. c.version \in Version /\ c.actor \in Person /\ c.entry \in Entry
  BY CallFields
<1>2. c.entry.hash \in Hash /\ c.entry.proposer \in Person /\ c.entry.owner \in Person
  BY <1>1 DEF Entry, Attributed
<1>3. Proposed(c) \in State
  BY <1>1, <1>2 DEF Proposed, State
<1> QED BY <1>3 DEF Calls

\* Two goroutines that are past the check are one.
LEMMA Alone ==
  ASSUME Locked, NEW v \in Caller, NEW w \in Caller,
         call[v].at \in {"append", "flip"}, call[w].at \in {"append", "flip"}
  PROVE  v = w
BY DEF Locked

\* A fact of this process is a state of a version.
LEMMA FactTypes ==
  ASSUME Typed, NEW i \in Mine
  PROVE  /\ i \in 1..Len(journal) /\ i > born
         /\ journal[i] \in State /\ journal[i].version \in Version
<1>1. i \in 1..Len(journal) /\ i > born
  BY DEF Mine, Typed
<1>2. journal[i] \in State
  BY <1>1 DEF Typed
<1> QED BY <1>1, <1>2 DEF State

\* When the ledger and the process's start are as they were, so are its facts.
LEMMA SameMine == UNCHANGED <<journal, born>> => Mine' = Mine
BY DEF Mine

-----------------------------------------------------------------------------
(* Each step keeps the invariant. *)

\* A new entry: no call has read this version, and no fact is of it.
LEMMA RegisterKeeps ==
  ASSUME IInv, NEW v \in Version, NEW e \in Entry, RegisterVersion(v, e)
  PROVE  IInv'
<1>1. Mine' = Mine
  BY SameMine DEF RegisterVersion
<1>2. Typed'
  BY DEF IInv, Typed, RegisterVersion
<1>3. \A u \in Version : entries[u] # Nothing => entries'[u] = entries[u]
  BY DEF IInv, Typed, RegisterVersion
<1>4. Read'
  <2>1. ASSUME NEW w \in Caller PROVE Current(call[w])'
    <3>1. call' = call /\ call[w] \in Calls /\ Current(call[w])
      BY DEF RegisterVersion, IInv, Typed, Read
    <3>2. call[w].at = "lock" => call[w].version \in Version
      BY <3>1, CallFields
    <3>3. call[w].at \in {"append", "flip"} => call[w].next.version \in Version
      BY <3>1, CallFields DEF State
    <3> QED BY <1>3, <3>1, <3>2, <3>3 DEF Current, Tells, Attributed
  <2> QED BY <2>1 DEF Read
<1>5. Accountable'
  <2>1. \A i \in Mine : journal[i].version \in Version /\ entries[journal[i].version] # Nothing
    BY FactTypes DEF IInv, Accountable
  <2>2. \A i \in Mine : entries'[journal[i].version] = entries[journal[i].version]
    BY <1>3, <2>1
  <2>3. journal' = journal
    BY DEF RegisterVersion
  <2> QED BY <1>1, <2>2, <2>3 DEF IInv, Accountable
<1>6. Locked' /\ Midway' /\ OnRecord' /\ Carried' /\ OneFact'
  BY <1>1 DEF IInv, Locked, Midway, OnRecord, Carried, OneFact, RegisterVersion
<1> QED BY <1>2, <1>4, <1>5, <1>6 DEF IInv

\* A goroutine that moves on its own, without lock, ledger or state.
LEMMA AsideKeeps ==
  ASSUME IInv, NEW w \in Caller, NEW c \in Calls,
         call[w].at \notin {"append", "flip"}, c.at \notin {"append", "flip"},
         c.at = "lock" => Attributed(c.entry) /\ entries[c.version] = c.entry,
         Becomes(w, c),
         UNCHANGED <<entries, states, holder, journal, born, now>>
  PROVE  IInv'
<1>1. Mine' = Mine
  BY SameMine
<1>2. call' \in [Caller -> Calls] /\ call'[w] = c /\ \A u \in Caller \ {w} : call'[u] = call[u]
  BY DEF IInv, Typed, Becomes
<1>3. Typed'
  BY <1>2 DEF IInv, Typed
<1>4. Locked'
  BY <1>2 DEF IInv, Locked
<1>5. Read'
  BY <1>2 DEF IInv, Read, Current, Tells
<1>6. Midway'
  BY <1>1, <1>2 DEF IInv, Midway
<1>7. OnRecord' /\ OneFact' /\ Accountable'
  BY <1>1 DEF IInv, OnRecord, OneFact, Accountable
<1>8. Carried'
  BY <1>1, <1>2 DEF IInv, Carried
<1> QED BY <1>3, <1>4, <1>5, <1>6, <1>7, <1>8 DEF IInv

\* The lock is taken for a draft, and its state proposed.
LEMMA LockDraftKeeps ==
  ASSUME IInv, NEW w \in Caller, LockDraft(w)
  PROVE  IInv'
<1> DEFINE c == [at |-> "append", next |-> Proposed(call[w])]
<1>1. Mine' = Mine
  BY SameMine DEF LockDraft
<1>2. call[w] \in Calls /\ call[w].at = "lock" /\ Current(call[w])
  BY DEF IInv, Typed, Read, LockDraft
<1>3. call[w].version \in Version /\ c \in Calls /\ Proposed(call[w]) \in State
  BY <1>2, CallFields, ProposedType DEF IInv, Typed, Current
<1>4. call' \in [Caller -> Calls] /\ call'[w] = c /\ \A u \in Caller \ {w} : call'[u] = call[u]
  BY <1>3 DEF IInv, Typed, Becomes, LockDraft
<1>5. Typed'
  BY <1>4 DEF IInv, Typed, LockDraft
<1>6. \A u \in Caller : call[u].at \notin {"append", "flip"}
  BY NothingAssumption DEF IInv, Locked, LockDraft
<1>7. Locked'
  BY <1>4, <1>6 DEF Locked, LockDraft
<1>8. Read'
  <2>1. Tells(Proposed(call[w]))
    BY <1>2 DEF Current, Tells, Proposed, Attributed
  <2> QED BY <1>4, <2>1 DEF IInv, Read, Current, Tells, LockDraft
<1>9. \A i \in Mine : states[journal[i].version] = journal[i]
  BY <1>6 DEF IInv, Carried
<1>10. Midway'
  <2>1. \A i \in Mine : journal[i].version # call[w].version
    BY <1>9, FactTypes, NilAssumption DEF IInv, LockDraft
  <2>2. c.next.version = call[w].version
    BY DEF Proposed
  <2> QED BY <1>1, <1>4, <1>6, <2>1, <2>2 DEF Midway, LockDraft
<1>11. Carried'
  BY <1>1, <1>9 DEF Carried, LockDraft
<1>12. OnRecord' /\ OneFact' /\ Accountable'
  BY <1>1 DEF IInv, OnRecord, OneFact, Accountable, LockDraft
<1> QED BY <1>5, <1>7, <1>8, <1>10, <1>11, <1>12 DEF IInv

\* The fact is appended: it is the version's first of this process.
LEMMA RecordKeeps ==
  ASSUME IInv, NEW w \in Caller, Record(w)
  PROVE  IInv'
<1> DEFINE f == call[w].next
           n == Len(journal) + 1
<1>1. call[w] \in Calls /\ call[w].at = "append" /\ f \in State
  BY CallFields DEF IInv, Typed, Record
<1>2. [call[w] EXCEPT !.at = "flip"] = [at |-> "flip", next |-> f]
  BY <1>1 DEF Calls, Idle
<1>3. call' \in [Caller -> Calls] /\ call'[w] = [at |-> "flip", next |-> f]
      /\ \A u \in Caller \ {w} : call'[u] = call[u]
  BY <1>1, <1>2 DEF IInv, Typed, Becomes, Record, Calls
<1>4. /\ journal' \in Seq(State) /\ Len(journal') = n /\ journal'[n] = f
      /\ \A i \in 1..Len(journal) : journal'[i] = journal[i]
  BY <1>1 DEF IInv, Typed, Record
<1>5. Mine' = Mine \cup {n} /\ n \notin Mine /\ \A i \in Mine : journal'[i] = journal[i]
  BY <1>4 DEF IInv, Typed, Mine, Record
<1>6. Typed'
  BY <1>3, <1>4 DEF IInv, Typed, Record
<1>7. \A u \in Caller \ {w} : call[u].at \notin {"append", "flip"}
  BY <1>1, Alone DEF IInv
<1>8. Locked'
  BY <1>1, <1>3 DEF IInv, Locked, Record
<1>9. Read'
  BY <1>1, <1>3 DEF IInv, Read, Current, Tells, Record
<1>10. states[f.version] = Nothing /\ \A i \in Mine : journal[i].version # f.version
  BY <1>1 DEF IInv, Midway
<1>11. Midway'
  BY <1>3, <1>4, <1>5, <1>7, <1>10 DEF Midway, Record
<1>12. OnRecord'
  <2> SUFFICES ASSUME NEW v \in Version, states[v] # Nothing
               PROVE  states[v].version = v /\ \E i \in Mine' : journal'[i] = states[v]
    BY DEF OnRecord, Record
  <2>1. states[v].version = v /\ \E i \in Mine : journal[i] = states[v]
    BY DEF IInv, OnRecord
  <2> QED BY <1>5, <2>1
<1>13. \A i \in Mine : states[journal[i].version] = journal[i]
  BY <1>1, <1>7 DEF IInv, Carried
<1>14. Carried'
  <2>1. \A i \in Mine : states'[journal'[i].version] = journal'[i]
    BY <1>5, <1>13 DEF Record
  <2>2. n = Len(journal') /\ call'[w].at = "flip"
    BY <1>3, <1>4
  <2> QED BY <1>5, <2>1, <2>2 DEF Carried
<1>15. OneFact'
  BY <1>4, <1>5, <1>10 DEF IInv, OneFact
<1>16. Accountable'
  <2>1. Tells(f)
    BY <1>1 DEF IInv, Read, Current
  <2>2. entries' = entries
    BY DEF Record
  <2>3. \A i \in Mine : Tells(journal[i])
    BY DEF IInv, Accountable, Tells
  <2>4. \A i \in Mine' : Tells(journal'[i])
    BY <1>4, <1>5, <2>1, <2>3
  <2> QED BY <2>2, <2>4 DEF Accountable, Tells
<1> QED BY <1>6, <1>8, <1>9, <1>11, <1>12, <1>14, <1>15, <1>16 DEF IInv

\* The append is refused: the version is a draft and has no fact.
LEMMA RefusedKeeps ==
  ASSUME IInv, NEW w \in Caller, Refused(w)
  PROVE  IInv'
<1>1. Mine' = Mine
  BY SameMine DEF Refused
<1>2. call' \in [Caller -> Calls] /\ call'[w] = Idle /\ \A u \in Caller \ {w} : call'[u] = call[u]
  BY DEF IInv, Typed, Becomes, Refused, Calls
<1>3. Typed'
  BY <1>2 DEF IInv, Typed, Refused
<1>4. \A u \in Caller : call[u].at # "flip"
  BY Alone DEF IInv, Refused
<1>5. \A u \in Caller : call'[u].at \notin {"append", "flip"}
  BY <1>2, Alone DEF IInv, Refused, Idle
<1>6. Locked' /\ Midway'
  BY <1>5, NothingAssumption DEF Locked, Midway, Refused
<1>7. Read'
  BY <1>2 DEF IInv, Read, Current, Tells, Idle, Refused
<1>8. Carried'
  BY <1>1, <1>4 DEF IInv, Carried, Refused
<1>9. OnRecord' /\ OneFact' /\ Accountable'
  BY <1>1 DEF IInv, OnRecord, OneFact, Accountable, Refused
<1> QED BY <1>3, <1>6, <1>7, <1>8, <1>9 DEF IInv

\* The state becomes the fact that was appended.
LEMMA FlipKeeps ==
  ASSUME IInv, NEW w \in Caller, Flip(w)
  PROVE  IInv'
<1> DEFINE f == call[w].next
<1>1. Mine' = Mine
  BY SameMine DEF Flip
<1>2. call[w] \in Calls /\ call[w].at = "flip" /\ f \in State /\ f.version \in Version
  BY CallFields DEF IInv, Typed, Flip, State
<1>3. call' \in [Caller -> Calls] /\ call'[w] = Idle /\ \A u \in Caller \ {w} : call'[u] = call[u]
  BY DEF IInv, Typed, Becomes, Flip, Calls
<1>4. states' \in [Version -> State \cup {Nothing}] /\ states'[f.version] = f
      /\ \A v \in Version \ {f.version} : states'[v] = states[v]
  BY <1>2 DEF IInv, Typed, Flip
<1>5. Typed'
  BY <1>3, <1>4 DEF IInv, Typed, Flip
<1>6. \A u \in Caller : call'[u].at \notin {"append", "flip"}
  BY <1>2, <1>3, Alone DEF IInv, Idle
<1>7. Locked' /\ Midway'
  BY <1>6, NothingAssumption DEF Locked, Midway, Flip
<1>8. Read'
  BY <1>3 DEF IInv, Read, Current, Tells, Idle, Flip
<1>9. Len(journal) \in Mine /\ journal[Len(journal)] = f /\ states[f.version] = Nothing
  BY <1>2 DEF IInv, Midway
<1>10. OnRecord'
  BY <1>1, <1>4, <1>9 DEF IInv, OnRecord, Flip
<1>11. Carried'
  <2> SUFFICES ASSUME NEW i \in Mine PROVE states'[journal[i].version] = journal[i]
    BY <1>1 DEF Carried, Flip
  <2>1. CASE journal[i].version = f.version
    <3>1. i = Len(journal)
      BY <1>9, <2>1 DEF IInv, OneFact
    <3> QED BY <3>1, <1>4, <1>9
  <2>2. CASE journal[i].version # f.version
    <3>1. states[journal[i].version] = journal[i]
      BY <1>9, <2>2 DEF IInv, Carried
    <3>2. journal[i].version \in Version
      BY FactTypes DEF IInv
    <3> QED BY <1>4, <2>2, <3>1, <3>2
  <2> QED BY <2>1, <2>2
<1>12. OneFact' /\ Accountable'
  BY <1>1 DEF IInv, OneFact, Accountable, Flip
<1> QED BY <1>5, <1>7, <1>8, <1>10, <1>11, <1>12 DEF IInv

\* A process that starts has nothing active and no fact of its own.
LEMMA CrashKeeps == ASSUME IInv, Crash PROVE IInv'
<1>1. Mine' = {}
  BY DEF IInv, Typed, Mine, Crash
<1>2. Typed'
  BY DEF IInv, Typed, Crash, NoVersions, Calls
<1>3. \A u \in Caller : call'[u] = Idle
  BY DEF Crash
<1>4. Locked' /\ Read' /\ Midway'
  BY <1>3, NothingAssumption DEF Locked, Read, Current, Midway, Crash, Idle
<1>5. OnRecord'
  BY DEF OnRecord, Crash, NoVersions
<1>6. Carried' /\ OneFact' /\ Accountable'
  BY <1>1 DEF Carried, OneFact, Accountable
<1> QED BY <1>2, <1>4, <1>5, <1>6 DEF IInv
-----------------------------------------------------------------------------
(* The theorems. *)

\* A process that starts with an empty ledger.
LEMMA InitKeeps == Init => IInv
<1> SUFFICES ASSUME Init PROVE IInv
  OBVIOUS
<1>1. Mine = {}
  BY DEF Init, Mine
<1>2. Typed
  BY BoundAssumption DEF Init, Typed, NoVersions, Calls
<1>3. Locked /\ Read /\ Midway /\ OnRecord
  BY NothingAssumption DEF Init, Locked, Read, Current, Midway, OnRecord, Idle, NoVersions
<1>4. Carried /\ OneFact /\ Accountable
  BY <1>1 DEF Carried, OneFact, Accountable
<1> QED BY <1>2, <1>3, <1>4 DEF IInv

\* Every step of every goroutine, of the clock and the death of the process.
LEMMA NextKeeps == IInv /\ [Next]_vars => IInv'
<1> SUFFICES ASSUME IInv, [Next]_vars PROVE IInv'
  OBVIOUS
<1>1. ASSUME NEW v \in Version, NEW e \in Entry, RegisterVersion(v, e) PROVE IInv'
  BY <1>1, RegisterKeeps
<1>2. ASSUME NEW w \in Caller, NEW v \in Version, NEW p \in Person \cup {Nothing}, Activate(w, v, p)
      PROVE  IInv'
  <2> DEFINE c == [at |-> "gate", version |-> v, actor |-> p]
  <2>1. c \in Calls
    BY <1>2 DEF Activate, Calls
  <2>2. call[w].at = "idle"
    BY <1>2 DEF Activate, Idle
  <2> QED BY <1>2, <2>1, <2>2, AsideKeeps DEF Activate
<1>3. ASSUME NEW w \in Caller, Gate(w) PROVE IInv'
  <2> DEFINE e == entries[call[w].version]
             c == [at |-> "lock", version |-> call[w].version, actor |-> call[w].actor, entry |-> e]
  <2>1. call[w] \in Calls /\ call[w].at = "gate"
    BY <1>3 DEF IInv, Typed, Gate
  <2>2. call[w].version \in Version /\ call[w].actor \in Person
    BY <2>1, CallFields
  <2>3. CASE Attributed(e)
    <3>1. e \in Entry
      BY <2>2, <2>3 DEF IInv, Typed, Attributed
    <3>2. c \in Calls
      BY <2>2, <3>1 DEF Calls
    <3>3. Becomes(w, c)
      BY <1>3, <2>3 DEF Gate
    <3> QED BY <1>3, <2>1, <2>3, <3>2, <3>3, AsideKeeps DEF Gate
  <2>4. CASE ~Attributed(e)
    <3>1. Becomes(w, Idle)
      BY <1>3, <2>4 DEF Gate
    <3>2. Idle \in Calls /\ Idle.at = "idle"
      BY DEF Calls, Idle
    <3> QED BY <1>3, <2>1, <3>1, <3>2, AsideKeeps DEF Gate
  <2> QED BY <2>3, <2>4
<1>4. ASSUME NEW w \in Caller, LockActive(w) PROVE IInv'
  <2>1. Idle \in Calls /\ Idle.at = "idle"
    BY DEF Calls, Idle
  <2> QED BY <1>4, <2>1, AsideKeeps DEF LockActive
<1>5. ASSUME NEW w \in Caller, LockDraft(w) \/ Record(w) \/ Refused(w) \/ Flip(w) PROVE IInv'
  BY <1>5, LockDraftKeeps, RecordKeeps, RefusedKeeps, FlipKeeps
<1>6. CASE Tick
  <2>1. Mine' = Mine
    BY <1>6, SameMine DEF Tick
  <2>2. Typed'
    BY <1>6, BoundAssumption DEF IInv, Typed, Tick
  <2> QED BY <1>6, <2>1, <2>2 DEF IInv, Tick, Locked, Read, Current, Tells, Midway, OnRecord,
             Carried, OneFact, Accountable
<1>7. CASE Crash
  BY <1>7, CrashKeeps
<1>8. CASE UNCHANGED vars
  <2>1. Mine' = Mine
    BY <1>8, SameMine DEF vars
  <2> QED BY <1>8, <2>1 DEF IInv, vars, Typed, Locked, Read, Current, Tells, Midway, OnRecord,
             Carried, OneFact, Accountable
<1> QED BY <1>1, <1>2, <1>3, <1>4, <1>5, <1>6, <1>7, <1>8 DEF Next

\* The invariant holds in every state of every process on the ledger.
THEOREM InvariantHolds == Spec => []IInv
<1> QED BY InitKeeps, NextKeeps, PTL DEF Spec

\* A version is activated once in the life of a process (Activate: activating it
\* again is idempotent and puts no second fact on record).
THEOREM OneFactHolds == Spec => []OneFact
<1>1. IInv => OneFact
  BY DEF IInv
<1> QED BY <1>1, InvariantHolds, PTL

\* Facts say what the registry says (Activate reads it before the lock; a version
\* that is registered is never overwritten).
THEOREM AccountableHolds == Spec => []Accountable
<1>1. IInv => Accountable
  BY DEF IInv
<1> QED BY <1>1, InvariantHolds, PTL

\* Of an active version the fold of the ledger finds the state (foldActivation).
LEMMA FoldFinds ==
  ASSUME IInv, NEW v \in Version, states[v] # Nothing
  PROVE  states[v] = foldActivation(v)
<1>1. PICK i \in Mine : journal[i] = states[v]
  BY DEF IInv, OnRecord
<1>2. journal[i].version = v /\ i \in 1..Len(journal) /\ i > born
  BY <1>1, FactTypes DEF IInv, OnRecord
<1>3. i \in FactsOf(v) /\ \A j \in FactsOf(v) : j \in 1..Len(journal)
  BY <1>2 DEF FactsOf, IInv, Typed
<1>4. \A j \in FactsOf(v) : j <= i
  <2> SUFFICES ASSUME NEW j \in FactsOf(v), ~(j <= i) PROVE FALSE
    OBVIOUS
  <2>1. j \in Mine
    BY <1>2, <1>3 DEF Mine, FactsOf, IInv, Typed
  <2>2. journal[j].version = journal[i].version
    BY <1>2 DEF FactsOf
  <2>3. j = i
    BY <2>1, <2>2 DEF IInv, OneFact
  <2> QED BY <1>2, <2>3
<1> DEFINE k == CHOOSE j \in FactsOf(v) : \A l \in FactsOf(v) : l <= j
<1>5. k \in FactsOf(v) /\ i <= k
  BY <1>3, <1>4
<1>6. k = i
  <2>1. k <= i /\ k \in 1..Len(journal)
    BY <1>3, <1>4, <1>5
  <2>2. i \in Int /\ k \in Int
    BY <1>2, <2>1
  <2> HIDE DEF k
  <2> QED BY <1>5, <2>1, <2>2
<1> QED BY <1>1, <1>3, <1>6 DEF foldActivation

\* Active in memory is what the ledger folds to, and what is on record is active
\* (Activate: the fact first, then the state).
THEOREM LiveIsLatestHolds == Spec => []LiveIsLatest
<1>1. IInv => LiveIsLatest
  <2> SUFFICES ASSUME IInv PROVE LiveIsLatest
    OBVIOUS
  <2>1. \A v \in Version : states[v] # Nothing => states[v] = foldActivation(v)
    BY FoldFinds
  <2>2. ASSUME holder = Nothing, NEW i \in Mine
        PROVE  states[journal[i].version] = journal[i]
    <3>1. \A w \in Caller : call[w].at # "flip"
      BY <2>2, NothingAssumption DEF IInv, Locked
    <3> QED BY <3>1 DEF IInv, Carried
  <2> QED BY <2>1, <2>2 DEF LiveIsLatest
<1> QED BY <1>1, InvariantHolds, PTL

=============================================================================
