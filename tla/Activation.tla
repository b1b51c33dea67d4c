----------------------------- MODULE Activation -----------------------------
(***************************************************************************)
(* The versions of one process definition and how they become active:      *)
(* DefinitionRegistry (registry.go) and Activator (activation.go) with the *)
(* journal they share.  Registry and activator live in memory; the journal *)
(* outlives the process.                                                   *)
(*                                                                         *)
(* Activate reads the registry before it takes the activator's lock, and   *)
(* appends its fact before it changes its state, so a registration,        *)
(* another activation, a refused append or the death of the process can    *)
(* come between any two of these.  A version is a number, the place of its *)
(* name in the order of names; a content is known by its hash.             *)
(***************************************************************************)
EXTENDS Integers, FiniteSets, SequencesExt

CONSTANTS
  Version,    \* the versions of the definition
  Hash,       \* the contents a version may be registered with
  Person,     \* proposers, owners and acting principals
  Caller,     \* goroutines that call Activate
  Nothing,    \* nil, or an empty name
  MaxTime,    \* bound: readings of the clock
  MaxCrash    \* bound: restarts of the process

ASSUME VersionAssumption == Version \subseteq Nat
ASSUME NothingAssumption == Nothing \notin Person /\ Nothing \notin Caller
ASSUME BoundAssumption == MaxTime \in Nat /\ MaxCrash \in Nat

VARIABLES
  entries,    \* DefinitionRegistry.byID: version -> entry, or Nothing
  order,      \* DefinitionRegistry.idOrders: the sorted list of versions
  states,     \* Activator.states: version -> active state, or Nothing
  holder,     \* who holds Activator.mu for writing, or Nothing
  call,       \* the call each goroutine is in
  journal,    \* the facts def_activated, in the order of the ledger
  born,       \* facts on record when this process started
  now,        \* the clock
  crashes     \* restarts so far

vars == <<entries, order, states, holder, call, journal, born, now, crashes>>

Entry == [hash : Hash, proposer : Person \cup {Nothing}, owner : Person \cup {Nothing}]

\* An ActivationState whose status is active; draft is the absence of one.
State == [version : Version, hash : Hash, proposer : Person, owner : Person,
          by : Person, at : 0..MaxTime]

\* nil is neither.
ASSUME NilAssumption == Nothing \notin Entry /\ Nothing \notin State

Idle == [at |-> "idle"]

Calls ==
  {Idle}
  \cup [at : {"gate"}, version : Version, actor : Person]
  \cup [at : {"lock"}, version : Version, actor : Person, entry : Entry]
  \cup [at : {"append", "flip"}, next : State]

NoVersions == [v \in Version |-> Nothing]

Init ==
  /\ entries = NoVersions
  /\ order = <<>>
  /\ states = NoVersions
  /\ holder = Nothing
  /\ call = [w \in Caller |-> Idle]
  /\ journal = <<>>
  /\ born = 0
  /\ now = 0
  /\ crashes = 0

-----------------------------------------------------------------------------
(* The registry.  A version that is registered is never written again: the *)
(* same content is answered with the entry there is, another is refused.   *)

\* Mutant: the entry is overwritten.
RegisterAnyway(v, e) ==
  /\ entries' = [entries EXCEPT ![v] = e]
  /\ order' = IF entries[v] = Nothing THEN SortSeq(Append(order, v), <) ELSE order
  /\ UNCHANGED <<states, holder, call, journal, born, now, crashes>>

RegisterVersion(v, e) ==
  /\ entries[v] = Nothing
  /\ entries' = [entries EXCEPT ![v] = e]
  /\ order' = SortSeq(Append(order, v), <)
  /\ UNCHANGED <<states, holder, call, journal, born, now, crashes>>

-----------------------------------------------------------------------------
(* Activate, one step for each thing another goroutine can see.            *)

Becomes(w, c) == call' = [call EXCEPT ![w] = c]

\* The first gate, passed: the actor has an identity.
Activate(w, v, p) ==
  /\ call[w] = Idle
  /\ p # Nothing
  /\ Becomes(w, [at |-> "gate", version |-> v, actor |-> p])
  /\ UNCHANGED <<entries, order, states, holder, journal, born, now, crashes>>

Attributed(e) == e # Nothing /\ e.proposer # Nothing /\ e.owner # Nothing

\* GetVersion and the attribution gate, before the activator's lock is asked for.
Gate(w) ==
  /\ call[w].at = "gate"
  /\ LET c == call[w]
         e == entries[c.version]
     IN  Becomes(w, IF Attributed(e)
                    THEN [at |-> "lock", version |-> c.version, actor |-> c.actor, entry |-> e]
                    ELSE Idle)
  /\ UNCHANGED <<entries, order, states, holder, journal, born, now, crashes>>

\* The state the version will have, as of now.
Proposed(c) ==
  [version |-> c.version, hash |-> c.entry.hash, proposer |-> c.entry.proposer,
   owner |-> c.entry.owner, by |-> c.actor, at |-> now]

\* Mutant: the state is not looked at again under the lock.
LockBlindly(w) ==
  /\ call[w].at = "lock"
  /\ holder = Nothing
  /\ holder' = w
  /\ Becomes(w, [at |-> "append", next |-> Proposed(call[w])])
  /\ UNCHANGED <<entries, order, states, journal, born, now, crashes>>

\* The lock is taken for a version that is a draft still.
LockDraft(w) ==
  /\ call[w].at = "lock"
  /\ holder = Nothing
  /\ states[call[w].version] = Nothing
  /\ holder' = w
  /\ Becomes(w, [at |-> "append", next |-> Proposed(call[w])])
  /\ UNCHANGED <<entries, order, states, journal, born, now, crashes>>

\* Somebody activated the version first: that state is the answer.
LockActive(w) ==
  /\ call[w].at = "lock"
  /\ holder = Nothing
  /\ states[call[w].version] # Nothing
  /\ Becomes(w, Idle)
  /\ UNCHANGED <<entries, order, states, holder, journal, born, now, crashes>>

\* The fact is on record.
Record(w) ==
  /\ call[w].at = "append"
  /\ journal' = Append(journal, call[w].next)
  /\ Becomes(w, [call[w] EXCEPT !.at = "flip"])
  /\ UNCHANGED <<entries, order, states, holder, born, now, crashes>>

\* Mutant: the state changes although the fact is not on record.
RefusedFlips(w) ==
  /\ call[w].at = "append"
  /\ states' = [states EXCEPT ![call[w].next.version] = call[w].next]
  /\ holder' = Nothing
  /\ Becomes(w, Idle)
  /\ UNCHANGED <<entries, order, journal, born, now, crashes>>

\* The journal refuses the fact: the activation fails and nothing has changed.
Refused(w) ==
  /\ call[w].at = "append"
  /\ holder' = Nothing
  /\ Becomes(w, Idle)
  /\ UNCHANGED <<entries, order, states, journal, born, now, crashes>>

\* The state follows the fact.
Flip(w) ==
  /\ call[w].at = "flip"
  /\ states' = [states EXCEPT ![call[w].next.version] = call[w].next]
  /\ holder' = Nothing
  /\ Becomes(w, Idle)
  /\ UNCHANGED <<entries, order, journal, born, now, crashes>>

-----------------------------------------------------------------------------
Tick ==
  /\ now < MaxTime
  /\ now' = now + 1
  /\ UNCHANGED <<entries, order, states, holder, call, journal, born, crashes>>

\* The process dies and starts again with an empty registry and activator.
Crash ==
  /\ crashes < MaxCrash
  /\ crashes' = crashes + 1
  /\ entries' = NoVersions
  /\ order' = <<>>
  /\ states' = NoVersions
  /\ holder' = Nothing
  /\ call' = [w \in Caller |-> Idle]
  /\ born' = Len(journal)
  /\ UNCHANGED <<journal, now>>

Next ==
  \/ \E v \in Version, e \in Entry : RegisterVersion(v, e)
  \/ \E w \in Caller, v \in Version, p \in Person \cup {Nothing} : Activate(w, v, p)
  \/ \E w \in Caller : Gate(w)
  \/ \E w \in Caller : LockDraft(w)
  \/ \E w \in Caller : LockActive(w)
  \/ \E w \in Caller : Record(w)
  \/ \E w \in Caller : Refused(w)
  \/ \E w \in Caller : Flip(w)
  \/ Tick
  \/ Crash

Spec == Init /\ [][Next]_vars

-----------------------------------------------------------------------------
(* foldActivation: the last fact of a version is its state.                *)

FactsOf(v) == {i \in DOMAIN journal : journal[i].version = v}

foldActivation(v) ==
  IF FactsOf(v) = {} THEN Nothing
  ELSE journal[CHOOSE i \in FactsOf(v) : \A j \in FactsOf(v) : j <= i]

\* The facts this process has put on record.
Mine == {i \in DOMAIN journal : i > born}

Registered == {v \in Version : entries[v] # Nothing}

-----------------------------------------------------------------------------
(* Properties.                                                             *)

\* The values the variables take; the cached list names what is registered.
TypeOK ==
  /\ entries \in [Version -> Entry \cup {Nothing}]
  /\ order \in Seq(Version) /\ ToSet(order) = Registered
  /\ states \in [Version -> State \cup {Nothing}]
  /\ holder \in Caller \cup {Nothing}
  /\ call \in [Caller -> Calls]
  /\ journal \in Seq(State)
  /\ born \in Nat
  /\ now \in 0..MaxTime
  /\ crashes \in 0..MaxCrash

\* A version that is active in memory is what the fold of the whole ledger says,
\* field by field, also when an earlier process activated it before; and what
\* this process put on record is active as soon as its lock is free (fact first,
\* and never a fact without its state while the process lives).
LiveIsLatest ==
  /\ \A v \in Version : states[v] # Nothing => states[v] = foldActivation(v)
  /\ holder = Nothing => \A i \in Mine : states[journal[i].version] = journal[i]

\* However many callers activate a version at once, a process puts one fact of
\* it on record, and the first activator and hour are kept.
OneFact ==
  \A i, j \in Mine : journal[i].version = journal[j].version => i = j

\* Every fact of this process tells the hash, proposer and owner the registry
\* has for the version to this day, although they were read before the lock.
Accountable ==
  \A i \in Mine :
    LET f == journal[i]
        e == entries[f.version]
    IN  e # Nothing /\ f.hash = e.hash /\ f.proposer = e.proposer /\ f.owner = e.owner

=============================================================================
