------------------------------- MODULE Manager -------------------------------
(***************************************************************************)
(* dsl.Manager: many goroutines, many instances, a journal and a store of  *)
(* summaries that outlive the process.  Every call holds the stripe lock   *)
(* of its instance from load to sync; the sweep lists due summaries first, *)
(* outside every lock, and then takes the instances one by one.  What a    *)
(* call does to its instance is Runtime's business: here it departs from   *)
(* where it stands and comes to rest anywhere, with or without a timer.    *)
(***************************************************************************)
EXTENDS Naturals, FiniteSets

CONSTANTS
  Instance,   \* instance IDs
  Broken,     \* instances whose load fails: definition unknown, journal unreadable
  Worker,     \* goroutines that call the Manager
  Nobody,     \* no goroutine
  Nothing,    \* no instance
  Stripe,     \* the lock stripes
  StripeOf,   \* lockOf
  Never,      \* WakeUpAt = nil
  Limit,      \* the limit of a sweep
  Ordered,    \* ListWakeable orders before it cuts (PostgresInstanceStore), or not
  MaxTime,    \* bound of the model: the clock
  MaxCrash    \* bound of the model: crashes of the process

ASSUME ManagerAssumption ==
  /\ Broken \subseteq Instance /\ Nothing \notin Instance
  /\ Nobody \notin Worker
  /\ StripeOf \in [Instance -> Stripe]
  /\ MaxTime \in Nat /\ Never \notin Nat /\ Limit \in Nat \ {0}
  /\ Ordered \in BOOLEAN /\ MaxCrash \in Nat

VARIABLES
  now,       \* the clock
  run,       \* what the journal of an instance stands for
  rec,       \* its summary in the store
  holder,    \* who holds a stripe
  pc, op, inst, at,  \* of each goroutine: where it is, its call, instance and clock
  mem,       \* ... the context it has loaded
  list,      \* ... the instances it has still to wake
  torn,      \* instances whose last call died before sync
  crashes

workerVars == <<pc, op, inst, at, mem, list>>
vars == <<now, run, rec, holder, workerVars, torn, crashes>>

-----------------------------------------------------------------------------
Time   == 0 .. MaxTime
\* Status and next wake-up, all a summary tells; "none" stands for no journal,
\* no record or no context, "pending" for a record whose instance never began.
State  == [status : {"none", "pending", "running", "waiting", "ended"}, wake : Time \cup {Never}]
Plain(s) == [status |-> s, wake |-> Never]
None   == Plain("none")
Rest   == {[status |-> "waiting", wake |-> t] : t \in {Never} \cup {u \in Time : now < u}}
            \cup {Plain("ended")}

Due(s, t) == s.wake # Never /\ s.wake <= t

\* Broken instances are what an earlier process left: due, and not to be loaded.
Left == [i \in Instance |-> IF i \in Broken THEN [status |-> "waiting", wake |-> 0] ELSE None]

Init ==
  /\ now = 0
  /\ run = Left /\ rec = Left
  /\ holder = [s \in Stripe |-> Nobody]
  /\ pc = [w \in Worker |-> "idle"] /\ op = [w \in Worker |-> "none"]
  /\ inst = [w \in Worker |-> Nothing] /\ at = [w \in Worker |-> 0]
  /\ mem = [w \in Worker |-> None] /\ list = [w \in Worker |-> {}]
  /\ torn = {} /\ crashes = 0

-----------------------------------------------------------------------------
Call(w, o, i) ==
  /\ pc[w] = "idle"
  /\ pc' = [pc EXCEPT ![w] = "lock"]
  /\ op' = [op EXCEPT ![w] = o] /\ inst' = [inst EXCEPT ![w] = i]
  /\ UNCHANGED <<now, run, rec, holder, at, mem, list, torn, crashes>>

\* ListWakeable: waiting, due, and no more than the limit.
Wakeable == {i \in Instance : rec[i].status = "waiting" /\ Due(rec[i], now)}
Listings ==
  {L \in SUBSET Wakeable :
     /\ Cardinality(L) = IF Cardinality(Wakeable) < Limit THEN Cardinality(Wakeable) ELSE Limit
     /\ Ordered => \A i \in L, j \in Wakeable \ L : rec[i].wake <= rec[j].wake}

Sweep(w) ==
  /\ pc[w] = "idle"
  /\ pc' = [pc EXCEPT ![w] = "next"] /\ op' = [op EXCEPT ![w] = "sweep"]
  /\ at' = [at EXCEPT ![w] = now]
  /\ \E L \in Listings : list' = [list EXCEPT ![w] = L]
  /\ UNCHANGED <<now, run, rec, holder, inst, mem, torn, crashes>>

SweepNext(w) ==
  /\ pc[w] = "next"
  /\ \E i \in list[w] :
       /\ list' = [list EXCEPT ![w] = @ \ {i}] /\ inst' = [inst EXCEPT ![w] = i]
  /\ pc' = [pc EXCEPT ![w] = "lock"]
  /\ UNCHANGED <<now, run, rec, holder, op, at, mem, torn, crashes>>

SweepEnds(w) ==
  /\ pc[w] = "next" /\ list[w] = {}
  /\ pc' = [pc EXCEPT ![w] = "idle"] /\ op' = [op EXCEPT ![w] = "none"]
  /\ at' = [at EXCEPT ![w] = 0]
  /\ UNCHANGED <<now, run, rec, holder, inst, mem, list, torn, crashes>>

-----------------------------------------------------------------------------
Entry(w) == IF op[w] = "start" THEN "create" ELSE "load"

\* Mutant: the lock is taken whoever holds it.
LockAnyway(w) ==
  /\ pc[w] = "lock"
  /\ holder' = [holder EXCEPT ![StripeOf[inst[w]]] = w]
  /\ pc' = [pc EXCEPT ![w] = Entry(w)]
  /\ UNCHANGED <<now, run, rec, op, inst, at, mem, list, torn, crashes>>
Lock(w) ==
  /\ pc[w] = "lock" /\ holder[StripeOf[inst[w]]] = Nobody
  /\ holder' = [holder EXCEPT ![StripeOf[inst[w]]] = w]
  /\ pc' = [pc EXCEPT ![w] = Entry(w)]
  /\ UNCHANGED <<now, run, rec, op, inst, at, mem, list, torn, crashes>>

\* The call is over for this instance: the lock is free, and a sweep goes on.
Leave(w) ==
  /\ pc' = [pc EXCEPT ![w] = IF op[w] = "sweep" THEN "next" ELSE "idle"]
  /\ op' = [op EXCEPT ![w] = IF @ = "sweep" THEN @ ELSE "none"]
  /\ inst' = [inst EXCEPT ![w] = Nothing]
  /\ mem' = [mem EXCEPT ![w] = None]
Unlock(w) == holder' = [holder EXCEPT ![StripeOf[inst[w]]] = Nobody]

\* Mutant: an existing record is overwritten.
CreateUpsert(w) ==
  /\ pc[w] = "create"
  /\ rec' = [rec EXCEPT ![inst[w]] = Plain("pending")]
  /\ pc' = [pc EXCEPT ![w] = "begin"]
  /\ UNCHANGED <<now, run, holder, op, inst, at, mem, list, torn, crashes>>
\* Start: CreateInstance is atomic and does not overwrite.
Create(w) ==
  /\ pc[w] = "create" /\ rec[inst[w]] = None
  /\ rec' = [rec EXCEPT ![inst[w]] = Plain("pending")]
  /\ pc' = [pc EXCEPT ![w] = "begin"]
  /\ UNCHANGED <<now, run, holder, op, inst, at, mem, list, torn, crashes>>

CreateExists(w) ==
  /\ pc[w] = "create" /\ rec[inst[w]] # None
  /\ Leave(w) /\ Unlock(w)
  /\ UNCHANGED <<now, run, rec, at, list, torn, crashes>>

\* Every fact goes to the journal and to the context in memory.
Becomes(w, s) == run' = [run EXCEPT ![inst[w]] = s] /\ mem' = [mem EXCEPT ![w] = s]

Begin(w) ==
  /\ pc[w] = "begin"
  /\ Becomes(w, Plain("running"))
  /\ pc' = [pc EXCEPT ![w] = "arrive"]
  /\ UNCHANGED <<now, rec, holder, op, inst, at, list, torn, crashes>>

Unloadable(i) == rec[i] = None \/ i \in Broken

\* Mutants: the lock is kept; the sweep gives up.
LoadFailsLocked(w) ==
  /\ pc[w] = "load" /\ Unloadable(inst[w])
  /\ Leave(w) /\ UNCHANGED holder
  /\ UNCHANGED <<now, run, rec, at, list, torn, crashes>>
LoadFailsSweep(w) ==
  /\ pc[w] = "load" /\ Unloadable(inst[w]) /\ Unlock(w)
  /\ pc' = [pc EXCEPT ![w] = "idle"] /\ op' = [op EXCEPT ![w] = "none"]
  /\ inst' = [inst EXCEPT ![w] = Nothing] /\ list' = [list EXCEPT ![w] = {}]
  /\ at' = [at EXCEPT ![w] = 0]
  /\ UNCHANGED <<now, run, rec, mem, torn, crashes>>
\* load returns an error: no record, an unknown definition, a journal that does not fold.
LoadFails(w) ==
  /\ pc[w] = "load" /\ Unloadable(inst[w])
  /\ Leave(w) /\ Unlock(w)
  /\ UNCHANGED <<now, run, rec, at, list, torn, crashes>>

Load(w) ==
  /\ pc[w] = "load" /\ ~Unloadable(inst[w])
  /\ mem' = [mem EXCEPT ![w] = run[inst[w]]]
  /\ pc' = [pc EXCEPT ![w] = "work"]
  /\ UNCHANGED <<now, run, rec, holder, op, inst, at, list, torn, crashes>>

\* An event or a due slot takes the instance away from where it stands.
Departs(w) ==
  /\ pc[w] = "work"
  /\ \/ op[w] = "feed" /\ mem[w].status \in {"running", "waiting"}
     \/ op[w] = "sweep" /\ Due(mem[w], at[w])
  /\ Becomes(w, Plain("running"))
  /\ pc' = [pc EXCEPT ![w] = "arrive"]
  /\ UNCHANGED <<now, rec, holder, op, inst, at, list, torn, crashes>>

\* The event is refused, nothing is due any more, or Compensate was called.
Stays(w) ==
  /\ pc[w] = "work"
  /\ op[w] = "sweep" => ~Due(mem[w], at[w])
  /\ op[w] = "feed" => mem[w] # None
  /\ pc' = [pc EXCEPT ![w] = "sync"]
  /\ UNCHANGED <<now, run, rec, holder, op, inst, at, mem, list, torn, crashes>>

\* An event for an instance that was created and never began: its context is
\* bound to no instance ID and fails at the empty node, and no fact reaches the
\* instance's journal.
FailsUnborn(w) ==
  /\ pc[w] = "work" /\ op[w] = "feed" /\ mem[w] = None
  /\ mem' = [mem EXCEPT ![w] = Plain("ended")]
  /\ pc' = [pc EXCEPT ![w] = "sync"]
  /\ UNCHANGED <<now, run, rec, holder, op, inst, at, list, torn, crashes>>

Arrives(w) ==
  /\ pc[w] = "arrive"
  /\ \E s \in Rest : Becomes(w, s)
  /\ pc' = [pc EXCEPT ![w] = "sync"]
  /\ UNCHANGED <<now, rec, holder, op, inst, at, list, torn, crashes>>

\* Mutant: a wake-up time is never taken back.
SummaryKept(old, s) == IF s.wake = Never THEN [s EXCEPT !.wake = old.wake] ELSE s
Summary(old, s) == s

Sync(w) ==
  /\ pc[w] = "sync"
  /\ rec' = [rec EXCEPT ![inst[w]] =
               Summary(@, IF mem[w] = None THEN Plain("pending") ELSE mem[w])]
  /\ torn' = torn \ {inst[w]}
  /\ Leave(w) /\ Unlock(w)
  /\ UNCHANGED <<now, run, at, list, crashes>>

Tick == now < MaxTime /\ now' = now + 1
        /\ UNCHANGED <<run, rec, holder, workerVars, torn, crashes>>

\* The process dies and starts again: locks and contexts are gone.
Crash ==
  /\ crashes < MaxCrash /\ \E w \in Worker : pc[w] # "idle"
  /\ crashes' = crashes + 1
  /\ torn' = torn \cup {inst[w] : w \in {v \in Worker : pc[v] \in {"begin", "work", "arrive", "sync"}}}
  /\ holder' = [s \in Stripe |-> Nobody]
  /\ pc' = [w \in Worker |-> "idle"] /\ op' = [w \in Worker |-> "none"]
  /\ inst' = [w \in Worker |-> Nothing] /\ at' = [w \in Worker |-> 0]
  /\ mem' = [w \in Worker |-> None] /\ list' = [w \in Worker |-> {}]
  /\ UNCHANGED <<now, run, rec>>

-----------------------------------------------------------------------------
\* What a goroutine that is in a call does next, once it has its lock.
Goes(w) ==
  \/ SweepNext(w) \/ SweepEnds(w)
  \/ Create(w) \/ CreateExists(w) \/ Begin(w) \/ LoadFails(w) \/ Load(w)
  \/ Departs(w) \/ Stays(w) \/ FailsUnborn(w) \/ Arrives(w) \/ Sync(w)

Next ==
  \/ \E w \in Worker :
       \/ \E o \in {"start", "feed", "compensate"}, i \in Instance : Call(w, o, i)
       \/ Sweep(w) \/ Lock(w) \/ Goes(w)
  \/ Tick \/ Crash

Spec == Init /\ [][Next]_vars

\* A goroutine runs on; a mutex that is free again and again is got in the end
\* (sync.Mutex hands over to a waiter that starves); somebody sweeps again.
FairSpec ==
  /\ Spec
  /\ \A w \in Worker : WF_vars(Goes(w)) /\ SF_vars(Lock(w))
  /\ SF_vars(\E w \in Worker : Sweep(w))

-----------------------------------------------------------------------------
(* Properties. *)

Inside == {"create", "begin", "load", "work", "arrive", "sync"}

\* Every variable keeps to its values, and a stripe is held by the goroutine that
\* is inside a call of one of its instances, and by nobody else (lockOf).
TypeOK ==
  /\ now \in Time /\ run \in [Instance -> State] /\ rec \in [Instance -> State]
  /\ pc \in [Worker -> {"idle", "next", "lock"} \cup Inside]
  /\ op \in [Worker -> {"none", "start", "feed", "compensate", "sweep"}]
  /\ inst \in [Worker -> Instance \cup {Nothing}] /\ at \in [Worker -> Time]
  /\ mem \in [Worker -> State] /\ list \in [Worker -> SUBSET Instance]
  /\ torn \subseteq Instance
  /\ holder \in [Stripe -> Worker \cup {Nobody}]
  /\ \A s \in Stripe, w \in Worker :
       holder[s] = w <=> pc[w] \in Inside /\ StripeOf[inst[w]] = s

\* No call works on a context another call has left behind: between load and sync
\* the context in memory is what the journal stands for (manager.go: the instance
\* lock is held from load to sync, and the sweep loads again after it has listed).
Serialized ==
  \A w \in Worker :
    pc[w] \in {"work", "arrive", "sync"} /\ run[inst[w]] # None => mem[w] = run[inst[w]]

\* Between calls the summary the sweep goes by is that of the journal, unless the
\* last call died before it wrote it (sync).
SummaryIsTrue ==
  \A i \in Instance :
    holder[StripeOf[i]] = Nobody /\ i \notin torn /\ run[i] # None => rec[i] = run[i]

\* However many goroutines start an ID, its journal begins once (CreateInstance).
BegunOnce == [][\A w \in Worker : Begin(w) => run[inst[w]] = None]_vars

\* Every call of the Manager returns (locks are taken one at a time, and given
\* back on every path).
CallsReturn ==
  \A w \in Worker : pc[w] # "idle" ~> pc[w] = "idle"

\* A due instance that can be loaded is woken or moved in the end, whatever state
\* the others are in (WakeDueSweep: a bad instance does not block the rest).
DueIsWoken ==
  \A i \in Instance \ Broken :
    run[i].status = "waiting" /\ Due(run[i], now) /\ i \notin torn
      ~> ~(run[i].status = "waiting" /\ Due(run[i], now)) \/ i \in torn
=============================================================================
