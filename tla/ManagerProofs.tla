---------------------------- MODULE ManagerProofs ----------------------------
(***************************************************************************)
(* For every set of instances, goroutines and stripes: a stripe has one    *)
(* holder, what a call has loaded is what the journal stands for, the      *)
(* summary of an instance no call is in is the journal's, and an instance  *)
(* begins once.  All four rest on the stripe lock, so they are proved      *)
(* together, one lemma per kind of step.                                   *)
(***************************************************************************)
EXTENDS Manager, TLAPS

-----------------------------------------------------------------------------
(* The inductive invariant, part by part. *)

\* The two halves of TypeOK: the values, and the lock.
Typed ==
  /\ now \in Time /\ run \in [Instance -> State] /\ rec \in [Instance -> State]
  /\ pc \in [Worker -> {"idle", "next", "lock"} \cup Inside]
  /\ op \in [Worker -> {"none", "start", "feed", "compensate", "sweep"}]
  /\ inst \in [Worker -> Instance \cup {Nothing}] /\ at \in [Worker -> Time]
  /\ mem \in [Worker -> State] /\ list \in [Worker -> SUBSET Instance]
  /\ torn \subseteq Instance
  /\ holder \in [Stripe -> Worker \cup {Nobody}]

Locked ==
  \A s \in Stripe, w \in Worker :
    holder[s] = w <=> pc[w] \in Inside /\ StripeOf[inst[w]] = s

\* A goroutine that waits for a lock or is inside a call has an instance.
Aimed == \A w \in Worker : pc[w] \in Inside \cup {"lock"} => inst[w] \in Instance

\* Between CreateInstance and the first fact there is a record and no journal.
Unbegun ==
  \A w \in Worker : pc[w] = "begin" => run[inst[w]] = None /\ rec[inst[w]] # None

\* What has a journal has a record, so CreateInstance refuses it.
Recorded == \A i \in Instance : run[i] # None => rec[i] # None

\* A call starts from what the journal stands for, and leaves a journal.
Loaded ==
  \A w \in Worker :
    /\ pc[w] = "work" => mem[w] = run[inst[w]]
    /\ pc[w] = "arrive" => run[inst[w]] # None

\* The calls that may leave journal and summary apart, should the process die.
Writing == {"begin", "work", "arrive", "sync"}

\* Outside such calls, and unless one of them died, the summary is the journal's.
Untouched ==
  \A i \in Instance :
    run[i] # None /\ i \notin torn /\ (\A w \in Worker : pc[w] \in Writing => inst[w] # i)
      => rec[i] = run[i]

IInv == Typed /\ Locked /\ Aimed /\ Serialized /\ Unbegun /\ Recorded /\ Loaded /\ Untouched

-----------------------------------------------------------------------------
(* Lemmas. *)

\* A summary of any status without a timer is a State.
LEMMA PlainTypes ==
  \A s \in {"none", "pending", "running", "waiting", "ended"} : Plain(s) \in State
BY DEF Plain, State

\* The statuses tell None from the other summaries.
LEMMA PlainDiffer ==
  /\ None \in State
  /\ Plain("pending") # None /\ Plain("running") # None /\ Plain("ended") # None
BY DEF Plain, State, None

\* Wherever an instance comes to rest, that is a State and not None.
LEMMA RestTypes == Rest \subseteq State /\ None \notin Rest
<1>1. Plain("ended") \in State /\ Plain("ended") # None
  BY PlainTypes, PlainDiffer
<1>2. ASSUME NEW t \in {Never} \cup Time
      PROVE  /\ [status |-> "waiting", wake |-> t] \in State
             /\ [status |-> "waiting", wake |-> t] # None
  BY DEF State, None, Plain
<1> QED BY <1>1, <1>2 DEF Rest

\* A call that may depart has loaded an instance that began.
LEMMA DueIsNotNone == ASSUME NEW t \in Time PROVE ~Due(None, t)
BY DEF Due, None, Plain

\* Two goroutines inside calls on one stripe are one (lockOf).
LEMMA Alone ==
  ASSUME IInv, NEW v \in Worker, NEW w \in Worker,
         pc[v] \in Inside, pc[w] \in Inside, StripeOf[inst[v]] = StripeOf[inst[w]]
  PROVE  v = w
<1>1. inst[w] \in Instance /\ StripeOf[inst[w]] \in Stripe
  BY ManagerAssumption DEF IInv, Aimed
<1> QED BY <1>1 DEF IInv, Locked

\* Inside a call nobody else is inside one of the same instance.
LEMMA AloneAt ==
  ASSUME IInv, NEW v \in Worker, NEW w \in Worker,
         pc[v] \in Inside, pc[w] \in Inside, inst[v] = inst[w]
  PROVE  v = w
BY Alone

-----------------------------------------------------------------------------
(* Each step keeps the invariant. *)

\* A call begins.
LEMMA CallKeeps ==
  ASSUME IInv, NEW w \in Worker, NEW o \in {"start", "feed", "compensate"}, NEW i \in Instance, Call(w, o, i)
  PROVE  IInv'
<1> USE DEF Inside, Writing
<1>1. Typed'
  BY PlainTypes, PlainDiffer, ManagerAssumption DEF IInv, Typed, Aimed, Call
<1>2. Locked'
  BY Alone, ManagerAssumption DEF IInv, Typed, Locked, Aimed, Call
<1>3. Aimed'
  BY DEF IInv, Typed, Aimed, Call
<1>4. Serialized'
  BY AloneAt DEF IInv, Typed, Aimed, Serialized, Loaded, Call
<1>5. Unbegun'
  BY AloneAt, PlainDiffer DEF IInv, Typed, Aimed, Unbegun, Recorded, Call
<1>6. Recorded'
  BY AloneAt, PlainDiffer DEF IInv, Typed, Aimed, Unbegun, Recorded, Loaded, Call
<1>7. Loaded'
  BY AloneAt, PlainDiffer DEF IInv, Typed, Aimed, Loaded, Call
<1>8. Untouched'
  BY AloneAt, PlainDiffer DEF IInv, Typed, Aimed, Serialized, Recorded, Loaded, Untouched, Call
<1> QED BY <1>1, <1>2, <1>3, <1>4, <1>5, <1>6, <1>7, <1>8 DEF IInv

\* A sweep lists the instances due now.
LEMMA SweepKeeps ==
  ASSUME IInv, NEW w \in Worker, Sweep(w)
  PROVE  IInv'
<1> USE DEF Inside, Writing
<1>1. Typed'
  BY PlainTypes, PlainDiffer, ManagerAssumption DEF IInv, Typed, Aimed, Sweep, Listings, Wakeable
<1>2. Locked'
  BY Alone, ManagerAssumption DEF IInv, Typed, Locked, Aimed, Sweep, Listings, Wakeable
<1>3. Aimed'
  BY DEF IInv, Typed, Aimed, Sweep, Listings, Wakeable
<1>4. Serialized'
  BY AloneAt DEF IInv, Typed, Aimed, Serialized, Loaded, Sweep, Listings, Wakeable
<1>5. Unbegun'
  BY AloneAt, PlainDiffer DEF IInv, Typed, Aimed, Unbegun, Recorded, Sweep, Listings, Wakeable
<1>6. Recorded'
  BY AloneAt, PlainDiffer DEF IInv, Typed, Aimed, Unbegun, Recorded, Loaded, Sweep, Listings, Wakeable
<1>7. Loaded'
  BY AloneAt, PlainDiffer DEF IInv, Typed, Aimed, Loaded, Sweep, Listings, Wakeable
<1>8. Untouched'
  BY AloneAt, PlainDiffer DEF IInv, Typed, Aimed, Serialized, Recorded, Loaded, Untouched, Sweep, Listings, Wakeable
<1> QED BY <1>1, <1>2, <1>3, <1>4, <1>5, <1>6, <1>7, <1>8 DEF IInv

\* It takes one of them.
LEMMA SweepNextKeeps ==
  ASSUME IInv, NEW w \in Worker, SweepNext(w)
  PROVE  IInv'
<1> USE DEF Inside, Writing
<1>1. Typed'
  BY PlainTypes, PlainDiffer, ManagerAssumption DEF IInv, Typed, Aimed, SweepNext
<1>2. Locked'
  BY Alone, ManagerAssumption DEF IInv, Typed, Locked, Aimed, SweepNext
<1>3. Aimed'
  BY DEF IInv, Typed, Aimed, SweepNext
<1>4. Serialized'
  BY AloneAt DEF IInv, Typed, Aimed, Serialized, Loaded, SweepNext
<1>5. Unbegun'
  BY AloneAt, PlainDiffer DEF IInv, Typed, Aimed, Unbegun, Recorded, SweepNext
<1>6. Recorded'
  BY AloneAt, PlainDiffer DEF IInv, Typed, Aimed, Unbegun, Recorded, Loaded, SweepNext
<1>7. Loaded'
  BY AloneAt, PlainDiffer DEF IInv, Typed, Aimed, Loaded, SweepNext
<1>8. Untouched'
  BY AloneAt, PlainDiffer DEF IInv, Typed, Aimed, Serialized, Recorded, Loaded, Untouched, SweepNext
<1> QED BY <1>1, <1>2, <1>3, <1>4, <1>5, <1>6, <1>7, <1>8 DEF IInv

\* It has none left.
LEMMA SweepEndsKeeps ==
  ASSUME IInv, NEW w \in Worker, SweepEnds(w)
  PROVE  IInv'
<1> USE DEF Inside, Writing
<1>1. Typed'
  BY PlainTypes, PlainDiffer, ManagerAssumption DEF IInv, Typed, Aimed, SweepEnds, Time
<1>2. Locked'
  BY Alone, ManagerAssumption DEF IInv, Typed, Locked, Aimed, SweepEnds, Time
<1>3. Aimed'
  BY DEF IInv, Typed, Aimed, SweepEnds, Time
<1>4. Serialized'
  BY AloneAt DEF IInv, Typed, Aimed, Serialized, Loaded, SweepEnds, Time
<1>5. Unbegun'
  BY AloneAt, PlainDiffer DEF IInv, Typed, Aimed, Unbegun, Recorded, SweepEnds, Time
<1>6. Recorded'
  BY AloneAt, PlainDiffer DEF IInv, Typed, Aimed, Unbegun, Recorded, Loaded, SweepEnds, Time
<1>7. Loaded'
  BY AloneAt, PlainDiffer DEF IInv, Typed, Aimed, Loaded, SweepEnds, Time
<1>8. Untouched'
  BY AloneAt, PlainDiffer DEF IInv, Typed, Aimed, Serialized, Recorded, Loaded, Untouched, SweepEnds, Time
<1> QED BY <1>1, <1>2, <1>3, <1>4, <1>5, <1>6, <1>7, <1>8 DEF IInv

\* The stripe is free and taken.
LEMMA LockKeeps ==
  ASSUME IInv, NEW w \in Worker, Lock(w)
  PROVE  IInv'
<1> USE DEF Inside, Writing
<1>1. Typed'
  BY PlainTypes, PlainDiffer, ManagerAssumption DEF IInv, Typed, Aimed, Lock, Entry
<1>2. Locked'
  BY Alone, ManagerAssumption DEF IInv, Typed, Locked, Aimed, Lock, Entry
<1>3. Aimed'
  BY DEF IInv, Typed, Aimed, Lock, Entry
<1>4. Serialized'
  BY AloneAt DEF IInv, Typed, Aimed, Serialized, Loaded, Lock, Entry
<1>5. Unbegun'
  BY AloneAt, PlainDiffer DEF IInv, Typed, Aimed, Unbegun, Recorded, Lock, Entry
<1>6. Recorded'
  BY AloneAt, PlainDiffer DEF IInv, Typed, Aimed, Unbegun, Recorded, Loaded, Lock, Entry
<1>7. Loaded'
  BY AloneAt, PlainDiffer DEF IInv, Typed, Aimed, Loaded, Lock, Entry
<1>8. Untouched'
  BY AloneAt, PlainDiffer DEF IInv, Typed, Aimed, Serialized, Recorded, Loaded, Untouched, Lock, Entry
<1> QED BY <1>1, <1>2, <1>3, <1>4, <1>5, <1>6, <1>7, <1>8 DEF IInv

\* CreateInstance writes a record where there was none.
LEMMA CreateKeeps ==
  ASSUME IInv, NEW w \in Worker, Create(w)
  PROVE  IInv'
<1> USE DEF Inside, Writing
<1>1. Typed'
  BY PlainTypes, PlainDiffer, ManagerAssumption DEF IInv, Typed, Aimed, Create
<1>2. Locked'
  BY Alone, ManagerAssumption DEF IInv, Typed, Locked, Aimed, Create
<1>3. Aimed'
  BY DEF IInv, Typed, Aimed, Create
<1>4. Serialized'
  BY AloneAt DEF IInv, Typed, Aimed, Serialized, Loaded, Create
<1>5. Unbegun'
  BY AloneAt, PlainDiffer DEF IInv, Typed, Aimed, Unbegun, Recorded, Create
<1>6. Recorded'
  BY AloneAt, PlainDiffer DEF IInv, Typed, Aimed, Unbegun, Recorded, Loaded, Create
<1>7. Loaded'
  BY AloneAt, PlainDiffer DEF IInv, Typed, Aimed, Loaded, Create
<1>8. Untouched'
  BY AloneAt, PlainDiffer DEF IInv, Typed, Aimed, Serialized, Recorded, Loaded, Untouched, Create
<1> QED BY <1>1, <1>2, <1>3, <1>4, <1>5, <1>6, <1>7, <1>8 DEF IInv

\* CreateInstance finds a record.
LEMMA CreateExistsKeeps ==
  ASSUME IInv, NEW w \in Worker, CreateExists(w)
  PROVE  IInv'
<1> USE DEF Inside, Writing
<1>1. Typed'
  BY PlainTypes, PlainDiffer, ManagerAssumption DEF IInv, Typed, Aimed, CreateExists, Leave, Unlock
<1>2. Locked'
  BY Alone, ManagerAssumption DEF IInv, Typed, Locked, Aimed, CreateExists, Leave, Unlock
<1>3. Aimed'
  BY DEF IInv, Typed, Aimed, CreateExists, Leave, Unlock
<1>4. Serialized'
  BY AloneAt DEF IInv, Typed, Aimed, Serialized, Loaded, CreateExists, Leave, Unlock
<1>5. Unbegun'
  BY AloneAt, PlainDiffer DEF IInv, Typed, Aimed, Unbegun, Recorded, CreateExists, Leave, Unlock
<1>6. Recorded'
  BY AloneAt, PlainDiffer DEF IInv, Typed, Aimed, Unbegun, Recorded, Loaded, CreateExists, Leave, Unlock
<1>7. Loaded'
  BY AloneAt, PlainDiffer DEF IInv, Typed, Aimed, Loaded, CreateExists, Leave, Unlock
<1>8. Untouched'
  BY AloneAt, PlainDiffer DEF IInv, Typed, Aimed, Serialized, Recorded, Loaded, Untouched, CreateExists, Leave, Unlock
<1> QED BY <1>1, <1>2, <1>3, <1>4, <1>5, <1>6, <1>7, <1>8 DEF IInv

\* The first fact.
LEMMA BeginKeeps ==
  ASSUME IInv, NEW w \in Worker, Begin(w)
  PROVE  IInv'
<1> USE DEF Inside, Writing
<1>1. Typed'
  BY PlainTypes, PlainDiffer, ManagerAssumption DEF IInv, Typed, Aimed, Begin, Becomes
<1>2. Locked'
  BY Alone, ManagerAssumption DEF IInv, Typed, Locked, Aimed, Begin, Becomes
<1>3. Aimed'
  BY DEF IInv, Typed, Aimed, Begin, Becomes
<1>4. Serialized'
  BY AloneAt DEF IInv, Typed, Aimed, Serialized, Loaded, Begin, Becomes
<1>5. Unbegun'
  BY AloneAt, PlainDiffer DEF IInv, Typed, Aimed, Unbegun, Recorded, Begin, Becomes
<1>6. Recorded'
  BY AloneAt, PlainDiffer DEF IInv, Typed, Aimed, Unbegun, Recorded, Loaded, Begin, Becomes
<1>7. Loaded'
  BY AloneAt, PlainDiffer DEF IInv, Typed, Aimed, Loaded, Begin, Becomes
<1>8. Untouched'
  BY AloneAt, PlainDiffer DEF IInv, Typed, Aimed, Serialized, Recorded, Loaded, Untouched, Begin, Becomes
<1> QED BY <1>1, <1>2, <1>3, <1>4, <1>5, <1>6, <1>7, <1>8 DEF IInv

\* load fails, and the lock is given back.
LEMMA LoadFailsKeeps ==
  ASSUME IInv, NEW w \in Worker, LoadFails(w)
  PROVE  IInv'
<1> USE DEF Inside, Writing
<1>1. Typed'
  BY PlainTypes, PlainDiffer, ManagerAssumption DEF IInv, Typed, Aimed, LoadFails, Leave, Unlock
<1>2. Locked'
  BY Alone, ManagerAssumption DEF IInv, Typed, Locked, Aimed, LoadFails, Leave, Unlock
<1>3. Aimed'
  BY DEF IInv, Typed, Aimed, LoadFails, Leave, Unlock
<1>4. Serialized'
  BY AloneAt DEF IInv, Typed, Aimed, Serialized, Loaded, LoadFails, Leave, Unlock
<1>5. Unbegun'
  BY AloneAt, PlainDiffer DEF IInv, Typed, Aimed, Unbegun, Recorded, LoadFails, Leave, Unlock
<1>6. Recorded'
  BY AloneAt, PlainDiffer DEF IInv, Typed, Aimed, Unbegun, Recorded, Loaded, LoadFails, Leave, Unlock
<1>7. Loaded'
  BY AloneAt, PlainDiffer DEF IInv, Typed, Aimed, Loaded, LoadFails, Leave, Unlock
<1>8. Untouched'
  BY AloneAt, PlainDiffer DEF IInv, Typed, Aimed, Serialized, Recorded, Loaded, Untouched, LoadFails, Leave, Unlock
<1> QED BY <1>1, <1>2, <1>3, <1>4, <1>5, <1>6, <1>7, <1>8 DEF IInv

\* load folds the journal into the context.
LEMMA LoadKeeps ==
  ASSUME IInv, NEW w \in Worker, Load(w)
  PROVE  IInv'
<1> USE DEF Inside, Writing
<1>1. Typed'
  BY PlainTypes, PlainDiffer, ManagerAssumption DEF IInv, Typed, Aimed, Load, Unloadable
<1>2. Locked'
  BY Alone, ManagerAssumption DEF IInv, Typed, Locked, Aimed, Load, Unloadable
<1>3. Aimed'
  BY DEF IInv, Typed, Aimed, Load, Unloadable
<1>4. Serialized'
  BY AloneAt DEF IInv, Typed, Aimed, Serialized, Loaded, Load, Unloadable
<1>5. Unbegun'
  BY AloneAt, PlainDiffer DEF IInv, Typed, Aimed, Unbegun, Recorded, Load, Unloadable
<1>6. Recorded'
  BY AloneAt, PlainDiffer DEF IInv, Typed, Aimed, Unbegun, Recorded, Loaded, Load, Unloadable
<1>7. Loaded'
  BY AloneAt, PlainDiffer DEF IInv, Typed, Aimed, Loaded, Load, Unloadable
<1>8. Untouched'
  BY AloneAt, PlainDiffer DEF IInv, Typed, Aimed, Serialized, Recorded, Loaded, Untouched, Load, Unloadable
<1> QED BY <1>1, <1>2, <1>3, <1>4, <1>5, <1>6, <1>7, <1>8 DEF IInv

\* A fact takes the instance away, in journal and context.
LEMMA DepartsKeeps ==
  ASSUME IInv, NEW w \in Worker, Departs(w)
  PROVE  IInv'
<1> USE DEF Inside, Writing
<1>1. Typed'
  BY PlainTypes, PlainDiffer, ManagerAssumption DEF IInv, Typed, Aimed, Departs, Becomes
<1>2. Locked'
  BY Alone, ManagerAssumption DEF IInv, Typed, Locked, Aimed, Departs, Becomes
<1>3. Aimed'
  BY DEF IInv, Typed, Aimed, Departs, Becomes
<1>4. Serialized'
  BY AloneAt DEF IInv, Typed, Aimed, Serialized, Loaded, Departs, Becomes
<1>5. Unbegun'
  BY AloneAt, PlainDiffer DEF IInv, Typed, Aimed, Unbegun, Recorded, Departs, Becomes
<1>6. Recorded'
  <2>1. mem[w] # None
    BY DueIsNotNone DEF IInv, Typed, Departs, None, Plain
  <2>2. inst[w] \in Instance /\ mem[w] = run[inst[w]] /\ rec[inst[w]] # None
    BY <2>1 DEF IInv, Aimed, Recorded, Loaded, Departs
  <2> QED BY <2>2 DEF IInv, Typed, Recorded, Departs, Becomes
<1>7. Loaded'
  BY AloneAt, PlainDiffer DEF IInv, Typed, Aimed, Loaded, Departs, Becomes
<1>8. Untouched'
  BY AloneAt, PlainDiffer DEF IInv, Typed, Aimed, Serialized, Recorded, Loaded, Untouched, Departs, Becomes
<1> QED BY <1>1, <1>2, <1>3, <1>4, <1>5, <1>6, <1>7, <1>8 DEF IInv

\* Nothing happens to the instance.
LEMMA StaysKeeps ==
  ASSUME IInv, NEW w \in Worker, Stays(w)
  PROVE  IInv'
<1> USE DEF Inside, Writing
<1>1. Typed'
  BY PlainTypes, PlainDiffer, ManagerAssumption DEF IInv, Typed, Aimed, Stays
<1>2. Locked'
  BY Alone, ManagerAssumption DEF IInv, Typed, Locked, Aimed, Stays
<1>3. Aimed'
  BY DEF IInv, Typed, Aimed, Stays
<1>4. Serialized'
  BY AloneAt DEF IInv, Typed, Aimed, Serialized, Loaded, Stays
<1>5. Unbegun'
  BY AloneAt, PlainDiffer DEF IInv, Typed, Aimed, Unbegun, Recorded, Stays
<1>6. Recorded'
  BY AloneAt, PlainDiffer DEF IInv, Typed, Aimed, Unbegun, Recorded, Loaded, Stays
<1>7. Loaded'
  BY AloneAt, PlainDiffer DEF IInv, Typed, Aimed, Loaded, Stays
<1>8. Untouched'
  BY AloneAt, PlainDiffer DEF IInv, Typed, Aimed, Serialized, Recorded, Loaded, Untouched, Stays
<1> QED BY <1>1, <1>2, <1>3, <1>4, <1>5, <1>6, <1>7, <1>8 DEF IInv

\* A context of no instance fails.
LEMMA FailsUnbornKeeps ==
  ASSUME IInv, NEW w \in Worker, FailsUnborn(w)
  PROVE  IInv'
<1> USE DEF Inside, Writing
<1>1. Typed'
  BY PlainTypes, PlainDiffer, ManagerAssumption DEF IInv, Typed, Aimed, FailsUnborn
<1>2. Locked'
  BY Alone, ManagerAssumption DEF IInv, Typed, Locked, Aimed, FailsUnborn
<1>3. Aimed'
  BY DEF IInv, Typed, Aimed, FailsUnborn
<1>4. Serialized'
  BY AloneAt DEF IInv, Typed, Aimed, Serialized, Loaded, FailsUnborn
<1>5. Unbegun'
  BY AloneAt, PlainDiffer DEF IInv, Typed, Aimed, Unbegun, Recorded, FailsUnborn
<1>6. Recorded'
  BY AloneAt, PlainDiffer DEF IInv, Typed, Aimed, Unbegun, Recorded, Loaded, FailsUnborn
<1>7. Loaded'
  BY AloneAt, PlainDiffer DEF IInv, Typed, Aimed, Loaded, FailsUnborn
<1>8. Untouched'
  BY AloneAt, PlainDiffer DEF IInv, Typed, Aimed, Serialized, Recorded, Loaded, Untouched, FailsUnborn
<1> QED BY <1>1, <1>2, <1>3, <1>4, <1>5, <1>6, <1>7, <1>8 DEF IInv

\* A fact brings the instance to rest, in journal and context.
LEMMA ArrivesKeeps ==
  ASSUME IInv, NEW w \in Worker, Arrives(w)
  PROVE  IInv'
<1> USE DEF Inside, Writing
<1>1. Typed'
  BY PlainTypes, PlainDiffer, ManagerAssumption, RestTypes DEF IInv, Typed, Aimed, Arrives, Becomes
<1>2. Locked'
  BY Alone, ManagerAssumption, RestTypes DEF IInv, Typed, Locked, Aimed, Arrives, Becomes
<1>3. Aimed'
  BY RestTypes DEF IInv, Typed, Aimed, Arrives, Becomes
<1>4. Serialized'
  BY AloneAt, RestTypes DEF IInv, Typed, Aimed, Serialized, Loaded, Arrives, Becomes
<1>5. Unbegun'
  BY AloneAt, PlainDiffer, RestTypes DEF IInv, Typed, Aimed, Unbegun, Recorded, Arrives, Becomes
<1>6. Recorded'
  BY AloneAt, PlainDiffer, RestTypes DEF IInv, Typed, Aimed, Unbegun, Recorded, Loaded, Arrives, Becomes
<1>7. Loaded'
  BY AloneAt, PlainDiffer, RestTypes DEF IInv, Typed, Aimed, Loaded, Arrives, Becomes
<1>8. Untouched'
  BY AloneAt, PlainDiffer, RestTypes DEF IInv, Typed, Aimed, Serialized, Recorded, Loaded, Untouched, Arrives, Becomes
<1> QED BY <1>1, <1>2, <1>3, <1>4, <1>5, <1>6, <1>7, <1>8 DEF IInv

\* The summary is written and the lock given back.
LEMMA SyncKeeps ==
  ASSUME IInv, NEW w \in Worker, Sync(w)
  PROVE  IInv'
<1> USE DEF Inside, Writing
<1>1. Typed'
  BY PlainTypes, PlainDiffer, ManagerAssumption DEF IInv, Typed, Aimed, Sync, Leave, Unlock, Summary
<1>2. Locked'
  BY Alone, ManagerAssumption DEF IInv, Typed, Locked, Aimed, Sync, Leave, Unlock, Summary
<1>3. Aimed'
  BY DEF IInv, Typed, Aimed, Sync, Leave, Unlock, Summary
<1>4. Serialized'
  BY AloneAt DEF IInv, Typed, Aimed, Serialized, Loaded, Sync, Leave, Unlock, Summary
<1>5. Unbegun'
  BY AloneAt, PlainDiffer DEF IInv, Typed, Aimed, Unbegun, Recorded, Sync, Leave, Unlock, Summary
<1>6. Recorded'
  BY AloneAt, PlainDiffer DEF IInv, Typed, Aimed, Unbegun, Recorded, Loaded, Sync, Leave, Unlock, Summary
<1>7. Loaded'
  BY AloneAt, PlainDiffer DEF IInv, Typed, Aimed, Loaded, Sync, Leave, Unlock, Summary
<1>8. Untouched'
  BY AloneAt, PlainDiffer DEF IInv, Typed, Aimed, Serialized, Recorded, Loaded, Untouched, Sync, Leave, Unlock, Summary
<1> QED BY <1>1, <1>2, <1>3, <1>4, <1>5, <1>6, <1>7, <1>8 DEF IInv

\* Time passes.
LEMMA TickKeeps == ASSUME IInv, Tick PROVE IInv'
<1>1. Typed'
  BY ManagerAssumption DEF IInv, Typed, Tick, Time, workerVars
<1> QED BY <1>1 DEF IInv, Locked, Aimed, Serialized, Unbegun, Recorded, Loaded, Untouched, Tick, workerVars

\* The process dies: what was being written is torn, and nobody is in a call.
LEMMA CrashKeeps == ASSUME IInv, Crash PROVE IInv'
<1> USE DEF Inside, Writing
<1>1. \A w \in Worker : pc'[w] = "idle"
  BY DEF Crash
<1>2. {inst[w] : w \in {v \in Worker : pc[v] \in {"begin", "work", "arrive", "sync"}}} \subseteq Instance
  BY DEF IInv, Aimed
<1>3. Typed'
  BY <1>2, PlainDiffer, ManagerAssumption DEF IInv, Typed, Crash, Time
<1>4. Locked'
  BY <1>1, ManagerAssumption DEF Locked, Crash
<1>5. Aimed' /\ Serialized' /\ Unbegun' /\ Loaded'
  BY <1>1 DEF Aimed, Serialized, Unbegun, Loaded
<1>6. Recorded'
  BY DEF IInv, Recorded, Crash
<1>7. Untouched'
  BY DEF IInv, Untouched, Crash
<1> QED BY <1>3, <1>4, <1>5, <1>6, <1>7 DEF IInv

-----------------------------------------------------------------------------
(* The theorems. *)

\* What an earlier process left satisfies the invariant.
LEMMA InitKeeps == Init => IInv
<1> SUFFICES ASSUME Init PROVE IInv
  OBVIOUS
<1>1. 0 \in Time
  BY ManagerAssumption DEF Time
<1>2. Left \in [Instance -> State]
  BY <1>1, PlainDiffer DEF Left, State
<1>3. Typed
  BY <1>1, <1>2, PlainDiffer DEF Init, Typed
<1>4. Locked /\ Aimed /\ Serialized /\ Unbegun /\ Loaded
  BY ManagerAssumption DEF Init, Locked, Aimed, Serialized, Unbegun, Loaded, Inside
<1>5. Recorded /\ Untouched
  BY DEF Init, Recorded, Untouched
<1> QED BY <1>3, <1>4, <1>5 DEF IInv

\* Every step of every goroutine, of the clock and the death of the process.
LEMMA NextKeeps == IInv /\ [Next]_vars => IInv'
<1> SUFFICES ASSUME IInv, [Next]_vars PROVE IInv'
  OBVIOUS
<1>1. ASSUME NEW w \in Worker, Goes(w) PROVE IInv'
  BY <1>1, SweepNextKeeps, SweepEndsKeeps, CreateKeeps, CreateExistsKeeps, BeginKeeps, LoadFailsKeeps, LoadKeeps, DepartsKeeps, StaysKeeps, FailsUnbornKeeps, ArrivesKeeps, SyncKeeps DEF Goes
<1>2. ASSUME NEW w \in Worker, Sweep(w) \/ Lock(w) PROVE IInv'
  BY <1>2, SweepKeeps, LockKeeps
<1>3. ASSUME NEW w \in Worker, NEW o \in {"start", "feed", "compensate"}, NEW i \in Instance, Call(w, o, i)
      PROVE  IInv'
  BY <1>3, CallKeeps
<1>4. CASE Tick \/ Crash
  BY <1>4, TickKeeps, CrashKeeps
<1>5. CASE UNCHANGED vars
  BY <1>5 DEF IInv, Typed, Locked, Aimed, Serialized, Unbegun, Recorded, Loaded, Untouched, vars, workerVars
<1> QED BY <1>1, <1>2, <1>3, <1>4, <1>5 DEF Next

\* The invariant holds in every state (Manager: one stripe lock per instance, held
\* from load to sync).
THEOREM InvariantHolds == Spec => []IInv
<1> QED BY InitKeeps, NextKeeps, PTL DEF Spec

\* Every variable keeps to its values and a stripe is held by the one goroutine
\* that is inside a call of one of its instances (lockOf).
THEOREM TypeCorrect == Spec => []TypeOK
<1>1. IInv => TypeOK
  BY DEF IInv, Typed, Locked, TypeOK
<1> QED BY <1>1, InvariantHolds, PTL

\* Between load and sync a context is what the journal stands for (Manager.load).
THEOREM CallsSerialized == Spec => []Serialized
<1>1. IInv => Serialized
  BY DEF IInv
<1> QED BY <1>1, InvariantHolds, PTL

\* Between calls the summary of an instance is its journal's (Manager.sync).
THEOREM SummariesTrue == Spec => []SummaryIsTrue
<1>1. IInv => SummaryIsTrue
  <2> SUFFICES ASSUME IInv, NEW i \in Instance,
                      holder[StripeOf[i]] = Nobody, i \notin torn, run[i] # None
               PROVE  rec[i] = run[i]
    BY DEF SummaryIsTrue
  <2>1. StripeOf[i] \in Stripe
    BY ManagerAssumption
  <2>2. \A w \in Worker : pc[w] \in Writing => inst[w] # i
    BY <2>1, ManagerAssumption DEF IInv, Locked, Writing, Inside
  <2> QED BY <2>2 DEF IInv, Untouched
<1> QED BY <1>1, InvariantHolds, PTL

\* The journal of an instance begins once (Manager.Start, CreateInstance).
THEOREM BeginsOnce == Spec => BegunOnce
<1>1. IInv => \A w \in Worker : Begin(w) => run[inst[w]] = None
  BY DEF IInv, Unbegun, Begin
<1>2. IInv => [\A w \in Worker : Begin(w) => run[inst[w]] = None]_vars
  BY <1>1
<1> QED BY <1>2, InvariantHolds, PTL DEF BegunOnce
=============================================================================
