---------------------------- MODULE ResourcePool ----------------------------
(***************************************************************************)
(* util.ResourcePool (internal/util/resource_pool.go): the bounded pool of *)
(* reusable resources behind the WebRTC VAD instances and the connections  *)
(* of the edge_offline speech provider.                                    *)
(*                                                                         *)
(* The pool has two structures.  The map `resources` holds everything the  *)
(* pool manages and is only used under the mutex; the channel `available`  *)
(* holds the idle resources and Acquire receives from it WITHOUT the       *)
(* mutex.  What Acquire does between that receive and the moment it marks  *)
(* the resource as in use is therefore open to every other operation.      *)
(*                                                                         *)
(* Resources are numbered in the order of their creation.  The constructor *)
(* either returns the state of Init or no pool.                            *)
(***************************************************************************)
EXTENDS Naturals, Sequences, FiniteSets

CONSTANTS
  Users,             \* goroutines that use the pool
  MaxSize,           \* config.MaxSize at construction: the channel's capacity
  MinSize,           \* config.MinSize
  MaxIdle,           \* config.MaxIdle
  ValidateOnBorrow,  \* config.ValidateOnBorrow
  ValidateOnReturn,  \* config.ValidateOnReturn
  Sizes,             \* the values Resize is called with
  MaxCreated         \* bound: resources created in a behaviour

ASSUME ConfigAssumption ==
  /\ MaxSize \in Nat \ {0} /\ MinSize \in 0 .. MaxSize /\ MaxIdle \in Nat
  /\ ValidateOnBorrow \in BOOLEAN /\ ValidateOnReturn \in BOOLEAN
ASSUME SizesAssumption == Sizes \subseteq Nat \ {0}
ASSUME BoundAssumption == MaxCreated \in Nat /\ MinSize <= MaxCreated

VARIABLES
  resources,  \* p.resources
  inUse,      \* pooled.inUse
  available,  \* p.available
  maxSize,    \* p.config.MaxSize
  created,    \* number of resources created
  broken,     \* the resources whose IsValid is false
  user,       \* per user: its step and its resource, 0 for none
  closer,     \* the progress of Close; p.closed holds from its first step on
  cleaner,    \* the clean-up goroutine
  spinning,   \* Resize does not leave its loop, and holds the mutex
  careless    \* history: a user has released a resource twice or not at all

poolVars == <<resources, inUse, available, maxSize, created, broken>>
vars == <<poolVars, user, closer, cleaner, spinning, careless>>

Ids == 1 .. MaxCreated
Steps == {"idle", "select", "create", "check", "mark", "using", "again", "panicked"}

TypeOK ==
  /\ resources \subseteq Ids
  /\ inUse \in [Ids -> BOOLEAN]
  /\ available \in Seq(Ids)
  /\ maxSize \in Nat \ {0}
  /\ created \in 0 .. MaxCreated
  /\ broken \subseteq Ids
  /\ user \in [Users -> [step : Steps, res : 0 .. MaxCreated]]
  /\ closer \in {"open", "marked", "cancelled", "closed"}
  /\ cleaner \in {"run", "exit"}
  /\ spinning \in BOOLEAN
  /\ careless \in BOOLEAN

Nobody == [step |-> "idle", res |-> 0]

Init ==
  /\ resources = 1 .. MinSize
  /\ inUse = [r \in Ids |-> FALSE]
  /\ available = [i \in 1 .. MinSize |-> i]
  /\ maxSize = MaxSize
  /\ created = MinSize
  /\ broken = {}
  /\ user = [u \in Users |-> Nobody]
  /\ closer = "open"
  /\ cleaner = "run"
  /\ spinning = FALSE
  /\ careless = FALSE

closed == closer # "open"
ctxDone == closer \in {"cancelled", "closed"}

\* The mutex can be taken.  Every operation but a spinning Resize gives it
\* back in the step in which it takes it.
Unlocked == ~spinning

Idle == {available[i] : i \in 1 .. Len(available)}

----------------------------------------------------------------------------
(* Acquire                                                                 *)

At(u, step) == user[u].step = step
Goto(u, step) == user' = [user EXCEPT ![u].step = step]

\* On a closed pool Acquire returns an error here and nothing changes.
AcquireBegin(u) ==
  /\ At(u, "idle")
  /\ Unlocked
  /\ ~closed
  /\ Goto(u, "select")
  /\ UNCHANGED <<poolVars, closer, cleaner, spinning, careless>>

\* Mutant: an expired timeout only starts another round.
AcquireTimeoutRetries(u) ==
  /\ At(u, "select")
  /\ UNCHANGED vars

\* <-ctx.Done(): the timeout, or the pool's context.
AcquireTimeout(u) ==
  /\ At(u, "select")
  /\ Goto(u, "idle")
  /\ UNCHANGED <<poolVars, closer, cleaner, spinning, careless>>

\* <-p.available, without the mutex
Receive(u) ==
  /\ At(u, "select")
  /\ available # <<>>
  /\ user' = [user EXCEPT ![u] = [step |-> "check", res |-> Head(available)]]
  /\ available' = Tail(available)
  /\ UNCHANGED <<resources, inUse, maxSize, created, broken, closer, cleaner, spinning, careless>>

\* The receive on the channel that Close has closed yields nil, which is
\* dereferenced; select takes it or the context.
ReceiveNil(u) ==
  /\ At(u, "select")
  /\ available = <<>>
  /\ closer = "closed"
  /\ Goto(u, "panicked")
  /\ UNCHANGED <<poolVars, closer, cleaner, spinning, careless>>

\* Nothing is in the channel, or the clean-up has just taken the only resource
\* out and is about to put it back.
SeemsEmpty ==
  \/ available = <<>>
  \/ Len(available) = 1 /\ cleaner = "run" /\ ~closed

\* The default branch: neither of the two is ready.
FindNone(u) ==
  /\ At(u, "select")
  /\ SeemsEmpty
  /\ ~ctxDone
  /\ Goto(u, "create")
  /\ UNCHANGED <<poolVars, closer, cleaner, spinning, careless>>

\* Mutant: the new resource goes into the channel as well.
TryCreateAlsoIdle(u) ==
  /\ At(u, "create")
  /\ Unlocked
  /\ Cardinality(resources) < maxSize
  /\ created < MaxCreated
  /\ created' = created + 1
  /\ resources' = resources \cup {created'}
  /\ inUse' = [inUse EXCEPT ![created'] = TRUE]
  /\ available' = Append(available, created')
  /\ user' = [user EXCEPT ![u] = [step |-> "using", res |-> created']]
  /\ UNCHANGED <<maxSize, broken, closer, cleaner, spinning, careless>>

\* tryCreateResource, which does not look at p.closed.  When the pool is full
\* or the factory fails, Acquire goes round again.
TryCreate(u) ==
  /\ At(u, "create")
  /\ Unlocked
  /\ \/ /\ Cardinality(resources) < maxSize
        /\ created < MaxCreated
        /\ created' = created + 1
        /\ resources' = resources \cup {created'}
        /\ inUse' = [inUse EXCEPT ![created'] = TRUE]
        /\ user' = [user EXCEPT ![u] = [step |-> "using", res |-> created']]
     \/ Goto(u, "select") /\ UNCHANGED <<created, resources, inUse>>
  /\ UNCHANGED <<available, maxSize, broken, closer, cleaner, spinning, careless>>

\* destroyResource for the resource u has received, then u goes to next
DestroyReceived(u, next) ==
  /\ Unlocked
  /\ resources' = resources \ {user[u].res}
  /\ user' = [user EXCEPT ![u] = [step |-> next, res |-> 0]]
  /\ UNCHANGED <<inUse, available, maxSize, created, broken, closer, cleaner, spinning, careless>>

\* The received resource is not valid: a new one is made in its place.
CheckInvalid(u) ==
  /\ At(u, "check")
  /\ ValidateOnBorrow
  /\ user[u].res \in broken
  /\ DestroyReceived(u, "create")

Usable(u) == ValidateOnBorrow => user[u].res \notin broken

\* factory.Reset fails.
ResetFails(u) ==
  /\ At(u, "check")
  /\ Usable(u)
  /\ DestroyReceived(u, "select")

CheckPassed(u) ==
  /\ At(u, "check")
  /\ Usable(u)
  /\ Goto(u, "mark")
  /\ UNCHANGED <<poolVars, closer, cleaner, spinning, careless>>

Mark(u) ==
  /\ At(u, "mark")
  /\ Unlocked
  /\ inUse' = [inUse EXCEPT ![user[u].res] = TRUE]
  /\ Goto(u, "using")
  /\ UNCHANGED <<resources, available, maxSize, created, broken, closer, cleaner, spinning, careless>>

Acquire(u) ==
  \/ AcquireBegin(u) \/ AcquireTimeout(u) \/ Receive(u) \/ ReceiveNil(u)
  \/ FindNone(u) \/ TryCreate(u) \/ CheckInvalid(u) \/ ResetFails(u)
  \/ CheckPassed(u) \/ Mark(u)

----------------------------------------------------------------------------
(* Release                                                                 *)

\* Why Release returns an error without doing anything
Refused(r) == closed \/ r \notin resources \/ ~inUse[r]

\* Why Release destroys the resource: it is not valid, or enough are idle
Surplus(r) ==
  \/ ValidateOnReturn /\ r \in broken
  \/ Len(available) >= MaxIdle
  \/ Len(available) >= MaxSize

\* Mutant: a resource that is not in use is put back all the same.
PutUnchecked(r) ==
  /\ Unlocked
  /\ \/ (closed \/ r \notin resources) /\ UNCHANGED <<resources, inUse, available>>
     \/ /\ ~closed /\ r \in resources /\ Surplus(r)
        /\ resources' = resources \ {r}
        /\ UNCHANGED <<inUse, available>>
     \/ /\ ~closed /\ r \in resources /\ ~Surplus(r)
        /\ inUse' = [inUse EXCEPT ![r] = FALSE]
        /\ available' = Append(available, r)
        /\ UNCHANGED resources
  /\ UNCHANGED <<maxSize, created, broken, closer, cleaner, spinning>>

\* Mutant: the wrapper is emptied before it is put back.
PutEmptied(r) ==
  /\ Unlocked
  /\ ~Refused(r) /\ ~Surplus(r)
  /\ inUse' = [inUse EXCEPT ![r] = FALSE]
  /\ available' = Append(available, 0)
  /\ UNCHANGED <<resources, maxSize, created, broken, closer, cleaner, spinning>>

Put(r) ==
  /\ Unlocked
  /\ \/ Refused(r) /\ UNCHANGED <<resources, inUse, available>>
     \/ /\ ~Refused(r) /\ Surplus(r)
        /\ resources' = resources \ {r}
        /\ UNCHANGED <<inUse, available>>
     \/ /\ ~Refused(r) /\ ~Surplus(r)
        /\ inUse' = [inUse EXCEPT ![r] = FALSE]
        /\ available' = Append(available, r)
        /\ UNCHANGED resources
  /\ UNCHANGED <<maxSize, created, broken, closer, cleaner, spinning>>

Return(u) == user' = [user EXCEPT ![u] = Nobody]

Release(u) ==
  /\ At(u, "using")
  /\ Put(user[u].res)
  /\ \/ Return(u) /\ UNCHANGED careless
     \/ Goto(u, "again") /\ careless' = TRUE

\* edge_offline's TextToSpeechStream calls returnConnection when its context
\* ends, and once more through its defer.
ReleaseAgain(u) ==
  /\ At(u, "again")
  /\ Put(user[u].res)
  /\ Return(u)
  /\ UNCHANGED careless

\* edge_offline's TextToSpeech returns without a Release when it cannot send.
Forget(u) ==
  /\ At(u, "using")
  /\ Return(u)
  /\ careless' = TRUE
  /\ UNCHANGED <<poolVars, closer, cleaner, spinning>>

\* A resource stops being valid: its connection ages or is closed by its user,
\* its memory is freed.
Break(r) ==
  /\ r <= created
  /\ r \notin broken
  /\ broken' = broken \cup {r}
  /\ UNCHANGED <<resources, inUse, available, maxSize, created, user, closer, cleaner, spinning, careless>>

----------------------------------------------------------------------------
(* The clean-up goroutine, Resize and Close                                *)

\* available without its first k resources
Drop(k) == SubSeq(available, k + 1, Len(available))

\* The first k of available
First(k) == {available[i] : i \in 1 .. k}

\* Mutant: the resource that ends the search is not put back.
CleanupDropsFresh(k) ==
  /\ cleaner = "run"
  /\ Unlocked
  /\ ~closed
  /\ resources' = resources \ First(k)
  /\ available' = Drop(IF k < Len(available) THEN k + 1 ELSE k)
  /\ UNCHANGED <<inUse, maxSize, created, broken, user, closer, cleaner, spinning, careless>>

\* Mutant: the search goes through the map and meets resources in use.
CleanupSearchesMap(k) ==
  /\ cleaner = "run"
  /\ Unlocked
  /\ ~closed
  /\ \E expired \in SUBSET resources :
       /\ Cardinality(expired) = k
       /\ resources' = resources \ expired
       /\ available' = SelectSeq(available, LAMBDA r : r \notin expired)
  /\ UNCHANGED <<inUse, maxSize, created, broken, user, closer, cleaner, spinning, careless>>

\* cleanupIdleResources: the first k resources have expired; the one that ends
\* the search goes to the back of the channel.  An Acquire that receives in the
\* middle could as well have received before or after.
Cleanup(k) ==
  /\ cleaner = "run"
  /\ Unlocked
  /\ ~closed
  /\ resources' = resources \ First(k)
  /\ available' = IF k < Len(available) THEN Append(Drop(k + 1), available[k + 1])
                  ELSE <<>>
  /\ UNCHANGED <<inUse, maxSize, created, broken, user, closer, cleaner, spinning, careless>>

\* Mutant: the goroutine does not look at the pool's context.
CleanerIgnoresContext == ctxDone /\ UNCHANGED vars

CleanerExit ==
  /\ cleaner = "run"
  /\ ctxDone
  /\ cleaner' = "exit"
  /\ UNCHANGED <<poolVars, user, closer, spinning, careless>>

\* The number of resources that Resize(n) wants to remove, and can remove
Excess(n) ==
  IF n < maxSize /\ Cardinality(resources) > n THEN Cardinality(resources) - n ELSE 0
Removable(n) == IF Excess(n) < Len(available) THEN Excess(n) ELSE Len(available)

\* The break in Resize's loop only leaves the select: when too few resources are
\* idle the loop goes on forever, under the mutex.
Resize(n) ==
  /\ Unlocked
  /\ ~closed
  /\ maxSize' = n
  /\ resources' = resources \ First(Removable(n))
  /\ available' = Drop(Removable(n))
  /\ spinning' = (Removable(n) < Excess(n))
  /\ UNCHANGED <<inUse, created, broken, user, closer, cleaner, careless>>

\* Close is three steps: it marks the pool, cancels the context, ...
CloseBegin ==
  /\ closer = "open"
  /\ Unlocked
  /\ closer' = "marked"
  /\ UNCHANGED <<poolVars, user, cleaner, spinning, careless>>

CloseCancel ==
  /\ closer = "marked"
  /\ closer' = "cancelled"
  /\ UNCHANGED <<poolVars, user, cleaner, spinning, careless>>

\* ... and, when the clean-up goroutine has ended, closes the channel and
\* destroys all resources, those in use too.
CloseFinish ==
  /\ closer = "cancelled"
  /\ cleaner = "exit"
  /\ Unlocked
  /\ closer' = "closed"
  /\ available' = <<>>
  /\ resources' = {}
  /\ UNCHANGED <<inUse, maxSize, created, broken, user, cleaner, spinning, careless>>

Maintenance ==
  \/ \E k \in 0 .. Len(available) : Cleanup(k)
  \/ CleanerExit
  \/ \E n \in Sizes : Resize(n)
  \/ CloseBegin \/ CloseCancel \/ CloseFinish

----------------------------------------------------------------------------

UserStep(u) == Acquire(u) \/ Release(u) \/ ReleaseAgain(u) \/ Forget(u)

Next ==
  \/ \E u \in Users : UserStep(u)
  \/ \E r \in Ids : Break(r)
  \/ Maintenance

Spec == Init /\ [][Next]_vars

\* Goroutines that can go on do; Go's select takes each of its ready channels
\* sooner or later, so a wait whose timer has fired does not go on forever.
Fairness ==
  /\ \A u \in Users :
       /\ WF_vars(TryCreate(u) \/ CheckInvalid(u) \/ CheckPassed(u) \/ Mark(u))
       /\ SF_vars(AcquireTimeout(u))
  /\ WF_vars(CleanerExit) /\ WF_vars(CloseCancel) /\ WF_vars(CloseFinish)

FairSpec == Spec /\ Fairness

----------------------------------------------------------------------------
(* Properties                                                              *)

Larger(m, n) == IF m < n THEN n ELSE m

\* The pool never manages more resources than its size allows, nor keeps more
\* idle than allowed, the ones the constructor makes aside; and what is idle is
\* managed, marked as not in use, and there once - whatever its users do.
WithinLimits ==
  /\ spinning \/ Cardinality(resources) <= maxSize
  /\ Len(available) <= Larger(MaxIdle, MinSize)
  /\ \A i, j \in 1 .. Len(available) : available[i] = available[j] => i = j
  /\ \A r \in Idle : r \in resources /\ ~inUse[r]

\* u has a resource in its hands, from the receive to the return.
Holds(u) == user[u].step \in {"check", "mark", "using"}

\* No two users have the same resource, and none has one that is idle.
SoleUse ==
  \A u \in Users : Holds(u) =>
    /\ user[u].res \notin Idle
    /\ \A v \in Users \ {u} : Holds(v) => user[v].res # user[u].res

\* As long as every Acquire is followed by one Release, a resource is in the
\* hands of one user at a time, from the receive to the return: the time before
\* it is marked as in use is covered too.
ExclusiveUse == ~careless => SoleUse

\* Until Close has destroyed everything the pool destroys no resource that a
\* user has in its hands: neither the clean-up nor a Resize nor another user's
\* Acquire that is going on.
HeldIsAlive ==
  ~careless => (closer # "closed" => \A u \in Users : Holds(u) => user[u].res \in resources)

\* No slot of an open pool is lost: what it manages is idle or in somebody's
\* hands, so the capacity can always be used again.
NoSlotLost ==
  ~careless =>
    (~closed => \A r \in resources : r \in Idle \/ \E u \in Users : Holds(u) /\ user[u].res = r)

\* Every Acquire comes back, with a resource or without, unless a Resize has
\* hung the pool.
AcquireReturns ==
  \A u \in Users : user[u].step \in {"select", "create", "check", "mark"}
                     ~> user[u].step \in {"idle", "using", "panicked"} \/ spinning

\* Close comes back, with the same exception: it does not wait for a clean-up
\* goroutine that goes on.
CloseReturns == closed ~> closer = "closed" \/ spinning

\* "resource is not in use" is the answer to a second Release: it takes the
\* resource from nobody.  The code does not keep this.
SecondReleaseIsHarmless == SoleUse
=============================================================================
