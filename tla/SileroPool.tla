----------------------------- MODULE SileroPool -----------------------------
(***************************************************************************)
(* The pool of voice activity detectors (vad/silero_vad) and how a session *)
(* takes one and gives it back (data/client/vad.go, chat/asr.go).          *)
(*                                                                         *)
(* The pool itself has no lock around a take or a return: it relies on the *)
(* lock of each session's Vad. A session has several goroutines that may   *)
(* need or reset its detector; the one that uses it reads the field        *)
(* without the lock, and ends the program if it finds nil.                 *)
(***************************************************************************)
EXTENDS Naturals, Sequences, SequencesExt

CONSTANTS
  Goroutines,
  Sessions,
  SessionOf,  \* the session of a goroutine
  MaxSize,    \* maxSize, 10 unless the configuration has a pool_size
  None

VARIABLES
  initialized,    \* of globalVADResourcePool
  availableVADs,  \* the channel
  allocatedVADs,  \* the map
  destroyed,      \* the detectors that were closed
  VadProvider,    \* per session
  lock,           \* per session: the goroutine that holds Vad.lock
  step,           \* per goroutine
  hand,           \* per goroutine: the detector that AcquireVAD has received
  crashed

pool == <<initialized, availableVADs, allocatedVADs, destroyed>>
vars == <<pool, VadProvider, lock, step, hand, crashed>>

\* Detectors by the order of their creation
Detectors == 1 .. MaxSize

TypeOK ==
  /\ initialized \in {"no", "creating", "failed", "yes"}
  /\ availableVADs \in Seq(Detectors) /\ Len(availableVADs) <= MaxSize
  /\ allocatedVADs \subseteq Detectors /\ destroyed \subseteq Detectors
  /\ VadProvider \in [Sessions -> Detectors \cup {None}]
  /\ lock \in [Sessions -> Goroutines \cup {None}]
  /\ step \in [Goroutines -> {"idle", "init", "acquire", "store", "reset", "load", "delete",
                              "put", "clear", "use"}]
  /\ hand \in [Goroutines -> Detectors \cup {None}]
  /\ crashed \in BOOLEAN

Init ==
  /\ initialized = "no" /\ availableVADs = <<>> /\ allocatedVADs = {} /\ destroyed = {}
  /\ VadProvider = [s \in Sessions |-> None]
  /\ lock = [s \in Sessions |-> None]
  /\ step = [g \in Goroutines |-> "idle"]
  /\ hand = [g \in Goroutines |-> None]
  /\ crashed = FALSE

Goto(g, next) == step' = [step EXCEPT ![g] = next]
Lock(g) == lock[SessionOf[g]] = None /\ lock' = [lock EXCEPT ![SessionOf[g]] = g]
Unlock(g) == lock' = [lock EXCEPT ![SessionOf[g]] = None]
Provider(g) == VadProvider[SessionOf[g]]
SetProvider(g, v) == VadProvider' = [VadProvider EXCEPT ![SessionOf[g]] = v]

----------------------------------------------------------------------------
(* initialize, which the first session calls through once.Do               *)

InitVadPool ==
  /\ initialized = "no"
  /\ initialized' = "creating"
  /\ UNCHANGED <<availableVADs, allocatedVADs, destroyed, VadProvider, lock, step, hand, crashed>>

CreateVAD ==
  /\ initialized = "creating"
  /\ availableVADs' = Append(availableVADs, Len(availableVADs) + 1)
  /\ initialized' = IF Len(availableVADs') = MaxSize THEN "yes" ELSE "creating"
  /\ UNCHANGED <<allocatedVADs, destroyed, VadProvider, lock, step, hand, crashed>>

\* Those that were made are closed, and the pool stays without.
CreateFails ==
  /\ initialized = "creating"
  /\ initialized' = "failed"
  /\ availableVADs' = <<>>
  /\ destroyed' = destroyed \cup ToSet(availableVADs)
  /\ UNCHANGED <<allocatedVADs, VadProvider, lock, step, hand, crashed>>

----------------------------------------------------------------------------
(* Vad.Init, when there is a frame and no detector                         *)

\* The field is read without the lock.
NeedsVad(g) ==
  /\ step[g] = "idle" /\ Provider(g) = None
  /\ Goto(g, "init")
  /\ UNCHANGED <<pool, VadProvider, lock, hand, crashed>>

InitVad(g) ==
  /\ step[g] = "init"
  /\ Lock(g)
  /\ Goto(g, "acquire")
  /\ UNCHANGED <<pool, VadProvider, hand, crashed>>

AcquireVAD(g) ==
  /\ step[g] = "acquire" /\ initialized = "yes" /\ availableVADs # <<>>
  /\ hand' = [hand EXCEPT ![g] = Head(availableVADs)]
  /\ availableVADs' = Tail(availableVADs)
  /\ Goto(g, "store")
  /\ UNCHANGED <<initialized, allocatedVADs, destroyed, VadProvider, lock, crashed>>

\* The pool is not there, or has nothing for three seconds.
AcquireFails(g) ==
  /\ step[g] = "acquire" /\ (initialized # "yes" \/ availableVADs = <<>>)
  /\ Unlock(g)
  /\ Goto(g, "idle")
  /\ UNCHANGED <<pool, VadProvider, hand, crashed>>

\* A detector that the field had before is not given back.
StoreVad(g) ==
  /\ step[g] = "store"
  /\ allocatedVADs' = allocatedVADs \cup {hand[g]}
  /\ SetProvider(g, hand[g])
  /\ hand' = [hand EXCEPT ![g] = None]
  /\ Unlock(g)
  /\ Goto(g, "idle")
  /\ UNCHANGED <<initialized, availableVADs, destroyed, crashed>>

----------------------------------------------------------------------------
(* The detector is asked about a frame                                     *)

\* The field was not nil, or Init has just set it; the calls read it again. They may
\* still be under way when a reset has given the detector to another session, which the
\* pool cannot see: the detector has a lock of its own.
UseVad(g) ==
  /\ step[g] = "idle" /\ Provider(g) # None
  /\ Goto(g, "use")
  /\ UNCHANGED <<pool, VadProvider, lock, hand, crashed>>

IsVADExt(g) ==
  /\ step[g] = "use" /\ Provider(g) # None
  /\ Goto(g, "idle")
  /\ UNCHANGED <<pool, VadProvider, lock, hand, crashed>>

NilProvider(g) ==
  /\ step[g] = "use" /\ Provider(g) = None
  /\ crashed' = TRUE
  /\ UNCHANGED <<pool, VadProvider, lock, step, hand>>

----------------------------------------------------------------------------
(* Vad.Reset, at the end of speech, in an abort and when a session ends    *)

StartReset(g) ==
  /\ step[g] = "idle"
  /\ Goto(g, "reset")
  /\ UNCHANGED <<pool, VadProvider, lock, hand, crashed>>

ResetVad(g) ==
  /\ step[g] = "reset"
  /\ Lock(g)
  /\ Goto(g, IF Provider(g) = None THEN "clear" ELSE "load")
  /\ UNCHANGED <<pool, VadProvider, hand, crashed>>

LoadAllocated(g) ==
  /\ step[g] = "load"
  /\ Goto(g, IF Provider(g) \in allocatedVADs THEN "delete" ELSE "clear")
  /\ UNCHANGED <<pool, VadProvider, lock, hand, crashed>>

DeleteAllocated(g) ==
  /\ step[g] = "delete"
  /\ allocatedVADs' = allocatedVADs \ {Provider(g)}
  /\ Goto(g, "put")
  /\ UNCHANGED <<initialized, availableVADs, destroyed, VadProvider, lock, hand, crashed>>

\* A detector for which the channel has no room is closed.
PutBack(g) ==
  /\ step[g] = "put"
  /\ IF Len(availableVADs) < MaxSize
     THEN availableVADs' = Append(availableVADs, Provider(g)) /\ UNCHANGED destroyed
     ELSE destroyed' = destroyed \cup {Provider(g)} /\ UNCHANGED availableVADs
  /\ Goto(g, "clear")
  /\ UNCHANGED <<initialized, allocatedVADs, VadProvider, lock, hand, crashed>>

\* The session keeps its pointer to the detector.
KeepProvider(g) ==
  /\ step[g] = "clear"
  /\ Unlock(g)
  /\ Goto(g, "idle")
  /\ UNCHANGED <<pool, VadProvider, hand, crashed>>

ClearProvider(g) ==
  /\ step[g] = "clear"
  /\ SetProvider(g, None)
  /\ Unlock(g)
  /\ Goto(g, "idle")
  /\ UNCHANGED <<pool, hand, crashed>>

----------------------------------------------------------------------------

Next ==
  /\ ~crashed
  /\ \/ InitVadPool \/ CreateVAD \/ CreateFails
     \/ \E g \in Goroutines :
          \/ NeedsVad(g) \/ InitVad(g) \/ AcquireVAD(g) \/ AcquireFails(g) \/ StoreVad(g)
          \/ UseVad(g) \/ IsVADExt(g) \/ NilProvider(g)
          \/ StartReset(g) \/ ResetVad(g) \/ LoadAllocated(g) \/ DeleteAllocated(g)
          \/ PutBack(g) \/ ClearProvider(g)

Spec == Init /\ [][Next]_vars

----------------------------------------------------------------------------
(* Properties                                                              *)

\* The session has the detector, and no reset is giving it away.
Owns(s, v) ==
  /\ VadProvider[s] = v
  /\ lock[s] # None => step[lock[s]] \notin {"delete", "put", "clear"}

\* Where a detector is: with the sessions that have it, in the hands of the goroutines
\* that are taking it, at positions of the channel, or closed.
Places(v) ==
  {<<"session", s>> : s \in {t \in Sessions : Owns(t, v)}}
    \cup {<<"hand", g>> : g \in {h \in Goroutines : hand[h] = v}}
    \cup {<<"channel", i>> : i \in {j \in DOMAIN availableVADs : availableVADs[j] = v}}
    \cup {<<"closed", w>> : w \in destroyed \cap {v}}

\* A detector is in one place at most: resets that overlap, of one session or of two,
\* never return a detector that another session has, nor one twice.
DetectorInOnePlace == \A v \in Detectors : \A p, q \in Places(v) : p = q

----------------------------------------------------------------------------
(* The inductive invariant                                                 *)

\* Whoever is between Lock and Unlock holds the lock of its session, and nobody else.
Locked ==
  /\ \A g \in Goroutines :
       lock[SessionOf[g]] = g <=>
         step[g] \in {"acquire", "store", "load", "delete", "put", "clear"}
  /\ \A s \in Sessions : lock[s] # None => SessionOf[lock[s]] = s

InHand == \A g \in Goroutines : hand[g] # None <=> step[g] = "store"

\* A session whose detector is being given back has one.
Returning ==
  \A g \in Goroutines :
    step[g] \in {"load", "delete", "put"} => VadProvider[SessionOf[g]] # None

\* Until the pool is there, nobody has a detector.
Fresh ==
  initialized # "yes" =>
    /\ \A s \in Sessions : VadProvider[s] = None
    /\ \A g \in Goroutines : hand[g] = None
    /\ initialized = "no" => availableVADs = <<>>
    /\ initialized = "creating" => Len(availableVADs) < MaxSize
    /\ initialized # "failed" => destroyed = {}
    /\ \A i \in DOMAIN availableVADs : availableVADs[i] = i

\* The detector of a session, until the reset has put it back or dropped it.
Has(s, v) == VadProvider[s] = v /\ (lock[s] # None => step[lock[s]] # "clear")

\* DetectorInOnePlace, also while a reset is on the way to the channel
Alone ==
  \A v \in Detectors :
    /\ \A s, t \in Sessions : Has(s, v) /\ Has(t, v) => s = t
    /\ \A g, h \in Goroutines : hand[g] = v /\ hand[h] = v => g = h
    /\ \A i, j \in DOMAIN availableVADs :
         availableVADs[i] = v /\ availableVADs[j] = v => i = j
    /\ \A s \in Sessions : Has(s, v) =>
         /\ v \notin destroyed
         /\ \A g \in Goroutines : hand[g] # v
         /\ \A i \in DOMAIN availableVADs : availableVADs[i] # v
    /\ \A g \in Goroutines : hand[g] = v =>
         /\ v \notin destroyed
         /\ \A i \in DOMAIN availableVADs : availableVADs[i] # v
    /\ \A i \in DOMAIN availableVADs : availableVADs[i] = v => v \notin destroyed

IInv == TypeOK /\ Locked /\ InHand /\ Returning /\ Fresh /\ Alone
=============================================================================
