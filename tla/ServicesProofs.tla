-------------------------- MODULE ServicesProofs --------------------------
(***************************************************************************)
(* Proofs about what the sessions share, for any number of sessions,       *)
(* goroutines and handlers and any bound: the connections to FunASR        *)
(* (FunasrPool), the pool of detectors (SileroPool), the MCP sessions of a *)
(* device (DeviceMcp) and the global MCP manager (GlobalMcp).              *)
(***************************************************************************)
EXTENDS Services, FiniteSetTheorems, SequenceTheorems, TLAPS

----------------------------------------------------------------------------
(* The inductive invariant                                                 *)

\* A connection has been made exactly if its number has been given out.
Numbered == \A c \in Conns : socket[c] = "none" <=> c > dialled

\* The map has the connections that are not closed, and marks only those.
InMap ==
  /\ inUse \subseteq pool
  /\ \A c \in Conns : socket[c] \in {"open", "failed"} <=> c \in pool

Bounded == Cardinality(pool) <= MaxConnections

\* recvResult starts when its caller is done with the connection.
HandedOver == \A s \in Streams : recv[s] # "none" => pc[s] = "done"

\* What a recognition holds has been made.
Known == \A s \in Calls, c \in Conns : Holds(s, c) => c <= dialled

Pooled == Numbered /\ InMap /\ Bounded /\ Known /\ OneHolder

IInv == TypeOK /\ HandedOver /\ Pooled

----------------------------------------------------------------------------
(* What a step may do to the pool and to who holds what                    *)

LEMMA Constants ==
  /\ MaxConnections \in Nat /\ ResultCap \in Nat /\ MaxConns \in Nat
  /\ Streams \cap Batches = {} /\ Streams \subseteq Calls /\ Batches \subseteq Calls
  /\ Conns \subseteq Nat /\ NoConn \notin Conns /\ IsFiniteSet(Conns)
BY SizesAssumption, CallsAssumption, FS_Interval DEF Calls, Conns, NoConn

\* A smaller map keeps within the bound.
LEMMA Smaller ==
  ASSUME TypeOK, Bounded, NEW S \in SUBSET pool
  PROVE  Cardinality(S) <= MaxConnections
<1>1. IsFiniteSet(pool) /\ IsFiniteSet(S)
  BY Constants, FS_Subset DEF TypeOK
<1>2. Cardinality(S) <= Cardinality(pool) /\ Cardinality(S) \in Nat
      /\ Cardinality(pool) \in Nat
  BY <1>1, FS_Subset, FS_CardinalityType
<1>3. QED
  BY <1>2, Constants DEF Bounded

\* A step that leaves the map alone and after which everyone holds what he held.
LEMMA Keeps ==
  ASSUME TypeOK, Pooled, UNCHANGED <<pool, inUse, dialled>>,
         \A c \in Conns : /\ socket'[c] = "none" <=> socket[c] = "none"
                          /\ socket'[c] \in {"open", "failed"} <=>
                               socket[c] \in {"open", "failed"},
         \A s \in Calls, c \in Conns : Holds(s, c)' <=> Holds(s, c)
  PROVE  Pooled'
<1>1. Numbered' /\ InMap' /\ Bounded'
  BY DEF Pooled, Numbered, InMap, Bounded
<1>2. Known'
  BY DEF Pooled, Known
<1>3. OneHolder'
  BY DEF Pooled, OneHolder, TypeOK
<1>4. QED
  BY <1>1, <1>2, <1>3 DEF Pooled

\* A recognition takes a connection out of those that nobody has.
LEMMA Takes ==
  ASSUME TypeOK, Pooled, NEW s \in Calls, NEW c \in Idle,
         UNCHANGED <<pool, socket, dialled>>, inUse' = inUse \cup {c},
         \A t \in Calls, d \in Conns :
           Holds(t, d)' <=> (t = s /\ d = c) \/ (t # s /\ Holds(t, d)),
         \A d \in Conns : ~Holds(s, d)
  PROVE  Pooled'
<1>1. c \in pool /\ c \in Conns /\ c \notin inUse
  BY DEF Idle, TypeOK
<1>2. \A t \in Calls : ~Holds(t, c)
  BY <1>1 DEF Pooled, OneHolder
<1>3. c <= dialled
  BY <1>1, Constants DEF Pooled, Numbered, InMap, TypeOK
<1>4. Numbered' /\ InMap' /\ Bounded'
  BY <1>1 DEF Pooled, Numbered, InMap, Bounded
<1>5. Known'
  BY <1>3 DEF Pooled, Known
<1>6. OneHolder'
  <2>1. \A d \in Conns : \A t, u \in Calls : Holds(t, d)' /\ Holds(u, d)' => t = u
    BY <1>2 DEF Pooled, OneHolder
  <2>2. ASSUME NEW d \in pool'
        PROVE  d \in inUse' <=> \E t \in Calls : Holds(t, d)'
    <3>1. d \in pool /\ d \in Conns
      BY DEF TypeOK
    <3>2. CASE d = c
      BY <3>1, <3>2
    <3>3. CASE d # c
      BY <3>1, <3>3 DEF Pooled, OneHolder
    <3>4. QED
      BY <3>2, <3>3
  <2>3. QED
    BY <2>1, <2>2 DEF OneHolder
<1>7. QED
  BY <1>4, <1>5, <1>6 DEF Pooled

\* A recognition takes a connection that is made for it.
LEMMA Makes ==
  ASSUME TypeOK, Pooled, NEW s \in Calls, NEW c, c = dialled + 1, dialled < MaxConns,
         Cardinality(pool) < MaxConnections,
         dialled' = c, socket' = [socket EXCEPT ![c] = "open"],
         pool' = pool \cup {c}, inUse' = inUse \cup {c},
         \A t \in Calls, d \in Conns :
           Holds(t, d)' <=> (t = s /\ d = c) \/ (t # s /\ Holds(t, d)),
         \A d \in Conns : ~Holds(s, d)
  PROVE  Pooled'
<1>1. c \in Conns /\ dialled \in Nat
  BY Constants DEF Conns, TypeOK
<1>2. c \notin pool
  BY <1>1, Constants DEF Pooled, Numbered, InMap, TypeOK
<1>3. \A t \in Calls : ~Holds(t, c)
  BY <1>1 DEF Pooled, Known
<1>4. Numbered'
  BY <1>1, Constants DEF Pooled, Numbered, TypeOK
<1>5. InMap'
  BY <1>1, <1>2 DEF Pooled, InMap, TypeOK
<1>6. Bounded'
  <2>1. IsFiniteSet(pool)
    BY Constants, FS_Subset DEF TypeOK
  <2>2. Cardinality(pool \cup {c}) = Cardinality(pool) + 1 /\ Cardinality(pool) \in Nat
    BY <1>2, <2>1, FS_AddElement, FS_CardinalityType
  <2>3. QED
    BY <2>2, Constants DEF Bounded
<1>7. Known'
  BY <1>1, Constants DEF Pooled, Known
<1>8. OneHolder'
  <2>1. \A d \in Conns : \A t, u \in Calls : Holds(t, d)' /\ Holds(u, d)' => t = u
    BY <1>3 DEF Pooled, OneHolder
  <2>2. ASSUME NEW d \in pool'
        PROVE  d \in inUse' <=> \E t \in Calls : Holds(t, d)'
    <3>1. d \in Conns
      BY <1>1 DEF TypeOK
    <3>2. CASE d = c
      BY <3>1, <3>2
    <3>3. CASE d # c
      BY <3>1, <3>3 DEF Pooled, OneHolder
    <3>4. QED
      BY <3>2, <3>3
  <2>3. QED
    BY <2>1, <2>2 DEF OneHolder
<1>9. QED
  BY <1>4, <1>5, <1>6, <1>7, <1>8 DEF Pooled

\* A recognition gives its connection back.
LEMMA GivesBack ==
  ASSUME TypeOK, Pooled, NEW s \in Calls, UNCHANGED <<pool, socket, dialled>>,
         Free(conn[s]), conn[s] \in Conns => Holds(s, conn[s]),
         \A t \in Calls, d \in Conns : Holds(t, d)' <=> t # s /\ Holds(t, d)
  PROVE  Pooled'
<1>1. Numbered' /\ InMap' /\ Bounded'
  BY DEF Pooled, Numbered, InMap, Bounded, Free
<1>2. Known'
  BY DEF Pooled, Known
<1>3. \A d \in Conns : \A t, u \in Calls : Holds(t, d)' /\ Holds(u, d)' => t = u
  BY DEF Pooled, OneHolder
<1>4. ASSUME NEW d \in pool'
      PROVE  d \in inUse' <=> \E t \in Calls : Holds(t, d)'
  <2>1. d \in pool /\ d \in Conns /\ \A t \in Calls : Holds(t, d) => conn[t] = d
    BY DEF TypeOK, Holds
  <2>2. CASE d = conn[s]
    <3>1. \A t \in Calls : Holds(t, d) => t = s
      BY <2>1, <2>2 DEF Pooled, OneHolder
    <3>2. d \notin inUse'
      BY <2>1, <2>2 DEF Free
    <3>3. QED
      BY <2>1, <3>1, <3>2
  <2>3. CASE d # conn[s]
    <3>1. d \in inUse' <=> d \in inUse
      BY <2>3 DEF Free
    <3>2. QED
      BY <2>1, <2>3, <3>1 DEF Pooled, OneHolder
  <2>4. QED
    BY <2>2, <2>3
<1>5. QED
  BY <1>1, <1>2, <1>3, <1>4 DEF Pooled, OneHolder

\* A connection is closed and leaves the map; who holds it holds it still.
LEMMA Drops ==
  ASSUME TypeOK, Pooled, NEW c, Drop(c), UNCHANGED dialled,
         \A t \in Calls, d \in Conns : Holds(t, d)' <=> Holds(t, d)
  PROVE  Pooled'
<1>1. /\ pool' = pool \ {c} /\ inUse' = inUse \ {c}
      /\ \A d \in Conns : socket'[d] = IF d = c /\ d \in pool THEN "closed" ELSE socket[d]
  BY DEF Drop, TypeOK
<1>2. Numbered'
  BY <1>1 DEF Pooled, Numbered, InMap
<1>3. InMap'
  BY <1>1 DEF Pooled, InMap, TypeOK
<1>4. Bounded'
  BY <1>1, Smaller DEF Pooled, Bounded
<1>5. Known'
  BY DEF Pooled, Known
<1>6. OneHolder'
  BY <1>1 DEF Pooled, OneHolder, TypeOK
<1>7. QED
  BY <1>2, <1>3, <1>4, <1>5, <1>6 DEF Pooled

----------------------------------------------------------------------------
(* The steps                                                               *)

LEMMA FailKeeps ==
  ASSUME IInv, NEW c \in Conns, Fail(c)
  PROVE  IInv'
<1>1. TypeOK'
  BY Constants DEF IInv, TypeOK, Fail, poolVars, input, Goto, Receiver, Forwarder
<1>2. HandedOver'
  BY Constants DEF IInv, TypeOK, HandedOver, Fail, poolVars, input, Goto, Receiver, Forwarder
<1>3. \A t \in Calls, d \in Conns : Holds(t, d)' <=> Holds(t, d)
  BY Constants DEF IInv, TypeOK, HandedOver, Holds, Fail, poolVars, input, Goto, Receiver, Forwarder
<1>4. QED
  BY <1>1, <1>2, <1>3, Keeps DEF IInv, TypeOK, Fail, poolVars, input, Goto, Receiver, Forwarder

LEMMA StartKeeps ==
  ASSUME IInv, NEW s \in Calls, Start(s)
  PROVE  IInv'
<1>1. TypeOK'
  BY Constants DEF IInv, TypeOK, Start, poolVars, input, Goto, Receiver, Forwarder
<1>2. HandedOver'
  BY Constants DEF IInv, TypeOK, HandedOver, Start, poolVars, input, Goto, Receiver, Forwarder
<1>3. \A t \in Calls, d \in Conns : Holds(t, d)' <=> Holds(t, d)
  BY Constants DEF IInv, TypeOK, HandedOver, Holds, Start, poolVars, input, Goto, Receiver, Forwarder
<1>4. QED
  BY <1>1, <1>2, <1>3, Keeps DEF IInv, TypeOK, Start, poolVars, input, Goto, Receiver, Forwarder

LEMMA GetFailsKeeps ==
  ASSUME IInv, NEW s \in Calls, GetFails(s)
  PROVE  IInv'
<1>1. TypeOK'
  BY Constants DEF IInv, TypeOK, GetFails, poolVars, input, Goto, Receiver, Forwarder, Failed, Idle
<1>2. HandedOver'
  BY Constants DEF IInv, TypeOK, HandedOver, GetFails, poolVars, input, Goto, Receiver, Forwarder, Failed, Idle
<1>3. \A t \in Calls, d \in Conns : Holds(t, d)' <=> Holds(t, d)
  BY Constants DEF IInv, TypeOK, HandedOver, Holds, GetFails, poolVars, input, Goto, Receiver, Forwarder, Failed, Idle
<1>4. QED
  BY <1>1, <1>2, <1>3, Keeps DEF IInv, TypeOK, GetFails, poolVars, input, Goto, Receiver, Forwarder, Failed, Idle

LEMMA FirstMessageKeeps ==
  ASSUME IInv, NEW s \in Streams, FirstMessage(s)
  PROVE  IInv'
<1>1. TypeOK'
  BY Constants DEF IInv, TypeOK, FirstMessage, poolVars, input, Goto, Receiver, Forwarder
<1>2. HandedOver'
  BY Constants DEF IInv, TypeOK, HandedOver, FirstMessage, poolVars, input, Goto, Receiver, Forwarder
<1>3. \A t \in Calls, d \in Conns : Holds(t, d)' <=> Holds(t, d)
  BY Constants DEF IInv, TypeOK, HandedOver, Holds, FirstMessage, poolVars, input, Goto, Receiver, Forwarder
<1>4. QED
  BY <1>1, <1>2, <1>3, Keeps DEF IInv, TypeOK, FirstMessage, poolVars, input, Goto, Receiver, Forwarder

LEMMA ReadResultKeeps ==
  ASSUME IInv, NEW s \in Streams, ReadResult(s)
  PROVE  IInv'
<1>1. TypeOK'
  BY Constants DEF IInv, TypeOK, ReadResult, poolVars, input, Goto, Receiver, Forwarder
<1>2. HandedOver'
  BY Constants DEF IInv, TypeOK, HandedOver, ReadResult, poolVars, input, Goto, Receiver, Forwarder
<1>3. \A t \in Calls, d \in Conns : Holds(t, d)' <=> Holds(t, d)
  BY Constants DEF IInv, TypeOK, HandedOver, Holds, ReadResult, poolVars, input, Goto, Receiver, Forwarder
<1>4. QED
  BY <1>1, <1>2, <1>3, Keeps DEF IInv, TypeOK, ReadResult, poolVars, input, Goto, Receiver, Forwarder

LEMMA ReadOtherKeeps ==
  ASSUME IInv, NEW s \in Streams, ReadOther(s)
  PROVE  IInv'
<1>1. TypeOK'
  BY Constants DEF IInv, TypeOK, ReadOther, poolVars, input, Goto, Receiver, Forwarder
<1>2. HandedOver'
  BY Constants DEF IInv, TypeOK, HandedOver, ReadOther, poolVars, input, Goto, Receiver, Forwarder
<1>3. \A t \in Calls, d \in Conns : Holds(t, d)' <=> Holds(t, d)
  BY Constants DEF IInv, TypeOK, HandedOver, Holds, ReadOther, poolVars, input, Goto, Receiver, Forwarder
<1>4. QED
  BY <1>1, <1>2, <1>3, Keeps DEF IInv, TypeOK, ReadOther, poolVars, input, Goto, Receiver, Forwarder

LEMMA ReadErrorKeeps ==
  ASSUME IInv, NEW s \in Streams, ReadError(s)
  PROVE  IInv'
<1>1. TypeOK'
  BY Constants DEF IInv, TypeOK, ReadError, poolVars, input, Goto, Receiver, Forwarder
<1>2. HandedOver'
  BY Constants DEF IInv, TypeOK, HandedOver, ReadError, poolVars, input, Goto, Receiver, Forwarder
<1>3. \A t \in Calls, d \in Conns : Holds(t, d)' <=> Holds(t, d)
  BY Constants DEF IInv, TypeOK, HandedOver, Holds, ReadError, poolVars, input, Goto, Receiver, Forwarder
<1>4. QED
  BY <1>1, <1>2, <1>3, Keeps DEF IInv, TypeOK, ReadError, poolVars, input, Goto, Receiver, Forwarder

LEMMA SendResultKeeps ==
  ASSUME IInv, NEW s \in Streams, SendResult(s)
  PROVE  IInv'
<1>1. TypeOK'
  BY Constants DEF IInv, TypeOK, SendResult, poolVars, input, Goto, Receiver, Forwarder
<1>2. HandedOver'
  BY Constants DEF IInv, TypeOK, HandedOver, SendResult, poolVars, input, Goto, Receiver, Forwarder
<1>3. \A t \in Calls, d \in Conns : Holds(t, d)' <=> Holds(t, d)
  BY Constants DEF IInv, TypeOK, HandedOver, Holds, SendResult, poolVars, input, Goto, Receiver, Forwarder
<1>4. QED
  BY <1>1, <1>2, <1>3, Keeps DEF IInv, TypeOK, SendResult, poolVars, input, Goto, Receiver, Forwarder

LEMMA SendCancelledKeeps ==
  ASSUME IInv, NEW s \in Streams, SendCancelled(s)
  PROVE  IInv'
<1>1. TypeOK'
  BY Constants DEF IInv, TypeOK, SendCancelled, poolVars, input, Goto, Receiver, Forwarder
<1>2. HandedOver'
  BY Constants DEF IInv, TypeOK, HandedOver, SendCancelled, poolVars, input, Goto, Receiver, Forwarder
<1>3. \A t \in Calls, d \in Conns : Holds(t, d)' <=> Holds(t, d)
  BY Constants DEF IInv, TypeOK, HandedOver, Holds, SendCancelled, poolVars, input, Goto, Receiver, Forwarder
<1>4. QED
  BY <1>1, <1>2, <1>3, Keeps DEF IInv, TypeOK, SendCancelled, poolVars, input, Goto, Receiver, Forwarder

LEMMA ForwardChunkKeeps ==
  ASSUME IInv, NEW s \in Streams, ForwardChunk(s)
  PROVE  IInv'
<1>1. TypeOK'
  BY Constants DEF IInv, TypeOK, ForwardChunk, poolVars, input, Goto, Receiver, Forwarder
<1>2. HandedOver'
  BY Constants DEF IInv, TypeOK, HandedOver, ForwardChunk, poolVars, input, Goto, Receiver, Forwarder
<1>3. \A t \in Calls, d \in Conns : Holds(t, d)' <=> Holds(t, d)
  BY Constants DEF IInv, TypeOK, HandedOver, Holds, ForwardChunk, poolVars, input, Goto, Receiver, Forwarder
<1>4. QED
  BY <1>1, <1>2, <1>3, Keeps DEF IInv, TypeOK, ForwardChunk, poolVars, input, Goto, Receiver, Forwarder

LEMMA EndInputKeeps ==
  ASSUME IInv, NEW s \in Streams, EndInput(s)
  PROVE  IInv'
<1>1. TypeOK'
  BY Constants DEF IInv, TypeOK, EndInput, poolVars, input, Goto, Receiver, Forwarder
<1>2. HandedOver'
  BY Constants DEF IInv, TypeOK, HandedOver, EndInput, poolVars, input, Goto, Receiver, Forwarder
<1>3. \A t \in Calls, d \in Conns : Holds(t, d)' <=> Holds(t, d)
  BY Constants DEF IInv, TypeOK, HandedOver, Holds, EndInput, poolVars, input, Goto, Receiver, Forwarder
<1>4. QED
  BY <1>1, <1>2, <1>3, Keeps DEF IInv, TypeOK, EndInput, poolVars, input, Goto, Receiver, Forwarder

LEMMA SendEndMsgKeeps ==
  ASSUME IInv, NEW s \in Streams, SendEndMsg(s)
  PROVE  IInv'
<1>1. TypeOK'
  BY Constants DEF IInv, TypeOK, SendEndMsg, poolVars, input, Goto, Receiver, Forwarder
<1>2. HandedOver'
  BY Constants DEF IInv, TypeOK, HandedOver, SendEndMsg, poolVars, input, Goto, Receiver, Forwarder
<1>3. \A t \in Calls, d \in Conns : Holds(t, d)' <=> Holds(t, d)
  BY Constants DEF IInv, TypeOK, HandedOver, Holds, SendEndMsg, poolVars, input, Goto, Receiver, Forwarder
<1>4. QED
  BY <1>1, <1>2, <1>3, Keeps DEF IInv, TypeOK, SendEndMsg, poolVars, input, Goto, Receiver, Forwarder

LEMMA ProcessSendKeeps ==
  ASSUME IInv, NEW b \in Batches, ProcessSend(b)
  PROVE  IInv'
<1>1. TypeOK'
  BY Constants DEF IInv, TypeOK, ProcessSend, poolVars, input, Goto, Receiver, Forwarder
<1>2. HandedOver'
  BY Constants DEF IInv, TypeOK, HandedOver, ProcessSend, poolVars, input, Goto, Receiver, Forwarder
<1>3. \A t \in Calls, d \in Conns : Holds(t, d)' <=> Holds(t, d)
  BY Constants DEF IInv, TypeOK, HandedOver, Holds, ProcessSend, poolVars, input, Goto, Receiver, Forwarder
<1>4. QED
  BY <1>1, <1>2, <1>3, Keeps DEF IInv, TypeOK, ProcessSend, poolVars, input, Goto, Receiver, Forwarder

LEMMA ProcessResultKeeps ==
  ASSUME IInv, NEW b \in Batches, ProcessResult(b)
  PROVE  IInv'
<1>1. TypeOK'
  BY Constants DEF IInv, TypeOK, ProcessResult, poolVars, input, Goto, Receiver, Forwarder
<1>2. HandedOver'
  BY Constants DEF IInv, TypeOK, HandedOver, ProcessResult, poolVars, input, Goto, Receiver, Forwarder
<1>3. \A t \in Calls, d \in Conns : Holds(t, d)' <=> Holds(t, d)
  BY Constants DEF IInv, TypeOK, HandedOver, Holds, ProcessResult, poolVars, input, Goto, Receiver, Forwarder
<1>4. QED
  BY <1>1, <1>2, <1>3, Keeps DEF IInv, TypeOK, ProcessResult, poolVars, input, Goto, Receiver, Forwarder

LEMMA ProcessErrorKeeps ==
  ASSUME IInv, NEW b \in Batches, ProcessError(b)
  PROVE  IInv'
<1>1. TypeOK'
  BY Constants DEF IInv, TypeOK, ProcessError, poolVars, input, Goto, Receiver, Forwarder
<1>2. HandedOver'
  BY Constants DEF IInv, TypeOK, HandedOver, ProcessError, poolVars, input, Goto, Receiver, Forwarder
<1>3. \A t \in Calls, d \in Conns : Holds(t, d)' <=> Holds(t, d)
  BY Constants DEF IInv, TypeOK, HandedOver, Holds, ProcessError, poolVars, input, Goto, Receiver, Forwarder
<1>4. QED
  BY <1>1, <1>2, <1>3, Keeps DEF IInv, TypeOK, ProcessError, poolVars, input, Goto, Receiver, Forwarder

LEMMA TakeResultKeeps ==
  ASSUME IInv, NEW s \in Streams, TakeResult(s)
  PROVE  IInv'
<1>1. TypeOK'
  BY Constants DEF IInv, TypeOK, TakeResult, poolVars, input, Goto, Receiver, Forwarder
<1>2. HandedOver'
  BY Constants DEF IInv, TypeOK, HandedOver, TakeResult, poolVars, input, Goto, Receiver, Forwarder
<1>3. \A t \in Calls, d \in Conns : Holds(t, d)' <=> Holds(t, d)
  BY Constants DEF IInv, TypeOK, HandedOver, Holds, TakeResult, poolVars, input, Goto, Receiver, Forwarder
<1>4. QED
  BY <1>1, <1>2, <1>3, Keeps DEF IInv, TypeOK, TakeResult, poolVars, input, Goto, Receiver, Forwarder

LEMMA CancelKeeps ==
  ASSUME IInv, NEW s \in Streams, Cancel(s)
  PROVE  IInv'
<1>1. TypeOK'
  BY Constants DEF IInv, TypeOK, Cancel, poolVars, input, Goto, Receiver, Forwarder
<1>2. HandedOver'
  BY Constants DEF IInv, TypeOK, HandedOver, Cancel, poolVars, input, Goto, Receiver, Forwarder
<1>3. \A t \in Calls, d \in Conns : Holds(t, d)' <=> Holds(t, d)
  BY Constants DEF IInv, TypeOK, HandedOver, Holds, Cancel, poolVars, input, Goto, Receiver, Forwarder
<1>4. QED
  BY <1>1, <1>2, <1>3, Keeps DEF IInv, TypeOK, Cancel, poolVars, input, Goto, Receiver, Forwarder

LEMMA CloseAudioKeeps ==
  ASSUME IInv, NEW s \in Streams, CloseAudio(s)
  PROVE  IInv'
<1>1. TypeOK'
  BY Constants DEF IInv, TypeOK, CloseAudio, poolVars, input, Goto, Receiver, Forwarder
<1>2. HandedOver'
  BY Constants DEF IInv, TypeOK, HandedOver, CloseAudio, poolVars, input, Goto, Receiver, Forwarder
<1>3. \A t \in Calls, d \in Conns : Holds(t, d)' <=> Holds(t, d)
  BY Constants DEF IInv, TypeOK, HandedOver, Holds, CloseAudio, poolVars, input, Goto, Receiver, Forwarder
<1>4. QED
  BY <1>1, <1>2, <1>3, Keeps DEF IInv, TypeOK, CloseAudio, poolVars, input, Goto, Receiver, Forwarder

LEMMA FatalKeeps ==
  ASSUME IInv, Fatal
  PROVE  IInv'
<1>1. TypeOK'
  BY Constants DEF IInv, TypeOK, Fatal, poolVars, input, Goto, Receiver, Forwarder
<1>2. HandedOver'
  BY Constants DEF IInv, TypeOK, HandedOver, Fatal, poolVars, input, Goto, Receiver, Forwarder
<1>3. \A t \in Calls, d \in Conns : Holds(t, d)' <=> Holds(t, d)
  BY Constants DEF IInv, TypeOK, HandedOver, Holds, Fatal, poolVars, input, Goto, Receiver, Forwarder
<1>4. QED
  BY <1>1, <1>2, <1>3, Keeps DEF IInv, TypeOK, Fatal, poolVars, input, Goto, Receiver, Forwarder

LEMMA RemoveConnectionKeeps ==
  ASSUME IInv, NEW c \in Conns, RemoveConnection(c)
  PROVE  IInv'
<1>1. TypeOK'
  BY Constants DEF IInv, TypeOK, RemoveConnection, poolVars, input, Goto, Receiver, Forwarder, Drop
<1>2. HandedOver'
  BY Constants DEF IInv, TypeOK, HandedOver, RemoveConnection, poolVars, input, Goto, Receiver, Forwarder, Drop
<1>3. \A t \in Calls, d \in Conns : Holds(t, d)' <=> Holds(t, d)
  BY Constants DEF IInv, TypeOK, HandedOver, Holds, RemoveConnection, poolVars, input, Goto, Receiver, Forwarder, Drop
<1>4. QED
  BY <1>1, <1>2, <1>3, Drops DEF IInv, RemoveConnection, poolVars, input, Goto, Receiver, Forwarder, Drop

LEMMA CleanupConnectionKeeps ==
  ASSUME IInv, NEW c \in Conns, CleanupConnection(c)
  PROVE  IInv'
<1>1. TypeOK'
  BY Constants DEF IInv, TypeOK, CleanupConnection, poolVars, input, Goto, Receiver, Forwarder, Drop, Idle
<1>2. HandedOver'
  BY Constants DEF IInv, TypeOK, HandedOver, CleanupConnection, poolVars, input, Goto, Receiver, Forwarder, Drop, Idle
<1>3. \A t \in Calls, d \in Conns : Holds(t, d)' <=> Holds(t, d)
  BY Constants DEF IInv, TypeOK, HandedOver, Holds, CleanupConnection, poolVars, input, Goto, Receiver, Forwarder, Drop, Idle
<1>4. QED
  BY <1>1, <1>2, <1>3, Drops DEF IInv, CleanupConnection, poolVars, input, Goto, Receiver, Forwarder, Drop, Idle

LEMMA ProcessRemoveKeeps ==
  ASSUME IInv, NEW b \in Batches, ProcessRemove(b)
  PROVE  IInv'
<1>1. TypeOK'
  BY Constants DEF IInv, TypeOK, ProcessRemove, poolVars, input, Goto, Receiver, Forwarder, Drop
<1>2. HandedOver'
  BY Constants DEF IInv, TypeOK, HandedOver, ProcessRemove, poolVars, input, Goto, Receiver, Forwarder, Drop
<1>3. \A t \in Calls, d \in Conns : Holds(t, d)' <=> Holds(t, d)
  BY Constants DEF IInv, TypeOK, HandedOver, Holds, ProcessRemove, poolVars, input, Goto, Receiver, Forwarder, Drop
<1>4. QED
  BY <1>1, <1>2, <1>3, Drops DEF IInv, ProcessRemove, poolVars, input, Goto, Receiver, Forwarder, Drop

LEMMA ReleaseKeeps ==
  ASSUME IInv, NEW s \in Calls, Release(s)
  PROVE  IInv'
<1>1. TypeOK'
  BY Constants DEF IInv, TypeOK, Free, Release, poolVars, input, Goto, Receiver, Forwarder
<1>2. HandedOver'
  BY Constants DEF IInv, TypeOK, HandedOver, Release, poolVars, input, Goto, Receiver, Forwarder
<1>3. \A t \in Calls, d \in Conns : Holds(t, d)' <=> t # s /\ Holds(t, d)
  BY Constants DEF IInv, TypeOK, HandedOver, Holds, Release, poolVars, input, Goto, Receiver, Forwarder
<1>4. conn[s] \in Conns => Holds(s, conn[s])
  BY Constants DEF Holds, Release, poolVars, input, Goto, Receiver, Forwarder
<1>5. s \in Calls /\ Free(conn[s]) /\ UNCHANGED <<pool, socket, dialled>>
  BY Constants DEF Release, poolVars, input, Goto, Receiver, Forwarder
<1>6. QED
  BY <1>1, <1>2, <1>3, <1>4, <1>5, GivesBack DEF IInv

LEMMA ReleaseConnectionKeeps ==
  ASSUME IInv, NEW s \in Streams, ReleaseConnection(s)
  PROVE  IInv'
<1>1. TypeOK'
  BY Constants DEF IInv, TypeOK, Free, ReleaseConnection, poolVars, input, Goto, Receiver, Forwarder
<1>2. HandedOver'
  BY Constants DEF IInv, TypeOK, HandedOver, ReleaseConnection, poolVars, input, Goto, Receiver, Forwarder
<1>3. \A t \in Calls, d \in Conns : Holds(t, d)' <=> t # s /\ Holds(t, d)
  BY Constants DEF IInv, TypeOK, HandedOver, Holds, ReleaseConnection, poolVars, input, Goto, Receiver, Forwarder
<1>4. conn[s] \in Conns => Holds(s, conn[s])
  BY Constants DEF Holds, ReleaseConnection, poolVars, input, Goto, Receiver, Forwarder
<1>5. s \in Calls /\ Free(conn[s]) /\ UNCHANGED <<pool, socket, dialled>>
  BY Constants DEF ReleaseConnection, poolVars, input, Goto, Receiver, Forwarder
<1>6. QED
  BY <1>1, <1>2, <1>3, <1>4, <1>5, GivesBack DEF IInv

\* Whoever asks for a connection has none.
LEMMA AsksForOne ==
  ASSUME IInv, NEW s \in Calls, pc[s] = "get"
  PROVE  \A d \in Conns : ~Holds(s, d)
BY Constants DEF IInv, TypeOK, HandedOver, Holds

LEMMA ReuseKeeps ==
  ASSUME IInv, NEW s \in Calls, Reuse(s)
  PROVE  IInv'
<1>1. PICK c \in Idle, tried \in SUBSET Failed :
        inUse' = inUse \cup {c} /\ removing' = removing \cup tried /\ Got(s, c)
  BY DEF Reuse
<1>2. c \in Conns /\ pc[s] = "get" /\ UNCHANGED <<pool, socket, dialled, recv, fwd, results, input>>
  BY DEF Reuse, Idle, IInv, TypeOK
<1>3. TypeOK'
  BY <1>1, <1>2, Constants DEF IInv, TypeOK, Got, Goto, input, Failed, Idle
<1>4. HandedOver'
  BY <1>1, <1>2, Constants DEF IInv, TypeOK, HandedOver, Got, Goto
<1>5. \A t \in Calls, d \in Conns :
        Holds(t, d)' <=> (t = s /\ d = c) \/ (t # s /\ Holds(t, d))
  BY <1>1, <1>2, Constants DEF IInv, TypeOK, HandedOver, Holds, Got, Goto
<1>6. QED
  BY <1>1, <1>2, <1>3, <1>4, <1>5, AsksForOne, Takes DEF IInv

LEMMA DialKeeps ==
  ASSUME IInv, NEW s \in Calls, Dial(s)
  PROVE  IInv'
<1> DEFINE c == dialled + 1
<1>1. /\ pc[s] = "get" /\ Cardinality(pool) < MaxConnections /\ dialled < MaxConns
      /\ dialled' = c /\ socket' = [socket EXCEPT ![c] = "open"]
      /\ pool' = pool \cup {c} /\ inUse' = inUse \cup {c} /\ Got(s, c)
      /\ removing' = removing \cup Failed
      /\ UNCHANGED <<recv, fwd, results, input>>
  BY DEF Dial
<1>2. c \in Conns /\ dialled' \in 0 .. MaxConns
  BY <1>1, Constants DEF Conns, IInv, TypeOK
<1> HIDE DEF c
<1>3. TypeOK'
  BY <1>1, <1>2, Constants DEF IInv, TypeOK, Got, Goto, input, Failed, Idle
<1>4. HandedOver'
  BY <1>1, Constants DEF IInv, TypeOK, HandedOver, Got, Goto
<1>5. \A t \in Calls, d \in Conns :
        Holds(t, d)' <=> (t = s /\ d = c) \/ (t # s /\ Holds(t, d))
  BY <1>1, <1>2, Constants DEF IInv, TypeOK, HandedOver, Holds, Got, Goto
<1>6. Pooled'
  BY <1>1, <1>5, AsksForOne, Makes DEF IInv, c
<1>7. QED
  BY <1>3, <1>4, <1>6 DEF IInv

----------------------------------------------------------------------------
(* The theorems                                                            *)

LEMMA InitHolds == Init => IInv
<1> SUFFICES ASSUME Init PROVE IInv
  OBVIOUS
<1>1. TypeOK
  <2>1. 0 \in 0 .. MaxConns /\ 0 \in 0 .. ResultCap
    BY Constants
  <2>2. QED
    BY <2>1 DEF Init, TypeOK
<1>2. HandedOver /\ Numbered /\ InMap
  BY Constants DEF Init, HandedOver, Numbered, InMap, Conns
<1>3. Bounded
  BY FS_EmptySet, Constants DEF Init, Bounded
<1>4. Known /\ OneHolder
  BY DEF Init, Known, OneHolder, Holds
<1>5. QED
  BY <1>1, <1>2, <1>3, <1>4 DEF IInv, Pooled

LEMMA NextKeeps == IInv /\ [Next]_vars => IInv'
<1> SUFFICES ASSUME IInv, [Next]_vars PROVE IInv'
  OBVIOUS
<1>1. ASSUME NEW s \in Calls, Start(s) \/ GetConnection(s) \/ Release(s) PROVE IInv'
  BY <1>1, StartKeeps, ReuseKeeps, DialKeeps, GetFailsKeeps, ReleaseKeeps
  DEF GetConnection
<1>2. ASSUME NEW s \in Streams, FirstMessage(s) \/ RecvResult(s) PROVE IInv'
  BY <1>2, FirstMessageKeeps, ReadResultKeeps, ReadOtherKeeps, ReadErrorKeeps,
     SendResultKeeps, SendCancelledKeeps, ReleaseConnectionKeeps DEF RecvResult
<1>3. ASSUME NEW s \in Streams, ForwardStreamAudio(s) PROVE IInv'
  BY <1>3, ForwardChunkKeeps, EndInputKeeps, SendEndMsgKeeps DEF ForwardStreamAudio
<1>4. ASSUME NEW s \in Streams, TakeResult(s) \/ Cancel(s) \/ CloseAudio(s) PROVE IInv'
  BY <1>4, TakeResultKeeps, CancelKeeps, CloseAudioKeeps
<1>5. ASSUME NEW b \in Batches, Process(b) PROVE IInv'
  BY <1>5, ProcessSendKeeps, ProcessResultKeeps, ProcessErrorKeeps, ProcessRemoveKeeps
  DEF Process
<1>6. ASSUME NEW c \in Conns, Fail(c) \/ RemoveConnection(c) \/ CleanupConnection(c)
      PROVE  IInv'
  BY <1>6, FailKeeps, RemoveConnectionKeeps, CleanupConnectionKeeps
<1>7. CASE UNCHANGED vars
  <2>1. TypeOK' /\ HandedOver'
    BY <1>7 DEF IInv, TypeOK, HandedOver, vars, poolVars, input
  <2>2. \A t \in Calls, d \in Conns : Holds(t, d)' <=> Holds(t, d)
    BY <1>7 DEF Holds, vars
  <2>3. QED
    BY <1>7, <2>1, <2>2, Keeps DEF IInv, vars, poolVars
<1>8. QED
  BY <1>1, <1>2, <1>3, <1>4, <1>5, <1>6, <1>7, FatalKeeps DEF Next

THEOREM Invariance == Spec => []IInv
BY InitHolds, NextKeeps, PTL DEF Spec

\* Every variable keeps its type: no recognition gets more results into its channel
\* than it holds, no more connections are made than are numbered.
THEOREM TypeCorrect == Spec => []TypeOK
<1>1. IInv => TypeOK
  BY DEF IInv
<1>2. QED
  BY <1>1, Invariance, PTL

\* Whatever becomes of the recognitions of any number of sessions, no connection is
\* read by two of them, and none stays marked in use when its recognition is over.
THEOREM NoneShared == Spec => []OneHolder
<1>1. IInv => OneHolder
  BY DEF IInv, Pooled
<1>2. QED
  BY <1>1, Invariance, PTL

\* Any number of getConnection, removals and clean-ups keep to max_connections, and
\* what has left the map is closed.
THEOREM NoneLeaks == Spec => []AllAccountedFor
<1>1. IInv => AllAccountedFor
  BY DEF IInv, Pooled, Bounded, InMap, AllAccountedFor
<1>2. QED
  BY <1>1, Invariance, PTL

----------------------------------------------------------------------------
(* The pool of detectors                                                   *)

LEMMA VadConstants ==
  /\ VadSessionOf \in [VadGoroutines -> VadSessions]
  /\ MaxVads \in Nat \ {0}
  /\ None \notin VadGoroutines /\ None \notin Silero!Detectors
BY VadAssumption, NoneAssumption DEF Silero!Detectors

\* A step that moves no detector, and after which no session has more than before.
LEMMA NothingMoves ==
  ASSUME Silero!Alone, UNCHANGED <<hand, availableVADs, destroyed>>,
         \A s \in VadSessions, v \in Silero!Detectors : Silero!Has(s, v)' => Silero!Has(s, v)
  PROVE  Silero!Alone'
BY DEF Silero!Alone

\* Vad.lock is taken, and given back, by a goroutine for its own session.
LEMMA LockTaken ==
  ASSUME Silero!TypeOK, Silero!Locked, NEW g \in VadGoroutines, NEW next,
         Silero!Lock(g), Silero!Goto(g, next),
         next \in {"acquire", "store", "load", "delete", "put", "clear"}
  PROVE  Silero!Locked'
<1>1. \A h \in VadGoroutines : VadSessionOf[h] \in VadSessions
  BY VadConstants
<1>2. vadStep'[g] = next /\ \A h \in VadGoroutines \ {g} : vadStep'[h] = vadStep[h]
  BY DEF Silero!TypeOK, Silero!Goto
<1>3. /\ lock[VadSessionOf[g]] = None
      /\ \A s \in VadSessions : lock'[s] = IF s = VadSessionOf[g] THEN g ELSE lock[s]
  BY <1>1 DEF Silero!TypeOK, Silero!Lock
<1> QED BY <1>1, <1>2, <1>3, VadConstants DEF Silero!Locked

LEMMA LockGivenBack ==
  ASSUME Silero!TypeOK, Silero!Locked, NEW g \in VadGoroutines,
         Silero!Unlock(g), Silero!Goto(g, "idle"),
         vadStep[g] \in {"acquire", "store", "load", "delete", "put", "clear"}
  PROVE  Silero!Locked'
<1>1. \A h \in VadGoroutines : VadSessionOf[h] \in VadSessions
  BY VadConstants
<1>2. vadStep'[g] = "idle" /\ \A h \in VadGoroutines \ {g} : vadStep'[h] = vadStep[h]
  BY DEF Silero!TypeOK, Silero!Goto
<1>3. /\ lock[VadSessionOf[g]] = g
      /\ \A s \in VadSessions : lock'[s] = IF s = VadSessionOf[g] THEN None ELSE lock[s]
  BY <1>1 DEF Silero!TypeOK, Silero!Unlock, Silero!Locked
<1> QED BY <1>1, <1>2, <1>3, VadConstants DEF Silero!Locked

LEMMA InitVadPoolKeeps ==
  ASSUME Silero!IInv, Silero!InitVadPool
  PROVE  Silero!IInv'
<1> USE VadConstants DEF Silero!IInv, Silero!InitVadPool, Silero!pool
<1>1. Silero!TypeOK'
  BY DEF Silero!TypeOK
<1>2. Silero!Locked'
  BY DEF Silero!TypeOK, Silero!Locked
<1>3. Silero!InHand' /\ Silero!Fresh'
  BY DEF Silero!TypeOK, Silero!InHand, Silero!Fresh
<1>4. Silero!Returning'
  BY DEF Silero!TypeOK, Silero!Locked, Silero!Returning
<1>5. \A s \in VadSessions, v \in Silero!Detectors : Silero!Has(s, v)' => Silero!Has(s, v)
  BY DEF Silero!TypeOK, Silero!Locked, Silero!Has
<1>6. Silero!Alone'
  BY <1>5, NothingMoves
<1> QED BY <1>1, <1>2, <1>3, <1>4, <1>6

LEMMA NeedsVadKeeps ==
  ASSUME Silero!IInv, NEW g \in VadGoroutines, Silero!NeedsVad(g)
  PROVE  Silero!IInv'
<1> USE VadConstants DEF Silero!IInv, Silero!NeedsVad, Silero!pool
<1>1. Silero!TypeOK'
  BY DEF Silero!TypeOK, Silero!Goto
<1>2. Silero!Locked'
  BY DEF Silero!TypeOK, Silero!Locked, Silero!Goto
<1>3. Silero!InHand' /\ Silero!Fresh'
  BY DEF Silero!TypeOK, Silero!InHand, Silero!Fresh, Silero!Goto
<1>4. Silero!Returning'
  BY DEF Silero!TypeOK, Silero!Locked, Silero!Returning, Silero!Goto
<1>5. \A s \in VadSessions, v \in Silero!Detectors : Silero!Has(s, v)' => Silero!Has(s, v)
  BY DEF Silero!TypeOK, Silero!Locked, Silero!Has, Silero!Goto
<1>6. Silero!Alone'
  BY <1>5, NothingMoves
<1> QED BY <1>1, <1>2, <1>3, <1>4, <1>6

LEMMA InitVadKeeps ==
  ASSUME Silero!IInv, NEW g \in VadGoroutines, Silero!InitVad(g)
  PROVE  Silero!IInv'
<1> USE VadConstants DEF Silero!IInv, Silero!InitVad, Silero!pool
<1>1. Silero!TypeOK'
  BY DEF Silero!TypeOK, Silero!Goto, Silero!Lock, Silero!Provider
<1>2. Silero!Locked'
  BY LockTaken
<1>3. Silero!InHand' /\ Silero!Fresh'
  BY DEF Silero!TypeOK, Silero!InHand, Silero!Fresh, Silero!Goto, Silero!Lock, Silero!Provider
<1>4. Silero!Returning'
  BY DEF Silero!TypeOK, Silero!Locked, Silero!Returning, Silero!Goto, Silero!Lock, Silero!Provider
<1>5. \A s \in VadSessions, v \in Silero!Detectors : Silero!Has(s, v)' => Silero!Has(s, v)
  BY DEF Silero!TypeOK, Silero!Locked, Silero!Has, Silero!Goto, Silero!Lock, Silero!Provider
<1>6. Silero!Alone'
  BY <1>5, NothingMoves
<1> QED BY <1>1, <1>2, <1>3, <1>4, <1>6

LEMMA AcquireFailsKeeps ==
  ASSUME Silero!IInv, NEW g \in VadGoroutines, Silero!AcquireFails(g)
  PROVE  Silero!IInv'
<1> USE VadConstants DEF Silero!IInv, Silero!AcquireFails, Silero!pool
<1>1. Silero!TypeOK'
  BY DEF Silero!TypeOK, Silero!Goto, Silero!Unlock, Silero!Provider, Silero!SetProvider
<1>2. Silero!Locked'
  BY LockGivenBack
<1>3. Silero!InHand' /\ Silero!Fresh'
  BY DEF Silero!TypeOK, Silero!InHand, Silero!Fresh, Silero!Goto, Silero!Unlock, Silero!Provider, Silero!SetProvider
<1>4. Silero!Returning'
  BY DEF Silero!TypeOK, Silero!Locked, Silero!Returning, Silero!Goto, Silero!Unlock, Silero!Provider, Silero!SetProvider
<1>5. \A s \in VadSessions, v \in Silero!Detectors : Silero!Has(s, v)' => Silero!Has(s, v)
  BY DEF Silero!TypeOK, Silero!Locked, Silero!Has, Silero!Goto, Silero!Unlock, Silero!Provider, Silero!SetProvider
<1>6. Silero!Alone'
  BY <1>5, NothingMoves
<1> QED BY <1>1, <1>2, <1>3, <1>4, <1>6

LEMMA StartResetKeeps ==
  ASSUME Silero!IInv, NEW g \in VadGoroutines, Silero!StartReset(g)
  PROVE  Silero!IInv'
<1> USE VadConstants DEF Silero!IInv, Silero!StartReset, Silero!pool
<1>1. Silero!TypeOK'
  BY DEF Silero!TypeOK, Silero!Goto
<1>2. Silero!Locked'
  BY DEF Silero!TypeOK, Silero!Locked, Silero!Goto
<1>3. Silero!InHand' /\ Silero!Fresh'
  BY DEF Silero!TypeOK, Silero!InHand, Silero!Fresh, Silero!Goto
<1>4. Silero!Returning'
  BY DEF Silero!TypeOK, Silero!Locked, Silero!Returning, Silero!Goto
<1>5. \A s \in VadSessions, v \in Silero!Detectors : Silero!Has(s, v)' => Silero!Has(s, v)
  BY DEF Silero!TypeOK, Silero!Locked, Silero!Has, Silero!Goto
<1>6. Silero!Alone'
  BY <1>5, NothingMoves
<1> QED BY <1>1, <1>2, <1>3, <1>4, <1>6

LEMMA ResetVadKeeps ==
  ASSUME Silero!IInv, NEW g \in VadGoroutines, Silero!ResetVad(g)
  PROVE  Silero!IInv'
<1> USE VadConstants DEF Silero!IInv, Silero!ResetVad, Silero!pool
<1>1. Silero!TypeOK'
  BY DEF Silero!TypeOK, Silero!Goto, Silero!Lock, Silero!Provider
<1>2. Silero!Locked'
  BY LockTaken
<1>3. Silero!InHand' /\ Silero!Fresh'
  BY DEF Silero!TypeOK, Silero!InHand, Silero!Fresh, Silero!Goto, Silero!Lock, Silero!Provider
<1>4. Silero!Returning'
  BY DEF Silero!TypeOK, Silero!Locked, Silero!Returning, Silero!Goto, Silero!Lock, Silero!Provider
<1>5. \A s \in VadSessions, v \in Silero!Detectors : Silero!Has(s, v)' => Silero!Has(s, v)
  BY DEF Silero!TypeOK, Silero!Locked, Silero!Has, Silero!Goto, Silero!Lock, Silero!Provider
<1>6. Silero!Alone'
  BY <1>5, NothingMoves
<1> QED BY <1>1, <1>2, <1>3, <1>4, <1>6

LEMMA UseVadKeeps ==
  ASSUME Silero!IInv, NEW g \in VadGoroutines, Silero!UseVad(g)
  PROVE  Silero!IInv'
<1> USE VadConstants DEF Silero!IInv, Silero!UseVad, Silero!pool
<1>1. Silero!TypeOK'
  BY DEF Silero!TypeOK, Silero!Goto, Silero!Provider
<1>2. Silero!Locked'
  BY DEF Silero!TypeOK, Silero!Locked, Silero!Goto
<1>3. Silero!InHand' /\ Silero!Fresh'
  BY DEF Silero!TypeOK, Silero!InHand, Silero!Fresh, Silero!Goto, Silero!Provider
<1>4. Silero!Returning'
  BY DEF Silero!TypeOK, Silero!Locked, Silero!Returning, Silero!Goto, Silero!Provider
<1>5. \A s \in VadSessions, v \in Silero!Detectors : Silero!Has(s, v)' => Silero!Has(s, v)
  BY DEF Silero!TypeOK, Silero!Locked, Silero!Has, Silero!Goto, Silero!Provider
<1>6. Silero!Alone'
  BY <1>5, NothingMoves
<1> QED BY <1>1, <1>2, <1>3, <1>4, <1>6

LEMMA IsVADExtKeeps ==
  ASSUME Silero!IInv, NEW g \in VadGoroutines, Silero!IsVADExt(g)
  PROVE  Silero!IInv'
<1> USE VadConstants DEF Silero!IInv, Silero!IsVADExt, Silero!pool
<1>1. Silero!TypeOK'
  BY DEF Silero!TypeOK, Silero!Goto, Silero!Provider
<1>2. Silero!Locked'
  BY DEF Silero!TypeOK, Silero!Locked, Silero!Goto
<1>3. Silero!InHand' /\ Silero!Fresh'
  BY DEF Silero!TypeOK, Silero!InHand, Silero!Fresh, Silero!Goto, Silero!Provider
<1>4. Silero!Returning'
  BY DEF Silero!TypeOK, Silero!Locked, Silero!Returning, Silero!Goto, Silero!Provider
<1>5. \A s \in VadSessions, v \in Silero!Detectors : Silero!Has(s, v)' => Silero!Has(s, v)
  BY DEF Silero!TypeOK, Silero!Locked, Silero!Has, Silero!Goto, Silero!Provider
<1>6. Silero!Alone'
  BY <1>5, NothingMoves
<1> QED BY <1>1, <1>2, <1>3, <1>4, <1>6

LEMMA NilProviderKeeps ==
  ASSUME Silero!IInv, NEW g \in VadGoroutines, Silero!NilProvider(g)
  PROVE  Silero!IInv'
BY DEF Silero!NilProvider, Silero!pool, Silero!IInv, Silero!TypeOK, Silero!Locked,
   Silero!InHand, Silero!Returning, Silero!Fresh, Silero!Alone, Silero!Has

LEMMA LoadAllocatedKeeps ==
  ASSUME Silero!IInv, NEW g \in VadGoroutines, Silero!LoadAllocated(g)
  PROVE  Silero!IInv'
<1> USE VadConstants DEF Silero!IInv, Silero!LoadAllocated, Silero!pool
<1>1. Silero!TypeOK'
  BY DEF Silero!TypeOK, Silero!Goto, Silero!Provider
<1>2. Silero!Locked'
  BY DEF Silero!TypeOK, Silero!Locked, Silero!Goto
<1>3. Silero!InHand' /\ Silero!Fresh'
  BY DEF Silero!TypeOK, Silero!InHand, Silero!Fresh, Silero!Goto, Silero!Provider
<1>4. Silero!Returning'
  BY DEF Silero!TypeOK, Silero!Locked, Silero!Returning, Silero!Goto, Silero!Provider
<1>5. \A s \in VadSessions, v \in Silero!Detectors : Silero!Has(s, v)' => Silero!Has(s, v)
  BY DEF Silero!TypeOK, Silero!Locked, Silero!Has, Silero!Goto, Silero!Provider
<1>6. Silero!Alone'
  BY <1>5, NothingMoves
<1> QED BY <1>1, <1>2, <1>3, <1>4, <1>6

LEMMA DeleteAllocatedKeeps ==
  ASSUME Silero!IInv, NEW g \in VadGoroutines, Silero!DeleteAllocated(g)
  PROVE  Silero!IInv'
<1> USE VadConstants DEF Silero!IInv, Silero!DeleteAllocated, Silero!pool
<1>1. Silero!TypeOK'
  BY DEF Silero!TypeOK, Silero!Goto, Silero!Provider
<1>2. Silero!Locked'
  BY DEF Silero!TypeOK, Silero!Locked, Silero!Goto
<1>3. Silero!InHand' /\ Silero!Fresh'
  BY DEF Silero!TypeOK, Silero!InHand, Silero!Fresh, Silero!Goto, Silero!Provider
<1>4. Silero!Returning'
  BY DEF Silero!TypeOK, Silero!Locked, Silero!Returning, Silero!Goto, Silero!Provider
<1>5. \A s \in VadSessions, v \in Silero!Detectors : Silero!Has(s, v)' => Silero!Has(s, v)
  BY DEF Silero!TypeOK, Silero!Locked, Silero!Has, Silero!Goto, Silero!Provider
<1>6. Silero!Alone'
  BY <1>5, NothingMoves
<1> QED BY <1>1, <1>2, <1>3, <1>4, <1>6

LEMMA ClearProviderKeeps ==
  ASSUME Silero!IInv, NEW g \in VadGoroutines, Silero!ClearProvider(g)
  PROVE  Silero!IInv'
<1> USE VadConstants DEF Silero!IInv, Silero!ClearProvider, Silero!pool
<1>1. Silero!TypeOK'
  BY DEF Silero!TypeOK, Silero!Goto, Silero!Unlock, Silero!Provider, Silero!SetProvider
<1>2. Silero!Locked'
  BY LockGivenBack
<1>3. Silero!InHand' /\ Silero!Fresh'
  BY DEF Silero!TypeOK, Silero!InHand, Silero!Fresh, Silero!Goto, Silero!Unlock, Silero!Provider, Silero!SetProvider
<1>4. Silero!Returning'
  BY DEF Silero!TypeOK, Silero!Locked, Silero!Returning, Silero!Goto, Silero!Unlock, Silero!Provider, Silero!SetProvider
<1>5. \A s \in VadSessions, v \in Silero!Detectors : Silero!Has(s, v)' => Silero!Has(s, v)
  BY DEF Silero!TypeOK, Silero!Locked, Silero!Has, Silero!Goto, Silero!Unlock, Silero!Provider, Silero!SetProvider
<1>6. Silero!Alone'
  BY <1>5, NothingMoves
<1> QED BY <1>1, <1>2, <1>3, <1>4, <1>6

LEMMA CreateVADKeeps ==
  ASSUME Silero!IInv, Silero!CreateVAD
  PROVE  Silero!IInv'
<1> USE VadConstants DEF Silero!IInv, Silero!CreateVAD
<1> DEFINE n == Len(availableVADs)
<1>1. /\ n \in Nat /\ n < MaxVads /\ DOMAIN availableVADs = 1 .. n
      /\ \A i \in 1 .. n : availableVADs[i] = i
  BY DEF Silero!TypeOK, Silero!Fresh
<1>2. /\ availableVADs' \in Seq(Silero!Detectors) /\ Len(availableVADs') = n + 1
      /\ DOMAIN availableVADs' = 1 .. n + 1
      /\ \A i \in 1 .. n + 1 : availableVADs'[i] = i
  BY <1>1, AppendProperties DEF Silero!TypeOK, Silero!Detectors
<1>3. Silero!TypeOK'
  BY <1>1, <1>2 DEF Silero!TypeOK
<1>4. Silero!Locked' /\ Silero!InHand' /\ Silero!Returning'
  BY DEF Silero!Locked, Silero!InHand, Silero!Returning
<1>5. Silero!Fresh'
  BY <1>1, <1>2 DEF Silero!Fresh, Silero!TypeOK
<1>6. Silero!Alone'
  BY <1>2 DEF Silero!Alone, Silero!Fresh, Silero!Has
<1> QED BY <1>3, <1>4, <1>5, <1>6

LEMMA CreateFailsKeeps ==
  ASSUME Silero!IInv, Silero!CreateFails
  PROVE  Silero!IInv'
<1> USE VadConstants DEF Silero!IInv, Silero!CreateFails
<1>1. Silero!ToSet(availableVADs) \subseteq Silero!Detectors
  BY DEF Silero!TypeOK, Silero!ToSet
<1>2. Silero!TypeOK'
  BY <1>1 DEF Silero!TypeOK
<1>3. Silero!Locked' /\ Silero!InHand' /\ Silero!Returning'
  BY DEF Silero!Locked, Silero!InHand, Silero!Returning
<1>4. Silero!Fresh' /\ Silero!Alone'
  BY DEF Silero!Fresh, Silero!Alone, Silero!Has
<1> QED BY <1>2, <1>3, <1>4

LEMMA AcquireVADKeeps ==
  ASSUME Silero!IInv, NEW g \in VadGoroutines, Silero!AcquireVAD(g)
  PROVE  Silero!IInv'
<1> USE VadConstants DEF Silero!IInv, Silero!AcquireVAD
<1> DEFINE n == Len(availableVADs)
           v == availableVADs[1]
<1>1. /\ n \in Nat \ {0} /\ DOMAIN availableVADs = 1 .. n
      /\ v \in Silero!Detectors /\ Head(availableVADs) = v
  BY DEF Silero!TypeOK
<1>2. /\ availableVADs' \in Seq(Silero!Detectors)
      /\ Len(availableVADs') = n - 1 /\ DOMAIN availableVADs' = 1 .. n - 1
      /\ \A i \in 1 .. n - 1 : availableVADs'[i] = availableVADs[i + 1]
  BY <1>1, HeadTailProperties DEF Silero!TypeOK
<1>3. hand' = [hand EXCEPT ![g] = v] /\ Silero!Goto(g, "store")
  BY <1>1
<1>4. \A h \in VadGoroutines : hand'[h] = IF h = g THEN v ELSE hand[h]
  BY <1>3 DEF Silero!TypeOK
<1>5. \A h \in VadGoroutines : vadStep'[h] = IF h = g THEN "store" ELSE vadStep[h]
  BY <1>3 DEF Silero!TypeOK, Silero!Goto
<1>6. Silero!TypeOK'
  BY <1>1, <1>2, <1>3 DEF Silero!TypeOK, Silero!Goto
<1>7. Silero!Locked' /\ Silero!Returning'
  BY <1>5 DEF Silero!Locked, Silero!Returning
<1>8. Silero!InHand' /\ Silero!Fresh'
  BY <1>1, <1>4, <1>5 DEF Silero!InHand, Silero!Fresh
<1>9. \A s \in VadSessions, w \in Silero!Detectors : Silero!Has(s, w)' => Silero!Has(s, w)
  BY <1>5 DEF Silero!Has, Silero!TypeOK
<1>10. Silero!Alone'
  BY <1>1, <1>2, <1>4, <1>9 DEF Silero!Alone
<1> QED BY <1>6, <1>7, <1>8, <1>10

LEMMA StoreVadKeeps ==
  ASSUME Silero!IInv, NEW g \in VadGoroutines, Silero!StoreVad(g)
  PROVE  Silero!IInv'
<1> USE VadConstants DEF Silero!IInv, Silero!StoreVad
<1> DEFINE r == VadSessionOf[g]
           v == hand[g]
<1>1. r \in VadSessions /\ v \in Silero!Detectors /\ initialized = "yes"
  BY DEF Silero!TypeOK, Silero!InHand, Silero!Fresh
<1>2. \A h \in VadGoroutines : hand'[h] = IF h = g THEN None ELSE hand[h]
  BY DEF Silero!TypeOK
<1>3. \A h \in VadGoroutines : vadStep'[h] = IF h = g THEN "idle" ELSE vadStep[h]
  BY DEF Silero!TypeOK, Silero!Goto
<1>4. \A s \in VadSessions : VadProvider'[s] = IF s = r THEN v ELSE VadProvider[s]
  BY DEF Silero!TypeOK, Silero!SetProvider
<1>5. \A s \in VadSessions : lock'[s] = IF s = r THEN None ELSE lock[s]
  BY DEF Silero!TypeOK, Silero!Unlock
<1>6. Silero!TypeOK'
  BY <1>1 DEF Silero!TypeOK, Silero!SetProvider, Silero!Unlock, Silero!Goto
<1>7. Silero!Locked'
  BY LockGivenBack
<1>8. Silero!InHand' /\ Silero!Returning' /\ Silero!Fresh'
  BY <1>1, <1>2, <1>3, <1>4 DEF Silero!InHand, Silero!Returning, Silero!Fresh
<1>9. ASSUME NEW s \in VadSessions, NEW w \in Silero!Detectors, Silero!Has(s, w)'
      PROVE  IF s = r THEN w = v ELSE Silero!Has(s, w)
  BY <1>3, <1>4, <1>5, <1>9 DEF Silero!Has, Silero!Locked, Silero!TypeOK
<1>10. Silero!Alone'
  BY <1>1, <1>2, <1>9 DEF Silero!Alone
<1> QED BY <1>6, <1>7, <1>8, <1>10

LEMMA PutBackKeeps ==
  ASSUME Silero!IInv, NEW g \in VadGoroutines, Silero!PutBack(g)
  PROVE  Silero!IInv'
<1> USE VadConstants DEF Silero!IInv, Silero!PutBack
<1> DEFINE n == Len(availableVADs)
           r == VadSessionOf[g]
           v == VadProvider[r]
<1>1. r \in VadSessions /\ lock[r] = g /\ v \in Silero!Detectors
  BY DEF Silero!Locked, Silero!Returning, Silero!TypeOK
<1>2. Silero!Provider(g) = v
  BY DEF Silero!Provider
<1>3. initialized = "yes" /\ Silero!Has(r, v)
  BY <1>1 DEF Silero!Fresh, Silero!Has, Silero!TypeOK
<1>4. \A h \in VadGoroutines : vadStep'[h] = IF h = g THEN "clear" ELSE vadStep[h]
  BY DEF Silero!TypeOK, Silero!Goto
<1>5. Silero!Locked' /\ Silero!InHand' /\ Silero!Returning' /\ Silero!Fresh'
  BY <1>3, <1>4 DEF Silero!Locked, Silero!InHand, Silero!Returning, Silero!Fresh
<1>6. ASSUME NEW s \in VadSessions, NEW w \in Silero!Detectors, Silero!Has(s, w)'
      PROVE  Silero!Has(s, w) /\ s # r /\ w # v
  <2>1. Silero!Has(s, w) /\ s # r
    BY <1>1, <1>4, <1>6 DEF Silero!Has, Silero!TypeOK
  <2>2. w # v
    BY <2>1, <1>1, <1>3 DEF Silero!Alone
  <2> QED BY <2>1, <2>2
<1>7. CASE n < MaxVads
  <2>0. availableVADs' = Append(availableVADs, v)
    BY <1>2, <1>7
  <2>1. /\ n \in Nat /\ availableVADs' \in Seq(Silero!Detectors)
        /\ Len(availableVADs') = n + 1
        /\ DOMAIN availableVADs = 1 .. n /\ DOMAIN availableVADs' = 1 .. n + 1
        /\ \A i \in 1 .. n : availableVADs'[i] = availableVADs[i]
        /\ availableVADs'[n + 1] = v
    BY <1>1, <2>0, AppendProperties DEF Silero!TypeOK
  <2>2. Silero!TypeOK'
    BY <1>7, <2>1 DEF Silero!TypeOK, Silero!Goto
  <2>3. Silero!Alone'
    BY <1>1, <1>3, <1>6, <1>7, <2>1 DEF Silero!Alone
  <2> QED BY <1>5, <2>2, <2>3
<1>8. CASE ~(n < MaxVads)
  <2>1. destroyed' = destroyed \cup {v} /\ UNCHANGED availableVADs
    BY <1>2, <1>8
  <2>2. Silero!TypeOK'
    BY <1>1, <2>1 DEF Silero!TypeOK, Silero!Goto
  <2>3. Silero!Alone'
    BY <1>1, <1>3, <1>6, <2>1 DEF Silero!Alone
  <2> QED BY <1>5, <2>2, <2>3
<1> QED BY <1>7, <1>8

LEMMA SileroInit == Silero!Init => Silero!IInv
<1> SUFFICES ASSUME Silero!Init PROVE Silero!IInv
  OBVIOUS
<1> USE VadConstants DEF Silero!Init
<1>1. vadCrashed \in BOOLEAN
  BY Zenon
<1> QED
  BY <1>1 DEF Silero!IInv, Silero!TypeOK, Silero!Locked, Silero!InHand, Silero!Returning,
     Silero!Fresh, Silero!Alone, Silero!Has

LEMMA SileroUntouched ==
  ASSUME Silero!IInv, UNCHANGED Silero!vars
  PROVE  Silero!IInv'
BY DEF Silero!vars, Silero!pool, Silero!IInv, Silero!TypeOK, Silero!Locked, Silero!InHand,
   Silero!Returning, Silero!Fresh, Silero!Alone, Silero!Has

LEMMA SileroNext ==
  ASSUME Silero!IInv, Silero!Next
  PROVE  Silero!IInv'
<1>1. CASE Silero!InitVadPool \/ Silero!CreateVAD \/ Silero!CreateFails
  BY <1>1, InitVadPoolKeeps, CreateVADKeeps, CreateFailsKeeps
<1>2. CASE \E g \in VadGoroutines :
             \/ Silero!NeedsVad(g) \/ Silero!InitVad(g) \/ Silero!AcquireVAD(g)
             \/ Silero!AcquireFails(g) \/ Silero!StoreVad(g) \/ Silero!StartReset(g)
             \/ Silero!ResetVad(g) \/ Silero!LoadAllocated(g) \/ Silero!DeleteAllocated(g)
             \/ Silero!PutBack(g) \/ Silero!ClearProvider(g)
             \/ Silero!UseVad(g) \/ Silero!IsVADExt(g) \/ Silero!NilProvider(g)
  BY <1>2, NeedsVadKeeps, InitVadKeeps, AcquireVADKeeps, AcquireFailsKeeps, StoreVadKeeps,
     StartResetKeeps, ResetVadKeeps, LoadAllocatedKeeps, DeleteAllocatedKeeps,
     PutBackKeeps, ClearProviderKeeps, UseVadKeeps, IsVADExtKeeps, NilProviderKeeps
<1> QED BY <1>1, <1>2 DEF Silero!Next

LEMMA AloneSuffices ==
  ASSUME Silero!Alone
  PROVE  Silero!DetectorInOnePlace
<1>1. \A s \in VadSessions, v \in Silero!Detectors : Silero!Owns(s, v) => Silero!Has(s, v)
  BY DEF Silero!Owns, Silero!Has
<1>2. ASSUME NEW v \in Silero!Detectors,
             NEW p \in Silero!Places(v), NEW q \in Silero!Places(v)
      PROVE  p = q
  BY <1>1 DEF Silero!Places, Silero!Alone
<1> QED BY <1>2 DEF Silero!DetectorInOnePlace

----------------------------------------------------------------------------
(* The global MCP manager                                                  *)

LEMMA GlobalConstants ==
  /\ MaxAttempts \in Nat /\ MaxClients \in Nat
  /\ None \notin Nat /\ None \notin Global!Goroutines /\ None \notin Lists
  /\ {Monitor} \cup Checks \cup Callers = Global!Goroutines
BY GlobalAssumption, NoneAssumption DEF Global!Goroutines

LEMMA DisconnectKeeps ==
  ASSUME Global!IInv, NEW g \in Global!Goroutines, Global!Disconnect(g)
  PROVE  Global!IInv'
<1> USE GlobalConstants DEF Global!IInv, Global!Disconnect, Global!Goto, Global!conn
<1>1. Global!TypeOK'
  BY DEF Global!TypeOK, Global!Steps, Global!Clients, Global!Tools, Global!Answered
<1>2. Global!OneUpdates' /\ Global!Answered'
  BY DEF Global!TypeOK, Global!OneUpdates, Global!Answered
<1>3. Global!TablesAgree'
  BY DEF Global!TablesAgree
<1> QED BY <1>1, <1>2, <1>3

LEMMA NeedsClientKeeps ==
  ASSUME Global!IInv, NEW g \in Global!Goroutines, Global!NeedsClient(g)
  PROVE  Global!IInv'
<1> USE GlobalConstants DEF Global!IInv, Global!NeedsClient, Global!Goto, Global!conn
<1>1. Global!TypeOK'
  BY DEF Global!TypeOK, Global!Steps, Global!Clients, Global!Tools, Global!Answered
<1>2. Global!OneUpdates' /\ Global!Answered'
  BY DEF Global!TypeOK, Global!OneUpdates, Global!Answered
<1>3. Global!TablesAgree'
  BY DEF Global!TablesAgree
<1> QED BY <1>1, <1>2, <1>3

LEMMA NewClientKeeps ==
  ASSUME Global!IInv, NEW g \in Global!Goroutines, Global!NewClient(g)
  PROVE  Global!IInv'
<1> USE GlobalConstants DEF Global!IInv, Global!NewClient, Global!Goto, Global!conn
<1>1. Global!TypeOK'
  BY DEF Global!TypeOK, Global!Steps, Global!Clients, Global!Tools, Global!Answered
<1>2. Global!OneUpdates' /\ Global!Answered'
  BY DEF Global!TypeOK, Global!OneUpdates, Global!Answered
<1>3. Global!TablesAgree'
  BY DEF Global!TablesAgree
<1> QED BY <1>1, <1>2, <1>3

LEMMA ConnectFailsKeeps ==
  ASSUME Global!IInv, NEW g \in Global!Goroutines, Global!ConnectFails(g)
  PROVE  Global!IInv'
<1> USE GlobalConstants DEF Global!IInv, Global!ConnectFails, Global!Goto, Global!conn, Global!Return
<1>1. Global!TypeOK'
  BY DEF Global!TypeOK, Global!Steps, Global!Clients, Global!Tools, Global!Answered
<1>2. Global!OneUpdates' /\ Global!Answered'
  BY DEF Global!TypeOK, Global!OneUpdates, Global!Answered
<1>3. Global!TablesAgree'
  BY DEF Global!TablesAgree
<1> QED BY <1>1, <1>2, <1>3

LEMMA StartClientKeeps ==
  ASSUME Global!IInv, NEW g \in Global!Goroutines, Global!StartClient(g)
  PROVE  Global!IInv'
<1> USE GlobalConstants DEF Global!IInv, Global!StartClient, Global!Goto, Global!conn
<1>1. Global!TypeOK'
  BY DEF Global!TypeOK, Global!Steps, Global!Clients, Global!Tools, Global!Answered
<1>2. Global!OneUpdates' /\ Global!Answered'
  BY DEF Global!TypeOK, Global!OneUpdates, Global!Answered
<1>3. Global!TablesAgree'
  BY DEF Global!TablesAgree
<1> QED BY <1>1, <1>2, <1>3

LEMMA InitializeKeeps ==
  ASSUME Global!IInv, NEW g \in Global!Goroutines, Global!Initialize(g)
  PROVE  Global!IInv'
<1> USE GlobalConstants DEF Global!IInv, Global!Initialize, Global!Goto, Global!conn
<1>1. Global!TypeOK'
  BY DEF Global!TypeOK, Global!Steps, Global!Clients, Global!Tools, Global!Answered
<1>2. Global!OneUpdates' /\ Global!Answered'
  BY DEF Global!TypeOK, Global!OneUpdates, Global!Answered
<1>3. Global!TablesAgree'
  BY DEF Global!TablesAgree
<1> QED BY <1>1, <1>2, <1>3

LEMMA FinishKeeps ==
  ASSUME Global!IInv, NEW g \in Global!Goroutines, Global!Finish(g)
  PROVE  Global!IInv'
<1> USE GlobalConstants DEF Global!IInv, Global!Finish
<1>1. PICK next \in {"again", "idle"} : globalStep' = [globalStep EXCEPT ![g] = next]
  BY DEF Global!Goto
<1>2. Global!TypeOK'
  BY <1>1 DEF Global!TypeOK, Global!Steps
<1>3. Global!OneUpdates' /\ Global!Answered'
  BY <1>1 DEF Global!TypeOK, Global!OneUpdates, Global!Answered
<1>4. Global!TablesAgree'
  BY DEF Global!TablesAgree
<1> QED BY <1>2, <1>3, <1>4

LEMMA CallAgainKeeps ==
  ASSUME Global!IInv, NEW c \in Callers, Global!CallAgain(c)
  PROVE  Global!IInv'
<1> USE GlobalConstants DEF Global!IInv, Global!CallAgain, Global!Goto, Global!conn
<1>1. Global!TypeOK'
  BY DEF Global!TypeOK, Global!Steps, Global!Clients, Global!Tools, Global!Answered
<1>2. Global!OneUpdates' /\ Global!Answered'
  BY DEF Global!TypeOK, Global!OneUpdates, Global!Answered
<1>3. Global!TablesAgree'
  BY DEF Global!TablesAgree
<1> QED BY <1>1, <1>2, <1>3

LEMMA ListToolsKeeps ==
  ASSUME Global!IInv, NEW g \in Global!Goroutines, Global!ListTools(g)
  PROVE  Global!IInv'
<1> USE GlobalConstants DEF Global!IInv, Global!ListTools, Global!Goto, Global!conn
<1>1. Global!TypeOK'
  BY DEF Global!TypeOK, Global!Steps, Global!Clients, Global!Tools, Global!Answered
<1>2. Global!OneUpdates' /\ Global!Answered'
  BY DEF Global!TypeOK, Global!OneUpdates, Global!Answered
<1>3. Global!TablesAgree'
  BY DEF Global!TablesAgree
<1> QED BY <1>1, <1>2, <1>3

LEMMA ListFailsKeeps ==
  ASSUME Global!IInv, NEW g \in Global!Goroutines, Global!ListFails(g)
  PROVE  Global!IInv'
<1> USE GlobalConstants DEF Global!IInv, Global!ListFails, Global!Goto, Global!conn
<1>1. Global!TypeOK'
  BY DEF Global!TypeOK, Global!Steps, Global!Clients, Global!Tools, Global!Answered
<1>2. Global!OneUpdates' /\ Global!Answered'
  BY DEF Global!TypeOK, Global!OneUpdates, Global!Answered
<1>3. Global!TablesAgree'
  BY DEF Global!TablesAgree
<1> QED BY <1>1, <1>2, <1>3

LEMMA SetToolsKeeps ==
  ASSUME Global!IInv, NEW g \in Global!Goroutines, Global!SetTools(g)
  PROVE  Global!IInv'
<1> USE GlobalConstants DEF Global!IInv, Global!SetTools, Global!Goto, Global!conn
<1>1. Global!TypeOK'
  BY DEF Global!TypeOK, Global!Steps, Global!Clients, Global!Tools, Global!Answered
<1>2. Global!OneUpdates' /\ Global!Answered'
  BY DEF Global!TypeOK, Global!OneUpdates, Global!Answered
<1>3. Global!TablesAgree'
  BY DEF Global!TablesAgree
<1> QED BY <1>1, <1>2, <1>3

LEMMA UpdateGlobalToolsKeeps ==
  ASSUME Global!IInv, NEW g \in Global!Goroutines, Global!UpdateGlobalTools(g)
  PROVE  Global!IInv'
<1> USE GlobalConstants DEF Global!IInv, Global!UpdateGlobalTools, Global!Goto, Global!conn
<1>1. Global!TypeOK'
  BY DEF Global!TypeOK, Global!Steps, Global!Clients, Global!Tools, Global!Answered
<1>2. Global!OneUpdates' /\ Global!Answered'
  BY DEF Global!TypeOK, Global!OneUpdates, Global!Answered
<1>3. Global!TablesAgree'
  BY DEF Global!TablesAgree
<1> QED BY <1>1, <1>2, <1>3

LEMMA CheckAndReconnectKeeps ==
  ASSUME Global!IInv, Global!CheckAndReconnect
  PROVE  Global!IInv'
<1> USE GlobalConstants DEF Global!IInv, Global!CheckAndReconnect, Global!Goto, Global!conn
<1>1. Global!TypeOK'
  BY DEF Global!TypeOK, Global!Steps, Global!Clients, Global!Tools, Global!Answered
<1>2. Global!OneUpdates' /\ Global!Answered'
  BY DEF Global!TypeOK, Global!OneUpdates, Global!Answered
<1>3. Global!TablesAgree'
  BY DEF Global!TablesAgree
<1> QED BY <1>1, <1>2, <1>3

LEMMA StartCheckKeeps ==
  ASSUME Global!IInv, NEW c \in Checks, Global!StartCheck(c)
  PROVE  Global!IInv'
<1> USE GlobalConstants DEF Global!IInv, Global!StartCheck, Global!Goto, Global!conn
<1>1. Global!TypeOK'
  BY DEF Global!TypeOK, Global!Steps, Global!Clients, Global!Tools, Global!Answered
<1>2. Global!OneUpdates' /\ Global!Answered'
  BY DEF Global!TypeOK, Global!OneUpdates, Global!Answered
<1>3. Global!TablesAgree'
  BY DEF Global!TablesAgree
<1> QED BY <1>1, <1>2, <1>3

LEMMA PingKeeps ==
  ASSUME Global!IInv, NEW c \in Checks, Global!Ping(c)
  PROVE  Global!IInv'
<1> USE GlobalConstants DEF Global!IInv, Global!Ping, Global!Goto, Global!conn
<1>1. Global!TypeOK'
  BY DEF Global!TypeOK, Global!Steps, Global!Clients, Global!Tools, Global!Answered
<1>2. Global!OneUpdates' /\ Global!Answered'
  BY DEF Global!TypeOK, Global!OneUpdates, Global!Answered
<1>3. Global!TablesAgree'
  BY DEF Global!TablesAgree
<1> QED BY <1>1, <1>2, <1>3

LEMMA PingReturnsKeeps ==
  ASSUME Global!IInv, NEW c \in Checks, Global!PingReturns(c)
  PROVE  Global!IInv'
<1> USE GlobalConstants DEF Global!IInv, Global!PingReturns, Global!Goto, Global!conn
<1>1. Global!TypeOK'
  BY DEF Global!TypeOK, Global!Steps, Global!Clients, Global!Tools, Global!Answered
<1>2. Global!OneUpdates' /\ Global!Answered'
  BY DEF Global!TypeOK, Global!OneUpdates, Global!Answered
<1>3. Global!TablesAgree'
  BY DEF Global!TablesAgree
<1> QED BY <1>1, <1>2, <1>3

LEMMA MarkClosedKeeps ==
  ASSUME Global!IInv, NEW c \in Checks, Global!MarkClosed(c)
  PROVE  Global!IInv'
<1> USE GlobalConstants DEF Global!IInv, Global!MarkClosed, Global!Goto, Global!conn
<1>1. Global!TypeOK'
  BY DEF Global!TypeOK, Global!Steps, Global!Clients, Global!Tools, Global!Answered
<1>2. Global!OneUpdates' /\ Global!Answered'
  BY DEF Global!TypeOK, Global!OneUpdates, Global!Answered
<1>3. Global!TablesAgree'
  BY DEF Global!TablesAgree
<1> QED BY <1>1, <1>2, <1>3

LEMMA InvokeToolKeeps ==
  ASSUME Global!IInv, NEW c \in Callers, Global!InvokeTool(c)
  PROVE  Global!IInv'
<1> USE GlobalConstants DEF Global!IInv, Global!InvokeTool, Global!Goto, Global!conn
<1>1. Global!TypeOK'
  BY DEF Global!TypeOK, Global!Steps, Global!Clients, Global!Tools, Global!Answered
<1>2. Global!OneUpdates' /\ Global!Answered'
  BY DEF Global!TypeOK, Global!OneUpdates, Global!Answered
<1>3. Global!TablesAgree'
  BY DEF Global!TablesAgree
<1> QED BY <1>1, <1>2, <1>3

LEMMA NilClientKeeps ==
  ASSUME Global!IInv, NEW g \in Global!Goroutines, Global!NilClient(g)
  PROVE  Global!IInv'
<1> USE GlobalConstants DEF Global!IInv, Global!NilClient, Global!Goto, Global!conn
<1>1. Global!TypeOK'
  BY DEF Global!TypeOK, Global!Steps, Global!Clients, Global!Tools, Global!Answered
<1>2. Global!OneUpdates' /\ Global!Answered'
  BY DEF Global!TypeOK, Global!OneUpdates, Global!Answered
<1>3. Global!TablesAgree'
  BY DEF Global!TablesAgree
<1> QED BY <1>1, <1>2, <1>3

LEMMA GlobalInit == Global!Init => Global!IInv
<1> SUFFICES ASSUME Global!Init PROVE Global!IInv
  OBVIOUS
<1> USE GlobalConstants DEF Global!Init
<1>1. /\ globalStep \in [Global!Goroutines -> Global!Steps]
      /\ listed \in [Global!Goroutines -> Lists \cup {None}]
  BY DEF Global!Steps
<1>5. registered \in BOOLEAN /\ connected \in BOOLEAN /\ globalCrashed \in BOOLEAN
  BY Zenon
<1>6. /\ client \in Global!Clients \cup {0} /\ clients \in Global!Clients \cup {0}
      /\ connMu \in Global!Goroutines \cup {None}
      /\ connTools \in Global!Tools \cup {None} /\ globalTools \in Global!Tools \cup {None}
  BY Zenon
<1>7. retryCount \in 0 .. MaxAttempts
  OBVIOUS
<1>8. Global!TypeOK
  BY <1>1, <1>5, <1>6, <1>7 DEF Global!TypeOK
<1>2. \A g \in Global!Goroutines : globalStep[g] \in {"new", "idle"}
  OBVIOUS
<1>3. Global!OneUpdates /\ Global!Answered
  BY <1>2 DEF Global!OneUpdates, Global!Answered
<1>4. Global!TablesAgree
  BY DEF Global!TablesAgree
<1> QED BY <1>3, <1>4, <1>8 DEF Global!IInv

LEMMA GlobalUntouched ==
  ASSUME Global!IInv, UNCHANGED Global!vars
  PROVE  Global!IInv'
BY DEF Global!vars, Global!conn, Global!IInv, Global!TypeOK, Global!OneUpdates,
   Global!Answered, Global!TablesAgree

LEMMA GlobalNext ==
  ASSUME Global!IInv, Global!Next
  PROVE  Global!IInv'
<1>1. CASE Global!CheckAndReconnect
  BY <1>1, CheckAndReconnectKeeps
<1>2. CASE \E g \in Global!Goroutines :
             \/ Global!Disconnect(g) \/ Global!NeedsClient(g) \/ Global!NewClient(g)
             \/ Global!ConnectFails(g)
             \/ Global!StartClient(g) \/ Global!Initialize(g) \/ Global!Finish(g)
             \/ Global!ListTools(g) \/ Global!ListFails(g) \/ Global!SetTools(g)
             \/ Global!UpdateGlobalTools(g) \/ Global!NilClient(g)
  BY <1>2, DisconnectKeeps, NeedsClientKeeps, NewClientKeeps, ConnectFailsKeeps,
     StartClientKeeps, InitializeKeeps, FinishKeeps, ListToolsKeeps, ListFailsKeeps, SetToolsKeeps,
     UpdateGlobalToolsKeeps, NilClientKeeps
<1>3. CASE \E c \in Checks :
             \/ Global!StartCheck(c) \/ Global!Ping(c) \/ Global!PingReturns(c)
             \/ Global!MarkClosed(c)
  BY <1>3, StartCheckKeeps, PingKeeps, PingReturnsKeeps, MarkClosedKeeps
<1>4. CASE \E c \in Callers : Global!InvokeTool(c) \/ Global!CallAgain(c)
  BY <1>4, InvokeToolKeeps, CallAgainKeeps
<1> QED BY <1>1, <1>2, <1>3, <1>4 DEF Global!Next

----------------------------------------------------------------------------
(* The MCP sessions of a device                                            *)

LEMMA DeviceConstants ==
  /\ MaxSessions \in Nat /\ None \notin Device!Sessions
  /\ Checker \in Device!Removers
  /\ Device!Handlers \subseteq Device!Actors /\ Device!Removers \subseteq Device!Actors
  /\ WsHandlers \subseteq Device!Handlers /\ IotHandlers \subseteq Device!Handlers
  /\ WsHandlers \subseteq Device!LoopStates
  /\ {"off", "rest"} \subseteq Device!LoopStates
  /\ WsHandlers \cup Closers \subseteq Device!Removers
  /\ WsHandlers \cup IotHandlers = Device!Handlers
BY DeviceAssumption, NoneAssumption
DEF Device!Sessions, Device!Removers, Device!Handlers, Device!Actors, Device!LoopStates

LEMMA GetMcpClientKeeps ==
  ASSUME Device!IInv, NEW h \in Device!Handlers, Device!GetMcpClient(h)
  PROVE  Device!IInv'
<1> USE DeviceConstants DEF Device!IInv, Device!GetMcpClient, Device!sessions, Device!links,
                            Device!loops
<1>0. PICK next \in {"new", "client"} :
        /\ mcpStep' = [mcpStep EXCEPT ![h] = next]
        /\ next = "client" => device2McpClient # None
  BY DEF Device!Goto
<1>1. Device!TypeOK'
  BY <1>0 DEF Device!TypeOK
<1>2. Device!Made'
  BY <1>0 DEF Device!TypeOK, Device!Made
<1>3. Device!Found'
  BY <1>0 DEF Device!TypeOK, Device!Found
<1>4. Device!CancelledIsRemoved'
  BY <1>0 DEF Device!TypeOK, Device!Made, Device!CancelledIsRemoved
<1> QED BY <1>1, <1>2, <1>3, <1>4

LEMMA AddMcpClientKeeps ==
  ASSUME Device!IInv, NEW h \in Device!Handlers, Device!AddMcpClient(h)
  PROVE  Device!IInv'
<1> USE DeviceConstants DEF Device!IInv, Device!AddMcpClient, Device!sessions, Device!links,
                            Device!loops
<1>0. /\ sessions + 1 \in Device!Sessions /\ sessions + 1 # None /\ sessions \in Nat
      /\ mcpStep' = [mcpStep EXCEPT ![h] = "client"]
  BY DEF Device!TypeOK, Device!Sessions, Device!Goto
<1>1. Device!TypeOK'
  BY <1>0 DEF Device!TypeOK
<1>2. Device!Made'
  BY <1>0 DEF Device!TypeOK, Device!Made, Device!Sessions
<1>3. Device!Found'
  BY <1>0 DEF Device!TypeOK, Device!Found
<1>4. Device!CancelledIsRemoved'
  BY <1>0 DEF Device!TypeOK, Device!Sessions, Device!Made, Device!CancelledIsRemoved
<1> QED BY <1>1, <1>2, <1>3, <1>4

LEMMA SetLinkKeeps ==
  ASSUME Device!IInv, NEW h \in Device!Handlers, Device!SetLink(h)
  PROVE  Device!IInv'
<1> USE DeviceConstants DEF Device!IInv, Device!SetLink, Device!sessions, Device!links,
                            Device!loops
<1>1. Device!TypeOK'
  BY DEF Device!TypeOK, Device!Goto
<1>2. Device!Made'
  BY DEF Device!TypeOK, Device!Made, Device!Goto
<1>3. Device!Found'
  BY DEF Device!TypeOK, Device!Found, Device!Goto
<1>4. Device!CancelledIsRemoved'
  BY DEF Device!TypeOK, Device!Made, Device!CancelledIsRemoved, Device!Goto
<1> QED BY <1>1, <1>2, <1>3, <1>4

LEMMA EndLoopKeeps ==
  ASSUME Device!IInv, NEW h \in Device!Handlers, Device!EndLoop(h)
  PROVE  Device!IInv'
<1> USE DeviceConstants DEF Device!IInv, Device!EndLoop, Device!sessions, Device!links,
                            Device!loops
<1>0. PICK next \in {"get", "done"} : mcpStep' = [mcpStep EXCEPT ![h] = next]
  BY DEF Device!Goto
<1>1. Device!TypeOK'
  BY <1>0 DEF Device!TypeOK
<1>2. Device!Made'
  BY <1>0 DEF Device!TypeOK, Device!Made
<1>3. Device!Found'
  BY <1>0 DEF Device!TypeOK, Device!Found
<1>4. Device!CancelledIsRemoved'
  BY <1>0 DEF Device!TypeOK, Device!Made, Device!CancelledIsRemoved
<1> QED BY <1>1, <1>2, <1>3, <1>4

LEMMA HandlerRoundKeeps ==
  ASSUME Device!IInv, NEW h \in Device!Handlers, Device!HandlerRound(h)
  PROVE  Device!IInv'
<1> USE DeviceConstants DEF Device!IInv, Device!HandlerRound, Device!sessions, Device!links,
                            Device!loops
<1>0. /\ stale' \subseteq stale
      /\ \E next \in Device!LoopStates : loop' = [loop EXCEPT ![h] = next]
  BY DEF Device!Round, Device!Heard
<1>1. Device!TypeOK'
  BY <1>0 DEF Device!TypeOK
<1>2. Device!Made'
  BY DEF Device!TypeOK, Device!Made
<1>3. Device!Found'
  BY DEF Device!TypeOK, Device!Found
<1>4. Device!CancelledIsRemoved'
  BY DEF Device!TypeOK, Device!Made, Device!CancelledIsRemoved
<1> QED BY <1>1, <1>2, <1>3, <1>4

LEMMA SessionRoundKeeps ==
  ASSUME Device!IInv, NEW s \in Device!Sessions, Device!SessionRound(s)
  PROVE  Device!IInv'
<1> USE DeviceConstants DEF Device!IInv, Device!SessionRound, Device!sessions, Device!links,
                            Device!loops
<1>0. /\ stale' \subseteq stale
      /\ \E next \in Device!LoopStates : firstLoop' = [firstLoop EXCEPT ![s] = next]
  BY DEF Device!Round, Device!Heard
<1>1. Device!TypeOK'
  BY <1>0 DEF Device!TypeOK
<1>2. Device!Made'
  BY DEF Device!TypeOK, Device!Made
<1>3. Device!Found'
  BY DEF Device!TypeOK, Device!Found
<1>4. Device!CancelledIsRemoved'
  BY DEF Device!TypeOK, Device!Made, Device!CancelledIsRemoved
<1> QED BY <1>1, <1>2, <1>3, <1>4

LEMMA EndFirstLoopKeeps ==
  ASSUME Device!IInv, NEW s \in Device!Sessions, Device!EndFirstLoop(s)
  PROVE  Device!IInv'
<1> USE DeviceConstants DEF Device!IInv, Device!EndFirstLoop, Device!sessions, Device!links,
                            Device!loops
<1>1. Device!TypeOK'
  BY DEF Device!TypeOK, Device!Goto
<1>2. Device!Made'
  BY DEF Device!TypeOK, Device!Made, Device!Goto
<1>3. Device!Found'
  BY DEF Device!TypeOK, Device!Found, Device!Goto
<1>4. Device!CancelledIsRemoved'
  BY DEF Device!TypeOK, Device!Made, Device!CancelledIsRemoved, Device!Goto
<1> QED BY <1>1, <1>2, <1>3, <1>4

LEMMA FindClientKeeps ==
  ASSUME Device!IInv, NEW r \in Device!Removers, Device!FindClient(r)
  PROVE  Device!IInv'
<1> USE DeviceConstants DEF Device!IInv, Device!FindClient, Device!sessions, Device!links,
                            Device!loops
<1>0. PICK next \in {"remove", "cancel"} :
        /\ mcpStep' = [mcpStep EXCEPT ![r] = next]
        /\ next = "cancel" => device2McpClient # None
  BY DEF Device!Goto
<1>1. Device!TypeOK'
  BY <1>0 DEF Device!TypeOK
<1>2. Device!Made'
  BY <1>0 DEF Device!TypeOK, Device!Made
<1>3. Device!Found'
  BY <1>0 DEF Device!TypeOK, Device!Found
<1>4. Device!CancelledIsRemoved'
  BY <1>0 DEF Device!TypeOK, Device!Made, Device!CancelledIsRemoved
<1> QED BY <1>1, <1>2, <1>3, <1>4

LEMMA CancelClientKeeps ==
  ASSUME Device!IInv, NEW r \in Device!Removers, Device!CancelClient(r)
  PROVE  Device!IInv'
<1> USE DeviceConstants DEF Device!IInv, Device!CancelClient, Device!sessions, Device!links,
                            Device!loops
<1>0. /\ target[r] \in Device!Sessions
      /\ mcpStep' = [mcpStep EXCEPT ![r] = "remove"]
  BY DEF Device!TypeOK, Device!Found, Device!Goto
<1>1. Device!TypeOK'
  BY <1>0 DEF Device!TypeOK
<1>2. Device!Made'
  BY <1>0 DEF Device!TypeOK, Device!Made
<1>3. Device!Found'
  BY <1>0 DEF Device!TypeOK, Device!Found
<1>4. Device!CancelledIsRemoved'
  BY <1>0 DEF Device!TypeOK, Device!Made, Device!CancelledIsRemoved
<1> QED BY <1>1, <1>2, <1>3, <1>4

LEMMA RemoveClientKeeps ==
  ASSUME Device!IInv, NEW r \in Device!Removers, Device!RemoveClient(r)
  PROVE  Device!IInv'
<1> USE DeviceConstants DEF Device!IInv, Device!RemoveClient, Device!sessions, Device!links,
                            Device!loops
<1>0. PICK next \in {"idle", "done"} : mcpStep' = [mcpStep EXCEPT ![r] = next]
  BY DEF Device!Goto
<1>1. Device!TypeOK'
  BY <1>0 DEF Device!TypeOK
<1>2. Device!Made'
  BY <1>0 DEF Device!TypeOK, Device!Made
<1>3. Device!Found'
  BY <1>0 DEF Device!TypeOK, Device!Found
<1>4. Device!CancelledIsRemoved'
  BY <1>0 DEF Device!TypeOK, Device!Made, Device!CancelledIsRemoved
<1> QED BY <1>1, <1>2, <1>3, <1>4

LEMMA MarkKeeps ==
  ASSUME Device!IInv, Device!Mark
  PROVE  Device!IInv'
<1> USE DeviceConstants DEF Device!IInv, Device!Mark, Device!sessions, Device!links,
                            Device!loops
<1>1. Device!TypeOK'
  BY DEF Device!TypeOK, Device!Goto
<1>2. Device!Made'
  BY DEF Device!TypeOK, Device!Made, Device!Goto
<1>3. Device!Found'
  BY DEF Device!TypeOK, Device!Found, Device!Goto
<1>4. Device!CancelledIsRemoved'
  BY DEF Device!TypeOK, Device!Made, Device!CancelledIsRemoved, Device!Goto
<1> QED BY <1>1, <1>2, <1>3, <1>4

LEMMA JudgeKeeps ==
  ASSUME Device!IInv, Device!Judge
  PROVE  Device!IInv'
<1> USE DeviceConstants DEF Device!IInv, Device!Judge, Device!sessions, Device!links,
                            Device!loops
<1>0. PICK next \in {"get", "idle"} : mcpStep' = [mcpStep EXCEPT ![Checker] = next]
  BY DEF Device!Goto
<1>1. Device!TypeOK'
  BY <1>0 DEF Device!TypeOK
<1>2. Device!Made'
  BY <1>0 DEF Device!TypeOK, Device!Made
<1>3. Device!Found'
  BY <1>0 DEF Device!TypeOK, Device!Found
<1>4. Device!CancelledIsRemoved'
  BY <1>0 DEF Device!TypeOK, Device!Made, Device!CancelledIsRemoved
<1> QED BY <1>1, <1>2, <1>3, <1>4

LEMMA SilenceKeeps ==
  ASSUME Device!IInv, NEW h \in Device!Handlers, Device!Silence(h)
  PROVE  Device!IInv'
<1> USE DeviceConstants DEF Device!IInv, Device!Silence, Device!sessions, Device!links,
                            Device!loops
<1>1. Device!TypeOK'
  BY DEF Device!TypeOK, Device!Goto
<1>2. Device!Made'
  BY DEF Device!TypeOK, Device!Made, Device!Goto
<1>3. Device!Found'
  BY DEF Device!TypeOK, Device!Found, Device!Goto
<1>4. Device!CancelledIsRemoved'
  BY DEF Device!TypeOK, Device!Made, Device!CancelledIsRemoved, Device!Goto
<1> QED BY <1>1, <1>2, <1>3, <1>4

LEMMA BreakKeeps ==
  ASSUME Device!IInv, NEW h \in Device!Handlers, Device!Break(h)
  PROVE  Device!IInv'
<1> USE DeviceConstants DEF Device!IInv, Device!Break, Device!sessions, Device!links,
                            Device!loops
<1>1. Device!TypeOK'
  BY DEF Device!TypeOK, Device!Goto
<1>2. Device!Made'
  BY DEF Device!TypeOK, Device!Made, Device!Goto
<1>3. Device!Found'
  BY DEF Device!TypeOK, Device!Found, Device!Goto
<1>4. Device!CancelledIsRemoved'
  BY DEF Device!TypeOK, Device!Made, Device!CancelledIsRemoved, Device!Goto
<1> QED BY <1>1, <1>2, <1>3, <1>4

LEMMA AgeKeeps ==
  ASSUME Device!IInv, NEW h \in Device!Handlers, Device!Age(h)
  PROVE  Device!IInv'
<1> USE DeviceConstants DEF Device!IInv, Device!Age, Device!sessions, Device!links,
                            Device!loops
<1>1. Device!TypeOK'
  BY DEF Device!TypeOK, Device!Goto
<1>2. Device!Made'
  BY DEF Device!TypeOK, Device!Made, Device!Goto
<1>3. Device!Found'
  BY DEF Device!TypeOK, Device!Found, Device!Goto
<1>4. Device!CancelledIsRemoved'
  BY DEF Device!TypeOK, Device!Made, Device!CancelledIsRemoved, Device!Goto
<1> QED BY <1>1, <1>2, <1>3, <1>4

LEMMA DeviceInit == Device!Init => Device!IInv
<1> SUFFICES ASSUME Device!Init PROVE Device!IInv
  OBVIOUS
<1> USE DeviceConstants DEF Device!Init
<1>1. Device!TypeOK
  BY DEF Device!TypeOK
<1>2. Device!Made /\ Device!CancelledIsRemoved
  BY DEF Device!Made, Device!CancelledIsRemoved
<1>3. Device!Found
  BY DEF Device!Found
<1> QED BY <1>1, <1>2, <1>3 DEF Device!IInv

LEMMA DeviceUntouched ==
  ASSUME Device!IInv, UNCHANGED Device!vars
  PROVE  Device!IInv'
BY DEF Device!vars, Device!sessions, Device!links, Device!loops, Device!IInv,
   Device!TypeOK, Device!Made, Device!Found, Device!CancelledIsRemoved

LEMMA DeviceNext ==
  ASSUME Device!IInv, Device!Next
  PROVE  Device!IInv'
<1>1. \A r \in Device!Removers : Device!RemoveMcpClient(r) => Device!IInv'
  BY FindClientKeeps, CancelClientKeeps, RemoveClientKeeps DEF Device!RemoveMcpClient
<1>2. CASE \E h \in Device!Handlers : Device!Handle(h)
  BY <1>2, GetMcpClientKeeps, AddMcpClientKeeps, SetLinkKeeps, HandlerRoundKeeps,
     EndLoopKeeps DEF Device!Handle
<1>3. CASE \E h \in Device!Handlers : Device!Silence(h) \/ Device!Break(h) \/ Device!Age(h)
  BY <1>3, SilenceKeeps, BreakKeeps, AgeKeeps
<1>4. CASE \E s \in Device!Sessions : Device!SessionRound(s) \/ Device!EndFirstLoop(s)
  BY <1>4, SessionRoundKeeps, EndFirstLoopKeeps
<1>5. CASE \E r \in WsHandlers \cup Closers : Device!RemoveMcpClient(r)
  BY <1>1, <1>5, DeviceConstants
<1>6. CASE Device!CheckOffline
  BY <1>1, <1>6, MarkKeeps, JudgeKeeps, DeviceConstants DEF Device!CheckOffline
<1> QED BY <1>2, <1>3, <1>4, <1>5, <1>6 DEF Device!Next

----------------------------------------------------------------------------
(* The four together                                                       *)

\* Before the first step, and after any step of one of the four, each of them keeps
\* its own invariant.
AllIInv == IInv /\ Silero!IInv /\ Device!IInv /\ Global!IInv

LEMMA ServicesInitHolds == ServicesInit => AllIInv
BY InitHolds, SileroInit, DeviceInit, GlobalInit DEF ServicesInit, AllIInv

LEMMA FunasrUntouched ==
  ASSUME IInv, UNCHANGED vars
  PROVE  IInv'
BY NextKeeps

LEMMA ServicesNextKeeps == AllIInv /\ [ServicesNext]_allVars => AllIInv'
<1> SUFFICES ASSUME AllIInv, [ServicesNext]_allVars PROVE AllIInv'
  OBVIOUS
<1>1. /\ UNCHANGED funasrVars => IInv'
      /\ UNCHANGED sileroVars => Silero!IInv'
      /\ UNCHANGED deviceVars => Device!IInv'
      /\ UNCHANGED globalVars => Global!IInv'
  <2>1. /\ UNCHANGED sileroVars => UNCHANGED Silero!vars
        /\ UNCHANGED deviceVars => UNCHANGED Device!vars
        /\ UNCHANGED globalVars => UNCHANGED Global!vars
    BY DEF sileroVars, deviceVars, globalVars, Silero!vars, Silero!pool, Device!vars,
           Device!sessions, Device!links, Device!loops, Global!vars, Global!conn
  <2> QED BY <2>1, FunasrUntouched, SileroUntouched, DeviceUntouched, GlobalUntouched
          DEF AllIInv, funasrVars
<1>2. CASE Next /\ UNCHANGED <<which, sileroVars, deviceVars, globalVars>>
  BY <1>1, <1>2, NextKeeps DEF AllIInv
<1>3. CASE Silero!Next /\ UNCHANGED <<which, funasrVars, deviceVars, globalVars>>
  BY <1>1, <1>3, SileroNext DEF AllIInv
<1>4. CASE Device!Next /\ UNCHANGED <<which, funasrVars, sileroVars, globalVars>>
  BY <1>1, <1>4, DeviceNext DEF AllIInv
<1>5. CASE Global!Next /\ UNCHANGED <<which, funasrVars, sileroVars, deviceVars>>
  BY <1>1, <1>5, GlobalNext DEF AllIInv
<1>6. CASE UNCHANGED allVars
  BY <1>1, <1>6 DEF AllIInv, allVars
<1> QED BY <1>2, <1>3, <1>4, <1>5, <1>6 DEF ServicesNext

THEOREM ServicesInvariance == ServicesSpec => []AllIInv
BY ServicesInitHolds, ServicesNextKeeps, PTL DEF ServicesSpec

\* Whatever sessions, goroutines and handlers there are, every variable of the four keeps
\* its type: no pool gets more than its bound, and nobody has a session, a connection or a
\* detector that was never made.
THEOREM ServicesTypesCorrect == ServicesSpec => []TypesOK
<1>1. AllIInv => TypesOK
  BY DEF AllIInv, IInv, Silero!IInv, Device!IInv, Global!IInv, TypesOK
<1> QED BY <1>1, ServicesInvariance, PTL

\* Any number of sessions take detectors and give them back, also while the loop of the
\* audio and the end of the session do so at once: no two have the same one.
THEOREM DetectorsAreAlone == ServicesSpec => []DetectorInOnePlace
<1>1. AllIInv => DetectorInOnePlace
  BY AloneSuffices DEF AllIInv, Silero!IInv, DetectorInOnePlace
<1> QED BY <1>1, ServicesInvariance, PTL

\* Any number of handlers make sessions while others remove them: a session whose context
\* is cancelled is about to be taken out of the pool.
THEOREM NoSessionDead == ServicesSpec => []CancelledIsRemoved
<1>1. AllIInv => CancelledIsRemoved
  BY DEF AllIInv, Device!IInv, CancelledIsRemoved
<1> QED BY <1>1, ServicesInvariance, PTL

\* Any number of checks and callers use the connection of a global MCP server while it is
\* made anew: between refreshes both tables have the same tools.
THEOREM TablesStayAlike == ServicesSpec => []TablesAgree
<1>1. AllIInv => TablesAgree
  BY DEF AllIInv, Global!IInv, TablesAgree
<1> QED BY <1>1, ServicesInvariance, PTL
=============================================================================
