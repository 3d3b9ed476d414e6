---------------------------- MODULE SpeechProofs ----------------------------
(***************************************************************************)
(* Proofs about Speech: the xiaozhi pool for any number of streams and     *)
(* providers, any size of the pool and any list of device ids; the streams *)
(* of the other providers for any number of streams and any answers; and a *)
(* reply of the model for any length, any way it is cut into chunks and    *)
(* any least length of a sentence.                                         *)
(***************************************************************************)
EXTENDS Speech, FiniteSetTheorems, SequenceTheorems, WellFoundedInduction, TLAPS

----------------------------------------------------------------------------
(* Numbers                                                                 *)

LEMMA Constants ==
  /\ MaxConns \in Nat /\ MaxPoolSize \in Nat /\ MaxPoolSize >= 1
  /\ NumIds \in Nat /\ NumIds >= 1 /\ MaxRetries \in Nat /\ OutCap \in Nat
  /\ MaxFrames \in Nat
  /\ ProviderOf \in [Streams -> Providers]
  /\ Conns \subseteq Nat /\ IsFiniteSet(Conns) /\ NoConn \notin Conns
  /\ Ids \subseteq Nat /\ Ids # {} /\ IsFiniteSet(Ids) /\ Cardinality(Ids) = NumIds
<1>1. Conns \subseteq Nat /\ IsFiniteSet(Conns) /\ NoConn \notin Conns
  BY SizesAssumption, FS_Interval DEF Conns, NoConn
<1>2. Ids \subseteq Nat /\ IsFiniteSet(Ids) /\ Cardinality(Ids) = NumIds
  BY SizesAssumption, FS_Interval DEF Ids
<1>3. 1 \in Ids
  BY SizesAssumption DEF Ids
<1>4. QED
  BY <1>1, <1>2, <1>3, StreamsAssumption, SizesAssumption

\* A set of numbers has a least one.
LEMMA SomeLeast ==
  ASSUME NEW S \in SUBSET Nat, S # {}
  PROVE  \E x \in S : \A y \in S : x <= y
<1>1. PICK x \in S : \A y \in S : ~ (<<y, x>> \in OpToRel(<, Nat))
  BY NatLessThanWellFounded, WFMin, Zenon
<1>2. ASSUME NEW y \in S PROVE x <= y
  <2>1. x \in Nat /\ y \in Nat /\ <<y, x>> \in Nat \X Nat
    OBVIOUS
  <2>2. <<y, x>>[1] = y /\ <<y, x>>[2] = x
    OBVIOUS
  <2>3. ~ (<<y, x>>[1] < <<y, x>>[2])
    BY <1>1, <2>1, Zenon DEF OpToRel
  <2>4. QED
    BY <2>1, <2>2, <2>3
<1>3. QED
  BY <1>2

\* The first of a set of connections or of device ids is one of them.
LEMMA LeastIsIn ==
  ASSUME NEW S \in SUBSET Nat, S # {}
  PROVE  Least(S) \in S
BY SomeLeast DEF Least

\* As long as fewer connections are left than there are device ids, one is unused.
LEMMA SomeUnused ==
  ASSUME NEW S \in SUBSET Conns, Cardinality(S) < NumIds
  PROVE  Ids \ {deviceId[c] : c \in S} # {}
<1> SUFFICES ASSUME Ids \subseteq {deviceId[c] : c \in S} PROVE FALSE
  OBVIOUS
<1> DEFINE holder == [id \in Ids |-> CHOOSE c \in S : deviceId[c] = id]
<1>1. \A id \in Ids : holder[id] \in S /\ deviceId[holder[id]] = id
  OBVIOUS
<1>2. IsFiniteSet(S)
  BY Constants, FS_Subset
<1>3. holder \in [Ids -> S]
  BY <1>1
<1> HIDE DEF holder
<1>4. \E x, y \in Ids : x # y /\ holder[x] = holder[y]
  BY <1>2, <1>3, Constants, FS_PigeonHole
<1>5. QED
  BY <1>1, <1>4

\* A new connection gets an id that no other has, if it can.
LEMMA NewIdIsNew ==
  ASSUME NEW S \in SUBSET Conns, NEW id \in NewIds(S)
  PROVE  /\ id \in Ids
         /\ Cardinality(S) < NumIds => \A c \in S : deviceId[c] # id
<1> DEFINE unused == Ids \ {deviceId[c] : c \in S}
           free == unused \ blocklist
<1>1. unused \in SUBSET Nat /\ free \in SUBSET Nat
  BY Constants
<1>2. CASE free # {}
  <2>1. id = Least(free)
    BY <1>2 DEF NewIds
  <2>2. id \in free
    BY <1>1, <1>2, <2>1, LeastIsIn
  <2>3. QED
    BY <2>2
<1>3. CASE free = {} /\ unused # {}
  <2>1. id = Least(unused)
    BY <1>3 DEF NewIds
  <2>2. id \in unused
    BY <1>1, <1>3, <2>1, LeastIsIn
  <2>3. QED
    BY <2>2
<1>4. CASE unused = {}
  <2>1. id \in Ids
    BY <1>4 DEF NewIds
  <2>2. ~ (Cardinality(S) < NumIds)
    BY <1>4, SomeUnused
  <2>3. QED
    BY <2>1, <2>2
<1>5. QED
  BY <1>2, <1>3, <1>4

----------------------------------------------------------------------------
(* The inductive invariant                                                 *)

Bounded == Cardinality(wsConnPool) <= MaxPoolSize

\* What has not been made is not in the pool; what is there has a device id.
Made == \A c \in Conns :
  /\ c > dialled => c \notin wsConnPool /\ socket[c] = "none"
  /\ c \in wsConnPool => deviceId[c] \in Ids

Tracked == \A c \in Conns : Live(c) => c \in wsConnPool

Unique == MaxPoolSize <= NumIds =>
  \A c, d \in wsConnPool : deviceId[c] = deviceId[d] => c = d

Pooled == Bounded /\ Made /\ Tracked /\ Unique

\* Nobody blocks an id that is not in the list: p.DeviceID is set before it is read.
Named == \A s \in Streams :
  /\ pc[s] = "listen" => DeviceID[ProviderOf[s]] \in Ids
  /\ pc[s] \in {"block", "read", "send"} => myId[s] \in Ids

IInv == TypeOK /\ Named /\ Pooled

----------------------------------------------------------------------------
(* What a step may do to the pool                                          *)

\* A step that leaves the entries alone, and opens nothing.
LEMMA KeepsPool ==
  ASSUME Pooled, UNCHANGED <<wsConnPool, deviceId, dialled>>,
         \A c \in Conns : /\ Live(c)' => Live(c)
                          /\ socket[c] = "none" => socket'[c] = "none"
  PROVE  Pooled'
<1>1. Bounded' /\ Unique'
  BY DEF Pooled, Bounded, Unique
<1>2. Made' /\ Tracked'
  BY DEF Pooled, Made, Tracked
<1>3. QED
  BY <1>1, <1>2 DEF Pooled

\* Entries are closed, whichever they are.
LEMMA ClosesPool ==
  ASSUME TypeOK, Pooled, NEW S \in SUBSET wsConnPool, CloseAll(S), UNCHANGED dialled
  PROVE  /\ Pooled'
         /\ wsConnPool' \subseteq Conns /\ inUse' \subseteq Conns
         /\ socket' \in [Conns -> {"none", "open", "broken", "closed"}]
         /\ deviceId' \in [Conns -> Ids \cup {0}]
<1>1. Bounded'
  <2>1. IsFiniteSet(wsConnPool)
    BY Constants, FS_Subset DEF TypeOK
  <2>2. /\ Cardinality(wsConnPool \ S) <= Cardinality(wsConnPool)
        /\ Cardinality(wsConnPool \ S) \in Nat /\ Cardinality(wsConnPool) \in Nat
    BY <2>1, FS_Subset, FS_CardinalityType
  <2>3. QED
    BY <2>2, Constants DEF Pooled, Bounded, CloseAll
<1>2. Made'
  BY Constants DEF Pooled, Made, CloseAll, TypeOK
<1>3. Tracked'
  BY DEF Pooled, Tracked, CloseAll, Live
<1>4. Unique'
  BY DEF Pooled, Unique, CloseAll, TypeOK
<1>5. QED
  BY <1>1, <1>2, <1>3, <1>4 DEF Pooled, CloseAll, TypeOK

\* What is evicted is in the pool, and leaves room for one.
LEMMA EvictionMakesRoom ==
  ASSUME TypeOK, Pooled, NEW evicted \in Evictable
  PROVE  /\ Dropped \cup evicted \subseteq wsConnPool
         /\ Cardinality(wsConnPool \ (Dropped \cup evicted)) < MaxPoolSize
<1> DEFINE left == wsConnPool \ Dropped
           idle == left \ inUse
<1>1. Dropped \subseteq wsConnPool
  <2>1. Usable \in SUBSET Nat /\ Usable \subseteq wsConnPool
    BY Constants DEF Usable, Idle, TypeOK
  <2>2. QED
    BY <2>1, LeastIsIn DEF Dropped
<1>2. IsFiniteSet(wsConnPool) /\ IsFiniteSet(left) /\ Cardinality(left) <= MaxPoolSize
      /\ Cardinality(left) \in Nat
  <2>1. IsFiniteSet(wsConnPool)
    BY Constants, FS_Subset DEF TypeOK
  <2>2. /\ IsFiniteSet(left) /\ Cardinality(left) <= Cardinality(wsConnPool)
        /\ Cardinality(left) \in Nat /\ Cardinality(wsConnPool) \in Nat
    BY <2>1, FS_Subset, FS_CardinalityType
  <2>3. QED
    BY <2>1, <2>2, Constants DEF Pooled, Bounded
<1>3. CASE Cardinality(left) < MaxPoolSize
  <2>1. evicted = {}
    BY <1>3 DEF Evictable
  <2>2. wsConnPool \ (Dropped \cup evicted) = left
    BY <2>1
  <2>3. QED
    BY <1>1, <1>3, <2>1, <2>2
<1>4. CASE ~ (Cardinality(left) < MaxPoolSize)
  <2>1. PICK c \in left : evicted = {c}
    BY <1>4 DEF Evictable
  <2>2. wsConnPool \ (Dropped \cup evicted) = left \ {c}
    BY <2>1
  <2>3. Cardinality(left \ {c}) = Cardinality(left) - 1
    BY <1>2, <2>1, FS_RemoveElement
  <2>4. Dropped \cup evicted \subseteq wsConnPool
    BY <1>1, <2>1
  <2>5. Cardinality(left) - 1 < MaxPoolSize
    BY <1>2, Constants
  <2>6. QED
    BY <2>2, <2>3, <2>4, <2>5
<1>5. QED
  BY <1>3, <1>4

\* Entries are replaced by a connection that is made.
LEMMA ReplacesPool ==
  ASSUME TypeOK, Pooled, NEW s \in Streams, NEW S \in SUBSET wsConnPool,
         Cardinality(wsConnPool \ S) < MaxPoolSize, dialled < MaxConns,
         NEW id \in NewIds(wsConnPool \ S), Replace(s, S, id)
  PROVE  /\ Pooled'
         /\ wsConnPool' \subseteq Conns /\ inUse' \subseteq Conns
         /\ socket' \in [Conns -> {"none", "open", "broken", "closed"}]
         /\ deviceId' \in [Conns -> Ids \cup {0}]
         /\ dialled' \in Conns
         /\ conn' \in [Streams -> Conns \cup {NoConn}]
<1> DEFINE c == dialled + 1
           left == wsConnPool \ S
<1>1. c \in Conns /\ c \notin wsConnPool /\ dialled \in Nat
  BY Constants DEF Conns, Pooled, Made, TypeOK
<1>2. /\ dialled' = c /\ wsConnPool' = left \cup {c} /\ inUse' = (inUse \ S) \cup {c}
      /\ deviceId' = [d \in Conns |-> IF d = c THEN id ELSE IF d \in S THEN 0 ELSE deviceId[d]]
      /\ socket' = [d \in Conns |-> IF d = c THEN "open"
                                    ELSE IF d \in S THEN "closed" ELSE socket[d]]
      /\ conn' = [conn EXCEPT ![s] = c]
  BY DEF Replace
<1>3. left \in SUBSET Conns /\ Cardinality(left) < MaxPoolSize
  BY DEF TypeOK
<1>4. id \in Ids /\ (Cardinality(left) < NumIds => \A d \in left : deviceId[d] # id)
  BY <1>3, NewIdIsNew
<1>5. IsFiniteSet(left) /\ Cardinality(left) \in Nat
      /\ Cardinality(left \cup {c}) = Cardinality(left) + 1
  <2>1. IsFiniteSet(left)
    BY <1>3, Constants, FS_Subset
  <2>2. c \notin left
    BY <1>1
  <2>3. QED
    BY <2>1, <2>2, FS_AddElement, FS_CardinalityType
<1> HIDE DEF c, left
<1>6. Bounded'
  BY <1>2, <1>3, <1>5, Constants DEF Bounded
<1>7. Made'
  <2>1. ASSUME NEW d \in Conns, d > dialled' PROVE d \notin wsConnPool' /\ socket'[d] = "none"
    <3>1. d # c /\ d > dialled
      BY <1>1, <1>2, <2>1, Constants DEF c
    <3>2. QED
      BY <1>2, <3>1, <2>1 DEF Pooled, Made, left
  <2>2. ASSUME NEW d \in Conns, d \in wsConnPool' PROVE deviceId'[d] \in Ids
    BY <1>2, <1>4, <2>2 DEF Pooled, Made, left
  <2>3. QED
    BY <2>1, <2>2 DEF Made
<1>8. Tracked'
  BY <1>2 DEF Pooled, Tracked, Live, left
<1>9. Unique'
  <2> SUFFICES ASSUME MaxPoolSize <= NumIds, NEW d \in wsConnPool', NEW e \in wsConnPool',
                      deviceId'[d] = deviceId'[e]
               PROVE  d = e
    BY DEF Unique
  <2>1. \A f \in left : deviceId[f] # id
    BY <1>3, <1>4, <1>5, Constants
  <2>2. \A f \in left : f \in Conns /\ f # c /\ deviceId'[f] = deviceId[f]
    BY <1>1, <1>2, <1>3 DEF left
  <2>3. deviceId'[c] = id
    BY <1>1, <1>2
  <2>4. CASE d \in left /\ e \in left
    BY <2>2, <2>4 DEF Pooled, Unique, left
  <2>5. CASE d = c \/ e = c
    BY <1>2, <2>1, <2>2, <2>3, <2>5
  <2>6. QED
    BY <1>2, <2>4, <2>5
<1>10. wsConnPool' \subseteq Conns /\ inUse' \subseteq Conns
  BY <1>1, <1>2, <1>3 DEF TypeOK
<1>11. /\ socket' \in [Conns -> {"none", "open", "broken", "closed"}]
       /\ deviceId' \in [Conns -> Ids \cup {0}]
  BY <1>2, <1>4 DEF TypeOK
<1>12. dialled' \in Conns /\ conn' \in [Streams -> Conns \cup {NoConn}]
  BY <1>1, <1>2 DEF TypeOK
<1>13. QED
  BY <1>6, <1>7, <1>8, <1>9, <1>10, <1>11, <1>12 DEF Pooled

----------------------------------------------------------------------------
(* The steps                                                               *)

LEMMA BreakKeeps ==
  ASSUME IInv, NEW c \in Conns, Break(c)
  PROVE  IInv'
<1>1. TypeOK'
  BY Constants DEF IInv, TypeOK, Named, Steps, Break, pool, local, chan, Goto
<1>2. Named'
  BY Constants DEF IInv, TypeOK, Named, Break, pool, local, chan, Goto
<1>3. Pooled'
  BY KeepsPool DEF IInv, TypeOK, Live, Break, pool, local, chan, Goto
<1>4. QED
  BY <1>1, <1>2, <1>3 DEF IInv

LEMMA UnblockKeeps ==
  ASSUME IInv, NEW id \in Ids, Unblock(id)
  PROVE  IInv'
<1>1. TypeOK'
  BY Constants DEF IInv, TypeOK, Named, Steps, Unblock, pool, local, chan, Goto
<1>2. Named'
  BY Constants DEF IInv, TypeOK, Named, Unblock, pool, local, chan, Goto
<1>3. Pooled'
  BY KeepsPool DEF IInv, TypeOK, Live, Unblock, pool, local, chan, Goto
<1>4. QED
  BY <1>1, <1>2, <1>3 DEF IInv

LEMMA ListenKeeps ==
  ASSUME IInv, NEW s \in Streams, Listen(s)
  PROVE  IInv'
<1>1. TypeOK'
  BY Constants DEF IInv, TypeOK, Named, Steps, Listen, pool, local, chan, Goto, CheckCtx
<1>2. Named'
  BY Constants DEF IInv, TypeOK, Named, Listen, pool, local, chan, Goto, CheckCtx
<1>3. Pooled'
  BY KeepsPool DEF IInv, TypeOK, Live, Listen, pool, local, chan, Goto, CheckCtx
<1>4. QED
  BY <1>1, <1>2, <1>3 DEF IInv

LEMMA BlockDeviceIdKeeps ==
  ASSUME IInv, NEW s \in Streams, BlockDeviceId(s)
  PROVE  IInv'
<1>1. TypeOK'
  BY Constants DEF IInv, TypeOK, Named, Steps, BlockDeviceId, pool, local, chan, Goto
<1>2. Named'
  BY Constants DEF IInv, TypeOK, Named, BlockDeviceId, pool, local, chan, Goto
<1>3. Pooled'
  BY KeepsPool DEF IInv, TypeOK, Live, BlockDeviceId, pool, local, chan, Goto
<1>4. QED
  BY <1>1, <1>2, <1>3 DEF IInv

LEMMA ReadFrameKeeps ==
  ASSUME IInv, NEW s \in Streams, ReadFrame(s)
  PROVE  IInv'
<1>1. TypeOK'
  BY Constants DEF IInv, TypeOK, Named, Steps, ReadFrame, pool, local, chan, Goto
<1>2. Named'
  BY Constants DEF IInv, TypeOK, Named, ReadFrame, pool, local, chan, Goto
<1>3. Pooled'
  BY KeepsPool DEF IInv, TypeOK, Live, ReadFrame, pool, local, chan, Goto
<1>4. QED
  BY <1>1, <1>2, <1>3 DEF IInv

LEMMA SendFrameKeeps ==
  ASSUME IInv, NEW s \in Streams, SendFrame(s)
  PROVE  IInv'
<1>1. TypeOK'
  BY Constants DEF IInv, TypeOK, Named, Steps, SendFrame, pool, local, chan, Goto, CheckCtx
<1>2. Named'
  BY Constants DEF IInv, TypeOK, Named, SendFrame, pool, local, chan, Goto, CheckCtx
<1>3. Pooled'
  BY KeepsPool DEF IInv, TypeOK, Live, SendFrame, pool, local, chan, Goto, CheckCtx
<1>4. QED
  BY <1>1, <1>2, <1>3 DEF IInv

LEMMA ReadTextKeeps ==
  ASSUME IInv, NEW s \in Streams, ReadText(s)
  PROVE  IInv'
<1>1. TypeOK'
  BY Constants DEF IInv, TypeOK, Named, Steps, ReadText, pool, local, chan, Goto, CheckCtx
<1>2. Named'
  BY Constants DEF IInv, TypeOK, Named, ReadText, pool, local, chan, Goto, CheckCtx
<1>3. Pooled'
  BY KeepsPool DEF IInv, TypeOK, Live, ReadText, pool, local, chan, Goto, CheckCtx
<1>4. QED
  BY <1>1, <1>2, <1>3 DEF IInv

LEMMA ReadStopKeeps ==
  ASSUME IInv, NEW s \in Streams, ReadStop(s)
  PROVE  IInv'
<1>1. TypeOK'
  BY Constants DEF IInv, TypeOK, Named, Steps, ReadStop, pool, local, chan, Goto
<1>2. Named'
  BY Constants DEF IInv, TypeOK, Named, ReadStop, pool, local, chan, Goto
<1>3. Pooled'
  BY KeepsPool DEF IInv, TypeOK, Live, ReadStop, pool, local, chan, Goto
<1>4. QED
  BY <1>1, <1>2, <1>3 DEF IInv

LEMMA ReadErrorKeeps ==
  ASSUME IInv, NEW s \in Streams, ReadError(s)
  PROVE  IInv'
<1>1. TypeOK'
  BY Constants DEF IInv, TypeOK, Named, Steps, ReadError, pool, local, chan, Goto
<1>2. Named'
  BY Constants DEF IInv, TypeOK, Named, ReadError, pool, local, chan, Goto
<1>3. Pooled'
  BY KeepsPool DEF IInv, TypeOK, Live, ReadError, pool, local, chan, Goto
<1>4. QED
  BY <1>1, <1>2, <1>3 DEF IInv

LEMMA CallKeeps ==
  ASSUME IInv, NEW s \in Streams, Call(s)
  PROVE  IInv'
<1>1. TypeOK'
  BY Constants DEF IInv, TypeOK, Named, Steps, Call, pool, local, chan, Goto
<1>2. Named'
  BY Constants DEF IInv, TypeOK, Named, Call, pool, local, chan, Goto
<1>3. Pooled'
  BY KeepsPool DEF IInv, TypeOK, Live, Call, pool, local, chan, Goto
<1>4. QED
  BY <1>1, <1>2, <1>3 DEF IInv

LEMMA CancelKeeps ==
  ASSUME IInv, NEW s \in Streams, Cancel(s)
  PROVE  IInv'
<1>1. TypeOK'
  BY Constants DEF IInv, TypeOK, Named, Steps, Cancel, pool, local, chan, Goto
<1>2. Named'
  BY Constants DEF IInv, TypeOK, Named, Cancel, pool, local, chan, Goto
<1>3. Pooled'
  BY KeepsPool DEF IInv, TypeOK, Live, Cancel, pool, local, chan, Goto
<1>4. QED
  BY <1>1, <1>2, <1>3 DEF IInv

LEMMA ConsumeKeeps ==
  ASSUME IInv, NEW s \in Streams, Consume(s)
  PROVE  IInv'
<1>1. TypeOK'
  BY Constants DEF IInv, TypeOK, Named, Steps, Consume, pool, local, chan, Goto
<1>2. Named'
  BY Constants DEF IInv, TypeOK, Named, Consume, pool, local, chan, Goto
<1>3. Pooled'
  BY KeepsPool DEF IInv, TypeOK, Live, Consume, pool, local, chan, Goto
<1>4. QED
  BY <1>1, <1>2, <1>3 DEF IInv

LEMMA CleanKeeps ==
  ASSUME IInv, NEW c \in Conns, Clean(c)
  PROVE  IInv'
<1>1. {c} \subseteq wsConnPool /\ CloseAll({c})
      /\ UNCHANGED <<dialled, blocklist, DeviceID, pc, local, chan, cancelled>>
  BY DEF Clean
<1>2. /\ Pooled' /\ wsConnPool' \subseteq Conns /\ inUse' \subseteq Conns
      /\ socket' \in [Conns -> {"none", "open", "broken", "closed"}]
      /\ deviceId' \in [Conns -> Ids \cup {0}]
  BY <1>1, ClosesPool DEF IInv
<1>3. TypeOK' /\ Named'
  BY <1>1, <1>2 DEF IInv, TypeOK, Named, local, chan
<1>4. QED
  BY <1>2, <1>3 DEF IInv

\* An attempt is repeated at most MaxRetries times.
LEMMA TryAgainTypes ==
  ASSUME TypeOK, NEW s \in Streams, TryAgain(s)
  PROVE  /\ retryCount' \in [Streams -> 0 .. MaxRetries]
         /\ pc' \in [Streams -> Steps]
         /\ conn' \in [Streams -> Conns \cup {NoConn}]
         /\ myId' \in [Streams -> Ids \cup {0}]
         /\ frames' \in [Streams -> 0 .. MaxFrames]
         /\ \A t \in Streams : /\ t # s => pc'[t] = pc[t] /\ myId'[t] = myId[t]
                               /\ pc'[s] \in {"get", "done"}
BY Constants DEF TryAgain, Return, Goto, TypeOK, Steps

LEMMA RemoveWSConnectionKeeps ==
  ASSUME IInv, NEW s \in Streams, RemoveWSConnection(s)
  PROVE  IInv'
<1>1. /\ Entries(myId[s]) \subseteq wsConnPool /\ CloseAll(Entries(myId[s])) /\ TryAgain(s)
      /\ UNCHANGED <<dialled, blocklist, DeviceID, output, cancelled>>
  BY DEF RemoveWSConnection, Entries
<1>2. /\ Pooled' /\ wsConnPool' \subseteq Conns /\ inUse' \subseteq Conns
      /\ socket' \in [Conns -> {"none", "open", "broken", "closed"}]
      /\ deviceId' \in [Conns -> Ids \cup {0}]
  BY <1>1, ClosesPool DEF IInv
<1>3. TypeOK'
  BY <1>1, <1>2, TryAgainTypes DEF IInv, TypeOK
<1>4. Named'
  BY <1>1, TryAgainTypes DEF IInv, Named
<1>5. QED
  BY <1>2, <1>3, <1>4 DEF IInv

LEMMA ReuseKeeps ==
  ASSUME IInv, NEW s \in Streams, Reuse(s)
  PROVE  IInv'
<1> DEFINE c == Least(Usable)
<1>1. c \in wsConnPool /\ c \in Conns
  <2>1. Usable \in SUBSET Nat /\ Usable # {} /\ Usable \subseteq wsConnPool
    BY Constants DEF IInv, TypeOK, Usable, Idle, Reuse
  <2>2. QED
    BY <2>1, LeastIsIn DEF IInv, TypeOK
<1>2. deviceId[c] \in Ids
  BY <1>1 DEF IInv, Pooled, Made
<1>3. /\ inUse' = inUse \cup {c} /\ conn' = [conn EXCEPT ![s] = c]
      /\ DeviceID' = [DeviceID EXCEPT ![ProviderOf[s]] = deviceId[c]]
      /\ pc' = [pc EXCEPT ![s] = "listen"]
      /\ UNCHANGED <<wsConnPool, deviceId, dialled, socket, blocklist, retryCount, myId, chan,
                     cancelled>>
  BY DEF Reuse, Goto
<1> HIDE DEF c
<1>4. TypeOK'
  BY <1>1, <1>2, <1>3 DEF IInv, TypeOK, chan, Steps
<1>5. Named'
  BY <1>2, <1>3, Constants DEF IInv, TypeOK, Named
<1>6. Pooled'
  BY <1>3, KeepsPool DEF IInv, Live
<1>7. QED
  BY <1>4, <1>5, <1>6 DEF IInv

LEMMA DialKeeps ==
  ASSUME IInv, NEW s \in Streams, Dial(s)
  PROVE  IInv'
<1>1. PICK evicted \in Evictable : \E id \in NewIds(wsConnPool \ (Dropped \cup evicted)) :
        /\ Replace(s, Dropped \cup evicted, id)
        /\ DeviceID' = [DeviceID EXCEPT ![ProviderOf[s]] = id]
  BY DEF Dial
<1> DEFINE S == Dropped \cup evicted
<1>2. PICK id \in NewIds(wsConnPool \ S) :
        Replace(s, S, id) /\ DeviceID' = [DeviceID EXCEPT ![ProviderOf[s]] = id]
  BY <1>1
<1>3. /\ dialled < MaxConns /\ pc' = [pc EXCEPT ![s] = "listen"]
      /\ UNCHANGED <<blocklist, retryCount, myId, chan, cancelled>>
  BY DEF Dial, Goto
<1>4. S \subseteq wsConnPool /\ Cardinality(wsConnPool \ S) < MaxPoolSize
  BY EvictionMakesRoom DEF IInv
<1>5. id \in Ids
  BY NewIdIsNew DEF IInv, TypeOK
<1> HIDE DEF S
<1>6. /\ Pooled'
      /\ wsConnPool' \subseteq Conns /\ inUse' \subseteq Conns
      /\ socket' \in [Conns -> {"none", "open", "broken", "closed"}]
      /\ deviceId' \in [Conns -> Ids \cup {0}]
      /\ dialled' \in Conns
      /\ conn' \in [Streams -> Conns \cup {NoConn}]
  BY <1>2, <1>3, <1>4, ReplacesPool DEF IInv
<1>7. TypeOK'
  BY <1>2, <1>3, <1>5, <1>6 DEF IInv, TypeOK, chan, Steps
<1>8. Named'
  BY <1>2, <1>3, <1>5, Constants DEF IInv, TypeOK, Named
<1>9. QED
  BY <1>6, <1>7, <1>8 DEF IInv

LEMMA DialFailsKeeps ==
  ASSUME IInv, NEW s \in Streams, DialFails(s)
  PROVE  IInv'
<1>1. PICK evicted \in Evictable : \E id \in NewIds(wsConnPool \ (Dropped \cup evicted)) :
        /\ CloseAll(Dropped \cup evicted)
        /\ DeviceID' = [DeviceID EXCEPT ![ProviderOf[s]] = id]
        /\ blocklist' = blocklist \cup {id}
  BY DEF DialFails
<1> DEFINE S == Dropped \cup evicted
<1>2. PICK id \in NewIds(wsConnPool \ S) :
        /\ CloseAll(S)
        /\ DeviceID' = [DeviceID EXCEPT ![ProviderOf[s]] = id]
        /\ blocklist' = blocklist \cup {id}
  BY <1>1
<1>3. S \subseteq wsConnPool
  BY EvictionMakesRoom DEF IInv
<1>4. id \in Ids
  BY NewIdIsNew DEF IInv, TypeOK
<1>5. TryAgain(s) /\ UNCHANGED <<dialled, output, cancelled>>
  BY DEF DialFails
<1> HIDE DEF S
<1>6. /\ Pooled' /\ wsConnPool' \subseteq Conns /\ inUse' \subseteq Conns
      /\ socket' \in [Conns -> {"none", "open", "broken", "closed"}]
      /\ deviceId' \in [Conns -> Ids \cup {0}]
  BY <1>2, <1>3, <1>5, ClosesPool DEF IInv
<1>7. DeviceID' \in [Providers -> Ids \cup {0}] /\ blocklist' \subseteq Ids
      /\ \A p \in Providers : DeviceID[p] \in Ids => DeviceID'[p] \in Ids
  BY <1>2, <1>4 DEF IInv, TypeOK
<1>8. TypeOK'
  BY <1>5, <1>6, <1>7, TryAgainTypes DEF IInv, TypeOK
<1>9. Named'
  BY <1>5, <1>7, TryAgainTypes, Constants DEF IInv, Named
<1>10. QED
  BY <1>6, <1>8, <1>9 DEF IInv

LEMMA ReleaseWSConnectionKeeps ==
  ASSUME IInv, NEW s \in Streams, ReleaseWSConnection(s)
  PROVE  IInv'
<1> DEFINE entries == Entries(myId[s])
           c == Least(entries)
<1>1. /\ retryCount' = [retryCount EXCEPT ![s] = 0] /\ pc' = [pc EXCEPT ![s] = "done"]
      /\ conn' = [conn EXCEPT ![s] = NoConn] /\ myId' = [myId EXCEPT ![s] = 0]
      /\ frames' = [frames EXCEPT ![s] = 0]
      /\ UNCHANGED <<wsConnPool, deviceId, dialled, DeviceID, output, cancelled>>
      /\ \/ entries # {} /\ (GiveBack(c) \/ GiveUp(c))
         \/ UNCHANGED <<inUse, socket, blocklist>>
  BY DEF ReleaseWSConnection, Goto, Return
<1>2. /\ inUse' \subseteq inUse /\ blocklist' \subseteq Ids
      /\ socket' \in [Conns -> {"none", "open", "broken", "closed"}]
      /\ \A d \in Conns : /\ Live(d)' => Live(d)
                          /\ socket[d] = "none" => socket'[d] = "none"
  <2>1. CASE UNCHANGED <<inUse, socket, blocklist>>
    BY <2>1 DEF IInv, TypeOK, Live
  <2>2. CASE entries # {} /\ (GiveBack(c) \/ GiveUp(c))
    <3>1. c \in wsConnPool /\ c \in Conns
      <4>1. entries \in SUBSET Nat /\ entries \subseteq wsConnPool
        BY Constants DEF IInv, TypeOK, Entries
      <4>2. QED
        BY <2>2, <4>1, LeastIsIn DEF IInv, TypeOK
    <3>2. deviceId[c] \in Ids
      BY <3>1 DEF IInv, Pooled, Made
    <3> HIDE DEF c, entries
    <3>3. CASE GiveBack(c)
      BY <3>3 DEF IInv, TypeOK, Live, GiveBack
    <3>4. CASE GiveUp(c)
      BY <3>1, <3>2, <3>4 DEF IInv, TypeOK, Live, GiveUp, WriteFails
    <3>5. QED
      BY <2>2, <3>3, <3>4
  <2>3. QED
    BY <1>1, <2>1, <2>2
<1> HIDE DEF c, entries
<1>3. TypeOK'
  BY <1>1, <1>2, Constants DEF IInv, TypeOK, Steps
<1>4. Named'
  BY <1>1 DEF IInv, TypeOK, Named
<1>5. Pooled'
  BY <1>1, <1>2, KeepsPool DEF IInv
<1>6. QED
  BY <1>3, <1>4, <1>5 DEF IInv

----------------------------------------------------------------------------
(* The theorems                                                            *)

LEMMA InitHolds == Init => IInv
<1> SUFFICES ASSUME Init PROVE IInv
  OBVIOUS
<1>1. TypeOK
  BY Constants DEF Init, TypeOK, Steps
<1>2. Named /\ Made /\ Tracked /\ Unique
  BY DEF Init, Named, Made, Tracked, Unique, Live
<1>3. Bounded
  BY FS_EmptySet, Constants DEF Init, Bounded
<1>4. QED
  BY <1>1, <1>2, <1>3 DEF IInv, Pooled

LEMMA NextKeeps == IInv /\ [Next]_vars => IInv'
<1> SUFFICES ASSUME IInv, [Next]_vars PROVE IInv'
  OBVIOUS
<1>1. ASSUME NEW s \in Streams, Step(s) PROVE IInv'
  BY <1>1, ReuseKeeps, DialKeeps, DialFailsKeeps, ListenKeeps, BlockDeviceIdKeeps,
     RemoveWSConnectionKeeps, SendFrameKeeps, ReadErrorKeeps, ReleaseWSConnectionKeeps
  DEF Step, GetWSConnection
<1>2. ASSUME NEW s \in Streams, Call(s) \/ Cancel(s) \/ Consume(s) PROVE IInv'
  BY <1>2, CallKeeps, CancelKeeps, ConsumeKeeps
<1>3. ASSUME NEW s \in Streams, ReadFrame(s) \/ ReadText(s) \/ ReadStop(s) PROVE IInv'
  BY <1>3, ReadFrameKeeps, ReadTextKeeps, ReadStopKeeps
<1>4. ASSUME NEW c \in Conns, Break(c) \/ Clean(c) PROVE IInv'
  BY <1>4, BreakKeeps, CleanKeeps
<1>5. ASSUME NEW id \in Ids, Unblock(id) PROVE IInv'
  BY <1>5, UnblockKeeps
<1>6. CASE UNCHANGED vars
  <2>1. TypeOK' /\ Named'
    BY <1>6 DEF IInv, TypeOK, Named, vars, pool, local, chan
  <2>2. Pooled'
    BY <1>6, KeepsPool DEF IInv, Live, vars, pool
  <2>3. QED
    BY <2>1, <2>2 DEF IInv
<1>7. QED
  BY <1>1, <1>2, <1>3, <1>4, <1>5, <1>6 DEF Next

THEOREM Invariance == Spec => []IInv
BY InitHolds, NextKeeps, PTL DEF Spec

\* Every variable keeps its type: a stream makes no more than MaxRetries further attempts,
\* and no id is blocked that is not in deviceIdList.
THEOREM TypeCorrect == Spec => []TypeOK
<1>1. IInv => TypeOK
  BY DEF IInv
<1>2. QED
  BY <1>1, Invariance, PTL

\* For any size of the pool, however streams, evictions, failures and the cleaner follow
\* one another, the pool is not too large and loses sight of no connection, and with as
\* many device ids as places no two connections have the same.
THEOREM PoolIsTracked == Spec => []PoolKeepsTrack
<1>1. IInv => PoolKeepsTrack
  BY DEF IInv, Pooled, Bounded, Tracked, Unique, PoolKeepsTrack
<1>2. QED
  BY <1>1, Invariance, PTL

----------------------------------------------------------------------------
(* Audio                                                                   *)

Sockets == [open : BOOLEAN, broken : BOOLEAN, deadline : BOOLEAN,
            inbox : Seq(Audio!Messages)]
ReaderSteps == {"off", "get", "send", "loop", "read", "write", "writeLast", "remove",
                "close", "gone"}
DecoderSteps == {"off", "open", "loop", "stream", "send", "push", "gone"}
Decoders == [step : DecoderSteps, frames : 0 .. MaxFrames, tail : BOOLEAN]
Pipes == [full : BOOLEAN, closed : BOOLEAN]
Outs == [frames : 0 .. OutCap, closed : BOOLEAN]
Unconnected == {"off", "get", "gone"}

\* What a step of a stream may do to the sockets and to what the stream owns
MovesSockets ==
  /\ sockets' \in Seq(Sockets) /\ Len(sockets') >= Len(sockets)
  /\ current' \in 0 .. Len(sockets')
MovesReader(s) == \E step \in ReaderSteps : reader' = [reader EXCEPT ![s] = step]
MovesReads(s) == \E c \in 0 .. Len(sockets') : reads' = [reads EXCEPT ![s] = c]
MovesDecoder(s) ==
  \E r \in Decoders :
    /\ decoder' = [decoder EXCEPT ![s] = r]
    /\ r.step \in {"send", "push"} => r.frames > 0
MovesPipe(s) == \E p \in Pipes : pipe' = [pipe EXCEPT ![s] = p]
MovesPieces(s) == \E n \in 0 .. MaxAudio : pieces' = [pieces EXCEPT ![s] = n]
MovesOut(s) == \E o \in Outs : out' = [out EXCEPT ![s] = o]
MovesConsumer(s) == \E c \in {"off", "wait", "done"} : consumer' = [consumer EXCEPT ![s] = c]
StaysConnected(s) ==
  provider[s] = "doubao" /\ reader'[s] \notin Unconnected => reads'[s] # 0

LEMMA AudioTypes ==
  ASSUME Audio!IInv
  PROVE  /\ provider \in [Streams -> Audio!Kinds]
         /\ sockets \in Seq(Sockets) /\ Len(sockets) \in Nat
         /\ current \in 0 .. Len(sockets)
         /\ reader \in [Streams -> ReaderSteps]
         /\ reads \in [Streams -> 0 .. Len(sockets)]
         /\ decoder \in [Streams -> Decoders]
         /\ pipe \in [Streams -> Pipes]
         /\ pieces \in [Streams -> 0 .. MaxAudio]
         /\ out \in [Streams -> Outs]
         /\ consumer \in [Streams -> {"off", "wait", "done"}]
         /\ aborted \subseteq Streams
<1>1. sockets \in Seq(Sockets)
  BY DEF Audio!IInv, Audio!TypeOK, Sockets
<1>2. Len(sockets) \in Nat
  BY <1>1
<1> QED BY <1>1, <1>2 DEF Audio!IInv, Audio!TypeOK, ReaderSteps, DecoderSteps, Decoders, Pipes,
           Outs

LEMMA StreamSteps ==
  ASSUME Audio!IInv, NEW s \in Streams, UNCHANGED provider,
         MovesSockets, MovesReader(s), MovesReads(s), MovesDecoder(s), MovesPipe(s),
         MovesPieces(s), MovesOut(s), MovesConsumer(s), aborted' \subseteq Streams,
         StaysConnected(s)
  PROVE  Audio!IInv'
<1>1. Len(sockets) \in Nat /\ Len(sockets') \in Nat /\ Len(sockets') >= Len(sockets)
  BY AudioTypes DEF MovesSockets
<1>2. reader' \in [Streams -> ReaderSteps] /\ \A t \in Streams \ {s} : reader'[t] = reader[t]
  BY AudioTypes DEF MovesReader
<1>3. /\ reads' \in [Streams -> 0 .. Len(sockets')]
      /\ \A t \in Streams \ {s} : reads'[t] = reads[t]
  <2>1. \A i \in 0 .. Len(sockets) : i \in 0 .. Len(sockets')
    BY <1>1
  <2>2. reads \in [Streams -> 0 .. Len(sockets')]
    BY <2>1, AudioTypes
  <2> QED BY <2>2 DEF MovesReads
<1>4. decoder' \in [Streams -> Decoders] /\ Audio!HasFrames'
  <2>1. PICK r \in Decoders : /\ decoder' = [decoder EXCEPT ![s] = r]
                              /\ r.step \in {"send", "push"} => r.frames > 0
    BY DEF MovesDecoder
  <2>2. decoder' \in [Streams -> Decoders]
    BY <2>1, AudioTypes
  <2>3. \A t \in Streams : decoder'[t] = IF t = s THEN r ELSE decoder[t]
    BY <2>1, AudioTypes
  <2> QED BY <2>1, <2>2, <2>3 DEF Audio!IInv, Audio!HasFrames
<1>5. /\ pipe' \in [Streams -> Pipes] /\ pieces' \in [Streams -> 0 .. MaxAudio]
      /\ out' \in [Streams -> Outs] /\ consumer' \in [Streams -> {"off", "wait", "done"}]
  BY AudioTypes DEF MovesPipe, MovesPieces, MovesOut, MovesConsumer
<1>6. Audio!Connected'
  <2> SUFFICES ASSUME NEW t \in Streams, provider[t] = "doubao", reader'[t] \notin Unconnected
      PROVE  reads'[t] # 0
    BY DEF Audio!Connected, Unconnected
  <2>1. CASE t = s
    BY <2>1 DEF StaysConnected
  <2>2. CASE t # s
    BY <1>2, <1>3, <2>2 DEF Audio!IInv, Audio!Connected, Unconnected
  <2> QED BY <2>1, <2>2
<1>7. Audio!TypeOK'
  <2>1. sockets' \in Seq(Sockets) /\ current' \in 0 .. Len(sockets')
    BY DEF MovesSockets
  <2> QED BY <1>2, <1>3, <1>4, <1>5, <2>1, AudioTypes
          DEF Audio!TypeOK, Sockets, ReaderSteps, DecoderSteps, Decoders, Pipes, Outs
<1> QED BY <1>4, <1>6, <1>7 DEF Audio!IInv

\* What does not change has moved to where it was.
LEMMA Still ==
  ASSUME Audio!IInv, NEW s \in Streams
  PROVE  /\ UNCHANGED <<sockets, current>> => MovesSockets
         /\ UNCHANGED reader => MovesReader(s)
         /\ UNCHANGED reads /\ Len(sockets') \in Nat /\ Len(sockets') >= Len(sockets)
              => MovesReads(s)
         /\ UNCHANGED decoder => MovesDecoder(s)
         /\ UNCHANGED pipe => MovesPipe(s)
         /\ UNCHANGED pieces => MovesPieces(s)
         /\ UNCHANGED out => MovesOut(s)
         /\ UNCHANGED consumer => MovesConsumer(s)
         /\ UNCHANGED aborted => aborted' \subseteq Streams
<1>1. /\ reader[s] \in ReaderSteps /\ reader = [reader EXCEPT ![s] = reader[s]]
      /\ reads[s] \in 0 .. Len(sockets) /\ reads = [reads EXCEPT ![s] = reads[s]]
      /\ decoder[s] \in Decoders /\ decoder = [decoder EXCEPT ![s] = decoder[s]]
  BY AudioTypes
<1>2. /\ pipe[s] \in Pipes /\ pipe = [pipe EXCEPT ![s] = pipe[s]]
      /\ pieces[s] \in 0 .. MaxAudio /\ pieces = [pieces EXCEPT ![s] = pieces[s]]
      /\ out[s] \in Outs /\ out = [out EXCEPT ![s] = out[s]]
      /\ consumer[s] \in {"off", "wait", "done"}
      /\ consumer = [consumer EXCEPT ![s] = consumer[s]]
  BY AudioTypes
<1>3. UNCHANGED <<sockets, current>> => MovesSockets
  BY AudioTypes DEF MovesSockets
<1>4. UNCHANGED reader => MovesReader(s)
  BY <1>1 DEF MovesReader
<1>5. ASSUME UNCHANGED reads, Len(sockets') \in Nat, Len(sockets') >= Len(sockets)
      PROVE  MovesReads(s)
  <2>1. reads[s] \in 0 .. Len(sockets') /\ reads' = [reads EXCEPT ![s] = reads[s]]
    BY <1>1, <1>5, AudioTypes
  <2> QED BY <2>1 DEF MovesReads
<1>6. UNCHANGED decoder => MovesDecoder(s)
  <2>1. decoder[s].step \in {"send", "push"} => decoder[s].frames > 0
    BY DEF Audio!IInv, Audio!HasFrames
  <2> QED BY <1>1, <2>1 DEF MovesDecoder
<1>7. UNCHANGED pipe => MovesPipe(s)
  BY <1>2 DEF MovesPipe
<1>8. UNCHANGED pieces => MovesPieces(s)
  BY <1>2 DEF MovesPieces
<1>9. UNCHANGED out => MovesOut(s)
  BY <1>2 DEF MovesOut
<1>10. UNCHANGED consumer => MovesConsumer(s)
  BY <1>2 DEF MovesConsumer
<1> QED BY <1>3, <1>4, <1>5, <1>6, <1>7, <1>8, <1>9, <1>10, AudioTypes

\* A step that leaves the sockets alone
LEMMA OwnSteps ==
  ASSUME Audio!IInv, NEW s \in Streams, UNCHANGED <<provider, sockets, current, reads>>,
         MovesReader(s), MovesDecoder(s), MovesPipe(s),
         MovesPieces(s), MovesOut(s), MovesConsumer(s), aborted' \subseteq Streams,
         \/ UNCHANGED reader \/ provider[s] # "doubao" \/ reader[s] \notin Unconnected
         \/ reader'[s] \in Unconnected
  PROVE  Audio!IInv'
<1>1. MovesSockets /\ MovesReads(s)
  <2>1. Len(sockets') \in Nat /\ Len(sockets') >= Len(sockets)
    BY AudioTypes
  <2> QED BY <2>1, Still
<1>2. StaysConnected(s)
  BY DEF StaysConnected, Audio!IInv, Audio!Connected, Unconnected
<1> QED BY <1>1, <1>2, StreamSteps

LEMMA ReaderMoves ==
  ASSUME Audio!IInv, NEW s \in Streams, NEW step \in ReaderSteps, Audio!ReaderGoes(s, step)
  PROVE  MovesReader(s) /\ reader'[s] = step
BY AudioTypes DEF Audio!ReaderGoes, MovesReader

LEMMA DecoderMoves ==
  ASSUME Audio!IInv, NEW s \in Streams, NEW step \in DecoderSteps,
         Audio!DecoderGoes(s, step) \/ (step = "open" /\ decoder' = Audio!Decoding(s)),
         step \in {"send", "push"} => decoder[s].frames > 0
  PROVE  MovesDecoder(s)
<1> DEFINE r == [decoder[s] EXCEPT !.step = step]
<1>1. decoder' = [decoder EXCEPT ![s] = r]
  BY AudioTypes DEF Audio!DecoderGoes, Audio!Decoding
<1>2. r \in Decoders /\ r.step = step /\ r.frames = decoder[s].frames
  BY AudioTypes DEF Decoders
<1> HIDE DEF r
<1> QED BY <1>1, <1>2 DEF MovesDecoder

LEMMA PipeMoves ==
  ASSUME Audio!IInv, NEW s \in Streams
  PROVE  /\ Audio!Write(s) => MovesPipe(s)
         /\ pipe' = [pipe EXCEPT ![s].full = FALSE] => MovesPipe(s)
         /\ pipe' = [pipe EXCEPT ![s].closed = TRUE] => MovesPipe(s)
<1> DEFINE p == pipe[s]
<1>1. p \in Pipes /\ pipe \in [Streams -> Pipes]
  BY AudioTypes
<1>2. \A x \in BOOLEAN : [p EXCEPT !.full = x] \in Pipes /\ [p EXCEPT !.closed = x] \in Pipes
  BY <1>1 DEF Pipes
<1>3. p.closed \in BOOLEAN
  BY <1>1 DEF Pipes
<1>4. Audio!Write(s) => MovesPipe(s)
  <2>1. Audio!Write(s) => pipe' = [pipe EXCEPT ![s] = [p EXCEPT !.full = ~p.closed]]
    BY DEF Audio!Write
  <2>2. PICK b \in BOOLEAN : b = ~p.closed
    <3>1. p.closed = TRUE => ~p.closed = FALSE
      OBVIOUS
    <3>2. p.closed = FALSE => ~p.closed = TRUE
      OBVIOUS
    <3> QED BY <1>3, <3>1, <3>2
  <2> QED BY <1>2, <2>1, <2>2 DEF MovesPipe
<1>5. pipe' = [pipe EXCEPT ![s].full = FALSE] => MovesPipe(s)
  BY <1>2 DEF MovesPipe
<1>6. pipe' = [pipe EXCEPT ![s].closed = TRUE] => MovesPipe(s)
  BY <1>2 DEF MovesPipe
<1> QED BY <1>4, <1>5, <1>6

----------------------------------------------------------------------------
(* The sockets of doubao                                                   *)

LEMMA OneSocket ==
  ASSUME Audio!IInv, NEW i \in 1 .. Len(sockets), NEW r \in Sockets
  PROVE  /\ [sockets EXCEPT ![i] = r] \in Seq(Sockets)
         /\ Len([sockets EXCEPT ![i] = r]) = Len(sockets)
BY AudioTypes

LEMMA ASocket ==
  ASSUME Audio!IInv, NEW i \in 1 .. Len(sockets)
  PROVE  /\ sockets[i] \in Sockets
         /\ \A x \in BOOLEAN : /\ [sockets[i] EXCEPT !.open = x] \in Sockets
                               /\ [sockets[i] EXCEPT !.broken = x] \in Sockets
         /\ \A b \in Seq(Audio!Messages) :
              [sockets[i] EXCEPT !.inbox = b, !.deadline = TRUE] \in Sockets
         /\ sockets[i].inbox \in Seq(Audio!Messages)
<1>1. sockets[i] \in Sockets
  BY AudioTypes
<1> QED BY <1>1 DEF Sockets

LEMMA ShutCurrentIs ==
  ASSUME Audio!IInv
  PROVE  /\ Audio!ShutCurrent \in Seq(Sockets)
         /\ Len(Audio!ShutCurrent) = Len(sockets)
<1>1. CASE current = 0
  BY <1>1, AudioTypes DEF Audio!ShutCurrent
<1>2. CASE current # 0
  <2>1. current \in 1 .. Len(sockets)
    BY <1>2, AudioTypes
  <2>2. [sockets[current] EXCEPT !.open = FALSE] \in Sockets
    BY <2>1, ASocket
  <2>3. Audio!ShutCurrent = [sockets EXCEPT ![current] = [sockets[current] EXCEPT !.open = FALSE]]
    BY <1>2 DEF Audio!ShutCurrent, Audio!Shut
  <2> QED BY <2>1, <2>2, <2>3, OneSocket
<1> QED BY <1>1, <1>2

LEMMA RemovedSockets ==
  ASSUME Audio!IInv, sockets' = Audio!ShutCurrent, current' = 0
  PROVE  MovesSockets /\ Len(sockets') = Len(sockets)
BY ShutCurrentIs, AudioTypes DEF MovesSockets

LEMMA ChangedSocket ==
  ASSUME Audio!IInv, UNCHANGED current, NEW i \in 1 .. Len(sockets), NEW r \in Sockets,
         sockets' = [sockets EXCEPT ![i] = r]
  PROVE  MovesSockets /\ Len(sockets') = Len(sockets)
BY OneSocket, AudioTypes DEF MovesSockets

LEMMA AudioReuseKeeps ==
  ASSUME Audio!IInv, NEW s \in Streams, Audio!Reuse(s) PROVE Audio!IInv'
<1>1. /\ current # 0 /\ reads' = [reads EXCEPT ![s] = current]
      /\ Audio!ReaderGoes(s, "send")
      /\ UNCHANGED <<provider, sockets, current, decoder, pipe, pieces, out, consumer, aborted>>
  BY DEF Audio!Reuse
<1>2. MovesReader(s)
  BY <1>1, ReaderMoves DEF ReaderSteps
<1>3. MovesReads(s) /\ StaysConnected(s)
  BY <1>1, AudioTypes DEF MovesReads, StaysConnected
<1> QED BY <1>1, <1>2, <1>3, Still, StreamSteps

LEMMA AudioDialKeeps ==
  ASSUME Audio!IInv, NEW s \in Streams, Audio!Dial(s) PROVE Audio!IInv'
<1> DEFINE new == [open |-> TRUE, broken |-> FALSE, deadline |-> FALSE, inbox |-> <<>>]
<1>1. /\ sockets' = Append(Audio!ShutCurrent, new)
      /\ current' = Len(sockets') /\ reads' = [reads EXCEPT ![s] = Len(sockets')]
      /\ Audio!ReaderGoes(s, "send")
      /\ UNCHANGED <<provider, decoder, pipe, pieces, out, consumer, aborted>>
  BY DEF Audio!Dial
<1>2. new \in Sockets
  BY DEF Sockets
<1> HIDE DEF new
<1>3. sockets' \in Seq(Sockets) /\ Len(sockets') = Len(sockets) + 1
  BY <1>1, <1>2, ShutCurrentIs, AppendProperties
<1>4. MovesSockets /\ MovesReads(s)
  <2>1. Len(sockets') \in 0 .. Len(sockets') /\ Len(sockets') >= Len(sockets)
    BY <1>3, AudioTypes
  <2>2. MovesReads(s)
    BY <1>1, <2>1 DEF MovesReads
  <2> QED BY <1>1, <1>3, <2>1, <2>2 DEF MovesSockets
<1>5. StaysConnected(s)
  BY <1>1, <1>3, AudioTypes DEF StaysConnected
<1>6. MovesReader(s)
  BY <1>1, ReaderMoves DEF ReaderSteps
<1> QED BY <1>1, <1>4, <1>5, <1>6, Still, StreamSteps

\* The stream is refused: it needs no connection.
LEMMA RefuseIs ==
  ASSUME Audio!IInv, NEW s \in Streams, Audio!Refuse(s)
  PROVE  /\ MovesReader(s) /\ MovesConsumer(s) /\ StaysConnected(s)
         /\ UNCHANGED <<provider, reads, decoder, pipe, pieces, out, aborted>>
<1>1. /\ Audio!ReaderGoes(s, "gone") /\ consumer' = [consumer EXCEPT ![s] = "done"]
      /\ UNCHANGED <<provider, reads, decoder, pipe, pieces, out, aborted>>
  BY DEF Audio!Refuse
<1>2. MovesReader(s) /\ reader'[s] = "gone"
  BY <1>1, ReaderMoves DEF ReaderSteps
<1> QED BY <1>1, <1>2 DEF MovesConsumer, StaysConnected, Unconnected

LEMMA AudioDialFailsKeeps ==
  ASSUME Audio!IInv, NEW s \in Streams, Audio!DialFails(s) PROVE Audio!IInv'
<1>1. MovesSockets /\ Len(sockets') = Len(sockets)
  BY RemovedSockets DEF Audio!DialFails
<1>2. Audio!Refuse(s)
  BY DEF Audio!DialFails
<1>3. Len(sockets') \in Nat /\ Len(sockets') >= Len(sockets)
  BY <1>1, AudioTypes
<1> QED BY <1>1, <1>2, <1>3, RefuseIs, Still, StreamSteps

LEMMA AudioSendFailsKeeps ==
  ASSUME Audio!IInv, NEW s \in Streams, Audio!SendFails(s) PROVE Audio!IInv'
<1>1. MovesSockets /\ Len(sockets') = Len(sockets)
  BY RemovedSockets DEF Audio!SendFails, Audio!RemoveWSConnection
<1>2. Audio!Refuse(s)
  BY DEF Audio!SendFails
<1>3. Len(sockets') \in Nat /\ Len(sockets') >= Len(sockets)
  BY <1>1, AudioTypes
<1> QED BY <1>1, <1>2, <1>3, RefuseIs, Still, StreamSteps

\* The connection of a stream that has one
LEMMA MySocket ==
  ASSUME Audio!IInv, NEW s \in Streams, provider[s] = "doubao", reader[s] \notin Unconnected
  PROVE  reads[s] \in 1 .. Len(sockets)
<1>1. reads[s] # 0
  BY DEF Audio!IInv, Audio!Connected, Unconnected
<1> QED BY <1>1, AudioTypes

LEMMA AudioSendRequestKeeps ==
  ASSUME Audio!IInv, NEW s \in Streams, Audio!SendRequest(s) PROVE Audio!IInv'
<1>1. PICK answer \in Answers :
        sockets' = [sockets EXCEPT ![reads[s]].inbox = @ \o answer,
                                   ![reads[s]].deadline = TRUE]
  BY DEF Audio!SendRequest
<1>2. /\ provider[s] = "doubao" /\ reader[s] = "send"
      /\ Audio!ReaderGoes(s, "loop") /\ decoder' = Audio!Decoding(s)
      /\ UNCHANGED <<provider, current, reads, pipe, pieces, out, consumer, aborted>>
  BY DEF Audio!SendRequest, Audio!Asks
<1>3. reads[s] \in 1 .. Len(sockets)
  BY <1>2, MySocket DEF Unconnected
<1>4. MovesSockets /\ Len(sockets') = Len(sockets)
  <2> DEFINE i == reads[s]
             r == [sockets[i] EXCEPT !.inbox = @ \o answer, !.deadline = TRUE]
  <2>1. sockets' = [sockets EXCEPT ![i] = r]
    BY <1>1, <1>3, AudioTypes
  <2>2. answer \in Seq(Audio!Messages) /\ sockets[i].inbox \in Seq(Audio!Messages)
    BY <1>3, AudioAssumption, ASocket
  <2>3. sockets[i].inbox \o answer \in Seq(Audio!Messages)
    BY <2>2, ConcatProperties
  <2>4. r \in Sockets
    BY <1>3, <2>3, ASocket
  <2> HIDE DEF r
  <2> QED BY <1>2, <1>3, <2>1, <2>4, ChangedSocket
<1>5. Len(sockets') \in Nat /\ Len(sockets') >= Len(sockets)
  BY <1>4, AudioTypes
<1>6. MovesReader(s)
  BY <1>2, ReaderMoves DEF ReaderSteps
<1>7. MovesDecoder(s)
  BY <1>2, DecoderMoves DEF DecoderSteps
<1>8. StaysConnected(s)
  BY <1>2, <1>3 DEF StaysConnected
<1> QED BY <1>2, <1>4, <1>5, <1>6, <1>7, <1>8, Still, StreamSteps

LEMMA AudioReadMessageKeeps ==
  ASSUME Audio!IInv, NEW s \in Streams, Audio!ReadMessage(s) PROVE Audio!IInv'
<1>1. /\ provider[s] = "doubao" /\ reader[s] = "read"
      /\ sockets[reads[s]].inbox # <<>>
      /\ sockets' = [sockets EXCEPT ![reads[s]].inbox = Tail(@), ![reads[s]].deadline = TRUE]
      /\ \/ Audio!ReaderGoes(s, "write") /\ Audio!Write(s)
         \/ Audio!ReaderGoes(s, "writeLast") /\ Audio!Write(s)
         \/ Audio!ReaderGoes(s, "remove") /\ UNCHANGED pipe
      /\ UNCHANGED <<provider, current, reads, decoder, pieces, out, consumer, aborted>>
  BY DEF Audio!ReadMessage, Audio!Asks
<1>2. reads[s] \in 1 .. Len(sockets)
  BY <1>1, MySocket DEF Unconnected
<1>3. MovesSockets /\ Len(sockets') = Len(sockets)
  <2> DEFINE i == reads[s]
             r == [sockets[i] EXCEPT !.inbox = Tail(@), !.deadline = TRUE]
  <2>1. sockets' = [sockets EXCEPT ![i] = r]
    BY <1>1, <1>2, AudioTypes
  <2>2. Tail(sockets[i].inbox) \in Seq(Audio!Messages)
    <3>1. sockets[i].inbox \in Seq(Audio!Messages)
      BY <1>2, ASocket
    <3> QED BY <1>1, <3>1, HeadTailProperties
  <2>3. r \in Sockets
    BY <1>2, <2>2, ASocket
  <2> HIDE DEF r
  <2> QED BY <1>1, <1>2, <2>1, <2>3, ChangedSocket
<1>4. Len(sockets') \in Nat /\ Len(sockets') >= Len(sockets)
  BY <1>3, AudioTypes
<1>5. MovesReader(s)
  BY <1>1, ReaderMoves DEF ReaderSteps
<1>6. MovesPipe(s)
  BY <1>1, PipeMoves, Still
<1>7. StaysConnected(s)
  BY <1>1, <1>2 DEF StaysConnected
<1> QED BY <1>1, <1>3, <1>4, <1>5, <1>6, <1>7, Still, StreamSteps

LEMMA AudioReadTimeoutKeeps ==
  ASSUME Audio!IInv, NEW s \in Streams, Audio!ReadTimeout(s) PROVE Audio!IInv'
<1>1. /\ provider[s] = "doubao" /\ reader[s] = "read"
      /\ sockets' = [sockets EXCEPT ![reads[s]].broken = TRUE]
      /\ Audio!ReaderGoes(s, "remove")
      /\ UNCHANGED <<provider, current, reads, decoder, pipe, pieces, out, consumer, aborted>>
  BY DEF Audio!ReadTimeout, Audio!Asks
<1>2. reads[s] \in 1 .. Len(sockets)
  BY <1>1, MySocket DEF Unconnected
<1>3. MovesSockets /\ Len(sockets') = Len(sockets)
  <2> DEFINE i == reads[s]
             r == [sockets[i] EXCEPT !.broken = TRUE]
  <2>1. sockets' = [sockets EXCEPT ![i] = r]
    BY <1>1
  <2>2. r \in Sockets
    BY <1>2, ASocket
  <2> HIDE DEF r
  <2> QED BY <1>1, <1>2, <2>1, <2>2, ChangedSocket
<1>4. Len(sockets') \in Nat /\ Len(sockets') >= Len(sockets)
  BY <1>3, AudioTypes
<1>5. MovesReader(s)
  BY <1>1, ReaderMoves DEF ReaderSteps
<1>6. StaysConnected(s)
  BY <1>1, <1>2 DEF StaysConnected
<1> QED BY <1>1, <1>3, <1>4, <1>5, <1>6, Still, StreamSteps

LEMMA AudioRemoveKeeps ==
  ASSUME Audio!IInv, NEW s \in Streams, Audio!Remove(s) PROVE Audio!IInv'
<1>1. /\ reader[s] = "remove" /\ sockets' = Audio!ShutCurrent /\ current' = 0
      /\ Audio!ReaderGoes(s, "close")
      /\ UNCHANGED <<provider, reads, decoder, pipe, pieces, out, consumer, aborted>>
  BY DEF Audio!Remove, Audio!RemoveWSConnection
<1>2. MovesSockets /\ Len(sockets') = Len(sockets)
  BY <1>1, RemovedSockets
<1>3. Len(sockets') \in Nat /\ Len(sockets') >= Len(sockets)
  BY <1>2, AudioTypes
<1>4. MovesReader(s)
  BY <1>1, ReaderMoves DEF ReaderSteps
<1>5. StaysConnected(s)
  BY <1>1 DEF StaysConnected, Audio!IInv, Audio!Connected
<1> QED BY <1>1, <1>2, <1>3, <1>4, <1>5, Still, StreamSteps

----------------------------------------------------------------------------
(* The goroutines of a stream                                              *)

LEMMA AudioCallKeeps ==
  ASSUME Audio!IInv, NEW s \in Streams, Audio!Call(s) PROVE Audio!IInv'
<1>1. /\ Audio!ReaderGoes(s, IF provider[s] = "edge" THEN "loop" ELSE "get")
      /\ decoder' = IF provider[s] = "edge" THEN Audio!Decoding(s) ELSE decoder
      /\ consumer' = [consumer EXCEPT ![s] = "wait"]
      /\ UNCHANGED <<provider, sockets, current, reads, pipe, pieces, out, aborted>>
  BY DEF Audio!Call
<1>2. MovesReader(s) /\ (reader'[s] = "get" \/ provider[s] = "edge")
  BY <1>1, ReaderMoves DEF ReaderSteps
<1>3. MovesDecoder(s)
  BY <1>1, DecoderMoves, Still DEF DecoderSteps
<1>4. MovesConsumer(s)
  BY <1>1 DEF MovesConsumer
<1>5. provider[s] # "doubao" \/ reader'[s] \in Unconnected
  BY <1>2 DEF Unconnected
<1> QED BY <1>1, <1>2, <1>3, <1>4, <1>5, Still, OwnSteps

LEMMA AudioAbortKeeps ==
  ASSUME Audio!IInv, NEW s \in Streams, Audio!Cancel(s) PROVE Audio!IInv'
<1>1. /\ aborted' = aborted \cup {s}
      /\ UNCHANGED <<provider, sockets, current, reader, reads, decoder, pipe, pieces, out,
                     consumer>>
  BY DEF Audio!Cancel
<1>2. aborted' \subseteq Streams
  BY <1>1, AudioTypes
<1> QED BY <1>1, <1>2, Still, OwnSteps

\* A number of frames in the output channel
LEMMA OutMoves ==
  ASSUME Audio!IInv, NEW s \in Streams
  PROVE  /\ out[s].frames \in 0 .. OutCap /\ out[s].closed \in BOOLEAN
         /\ \A k \in 0 .. OutCap :
              /\ out' = [out EXCEPT ![s].frames = k] => MovesOut(s)
              /\ out' = [out EXCEPT ![s] = [frames |-> k, closed |-> TRUE]] => MovesOut(s)
         /\ out' = [out EXCEPT ![s].closed = TRUE] => MovesOut(s)
<1>1. out[s] \in Outs
  BY AudioTypes
<1>2. /\ \A k \in 0 .. OutCap : /\ [out[s] EXCEPT !.frames = k] \in Outs
                                /\ [frames |-> k, closed |-> TRUE] \in Outs
      /\ [out[s] EXCEPT !.closed = TRUE] \in Outs
      /\ out[s].frames \in 0 .. OutCap /\ out[s].closed \in BOOLEAN
  BY <1>1 DEF Outs
<1>3. ASSUME NEW k \in 0 .. OutCap
      PROVE  /\ out' = [out EXCEPT ![s].frames = k] => MovesOut(s)
             /\ out' = [out EXCEPT ![s] = [frames |-> k, closed |-> TRUE]] => MovesOut(s)
  BY <1>2 DEF MovesOut
<1>4. out' = [out EXCEPT ![s].closed = TRUE] => MovesOut(s)
  BY <1>2 DEF MovesOut
<1> QED BY <1>2, <1>3, <1>4

LEMMA AudioTakeKeeps ==
  ASSUME Audio!IInv, NEW s \in Streams, Audio!Take(s) PROVE Audio!IInv'
<1>1. /\ out[s].frames > 0 /\ out' = [out EXCEPT ![s].frames = out[s].frames - 1]
      /\ UNCHANGED <<provider, sockets, current, reader, reads, decoder, pipe, pieces,
                     consumer, aborted>>
  BY DEF Audio!Take
<1>2. out[s].frames - 1 \in 0 .. OutCap
  <2>1. PICK k \in 0 .. OutCap : k = out[s].frames
    BY OutMoves
  <2> QED BY <1>1, <2>1, SizesAssumption
<1>3. MovesOut(s)
  BY <1>1, <1>2, OutMoves
<1> QED BY <1>1, <1>3, Still, OwnSteps

LEMMA AudioLeaveKeeps ==
  ASSUME Audio!IInv, NEW s \in Streams, Audio!Leave(s) PROVE Audio!IInv'
<1>1. /\ consumer' = [consumer EXCEPT ![s] = "done"]
      /\ UNCHANGED <<provider, sockets, current, reader, reads, decoder, pipe, pieces, out,
                     aborted>>
  BY DEF Audio!Leave
<1>2. MovesConsumer(s)
  BY <1>1 DEF MovesConsumer
<1> QED BY <1>1, <1>2, Still, OwnSteps

LEMMA AudioCheckCtxKeeps ==
  ASSUME Audio!IInv, NEW s \in Streams, Audio!CheckCtx(s) PROVE Audio!IInv'
<1>1. /\ reader[s] = "loop"
      /\ Audio!ReaderGoes(s, IF s \in aborted THEN "close" ELSE "read")
      /\ UNCHANGED <<provider, sockets, current, reads, decoder, pipe, pieces, out, consumer,
                     aborted>>
  BY DEF Audio!CheckCtx
<1>2. MovesReader(s)
  BY <1>1, ReaderMoves DEF ReaderSteps
<1>3. reader[s] \notin Unconnected
  BY <1>1 DEF Unconnected
<1> QED BY <1>1, <1>2, <1>3, Still, OwnSteps

LEMMA AudioReadErrorKeeps ==
  ASSUME Audio!IInv, NEW s \in Streams, Audio!ReadError(s) PROVE Audio!IInv'
<1>1. /\ reader[s] = "read" /\ Audio!ReaderGoes(s, "remove")
      /\ UNCHANGED <<provider, sockets, current, reads, decoder, pipe, pieces, out, consumer,
                     aborted>>
  BY DEF Audio!ReadError, Audio!Asks
<1>2. MovesReader(s)
  BY <1>1, ReaderMoves DEF ReaderSteps
<1>3. reader[s] \notin Unconnected
  BY <1>1 DEF Unconnected
<1> QED BY <1>1, <1>2, <1>3, Still, OwnSteps

LEMMA AudioWriteReturnsKeeps ==
  ASSUME Audio!IInv, NEW s \in Streams, Audio!WriteReturns(s) PROVE Audio!IInv'
<1>1. /\ reader[s] \in {"write", "writeLast"} /\ pipe' = [pipe EXCEPT ![s].full = FALSE]
      /\ Audio!ReaderGoes(s, IF reader[s] = "writeLast" THEN "close" ELSE "loop")
      /\ UNCHANGED <<provider, sockets, current, reads, decoder, pieces, out, consumer,
                     aborted>>
  BY DEF Audio!WriteReturns
<1>2. MovesReader(s)
  BY <1>1, ReaderMoves DEF ReaderSteps
<1>3. MovesPipe(s)
  BY <1>1, PipeMoves
<1>4. reader[s] \notin Unconnected
  BY <1>1 DEF Unconnected
<1> QED BY <1>1, <1>2, <1>3, <1>4, Still, OwnSteps

LEMMA AudioClosePipeKeeps ==
  ASSUME Audio!IInv, NEW s \in Streams, Audio!ClosePipe(s) PROVE Audio!IInv'
<1>1. /\ pipe' = [pipe EXCEPT ![s].closed = TRUE] /\ Audio!ReaderGoes(s, "gone")
      /\ UNCHANGED <<provider, sockets, current, reads, decoder, pieces, out, consumer,
                     aborted>>
  BY DEF Audio!ClosePipe
<1>2. MovesReader(s) /\ reader'[s] \in Unconnected
  BY <1>1, ReaderMoves DEF ReaderSteps, Unconnected
<1>3. MovesPipe(s)
  BY <1>1, PipeMoves
<1> QED BY <1>1, <1>2, <1>3, Still, OwnSteps

\* A reader that is not doubao's
LEMMA OtherReader ==
  ASSUME Audio!IInv, NEW s \in Streams, provider[s] # "doubao", Audio!Others' = Audio!Others,
         MovesReader(s), MovesDecoder(s), MovesPipe(s), MovesPieces(s)
  PROVE  Audio!IInv'
<1>1. UNCHANGED <<provider, sockets, current, reads, out, consumer, aborted>>
  BY DEF Audio!Others
<1> QED BY <1>1, Still, OwnSteps

LEMMA PieceIs ==
  ASSUME Audio!IInv, NEW s \in Streams, NEW step \in ReaderSteps, Audio!Piece(s, step)
  PROVE  MovesReader(s) /\ MovesDecoder(s) /\ MovesPipe(s) /\ MovesPieces(s)
<1>1. /\ pieces[s] > 0 /\ pieces' = [pieces EXCEPT ![s] = @ - 1]
      /\ Audio!Write(s) /\ Audio!ReaderGoes(s, step) /\ UNCHANGED decoder
  BY DEF Audio!Piece
<1>2. pieces[s] - 1 \in 0 .. MaxAudio
  BY <1>1, AudioTypes, AudioAssumption
<1>3. MovesPieces(s)
  BY <1>1, <1>2 DEF MovesPieces
<1> QED BY <1>1, <1>3, ReaderMoves, PipeMoves, Still

LEMMA GoesOnly ==
  ASSUME Audio!IInv, NEW s \in Streams, NEW step \in ReaderSteps, Audio!ReaderGoes(s, step)
  PROVE  /\ MovesReader(s)
         /\ UNCHANGED <<decoder, pipe, pieces>> =>
              MovesDecoder(s) /\ MovesPipe(s) /\ MovesPieces(s)
         /\ decoder' = Audio!Decoding(s) /\ UNCHANGED <<pipe, pieces>> =>
              MovesDecoder(s) /\ MovesPipe(s) /\ MovesPieces(s)
BY ReaderMoves, DecoderMoves, Still DEF DecoderSteps

LEMMA AudioEdgeChunkKeeps ==
  ASSUME Audio!IInv, NEW s \in Streams, Audio!EdgeChunk(s) PROVE Audio!IInv'
<1>1. /\ provider[s] # "doubao" /\ Audio!Others' = Audio!Others
      /\ Audio!Piece(s, "write") \/ Audio!Ends(s)
  BY DEF Audio!EdgeChunk
<1>2. MovesReader(s) /\ MovesDecoder(s) /\ MovesPipe(s) /\ MovesPieces(s)
  BY <1>1, PieceIs, GoesOnly DEF Audio!Ends, ReaderSteps
<1> QED BY <1>1, <1>2, OtherReader

LEMMA AudioRequestFailsKeeps ==
  ASSUME Audio!IInv, NEW s \in Streams, Audio!RequestFails(s) PROVE Audio!IInv'
<1>1. provider[s] # "doubao" /\ Audio!Others' = Audio!Others /\ Audio!Quit(s)
  BY DEF Audio!RequestFails
<1>2. MovesReader(s) /\ MovesDecoder(s) /\ MovesPipe(s) /\ MovesPieces(s)
  BY <1>1, GoesOnly DEF Audio!Quit, ReaderSteps
<1> QED BY <1>1, <1>2, OtherReader

LEMMA AudioRespondKeeps ==
  ASSUME Audio!IInv, NEW s \in Streams, Audio!Respond(s) PROVE Audio!IInv'
<1>1. /\ provider[s] # "doubao" /\ Audio!Others' = Audio!Others
      /\ Audio!ReaderGoes(s, "loop") /\ decoder' = Audio!Decoding(s)
      /\ UNCHANGED <<pipe, pieces>>
  BY DEF Audio!Respond
<1>2. MovesReader(s) /\ MovesDecoder(s) /\ MovesPipe(s) /\ MovesPieces(s)
  BY <1>1, GoesOnly DEF ReaderSteps
<1> QED BY <1>1, <1>2, OtherReader

LEMMA AudioBodyKeeps ==
  ASSUME Audio!IInv, NEW s \in Streams, Audio!Body(s) PROVE Audio!IInv'
<1>1. /\ provider[s] # "doubao" /\ Audio!Others' = Audio!Others
      /\ Audio!Piece(s, "write") \/ Audio!Ends(s)
  BY DEF Audio!Body
<1>2. MovesReader(s) /\ MovesDecoder(s) /\ MovesPipe(s) /\ MovesPieces(s)
  BY <1>1, PieceIs, GoesOnly DEF Audio!Ends, ReaderSteps
<1> QED BY <1>1, <1>2, OtherReader

LEMMA AudioOfflineAsksKeeps ==
  ASSUME Audio!IInv, NEW s \in Streams, Audio!OfflineAsks(s) PROVE Audio!IInv'
<1>1. /\ provider[s] # "doubao" /\ Audio!Others' = Audio!Others
      /\ \/ Audio!Quit(s)
         \/ Audio!ReaderGoes(s, "send") /\ UNCHANGED <<decoder, pipe, pieces>>
         \/ /\ Audio!ReaderGoes(s, "loop") /\ decoder' = Audio!Decoding(s)
            /\ UNCHANGED <<pipe, pieces>>
  BY DEF Audio!OfflineAsks
<1>2. MovesReader(s) /\ MovesDecoder(s) /\ MovesPipe(s) /\ MovesPieces(s)
  BY <1>1, GoesOnly DEF Audio!Quit, ReaderSteps
<1> QED BY <1>1, <1>2, OtherReader

LEMMA AudioOfflineReadsKeeps ==
  ASSUME Audio!IInv, NEW s \in Streams, Audio!OfflineReads(s) PROVE Audio!IInv'
<1>1. /\ provider[s] # "doubao" /\ Audio!Others' = Audio!Others
      /\ \/ Audio!Piece(s, "writeLast")
         \/ Audio!Ends(s)
         \/ Audio!ReaderGoes(s, "loop") /\ UNCHANGED <<decoder, pipe, pieces>>
  BY DEF Audio!OfflineReads
<1>2. MovesReader(s) /\ MovesDecoder(s) /\ MovesPipe(s) /\ MovesPieces(s)
  BY <1>1, PieceIs, GoesOnly DEF Audio!Ends, ReaderSteps
<1> QED BY <1>1, <1>2, OtherReader

----------------------------------------------------------------------------
(* The decoder of a stream                                                 *)

LEMMA DecoderStep ==
  ASSUME Audio!IInv, NEW s \in Streams, Audio!DecoderOnly,
         MovesDecoder(s), MovesPipe(s), MovesOut(s)
  PROVE  Audio!IInv'
<1>1. UNCHANGED <<provider, sockets, current, reader, reads, pieces, consumer, aborted>>
  BY DEF Audio!DecoderOnly
<1> QED BY <1>1, Still, OwnSteps

LEMMA ReturnIs ==
  ASSUME Audio!IInv, NEW s \in Streams, NEW k \in 0 .. OutCap, Audio!Return(s, k)
  PROVE  MovesDecoder(s) /\ MovesPipe(s) /\ MovesOut(s)
<1>1. MovesDecoder(s)
  BY DecoderMoves DEF Audio!Return, DecoderSteps
<1>2. MovesOut(s)
  BY OutMoves DEF Audio!Return
<1>3. MovesPipe(s)
  BY PipeMoves, Still DEF Audio!Return
<1> QED BY <1>1, <1>2, <1>3

LEMMA FramesOut ==
  ASSUME Audio!IInv, NEW s \in Streams
  PROVE  out[s].frames \in 0 .. OutCap /\ 0 \in 0 .. OutCap
BY OutMoves, SizesAssumption

LEMMA AudioOpenDecoderKeeps ==
  ASSUME Audio!IInv, NEW s \in Streams, Audio!OpenDecoder(s) PROVE Audio!IInv'
<1>1. CASE /\ Audio!DecoderGoes(s, "loop")
           /\ pipe' = IF Audio!Raw(s) THEN pipe ELSE [pipe EXCEPT ![s].full = FALSE]
           /\ UNCHANGED out
  BY <1>1, DecoderMoves, PipeMoves, Still, DecoderStep DEF Audio!OpenDecoder, DecoderSteps
<1>2. CASE Audio!Return(s, 0)
  BY <1>2, FramesOut, ReturnIs, DecoderStep DEF Audio!OpenDecoder
<1> QED BY <1>1, <1>2 DEF Audio!OpenDecoder

LEMMA AudioDecodeFailsKeeps ==
  ASSUME Audio!IInv, NEW s \in Streams, Audio!DecodeFails(s) PROVE Audio!IInv'
<1>1. /\ Audio!DecoderOnly /\ Audio!DecoderGoes(s, "gone")
      /\ out' = [out EXCEPT ![s].closed = TRUE]
      /\ pipe' = IF provider[s] = "cosyvoice" THEN [pipe EXCEPT ![s].closed = TRUE] ELSE pipe
  BY DEF Audio!DecodeFails
<1>2. MovesDecoder(s) /\ MovesOut(s) /\ MovesPipe(s)
  BY <1>1, DecoderMoves, OutMoves, PipeMoves, Still DEF DecoderSteps
<1> QED BY <1>1, <1>2, DecoderStep

LEMMA AudioCheckDecoderKeeps ==
  ASSUME Audio!IInv, NEW s \in Streams, Audio!CheckDecoder(s) PROVE Audio!IInv'
<1>1. CASE Audio!Return(s, out[s].frames)
  BY <1>1, FramesOut, ReturnIs, DecoderStep DEF Audio!CheckDecoder
<1>2. CASE Audio!DecoderGoes(s, "stream") /\ UNCHANGED <<pipe, out>>
  BY <1>2, DecoderMoves, Still, DecoderStep DEF Audio!CheckDecoder, DecoderSteps
<1> QED BY <1>1, <1>2 DEF Audio!CheckDecoder

LEMMA AudioDecodeKeeps ==
  ASSUME Audio!IInv, NEW s \in Streams, Audio!Decode(s) PROVE Audio!IInv'
<1>1. /\ Audio!DecoderOnly /\ pipe' = [pipe EXCEPT ![s].full = FALSE] /\ UNCHANGED out
  BY DEF Audio!Decode
<1>2. PICK k \in 0 .. MaxFrames :
        decoder' = [decoder EXCEPT ![s].frames = k,
                                   ![s].step = IF k = 0 THEN "loop" ELSE "send"]
  BY DEF Audio!Decode
<1>3. MovesDecoder(s)
  <2> DEFINE r == [decoder[s] EXCEPT !.frames = k, !.step = IF k = 0 THEN "loop" ELSE "send"]
  <2>1. decoder' = [decoder EXCEPT ![s] = r]
    BY <1>2, AudioTypes
  <2>2. r \in Decoders /\ (r.step \in {"send", "push"} => r.frames > 0)
    <3>1. decoder[s] \in Decoders /\ (k = 0 \/ k > 0)
      BY AudioTypes, SizesAssumption
    <3>2. r.frames = k /\ r.step = IF k = 0 THEN "loop" ELSE "send"
      BY <3>1 DEF Decoders
    <3>3. r \in Decoders
      BY <3>1 DEF Decoders, DecoderSteps
    <3> QED BY <3>1, <3>2, <3>3
  <2> HIDE DEF r
  <2> QED BY <2>1, <2>2 DEF MovesDecoder
<1> QED BY <1>1, <1>3, PipeMoves, Still, DecoderStep

LEMMA AudioDecodeEndKeeps ==
  ASSUME Audio!IInv, NEW s \in Streams, Audio!DecodeEnd(s) PROVE Audio!IInv'
<1>1. CASE Audio!Return(s, out[s].frames)
  BY <1>1, FramesOut, ReturnIs, DecoderStep DEF Audio!DecodeEnd
<1>2. CASE /\ decoder' = [decoder EXCEPT ![s] = [step |-> "send", frames |-> 1, tail |-> TRUE]]
           /\ UNCHANGED <<pipe, out>>
  <2> DEFINE r == [step |-> "send", frames |-> 1, tail |-> TRUE]
  <2>1. r \in Decoders /\ r.frames > 0
    <3>1. 1 \in 0 .. MaxFrames
      BY AudioAssumption, SizesAssumption
    <3> QED BY <3>1 DEF Decoders, DecoderSteps
  <2>2. decoder' = [decoder EXCEPT ![s] = r]
    BY <1>2
  <2> HIDE DEF r
  <2>3. MovesDecoder(s)
    BY <2>1, <2>2 DEF MovesDecoder
  <2> QED BY <1>2, <2>3, Still, DecoderStep DEF Audio!DecodeEnd
<1> QED BY <1>1, <1>2 DEF Audio!DecodeEnd

LEMMA AudioCheckSendKeeps ==
  ASSUME Audio!IInv, NEW s \in Streams, Audio!CheckSend(s) PROVE Audio!IInv'
<1>1. CASE Audio!Return(s, out[s].frames)
  BY <1>1, FramesOut, ReturnIs, DecoderStep DEF Audio!CheckSend
<1>2. CASE Audio!DecoderGoes(s, "push") /\ UNCHANGED <<pipe, out>>
  <2>1. decoder[s].frames > 0
    BY DEF Audio!CheckSend, Audio!IInv, Audio!HasFrames
  <2> QED BY <1>2, <2>1, DecoderMoves, Still, DecoderStep DEF Audio!CheckSend, DecoderSteps
<1> QED BY <1>1, <1>2 DEF Audio!CheckSend

LEMMA AudioPushFrameKeeps ==
  ASSUME Audio!IInv, NEW s \in Streams, Audio!Push(s) PROVE Audio!IInv'
<1>1. out[s].frames + 1 \in 0 .. OutCap
  BY FramesOut, SizesAssumption DEF Audio!Push
<1>2. CASE Audio!Return(s, out[s].frames + 1)
  BY <1>1, <1>2, ReturnIs, DecoderStep DEF Audio!Push
<1>3. CASE /\ out' = [out EXCEPT ![s].frames = @ + 1]
           /\ decoder' = [decoder EXCEPT ![s].frames = @ - 1,
                            ![s].step = IF decoder[s].frames > 1 THEN "send" ELSE "loop"]
           /\ UNCHANGED pipe
  <2>1. MovesOut(s)
    <3>1. out' = [out EXCEPT ![s].frames = out[s].frames + 1]
      BY <1>3
    <3> QED BY <1>1, <3>1, OutMoves
  <2>2. MovesDecoder(s)
    <3> DEFINE k == decoder[s].frames
               r == [decoder[s] EXCEPT !.frames = k - 1,
                                       !.step = IF k > 1 THEN "send" ELSE "loop"]
    <3>1. decoder' = [decoder EXCEPT ![s] = r]
      BY <1>3, AudioTypes
    <3>2. k > 0 /\ decoder[s] \in Decoders
      BY AudioTypes DEF Audio!Push, Audio!IInv, Audio!HasFrames
    <3>3. k \in 0 .. MaxFrames
      BY <3>2 DEF Decoders
    <3>4. k - 1 \in 0 .. MaxFrames /\ (k > 1 => k - 1 > 0)
      BY <3>2, <3>3, SizesAssumption
    <3>5. r \in Decoders /\ (r.step \in {"send", "push"} => r.frames > 0)
      BY <3>2, <3>4 DEF Decoders, DecoderSteps
    <3> HIDE DEF r
    <3> QED BY <3>1, <3>5 DEF MovesDecoder
  <2> QED BY <1>3, <2>1, <2>2, Still, DecoderStep DEF Audio!Push
<1> QED BY <1>2, <1>3 DEF Audio!Push

----------------------------------------------------------------------------
(* All of them                                                             *)

LEMMA AudioInitHolds ==
  ASSUME Audio!Init PROVE Audio!IInv
<1>1. /\ sockets \in Seq(Sockets) /\ Len(sockets) = 0
  BY DEF Audio!Init
<1>2. provider \in [Streams -> Audio!Kinds]
  BY AudioAssumption DEF Audio!Init
<1>3. 0 \in 0 .. MaxFrames /\ 0 \in 0 .. OutCap /\ MaxAudio \in 0 .. MaxAudio /\ 0 \in 0 .. 0
  BY AudioAssumption, SizesAssumption
<1>4. Audio!TypeOK
  BY <1>1, <1>2, <1>3 DEF Audio!Init, Audio!TypeOK, Sockets
<1> QED BY <1>4 DEF Audio!Init, Audio!IInv, Audio!Connected, Audio!HasFrames

LEMMA AudioUntouched ==
  ASSUME Audio!IInv, UNCHANGED speechVars PROVE Audio!IInv'
BY DEF speechVars, Audio!IInv, Audio!TypeOK, Audio!Connected, Audio!HasFrames, Audio!Kinds,
       Audio!Messages

LEMMA AudioNextKeeps ==
  ASSUME Audio!IInv, Audio!Next PROVE Audio!IInv'
<1>1. PICK s \in Streams : \/ Audio!Call(s) \/ Audio!Cancel(s) \/ Audio!Consume(s)
                           \/ Audio!Reader(s) \/ Audio!Decoder(s)
  BY DEF Audio!Next
<1>2. CASE Audio!Call(s) \/ Audio!Cancel(s) \/ Audio!Consume(s)
  BY <1>2, AudioCallKeeps, AudioAbortKeeps, AudioTakeKeeps, AudioLeaveKeeps DEF Audio!Consume
<1>3. CASE Audio!Reader(s)
  <2>1. CASE \/ Audio!Reuse(s) \/ Audio!Dial(s) \/ Audio!DialFails(s) \/ Audio!SendRequest(s)
             \/ Audio!SendFails(s)
    BY <2>1, AudioReuseKeeps, AudioDialKeeps, AudioDialFailsKeeps, AudioSendRequestKeeps,
       AudioSendFailsKeeps
  <2>2. CASE \/ Audio!CheckCtx(s) \/ Audio!ReadMessage(s) \/ Audio!ReadTimeout(s)
             \/ Audio!ReadError(s) \/ Audio!Remove(s) \/ Audio!WriteReturns(s)
             \/ Audio!ClosePipe(s)
    BY <2>2, AudioCheckCtxKeeps, AudioReadMessageKeeps, AudioReadTimeoutKeeps,
       AudioReadErrorKeeps, AudioRemoveKeeps,
       AudioWriteReturnsKeeps, AudioClosePipeKeeps
  <2>3. CASE \/ Audio!EdgeChunk(s) \/ Audio!RequestFails(s) \/ Audio!Respond(s)
             \/ Audio!Body(s) \/ Audio!OfflineAsks(s) \/ Audio!OfflineReads(s)
    BY <2>3, AudioEdgeChunkKeeps, AudioRequestFailsKeeps, AudioRespondKeeps, AudioBodyKeeps,
       AudioOfflineAsksKeeps,
       AudioOfflineReadsKeeps
  <2> QED BY <1>3, <2>1, <2>2, <2>3 DEF Audio!Reader
<1>4. CASE Audio!Decoder(s)
  BY <1>4, AudioOpenDecoderKeeps, AudioDecodeFailsKeeps, AudioCheckDecoderKeeps,
     AudioDecodeKeeps, AudioDecodeEndKeeps,
     AudioCheckSendKeeps, AudioPushFrameKeeps DEF Audio!Decoder
<1> QED BY <1>1, <1>2, <1>3, <1>4

----------------------------------------------------------------------------
(* Folds                                                                   *)

\* Induction over the numbers up to n, with a set in the place of the predicate.
LEMMA Climb ==
  ASSUME NEW n \in Nat, NEW T \in SUBSET (0 .. n), 0 \in T,
         \A i \in T : i < n => i + 1 \in T
  PROVE  n \in T
<1> SUFFICES ASSUME n \notin T PROVE FALSE
  OBVIOUS
<1> DEFINE S == (0 .. n) \ T
<1>1. S \in SUBSET Nat /\ n \in S
  OBVIOUS
<1>2. PICK x \in S : \A y \in S : x <= y
  <2> HIDE DEF S
  <2> QED BY <1>1, SomeLeast
<1>3. x - 1 \in T
  BY <1>2
<1> QED BY <1>2, <1>3

\* What a fold makes of the first elements, one after another.
Folding(f, V, step, base, s) ==
  /\ f \in [0 .. Len(s) -> V]
  /\ f[0] = base
  /\ \A i \in 1 .. Len(s) : f[i] = step[f[i - 1]][s[i]]

Foldable(V, S, step, base) == base \in V /\ step \in [V -> [S -> V]]

Folded(V, step, base, s) ==
  \E f : Folding(f, V, step, base, s) /\ Reply!Fold(step, base, s) = f[Len(s)]

LEMMA FoldSteps ==
  ASSUME NEW V, NEW S, NEW base, NEW step, Foldable(V, S, step, base)
  PROVE  \A s \in Seq(S) : Folded(V, step, base, s)
<1> USE DEF Foldable
<1> SUFFICES ASSUME NEW s \in Seq(S)
    PROVE  Folded(V, step, base, s)
  OBVIOUS
<1> DEFINE n == Len(s)
           Upto(k) == \E f \in [0 .. k -> V] :
                        f[0] = base /\ \A i \in 1 .. k : f[i] = step[f[i - 1]][s[i]]
           T == {k \in 0 .. n : Upto(k)}
           F(g) == [i \in 0 .. n |-> IF i = 0 THEN base ELSE step[g[i - 1]][s[i]]]
<1>1. n \in Nat /\ \A i \in 1 .. n : s[i] \in S
  OBVIOUS
<1>2. Upto(0)
  <2> DEFINE g == [i \in 0 .. 0 |-> base]
  <2>1. g \in [0 .. 0 -> V] /\ g[0] = base /\ 1 .. 0 = {}
    OBVIOUS
  <2> HIDE DEF g
  <2> QED BY <2>1
<1>3. ASSUME NEW k \in T, k < n PROVE Upto(k + 1)
  <2>1. PICK f \in [0 .. k -> V] : f[0] = base /\ \A i \in 1 .. k : f[i] = step[f[i - 1]][s[i]]
    OBVIOUS
  <2>2. k \in 0 .. n /\ k + 1 \in 1 .. n
    BY <1>1, <1>3
  <2>3. f[k] \in V /\ s[k + 1] \in S
    BY <1>1, <2>2
  <2>4. step[f[k]][s[k + 1]] \in V
    BY <2>3
  <2> DEFINE g == [i \in 0 .. k + 1 |-> IF i = k + 1 THEN step[f[k]][s[k + 1]] ELSE f[i]]
  <2>5. g \in [0 .. k + 1 -> V]
    BY <2>2, <2>4
  <2>6. g[0] = base
    BY <2>1, <2>2
  <2>7. ASSUME NEW i \in 1 .. k + 1 PROVE g[i] = step[g[i - 1]][s[i]]
    <3>1. CASE i = k + 1
      <4>1. g[i] = step[f[k]][s[k + 1]] /\ g[i - 1] = f[k]
        BY <2>2, <3>1
      <4> QED BY <3>1, <4>1
    <3>2. CASE i # k + 1
      <4>1. g[i] = f[i] /\ g[i - 1] = f[i - 1] /\ i \in 1 .. k
        BY <2>2, <3>2
      <4> QED BY <2>1, <4>1
    <3> QED BY <3>1, <3>2
  <2> QED BY <2>5, <2>6, <2>7
<1>4. n \in T
  <2> HIDE DEF Upto, n
  <2>1. T \in SUBSET (0 .. n) /\ 0 \in T
    BY <1>1, <1>2
  <2>2. \A i \in T : i < n => i + 1 \in T
    BY <1>1, <1>3
  <2> HIDE DEF T
  <2> QED BY <1>1, <2>1, <2>2, Climb
<1>5. PICK h \in [0 .. n -> V] : h[0] = base /\ \A i \in 1 .. n : h[i] = step[h[i - 1]][s[i]]
  BY <1>4
<1>6. h = F(h)
  <2>1. \A i \in 0 .. n : h[i] = F(h)[i]
    BY <1>1, <1>5
  <2> QED BY <2>1
<1> DEFINE c == CHOOSE g : g = F(g)
<1>7. c = F(c)
  <2> HIDE DEF F
  <2> QED BY <1>6
<1>8. Reply!Fold(step, base, s) = c[n]
  BY DEF Reply!Fold
<1> HIDE DEF c
<1>9. c[0] = base /\ \A i \in 1 .. n : c[i] = step[c[i - 1]][s[i]]
  <2>1. \A i \in 0 .. n : c[i] = IF i = 0 THEN base ELSE step[c[i - 1]][s[i]]
    BY <1>7, Zenon
  <2> HIDE DEF n
  <2> QED BY <1>1, <2>1
<1> HIDE DEF n
<1>10. \A i \in 0 .. n : c[i] = h[i]
  <2> SUFFICES ASSUME NEW k \in 0 .. n PROVE c[k] = h[k]
    OBVIOUS
  <2> DEFINE U == {i \in 0 .. k : c[i] = h[i]}
  <2>1. U \in SUBSET (0 .. k) /\ 0 \in U /\ k \in Nat
    BY <1>1, <1>5, <1>9
  <2>2. ASSUME NEW i \in U, i < k PROVE i + 1 \in U
    <3>1. i + 1 \in 1 .. n /\ (i + 1) - 1 = i /\ i + 1 \in 0 .. k
      BY <1>1, <2>2
    <3>2. c[i] = h[i]
      BY <2>2
    <3>3. c[i + 1] = h[i + 1]
      <4>1. c[i + 1] = step[c[i]][s[i + 1]] /\ h[i + 1] = step[h[i]][s[i + 1]]
        BY <1>5, <1>9, <3>1
      <4> QED BY <3>2, <4>1
    <3> QED BY <3>1, <3>3
  <2>3. k \in U
    <3> HIDE DEF U
    <3> QED BY <2>1, <2>2, Climb
  <2> QED BY <2>3
<1>11. n \in 0 .. n
  BY <1>1
<1>12. Reply!Fold(step, base, s) = h[n]
  BY <1>8, <1>10, <1>11
<1> QED BY <1>5, <1>12 DEF n, Folding, Folded

LEMMA FoldType ==
  ASSUME NEW V, NEW S, NEW base, NEW step, Foldable(V, S, step, base), NEW s \in Seq(S)
  PROVE  Reply!Fold(step, base, s) \in V
<1>0. \A u \in Seq(S) : Folded(V, step, base, u)
  BY FoldSteps
<1>1. PICK f : Folding(f, V, step, base, s) /\ Reply!Fold(step, base, s) = f[Len(s)]
  BY <1>0 DEF Folded
<1>2. Len(s) \in 0 .. Len(s)
  OBVIOUS
<1> QED BY <1>1, <1>2 DEF Folding

LEMMA FoldEmpty ==
  ASSUME NEW V, NEW S, NEW base, NEW step, Foldable(V, S, step, base)
  PROVE  Reply!Fold(step, base, <<>>) = base
<1>0. \A u \in Seq(S) : Folded(V, step, base, u)
  BY FoldSteps
<1> DEFINE e == <<>>
<1>1. e \in Seq(S) /\ Len(e) = 0
  OBVIOUS
<1> HIDE DEF e
<1>2. PICK f : Folding(f, V, step, base, e) /\ Reply!Fold(step, base, e) = f[Len(e)]
  BY <1>0, <1>1 DEF Folded
<1> QED BY <1>1, <1>2 DEF Folding, e

LEMMA FoldAppend ==
  ASSUME NEW V, NEW S, NEW base, NEW step, Foldable(V, S, step, base),
         NEW s \in Seq(S), NEW x \in S
  PROVE  Reply!Fold(step, base, Append(s, x)) = step[Reply!Fold(step, base, s)][x]
<1>0. \A u \in Seq(S) : Folded(V, step, base, u)
  BY FoldSteps
<1> DEFINE n == Len(s)
           t == Append(s, x)
<1>1. /\ t \in Seq(S) /\ n \in Nat /\ Len(t) = n + 1
      /\ t[n + 1] = x /\ \A i \in 1 .. n : t[i] = s[i]
  OBVIOUS
<1>2. PICK f : Folding(f, V, step, base, s) /\ Reply!Fold(step, base, s) = f[n]
  BY <1>0 DEF Folded
<1> HIDE DEF t
<1>3. PICK g : Folding(g, V, step, base, t) /\ Reply!Fold(step, base, t) = g[Len(t)]
  BY <1>0, <1>1 DEF Folded
<1> HIDE DEF n
<1> DEFINE T == {i \in 0 .. n : f[i] = g[i]}
<1>4. T \in SUBSET (0 .. n) /\ 0 \in T
  BY <1>1, <1>2, <1>3 DEF Folding
<1>5. ASSUME NEW i \in T, i < n PROVE i + 1 \in T
  <2>1. /\ i + 1 \in 1 .. n /\ i + 1 \in 1 .. Len(t) /\ (i + 1) - 1 = i
        /\ i + 1 \in 0 .. n /\ f[i] = g[i]
    BY <1>1, <1>5
  <2>2. f[i + 1] = step[f[i]][s[i + 1]] /\ g[i + 1] = step[g[i]][t[i + 1]]
    BY <1>2, <1>3, <2>1 DEF Folding, n
  <2>3. t[i + 1] = s[i + 1]
    BY <1>1, <2>1
  <2>4. f[i + 1] = g[i + 1]
    BY <2>1, <2>2, <2>3
  <2> QED BY <2>1, <2>4
<1>6. f[n] = g[n]
  <2>1. n \in T
    <3> HIDE DEF T
    <3> QED BY <1>1, <1>4, <1>5, Climb
  <2> QED BY <2>1
<1>7. g[n + 1] = step[g[n]][x]
  <2>1. n + 1 \in 1 .. Len(t) /\ (n + 1) - 1 = n
    BY <1>1
  <2>2. g[n + 1] = step[g[n]][t[n + 1]]
    BY <1>3, <2>1 DEF Folding
  <2> QED BY <1>1, <2>2
<1> QED BY <1>1, <1>2, <1>3, <1>6, <1>7 DEF t

LEMMA AppendIsSubSeq ==
  ASSUME NEW S, NEW s \in Seq(S), NEW k \in Nat, k + 1 \in 1 .. Len(s)
  PROVE  SubSeq(s, 1, k + 1) = Append(SubSeq(s, 1, k), s[k + 1])
<1> DEFINE a == SubSeq(s, 1, k + 1)
           b == Append(SubSeq(s, 1, k), s[k + 1])
<1>1. a \in Seq(S) /\ b \in Seq(S) /\ Len(a) = k + 1 /\ Len(b) = k + 1
  OBVIOUS
<1>2. \A i \in 1 .. k + 1 : a[i] = b[i]
  OBVIOUS
<1> HIDE DEF a, b
<1>3. a = b
  BY <1>1, <1>2, SeqEqual
<1> QED BY <1>3 DEF a, b

\* Induction over sequences, with a set in the place of the predicate.
LEMMA Growing ==
  ASSUME NEW S, NEW P, <<>> \in P,
         \A s \in Seq(S), x \in S : s \in P => Append(s, x) \in P
  PROVE  \A s \in Seq(S) : s \in P
<1> SUFFICES ASSUME NEW s \in Seq(S) PROVE s \in P
  OBVIOUS
<1> DEFINE n == Len(s)
           T == {k \in 0 .. n : SubSeq(s, 1, k) \in P}
<1>1. n \in Nat /\ SubSeq(s, 1, 0) = <<>> /\ SubSeq(s, 1, n) = s
  OBVIOUS
<1>2. ASSUME NEW k \in T, k < n PROVE k + 1 \in T
  <2>1. /\ k \in Nat /\ k + 1 \in 1 .. n /\ SubSeq(s, 1, k) \in Seq(S) /\ s[k + 1] \in S
        /\ SubSeq(s, 1, k) \in P
    BY <1>1, <1>2
  <2>2. SubSeq(s, 1, k + 1) = Append(SubSeq(s, 1, k), s[k + 1])
    BY <2>1, AppendIsSubSeq
  <2>3. SubSeq(s, 1, k + 1) \in P
    BY <2>1, <2>2
  <2> QED BY <2>1, <2>3
<1>3. T \in SUBSET (0 .. n) /\ 0 \in T
  <2>1. SubSeq(s, 1, 0) \in P
    BY <1>1, Zenon
  <2> HIDE DEF n
  <2> QED BY <1>1, <2>1
<1>4. n \in T
  <2> HIDE DEF T, n
  <2> QED BY <1>1, <1>2, <1>3, Climb
<1>5. SubSeq(s, 1, n) \in P
  BY <1>4
<1> QED BY <1>1, <1>5

----------------------------------------------------------------------------
(* Whole sentences                                                         *)

Pieces == Reply!Pieces

LEMMA WholeFold ==
  /\ Reply!Whole(<<>>) = <<>>
  /\ \A s \in Seq(Pieces) : Reply!Whole(s) \in Seq(Pieces)
  /\ \A s \in Seq(Pieces), p \in Pieces :
       Reply!Whole(Append(s, p)) =
         IF Reply!IsWhole(p) THEN Append(Reply!Whole(s), p) ELSE Reply!Whole(s)
<1> DEFINE V == Seq(Pieces)
           step == [w \in V |-> [piece \in Pieces |->
                      IF Reply!IsWhole(piece) THEN Append(w, piece) ELSE w]]
<1>1. \A s : Reply!Whole(s) = Reply!Fold(step, <<>>, s)
  BY DEF Reply!Whole, Pieces
<1>2. Foldable(V, Pieces, step, <<>>)
  BY DEF Foldable
<1>3. \A w \in V, p \in Pieces :
        step[w][p] = IF Reply!IsWhole(p) THEN Append(w, p) ELSE w
  OBVIOUS
<1> HIDE DEF V, step
<1>4. Reply!Fold(step, <<>>, <<>>) = <<>>
  BY <1>2, FoldEmpty
<1>5. \A s \in Seq(Pieces) : Reply!Fold(step, <<>>, s) \in V
  BY <1>2, FoldType
<1>6. \A s \in Seq(Pieces), p \in Pieces :
        Reply!Fold(step, <<>>, Append(s, p)) = step[Reply!Fold(step, <<>>, s)][p]
  BY <1>2, FoldAppend
<1> QED BY <1>1, <1>3, <1>4, <1>5, <1>6 DEF V

LEMMA AppendConcat ==
  \A v, w \in Seq(Pieces), x \in Pieces : Append(v \o w, x) = v \o Append(w, x)
OBVIOUS

LEMMA ConcatThree ==
  \A u, v, w \in Seq(Pieces) : (u \o v) \o w = u \o (v \o w)
BY ConcatAssociative

LEMMA WholeConcat ==
  ASSUME NEW a \in Seq(Pieces), NEW b \in Seq(Pieces)
  PROVE  Reply!Whole(a \o b) = Reply!Whole(a) \o Reply!Whole(b)
<1> DEFINE P == {s \in Seq(Pieces) : Reply!Whole(a \o s) = Reply!Whole(a) \o Reply!Whole(s)}
<1>1. <<>> \in P
  <2>1. a \o <<>> = a /\ Reply!Whole(a) \o <<>> = Reply!Whole(a)
    BY WholeFold
  <2> QED BY <2>1, WholeFold
<1>2. ASSUME NEW s \in Seq(Pieces), NEW p \in Pieces, s \in P PROVE Append(s, p) \in P
  <2>1. a \o Append(s, p) = Append(a \o s, p) /\ a \o s \in Seq(Pieces)
    OBVIOUS
  <2>2. Reply!Whole(a \o s) = Reply!Whole(a) \o Reply!Whole(s)
    BY <1>2
  <2>3. /\ Reply!Whole(a) \in Seq(Pieces) /\ Reply!Whole(s) \in Seq(Pieces)
        /\ Append(s, p) \in Seq(Pieces)
    BY WholeFold
  <2>4. CASE Reply!IsWhole(p)
    <3>1. Reply!Whole(Append(a \o s, p)) = Append(Reply!Whole(a \o s), p)
      BY <2>1, <2>4, WholeFold
    <3>2. Reply!Whole(Append(s, p)) = Append(Reply!Whole(s), p)
      BY <2>4, WholeFold
    <3>3. Append(Reply!Whole(a) \o Reply!Whole(s), p) = Reply!Whole(a) \o Append(Reply!Whole(s), p)
      BY <2>3, AppendConcat, Zenon
    <3> QED BY <2>1, <2>2, <2>3, <3>1, <3>2, <3>3
  <2>5. CASE ~ Reply!IsWhole(p)
    <3>1. Reply!Whole(Append(a \o s, p)) = Reply!Whole(a \o s)
      BY <2>1, <2>5, WholeFold
    <3>2. Reply!Whole(Append(s, p)) = Reply!Whole(s)
      BY <2>5, WholeFold
    <3> QED BY <2>1, <2>2, <2>3, <3>1, <3>2
  <2> QED BY <2>4, <2>5
<1>3. b \in P
  <2> HIDE DEF P
  <2> QED BY <1>1, <1>2, Growing
<1> QED BY <1>3

NoWhole(s) == \A i \in DOMAIN s : ~ Reply!IsWhole(s[i])

LEMMA NoWholeEmpty ==
  ASSUME NEW b \in Seq(Pieces), NoWhole(b)
  PROVE  Reply!Whole(b) = <<>>
<1> DEFINE P == {s \in Seq(Pieces) : NoWhole(s) => Reply!Whole(s) = <<>>}
<1>1. <<>> \in P
  BY WholeFold
<1>2. ASSUME NEW s \in Seq(Pieces), NEW p \in Pieces, s \in P PROVE Append(s, p) \in P
  <2> SUFFICES ASSUME NoWhole(Append(s, p)) PROVE Reply!Whole(Append(s, p)) = <<>>
    OBVIOUS
  <2>1. /\ Append(s, p)[Len(s) + 1] = p /\ Len(s) + 1 \in DOMAIN Append(s, p)
        /\ \A i \in DOMAIN s : i \in DOMAIN Append(s, p) /\ Append(s, p)[i] = s[i]
    OBVIOUS
  <2>2. ~ Reply!IsWhole(p) /\ NoWhole(s)
    BY <2>1 DEF NoWhole
  <2> QED BY <1>2, <2>2, WholeFold
<1>3. b \in P
  <2> HIDE DEF P
  <2> QED BY <1>1, <1>2, Growing
<1> QED BY <1>3

LEMMA LengthFold ==
  /\ \A s \in Seq(Pieces) : Reply!Length(s) \in Nat
  /\ \A s \in Seq(Pieces), p \in Pieces :
       Reply!Length(Append(s, p)) = Reply!Length(s) + p.n
<1> DEFINE step == [n \in Nat |-> [piece \in Pieces |-> n + piece.n]]
<1>1. \A s : Reply!Length(s) = Reply!Fold(step, 0, s)
  BY DEF Reply!Length, Pieces
<1>2. Foldable(Nat, Pieces, step, 0)
  BY DEF Foldable, Pieces, Reply!Pieces
<1>3. \A n \in Nat, p \in Pieces : step[n][p] = n + p.n
  OBVIOUS
<1> HIDE DEF step
<1>4. \A s \in Seq(Pieces) : Reply!Fold(step, 0, s) \in Nat
  BY <1>2, FoldType
<1>5. \A s \in Seq(Pieces), p \in Pieces :
        Reply!Fold(step, 0, Append(s, p)) = step[Reply!Fold(step, 0, s)][p]
  BY <1>2, FoldAppend
<1> QED BY <1>1, <1>3, <1>4, <1>5

\* A segment that ends in a whole sentence is one.
LEMMA WholeIsSentence ==
  ASSUME NEW s \in Seq(Pieces), NEW p \in Pieces, NEW first \in BOOLEAN, Reply!IsWhole(p)
  PROVE  Reply!IsSentence(Append(s, p), first)
<1>1. Reply!Length(s) \in Nat /\ Reply!Length(Append(s, p)) = Reply!Length(s) + p.n
  BY LengthFold
<1>2. p.n \in Nat /\ MinLen \in Nat
  BY ReplyAssumption DEF Pieces, Reply!Pieces
<1>3. Append(s, p)[Len(Append(s, p))] = p
  OBVIOUS
<1>4. Reply!Length(Append(s, p)) >= MinLen
  BY <1>1, <1>2 DEF Reply!IsWhole
<1>5. p.sep \in Reply!Separators(first)
  BY DEF Reply!Separators, Reply!IsWhole
<1> QED BY <1>3, <1>4, <1>5 DEF Reply!IsSentence

\* Trimming takes a line break from the end of a segment, and makes no sentence.
LEMMA TrimEndIs ==
  ASSUME NEW s \in Seq(Pieces), s # <<>>
  PROVE  /\ Reply!TrimEnd(s) \in Seq(Pieces)
         /\ NoWhole(s) => NoWhole(Reply!TrimEnd(s))
<1>1. /\ Len(s) \in DOMAIN s /\ DOMAIN s = 1 .. Len(s) /\ Len(s) \in Nat
      /\ \A i \in DOMAIN s : s[i] \in Pieces
  OBVIOUS
<1> DEFINE n == Len(s)
           t == [s EXCEPT ![n].sep = "none"]
<1>2. [s[n] EXCEPT !.sep = "none"] \in Pieces
  BY <1>1 DEF Pieces, Reply!Pieces
<1>3. \A i \in DOMAIN s : t[i] = IF i = n THEN [s[n] EXCEPT !.sep = "none"] ELSE s[i]
  BY <1>1
<1>4. t \in Seq(Pieces) /\ DOMAIN t = DOMAIN s
  BY <1>1, <1>2
<1>5. [s[n] EXCEPT !.sep = "none"].sep = "none"
  BY <1>1 DEF Pieces, Reply!Pieces
<1>6. NoWhole(s) => NoWhole(t)
  BY <1>3, <1>4, <1>5 DEF NoWhole, Reply!IsWhole
<1> QED BY <1>4, <1>6 DEF Reply!TrimEnd

----------------------------------------------------------------------------
(* Cutting                                                                 *)

NoCut == [sentences |-> <<>>, short |-> <<>>, open |-> <<>>]

LEMMA CutFold ==
  ASSUME NEW first \in BOOLEAN
  PROVE  /\ Reply!Cut(<<>>, first) = NoCut
         /\ \A s \in Seq(Pieces) : Reply!Cut(s, first) \in Reply!Cuts
         /\ \A s \in Seq(Pieces), p \in Pieces :
              Reply!Cut(Append(s, p), first) = Reply!CutAt(first)[Reply!Cut(s, first)][p]
<1> DEFINE V == Reply!Cuts
           step == Reply!CutAt(first)
<1>1. \A s : Reply!Cut(s, first) = Reply!Fold(step, NoCut, s)
  BY DEF Reply!Cut, NoCut
<1>2. Foldable(V, Pieces, step, NoCut)
  <2>1. NoCut \in V
    BY DEF NoCut, Reply!Cuts
  <2>2. ASSUME NEW cut \in V, NEW p \in Pieces
        PROVE  step[cut][p] \in V
    <3> DEFINE segment == Append(cut.open, p)
    <3>1. /\ cut = [sentences |-> cut.sentences, short |-> cut.short, open |-> cut.open]
          /\ cut.sentences \in Seq(Reply!Responses)
          /\ cut.short \in Seq(Pieces) /\ cut.open \in Seq(Pieces)
      BY DEF Reply!Cuts, Pieces
    <3>2. segment \in Seq(Pieces) /\ segment # <<>>
      BY <3>1, AppendProperties
    <3>3. Reply!TrimEnd(segment) \in Seq(Pieces)
      BY <3>2, TrimEndIs
    <3>4. Reply!Saying(segment) \in Reply!Responses
      BY <3>2 DEF Reply!Saying, Reply!Responses, Pieces
    <3> HIDE DEF segment
    <3>5. /\ Append(cut.sentences, Reply!Saying(segment)) \in Seq(Reply!Responses)
          /\ cut.short \o Reply!TrimEnd(segment) \in Seq(Pieces)
          /\ <<>> \in Seq(Pieces)
      BY <3>1, <3>3, <3>4, AppendProperties, ConcatProperties
    <3>6. /\ [cut EXCEPT !.open = segment] \in V
          /\ [cut EXCEPT !.sentences = Append(@, Reply!Saying(segment)), !.open = <<>>] \in V
          /\ [cut EXCEPT !.short = @ \o Reply!TrimEnd(segment), !.open = <<>>] \in V
      BY <3>1, <3>2, <3>5 DEF Reply!Cuts, Pieces
    <3> QED BY <3>6 DEF Reply!CutAt, segment, Pieces
  <2>3. step \in [V -> [Pieces -> V]]
    BY <2>2 DEF Reply!CutAt, Pieces
  <2> QED BY <2>1, <2>3 DEF Foldable
<1> HIDE DEF V, step
<1>3. Reply!Fold(step, NoCut, <<>>) = NoCut
  BY <1>2, FoldEmpty
<1>4. \A s \in Seq(Pieces) : Reply!Fold(step, NoCut, s) \in V
  BY <1>2, FoldType
<1>5. \A s \in Seq(Pieces), p \in Pieces :
        Reply!Fold(step, NoCut, Append(s, p)) = step[Reply!Fold(step, NoCut, s)][p]
  BY <1>2, FoldAppend
<1> QED BY <1>1, <1>3, <1>4, <1>5 DEF V, step

Sent == Reply!Messages \cup Reply!Responses

LEMMA WholeOfFold ==
  /\ Reply!WholeOf(<<>>) = <<>>
  /\ \A q \in Seq(Sent) : Reply!WholeOf(q) \in Seq(Pieces)
  /\ \A q \in Seq(Sent), m \in Sent :
       Reply!WholeOf(Append(q, m)) = Reply!WholeOf(q) \o Reply!Whole(m.text)
<1> DEFINE V == Seq(Pieces)
           step == [w \in V |-> [m \in Sent |-> w \o Reply!Whole(m.text)]]
<1>1. \A q : Reply!WholeOf(q) = Reply!Fold(step, <<>>, q)
  BY DEF Reply!WholeOf, Pieces, Sent
<1>2. \A m \in Sent : m.text \in Seq(Pieces)
  BY DEF Sent, Reply!Messages, Reply!Responses, Pieces
<1>3. \A m \in Sent : Reply!Whole(m.text) \in V
  BY <1>2, WholeFold
<1>4. Foldable(V, Sent, step, <<>>)
  BY <1>3 DEF Foldable
<1>5. \A w \in V, m \in Sent : step[w][m] = w \o Reply!Whole(m.text)
  OBVIOUS
<1> HIDE DEF V, step
<1>6. Reply!Fold(step, <<>>, <<>>) = <<>>
  BY <1>4, FoldEmpty
<1>7. \A q \in Seq(Sent) : Reply!Fold(step, <<>>, q) \in V
  BY <1>4, FoldType
<1>8. \A q \in Seq(Sent), m \in Sent :
        Reply!Fold(step, <<>>, Append(q, m)) = step[Reply!Fold(step, <<>>, q)][m]
  BY <1>4, FoldAppend
<1> QED BY <1>1, <1>5, <1>6, <1>7, <1>8 DEF V

LEMMA WholeOfConcat ==
  ASSUME NEW a \in Seq(Sent), NEW b \in Seq(Sent)
  PROVE  Reply!WholeOf(a \o b) = Reply!WholeOf(a) \o Reply!WholeOf(b)
<1> DEFINE P == {q \in Seq(Sent) :
                   Reply!WholeOf(a \o q) = Reply!WholeOf(a) \o Reply!WholeOf(q)}
<1>1. <<>> \in P
  <2>1. a \o <<>> = a /\ Reply!WholeOf(a) \o <<>> = Reply!WholeOf(a)
    BY WholeOfFold
  <2> QED BY <2>1, WholeOfFold
<1>2. ASSUME NEW q \in Seq(Sent), NEW m \in Sent, q \in P PROVE Append(q, m) \in P
  <2>1. a \o Append(q, m) = Append(a \o q, m) /\ a \o q \in Seq(Sent)
    OBVIOUS
  <2>2. Reply!WholeOf(a \o q) = Reply!WholeOf(a) \o Reply!WholeOf(q)
    BY <1>2
  <2>3. Reply!WholeOf(a) \in Seq(Pieces) /\ Reply!WholeOf(q) \in Seq(Pieces)
    BY WholeOfFold
  <2>4. m.text \in Seq(Pieces) /\ Reply!Whole(m.text) \in Seq(Pieces)
    BY WholeFold DEF Sent, Reply!Messages, Reply!Responses, Pieces
  <2>5. Reply!WholeOf(Append(a \o q, m)) = Reply!WholeOf(a \o q) \o Reply!Whole(m.text)
    BY <2>1, WholeOfFold
  <2>6. Reply!WholeOf(Append(q, m)) = Reply!WholeOf(q) \o Reply!Whole(m.text)
    BY WholeOfFold
  <2>7. (Reply!WholeOf(a) \o Reply!WholeOf(q)) \o Reply!Whole(m.text)
          = Reply!WholeOf(a) \o (Reply!WholeOf(q) \o Reply!Whole(m.text))
    BY <2>3, <2>4, ConcatThree, Zenon
  <2>8. Append(q, m) \in Seq(Sent)
    OBVIOUS
  <2> QED BY <2>1, <2>2, <2>5, <2>6, <2>7, <2>8, Zenon
<1>3. b \in P
  <2> HIDE DEF P
  <2> QED BY <1>1, <1>2, Growing
<1> QED BY <1>3

NoEnd(q) == \A i \in DOMAIN q : ~ q[i].end

\* What a cut has of its text: the whole sentences are among its sentences, in order, and
\* none of them is among the rest.
CutOf(c, text) ==
  /\ Reply!WholeOf(c.sentences) = Reply!Whole(text)
  /\ NoWhole(c.short) /\ NoWhole(c.open)
  /\ NoEnd(c.sentences)

LEMMA NoWholeJoined ==
  ASSUME NEW s \in Seq(Pieces), NoWhole(s)
  PROVE  /\ \A p \in Pieces : ~ Reply!IsWhole(p) => NoWhole(Append(s, p))
         /\ \A t \in Seq(Pieces) : NoWhole(t) => NoWhole(s \o t)
BY DEF NoWhole

\* One piece more. A segment that is not long enough does not end in a whole sentence.
LEMMA CutOneMore ==
  ASSUME NEW first \in BOOLEAN, NEW c \in Reply!Cuts, NEW text \in Seq(Pieces),
         NEW p \in Pieces, CutOf(c, text)
  PROVE  CutOf(Reply!CutAt(first)[c][p], Append(text, p))
<1> DEFINE segment == Append(c.open, p)
           r == Reply!CutAt(first)[c][p]
<1>1. /\ c = [sentences |-> c.sentences, short |-> c.short, open |-> c.open]
      /\ c.sentences \in Seq(Reply!Responses)
      /\ c.short \in Seq(Pieces) /\ c.open \in Seq(Pieces)
  BY DEF Reply!Cuts, Pieces
<1>2. segment \in Seq(Pieces) /\ segment # <<>> /\ segment[Len(segment)] = p
  BY <1>1, AppendProperties
<1>3. r = IF p.sep \notin Reply!Separators(first) \cup {"line"}
          THEN [c EXCEPT !.open = segment]
          ELSE IF Reply!IsSentence(segment, first)
          THEN [c EXCEPT !.sentences = Append(@, Reply!Saying(segment)), !.open = <<>>]
          ELSE [c EXCEPT !.short = @ \o Reply!TrimEnd(segment), !.open = <<>>]
  BY DEF Reply!CutAt, Pieces
<1>4. Reply!Whole(Append(text, p)) =
        IF Reply!IsWhole(p) THEN Append(Reply!Whole(text), p) ELSE Reply!Whole(text)
  BY WholeFold
<1>5. NoWhole(<<>>)
  BY DEF NoWhole
<1>6. CASE p.sep \notin Reply!Separators(first) \cup {"line"}
  <2>1. ~ Reply!IsWhole(p)
    BY <1>6 DEF Reply!IsWhole, Reply!Separators
  <2>2. /\ r = [c EXCEPT !.open = segment]
        /\ NoWhole(segment)
    BY <1>1, <1>3, <1>6, <2>1, NoWholeJoined DEF CutOf
  <2> HIDE DEF segment, r
  <2>3. r.sentences = c.sentences /\ r.short = c.short /\ r.open = segment
    BY <1>1, <2>2
  <2> QED BY <1>4, <2>1, <2>2, <2>3 DEF CutOf, r
<1>7. CASE /\ p.sep \in Reply!Separators(first) \cup {"line"}
           /\ Reply!IsSentence(segment, first)
  <2>1. r = [c EXCEPT !.sentences = Append(@, Reply!Saying(segment)), !.open = <<>>]
    BY <1>3, <1>7
  <2>2. Reply!Saying(segment) \in Reply!Responses /\ ~ Reply!Saying(segment).end
    BY <1>2 DEF Reply!Saying, Reply!Responses, Pieces
  <2>3. Reply!WholeOf(Append(c.sentences, Reply!Saying(segment)))
          = Reply!WholeOf(c.sentences) \o Reply!Whole(segment)
    <3>1. c.sentences \in Seq(Sent) /\ Reply!Saying(segment) \in Sent
      BY <1>1, <2>2 DEF Sent
    <3>2. Reply!Saying(segment).text = segment
      BY DEF Reply!Saying
    <3> QED BY <3>1, <3>2, WholeOfFold
  <2>4. Reply!Whole(segment) = IF Reply!IsWhole(p) THEN <<p>> ELSE <<>>
    <3>1. Reply!Whole(c.open) = <<>>
      BY <1>1, NoWholeEmpty DEF CutOf
    <3>2. Append(<<>>, p) = <<p>>
      OBVIOUS
    <3> QED BY <1>1, <3>1, <3>2, WholeFold
  <2>5. Reply!WholeOf(c.sentences) \o Reply!Whole(segment) = Reply!Whole(Append(text, p))
    <3>1. \A w \in Seq(Pieces) : w \o <<p>> = Append(w, p) /\ w \o <<>> = w
      OBVIOUS
    <3>2. Reply!Whole(text) \in Seq(Pieces)
      BY WholeFold
    <3> QED BY <1>4, <2>4, <3>1, <3>2 DEF CutOf
  <2>6. NoEnd(Append(c.sentences, Reply!Saying(segment)))
    BY <1>1, <2>2 DEF CutOf, NoEnd
  <2> HIDE DEF segment, r
  <2>7. /\ r.sentences = Append(c.sentences, Reply!Saying(segment))
        /\ r.short = c.short /\ r.open = <<>>
    BY <1>1, <2>1
  <2> QED BY <1>5, <2>3, <2>5, <2>6, <2>7 DEF CutOf, r
<1>8. CASE /\ p.sep \in Reply!Separators(first) \cup {"line"}
           /\ ~ Reply!IsSentence(segment, first)
  <2>1. ~ Reply!IsWhole(p)
    BY <1>1, <1>8, WholeIsSentence
  <2>2. r = [c EXCEPT !.short = @ \o Reply!TrimEnd(segment), !.open = <<>>]
    BY <1>3, <1>8
  <2>3. NoWhole(segment)
    BY <1>1, <2>1, NoWholeJoined DEF CutOf
  <2> HIDE DEF segment, r
  <2>4. NoWhole(c.short \o Reply!TrimEnd(segment))
    <3>1. Reply!TrimEnd(segment) \in Seq(Pieces) /\ NoWhole(Reply!TrimEnd(segment))
      BY <1>2, <2>3, TrimEndIs
    <3> QED BY <1>1, <3>1, NoWholeJoined DEF CutOf
  <2>5. /\ r.sentences = c.sentences /\ r.open = <<>>
        /\ r.short = c.short \o Reply!TrimEnd(segment)
    BY <1>1, <2>2
  <2> QED BY <1>4, <1>5, <2>1, <2>4, <2>5 DEF CutOf, r
<1> QED BY <1>6, <1>7, <1>8

LEMMA CutKeepsWhole ==
  ASSUME NEW first \in BOOLEAN, NEW text \in Seq(Pieces)
  PROVE  CutOf(Reply!Cut(text, first), text)
<1> DEFINE P == {s \in Seq(Pieces) : CutOf(Reply!Cut(s, first), s)}
<1>1. <<>> \in P
  <2>1. Reply!Cut(<<>>, first) = NoCut
    BY CutFold
  <2>2. NoWhole(<<>>) /\ NoEnd(<<>>)
    BY DEF NoWhole, NoEnd
  <2>3. CutOf(NoCut, <<>>)
    BY <2>2, WholeFold, WholeOfFold DEF CutOf, NoCut
  <2> QED BY <2>1, <2>3
<1>2. ASSUME NEW s \in Seq(Pieces), NEW p \in Pieces, s \in P PROVE Append(s, p) \in P
  <2>1. /\ Reply!Cut(s, first) \in Reply!Cuts
        /\ Reply!Cut(Append(s, p), first) = Reply!CutAt(first)[Reply!Cut(s, first)][p]
    BY CutFold
  <2>2. CutOf(Reply!Cut(s, first), s)
    BY <1>2
  <2>3. CutOf(Reply!Cut(Append(s, p), first), Append(s, p))
    BY <2>1, <2>2, CutOneMore
  <2> QED BY <2>3
<1>3. text \in P
  <2> HIDE DEF P
  <2> QED BY <1>1, <1>2, Growing
<1> QED BY <1>3

\* What remains of a text has no whole sentence.
LEMMA RemainingHasNone ==
  ASSUME NEW first \in BOOLEAN, NEW text \in Seq(Pieces)
  PROVE  /\ Reply!Remaining(text, first) \in Seq(Pieces)
         /\ NoWhole(Reply!Remaining(text, first))
<1> DEFINE c == Reply!Cut(text, first)
<1>1. c.short \in Seq(Pieces) /\ c.open \in Seq(Pieces)
  BY CutFold DEF Reply!Cuts, Pieces
<1>2. NoWhole(c.short) /\ NoWhole(c.open)
  BY CutKeepsWhole DEF CutOf
<1>3. CASE c.open = <<>>
  BY <1>1, <1>2, <1>3 DEF Reply!Remaining
<1>4. CASE c.open # <<>>
  <2>1. Reply!Remaining(text, first) = Reply!TrimEnd(c.open)
    BY <1>4 DEF Reply!Remaining
  <2> HIDE DEF c
  <2> QED BY <1>1, <1>2, <1>4, <2>1, TrimEndIs
<1> QED BY <1>3, <1>4

----------------------------------------------------------------------------
(* A reply                                                                 *)

\* Two ways to join what is said and what is on its way
TwoLeft(a, b, c, x) == a \o ((b \o c) \o x) = (a \o b) \o (c \o x)
OneRight(a, b, c, d, x) == a \o (b \o (c \o (d \o x))) = (a \o (b \o (c \o d))) \o x

LEMMA Regroup ==
  /\ \A a, b, c, x \in Seq(Pieces) : TwoLeft(a, b, c, x)
  /\ \A a, b, c, d, x \in Seq(Pieces) : OneRight(a, b, c, d, x)
<1>1. \A u, v \in Seq(Pieces) : u \o v \in Seq(Pieces)
  BY ConcatProperties
<1>2. ASSUME NEW a \in Seq(Pieces), NEW b \in Seq(Pieces), NEW c \in Seq(Pieces),
             NEW x \in Seq(Pieces)
      PROVE  a \o ((b \o c) \o x) = (a \o b) \o (c \o x)
  <2>1. c \o x \in Seq(Pieces)
    BY <1>1
  <2>2. (b \o c) \o x = b \o (c \o x)
    BY ConcatThree
  <2>3. (a \o b) \o (c \o x) = a \o (b \o (c \o x))
    BY <2>1, ConcatThree
  <2> QED BY <2>2, <2>3, Zenon
<1>3. ASSUME NEW a \in Seq(Pieces), NEW b \in Seq(Pieces), NEW c \in Seq(Pieces),
             NEW d \in Seq(Pieces), NEW x \in Seq(Pieces)
      PROVE  a \o (b \o (c \o (d \o x))) = (a \o (b \o (c \o d))) \o x
  <2>1. c \o d \in Seq(Pieces)
    BY <1>1
  <2>2. b \o (c \o d) \in Seq(Pieces)
    BY <1>1, <2>1
  <2>3. (c \o d) \o x = c \o (d \o x)
    BY ConcatThree
  <2>4. (b \o (c \o d)) \o x = b \o ((c \o d) \o x)
    BY <2>1, ConcatThree
  <2>5. (a \o (b \o (c \o d))) \o x = a \o ((b \o (c \o d)) \o x)
    <3> DEFINE bcd == b \o (c \o d)
    <3>1. bcd \in Seq(Pieces)
      BY <2>2
    <3> HIDE DEF bcd
    <3>2. (a \o bcd) \o x = a \o (bcd \o x)
      BY <3>1, ConcatThree
    <3> QED BY <3>2 DEF bcd
  <2> QED BY <2>3, <2>4, <2>5, Zenon
<1> QED BY <1>2, <1>3 DEF TwoLeft, OneRight

LEMMA Prefixes ==
  /\ \A u, v \in Seq(Pieces) : Reply!IsPrefix(u, u \o v)
  /\ \A u, v, w \in Seq(Pieces) : Reply!IsPrefix(u, v) => Reply!IsPrefix(u, v \o w)
<1>1. ASSUME NEW u \in Seq(Pieces), NEW v \in Seq(Pieces) PROVE Reply!IsPrefix(u, u \o v)
  <2>1. Len(u) <= Len(u \o v) /\ SubSeq(u, 1, Len(u)) = SubSeq(u \o v, 1, Len(u))
    OBVIOUS
  <2> QED BY <2>1 DEF Reply!IsPrefix
<1>2. ASSUME NEW u \in Seq(Pieces), NEW v \in Seq(Pieces), NEW w \in Seq(Pieces),
             Reply!IsPrefix(u, v)
      PROVE  Reply!IsPrefix(u, v \o w)
  <2>1. Len(u) <= Len(v) /\ SubSeq(u, 1, Len(u)) = SubSeq(v, 1, Len(u))
    BY <1>2 DEF Reply!IsPrefix
  <2>2. Len(u) <= Len(v \o w) /\ SubSeq(v \o w, 1, Len(u)) = SubSeq(v, 1, Len(u))
    BY <2>1
  <2> QED BY <2>1, <2>2 DEF Reply!IsPrefix
<1> QED BY <1>1, <1>2

LEMMA WholeOfHead ==
  ASSUME NEW q \in Seq(Sent), q # <<>>
  PROVE  /\ Reply!WholeOf(q) = Reply!Whole(Head(q).text) \o Reply!WholeOf(Tail(q))
         /\ Head(q).text \in Seq(Pieces) /\ Tail(q) \in Seq(Sent)
<1>1. /\ Head(q) \in Sent /\ Tail(q) \in Seq(Sent) /\ <<>> \in Seq(Sent)
      /\ q = Append(<<>>, Head(q)) \o Tail(q) /\ Append(<<>>, Head(q)) \in Seq(Sent)
  OBVIOUS
<1>2. Reply!WholeOf(q) = Reply!WholeOf(Append(<<>>, Head(q))) \o Reply!WholeOf(Tail(q))
  BY <1>1, WholeOfConcat
<1>3. Head(q).text \in Seq(Pieces) /\ Reply!Whole(Head(q).text) \in Seq(Pieces)
  BY <1>1, WholeFold DEF Sent, Reply!Messages, Reply!Responses, Pieces
<1>4. Reply!WholeOf(Append(<<>>, Head(q))) = <<>> \o Reply!Whole(Head(q).text)
  BY <1>1, WholeOfFold
<1>5. <<>> \o Reply!Whole(Head(q).text) = Reply!Whole(Head(q).text)
  BY <1>3
<1> QED BY <1>1, <1>2, <1>3, <1>4, <1>5

\* What the queues are made of.
LEMMA Queued ==
  ASSUME Reply!TypeOK
  PROVE  /\ msgChan \in Seq(Sent) /\ ready \in Seq(Sent) /\ sentences \in Seq(Sent)
         /\ said \in Seq(Pieces) /\ passedOn \in Seq(Pieces) /\ buffer \in Seq(Pieces)
         /\ Reply!WholeOf(msgChan) \in Seq(Pieces) /\ Reply!WholeOf(ready) \in Seq(Pieces)
         /\ Reply!WholeOf(sentences) \in Seq(Pieces)
         /\ Reply!Whole(said) \in Seq(Pieces) /\ Reply!Whole(passedOn) \in Seq(Pieces)
<1>1. msgChan \in Seq(Sent) /\ ready \in Seq(Sent) /\ sentences \in Seq(Sent)
  BY DEF Reply!TypeOK, Sent
<1>2. said \in Seq(Pieces) /\ passedOn \in Seq(Pieces) /\ buffer \in Seq(Pieces)
  BY DEF Reply!TypeOK, Pieces
<1> QED BY <1>1, <1>2, WholeFold, WholeOfFold

\* A message is passed on.
LEMMA ForwardKeepsOrder ==
  ASSUME Reply!IInv, NEW text \in Seq(Pieces), NEW calls \in Seq(ToolCalls),
         Reply!Forward(text, calls), source # "gone",
         UNCHANGED <<splitter, buffer, isFirst, ready, sentences, reply, said>>
  PROVE  /\ msgChan' \in Seq(Reply!Messages) /\ passedOn' \in Seq(Reply!Pieces)
         /\ Reply!OnTheWay' /\ Reply!Sending' /\ Reply!Ended' /\ Reply!SentencesInOrder'
<1> DEFINE m == [text |-> text, calls |-> calls]
<1>1. /\ m \in Reply!Messages /\ m.text = text /\ m \in Sent
      /\ msgChan' = Append(msgChan, m) /\ passedOn' = passedOn \o text
  BY DEF Reply!Forward, Reply!Messages, Pieces, Sent
<1> HIDE DEF m
<1>2. msgChan' \in Seq(Reply!Messages) /\ passedOn' \in Seq(Reply!Pieces)
  BY <1>1 DEF Reply!IInv, Reply!TypeOK, Pieces
<1>3. /\ Reply!WholeOf(msgChan') = Reply!WholeOf(msgChan) \o Reply!Whole(text)
      /\ Reply!Whole(passedOn') = Reply!Whole(passedOn) \o Reply!Whole(text)
      /\ Reply!Whole(text) \in Seq(Pieces)
  BY <1>1, Queued, WholeOfFold, WholeConcat, WholeFold DEF Reply!IInv
<1>4. Reply!OnTheWay'
  <2>1. ASSUME reply' = "take"
        PROVE  Reply!Whole(passedOn') =
                 Reply!Whole(said') \o (Reply!WholeOf(sentences') \o
                   (Reply!WholeOf(ready') \o Reply!WholeOf(msgChan')))
    <3>1. Reply!Whole(passedOn) =
            Reply!Whole(said) \o (Reply!WholeOf(sentences) \o
              (Reply!WholeOf(ready) \o Reply!WholeOf(msgChan)))
      BY <2>1 DEF Reply!IInv, Reply!OnTheWay
    <3>2. Reply!Whole(said) \o (Reply!WholeOf(sentences) \o
            (Reply!WholeOf(ready) \o (Reply!WholeOf(msgChan) \o Reply!Whole(text))))
          = Reply!Whole(passedOn) \o Reply!Whole(text)
      <4>1. /\ Reply!Whole(said) \in Seq(Pieces) /\ Reply!WholeOf(sentences) \in Seq(Pieces)
            /\ Reply!WholeOf(ready) \in Seq(Pieces) /\ Reply!WholeOf(msgChan) \in Seq(Pieces)
        BY Queued DEF Reply!IInv
      <4>2. OneRight(Reply!Whole(said), Reply!WholeOf(sentences), Reply!WholeOf(ready),
                     Reply!WholeOf(msgChan), Reply!Whole(text))
        BY <1>3, <4>1, Regroup, Zenon
      <4> QED BY <3>1, <4>2 DEF OneRight
    <3> QED BY <1>3, <3>2
  <2> QED BY <2>1 DEF Reply!IInv, Reply!OnTheWay
<1>5. Reply!Sending' /\ Reply!Ended'
  BY DEF Reply!IInv, Reply!Sending, Reply!Ended
<1>6. Reply!SentencesInOrder'
  <2>1. Reply!IsPrefix(Reply!Whole(said), Reply!Whole(passedOn))
    BY DEF Reply!IInv, Reply!SentencesInOrder
  <2>2. Reply!IsPrefix(Reply!Whole(said), Reply!Whole(passedOn) \o Reply!Whole(text))
    BY <1>3, <2>1, Queued, Prefixes, Zenon DEF Reply!IInv
  <2>3. reply # "ended"
    BY DEF Reply!IInv, Reply!Ended
  <2> QED BY <1>3, <2>2, <2>3 DEF Reply!SentencesInOrder
<1> QED BY <1>2, <1>4, <1>5, <1>6

\* A step of the provider, which passes a message on or none.
LEMMA ReceivingKeeps ==
  ASSUME Reply!IInv, source # "gone", Reply!Receiving,
         source' \in {"open", "stream", "gone"},
         chunks' \in Seq(Reply!Chunks), currentToolCall' \in Reply!Calls,
         \/ UNCHANGED <<msgChan, passedOn>>
         \/ \E text \in Seq(Pieces), calls \in Seq(ToolCalls) : Reply!Forward(text, calls)
  PROVE  Reply!IInv'
<1>1. UNCHANGED <<splitter, buffer, isFirst, ready, sentences, reply, said, ended>>
  BY DEF Reply!Receiving, Reply!cutting, Reply!speaking
<1>2. /\ msgChan' \in Seq(Reply!Messages) /\ passedOn' \in Seq(Reply!Pieces)
      /\ Reply!OnTheWay' /\ Reply!Sending' /\ Reply!Ended' /\ Reply!SentencesInOrder'
  <2>1. CASE UNCHANGED <<msgChan, passedOn>>
    <3>1. msgChan' \in Seq(Reply!Messages) /\ passedOn' \in Seq(Reply!Pieces)
      BY <2>1 DEF Reply!IInv, Reply!TypeOK
    <3>2. Reply!OnTheWay' /\ Reply!Sending'
      BY <1>1, <2>1 DEF Reply!IInv, Reply!OnTheWay, Reply!Sending
    <3>3. Reply!Ended'
      BY <1>1, <2>1 DEF Reply!IInv, Reply!Ended
    <3>4. Reply!SentencesInOrder'
      BY <1>1, <2>1 DEF Reply!IInv, Reply!SentencesInOrder
    <3> QED BY <3>1, <3>2, <3>3, <3>4
  <2>2. CASE \E text \in Seq(Pieces), calls \in Seq(ToolCalls) : Reply!Forward(text, calls)
    <3>1. PICK text \in Seq(Pieces), calls \in Seq(ToolCalls) : Reply!Forward(text, calls)
      BY <2>2
    <3> QED BY <1>1, <3>1, ForwardKeepsOrder
  <2> QED BY <2>1, <2>2
<1>3. Reply!TypeOK'
  BY <1>1, <1>2 DEF Reply!IInv, Reply!TypeOK
<1> QED BY <1>2, <1>3 DEF Reply!IInv

\* A reply that comes in one piece is a message.
LEMMA InOneMessageIs ==
  ASSUME NEW all \in Seq(Reply!Chunks)
  PROVE  Reply!InOneMessage(all) \in Reply!Messages
<1> DEFINE V == Reply!Messages
           base == [text |-> <<>>, calls |-> <<>>]
           step == [m \in V |-> [c \in Reply!Chunks |->
                      [text |-> m.text \o c.text,
                       calls |-> IF c.starts /\ c.call # None THEN Append(m.calls, c.call)
                                 ELSE m.calls]]]
<1>1. Reply!InOneMessage(all) = Reply!Fold(step, base, all)
  BY DEF Reply!InOneMessage
<1>2. Foldable(V, Reply!Chunks, step, base)
  <2>1. base \in V
    BY DEF Reply!Messages
  <2>2. ASSUME NEW m \in V, NEW c \in Reply!Chunks PROVE step[m][c] \in V
    <3>1. /\ m.text \in Seq(Reply!Pieces) /\ m.calls \in Seq(ToolCalls)
          /\ c.text \in Seq(Reply!Pieces) /\ c.call \in Reply!Calls
      BY DEF Reply!Messages, Reply!Chunks
    <3>2. m.text \o c.text \in Seq(Reply!Pieces)
      BY <3>1, ConcatProperties
    <3>3. c.call # None => Append(m.calls, c.call) \in Seq(ToolCalls)
      BY <3>1, AppendProperties DEF Reply!Calls
    <3> QED BY <3>1, <3>2, <3>3 DEF Reply!Messages
  <2> QED BY <2>1, <2>2 DEF Foldable
<1> HIDE DEF V, step, base
<1>3. Reply!Fold(step, base, all) \in V
  BY <1>2, FoldType
<1> QED BY <1>1, <1>3 DEF V

LEMMA ReplyTypes ==
  ASSUME Reply!IInv
  PROVE  /\ chunks \in Seq(Reply!Chunks) /\ source \in {"open", "stream", "gone"}
         /\ currentToolCall \in Reply!Calls
BY DEF Reply!IInv, Reply!TypeOK

LEMMA OpenStreamKeeps ==
  ASSUME Reply!IInv, Reply!OpenStream PROVE Reply!IInv'
<1>1. /\ source # "gone" /\ source' \in {"open", "stream", "gone"} /\ Reply!Receiving
      /\ UNCHANGED <<chunks, currentToolCall>> /\ UNCHANGED <<msgChan, passedOn>>
  BY DEF Reply!OpenStream
<1>2. chunks' \in Seq(Reply!Chunks) /\ currentToolCall' \in Reply!Calls
  BY <1>1, ReplyTypes
<1> QED BY <1>1, <1>2, ReceivingKeeps

LEMMA GenerateKeeps ==
  ASSUME Reply!IInv, Reply!Generate PROVE Reply!IInv'
<1>1. /\ source # "gone" /\ source' \in {"open", "stream", "gone"} /\ Reply!Receiving
      /\ UNCHANGED <<chunks, currentToolCall>>
      /\ Reply!Forward(Reply!InOneMessage(chunks).text, Reply!InOneMessage(chunks).calls)
  BY DEF Reply!Generate
<1>2. chunks' \in Seq(Reply!Chunks) /\ currentToolCall' \in Reply!Calls
  BY <1>1, ReplyTypes
<1>3. Reply!InOneMessage(chunks) \in Reply!Messages
  BY ReplyTypes, InOneMessageIs
<1>4. /\ Reply!InOneMessage(chunks).text \in Seq(Pieces)
      /\ Reply!InOneMessage(chunks).calls \in Seq(ToolCalls)
  BY <1>3 DEF Reply!Messages, Pieces
<1> QED BY <1>1, <1>2, <1>4, ReceivingKeeps

LEMMA FailKeeps ==
  ASSUME Reply!IInv, Reply!Fail PROVE Reply!IInv'
<1>1. /\ source # "gone" /\ source' \in {"open", "stream", "gone"} /\ Reply!Receiving
      /\ UNCHANGED <<chunks, currentToolCall>> /\ UNCHANGED <<msgChan, passedOn>>
  BY DEF Reply!Fail
<1>2. chunks' \in Seq(Reply!Chunks) /\ currentToolCall' \in Reply!Calls
  BY <1>1, ReplyTypes
<1> QED BY <1>1, <1>2, ReceivingKeeps

LEMMA FirstChunk ==
  ASSUME Reply!IInv, chunks # <<>>
  PROVE  /\ Tail(chunks) \in Seq(Reply!Chunks)
         /\ Reply!Chunk.text \in Seq(Pieces) /\ Reply!Chunk.call \in Reply!Calls
<1>1. Tail(chunks) \in Seq(Reply!Chunks) /\ Head(chunks) \in Reply!Chunks
  BY ReplyTypes
<1> QED BY <1>1 DEF Reply!Chunk, Reply!Chunks, Pieces

LEMMA ReceiveTextKeeps ==
  ASSUME Reply!IInv, Reply!ReceiveText PROVE Reply!IInv'
<1>1. /\ source # "gone" /\ source' = source /\ Reply!Receiving
      /\ chunks # <<>> /\ chunks' = Tail(chunks) /\ UNCHANGED currentToolCall
  BY DEF Reply!ReceiveText
<1>2. /\ chunks' \in Seq(Reply!Chunks) /\ currentToolCall' \in Reply!Calls
      /\ source' \in {"open", "stream", "gone"}
  BY <1>1, ReplyTypes, FirstChunk
<1>3. \/ UNCHANGED <<msgChan, passedOn>>
      \/ \E text \in Seq(Pieces), calls \in Seq(ToolCalls) : Reply!Forward(text, calls)
  <2>1. <<>> \in Seq(ToolCalls) /\ Reply!Chunk.text \in Seq(Pieces)
    BY <1>1, FirstChunk
  <2>2. UNCHANGED <<msgChan, passedOn>> \/ Reply!Forward(Reply!Chunk.text, <<>>)
    BY DEF Reply!ReceiveText
  <2> QED BY <2>1, <2>2
<1> QED BY <1>1, <1>2, <1>3, ReceivingKeeps

LEMMA ReceiveNameKeeps ==
  ASSUME Reply!IInv, Reply!ReceiveName PROVE Reply!IInv'
<1>1. /\ source # "gone" /\ source' = source /\ Reply!Receiving
      /\ chunks # <<>> /\ chunks' = Tail(chunks) /\ currentToolCall' = Reply!Chunk.call
      /\ UNCHANGED <<msgChan, passedOn>>
  BY DEF Reply!ReceiveName
<1>2. /\ chunks' \in Seq(Reply!Chunks) /\ currentToolCall' \in Reply!Calls
      /\ source' \in {"open", "stream", "gone"}
  BY <1>1, ReplyTypes, FirstChunk
<1> QED BY <1>1, <1>2, ReceivingKeeps

LEMMA OneCall ==
  ASSUME Reply!IInv, currentToolCall # None
  PROVE  <<currentToolCall>> \in Seq(ToolCalls) /\ <<>> \in Seq(Pieces)
<1>1. currentToolCall \in ToolCalls
  BY ReplyTypes DEF Reply!Calls
<1> QED BY <1>1

LEMMA ReceiveArgumentsKeeps ==
  ASSUME Reply!IInv, Reply!ReceiveArguments PROVE Reply!IInv'
<1>1. /\ source # "gone" /\ source' = source /\ Reply!Receiving
      /\ chunks # <<>> /\ chunks' = Tail(chunks)
  BY DEF Reply!ReceiveArguments
<1>2. currentToolCall' \in Reply!Calls
  BY ReplyTypes DEF Reply!ReceiveArguments, Reply!Calls
<1>3. chunks' \in Seq(Reply!Chunks) /\ source' \in {"open", "stream", "gone"}
  BY <1>1, ReplyTypes, FirstChunk
<1>4. \/ UNCHANGED <<msgChan, passedOn>>
      \/ \E text \in Seq(Pieces), calls \in Seq(ToolCalls) : Reply!Forward(text, calls)
  <2>1. \/ UNCHANGED <<msgChan, passedOn>>
        \/ currentToolCall # None /\ Reply!Forward(<<>>, <<currentToolCall>>)
    BY DEF Reply!ReceiveArguments
  <2> QED BY <2>1, OneCall
<1> QED BY <1>1, <1>2, <1>3, <1>4, ReceivingKeeps

LEMMA EndOfStreamKeeps ==
  ASSUME Reply!IInv, Reply!EndOfStream PROVE Reply!IInv'
<1>1. /\ source # "gone" /\ source' \in {"open", "stream", "gone"} /\ Reply!Receiving
      /\ UNCHANGED <<chunks, currentToolCall>>
  BY DEF Reply!EndOfStream
<1>2. chunks' \in Seq(Reply!Chunks) /\ currentToolCall' \in Reply!Calls
  BY <1>1, ReplyTypes
<1>3. \/ UNCHANGED <<msgChan, passedOn>>
      \/ \E text \in Seq(Pieces), calls \in Seq(ToolCalls) : Reply!Forward(text, calls)
  <2>1. \/ UNCHANGED <<msgChan, passedOn>>
        \/ currentToolCall # None /\ Reply!Forward(<<>>, <<currentToolCall>>)
    BY DEF Reply!EndOfStream
  <2> QED BY <2>1, OneCall
<1> QED BY <1>1, <1>2, <1>3, ReceivingKeeps

LEMMA StopSplittingKeeps ==
  ASSUME Reply!IInv, Reply!StopSplitting PROVE Reply!IInv'
<1>1. /\ splitter = "loop" /\ splitter' = "gone"
      /\ UNCHANGED <<chunks, source, currentToolCall, msgChan, passedOn, buffer, isFirst,
                     ready, sentences, reply, said, ended>>
  BY DEF Reply!StopSplitting, Reply!provider, Reply!speaking
<1>2. Reply!TypeOK'
  BY <1>1 DEF Reply!IInv, Reply!TypeOK
<1>3. Reply!OnTheWay' /\ Reply!Sending'
  BY <1>1 DEF Reply!IInv, Reply!OnTheWay, Reply!Sending
<1>4. Reply!Ended'
  <2>1. ready = <<>> /\ ready' = <<>>
    BY <1>1 DEF Reply!IInv, Reply!Sending
  <2> QED BY <1>1, <2>1 DEF Reply!IInv, Reply!Ended
<1>5. Reply!SentencesInOrder'
  BY <1>1 DEF Reply!IInv, Reply!SentencesInOrder
<1> QED BY <1>2, <1>3, <1>4, <1>5 DEF Reply!IInv

\* What is sent for the tool calls of a message has no text.
LEMMA CallingIs ==
  ASSUME NEW calls \in Seq(ToolCalls)
  PROVE  /\ Reply!Calling(calls) \in Seq(Reply!Responses)
         /\ Reply!WholeOf(Reply!Calling(calls)) = <<>>
         /\ NoEnd(Reply!Calling(calls))
<1>1. CASE calls = <<>>
  BY <1>1, WholeOfFold DEF Reply!Calling, NoEnd
<1>2. CASE calls # <<>>
  <2>0. PICK m : m = [text |-> <<>>, calls |-> calls, end |-> FALSE]
    OBVIOUS
  <2>1. m \in Reply!Responses /\ m \in Sent /\ m.text = <<>> /\ ~ m.end
    BY <2>0 DEF Reply!Responses, Sent
  <2>2. Reply!Calling(calls) = Append(<<>>, m)
    <3>1. Reply!Calling(calls) = <<m>>
      BY <1>2, <2>0 DEF Reply!Calling
    <3> QED BY <3>1
  <2>3. Reply!WholeOf(Append(<<>>, m)) = <<>> \o <<>>
    <3>1. <<>> \in Seq(Sent)
      OBVIOUS
    <3> QED BY <2>1, <3>1, WholeOfFold, WholeFold
  <2>4. Append(<<>>, m) \in Seq(Reply!Responses) /\ NoEnd(Append(<<>>, m))
    BY <2>1 DEF NoEnd
  <2> QED BY <2>2, <2>3, <2>4
<1> QED BY <1>1, <1>2

\* What the splitter makes of a text after the one it has kept: the whole sentences go on,
\* and none of them is kept.
LEMMA SplitKeeps ==
  ASSUME NEW kept \in Seq(Pieces), NEW text \in Seq(Pieces), NEW first \in BOOLEAN,
         NoWhole(kept)
  PROVE  /\ kept \o text \in Seq(Pieces)
         /\ Reply!Cut(kept \o text, first).sentences \in Seq(Reply!Responses)
         /\ Reply!WholeOf(Reply!Cut(kept \o text, first).sentences) = Reply!Whole(text)
         /\ NoEnd(Reply!Cut(kept \o text, first).sentences)
         /\ Reply!Remaining(kept \o text, first) \in Seq(Pieces)
         /\ NoWhole(Reply!Remaining(kept \o text, first))
<1> DEFINE both == kept \o text
<1>1. both \in Seq(Pieces)
  BY ConcatProperties
<1>2. Reply!Whole(both) = Reply!Whole(text)
  <2>1. Reply!Whole(both) = Reply!Whole(kept) \o Reply!Whole(text)
    BY WholeConcat
  <2>2. Reply!Whole(kept) = <<>> /\ Reply!Whole(text) \in Seq(Pieces)
    BY NoWholeEmpty, WholeFold
  <2> QED BY <2>1, <2>2
<1> HIDE DEF both
<1>3. /\ Reply!Cut(both, first).sentences \in Seq(Reply!Responses)
      /\ Reply!WholeOf(Reply!Cut(both, first).sentences) = Reply!Whole(both)
      /\ NoEnd(Reply!Cut(both, first).sentences)
  BY <1>1, CutFold, CutKeepsWhole DEF CutOf, Reply!Cuts
<1>4. Reply!Remaining(both, first) \in Seq(Pieces) /\ NoWhole(Reply!Remaining(both, first))
  BY <1>1, RemainingHasNone
<1> QED BY <1>1, <1>2, <1>3, <1>4 DEF both

\* A text with no separator has no whole sentence.
LEMMA NothingToCut ==
  ASSUME NEW text \in Seq(Pieces), NEW first \in BOOLEAN,
         ~ Reply!containsSentenceSeparator(text, first)
  PROVE  NoWhole(text)
<1>1. \A i \in DOMAIN text : text[i].sep \notin Reply!Separators(first)
  BY DEF Reply!containsSentenceSeparator
<1>2. "end" \in Reply!Separators(first)
  BY DEF Reply!Separators
<1> QED BY <1>1, <1>2 DEF NoWhole, Reply!IsWhole

LEMMA HandleMessageKeeps ==
  ASSUME Reply!IInv, Reply!HandleMessage PROVE Reply!IInv'
<1> DEFINE m == Head(msgChan)
           cuts == Reply!containsSentenceSeparator(m.text, isFirst)
           found == IF cuts THEN Reply!Cut(buffer \o m.text, isFirst).sentences ELSE <<>>
           kept == IF cuts THEN Reply!Remaining(buffer \o m.text, isFirst)
                   ELSE buffer \o m.text
<1>1. /\ splitter = "loop" /\ msgChan # <<>> /\ msgChan' = Tail(msgChan)
      /\ buffer' = kept /\ isFirst' = (isFirst /\ ~cuts)
      /\ ready' = found \o Reply!Calling(m.calls)
      /\ splitter' = IF ready' = <<>> THEN "loop" ELSE "send"
      /\ UNCHANGED <<chunks, source, currentToolCall, passedOn, sentences, reply, said, ended>>
  BY DEF Reply!HandleMessage, Reply!speaking
<1>2. /\ msgChan \in Seq(Sent) /\ Reply!WholeOf(sentences) \in Seq(Pieces)
      /\ buffer \in Seq(Pieces) /\ isFirst \in BOOLEAN /\ NoWhole(buffer)
      /\ ready = <<>>
  BY <1>1, Queued DEF Reply!IInv, Reply!TypeOK, Reply!OnTheWay, Reply!Sending, NoWhole
<1>3. /\ m \in Reply!Messages /\ m.text \in Seq(Pieces) /\ m.calls \in Seq(ToolCalls)
      /\ Tail(msgChan) \in Seq(Reply!Messages) /\ Tail(msgChan) \in Seq(Sent)
      /\ Reply!WholeOf(msgChan) = Reply!Whole(m.text) \o Reply!WholeOf(Tail(msgChan))
  <2>1. msgChan \in Seq(Reply!Messages)
    BY DEF Reply!IInv, Reply!TypeOK
  <2>2. m \in Reply!Messages /\ Tail(msgChan) \in Seq(Reply!Messages)
    BY <1>1, <2>1
  <2>3. m.text \in Seq(Pieces) /\ m.calls \in Seq(ToolCalls)
    BY <2>2 DEF Reply!Messages, Pieces
  <2> QED BY <1>1, <1>2, <2>2, <2>3, WholeOfHead
<1> HIDE DEF m
<1>4. /\ found \in Seq(Reply!Responses) /\ NoEnd(found)
      /\ Reply!WholeOf(found) = Reply!Whole(m.text)
      /\ kept \in Seq(Pieces) /\ NoWhole(kept)
  <2>1. CASE cuts
    BY <1>2, <1>3, <2>1, SplitKeeps
  <2>2. CASE ~cuts
    <3>1. NoWhole(m.text)
      BY <1>2, <1>3, <2>2, NothingToCut
    <3>2. Reply!Whole(m.text) = <<>>
      BY <1>3, <3>1, NoWholeEmpty
    <3>3. NoWhole(buffer \o m.text) /\ buffer \o m.text \in Seq(Pieces)
      BY <1>2, <1>3, <3>1, NoWholeJoined, ConcatProperties
    <3> QED BY <2>2, <3>2, <3>3, WholeOfFold DEF NoEnd
  <2> QED BY <2>1, <2>2
<1> HIDE DEF cuts, found, kept
<1>5. /\ ready' \in Seq(Reply!Responses) /\ NoEnd(ready')
      /\ Reply!WholeOf(ready') = Reply!Whole(m.text)
  <2>1. /\ Reply!Calling(m.calls) \in Seq(Reply!Responses)
        /\ Reply!WholeOf(Reply!Calling(m.calls)) = <<>> /\ NoEnd(Reply!Calling(m.calls))
    BY <1>3, CallingIs
  <2> DEFINE more == Reply!Calling(m.calls)
  <2>2. Reply!WholeOf(found \o more) = Reply!WholeOf(found) \o Reply!WholeOf(more)
    <3>1. found \in Seq(Sent) /\ more \in Seq(Sent)
      BY <1>4, <2>1 DEF Sent
    <3> QED BY <3>1, WholeOfConcat
  <2>3. Reply!Whole(m.text) \o <<>> = Reply!Whole(m.text)
    BY <1>3, WholeFold
  <2>4. found \o more \in Seq(Reply!Responses) /\ NoEnd(found \o more)
    <3>1. more \in Seq(Reply!Responses) /\ NoEnd(more)
      BY <2>1
    <3> HIDE DEF more
    <3> QED BY <1>4, <3>1 DEF NoEnd
  <2> QED BY <1>1, <1>4, <2>1, <2>2, <2>3, <2>4
<1>6. Reply!TypeOK'
  BY <1>1, <1>2, <1>3, <1>4, <1>5 DEF Reply!IInv, Reply!TypeOK, Pieces
<1>7. Reply!OnTheWay'
  <2>1. NoWhole(buffer')
    BY <1>1, <1>4
  <2>2. Reply!WholeOf(ready) \o Reply!WholeOf(msgChan)
          = Reply!WholeOf(ready') \o Reply!WholeOf(msgChan')
    <3>1. <<>> \o Reply!WholeOf(msgChan) = Reply!WholeOf(msgChan)
      BY <1>2, WholeOfFold
    <3> QED BY <1>1, <1>2, <1>3, <1>5, <3>1, WholeOfFold
  <2> QED BY <1>1, <2>1, <2>2 DEF Reply!IInv, Reply!OnTheWay, NoWhole
<1>8. Reply!Sending'
  BY <1>1 DEF Reply!Sending
<1>9. Reply!Ended'
  BY <1>1, <1>5 DEF Reply!IInv, Reply!Ended, NoEnd
<1>10. Reply!SentencesInOrder'
  BY <1>1 DEF Reply!IInv, Reply!SentencesInOrder
<1> QED BY <1>6, <1>7, <1>8, <1>9, <1>10 DEF Reply!IInv

LEMMA HandleEndKeeps ==
  ASSUME Reply!IInv, Reply!HandleEnd PROVE Reply!IInv'
<1> DEFINE m == [text |-> buffer, calls |-> <<>>, end |-> TRUE]
<1>1. PICK last : last = m
  OBVIOUS
<1>2. /\ splitter = "loop" /\ splitter' = "last" /\ msgChan = <<>> /\ source = "gone"
      /\ ready' = <<last>>
      /\ UNCHANGED <<chunks, source, currentToolCall, msgChan, passedOn, buffer, isFirst,
                     sentences, reply, said, ended>>
  BY <1>1 DEF Reply!HandleEnd, Reply!provider, Reply!speaking
<1>3. /\ buffer \in Seq(Pieces) /\ NoWhole(buffer) /\ ready = <<>>
  BY <1>2, Queued DEF Reply!IInv, Reply!TypeOK, Reply!OnTheWay, Reply!Sending, NoWhole
<1>4. last \in Reply!Responses /\ last \in Sent /\ last.text = buffer
  BY <1>1, <1>3 DEF Reply!Responses, Sent, Pieces
<1>5. /\ ready' \in Seq(Reply!Responses) /\ Len(ready') = 1 /\ ready' # <<>>
      /\ Reply!WholeOf(ready') = <<>>
  <2>1. ready' = Append(<<>>, last) /\ <<>> \in Seq(Sent)
    BY <1>2
  <2>2. Reply!WholeOf(Append(<<>>, last)) = <<>> \o <<>>
    BY <1>3, <1>4, <2>1, WholeOfFold, NoWholeEmpty
  <2> QED BY <1>2, <1>4, <2>1, <2>2
<1>6. Reply!TypeOK'
  BY <1>2, <1>5 DEF Reply!IInv, Reply!TypeOK
<1>7. Reply!OnTheWay'
  BY <1>2, <1>3, <1>5, WholeOfFold DEF Reply!IInv, Reply!OnTheWay
<1>8. Reply!Sending' /\ Reply!Ended'
  BY <1>2, <1>5 DEF Reply!IInv, Reply!Sending, Reply!Ended
<1>9. Reply!SentencesInOrder'
  BY <1>2 DEF Reply!IInv, Reply!SentencesInOrder
<1> QED BY <1>6, <1>7, <1>8, <1>9 DEF Reply!IInv

\* The front of a queue is taken.
LEMMA Shorter ==
  ASSUME NEW S, NEW q \in Seq(S), q # <<>>
  PROVE  /\ Head(q) \in S /\ Tail(q) \in Seq(S)
         /\ Len(q) \in Nat \ {0} /\ Len(Tail(q)) = Len(q) - 1
         /\ \A i \in DOMAIN Tail(q) : i \in Nat /\ i + 1 \in DOMAIN q /\ Tail(q)[i] = q[i + 1]
         /\ 1 \in DOMAIN q /\ Head(q) = q[1]
         /\ Tail(q) = <<>> <=> Len(Tail(q)) = 0
         /\ Len(q) = 1 => DOMAIN Tail(q) = {}
<1>1. /\ Head(q) \in S /\ Tail(q) \in Seq(S)
      /\ Len(q) \in Nat \ {0} /\ Len(Tail(q)) = Len(q) - 1
  OBVIOUS
<1>2. /\ DOMAIN Tail(q) = 1 .. (Len(q) - 1) /\ DOMAIN q = 1 .. Len(q)
      /\ \A i \in 1 .. (Len(q) - 1) : Tail(q)[i] = q[i + 1]
  OBVIOUS
<1>3. Tail(q) = <<>> <=> Len(Tail(q)) = 0
  <2>1. \A t \in Seq(S) : t = <<>> <=> Len(t) = 0
    BY EmptySeq
  <2> QED BY <1>1, <2>1, Zenon
<1>4. Head(q) = q[1]
  OBVIOUS
<1> QED BY <1>1, <1>2, <1>3, <1>4

LEMMA SendSentenceKeeps ==
  ASSUME Reply!IInv, Reply!SendSentence PROVE Reply!IInv'
<1>1. /\ splitter \in {"send", "last"} /\ ready # <<>>
      /\ sentences' = Append(sentences, Head(ready)) /\ ready' = Tail(ready)
      /\ splitter' = IF Len(ready) > 1 THEN splitter
                     ELSE IF splitter = "last" THEN "gone" ELSE "loop"
      /\ UNCHANGED <<chunks, source, currentToolCall, msgChan, passedOn, buffer, isFirst,
                     reply, said, ended>>
  BY DEF Reply!SendSentence, Reply!provider, Reply!speaking, Reply!IInv, Reply!Sending
<1>2. /\ Head(ready) \in Reply!Responses /\ ready' \in Seq(Reply!Responses)
      /\ sentences' \in Seq(Reply!Responses)
  <2>1. ready \in Seq(Reply!Responses) /\ sentences \in Seq(Reply!Responses)
    BY DEF Reply!IInv, Reply!TypeOK
  <2>2. Head(ready) \in Reply!Responses /\ Tail(ready) \in Seq(Reply!Responses)
    BY <1>1, <2>1, Shorter
  <2> QED BY <1>1, <2>1, <2>2, AppendProperties
<1>3. /\ Len(ready) \in Nat \ {0} /\ Len(ready') = Len(ready) - 1
      /\ \A i \in DOMAIN ready' : i + 1 \in DOMAIN ready /\ ready'[i] = ready[i + 1]
      /\ 1 \in DOMAIN ready /\ Head(ready) = ready[1]
      /\ ready' = <<>> <=> Len(ready') = 0
      /\ Len(ready) = 1 => DOMAIN ready' = {}
  <2>1. ready \in Seq(Reply!Responses)
    BY DEF Reply!IInv, Reply!TypeOK
  <2> QED BY <1>1, <2>1, Shorter
<1>4. Reply!TypeOK'
  BY <1>1, <1>2 DEF Reply!IInv, Reply!TypeOK
<1>5. Reply!OnTheWay'
  <2>1. /\ Reply!WholeOf(sentences) \in Seq(Pieces) /\ Reply!WholeOf(msgChan) \in Seq(Pieces)
        /\ ready \in Seq(Sent) /\ sentences \in Seq(Sent)
    BY Queued DEF Reply!IInv
  <2>2. /\ Reply!WholeOf(ready) = Reply!Whole(Head(ready).text) \o Reply!WholeOf(ready')
        /\ Head(ready).text \in Seq(Pieces) /\ ready' \in Seq(Sent)
    BY <1>1, <2>1, WholeOfHead
  <2>3. /\ Reply!Whole(Head(ready).text) \in Seq(Pieces)
        /\ Reply!WholeOf(ready') \in Seq(Pieces)
    BY <2>2, WholeFold, WholeOfFold
  <2>4. Reply!WholeOf(sentences') = Reply!WholeOf(sentences) \o Reply!Whole(Head(ready).text)
    <3>1. Head(ready) \in Sent
      BY <1>2 DEF Sent
    <3> QED BY <1>1, <2>1, <3>1, WholeOfFold
  <2>5. TwoLeft(Reply!WholeOf(sentences), Reply!Whole(Head(ready).text),
                Reply!WholeOf(ready'), Reply!WholeOf(msgChan))
    BY <2>1, <2>3, Regroup, Zenon
  <2>6. Reply!WholeOf(sentences) \o (Reply!WholeOf(ready) \o Reply!WholeOf(msgChan))
          = Reply!WholeOf(sentences') \o (Reply!WholeOf(ready') \o Reply!WholeOf(msgChan))
    BY <2>2, <2>4, <2>5, Zenon DEF TwoLeft
  <2> QED BY <1>1, <2>6 DEF Reply!IInv, Reply!OnTheWay
<1>6. Reply!Sending'
  BY <1>1, <1>3 DEF Reply!Sending
<1>7. Reply!Ended'
  <2>1. /\ splitter = "last" => msgChan = <<>> /\ source = "gone" /\ Len(ready) = 1
        /\ \A i \in DOMAIN ready : ready[i].end => splitter = "last"
        /\ \A i \in DOMAIN sentences : ~ sentences[i].end
        /\ reply = "ended" => source = "gone"
    BY <1>1 DEF Reply!IInv, Reply!Ended
  <2>2. splitter' # "last"
    BY <1>1, <2>1
  <2>3. \A i \in DOMAIN ready' : ~ ready'[i].end
    <3>1. splitter = "last" => DOMAIN ready' = {}
      BY <1>3, <2>1
    <3> QED BY <1>3, <2>1, <3>1
  <2>4. Head(ready).end => splitter' = "gone" /\ msgChan' = <<>> /\ source' = "gone"
    BY <1>1, <1>3, <2>1
  <2>5. \A i \in DOMAIN sentences' :
          sentences'[i].end => i = Len(sentences') /\ Head(ready).end
    <3>1. sentences \in Seq(Reply!Responses)
      BY DEF Reply!IInv, Reply!TypeOK
    <3> QED BY <1>1, <1>2, <2>1, <3>1
  <2> QED BY <1>1, <2>1, <2>2, <2>3, <2>4, <2>5 DEF Reply!Ended
<1>8. Reply!SentencesInOrder'
  BY <1>1 DEF Reply!IInv, Reply!SentencesInOrder
<1> QED BY <1>4, <1>5, <1>6, <1>7, <1>8 DEF Reply!IInv

LEMMA TakeSentenceKeeps ==
  ASSUME Reply!IInv, Reply!TakeSentence PROVE Reply!IInv'
<1> DEFINE s == Head(sentences)
<1>1. /\ reply = "take" /\ sentences # <<>> /\ sentences' = Tail(sentences)
      /\ said' = said \o s.text
      /\ reply' = (IF s.end THEN "ended" ELSE "take") \/ reply' = "left"
      /\ UNCHANGED <<chunks, source, currentToolCall, msgChan, passedOn, splitter, buffer,
                     isFirst, ready, ended>>
  BY DEF Reply!TakeSentence, Reply!provider, Reply!cutting
<1>2. /\ s \in Reply!Responses /\ sentences' \in Seq(Reply!Responses)
      /\ Len(sentences) \in Nat \ {0} /\ Len(sentences') = Len(sentences) - 1
      /\ \A i \in DOMAIN sentences' :
           i \in Nat /\ i + 1 \in DOMAIN sentences /\ sentences'[i] = sentences[i + 1]
      /\ 1 \in DOMAIN sentences /\ s = sentences[1]
      /\ sentences' = <<>> <=> Len(sentences') = 0
  <2>1. sentences \in Seq(Reply!Responses)
    BY DEF Reply!IInv, Reply!TypeOK
  <2> QED BY <1>1, <2>1, Shorter
<1>3. s.text \in Seq(Pieces) /\ s.end \in BOOLEAN
  BY <1>2 DEF Reply!Responses, Pieces
<1> HIDE DEF s
<1>4. Reply!TypeOK'
  <2>1. said' \in Seq(Reply!Pieces)
    BY <1>1, <1>3 DEF Reply!IInv, Reply!TypeOK, Pieces
  <2> QED BY <1>1, <1>2, <2>1 DEF Reply!IInv, Reply!TypeOK
<1>5. Reply!Whole(passedOn) =
        Reply!Whole(said') \o
          (Reply!WholeOf(sentences') \o (Reply!WholeOf(ready) \o Reply!WholeOf(msgChan)))
  <2>1. /\ said \in Seq(Pieces) /\ Reply!Whole(said) \in Seq(Pieces)
        /\ Reply!WholeOf(ready) \in Seq(Pieces) /\ Reply!WholeOf(msgChan) \in Seq(Pieces)
        /\ sentences \in Seq(Sent)
    BY Queued DEF Reply!IInv
  <2>2. /\ Reply!WholeOf(sentences) = Reply!Whole(s.text) \o Reply!WholeOf(sentences')
        /\ sentences' \in Seq(Sent)
    BY <1>1, <2>1, WholeOfHead DEF s
  <2>3. Reply!WholeOf(sentences') \in Seq(Pieces) /\ Reply!Whole(s.text) \in Seq(Pieces)
    BY <1>3, <2>2, WholeFold, WholeOfFold
  <2>4. Reply!Whole(said') = Reply!Whole(said) \o Reply!Whole(s.text)
    BY <1>1, <1>3, <2>1, WholeConcat
  <2>5. Reply!WholeOf(ready) \o Reply!WholeOf(msgChan) \in Seq(Pieces)
    BY <2>1, ConcatProperties
  <2>6. TwoLeft(Reply!Whole(said), Reply!Whole(s.text), Reply!WholeOf(sentences'),
                Reply!WholeOf(ready) \o Reply!WholeOf(msgChan))
    BY <2>1, <2>3, <2>5, Regroup, Zenon
  <2>7. Reply!Whole(passedOn) =
          Reply!Whole(said) \o
            (Reply!WholeOf(sentences) \o (Reply!WholeOf(ready) \o Reply!WholeOf(msgChan)))
    BY <1>1 DEF Reply!IInv, Reply!OnTheWay
  <2> QED BY <2>2, <2>4, <2>6, <2>7, Zenon DEF TwoLeft
<1>6. Reply!OnTheWay'
  BY <1>1, <1>5 DEF Reply!IInv, Reply!OnTheWay
<1>7. Reply!Sending'
  BY <1>1 DEF Reply!IInv, Reply!Sending
<1>8. s.end => /\ splitter = "gone" /\ msgChan = <<>> /\ source = "gone"
               /\ ready = <<>> /\ sentences' = <<>>
  BY <1>2 DEF Reply!IInv, Reply!Ended, Reply!Sending
<1>9. Reply!Ended'
  <2>1. \A i \in DOMAIN sentences' : sentences'[i].end =>
          /\ i = Len(sentences')
          /\ splitter' = "gone" /\ msgChan' = <<>> /\ source' = "gone"
    <3> SUFFICES ASSUME NEW i \in DOMAIN sentences', sentences'[i].end
        PROVE  /\ i = Len(sentences')
               /\ splitter' = "gone" /\ msgChan' = <<>> /\ source' = "gone"
      OBVIOUS
    <3>1. i + 1 \in DOMAIN sentences /\ sentences[i + 1].end /\ i \in Nat
      BY <1>2
    <3>2. i + 1 = Len(sentences) /\ splitter = "gone" /\ msgChan = <<>> /\ source = "gone"
      BY <3>1 DEF Reply!IInv, Reply!Ended
    <3> QED BY <1>1, <1>2, <3>1, <3>2
  <2>2. reply' = "ended" => source' = "gone"
    BY <1>1, <1>8
  <2> QED BY <1>1, <2>1, <2>2 DEF Reply!IInv, Reply!Ended
<1>10. Reply!SentencesInOrder'
  <2>1. /\ Reply!Whole(said') \in Seq(Pieces)
        /\ Reply!WholeOf(sentences') \o (Reply!WholeOf(ready) \o Reply!WholeOf(msgChan))
             \in Seq(Pieces)
    <3>1. /\ Reply!WholeOf(ready) \in Seq(Pieces) /\ Reply!WholeOf(msgChan) \in Seq(Pieces)
      BY Queued DEF Reply!IInv
    <3>2. Reply!Whole(said') \in Seq(Pieces) /\ Reply!WholeOf(sentences') \in Seq(Pieces)
      <4>1. said' \in Seq(Pieces) /\ sentences' \in Seq(Sent)
        BY <1>4 DEF Reply!TypeOK, Pieces, Sent
      <4> QED BY <4>1, WholeFold, WholeOfFold
    <3> QED BY <3>1, <3>2, ConcatProperties
  <2>2. Reply!IsPrefix(Reply!Whole(said'), Reply!Whole(passedOn))
    BY <1>5, <2>1, Prefixes, Zenon
  <2>3. ASSUME s.end PROVE Reply!Whole(said') = Reply!Whole(passedOn)
    <3>1. /\ Reply!WholeOf(sentences') = <<>> /\ Reply!WholeOf(ready) = <<>>
          /\ Reply!WholeOf(msgChan) = <<>>
      BY <1>8, <2>3, WholeOfFold
    <3>2. <<>> \o (<<>> \o <<>>) = <<>>
      OBVIOUS
    <3>3. Reply!Whole(said') \o <<>> = Reply!Whole(said')
      BY <2>1
    <3> QED BY <1>5, <3>1, <3>2, <3>3
  <2> QED BY <1>1, <2>2, <2>3 DEF Reply!SentencesInOrder
<1> QED BY <1>4, <1>6, <1>7, <1>9, <1>10 DEF Reply!IInv

LEMMA LeaveReplyKeeps ==
  ASSUME Reply!IInv, Reply!LeaveReply PROVE Reply!IInv'
<1>1. /\ reply' = "left"
      /\ UNCHANGED <<chunks, source, currentToolCall, msgChan, passedOn, splitter, buffer,
                     isFirst, ready, sentences, said, ended>>
  BY DEF Reply!LeaveReply, Reply!provider, Reply!cutting
<1> QED BY <1>1 DEF Reply!IInv, Reply!TypeOK, Reply!OnTheWay, Reply!Sending, Reply!Ended,
                    Reply!SentencesInOrder

LEMMA CancelReplyKeeps ==
  ASSUME Reply!IInv, Reply!Cancel PROVE Reply!IInv'
<1>1. /\ ended' = TRUE
      /\ UNCHANGED <<chunks, source, currentToolCall, msgChan, passedOn, splitter, buffer,
                     isFirst, ready, sentences, reply, said>>
  BY DEF Reply!Cancel, Reply!provider, Reply!cutting, Reply!speaking
<1> QED BY <1>1 DEF Reply!IInv, Reply!TypeOK, Reply!OnTheWay, Reply!Sending, Reply!Ended,
                    Reply!SentencesInOrder

LEMMA ReplyNextKeeps ==
  ASSUME Reply!IInv, Reply!Next PROVE Reply!IInv'
<1>1. CASE Reply!EinoResponseWithTools
  BY <1>1, OpenStreamKeeps, GenerateKeeps, FailKeeps, ReceiveTextKeeps, ReceiveNameKeeps,
     ReceiveArgumentsKeeps, EndOfStreamKeeps DEF Reply!EinoResponseWithTools
<1>2. CASE Reply!HandleLLMWithContextAndTools
  BY <1>2, StopSplittingKeeps, HandleMessageKeeps, HandleEndKeeps, SendSentenceKeeps
     DEF Reply!HandleLLMWithContextAndTools
<1>3. CASE Reply!TakeSentence \/ Reply!LeaveReply \/ Reply!Cancel
  BY <1>3, TakeSentenceKeeps, LeaveReplyKeeps, CancelReplyKeeps
<1> QED BY <1>1, <1>2, <1>3 DEF Reply!Next

LEMMA ReplyUntouched ==
  ASSUME Reply!IInv, UNCHANGED replyVars PROVE Reply!IInv'
BY DEF Reply!IInv, Reply!TypeOK, Reply!OnTheWay, Reply!Sending, Reply!Ended,
       Reply!SentencesInOrder, replyVars

LEMMA ReplyInitHolds ==
  ASSUME Reply!Init PROVE Reply!IInv
<1>1. Reply!TypeOK
  <2>1. chunks \in Seq(Reply!Chunks)
    BY ReplyAssumption DEF Reply!Init
  <2>2. <<>> \in Seq(Reply!Messages) /\ <<>> \in Seq(Reply!Responses) /\ <<>> \in Seq(Reply!Pieces)
    OBVIOUS
  <2> QED BY <2>1, <2>2 DEF Reply!Init, Reply!TypeOK, Reply!Calls
<1>2. Reply!Whole(<<>>) = <<>> /\ Reply!WholeOf(<<>>) = <<>> /\ <<>> \o (<<>> \o (<<>> \o <<>>)) = <<>>
  BY WholeFold, WholeOfFold
<1>3. Reply!OnTheWay
  <2>1. \A i \in DOMAIN <<>> : ~ Reply!IsWhole(<<>>[i])
    OBVIOUS
  <2>2. /\ buffer = <<>> /\ passedOn = <<>> /\ said = <<>> /\ sentences = <<>> /\ ready = <<>>
        /\ msgChan = <<>>
    BY DEF Reply!Init
  <2>3. Reply!Whole(passedOn) =
          Reply!Whole(said) \o (Reply!WholeOf(sentences) \o
            (Reply!WholeOf(ready) \o Reply!WholeOf(msgChan)))
    BY <1>2, <2>2, Zenon
  <2> QED BY <2>1, <2>2, <2>3 DEF Reply!OnTheWay
<1>4. Reply!Sending /\ Reply!Ended
  BY DEF Reply!Init, Reply!Sending, Reply!Ended
<1>5. Reply!IsPrefix(<<>>, <<>>)
  BY DEF Reply!IsPrefix
<1>6. Reply!SentencesInOrder
  BY <1>2, <1>5 DEF Reply!Init, Reply!SentencesInOrder
<1> QED BY <1>1, <1>3, <1>4, <1>6 DEF Reply!IInv

----------------------------------------------------------------------------
(* The three together                                                      *)

\* Before the first step, and after any step of one of the three, each of them keeps its
\* own invariant.
AllIInv == IInv /\ Audio!IInv /\ Reply!IInv

LEMMA SpeechInitHolds == SpeechInit => AllIInv
BY InitHolds, AudioInitHolds, ReplyInitHolds DEF SpeechInit, AllIInv

LEMMA SpeechNextKeeps == AllIInv /\ [SpeechNext]_allVars => AllIInv'
<1> SUFFICES ASSUME AllIInv, [SpeechNext]_allVars PROVE AllIInv'
  OBVIOUS
<1>1. /\ UNCHANGED xiaozhiVars => IInv'
      /\ UNCHANGED speechVars => Audio!IInv'
      /\ UNCHANGED replyVars => Reply!IInv'
  BY NextKeeps, AudioUntouched, ReplyUntouched DEF AllIInv, xiaozhiVars
<1>2. CASE Next /\ UNCHANGED <<which, speechVars, replyVars>>
  BY <1>1, <1>2, NextKeeps DEF AllIInv
<1>3. CASE Audio!Next /\ UNCHANGED <<which, xiaozhiVars, replyVars>>
  BY <1>1, <1>3, AudioNextKeeps DEF AllIInv
<1>4. CASE Reply!Next /\ UNCHANGED <<which, xiaozhiVars, speechVars>>
  BY <1>1, <1>4, ReplyNextKeeps DEF AllIInv
<1>5. CASE UNCHANGED allVars
  BY <1>1, <1>5 DEF AllIInv, allVars
<1> QED BY <1>2, <1>3, <1>4, <1>5 DEF SpeechNext

\* The inductive invariant of the three holds in every state.
THEOREM SpeechInvariance == SpeechSpec => []AllIInv
BY SpeechInitHolds, SpeechNextKeeps, PTL DEF SpeechSpec

\* For any number of streams, whatever the providers send and however far the reader, the
\* decoder and the consumer of a stream are apart, and for any reply of the model, every
\* variable of the three keeps its type: no output channel holds more than its capacity,
\* and no decoder has more frames to push than a message can give.
THEOREM SpeechTypesCorrect == SpeechSpec => []TypesOK
<1>1. AllIInv => TypesOK
  BY DEF AllIInv, IInv, Audio!IInv, Reply!IInv, TypesOK
<1> QED BY <1>1, SpeechInvariance, PTL

\* However the model cuts a reply of any length into chunks, and wherever tool calls, the
\* end of the stream, a failure or an abort come, the whole sentences are spoken in the
\* order of the model and once, and all of them when the reply gets to its end mark.
THEOREM RepliesKeepOrder == SpeechSpec => []SentencesInOrder
<1>1. AllIInv => SentencesInOrder
  BY DEF AllIInv, Reply!IInv, SentencesInOrder
<1> QED BY <1>1, SpeechInvariance, PTL
=============================================================================
