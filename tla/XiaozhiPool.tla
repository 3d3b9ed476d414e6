---------------------------- MODULE XiaozhiPool ----------------------------
(***************************************************************************)
(* The connections to the xiaozhi speech service (tts/xiaozhi/xiaozhi.go). *)
(*                                                                         *)
(* One pool serves every session. A connection has a device id out of      *)
(* deviceIdList, and every later operation (release, remove, touch) finds  *)
(* it by that id. A stream is one call of TextToSpeechStream; its          *)
(* goroutine takes a connection, asks for the speech, forwards the frames  *)
(* and tries up to three times. Streams of one provider share the field    *)
(* p.DeviceID. A cleaner closes connections that have been quiet too long, *)
(* whether they are in use or not.                                         *)
(*                                                                         *)
(* Connections are numbered as they are made, which is also their order in *)
(* the slice wsConnPool. LastActiveAt and the expiry of a blocked id are   *)
(* abstracted: any time may have passed.                                   *)
(***************************************************************************)
EXTENDS Naturals, FiniteSets

CONSTANTS
  Streams,      \* the calls of TextToSpeechStream
  Quitters,     \* bound: those that may be given up
  Providers,
  ProviderOf,   \* the provider on which a stream is called
  NumIds,       \* length of deviceIdList, 10 in the code
  MaxPoolSize,  \* maxPoolSize, 10 unless the configuration has a pool_size
  MaxRetries,   \* maxRetries, 2 in the code
  OutCap,       \* capacity of outputChan, 1000 in the code
  MaxConns,     \* bound: connections that are made
  MaxFrames     \* bound: frames that the service sends in one attempt

ASSUME StreamsAssumption == IsFiniteSet(Streams) /\ ProviderOf \in [Streams -> Providers]
ASSUME SizesAssumption ==
  /\ NumIds \in Nat \ {0} /\ MaxPoolSize \in Nat \ {0}
  /\ MaxRetries \in Nat /\ OutCap \in Nat
  /\ MaxConns \in Nat /\ MaxFrames \in Nat

\* Indices of deviceIdList; 0 is the device id that a provider was configured with.
Ids == 1 .. NumIds
Conns == 1 .. MaxConns
NoConn == 0

VARIABLES
  wsConnPool,  \* the connections in the pool
  inUse,       \* those whose InUse is set
  deviceId,    \* per connection in the pool: its DeviceId
  dialled,     \* number of connections made
  socket,      \* per connection: none, open, broken by the peer, closed by us
  blocklist,   \* deviceIdBlocklist
  DeviceID,    \* per provider: the field of that name
  pc,          \* per stream: the step of its goroutine
  retryCount,  \* per stream
  conn,        \* per stream: the connection it works on
  myId,        \* per stream: the local deviceId
  frames,      \* per stream: the frames it has received in this attempt
  output,      \* per stream: the frames that wait in outputChan
  cancelled    \* the streams whose context is cancelled

pool == <<wsConnPool, inUse, deviceId, dialled, socket>>
chan == <<frames, output>>
local == <<retryCount, conn, myId>>
vars == <<pool, blocklist, DeviceID, pc, local, chan, cancelled>>

Steps == {"idle", "get", "listen", "block", "remove", "read", "send", "release",
          "done"}

TypeOK ==
  /\ wsConnPool \subseteq Conns /\ inUse \subseteq Conns
  /\ deviceId \in [Conns -> Ids \cup {0}]
  /\ dialled \in Conns \cup {0}
  /\ socket \in [Conns -> {"none", "open", "broken", "closed"}]
  /\ blocklist \subseteq Ids
  /\ DeviceID \in [Providers -> Ids \cup {0}]
  /\ pc \in [Streams -> Steps]
  /\ retryCount \in [Streams -> 0 .. MaxRetries]
  /\ conn \in [Streams -> Conns \cup {NoConn}]
  /\ myId \in [Streams -> Ids \cup {0}]
  /\ frames \in [Streams -> 0 .. MaxFrames]
  /\ output \in [Streams -> 0 .. OutCap]
  /\ cancelled \subseteq Streams

Init ==
  /\ wsConnPool = {} /\ inUse = {} /\ dialled = 0
  /\ deviceId = [c \in Conns |-> 0]
  /\ socket = [c \in Conns |-> "none"]
  /\ blocklist = {}
  /\ DeviceID = [p \in Providers |-> 0]
  /\ pc = [s \in Streams |-> "idle"]
  /\ retryCount = [s \in Streams |-> 0]
  /\ conn = [s \in Streams |-> NoConn]
  /\ myId = [s \in Streams |-> 0]
  /\ frames = [s \in Streams |-> 0]
  /\ output = [s \in Streams |-> 0]
  /\ cancelled = {}

Goto(s, step) == pc' = [pc EXCEPT ![s] = step]
\* The locals of handleTTSConnection go when it returns.
Return(s) ==
  /\ conn' = [conn EXCEPT ![s] = NoConn]
  /\ myId' = [myId EXCEPT ![s] = 0]
  /\ frames' = [frames EXCEPT ![s] = 0]

\* The last attempt counts as one that may be repeated.
TryOnceMore(s) ==
  /\ \/ /\ retryCount[s] <= MaxRetries /\ s \notin cancelled
        /\ retryCount' = [retryCount EXCEPT ![s] = @ + 1]
        /\ Goto(s, "get")
     \/ /\ retryCount[s] > MaxRetries \/ s \in cancelled
        /\ retryCount' = [retryCount EXCEPT ![s] = 0]
        /\ Goto(s, "done")
  /\ Return(s)

\* A failed attempt is repeated MaxRetries times, unless the context is cancelled.
TryAgain(s) ==
  /\ \/ /\ retryCount[s] < MaxRetries /\ s \notin cancelled
        /\ retryCount' = [retryCount EXCEPT ![s] = @ + 1]
        /\ Goto(s, "get")
     \/ /\ retryCount[s] >= MaxRetries \/ s \in cancelled
        /\ retryCount' = [retryCount EXCEPT ![s] = 0]
        /\ Goto(s, "done")
  /\ Return(s)

Least(S) == CHOOSE x \in S : \A y \in S : x <= y

----------------------------------------------------------------------------
(* Connections                                                             *)

\* A write notices that the peer is gone now or later, and always that we have closed.
WriteSucceeds(c) == socket[c] \in {"open", "broken"}
WriteFails(c) == socket[c] \in {"broken", "closed"}
ReadFails(c) == socket[c] \in {"broken", "closed"}

\* An entry leaves the pool without being closed.
ForgetAll(S) ==
  /\ wsConnPool' = wsConnPool \ S
  /\ inUse' = inUse \ S
  /\ deviceId' = [c \in Conns |-> IF c \in S THEN 0 ELSE deviceId[c]]
  /\ UNCHANGED socket

\* The entries are closed and leave the pool.
CloseAll(S) ==
  /\ socket' = [c \in Conns |-> IF c \in S THEN "closed" ELSE socket[c]]
  /\ wsConnPool' = wsConnPool \ S
  /\ inUse' = inUse \ S
  /\ deviceId' = [c \in Conns |-> IF c \in S THEN 0 ELSE deviceId[c]]

Entries(id) == {c \in wsConnPool : deviceId[c] = id}
Idle == wsConnPool \ inUse
Usable == {c \in Idle : deviceId[c] \notin blocklist}

Break(c) ==
  /\ socket[c] = "open"
  /\ socket' = [socket EXCEPT ![c] = "broken"]
  /\ UNCHANGED <<wsConnPool, inUse, deviceId, dialled, blocklist, DeviceID, pc, local, chan,
                 cancelled>>

\* The cleaner spares connections that are in use.
CleanIdle(c) ==
  /\ c \in wsConnPool \ inUse
  /\ CloseAll({c})
  /\ UNCHANGED <<dialled, blocklist, DeviceID, pc, local, chan, cancelled>>

\* The cleaner closes an entry that has been quiet for maxIdleTime, in use or not.
Clean(c) ==
  /\ c \in wsConnPool
  /\ CloseAll({c})
  /\ UNCHANGED <<dialled, blocklist, DeviceID, pc, local, chan, cancelled>>

\* Five seconds are over, for the cleaner or for isDeviceIdBlocked. Only getWSConnection
\* looks at the list: when else an id expires makes no difference.
Unblock(id) ==
  /\ id \in blocklist /\ \E s \in Streams : pc[s] = "get"
  /\ blocklist' = blocklist \ {id}
  /\ UNCHANGED <<pool, DeviceID, pc, local, chan, cancelled>>

----------------------------------------------------------------------------
(* getWSConnection, under wsClientLock                                     *)

\* The first idle connection answers the ping and is taken again.
Reuse(s) ==
  /\ pc[s] = "get" /\ Usable # {}
  /\ LET c == Least(Usable) IN
       /\ WriteSucceeds(c)
       /\ inUse' = inUse \cup {c}
       /\ DeviceID' = [DeviceID EXCEPT ![ProviderOf[s]] = deviceId[c]]
       /\ conn' = [conn EXCEPT ![s] = c]
  /\ Goto(s, "listen")
  /\ UNCHANGED <<wsConnPool, deviceId, dialled, socket, blocklist, retryCount, myId, chan,
                 cancelled>>

\* The first idle connection does not answer, or is too old: it is dropped.
Dropped == IF Usable = {} THEN {} ELSE {Least(Usable)}

\* A pool that is still full loses an idle connection, or else one in use.
Evictable ==
  LET left == wsConnPool \ Dropped
      idle == left \ inUse
  IN  IF Cardinality(left) < MaxPoolSize THEN {{}}
      ELSE {{c} : c \in IF idle # {} THEN idle ELSE left}

\* The device ids that a new connection may get beside those that are left: the first
\* one that nobody uses and that is not blocked, the first that nobody uses, or, when all
\* are used, one after the other.
NewIds(left) ==
  LET unused == Ids \ {deviceId[c] : c \in left}
      free == unused \ blocklist
  IN  IF free # {} THEN {Least(free)}
      ELSE IF unused # {} THEN {Least(unused)}
      ELSE IF Ids \ blocklist # {} THEN Ids \ blocklist ELSE Ids

\* A connection with the id is made, after those in out have been closed.
Replace(s, out, id) ==
  LET c == dialled + 1 IN
    /\ dialled' = c
    /\ wsConnPool' = (wsConnPool \ out) \cup {c}
    /\ inUse' = (inUse \ out) \cup {c}
    /\ deviceId' = [d \in Conns |-> IF d = c THEN id ELSE IF d \in out THEN 0 ELSE deviceId[d]]
    /\ socket' = [d \in Conns |-> IF d = c THEN "open"
                                  ELSE IF d \in out THEN "closed" ELSE socket[d]]
    /\ conn' = [conn EXCEPT ![s] = c]

Dial(s) ==
  /\ pc[s] = "get" /\ dialled < MaxConns
  /\ \E out \in Evictable : \E id \in NewIds(wsConnPool \ (Dropped \cup out)) :
       /\ Replace(s, Dropped \cup out, id)
       /\ DeviceID' = [DeviceID EXCEPT ![ProviderOf[s]] = id]
  /\ Goto(s, "listen")
  /\ UNCHANGED <<blocklist, retryCount, myId, chan, cancelled>>

\* Dial fails after the old connections have been closed: the id is blocked.
DialFails(s) ==
  /\ pc[s] = "get"
  /\ \E out \in Evictable : \E id \in NewIds(wsConnPool \ (Dropped \cup out)) :
       /\ CloseAll(Dropped \cup out)
       /\ DeviceID' = [DeviceID EXCEPT ![ProviderOf[s]] = id]
       /\ blocklist' = blocklist \cup {id}
  /\ TryAgain(s)
  /\ UNCHANGED <<dialled, output, cancelled>>

GetWSConnection(s) == Reuse(s) \/ Dial(s) \/ DialFails(s)

----------------------------------------------------------------------------
(* handleTTSConnection                                                     *)

\* The context is looked at before each ReadMessage, not during it.
CheckCtx(s) == Goto(s, IF s \in cancelled THEN "release" ELSE "read")

\* p.DeviceID is read when the lock has been given back; the request is sent.
Listen(s) ==
  /\ pc[s] = "listen"
  /\ myId' = [myId EXCEPT ![s] = DeviceID[ProviderOf[s]]]
  /\ \/ WriteSucceeds(conn[s]) /\ CheckCtx(s)
     \/ WriteFails(conn[s]) /\ Goto(s, "block")
  /\ UNCHANGED <<pool, blocklist, DeviceID, retryCount, conn, chan, cancelled>>

BlockDeviceId(s) ==
  /\ pc[s] = "block"
  /\ blocklist' = blocklist \cup {myId[s]}
  /\ Goto(s, "remove")
  /\ UNCHANGED <<pool, DeviceID, local, chan, cancelled>>

\* removeWSConnection closes every connection with the id.
RemoveWSConnection(s) ==
  /\ pc[s] = "remove"
  /\ CloseAll(Entries(myId[s]))
  /\ TryAgain(s)
  /\ UNCHANGED <<dialled, blocklist, DeviceID, output, cancelled>>

\* The service sends a frame to whoever reads the connection.
ReadFrame(s) ==
  /\ pc[s] = "read" /\ socket[conn[s]] = "open" /\ frames[s] < MaxFrames
  /\ frames' = [frames EXCEPT ![s] = @ + 1]
  /\ Goto(s, "send")
  /\ UNCHANGED <<pool, blocklist, DeviceID, local, output, cancelled>>

\* outputChan <- msg does not look at the context.
SendFrame(s) ==
  /\ pc[s] = "send" /\ output[s] < OutCap
  /\ output' = [output EXCEPT ![s] = @ + 1]
  /\ CheckCtx(s)
  /\ UNCHANGED <<pool, blocklist, DeviceID, local, frames, cancelled>>

\* Any other message of the service
ReadText(s) ==
  /\ pc[s] = "read" /\ socket[conn[s]] = "open"
  /\ CheckCtx(s)
  /\ UNCHANGED <<pool, blocklist, DeviceID, local, chan, cancelled>>

\* The time of the last activity, which is brought up to date here, is not modelled.
ReadStop(s) ==
  /\ pc[s] = "read" /\ socket[conn[s]] = "open"
  /\ Goto(s, "release")
  /\ UNCHANGED <<pool, blocklist, DeviceID, local, chan, cancelled>>

\* An id whose connection never sent a frame is blocked.
ReadError(s) ==
  /\ pc[s] = "read" /\ ReadFails(conn[s])
  /\ Goto(s, IF frames[s] = 0 THEN "block" ELSE "remove")
  /\ UNCHANGED <<pool, blocklist, DeviceID, local, chan, cancelled>>

\* The stop message reaches the service, or it does not and the ping does:
\* the first connection with the id is idle again.
GiveBack(c) ==
  /\ WriteSucceeds(c)
  /\ inUse' = inUse \ {c}
  /\ UNCHANGED <<socket, blocklist>>

\* Neither gets through: the connection is closed and stays in the pool.
GiveUp(c) ==
  /\ WriteFails(c)
  /\ socket' = [socket EXCEPT ![c] = "closed"]
  /\ inUse' = inUse \ {c}
  /\ blocklist' = blocklist \cup {deviceId[c]}

ReleaseWSConnection(s) ==
  /\ pc[s] = "release"
  /\ IF Entries(myId[s]) \cap inUse # {} /\ Least(Entries(myId[s])) \in inUse
     THEN LET c == Least(Entries(myId[s])) IN GiveBack(c) \/ GiveUp(c)
     ELSE UNCHANGED <<inUse, socket, blocklist>>
  /\ retryCount' = [retryCount EXCEPT ![s] = 0]
  /\ Goto(s, "done")
  /\ Return(s)
  /\ UNCHANGED <<wsConnPool, deviceId, dialled, DeviceID, output, cancelled>>

----------------------------------------------------------------------------
(* TextToSpeechStream                                                      *)

Call(s) ==
  /\ pc[s] = "idle"
  /\ Goto(s, "get")
  /\ UNCHANGED <<pool, blocklist, DeviceID, local, chan, cancelled>>

\* The session gives the reply up and stops reading.
Cancel(s) ==
  /\ pc[s] \notin {"idle", "done"} /\ s \in Quitters \ cancelled
  /\ cancelled' = cancelled \cup {s}
  /\ UNCHANGED <<pool, blocklist, DeviceID, pc, local, chan>>

Consume(s) ==
  /\ output[s] > 0 /\ s \notin cancelled
  /\ output' = [output EXCEPT ![s] = @ - 1]
  /\ UNCHANGED <<pool, blocklist, DeviceID, pc, local, frames, cancelled>>

----------------------------------------------------------------------------

\* What the goroutine of a stream does by itself
Step(s) ==
  \/ GetWSConnection(s) \/ Listen(s) \/ BlockDeviceId(s)
  \/ RemoveWSConnection(s) \/ SendFrame(s) \/ ReadError(s) \/ ReleaseWSConnection(s)

Next ==
  \/ \E s \in Streams :
       \/ Step(s) \/ Call(s) \/ Cancel(s) \/ Consume(s)
       \/ ReadFrame(s) \/ ReadText(s) \/ ReadStop(s)
  \/ \E c \in Conns : Break(c) \/ Clean(c)
  \/ \E id \in Ids : Unblock(id)

Spec == Init /\ [][Next]_vars

\* The goroutines and the cleaner run, and a session reads the frames of a reply it
\* has not given up. The service may stay silent for ever.
Fairness ==
  /\ \A s \in Streams : WF_vars(Step(s)) /\ WF_vars(Consume(s))
  /\ \A c \in Conns : WF_vars(Clean(c))

FairSpec == Spec /\ Fairness

----------------------------------------------------------------------------
(* Properties                                                              *)

Live(c) == socket[c] \in {"open", "broken"}

\* The pool never holds more connections than it may, and knows every connection that
\* has not been closed, so that the cleaner will find it; as long as there is a device
\* id for each, no two have the same, and a stream that frees or removes "its"
\* connection by the id means one connection only.
PoolKeepsTrack ==
  /\ Cardinality(wsConnPool) <= MaxPoolSize
  /\ \A c \in Conns : Live(c) => c \in wsConnPool
  /\ MaxPoolSize <= NumIds =>
       \A c, d \in wsConnPool : deviceId[c] = deviceId[d] => c = d

\* A goroutine that its session left with outputChan full
Abandoned(s) == pc[s] = "send" /\ output[s] = OutCap /\ s \in cancelled

\* A stream ends even if the service stays silent in the middle of a reply, another
\* stream releases its connection, or its place in the pool is given away: outputChan
\* is closed, unless nobody reads it any more and it is full.
StreamEnds == \A s \in Streams : pc[s] = "get" ~> pc[s] = "done" \/ Abandoned(s)
=============================================================================
