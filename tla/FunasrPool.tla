----------------------------- MODULE FunasrPool -----------------------------
(***************************************************************************)
(* The connections to the FunASR speech recogniser (asr/funasr/funasr.go). *)
(*                                                                         *)
(* A stream is one call of StreamingRecognize: the caller takes a          *)
(* connection and sends the first message, then recvResult reads the       *)
(* results and gives the connection back, while forwardStreamAudio writes  *)
(* the audio and goes on after that. A batch is one call of Process. The   *)
(* cleaner closes idle connections.                                        *)
(*                                                                         *)
(* f.pool is a map that writeMessage reads without its lock. What that     *)
(* race can do is Fatal. Connections are numbered as they are made.        *)
(***************************************************************************)
EXTENDS Naturals, FiniteSets

CONSTANTS
  Streams,        \* the calls of StreamingRecognize
  Batches,        \* the calls of Process
  MaxConnections, \* of the configuration
  ResultCap,      \* capacity of resultChan, 20 in the code
  MaxConns        \* bound: connections that are made

ASSUME CallsAssumption == IsFiniteSet(Streams) /\ IsFiniteSet(Batches) /\ Streams \cap Batches = {}
ASSUME SizesAssumption == MaxConnections \in Nat /\ ResultCap \in Nat /\ MaxConns \in Nat

Calls == Streams \cup Batches
Conns == 1 .. MaxConns
NoConn == 0

VARIABLES
  pool,        \* the connections in the map
  inUse,       \* those whose entry is marked in use
  socket,      \* per connection: none, open, failed, closed by us
  dialled,     \* number of connections made
  removing,    \* the connections that a removeConnection has been started for
  pc,          \* per call: the step of the caller
  recv,        \* per stream: the step of recvResult
  fwd,         \* per stream: the step of forwardStreamAudio
  conn,        \* per call: its connection
  results,     \* per stream: the results that wait in resultChan
  cancelled,   \* the streams whose context is cancelled
  closed,      \* the streams whose audioStream is closed
  crashed      \* the server has ended with "concurrent map access"

poolVars == <<pool, inUse, socket, dialled, removing>>
input == <<cancelled, closed, crashed>>
vars == <<poolVars, pc, recv, fwd, conn, results, input>>

TypeOK ==
  /\ pool \subseteq Conns /\ inUse \subseteq Conns
  /\ socket \in [Conns -> {"none", "open", "failed", "closed"}]
  /\ dialled \in 0 .. MaxConns
  /\ removing \subseteq Conns
  /\ pc \in [Calls -> {"idle", "get", "first", "send", "read", "remove", "release", "done"}]
  /\ recv \in [Streams -> {"none", "read", "partial", "final", "release", "done"}]
  /\ fwd \in [Streams -> {"none", "wait", "end", "done"}]
  /\ conn \in [Calls -> Conns \cup {NoConn}]
  /\ results \in [Streams -> 0 .. ResultCap]
  /\ cancelled \subseteq Streams /\ closed \subseteq Streams /\ crashed \in BOOLEAN

Init ==
  /\ pool = {} /\ inUse = {} /\ dialled = 0 /\ removing = {}
  /\ socket = [c \in Conns |-> "none"]
  /\ pc = [s \in Calls |-> "idle"]
  /\ recv = [s \in Streams |-> "none"]
  /\ fwd = [s \in Streams |-> "none"]
  /\ conn = [s \in Calls |-> NoConn]
  /\ results = [s \in Streams |-> 0]
  /\ cancelled = {} /\ closed = {} /\ crashed = FALSE

Goto(s, step) == pc' = [pc EXCEPT ![s] = step]
Receiver(s, step) == recv' = [recv EXCEPT ![s] = step]
Forwarder(s, step) == fwd' = [fwd EXCEPT ![s] = step]

----------------------------------------------------------------------------
(* Connections and the pool                                                *)

\* A peer that has gone fails every read, and a write now or later. So does, as far as
\* reads go, a connection that once served a batch: its read deadline stays.
Fail(c) ==
  /\ socket[c] = "open"
  /\ socket' = [socket EXCEPT ![c] = "failed"]
  /\ UNCHANGED <<pool, inUse, dialled, removing, pc, recv, fwd, conn, results, input>>

ReadFails(c) == socket[c] \in {"failed", "closed"}
\* writeMessage asks the map first.
WriteSucceeds(c) == c \in pool
WriteFails(c) == c \notin pool \/ socket[c] = "failed"

Idle == pool \ inUse
Failed == {c \in Idle : socket[c] = "failed"}

\* The entry is deleted, the connection stays open.
Forget(c) ==
  /\ pool' = pool \ {c}
  /\ inUse' = inUse \ {c}
  /\ UNCHANGED socket

\* The connection is closed and deleted from the map, unless another has done that.
Drop(c) ==
  /\ pool' = pool \ {c}
  /\ inUse' = inUse \ {c}
  /\ socket' = IF c \in pool THEN [socket EXCEPT ![c] = "closed"] ELSE socket

RemoveConnection(c) ==
  /\ c \in removing
  /\ Drop(c)
  /\ removing' = removing \ {c}
  /\ UNCHANGED <<dialled, pc, recv, fwd, conn, results, input>>

CleanupConnection(c) ==
  /\ c \in Idle
  /\ Drop(c)
  /\ UNCHANGED <<dialled, removing, pc, recv, fwd, conn, results, input>>

Start(s) ==
  /\ pc[s] = "idle"
  /\ Goto(s, "get")
  /\ UNCHANGED <<poolVars, recv, fwd, conn, results, input>>

Got(s, c) ==
  /\ conn' = [conn EXCEPT ![s] = c]
  /\ Goto(s, IF s \in Streams THEN "first" ELSE "send")

\* An idle connection answers the ping; those that were tried before it did not.
Reuse(s) ==
  /\ pc[s] = "get"
  /\ \E c \in Idle, tried \in SUBSET Failed :
       /\ c \notin tried
       /\ inUse' = inUse \cup {c}
       /\ removing' = removing \cup tried
       /\ Got(s, c)
  /\ UNCHANGED <<pool, socket, dialled, recv, fwd, results, input>>

Dial(s) ==
  /\ pc[s] = "get" /\ Idle = Failed
  /\ Cardinality(pool) < MaxConnections /\ dialled < MaxConns
  /\ LET c == dialled + 1 IN
       /\ dialled' = c
       /\ socket' = [socket EXCEPT ![c] = "open"]
       /\ pool' = pool \cup {c}
       /\ inUse' = inUse \cup {c}
       /\ Got(s, c)
  /\ removing' = removing \cup Failed
  /\ UNCHANGED <<recv, fwd, results, input>>

\* The pool is full, connections that have failed included, or the service is away.
GetFails(s) ==
  /\ pc[s] = "get" /\ Idle = Failed
  /\ removing' = removing \cup Failed
  /\ Goto(s, "done")
  /\ UNCHANGED <<pool, inUse, socket, dialled, recv, fwd, conn, results, input>>

\* The entry is free again, if it is still there.
Free(c) == inUse' = inUse \ ({c} \cap pool)

Release(s) ==
  /\ pc[s] = "release"
  /\ Free(conn[s])
  /\ Goto(s, "done")
  /\ UNCHANGED <<pool, socket, dialled, removing, recv, fwd, conn, results, input>>

----------------------------------------------------------------------------
(* StreamingRecognize                                                      *)

FirstMessage(s) ==
  /\ pc[s] = "first"
  /\ \/ /\ WriteSucceeds(conn[s])
        /\ Goto(s, "done")
        /\ Receiver(s, IF s \in cancelled THEN "release" ELSE "read")
        /\ Forwarder(s, "wait")
     \/ /\ WriteFails(conn[s])
        /\ Goto(s, "release")
        /\ UNCHANGED <<recv, fwd>>
  /\ UNCHANGED <<poolVars, conn, results, input>>

----------------------------------------------------------------------------
(* recvResult. The context is looked at before each ReadMessage, not during it. *)

ReadResult(s) ==
  /\ recv[s] = "read" /\ socket[conn[s]] = "open"
  /\ \E step \in {"partial", "final"} : Receiver(s, step)
  /\ UNCHANGED <<poolVars, pc, fwd, conn, results, input>>

\* A message that cannot be parsed
ReadOther(s) ==
  /\ recv[s] = "read" /\ socket[conn[s]] = "open" /\ s \in cancelled
  /\ Receiver(s, "release")
  /\ UNCHANGED <<poolVars, pc, fwd, conn, results, input>>

ReadError(s) ==
  /\ recv[s] = "read" /\ ReadFails(conn[s])
  /\ Receiver(s, "release")
  /\ UNCHANGED <<poolVars, pc, fwd, conn, results, input>>

SendResult(s) ==
  /\ recv[s] \in {"partial", "final"} /\ results[s] < ResultCap
  /\ results' = [results EXCEPT ![s] = @ + 1]
  /\ Receiver(s, IF recv[s] = "final" \/ s \in cancelled THEN "release" ELSE "read")
  /\ UNCHANGED <<poolVars, pc, fwd, conn, input>>

SendCancelled(s) ==
  /\ recv[s] \in {"partial", "final"} /\ s \in cancelled
  /\ Receiver(s, "release")
  /\ UNCHANGED <<poolVars, pc, fwd, conn, results, input>>

\* The deferred function: resultChan is closed, then the connection is free.
ReleaseConnection(s) ==
  /\ recv[s] = "release"
  /\ Free(conn[s])
  /\ Receiver(s, "done")
  /\ UNCHANGED <<pool, socket, dialled, removing, pc, fwd, conn, results, input>>

RecvResult(s) ==
  \/ ReadResult(s) \/ ReadOther(s) \/ ReadError(s) \/ SendResult(s) \/ SendCancelled(s)
  \/ ReleaseConnection(s)

----------------------------------------------------------------------------
(* forwardStreamAudio                                                      *)

\* A chunk of audio is taken and cannot be written; one that can changes nothing here.
ForwardChunk(s) ==
  /\ fwd[s] = "wait" /\ WriteFails(conn[s])
  /\ Forwarder(s, "done")
  /\ UNCHANGED <<poolVars, pc, recv, conn, results, input>>

EndInput(s) ==
  /\ fwd[s] = "wait" /\ (s \in cancelled \/ s \in closed)
  /\ Forwarder(s, "end")
  /\ UNCHANGED <<poolVars, pc, recv, conn, results, input>>

\* The forwarder gives the connection back when the input has ended.
ReleaseAtEnd(s) ==
  /\ fwd[s] = "end"
  /\ Forwarder(s, "done")
  /\ Free(conn[s])
  /\ UNCHANGED <<pool, socket, dialled, removing, pc, recv, conn, results, input>>

\* Whether the end message can be written or not, the goroutine ends.
SendEndMsg(s) ==
  /\ fwd[s] = "end"
  /\ Forwarder(s, "done")
  /\ UNCHANGED <<poolVars, pc, recv, conn, results, input>>

ForwardStreamAudio(s) == ForwardChunk(s) \/ EndInput(s) \/ SendEndMsg(s)

----------------------------------------------------------------------------
(* Process                                                                 *)

\* The first message, the chunks and the end are written; then the read deadline is set.
ProcessSend(b) ==
  /\ pc[b] = "send"
  /\ \/ /\ WriteSucceeds(conn[b])
        /\ Goto(b, "read")
     \/ /\ WriteFails(conn[b])
        /\ Goto(b, "release")
  /\ UNCHANGED <<poolVars, recv, fwd, conn, results, input>>

\* The final result
ProcessResult(b) ==
  /\ pc[b] = "read" /\ socket[conn[b]] = "open"
  /\ Goto(b, "release")
  /\ UNCHANGED <<poolVars, recv, fwd, conn, results, input>>

ProcessError(b) ==
  /\ pc[b] = "read" /\ ReadFails(conn[b])
  /\ Goto(b, "remove")
  /\ UNCHANGED <<poolVars, recv, fwd, conn, results, input>>

ProcessRemove(b) ==
  /\ pc[b] = "remove"
  /\ Drop(conn[b])
  /\ Goto(b, "release")
  /\ UNCHANGED <<dialled, removing, recv, fwd, conn, results, input>>

Process(b) == ProcessSend(b) \/ ProcessResult(b) \/ ProcessError(b) \/ ProcessRemove(b)

----------------------------------------------------------------------------
(* The session and the run time                                            *)

TakeResult(s) ==
  /\ results[s] > 0
  /\ results' = [results EXCEPT ![s] = @ - 1]
  /\ UNCHANGED <<poolVars, pc, recv, fwd, conn, input>>

Cancel(s) ==
  /\ s \notin cancelled
  /\ cancelled' = cancelled \cup {s}
  /\ UNCHANGED <<poolVars, pc, recv, fwd, conn, results, closed, crashed>>

CloseAudio(s) ==
  /\ s \notin closed
  /\ closed' = closed \cup {s}
  /\ UNCHANGED <<poolVars, pc, recv, fwd, conn, results, cancelled, crashed>>

\* writeMessage may find another goroutine at the map, for which Go ends the program.
ReadsMap == \/ \E s \in Calls : pc[s] \in {"first", "send"}
            \/ \E s \in Streams : fwd[s] \in {"wait", "end"}
WritesMap == \/ \E s \in Calls : /\ pc[s] = "get" /\ Idle = Failed
                                 /\ Cardinality(pool) < MaxConnections
             \/ Idle # {} \/ removing \cap pool # {}
             \/ \E b \in Batches : pc[b] = "remove" /\ conn[b] \in pool

Fatal ==
  /\ ReadsMap /\ WritesMap
  /\ crashed' = TRUE
  /\ UNCHANGED <<poolVars, pc, recv, fwd, conn, results, cancelled, closed>>

GetConnection(s) == Reuse(s) \/ Dial(s) \/ GetFails(s)

Next ==
  /\ ~crashed
  /\ \/ \E s \in Calls : Start(s) \/ GetConnection(s) \/ Release(s)
     \/ \E s \in Streams :
          \/ FirstMessage(s) \/ RecvResult(s) \/ ForwardStreamAudio(s)
          \/ TakeResult(s) \/ Cancel(s) \/ CloseAudio(s)
     \/ \E b \in Batches : Process(b)
     \/ \E c \in Conns : Fail(c) \/ RemoveConnection(c) \/ CleanupConnection(c)
     \/ Fatal

Spec == Init /\ [][Next]_vars

----------------------------------------------------------------------------
(* Properties                                                              *)

\* The call is between getConnection and the release of the connection.
Holds(s, c) ==
  /\ conn[s] = c
  /\ \/ pc[s] \in {"first", "send", "read", "remove", "release"}
     \/ s \in Streams /\ recv[s] \in {"read", "partial", "final", "release"}

\* No connection is read by two recognitions, and an entry is marked in use exactly as
\* long as a recognition holds it: none is given away early, and none is lost when a
\* recognition fails, is cancelled or ends before its audio does.
OneHolder ==
  /\ \A c \in Conns : \A s, t \in Calls : Holds(s, c) /\ Holds(t, c) => s = t
  /\ \A c \in pool : c \in inUse <=> \E s \in Calls : Holds(s, c)

\* Connections that have not been closed are in the pool, where the cleaner finds them,
\* and there are never more than the configuration allows.
AllAccountedFor ==
  /\ Cardinality(pool) <= MaxConnections
  /\ \A c \in Conns : socket[c] \in {"open", "failed"} <=> c \in pool
=============================================================================
