----------------------------- MODULE Connections -----------------------------
(***************************************************************************)
(* The websocket connections of one device and their chat managers:        *)
(* websocket_conn.go, app.go (OnNewConnection), chat.go, and the registry  *)
(* of managers by device id (manager_registry.go).                         *)
(*                                                                         *)
(* Per connection there are a setup (OnNewConnection), a reader goroutine  *)
(* that runs from before the setup, the session's command loop, a worker   *)
(* that may end the session, and a replacer: the goroutine in which        *)
(* RegisterChatManager closes a manager that is already there.             *)
(*                                                                         *)
(* Connections are numbered in the order in which the server accepts them. *)
(***************************************************************************)
EXTENDS Naturals, Sequences

CONSTANTS
  MaxConns,  \* bound: connections of the device in a behaviour
  Enders     \* bound: the connections whose worker may end the session

Conns == 1 .. MaxConns

ASSUME BoundAssumption == MaxConns \in Nat
ASSUME EndersAssumption == Enders \subseteq Conns

Goroutines == {"reader", "replacer", "worker"} \X Conns

VARIABLES
  accepted,   \* number of connections accepted
  isClosed,   \* the connections whose isClosed is set, their channels closed
  locked,     \* the connections whose lock is held, by a Close
  callbacks,  \* per connection: the length of onCloseCbList
  setup,      \* per connection: the progress of OnNewConnection
  reader,     \* per connection: the step of the reader
  loop,       \* per connection: the step of CmdMessageLoop
  calls,      \* per goroutine: the calls that it still has to make
  registry,   \* the device's manager in the registry, 0 for none
  cancelled,  \* the managers whose ctx is cancelled
  exited,     \* history: the sessions whose exit_chat has returned
  missed,     \* history: the connections that went before OnClose was there
  closes      \* history, per connection: how often the channels were closed

connVars == <<accepted, isClosed, locked, callbacks>>
steps == <<setup, reader, loop>>
ghosts == <<exited, missed, closes>>
vars == <<connVars, steps, calls, registry, cancelled, ghosts>>

SetupSteps == {"none", "accepted", "register", "hook", "started", "failed"}
ReaderSteps == {"off", "read", "notify", "done", "panicked"}
LoopSteps == {"off", "recv", "exit"}

\* A call of a method of the connection `on` or of its manager
CallType ==
  [name : {"cancel", "close", "unlock", "onClose", "unregister", "lookup", "exited"},
   on : Conns]
The(name, c) == [name |-> name, on |-> c]

TypeOK ==
  /\ accepted \in 0 .. MaxConns
  /\ isClosed \subseteq Conns
  /\ locked \subseteq Conns
  /\ callbacks \in [Conns -> 0 .. 2]
  /\ setup \in [Conns -> SetupSteps]
  /\ reader \in [Conns -> ReaderSteps]
  /\ loop \in [Conns -> LoopSteps]
  /\ calls \in [Goroutines -> Seq(CallType)]
  /\ registry \in 0 .. MaxConns
  /\ cancelled \subseteq Conns
  /\ exited \subseteq Conns
  /\ missed \subseteq Conns
  /\ closes \in [Conns -> Nat]

Init ==
  /\ accepted = 0
  /\ isClosed = {} /\ locked = {}
  /\ callbacks = [c \in Conns |-> 0]
  /\ setup = [c \in Conns |-> "none"]
  /\ reader = [c \in Conns |-> "off"]
  /\ loop = [c \in Conns |-> "off"]
  /\ calls = [g \in Goroutines |-> <<>>]
  /\ registry = 0
  /\ cancelled = {}
  /\ exited = {} /\ missed = {}
  /\ closes = [c \in Conns |-> 0]

----------------------------------------------------------------------------
(* Calls that several goroutines make.  The critical sections of the       *)
(* registry's mutex are single steps; the lock of a connection is held by  *)
(* Close while it runs the callbacks.                                      *)

\* ChatManager.Close
ManagerClose(c) == <<The("cancel", c), The("close", c)>>

\* Mutant: what OnNewConnection adds closes the connection.
CallbacksClose(c) ==
  CASE callbacks[c] = 0 -> <<>>
    [] callbacks[c] = 1 -> <<The("onClose", c)>>
    [] callbacks[c] = 2 -> <<The("onClose", c), The("close", c)>>

\* The functions in onCloseCbList: OnClose, and what OnNewConnection adds.
RunCallbacks(c) ==
  CASE callbacks[c] = 0 -> <<>>
    [] callbacks[c] = 1 -> <<The("onClose", c)>>
    [] callbacks[c] = 2 -> <<The("onClose", c), The("unregister", c)>>

\* The next call of g is name on c; after it g makes the calls in rest.
Call(g, name, c, rest) ==
  /\ calls[g] # <<>>
  /\ Head(calls[g]) = The(name, c)
  /\ calls' = [calls EXCEPT ![g] = rest \o Tail(@)]

Cancel(g, c) ==
  /\ Call(g, "cancel", c, <<>>)
  /\ cancelled' = cancelled \cup {c}
  /\ UNCHANGED <<connVars, steps, registry, ghosts>>

\* UnregisterChatManager goes by the device id, whoever is registered under it.
Unregister(g, c) ==
  /\ Call(g, "unregister", c, <<>>)
  /\ registry' = 0
  /\ UNCHANGED <<connVars, steps, cancelled, ghosts>>

\* ChatManager.OnClose, which also removes the device's MCP client (no part of
\* this module).  Nothing in it waits, and to cancel is not seen by the registry.
OnClose(g, c) ==
  /\ Call(g, "onClose", c, <<>>)
  /\ registry' = 0
  /\ cancelled' = cancelled \cup {c}
  /\ UNCHANGED <<connVars, steps, ghosts>>

\* Mutant: Close does not look whether it has been done.
CloseUnchecked(g, c) ==
  /\ c \notin locked
  /\ Call(g, "close", c, RunCallbacks(c) \o <<The("unlock", c)>>)
  /\ locked' = locked \cup {c}
  /\ isClosed' = isClosed \cup {c}
  /\ closes' = [closes EXCEPT ![c] = @ + 1]
  /\ UNCHANGED <<accepted, callbacks, steps, registry, cancelled, exited, missed>>

\* WebSocketConn.Close up to the callbacks, which it runs under its lock.
Close(g, c) ==
  /\ c \notin locked
  /\ \/ /\ c \in isClosed
        /\ Call(g, "close", c, <<>>)
        /\ UNCHANGED <<locked, isClosed, closes>>
     \/ /\ c \notin isClosed
        /\ Call(g, "close", c, RunCallbacks(c) \o <<The("unlock", c)>>)
        /\ locked' = locked \cup {c}
        /\ isClosed' = isClosed \cup {c}
        /\ closes' = [closes EXCEPT ![c] = @ + 1]
  /\ UNCHANGED <<accepted, callbacks, steps, registry, cancelled, exited, missed>>

Unlock(g, c) ==
  /\ Call(g, "unlock", c, <<>>)
  /\ locked' = locked \ {c}
  /\ UNCHANGED <<accepted, isClosed, callbacks, steps, registry, cancelled, ghosts>>

\* CloseChatManager: finding nobody is no error.
Lookup(g, c) ==
  /\ Call(g, "lookup", c, IF registry = 0 THEN <<>> ELSE ManagerClose(registry))
  /\ UNCHANGED <<connVars, steps, registry, cancelled, ghosts>>

\* The exit_chat tool answers that the dialogue has ended.
ExitReturns(g, c) ==
  /\ Call(g, "exited", c, <<>>)
  /\ exited' = exited \cup {c}
  /\ UNCHANGED <<connVars, steps, registry, cancelled, missed, closes>>

MakeCall(g) ==
  \E c \in Conns :
    \/ Cancel(g, c) \/ Unregister(g, c) \/ OnClose(g, c) \/ Close(g, c) \/ Unlock(g, c)
    \/ Lookup(g, c) \/ ExitReturns(g, c)

----------------------------------------------------------------------------
(* The setup                                                               *)

Setup(c, from, to) ==
  /\ setup[c] = from
  /\ setup' = [setup EXCEPT ![c] = to]

\* internalHandleChat and NewWebSocketConn, which starts the reader.
Accept(c) ==
  /\ c = accepted + 1
  /\ accepted' = c
  /\ Setup(c, "none", "accepted")
  /\ reader' = [reader EXCEPT ![c] = "read"]
  /\ UNCHANGED <<isClosed, locked, callbacks, loop, calls, registry, cancelled, ghosts>>

\* WebSocketConn.OnClose
AddCallback(c) == callbacks' = [callbacks EXCEPT ![c] = @ + 1]

\* NewChatManager asks to be told of the end of the connection.  When it cannot
\* read the device's configuration it fails; the connection stays open.
NewChatManager(c) ==
  /\ \E to \in {"register", "failed"} : Setup(c, "accepted", to)
  /\ AddCallback(c)
  /\ UNCHANGED <<accepted, isClosed, locked, reader, loop, calls, registry, cancelled,
                 ghosts>>

\* RegisterChatManager
Register(c) ==
  /\ Setup(c, "register", "hook")
  /\ registry' = c
  /\ calls' = IF registry = 0 THEN calls
              ELSE [calls EXCEPT ![<<"replacer", registry>>] = ManagerClose(registry)]
  /\ UNCHANGED <<connVars, reader, loop, cancelled, ghosts>>

\* The second callback, then ChatSession.Start, whose failure nobody learns of.
Start(c) ==
  /\ \/ Setup(c, "hook", "started") /\ loop' = [loop EXCEPT ![c] = "recv"]
     \/ Setup(c, "hook", "failed") /\ UNCHANGED loop
  /\ AddCallback(c)
  /\ UNCHANGED <<accepted, isClosed, locked, reader, calls, registry, cancelled, ghosts>>

OnNewConnection(c) == NewChatManager(c) \/ Register(c) \/ Start(c)

----------------------------------------------------------------------------
(* The reader                                                              *)

Reader(c, from, to) ==
  /\ reader[c] = from
  /\ reader' = [reader EXCEPT ![c] = to]

\* The reader has read a message when Close comes; a send on a closed channel
\* panics.  (On an open connection the message goes into the channel, or is
\* dropped when that is full.)
ReaderPanics(c) ==
  /\ c \in isClosed
  /\ Reader(c, "read", "panicked")
  /\ UNCHANGED <<connVars, setup, loop, calls, registry, cancelled, ghosts>>

\* <-instance.ctx.Done()
ReaderEnds(c) ==
  /\ c \in isClosed
  /\ Reader(c, "read", "done")
  /\ UNCHANGED <<connVars, setup, loop, calls, registry, cancelled, ghosts>>

\* Mutant: a connection that breaks is not announced.
ReadErrorUnannounced(c) ==
  /\ Reader(c, "read", "notify")
  /\ UNCHANGED <<connVars, setup, loop, calls, registry, cancelled, ghosts>>

\* ReadMessage fails: the device has gone, it sent nothing for 120 s, or Close
\* came first.  The reader runs the callbacks that are there, without the lock,
\* and closes nothing.
ReadError(c) ==
  /\ Reader(c, "read", "notify")
  /\ calls' = [calls EXCEPT ![<<"reader", c>>] = RunCallbacks(c)]
  /\ missed' = IF callbacks[c] = 0 THEN missed \cup {c} ELSE missed
  /\ UNCHANGED <<connVars, setup, loop, registry, cancelled, exited, closes>>

----------------------------------------------------------------------------
(* The session: its command loop (the audio loop differs in its timeout)   *)
(* and the ways in which its worker ends it                                *)

Loop(c, from, to) ==
  /\ loop[c] = from
  /\ loop' = [loop EXCEPT ![c] = to]

\* RecvCmd returns a message, or nil from a closed channel, which is no error.
\* The loop handles what it got and then looks at its context.
RecvCmd(c) ==
  /\ Loop(c, "recv", IF c \in cancelled THEN "exit" ELSE "recv")
  /\ UNCHANGED <<connVars, setup, reader, calls, registry, cancelled, ghosts>>

\* Mutant: RecvCmd waits without a timeout.
RecvForever(c) ==
  /\ c \notin isClosed
  /\ Loop(c, "recv", "recv")
  /\ UNCHANGED <<connVars, setup, reader, calls, registry, cancelled, ghosts>>

\* 120 s without a message end the loop.
RecvTimeout(c) ==
  /\ c \notin isClosed
  /\ Loop(c, "recv", "exit")
  /\ UNCHANGED <<connVars, setup, reader, calls, registry, cancelled, ghosts>>

CmdMessageLoop(c) == RecvCmd(c) \/ RecvTimeout(c)

\* A worker that is not on its way out ends the session: the LLM calls the tool
\* exit_chat; the user says "exit", or the recognition fails for good.
EndSession(c) ==
  /\ c \in Enders
  /\ setup[c] = "started"
  /\ c \notin cancelled /\ c \notin exited
  /\ calls[<<"worker", c>>] = <<>>
  /\ \E ending \in {<<The("lookup", c), The("exited", c)>>, <<The("close", c)>>} :
       calls' = [calls EXCEPT ![<<"worker", c>>] = ending]
  /\ UNCHANGED <<connVars, steps, registry, cancelled, ghosts>>

----------------------------------------------------------------------------

\* A panic in a goroutine without recover ends the process.
Running == \A c \in Conns : reader[c] # "panicked"

Next ==
  /\ Running
  /\ \/ \E g \in Goroutines : MakeCall(g)
     \/ \E c \in Conns :
          \/ Accept(c) \/ OnNewConnection(c)
          \/ ReaderPanics(c) \/ ReaderEnds(c) \/ ReadError(c)
          \/ CmdMessageLoop(c) \/ EndSession(c)

Spec == Init /\ [][Next]_vars

\* Every goroutine that can go on does.  A loop that waits gets its message, its
\* nil, or in the end its timeout.  (No goroutine goes on for ever here, so it is
\* enough to be fair to all of a kind together.)
Fairness ==
  /\ WF_vars(Running /\ \E g \in Goroutines : MakeCall(g))
  /\ WF_vars(Running /\ \E c \in Conns : OnNewConnection(c))
  /\ WF_vars(Running /\ \E c \in Conns : (c \in isClosed /\ RecvCmd(c)) \/ RecvTimeout(c))

FairSpec == Spec /\ Fairness

----------------------------------------------------------------------------
(* Properties                                                              *)

\* The channels of a connection are closed at most once, however many of
\* exit_chat, a failing recognition and a new connection close it at a time.
ClosedOnce == \A c \in Conns : closes[c] <= 1

\* A goroutine that holds the lock of a connection is on its way to give it back
\* and never asks for that lock or another's: whatever the callbacks do under the
\* lock, nobody waits in Close for ever.
HolderNeverWaits ==
  \A c \in locked : \E g \in Goroutines : \E k \in 1 .. Len(calls[g]) :
    /\ calls[g][k] = The("unlock", c)
    /\ \A j \in 1 .. k : calls[g][j].name # "close"

\* A connection that ends, closed by whichever side, takes its manager with it,
\* unless it went before the manager could ask to be told.
ManagerEndsWithConnection ==
  \A c \in Conns :
    c \in isClosed \/ reader[c] = "notify" ~> c \in cancelled \cup missed \/ ~Running

\* The command loop of a cancelled manager ends, also when the end of the
\* connection did not close the channel it reads.
CancelledLoopEnds ==
  \A c \in Conns : c \in cancelled /\ loop[c] # "off" ~> loop[c] = "exit" \/ ~Running

\* "The session has ended" when exit_chat returns.  The code does not keep this:
\* the end of an older connection has removed the manager from the registry.
ExitEndsTheSession == exited \subseteq cancelled
=============================================================================
