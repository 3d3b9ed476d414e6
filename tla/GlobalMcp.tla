----------------------------- MODULE GlobalMcp -----------------------------
(***************************************************************************)
(* The connection of the global MCP manager to a server, and the tools it  *)
(* offers (domain/mcp/manage.go). The manager keeps nothing that two       *)
(* servers share but the table of tools, so that one server is enough.     *)
(*                                                                         *)
(* The monitor connects, checks and reconnects; the checks it starts and   *)
(* the calls of tools are goroutines of their own, and a call reconnects   *)
(* as well. conn.client is read without conn.mu: a goroutine that finds    *)
(* nil ends the program. What the server answers may be anything.          *)
(***************************************************************************)
EXTENDS Naturals

CONSTANTS
  Monitor,      \* the goroutine of Start and monitorConnections
  Checks,       \* health checks and pings under way
  Callers,      \* calls of a tool (InvokableRun)
  Lists,        \* what ListTools may answer
  MaxAttempts,  \* reconnectConf.MaxAttempts
  MaxClients,   \* bound: clients that are made
  None

VARIABLES
  registered,  \* the connection is in g.servers
  client,      \* conn.client, 0 for nil
  made,        \* number of clients
  connected, retryCount,
  connTools,   \* conn.tools: a list, and the client that its tools call
  globalTools, \* those of the server in g.tools
  connMu,      \* the goroutine that holds conn.mu
  step,        \* per goroutine
  listed,      \* per goroutine: what ListTools has answered
  crashed

conn == <<registered, client, made, connected, retryCount, connTools, connMu>>
vars == <<conn, globalTools, step, listed, crashed>>

Goroutines == {Monitor} \cup Checks \cup Callers
Clients == 1 .. MaxClients
Tools == [list : Lists, client : Clients \cup {0}]
Steps == {"idle", "disconnect", "create", "new", "start", "init", "list", "lock", "update",
          "finish", "ping", "probe", "mark", "again", "done"}

TypeOK ==
  /\ registered \in BOOLEAN /\ connected \in BOOLEAN /\ crashed \in BOOLEAN
  /\ client \in Clients \cup {0} /\ made \in Clients \cup {0}
  /\ retryCount \in 0 .. MaxAttempts
  /\ connTools \in Tools \cup {None} /\ globalTools \in Tools \cup {None}
  /\ connMu \in Goroutines \cup {None}
  /\ step \in [Goroutines -> Steps]
  /\ listed \in [Goroutines -> Lists \cup {None}]

\* Start has called connectToServer.
Init ==
  /\ registered = FALSE /\ connected = FALSE /\ crashed = FALSE
  /\ client = 0 /\ made = 0 /\ retryCount = 0
  /\ connTools = None /\ globalTools = None /\ connMu = None
  /\ step = [g \in Goroutines |-> IF g = Monitor THEN "new" ELSE "idle"]
  /\ listed = [g \in Goroutines |-> None]

Goto(g, next) == step' = [step EXCEPT ![g] = next]
Return(g) == Goto(g, IF g \in Callers THEN "done" ELSE "idle")

----------------------------------------------------------------------------
(* reconnectServer: disconnect, wait a second, connect                     *)

\* The tools stay in g.tools and call a client that is closed.
Disconnect(g) ==
  /\ step[g] = "disconnect" /\ connMu = None
  /\ client' = 0 /\ connected' = FALSE /\ connTools' = None
  /\ Goto(g, "create")
  /\ UNCHANGED <<registered, made, retryCount, connMu, globalTools, listed, crashed>>

\* connect makes a client when there is none; between the test, without a lock, and the
\* assignment another may have made one, which is then lost.
NeedsClient(g) ==
  /\ step[g] = "create"
  /\ Goto(g, IF client = 0 THEN "new" ELSE "start")
  /\ UNCHANGED <<conn, globalTools, listed, crashed>>

NewClient(g) ==
  /\ step[g] = "new"
  /\ made < MaxClients /\ made' = made + 1 /\ client' = made + 1
  /\ Goto(g, "start")
  /\ UNCHANGED <<registered, connected, retryCount, connTools, connMu, globalTools, listed,
                 crashed>>

\* Start or Initialize fails, and with it connect.
ConnectFails(g) ==
  /\ step[g] \in {"start", "init"} /\ client # 0
  /\ IF g = Monitor /\ ~registered THEN Goto(g, "done") ELSE Return(g)
  /\ UNCHANGED <<conn, globalTools, listed, crashed>>

StartClient(g) ==
  /\ step[g] = "start" /\ client # 0
  /\ Goto(g, "init")
  /\ UNCHANGED <<conn, globalTools, listed, crashed>>

Initialize(g) ==
  /\ step[g] = "init" /\ client # 0
  /\ Goto(g, "list")
  /\ UNCHANGED <<conn, globalTools, listed, crashed>>

\* The first connection enters g.servers when it is made; a call is made again.
Finish(g) ==
  /\ step[g] = "finish" /\ connMu = None
  /\ connected' = TRUE /\ retryCount' = 0
  /\ registered' = TRUE
  /\ Goto(g, IF g \in Callers THEN "again" ELSE "idle")
  /\ UNCHANGED <<client, made, connTools, connMu, globalTools, listed, crashed>>

\* The tool, which both tables point to, is called again with the new client; the
\* model keeps of a tool the client it was listed with.
CallAgain(c) ==
  /\ step[c] = "again" /\ client # 0
  /\ Goto(c, "done")
  /\ UNCHANGED <<conn, globalTools, listed, crashed>>

----------------------------------------------------------------------------
(* refreshTools                                                            *)

ListTools(g) ==
  /\ step[g] = "list" /\ client # 0
  /\ \E l \in Lists : listed' = [listed EXCEPT ![g] = l]
  /\ Goto(g, "lock")
  /\ UNCHANGED <<conn, globalTools, crashed>>

\* A check notes that the session is closed, and nothing else; connect goes on.
ListFails(g) ==
  /\ step[g] = "list" /\ client # 0
  /\ IF g \in Checks THEN \E next \in {"mark", "idle"} : Goto(g, next) ELSE Goto(g, "finish")
  /\ UNCHANGED <<conn, globalTools, listed, crashed>>

\* The lock is given back before the global table is brought up to date.
SetToolsUnlocked(g) ==
  /\ step[g] = "lock" /\ connMu = None
  /\ connTools' = [list |-> listed[g], client |-> client]
  /\ Goto(g, "update")
  /\ UNCHANGED <<registered, client, made, connected, retryCount, connMu, globalTools, listed,
                 crashed>>

SetTools(g) ==
  /\ step[g] = "lock" /\ connMu = None
  /\ connMu' = g
  /\ connTools' = [list |-> listed[g], client |-> client]
  /\ Goto(g, "update")
  /\ UNCHANGED <<registered, client, made, connected, retryCount, globalTools, listed, crashed>>

\* updateGlobalTools, with conn.mu held
UpdateGlobalTools(g) ==
  /\ step[g] = "update"
  /\ globalTools' = connTools
  /\ connMu' = None
  /\ listed' = [listed EXCEPT ![g] = None]
  /\ Goto(g, IF g \in Checks THEN "idle" ELSE "finish")
  /\ UNCHANGED <<registered, client, made, connected, retryCount, connTools, crashed>>

----------------------------------------------------------------------------
(* monitorConnections, and the goroutines it starts                        *)

CheckAndReconnect ==
  /\ step[Monitor] = "idle" /\ registered
  /\ ~connected /\ retryCount < MaxAttempts
  /\ retryCount' = retryCount + 1
  /\ Goto(Monitor, "disconnect")
  /\ UNCHANGED <<registered, client, made, connected, connTools, connMu, globalTools, listed,
                 crashed>>

StartCheck(c) ==
  /\ step[Monitor] = "idle" /\ registered /\ step[c] = "idle"
  /\ \E next \in {"list", "ping"} : Goto(c, next)
  /\ UNCHANGED <<conn, globalTools, listed, crashed>>

\* The field is tested, and read again for the call.
Ping(c) ==
  /\ step[c] = "ping"
  /\ Goto(c, IF client = 0 THEN "idle" ELSE "probe")
  /\ UNCHANGED <<conn, globalTools, listed, crashed>>

PingReturns(c) ==
  /\ step[c] = "probe" /\ client # 0
  /\ \E next \in {"mark", "idle"} : Goto(c, next)
  /\ UNCHANGED <<conn, globalTools, listed, crashed>>

MarkClosed(c) ==
  /\ step[c] = "mark" /\ connMu = None
  /\ connected' = FALSE
  /\ Goto(c, "idle")
  /\ UNCHANGED <<registered, client, made, retryCount, connTools, connMu, globalTools, listed,
                 crashed>>

----------------------------------------------------------------------------
(* InvokableRun                                                            *)

\* A tool that has no client, or a call that succeeds or fails, has no effect here. When
\* the session is closed, the server is connected again.
InvokeTool(c) ==
  /\ step[c] = "idle" /\ globalTools # None
  /\ \/ Goto(c, "done")
     \/ globalTools.client # 0 /\ registered /\ Goto(c, "disconnect")
  /\ UNCHANGED <<conn, globalTools, listed, crashed>>

\* A method is called on conn.client, which is nil.
NilClient(g) ==
  /\ step[g] \in {"start", "init", "list", "probe", "again"} /\ client = 0
  /\ crashed' = TRUE
  /\ UNCHANGED <<conn, globalTools, step, listed>>

----------------------------------------------------------------------------

Next ==
  /\ ~crashed
  /\ \/ \E g \in Goroutines :
          \/ Disconnect(g) \/ NeedsClient(g) \/ NewClient(g) \/ ConnectFails(g)
          \/ StartClient(g) \/ Initialize(g) \/ Finish(g) \/ ListTools(g) \/ ListFails(g) \/ SetTools(g)
          \/ UpdateGlobalTools(g) \/ NilClient(g)
     \/ CheckAndReconnect
     \/ \E c \in Checks : StartCheck(c) \/ Ping(c) \/ PingReturns(c) \/ MarkClosed(c)
     \/ \E c \in Callers : InvokeTool(c) \/ CallAgain(c)

Spec == Init /\ [][Next]_vars

----------------------------------------------------------------------------
(* Properties                                                              *)

\* The table that the dialogues read and the one of the connection agree whenever no
\* refresh is between the two, however refreshes, reconnections and calls overlap; a
\* connection that has been closed may have lost its own.
TablesAgree == connMu = None /\ connTools # None => globalTools = connTools

----------------------------------------------------------------------------
(* The inductive invariant                                                 *)

\* The global table is brought up to date by whoever holds conn.mu, one at a time.
OneUpdates == \A g \in Goroutines : connMu = g <=> step[g] = "update"

\* What is entered into the tables has been listed.
Answered == \A g \in Goroutines : step[g] \in {"lock", "update"} => listed[g] # None

IInv == TypeOK /\ OneUpdates /\ Answered /\ TablesAgree
=============================================================================
