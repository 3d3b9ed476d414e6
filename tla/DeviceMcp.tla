----------------------------- MODULE DeviceMcp -----------------------------
(***************************************************************************)
(* The MCP sessions of a device (domain/mcp/device_manager.go), as the two *)
(* entry points make them: the MCP websocket (server/websocket/mcp.go) and *)
(* a hello with the feature mcp (chat/mcp.go). Nothing in mcpClientPool is *)
(* shared between devices, so that one device is enough.                   *)
(*                                                                         *)
(* A handler is one call of an entry point, and the link it makes. A       *)
(* session and every handler run a loop that asks the links in turn. The   *)
(* checker looks for links that have been quiet for two minutes, and       *)
(* whoever ends a session does so by the id of the device.                 *)
(***************************************************************************)
EXTENDS Naturals, FiniteSets

CONSTANTS
  WsHandlers,   \* connections to the MCP websocket
  IotHandlers,  \* hellos of a device that speaks MCP over its own connection
  Closers,      \* connections of the device that end (ChatManager.OnClose)
  Checker,      \* the goroutine of checkOffline
  MaxSessions,  \* bound: sessions that are made
  None

Handlers == WsHandlers \cup IotHandlers
Removers == WsHandlers \cup Closers \cup {Checker}
Actors == Handlers \cup Removers
Sessions == 1 .. MaxSessions

VARIABLES
  device2McpClient, \* the session in the pool
  made,             \* number of sessions
  cancelled,        \* the sessions whose context is cancelled
  link,             \* per session: wsEndPointMcp and iotOverMcp
  device,           \* per handler: whether the other end answers
  stale,            \* the handlers whose lastPing is two minutes old
  off,              \* those that are marked as not connected and cancelled
  step,             \* per actor
  mine,             \* per handler: its mcpClientSession
  target,           \* per remover: the session it has found
  loop,             \* per handler: its refreshToolsAndPing, or the link it waits for
  firstLoop         \* the same of a session, which NewDeviceMCPSession starts

sessions == <<device2McpClient, made, cancelled, link>>
links == <<device, stale, off>>
loops == <<loop, firstLoop>>
vars == <<sessions, links, step, mine, target, loops>>

LoopStates == {"off", "rest"} \cup WsHandlers

TypeOK ==
  /\ device2McpClient \in Sessions \cup {None} /\ made \in Sessions \cup {0}
  /\ cancelled \subseteq Sessions
  /\ link \in [Sessions -> [ws : WsHandlers \cup {None}, iot : IotHandlers \cup {None}]]
  /\ device \in [Handlers -> {"answers", "silent", "broken"}]
  /\ stale \subseteq Handlers /\ off \subseteq Handlers
  /\ step \in [Actors -> {"idle", "new", "client", "loop", "judge", "get", "cancel",
                          "remove", "done"}]
  /\ mine \in [Handlers -> Sessions \cup {None}]
  /\ target \in [Removers -> Sessions \cup {None}]
  /\ loop \in [Handlers -> LoopStates] /\ firstLoop \in [Sessions -> LoopStates]

Init ==
  /\ device2McpClient = None /\ made = 0 /\ cancelled = {}
  /\ link = [s \in Sessions |-> [ws |-> None, iot |-> None]]
  /\ device = [h \in Handlers |-> "answers"]
  /\ stale = {} /\ off = {}
  /\ step = [a \in Actors |-> IF a \in Closers THEN "get" ELSE "idle"]
  /\ mine = [h \in Handlers |-> None]
  /\ target = [r \in Removers |-> None]
  /\ loop = [h \in Handlers |-> "off"]
  /\ firstLoop = [s \in Sessions |-> "off"]

Goto(a, next) == step' = [step EXCEPT ![a] = next]

\* A link of the websocket ends with its session; the other one has its own context.
Usable(h) == h \notin off /\ (h \in WsHandlers => mine[h] \notin cancelled)

\* SendRequest over the websocket waits for the answer without a limit.
Waits(h) == h \in WsHandlers /\ Usable(h) /\ device[h] = "silent"

\* HandleMcpMessage lets an answer through only while a session is in the pool.
Answers(h) ==
  /\ Usable(h) /\ device[h] = "answers"
  /\ h \in IotHandlers => device2McpClient # None

----------------------------------------------------------------------------
(* initMcp and handleMCPWebSocket                                          *)

GetMcpClient(h) ==
  /\ step[h] = "idle"
  /\ mine' = [mine EXCEPT ![h] = device2McpClient]
  /\ Goto(h, IF device2McpClient = None THEN "new" ELSE "client")
  /\ UNCHANGED <<sessions, links, target, loops>>

\* NewDeviceMCPSession and AddMcpClient, whatever the pool has now
AddMcpClient(h) ==
  /\ step[h] = "new" /\ made < MaxSessions
  /\ made' = made + 1
  /\ mine' = [mine EXCEPT ![h] = made + 1]
  /\ firstLoop' = [firstLoop EXCEPT ![made + 1] = "rest"]
  /\ device2McpClient' = made + 1
  /\ Goto(h, "client")
  /\ UNCHANGED <<cancelled, link, links, target, loop>>

\* The link is made, for which sendInitlize may have to wait but need not succeed. The
\* loop runs in the goroutine of the handler.
SetLink(h) ==
  /\ step[h] = "client" /\ ~Waits(h)
  /\ link' = IF h \in WsHandlers THEN [link EXCEPT ![mine[h]].ws = h]
                                 ELSE [link EXCEPT ![mine[h]].iot = h]
  /\ loop' = [loop EXCEPT ![h] = "rest"]
  /\ Goto(h, "loop")
  /\ UNCHANGED <<device2McpClient, made, cancelled, links, mine, target, firstLoop>>

\* After a loop of the websocket the session is removed, whichever it is now.
EndLoop(h) ==
  /\ step[h] = "loop" /\ loop[h] = "rest" /\ mine[h] \in cancelled
  /\ loop' = [loop EXCEPT ![h] = "off"]
  /\ Goto(h, IF h \in WsHandlers THEN "get" ELSE "done")
  /\ UNCHANGED <<sessions, links, mine, target, firstLoop>>

----------------------------------------------------------------------------
(* refreshToolsAndPing                                                     *)

\* A ping that is answered; a refresh of the tools leaves lastPing as it is.
Heard(hs) == \E ping \in BOOLEAN :
               stale' = IF ping THEN stale \ {h \in hs : Answers(h)} ELSE stale

\* The next value of a loop of session s that is at rest, or that has waited: first the
\* websocket is asked, then the device.
Round(s, state, next) ==
  LET w == link[s].ws
      i == link[s].iot
  IN  \/ /\ state = "rest" /\ w # None /\ Waits(w)
         /\ next = w
         /\ UNCHANGED stale
      \/ /\ state = "rest" /\ (w = None \/ ~Waits(w))
         /\ Heard({w, i} \ {None})
         /\ next = "rest"
      \/ /\ state \in WsHandlers /\ device[state] # "silent"
         /\ Heard({i} \ {None})
         /\ next = "rest"

HandlerRound(h) ==
  /\ \E next \in LoopStates :
       Round(mine[h], loop[h], next) /\ loop' = [loop EXCEPT ![h] = next]
  /\ step[h] = "loop"
  /\ UNCHANGED <<sessions, device, off, step, mine, target, firstLoop>>

SessionRound(s) ==
  /\ \E next \in LoopStates :
       Round(s, firstLoop[s], next) /\ firstLoop' = [firstLoop EXCEPT ![s] = next]
  /\ UNCHANGED <<sessions, device, off, step, mine, target, loop>>

EndFirstLoop(s) ==
  /\ firstLoop[s] = "rest" /\ s \in cancelled
  /\ firstLoop' = [firstLoop EXCEPT ![s] = "off"]
  /\ UNCHANGED <<sessions, links, step, mine, target, loop>>

----------------------------------------------------------------------------
(* RemoveMcpClient, which is not atomic                                    *)

FindClient(r) ==
  /\ step[r] = "get"
  /\ target' = [target EXCEPT ![r] = device2McpClient]
  /\ Goto(r, IF device2McpClient = None THEN "remove" ELSE "cancel")
  /\ UNCHANGED <<sessions, links, mine, loops>>

\* A session that is found is cancelled and stays in the pool.
CancelOnly(r) ==
  /\ step[r] = "cancel"
  /\ cancelled' = cancelled \cup {target[r]}
  /\ Goto(r, IF r = Checker THEN "idle" ELSE "done")
  /\ UNCHANGED <<device2McpClient, made, link, links, mine, target, loops>>

CancelClient(r) ==
  /\ step[r] = "cancel"
  /\ cancelled' = cancelled \cup {target[r]}
  /\ Goto(r, "remove")
  /\ UNCHANGED <<device2McpClient, made, link, links, mine, target, loops>>

RemoveClient(r) ==
  /\ step[r] = "remove"
  /\ device2McpClient' = None
  /\ target' = [target EXCEPT ![r] = None]
  /\ Goto(r, IF r = Checker THEN "idle" ELSE "done")
  /\ UNCHANGED <<made, cancelled, link, links, mine, loops>>

RemoveMcpClient(r) == FindClient(r) \/ CancelClient(r) \/ RemoveClient(r)

----------------------------------------------------------------------------
(* checkOffline                                                            *)

LinksOf(s) == {link[s].ws, link[s].iot} \ {None}

\* Links that have been quiet for too long are marked.
Mark ==
  /\ step[Checker] = "idle" /\ device2McpClient # None
  /\ target' = [target EXCEPT ![Checker] = device2McpClient]
  /\ off' = off \cup (LinksOf(device2McpClient) \cap stale)
  /\ Goto(Checker, "judge")
  /\ UNCHANGED <<sessions, device, stale, mine, loops>>

\* A link that the session does not have counts as connected.
JudgeBoth ==
  /\ step[Checker] = "judge"
  /\ IF {link[target[Checker]].ws, link[target[Checker]].iot} \subseteq off
     THEN Goto(Checker, "get") /\ UNCHANGED target
     ELSE Goto(Checker, "idle") /\ target' = [target EXCEPT ![Checker] = None]
  /\ UNCHANGED <<sessions, links, mine, loops>>

\* A session is removed when no link is left; one that has none yet counts as well.
Judge ==
  /\ step[Checker] = "judge"
  /\ IF LinksOf(target[Checker]) \subseteq off
     THEN Goto(Checker, "get") /\ UNCHANGED target
     ELSE Goto(Checker, "idle") /\ target' = [target EXCEPT ![Checker] = None]
  /\ UNCHANGED <<sessions, links, mine, loops>>

----------------------------------------------------------------------------
(* The other ends, and time                                                *)

Silence(h) ==
  /\ device[h] = "answers"
  /\ device' = [device EXCEPT ![h] = "silent"]
  /\ UNCHANGED <<sessions, stale, off, step, mine, target, loops>>

\* The connection is gone: whoever waits for an answer gets an error.
Break(h) ==
  /\ h \in WsHandlers /\ device[h] # "broken"
  /\ device' = [device EXCEPT ![h] = "broken"]
  /\ UNCHANGED <<sessions, stale, off, step, mine, target, loops>>

\* Two minutes without a ping: the loops may be late, or wait for another link. Only of
\* the session in the pool does the checker see the time.
Age(h) ==
  /\ h \notin stale /\ device2McpClient # None /\ h \in LinksOf(device2McpClient)
  /\ stale' = stale \cup {h}
  /\ UNCHANGED <<sessions, device, off, step, mine, target, loops>>

----------------------------------------------------------------------------

Handle(h) ==
  \/ GetMcpClient(h) \/ AddMcpClient(h) \/ SetLink(h)
  \/ HandlerRound(h) \/ EndLoop(h)

CheckOffline == Mark \/ Judge \/ RemoveMcpClient(Checker)

Next ==
  \/ \E h \in Handlers : Handle(h) \/ Silence(h) \/ Break(h) \/ Age(h)
  \/ \E s \in Sessions : SessionRound(s) \/ EndFirstLoop(s)
  \/ \E r \in WsHandlers \cup Closers : RemoveMcpClient(r)
  \/ CheckOffline

Spec == Init /\ [][Next]_vars

\* Time goes by for a link that does not answer, and the checker has its ticker.
Fairness == WF_vars(CheckOffline) /\ \A h \in Handlers : WF_vars(Age(h))

FairSpec == Spec /\ Fairness

----------------------------------------------------------------------------
(* Properties                                                              *)

\* Every link of the session has gone quiet for good.
Quiet(s) == \A h \in LinksOf(s) : device[h] # "answers"

\* A device that does not answer any more does not keep its session, whatever the loops
\* wait for and however often it connects: again and again the pool has no session, or
\* one with a link that answers. What is assumed is that time goes by and that the
\* checker runs; nobody has to tell the server that a connection has ended.
QuietLeaves == \A s \in Sessions : []<>~(device2McpClient = s /\ Quiet(s))

\* A session whose context is cancelled is in the pool only as long as whoever has
\* cancelled it is about to take it out: nobody finds a dead session for good, although
\* looking up, cancelling and removing are three steps and handlers register new sessions
\* between them.
CancelledIsRemoved ==
  device2McpClient \in cancelled =>
    \E r \in Removers : step[r] = "remove" /\ target[r] = device2McpClient

----------------------------------------------------------------------------
(* The inductive invariant                                                 *)

\* Whoever has found a session has found one that was made.
Made ==
  /\ device2McpClient # None => device2McpClient <= made
  /\ \A s \in cancelled : s <= made
  /\ \A r \in Removers : target[r] # None => target[r] <= made

\* A handler has its session before it makes its link; a session that is to be cancelled
\* or judged has been found.
Found ==
  /\ \A h \in Handlers : step[h] \in {"client", "loop"} => mine[h] # None
  /\ \A r \in Removers : step[r] \in {"cancel", "judge"} => target[r] # None

IInv == TypeOK /\ Made /\ Found /\ CancelledIsRemoved
=============================================================================
