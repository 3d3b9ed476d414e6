------------------------------ MODULE MqttUdp ------------------------------
(***************************************************************************)
(* The MQTT and UDP transport: mqtt_udp_adapter.go, mqtt_udp_conn.go,      *)
(* udp_server.go and udp.go, with what app.go and the registry of chat     *)
(* managers do for a connection of this transport.                         *)
(*                                                                         *)
(* Four goroutines meet in the tables of the adapter and the UDP server:   *)
(* processMessage (here the adapter), which sets a connection up when a    *)
(* device without one sends a message; handlePackets (udp), which finds    *)
(* the session of a packet; the ticker of checkClientActive (sweeper),     *)
(* which destroys idle connections; and the goroutines of the session.     *)
(*                                                                         *)
(* A connection and the UDP session made for it have the same number.      *)
(***************************************************************************)
EXTENDS Naturals, Sequences

CONSTANTS
  Devices,
  Addrs,        \* UDP addresses, which devices come to have and others take over
  ConnIds,      \* connection ids, the four random bytes of a nonce
  MsgCap,       \* capacity of msgChan, 10000 in the code
  CmdCap,       \* capacity of recvCmdChan, 100 in the code
  AudioCap,     \* capacity of RecvChannel, 100 in the code
  MaxMessages,  \* bound: MQTT messages in a behaviour
  NoDevice, NoId, NoAddr

ASSUME NoneAssumption ==
  NoDevice \notin Devices /\ NoId \notin ConnIds /\ NoAddr \notin Addrs
ASSUME BoundsAssumption ==
  MsgCap \in Nat /\ CmdCap \in Nat /\ AudioCap \in Nat /\ MaxMessages \in Nat

\* Every message opens at most one connection.
Conns == 1 .. MaxMessages

VARIABLES
  msgChan,     \* the devices whose messages wait in msgChan
  received,    \* number of messages that the broker has delivered
  created,     \* number of connections created
  device,      \* per connection: its DeviceId
  connId,      \* per session: its ConnId
  connOf,      \* deviceId2Conn, 0 for no connection
  callbacks,   \* per connection: the length of onCloseCbList
  active,      \* the connections whose lastActiveTs is younger than 60 s
  cmds,        \* per connection: the messages in recvCmdChan
  byNonce,     \* nonce2Session, 0 for no session
  byAddr,      \* addr2Session, 0 for no session
  remote,      \* per session: its RemoteAddr
  recv,        \* per session: the frames in RecvChannel
  manager,     \* per connection: its chat manager
  registry,    \* the manager in the registry, 0 for none
  replaced,    \* the managers that RegisterChatManager has set out to close
  greeted,     \* the connections whose device knows its key and nonce
  adapter, udp, sweeper,  \* the steps of the three goroutines
  crashed,     \* a send on a closed channel has ended the process
  closes,      \* history, per session: how often its channels were closed
  destroyed,   \* history: the connections that the sweeper has come to
  early,       \* history: those of them that were still being set up
  heard        \* history: the packets that have come

inbox == <<msgChan, received>>
conns == <<created, device, connId>>
session == <<byNonce, byAddr, remote, closes>>
channels == <<cmds, recv>>
chat == <<manager, registry, replaced, greeted>>
steps == <<adapter, udp, sweeper>>
ghosts == <<destroyed, early, heard>>
vars == <<inbox, conns, connOf, callbacks, active, channels, session, chat, steps, crashed,
          ghosts>>

AdapterSteps == {"read", "create", "store", "hook", "new", "register", "start", "push"}
SetupSteps == {"hook", "new", "register", "start"}
UdpSteps == {"read", "nonce", "bind", "store", "deliver"}
SweeperSteps == {"wait", "lookup", "close", "forget", "delete", "onClose", "unregister"}

\* The session with whose key and nonce a packet was made, and where it came from.
Packets == [key : Conns, addr : Addrs]

TypeOK ==
  /\ msgChan \in Seq(Devices) /\ Len(msgChan) <= MsgCap
  /\ received \in 0 .. MaxMessages /\ created \in 0 .. MaxMessages
  /\ device \in [Conns -> Devices \cup {NoDevice}]
  /\ connId \in [Conns -> ConnIds \cup {NoId}]
  /\ connOf \in [Devices -> 0 .. MaxMessages]
  /\ callbacks \in [Conns -> 0 .. 3]
  /\ active \subseteq Conns
  /\ cmds \in [Conns -> 0 .. CmdCap]
  /\ byNonce \in [ConnIds -> 0 .. MaxMessages]
  /\ byAddr \in [Addrs -> 0 .. MaxMessages]
  /\ remote \in [Conns -> Addrs \cup {NoAddr}]
  /\ recv \in [Conns -> 0 .. AudioCap]
  /\ manager \in [Conns -> {"none", "running", "cancelled"}]
  /\ registry \in [Devices -> 0 .. MaxMessages]
  /\ replaced \subseteq Conns /\ greeted \subseteq Conns
  /\ adapter \in [pc : AdapterSteps, device : Devices \cup {NoDevice}, conn : 0 .. MaxMessages]
  /\ udp \in [pc : UdpSteps, addr : Addrs \cup {NoAddr}, key : 0 .. MaxMessages,
              to : 0 .. MaxMessages]
  /\ sweeper \in [pc : SweeperSteps, conn : 0 .. MaxMessages, session : 0 .. MaxMessages,
                  hooks : 0 .. 3]
  /\ crashed \in BOOLEAN
  /\ closes \in [Conns -> Nat]
  /\ destroyed \subseteq Conns /\ early \subseteq Conns /\ heard \subseteq Packets

AdapterWaits == [pc |-> "read", device |-> NoDevice, conn |-> 0]
UdpWaits == [pc |-> "read", addr |-> NoAddr, key |-> 0, to |-> 0]
SweeperWaits == [pc |-> "wait", conn |-> 0, session |-> 0, hooks |-> 0]

Init ==
  /\ msgChan = <<>> /\ received = 0 /\ created = 0
  /\ device = [c \in Conns |-> NoDevice]
  /\ connId = [c \in Conns |-> NoId]
  /\ connOf = [d \in Devices |-> 0]
  /\ callbacks = [c \in Conns |-> 0]
  /\ active = {}
  /\ cmds = [c \in Conns |-> 0]
  /\ byNonce = [n \in ConnIds |-> 0]
  /\ byAddr = [a \in Addrs |-> 0]
  /\ remote = [c \in Conns |-> NoAddr]
  /\ recv = [c \in Conns |-> 0]
  /\ manager = [c \in Conns |-> "none"]
  /\ registry = [d \in Devices |-> 0]
  /\ replaced = {} /\ greeted = {}
  /\ adapter = AdapterWaits /\ udp = UdpWaits /\ sweeper = SweeperWaits
  /\ crashed = FALSE
  /\ closes = [c \in Conns |-> 0]
  /\ destroyed = {} /\ early = {} /\ heard = {}

Closed(s) == closes[s] > 0

\* deviceId2Conn has the connection.
Up(c) == connOf[device[c]] = c

\* lastActiveTs is set.  Nobody reads it when the connection is not in the table.
Touch(c) == active' = IF Up(c) THEN active \cup {c} ELSE active

----------------------------------------------------------------------------
(* The adapter: from the broker to the connection of a device              *)

\* handleMessage: when msgChan is full the message is dropped.
HandleMessage(d) ==
  /\ received < MaxMessages
  /\ received' = received + 1
  /\ msgChan' = IF Len(msgChan) < MsgCap THEN Append(msgChan, d) ELSE msgChan
  /\ UNCHANGED <<conns, connOf, callbacks, active, channels, session, chat, steps,
                 crashed, ghosts>>

Adapter(from, to) ==
  /\ adapter.pc = from
  /\ adapter' = [adapter EXCEPT !.pc = to]

\* The payload is no JSON, or the topic names no device.
BadMessage ==
  /\ adapter.pc = "read" /\ msgChan # <<>>
  /\ msgChan' = Tail(msgChan)
  /\ UNCHANGED <<received, conns, connOf, callbacks, active, channels, session, chat,
                 steps, crashed, ghosts>>

\* processMessage takes a message and looks for the connection of the device.
GetDeviceSession ==
  /\ adapter.pc = "read" /\ msgChan # <<>>
  /\ msgChan' = Tail(msgChan)
  /\ LET d == Head(msgChan) IN
       adapter' = [pc |-> IF connOf[d] = 0 THEN "create" ELSE "push",
                   device |-> d, conn |-> connOf[d]]
  /\ UNCHANGED <<received, conns, connOf, callbacks, active, channels, session, chat,
                 udp, sweeper, crashed, ghosts>>

\* UdpServer.CreateSession and NewMqttUdpConn, whose lastActiveTs is 0.  The id is
\* random and may be that of another session, which nonce2Session then forgets.
CreateSession ==
  LET c == created + 1 IN
  /\ adapter.pc = "create" /\ c \in Conns
  /\ created' = c
  /\ device' = [device EXCEPT ![c] = adapter.device]
  /\ \E n \in ConnIds :
       /\ connId' = [connId EXCEPT ![c] = n]
       /\ byNonce' = [byNonce EXCEPT ![n] = c]
  /\ adapter' = [adapter EXCEPT !.pc = "store", !.conn = c]
  /\ UNCHANGED <<inbox, connOf, callbacks, active, channels, byAddr, remote, closes,
                 chat, udp, sweeper, crashed, ghosts>>

SetDeviceSession ==
  /\ Adapter("store", "hook")
  /\ connOf' = [connOf EXCEPT ![adapter.device] = adapter.conn]
  /\ UNCHANGED <<inbox, conns, callbacks, active, channels, session, chat, udp, sweeper,
                 crashed, ghosts>>

\* MqttUdpConn.OnClose
AddCallback(c) == callbacks' = [callbacks EXCEPT ![c] = @ + 1]

\* deviceSession.OnClose(s.handleDisconnect)
HookDisconnect ==
  /\ Adapter("hook", "new")
  /\ AddCallback(adapter.conn)
  /\ UNCHANGED <<inbox, conns, connOf, active, channels, session, chat, udp, sweeper,
                 crashed, ghosts>>

\* NewChatManager adds its callback; when it cannot read the configuration of the
\* device OnNewConnection gives up, and the connection stays without a manager.
NewChatManager ==
  LET c == adapter.conn IN
  /\ \/ Adapter("new", "register") /\ manager' = [manager EXCEPT ![c] = "running"]
     \/ Adapter("new", "push") /\ UNCHANGED manager
  /\ AddCallback(c)
  /\ UNCHANGED <<inbox, conns, connOf, active, channels, session, registry, replaced,
                 greeted, udp, sweeper, crashed, ghosts>>

\* RegisterChatManager; a goroutine of its own closes a manager that is there.
Register ==
  LET d == adapter.device IN
  /\ Adapter("register", "start")
  /\ registry' = [registry EXCEPT ![d] = adapter.conn]
  /\ replaced' = replaced \cup ({registry[d]} \ {0})
  /\ UNCHANGED <<inbox, conns, connOf, callbacks, active, channels, session, manager,
                 greeted, udp, sweeper, crashed, ghosts>>

\* The callback of OnNewConnection, then ChatSession.Start, which may fail.
Start ==
  LET c == adapter.conn IN
  /\ Adapter("start", "push")
  /\ AddCallback(c)
  /\ UNCHANGED <<inbox, conns, connOf, active, channels, session, chat, udp, sweeper,
                 crashed, ghosts>>

\* PushMsgToRecvCmd: a message that finds recvCmdChan full is dropped and is no
\* activity.  The connection may have been destroyed since it was looked up.
PushMsgToRecvCmd ==
  LET c == adapter.conn IN
  /\ adapter.pc = "push"
  /\ adapter' = AdapterWaits
  /\ IF cmds[c] < CmdCap
     THEN cmds' = [cmds EXCEPT ![c] = @ + 1] /\ Touch(c)
     ELSE UNCHANGED <<cmds, active>>
  /\ UNCHANGED <<inbox, conns, connOf, callbacks, recv, session, chat, udp, sweeper,
                 crashed, ghosts>>

ProcessMessage ==
  \/ BadMessage \/ GetDeviceSession \/ CreateSession \/ SetDeviceSession \/ HookDisconnect
  \/ NewChatManager \/ Register \/ Start \/ PushMsgToRecvCmd

----------------------------------------------------------------------------
(* The UDP server                                                          *)

Udp(from, to) ==
  /\ udp.pc = from
  /\ udp' = [udp EXCEPT !.pc = to]

\* A packet comes that a device has made with the key and nonce of session k: late
\* or twice perhaps, also when k is no longer the session of the device, and from any
\* address, for devices move and a router gives an address to one after the other.
\* The address alone leads to the session if there is one.
ReceivePacket(k, a) ==
  /\ udp.pc = "read" /\ k \in greeted
  /\ udp' = [pc |-> IF byAddr[a] = 0 THEN "nonce" ELSE "deliver",
             addr |-> a, key |-> k, to |-> byAddr[a]]
  /\ heard' = heard \cup {[key |-> k, addr |-> a]}
  /\ UNCHANGED <<inbox, conns, connOf, callbacks, active, channels, session, chat,
                 adapter, sweeper, crashed, destroyed, early>>

\* getSessionByNonce
FindByNonce ==
  LET s == byNonce[connId[udp.key]] IN
  /\ udp.pc = "nonce"
  /\ udp' = IF s = 0 THEN UdpWaits ELSE [udp EXCEPT !.pc = "bind", !.to = s]
  /\ UNCHANGED <<inbox, conns, connOf, callbacks, active, channels, session, chat,
                 adapter, sweeper, crashed, ghosts>>

BindRemote ==
  /\ Udp("bind", "store")
  /\ remote' = [remote EXCEPT ![udp.to] = udp.addr]
  /\ UNCHANGED <<inbox, conns, connOf, callbacks, active, channels, byNonce, byAddr,
                 closes, chat, adapter, sweeper, crashed, ghosts>>

\* Mutant: the devices behind one router share an entry.
AddForHost(s) == byAddr' = [a \in Addrs |-> s]

AddAddr(s) == byAddr' = [byAddr EXCEPT ![udp.addr] = s]

AddUdpSession ==
  /\ Udp("store", "deliver")
  /\ AddAddr(udp.to)
  /\ UNCHANGED <<inbox, conns, connOf, callbacks, active, channels, byNonce, remote,
                 closes, chat, adapter, sweeper, crashed, ghosts>>

\* Decrypt verifies nothing.  The send does not block, but it panics when the
\* session has been destroyed.
Deliver ==
  LET s == udp.to IN
  /\ udp.pc = "deliver"
  /\ udp' = UdpWaits
  /\ crashed' = Closed(s)
  /\ recv' = IF ~Closed(s) /\ recv[s] < AudioCap THEN [recv EXCEPT ![s] = @ + 1] ELSE recv
  /\ UNCHANGED <<inbox, conns, connOf, callbacks, active, cmds, session, chat, adapter,
                 sweeper, ghosts>>

ProcessPacket ==
  \/ \E k \in Conns, a \in Addrs : ReceivePacket(k, a)
  \/ FindByNonce \/ BindRemote \/ AddUdpSession \/ Deliver

----------------------------------------------------------------------------
(* The sweeper: IsActive, Destroy and the callbacks                        *)

\* 60 seconds go by with nothing received from the device or sent to it.
Idle(c) ==
  /\ c \in active
  /\ active' = active \ {c}
  /\ UNCHANGED <<inbox, conns, connOf, callbacks, channels, session, chat, steps,
                 crashed, ghosts>>

SettingUp(c) == adapter.conn = c /\ adapter.pc \in SetupSteps

\* checkClientActive comes to an idle connection.  The first function in its
\* onCloseCbList is handleDisconnect, the second ChatManager.OnClose, and the third
\* that of OnNewConnection; one that is added from now on is not called.
Destroy(d) ==
  LET c == connOf[d] IN
  /\ sweeper.pc = "wait"
  /\ c # 0 /\ c \notin active /\ callbacks[c] > 0
  /\ sweeper' = [pc |-> "lookup", conn |-> c, session |-> 0, hooks |-> callbacks[c]]
  /\ destroyed' = destroyed \cup {c}
  /\ early' = IF SettingUp(c) THEN early \cup {c} ELSE early
  /\ UNCHANGED <<inbox, conns, connOf, callbacks, active, channels, session, chat,
                 adapter, udp, crashed, heard>>

Sweeper(from, to) ==
  /\ sweeper.pc = from
  /\ sweeper' = IF to = "wait" THEN SweeperWaits ELSE [sweeper EXCEPT !.pc = to]

\* The step after handleDisconnect
AfterDisconnect == IF sweeper.hooks >= 2 THEN "onClose" ELSE "wait"

\* handleDisconnect looks for the connection of the device, and CloseSession for the
\* session with its id.
FoundConn == connOf[device[sweeper.conn]]
FoundSession == IF FoundConn = 0 THEN 0 ELSE byNonce[connId[FoundConn]]

\* CloseSession forgets the present address of the session.
ForgetAddr(s) ==
  byAddr' = IF s # 0 /\ remote[s] # NoAddr THEN [byAddr EXCEPT ![remote[s]] = 0] ELSE byAddr

Find(to) ==
  /\ sweeper.pc = "lookup"
  /\ sweeper' = IF to = "wait" THEN SweeperWaits
                ELSE [sweeper EXCEPT !.pc = to, !.session = FoundSession]
  /\ ForgetAddr(FoundSession)
  /\ UNCHANGED <<inbox, conns, connOf, callbacks, active, channels, byNonce, remote,
                 closes, chat, adapter, udp, crashed, ghosts>>

\* Mutant: without a session handleDisconnect has nothing to do.
LookupReturns == Find(IF FoundSession = 0 THEN AfterDisconnect ELSE "close")

LookupSession ==
  Find(IF FoundConn = 0 THEN AfterDisconnect
       ELSE IF FoundSession = 0 THEN "forget" ELSE "close")

\* UdpSession.Destroy closes RecvChannel and SendChannel.
CloseChannels ==
  /\ Sweeper("close", "forget")
  /\ closes' = [closes EXCEPT ![sweeper.session] = @ + 1]
  /\ UNCHANGED <<inbox, conns, connOf, callbacks, active, channels, byNonce, byAddr,
                 remote, chat, adapter, udp, crashed, ghosts>>

\* Mutant: the session stays in nonce2Session.
KeepNonce ==
  /\ Sweeper("forget", "delete")
  /\ UNCHANGED <<inbox, conns, connOf, callbacks, active, channels, session, chat,
                 adapter, udp, crashed, ghosts>>

\* The end of CloseSession
ForgetNonce ==
  /\ Sweeper("forget", "delete")
  /\ byNonce' = [byNonce EXCEPT ![connId[sweeper.conn]] = 0]
  /\ UNCHANGED <<inbox, conns, connOf, callbacks, active, channels, byAddr, remote,
                 closes, chat, adapter, udp, crashed, ghosts>>

\* The end of handleDisconnect
DeleteConn ==
  /\ Sweeper("delete", AfterDisconnect)
  /\ connOf' = [connOf EXCEPT ![device[sweeper.conn]] = 0]
  /\ active' = active \ {sweeper.conn}
  /\ UNCHANGED <<inbox, conns, callbacks, channels, session, chat, adapter, udp,
                 crashed, ghosts>>

\* ChatManager.OnClose; it also removes the device's MCP client.
OnClose ==
  LET c == sweeper.conn IN
  /\ Sweeper("onClose", IF sweeper.hooks = 3 THEN "unregister" ELSE "wait")
  /\ registry' = [registry EXCEPT ![device[c]] = 0]
  /\ manager' = [manager EXCEPT ![c] = "cancelled"]
  /\ UNCHANGED <<inbox, conns, connOf, callbacks, active, channels, session, replaced,
                 greeted, adapter, udp, crashed, ghosts>>

Unregister ==
  /\ Sweeper("unregister", "wait")
  /\ registry' = [registry EXCEPT ![device[sweeper.conn]] = 0]
  /\ UNCHANGED <<inbox, conns, connOf, callbacks, active, channels, session, manager,
                 replaced, greeted, adapter, udp, crashed, ghosts>>

RunCallbacks ==
  LookupSession \/ CloseChannels \/ ForgetNonce \/ DeleteConn \/ OnClose \/ Unregister

----------------------------------------------------------------------------
(* The session's side: its loops, and what it does to the connection       *)

Cancel(c) == manager' = [manager EXCEPT ![c] = IF @ = "none" THEN @ ELSE "cancelled"]

\* ChatManager.Close of a manager that has been replaced.  MqttUdpConn.Close does
\* nothing: the connection stays.
CloseReplaced(c) ==
  /\ c \in replaced
  /\ replaced' = replaced \ {c}
  /\ Cancel(c)
  /\ UNCHANGED <<inbox, conns, connOf, callbacks, active, channels, session, registry,
                 greeted, steps, crashed, ghosts>>

\* The same through CloseChatManager, for the exit_chat tool.
ExitChat(d) ==
  /\ registry[d] # 0 /\ manager[registry[d]] = "running" /\ registry[d] \in greeted
  /\ Cancel(registry[d])
  /\ UNCHANGED <<inbox, conns, connOf, callbacks, active, channels, session, registry,
                 replaced, greeted, steps, crashed, ghosts>>

\* The command loop handles a message; one that is cancelled may still be waiting for
\* it.  When it answers a hello, with the key and the nonce, SendCmd counts as
\* activity; a goodbye does nothing, for CloseAudioChannel does nothing.
RecvCmd(c) ==
  /\ manager[c] # "none" /\ cmds[c] > 0
  /\ cmds' = [cmds EXCEPT ![c] = @ - 1]
  /\ \/ UNCHANGED <<active, greeted>>
     \/ Touch(c) /\ greeted' = greeted \cup {c}
  /\ UNCHANGED <<inbox, conns, connOf, callbacks, recv, session, manager, registry,
                 replaced, steps, crashed, ghosts>>

\* The audio loop takes a frame; a closed channel gives up what it still holds.
RecvAudio(c) ==
  /\ c \in greeted /\ recv[c] > 0
  /\ recv' = [recv EXCEPT ![c] = @ - 1]
  /\ Touch(c)
  /\ UNCHANGED <<inbox, conns, connOf, callbacks, cmds, session, chat, steps, crashed,
                 ghosts>>

\* The session speaks, perhaps not yet knowing that it is cancelled.  The frame goes
\* into SendChannel, from which a goroutine writes it to the address of the session;
\* when that is full it is dropped.
SendAudio(c) ==
  /\ c \in greeted
  /\ \/ Closed(c) /\ crashed' = TRUE /\ UNCHANGED active
     \/ ~Closed(c) /\ Touch(c) /\ UNCHANGED crashed
  /\ UNCHANGED <<inbox, conns, connOf, callbacks, channels, session, chat, steps,
                 ghosts>>

Session(c) ==
  CloseReplaced(c) \/ RecvCmd(c) \/ RecvAudio(c) \/ SendAudio(c)

----------------------------------------------------------------------------

Next ==
  /\ ~crashed
  /\ \/ \E d \in Devices : HandleMessage(d) \/ Destroy(d) \/ ExitChat(d)
     \/ ProcessMessage \/ ProcessPacket \/ RunCallbacks
     \/ \E c \in Conns : Idle(c) \/ Session(c)

Spec == Init /\ [][Next]_vars

----------------------------------------------------------------------------
(* Properties                                                              *)

\* The channels of a session are closed at most once, also when two sessions have
\* the same id: a second close would panic.
ClosedOnce == \A s \in Conns : closes[s] <= 1

\* A packet with the nonce of s, or of a session that has drawn the same id, has come
\* from address a.
Announced(s, a) == \E p \in heard : p.addr = a /\ connId[p.key] = connId[s]

\* No two devices have sent from address a.
OneSender(a) ==
  \A p, q \in heard : p.addr = a /\ q.addr = a => device[p.key] = device[q.key]

\* Some session with the id of s belongs to device d.
Shares(s, d) == \E t \in Conns : connId[t] = connId[s] /\ device[t] = d

\* However late a packet is, and whatever sessions and devices an address had before: a
\* session hears an address, and speaks to it, only when its own nonce has come from
\* there. So it hears another device only over an address that has passed from the one to
\* the other, and otherwise only one whose session has drawn the same id.
OwnAudioOnly ==
  /\ \A s \in 1 .. created : remote[s] # NoAddr => Announced(s, remote[s])
  /\ udp.pc = "deliver" =>
       /\ Announced(udp.to, udp.addr)
       /\ OneSender(udp.addr) => Shares(udp.to, device[udp.key])

Alone(c) == \A t \in 1 .. created : connId[t] = connId[c] => t = c

\* An idle connection that the sweeper comes to leaves nothing behind, and nothing of
\* another goes: the adapter's entry, the session's entry, the channels and the chat
\* manager of a connection are there together until it is destroyed.  The exceptions
\* are a connection that is destroyed while it is set up, whose manager goes on, and
\* sessions with the same id, which destroy one another.
RetiredTogether ==
  \A c \in 1 .. created :
    \/ adapter.conn = c /\ adapter.pc # "read"
    \/ sweeper.conn = c
    \/ /\ Up(c) <=> c \notin destroyed
       /\ Alone(c) => /\ Up(c) <=> byNonce[connId[c]] = c
                      /\ Up(c) <=> ~Closed(c)
       /\ c \in destroyed \ early => manager[c] = "cancelled" /\ registry[device[c]] # c
=============================================================================
