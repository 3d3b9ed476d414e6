---------------------------- MODULE MqttUdpProofs ----------------------------
(***************************************************************************)
(* Proofs about MqttUdp, for any number of devices, addresses, ids and     *)
(* messages.                                                               *)
(***************************************************************************)
EXTENDS MqttUdp, SequenceTheorems, TLAPS

AdapterType ==
  [pc : AdapterSteps, device : Devices \cup {NoDevice}, conn : 0 .. MaxMessages]
UdpType ==
  [pc : UdpSteps, addr : Addrs \cup {NoAddr}, key : 0 .. MaxMessages, to : 0 .. MaxMessages]
SweeperType ==
  [pc : SweeperSteps, conn : 0 .. MaxMessages, session : 0 .. MaxMessages, hooks : 0 .. 3]

----------------------------------------------------------------------------
(* The inductive invariant                                                 *)

\* The connections and sessions that have been made
Made == 1 .. created

AdapterInv ==
  /\ adapter.pc # "read" => adapter.device \in Devices
  /\ adapter.pc \in {"create", "store"} => connOf[adapter.device] = 0
  /\ adapter.pc \notin {"read", "create"} =>
       adapter.conn \in Made /\ device[adapter.conn] = adapter.device
  /\ adapter.pc = "store" => adapter.conn \notin destroyed
  /\ adapter.pc \in {"store", "hook"} => callbacks[adapter.conn] = 0
  /\ adapter.pc = "new" => callbacks[adapter.conn] = 1
  /\ adapter.pc \in {"register", "start"} => callbacks[adapter.conn] = 2

\* What has not been made yet is as it was in the beginning.
MadeInv ==
  /\ \A c \in Made : device[c] \in Devices /\ connId[c] \in ConnIds
  /\ \A c \in Conns \ Made :
       /\ device[c] = NoDevice /\ connId[c] = NoId
       /\ callbacks[c] = 0 /\ closes[c] = 0 /\ manager[c] = "none"
       /\ remote[c] = NoAddr /\ recv[c] = 0
  /\ greeted \subseteq Made /\ destroyed \subseteq Made

TablesInv ==
  /\ \A d \in Devices : connOf[d] # 0 => connOf[d] \in Made /\ device[connOf[d]] = d
  /\ \A d \in Devices : registry[d] # 0 => registry[d] \in Made /\ device[registry[d]] = d
  /\ \A n \in ConnIds : byNonce[n] # 0 => byNonce[n] \in Made /\ connId[byNonce[n]] = n

\* handleDisconnect is under way; the connection is still in the table.
Disconnecting == sweeper.pc \in {"lookup", "close", "forget", "delete"}

SweeperInv ==
  /\ sweeper.pc # "wait" => sweeper.conn \in Made /\ sweeper.conn \in destroyed
  /\ sweeper.pc = "wait" => sweeper.conn = 0
  /\ Disconnecting => Up(sweeper.conn)
  /\ sweeper.pc = "close" =>
       sweeper.session \in Made /\ connId[sweeper.session] = connId[sweeper.conn]

\* A session that the table has under its id is open, until CloseSession is done.
OpenInv ==
  /\ \A s \in Conns : closes[s] <= 1
  /\ sweeper.pc = "close" => closes[sweeper.session] = 0
  /\ \A n \in ConnIds : byNonce[n] # 0 =>
       closes[byNonce[n]] = 0 \/ (sweeper.pc = "forget" /\ connId[sweeper.conn] = n)

\* The packet that is being processed
Packet == [key |-> udp.key, addr |-> udp.addr]

\* A packet finds its session by its nonce, or by an address that the nonce of the
\* session has come from.
OwnInv ==
  /\ \A p \in heard : p.key \in Made
  /\ \A a \in Addrs : byAddr[a] # 0 => byAddr[a] \in Made /\ Announced(byAddr[a], a)
  /\ \A s \in Made : remote[s] # NoAddr => Announced(s, remote[s])
  /\ udp.pc # "read" => udp.addr \in Addrs /\ udp.key \in Made /\ Packet \in heard
  /\ udp.pc \in {"bind", "store", "deliver"} =>
       udp.to \in Made /\ Announced(udp.to, udp.addr)

\* A connection is in the table from SetDeviceSession until the sweeper deletes it.
UpInv ==
  \A c \in Made :
    Up(c) <=> /\ ~(adapter.pc = "store" /\ adapter.conn = c)
              /\ c \notin destroyed \/ (sweeper.conn = c /\ Disconnecting)

\* What CloseSession does for a session whose id nobody else has.
SessionInv ==
  \A c \in Made : Alone(c) =>
    /\ byNonce[connId[c]] = c <=>
         c \notin destroyed \/ (sweeper.conn = c /\ sweeper.pc \in {"lookup", "close", "forget"})
    /\ closes[c] = 0 <=>
         c \notin destroyed \/ (sweeper.conn = c /\ sweeper.pc \in {"lookup", "close"})

\* A connection that is not being set up has the callback of its manager, and the
\* sweeper calls it.
ManagerInv ==
  /\ \A c \in Made : callbacks[c] >= 2 \/ SettingUp(c) \/ (adapter.conn = c /\ adapter.pc = "store")
  /\ \A c \in destroyed \ early :
       /\ ~SettingUp(c)
       /\ \/ manager[c] = "cancelled" /\ registry[device[c]] # c
          \/ /\ sweeper.conn = c /\ sweeper.hooks >= 2
             /\ Disconnecting \/ sweeper.pc = "onClose"

Inv ==
  /\ TypeOK /\ AdapterInv /\ MadeInv /\ TablesInv /\ SweeperInv
  /\ OpenInv /\ OwnInv /\ UpInv /\ SessionInv /\ ManagerInv

\* What the indices in use range over.
LEMMA Indices ==
  ASSUME Inv
  PROVE  /\ created \in Nat /\ MaxMessages \in Nat /\ Made \subseteq Conns
         /\ 0 .. MaxMessages = Conns \cup {0} /\ 0 \notin Conns
         /\ adapter.pc \notin {"read", "create"} => adapter.conn \in Made
         /\ sweeper.pc # "wait" => /\ sweeper.conn \in Made
                                   /\ device[sweeper.conn] \in Devices
                                   /\ connId[sweeper.conn] \in ConnIds
         /\ sweeper.pc = "close" => sweeper.session \in Made
         /\ udp.pc # "read" => udp.key \in Made /\ connId[udp.key] \in ConnIds
         /\ udp.pc \in {"bind", "store", "deliver"} => udp.to \in Made
<1>1. created \in Nat /\ MaxMessages \in Nat /\ created <= MaxMessages
  BY BoundsAssumption DEF Inv, TypeOK
<1>2. Made \subseteq Conns /\ 0 .. MaxMessages = Conns \cup {0} /\ 0 \notin Conns
  BY <1>1 DEF Made, Conns
<1> QED
  BY <1>1, <1>2 DEF Inv, AdapterInv, SweeperInv, OwnInv, MadeInv

\* A step of a goroutine moves its pc and nothing else, unless it comes back to wait.
LEMMA AdapterStep ==
  ASSUME TypeOK, NEW from, NEW to, Adapter(from, to)
  PROVE  /\ to \in AdapterSteps => adapter' \in AdapterType
         /\ adapter.pc = from /\ adapter'.pc = to
         /\ adapter'.conn = adapter.conn /\ adapter'.device = adapter.device
BY DEF TypeOK, Adapter, AdapterType

LEMMA UdpStep ==
  ASSUME TypeOK, NEW from, NEW to, Udp(from, to)
  PROVE  /\ to \in UdpSteps => udp' \in UdpType
         /\ udp.pc = from /\ udp'.pc = to
         /\ udp'.addr = udp.addr /\ udp'.key = udp.key /\ udp'.to = udp.to
BY DEF TypeOK, Udp, UdpType

LEMMA SweeperStep ==
  ASSUME TypeOK, NEW from, NEW to, Sweeper(from, to)
  PROVE  /\ to \in SweeperSteps \ {"wait"} => sweeper' \in SweeperType
         /\ sweeper.pc = from /\ sweeper'.pc = to
         /\ to # "wait" => /\ sweeper'.conn = sweeper.conn
                           /\ sweeper'.session = sweeper.session
                           /\ sweeper'.hooks = sweeper.hooks
         /\ to = "wait" => sweeper' = SweeperWaits
BY DEF TypeOK, Sweeper, SweeperWaits, SweeperType

\* CreateSession makes one connection and nothing of the others changes.
LEMMA CreateStep ==
  ASSUME Inv, CreateSession
  PROVE  /\ created' \in Conns \ Made /\ Made' = Made \cup {created'}
         /\ adapter.pc = "create" /\ adapter.device \in Devices
         /\ adapter'.pc = "store" /\ adapter'.conn = created'
         /\ adapter'.device = adapter.device
         /\ device'[created'] = adapter.device /\ connId'[created'] \in ConnIds
         /\ \A x \in Conns \ {created'} : device'[x] = device[x] /\ connId'[x] = connId[x]
         /\ byNonce'[connId'[created']] = created'
         /\ \A n \in ConnIds : n # connId'[created'] => byNonce'[n] = byNonce[n]
<1>1. /\ device \in [Conns -> Devices \cup {NoDevice}]
      /\ connId \in [Conns -> ConnIds \cup {NoId}]
      /\ byNonce \in [ConnIds -> 0 .. MaxMessages]
      /\ adapter \in AdapterType
  BY DEF Inv, TypeOK, AdapterType
<1>2. created' = created + 1 /\ created' \in Conns
  BY DEF CreateSession
<1>3. created' \notin Made /\ Made' = Made \cup {created'}
  BY <1>2, Indices DEF Made, Conns
<1>4. adapter.pc = "create" /\ adapter.device \in Devices
  BY DEF CreateSession, Inv, AdapterInv
<1>5. /\ adapter'.pc = "store" /\ adapter'.conn = created'
      /\ adapter'.device = adapter.device
  BY <1>1, <1>2 DEF CreateSession, AdapterType
<1> QED
  BY <1>1, <1>2, <1>3, <1>4, <1>5 DEF CreateSession

\* handleDisconnect finds the connection that is being destroyed, and CloseSession a
\* session with the same id if any is left.
LEMMA FindStep ==
  ASSUME Inv, LookupSession
  PROVE  /\ sweeper.pc = "lookup" /\ sweeper.conn \in Made
         /\ FoundSession = byNonce[connId[sweeper.conn]]
         /\ sweeper'.pc = IF FoundSession = 0 THEN "forget" ELSE "close"
         /\ sweeper'.conn = sweeper.conn /\ sweeper'.hooks = sweeper.hooks
         /\ sweeper'.session = FoundSession
         /\ FoundSession \in 0 .. MaxMessages
         /\ sweeper' \in SweeperType
         /\ \A a \in Addrs : byAddr'[a] \in {byAddr[a], 0}
<1>1. /\ sweeper \in SweeperType /\ byNonce \in [ConnIds -> 0 .. MaxMessages]
      /\ byAddr \in [Addrs -> 0 .. MaxMessages]
  BY DEF Inv, TypeOK, SweeperType
<1>2. sweeper.pc = "lookup" /\ sweeper.conn \in Made /\ connId[sweeper.conn] \in ConnIds
  BY Indices DEF LookupSession, Find
<1>3. FoundConn = sweeper.conn /\ FoundConn # 0
  BY <1>2, Indices DEF FoundConn, Inv, SweeperInv, Disconnecting, Up
<1>4. FoundSession = byNonce[connId[sweeper.conn]]
  BY <1>3 DEF FoundSession
<1>5. FoundSession \in 0 .. MaxMessages
  BY <1>1, <1>2, <1>4
<1>6. sweeper' = [sweeper EXCEPT !.pc = IF FoundSession = 0 THEN "forget" ELSE "close",
                                 !.session = FoundSession]
  BY <1>3 DEF LookupSession, Find
<1>7. \A a \in Addrs : byAddr'[a] \in {byAddr[a], 0}
  BY <1>1 DEF LookupSession, Find, ForgetAddr
<1> QED
  BY <1>1, <1>2, <1>4, <1>5, <1>6, <1>7 DEF SweeperType, SweeperSteps

LEMMA InitInv == Init => Inv
<1> SUFFICES ASSUME Init PROVE Inv
  OBVIOUS
<1> USE BoundsAssumption, NoneAssumption
<1>1. TypeOK
  <2>1. /\ adapter \in AdapterType /\ udp \in UdpType /\ sweeper \in SweeperType
    BY DEF Init, AdapterWaits, UdpWaits, SweeperWaits, AdapterSteps, UdpSteps, SweeperSteps,
         AdapterType, UdpType, SweeperType
  <2>2. /\ msgChan \in Seq(Devices) /\ Len(msgChan) <= MsgCap
        /\ recv \in [Conns -> 0 .. AudioCap]
    <3>1. <<>> \in Seq(Devices) /\ <<>> \in Seq(Conns) /\ Len(<<>>) = 0
      BY EmptySeq
    <3> QED
      BY <3>1 DEF Init
  <2>3. /\ received \in 0 .. MaxMessages /\ created \in 0 .. MaxMessages
        /\ device \in [Conns -> Devices \cup {NoDevice}]
        /\ connId \in [Conns -> ConnIds \cup {NoId}]
        /\ connOf \in [Devices -> 0 .. MaxMessages]
        /\ callbacks \in [Conns -> 0 .. 3]
        /\ active \subseteq Conns
        /\ cmds \in [Conns -> 0 .. CmdCap]
    BY DEF Init
  <2>4. /\ byNonce \in [ConnIds -> 0 .. MaxMessages]
        /\ byAddr \in [Addrs -> 0 .. MaxMessages]
        /\ remote \in [Conns -> Addrs \cup {NoAddr}]
        /\ registry \in [Devices -> 0 .. MaxMessages]
        /\ closes \in [Conns -> Nat]
    BY DEF Init
  <2>5. /\ manager \in [Conns -> {"none", "running", "cancelled"}]
        /\ crashed \in BOOLEAN
    BY DEF Init
  <2>6. /\ replaced \subseteq Conns /\ greeted \subseteq Conns
        /\ destroyed \subseteq Conns /\ early \subseteq Conns
        /\ heard \subseteq Packets
    BY DEF Init
  <2> QED
    BY <2>1, <2>2, <2>3, <2>4, <2>5, <2>6 DEF TypeOK, AdapterType, UdpType, SweeperType
<1>2. AdapterInv /\ MadeInv /\ TablesInv /\ SweeperInv
  BY <1>1 DEF Init, AdapterInv, MadeInv, TablesInv, SweeperInv, Made, Disconnecting, Conns,
       AdapterWaits, SweeperWaits
<1>3. OpenInv /\ OwnInv /\ UpInv /\ SessionInv /\ ManagerInv
  BY <1>1 DEF Init, OpenInv, OwnInv, UpInv, SessionInv, ManagerInv, Made, Conns, UdpWaits,
       SweeperWaits
<1> QED
  BY <1>1, <1>2, <1>3 DEF Inv

----------------------------------------------------------------------------
(* A step keeps each part of it                                            *)

\* Every step keeps the types.
LEMMA TypesKept ==
  ASSUME Inv, ~crashed, Next
  PROVE  TypeOK'
<1> USE BoundsAssumption, NoneAssumption
<1>1. ASSUME NEW d \in Devices, HandleMessage(d)
      PROVE  TypeOK'
  <2>1. msgChan' \in Seq(Devices) /\ Len(msgChan') <= MsgCap
    <3>1. /\ msgChan \in Seq(Devices) /\ Len(msgChan) <= MsgCap
      BY DEF Inv, TypeOK
    <3> QED
      BY <1>1, <3>1, Indices, AppendProperties DEF Inv, HandleMessage, conns, channels,
         session, chat, steps, ghosts
  <2>2. received' \in 0 .. MaxMessages
    <3>1. /\ received \in 0 .. MaxMessages
      BY DEF Inv, TypeOK
    <3> QED
      BY <1>1, <3>1, Indices DEF Inv, HandleMessage, conns, channels, session, chat,
         steps, ghosts
  <2> QED
    BY <1>1, <2>1, <2>2 DEF Inv, TypeOK, AdapterType, UdpType, SweeperType,
       HandleMessage, conns, channels, session, chat, steps, ghosts
<1>2. CASE BadMessage
  <2>1. msgChan' \in Seq(Devices) /\ Len(msgChan') <= MsgCap
    <3>1. /\ msgChan \in Seq(Devices) /\ Len(msgChan) <= MsgCap
      BY DEF Inv, TypeOK
    <3> QED
      BY <1>2, <3>1, Indices, HeadTailProperties DEF Inv, BadMessage, conns, channels,
         session, chat, steps, ghosts
  <2> QED
    BY <1>2, <2>1 DEF Inv, TypeOK, AdapterType, UdpType, SweeperType, BadMessage,
       conns, channels, session, chat, steps, ghosts
<1>3. CASE GetDeviceSession
  <2>1. msgChan' \in Seq(Devices) /\ Len(msgChan') <= MsgCap
    <3>1. /\ msgChan \in Seq(Devices) /\ Len(msgChan) <= MsgCap
      BY DEF Inv, TypeOK
    <3> QED
      BY <1>3, <3>1, Indices, HeadTailProperties DEF Inv, GetDeviceSession, conns,
         channels, session, chat, ghosts
  <2>2. adapter' \in AdapterType
    <3>1. /\ adapter \in AdapterType
          /\ msgChan \in Seq(Devices) /\ Len(msgChan) <= MsgCap
          /\ connOf \in [Devices -> 0 .. MaxMessages]
      BY DEF Inv, TypeOK, AdapterType
    <3> QED
      BY <1>3, <3>1, Indices, HeadTailProperties DEF Inv, AdapterInv, GetDeviceSession,
         conns, channels, session, chat, ghosts, AdapterType, AdapterSteps, SetupSteps
  <2> QED
    BY <1>3, <2>1, <2>2 DEF Inv, TypeOK, AdapterType, UdpType, SweeperType,
       GetDeviceSession, conns, channels, session, chat, ghosts
<1>4. CASE CreateSession
  <2>1. created' \in 0 .. MaxMessages
    <3>1. /\ created \in 0 .. MaxMessages
      BY DEF Inv, TypeOK
    <3> QED
      BY <1>4, <3>1, Indices DEF Inv, CreateSession, inbox, channels, chat, ghosts
  <2>2. device' \in [Conns -> Devices \cup {NoDevice}]
    <3>1. /\ device \in [Conns -> Devices \cup {NoDevice}]
      BY DEF Inv, TypeOK
    <3> QED
      BY <1>4, <3>1, Indices DEF Inv, AdapterInv, CreateSession, inbox, channels, chat,
         ghosts
  <2>3. connId' \in [Conns -> ConnIds \cup {NoId}]
    <3>1. /\ connId \in [Conns -> ConnIds \cup {NoId}]
      BY DEF Inv, TypeOK
    <3> QED
      BY <1>4, <3>1, Indices DEF Inv, CreateSession, inbox, channels, chat, ghosts
  <2>4. byNonce' \in [ConnIds -> 0 .. MaxMessages]
    <3>1. /\ byNonce \in [ConnIds -> 0 .. MaxMessages]
      BY DEF Inv, TypeOK
    <3> QED
      BY <1>4, <3>1, Indices DEF Inv, CreateSession, inbox, channels, chat, ghosts
  <2>5. adapter' \in AdapterType
    <3>1. /\ adapter \in AdapterType
      BY DEF Inv, TypeOK, AdapterType
    <3> QED
      BY <1>4, <3>1, Indices DEF Inv, AdapterInv, CreateSession, inbox, channels, chat,
         ghosts, AdapterType, AdapterSteps, SetupSteps
  <2> QED
    BY <1>4, <2>1, <2>2, <2>3, <2>4, <2>5 DEF Inv, TypeOK, AdapterType, UdpType,
       SweeperType, CreateSession, inbox, channels, chat, ghosts
<1>5. CASE SetDeviceSession
  <2>1. connOf' \in [Devices -> 0 .. MaxMessages]
    <3>1. /\ connOf \in [Devices -> 0 .. MaxMessages]
      BY DEF Inv, TypeOK
    <3> QED
      BY <1>5, <3>1, Indices, AdapterStep DEF Inv, AdapterInv, SetDeviceSession, inbox,
         conns, channels, session, chat, ghosts
  <2>2. adapter' \in AdapterType
    <3>1. /\ adapter \in AdapterType
      BY DEF Inv, TypeOK, AdapterType
    <3> QED
      BY <1>5, <3>1, Indices, AdapterStep DEF Inv, AdapterInv, SetDeviceSession, inbox,
         conns, channels, session, chat, ghosts, AdapterType, AdapterSteps, SetupSteps
  <2> QED
    BY <1>5, <2>1, <2>2 DEF Inv, TypeOK, AdapterType, UdpType, SweeperType,
       SetDeviceSession, inbox, conns, channels, session, chat, ghosts
<1>6. CASE HookDisconnect
  <2>1. callbacks' \in [Conns -> 0 .. 3]
    <3>1. /\ callbacks \in [Conns -> 0 .. 3]
      BY DEF Inv, TypeOK
    <3> QED
      BY <1>6, <3>1, Indices, AdapterStep DEF Inv, AdapterInv, HookDisconnect,
         AddCallback, inbox, conns, channels, session, chat, ghosts
  <2>2. adapter' \in AdapterType
    <3>1. /\ adapter \in AdapterType
      BY DEF Inv, TypeOK, AdapterType
    <3> QED
      BY <1>6, <3>1, Indices, AdapterStep DEF Inv, AdapterInv, HookDisconnect,
         AddCallback, inbox, conns, channels, session, chat, ghosts, AdapterType,
         AdapterSteps, SetupSteps
  <2> QED
    BY <1>6, <2>1, <2>2 DEF Inv, TypeOK, AdapterType, UdpType, SweeperType,
       HookDisconnect, inbox, conns, channels, session, chat, ghosts
<1>7. CASE NewChatManager
  <2>1. callbacks' \in [Conns -> 0 .. 3]
    <3>1. /\ callbacks \in [Conns -> 0 .. 3]
      BY DEF Inv, TypeOK
    <3> QED
      BY <1>7, <3>1, Indices, AdapterStep DEF Inv, AdapterInv, NewChatManager,
         AddCallback, inbox, conns, channels, session, ghosts
  <2>2. manager' \in [Conns -> {"none", "running", "cancelled"}]
    <3>1. /\ manager \in [Conns -> {"none", "running", "cancelled"}]
      BY DEF Inv, TypeOK
    <3> QED
      BY <1>7, <3>1, Indices, AdapterStep DEF Inv, AdapterInv, SweeperInv, TablesInv,
         Disconnecting, Up, NewChatManager, AddCallback, inbox, conns, channels,
         session, ghosts
  <2>3. adapter' \in AdapterType
    <3>1. /\ adapter \in AdapterType
      BY DEF Inv, TypeOK, AdapterType
    <3> QED
      BY <1>7, <3>1, Indices, AdapterStep DEF Inv, AdapterInv, NewChatManager,
         AddCallback, inbox, conns, channels, session, ghosts, AdapterType,
         AdapterSteps, SetupSteps
  <2> QED
    BY <1>7, <2>1, <2>2, <2>3 DEF Inv, TypeOK, AdapterType, UdpType, SweeperType,
       NewChatManager, inbox, conns, channels, session, ghosts
<1>8. CASE Register
  <2>1. registry' \in [Devices -> 0 .. MaxMessages]
    <3>1. /\ registry \in [Devices -> 0 .. MaxMessages]
      BY DEF Inv, TypeOK
    <3> QED
      BY <1>8, <3>1, Indices, AdapterStep DEF Inv, AdapterInv, Register, inbox, conns,
         channels, session, ghosts
  <2>2. replaced' \subseteq Conns
    <3>1. /\ replaced \subseteq Conns
          /\ registry \in [Devices -> 0 .. MaxMessages]
      BY DEF Inv, TypeOK
    <3> QED
      BY <1>8, <3>1, Indices, AdapterStep DEF Inv, AdapterInv, Register, inbox, conns,
         channels, session, ghosts
  <2>3. adapter' \in AdapterType
    <3>1. /\ adapter \in AdapterType
      BY DEF Inv, TypeOK, AdapterType
    <3> QED
      BY <1>8, <3>1, Indices, AdapterStep DEF Inv, AdapterInv, Register, inbox, conns,
         channels, session, ghosts, AdapterType, AdapterSteps, SetupSteps
  <2> QED
    BY <1>8, <2>1, <2>2, <2>3 DEF Inv, TypeOK, AdapterType, UdpType, SweeperType,
       Register, inbox, conns, channels, session, ghosts
<1>9. CASE Start
  <2>1. callbacks' \in [Conns -> 0 .. 3]
    <3>1. /\ callbacks \in [Conns -> 0 .. 3]
      BY DEF Inv, TypeOK
    <3> QED
      BY <1>9, <3>1, Indices, AdapterStep DEF Inv, AdapterInv, Start, AddCallback,
         inbox, conns, channels, session, chat, ghosts
  <2>2. adapter' \in AdapterType
    <3>1. /\ adapter \in AdapterType
      BY DEF Inv, TypeOK, AdapterType
    <3> QED
      BY <1>9, <3>1, Indices, AdapterStep DEF Inv, AdapterInv, Start, AddCallback,
         inbox, conns, channels, session, chat, ghosts, AdapterType, AdapterSteps,
         SetupSteps
  <2> QED
    BY <1>9, <2>1, <2>2 DEF Inv, TypeOK, AdapterType, UdpType, SweeperType, Start,
       inbox, conns, channels, session, chat, ghosts
<1>10. CASE PushMsgToRecvCmd
  <2>1. active' \subseteq Conns
    <3>1. /\ active \subseteq Conns
      BY DEF Inv, TypeOK
    <3> QED
      BY <1>10, <3>1, Indices DEF Inv, AdapterInv, PushMsgToRecvCmd, Touch, Up,
         AdapterWaits, inbox, conns, session, chat, ghosts
  <2>2. cmds' \in [Conns -> 0 .. CmdCap]
    <3>1. /\ cmds \in [Conns -> 0 .. CmdCap]
      BY DEF Inv, TypeOK
    <3> QED
      BY <1>10, <3>1, Indices DEF Inv, AdapterInv, PushMsgToRecvCmd, Touch, Up,
         AdapterWaits, inbox, conns, session, chat, ghosts
  <2>3. adapter' \in AdapterType
    <3>1. /\ adapter \in AdapterType
      BY DEF Inv, TypeOK, AdapterType
    <3> QED
      BY <1>10, <3>1, Indices DEF Inv, AdapterInv, PushMsgToRecvCmd, Touch, Up,
         AdapterWaits, inbox, conns, session, chat, ghosts, AdapterType, AdapterSteps,
         SetupSteps
  <2> QED
    BY <1>10, <2>1, <2>2, <2>3 DEF Inv, TypeOK, AdapterType, UdpType, SweeperType,
       PushMsgToRecvCmd, inbox, conns, session, chat, ghosts
<1>11. ASSUME NEW k \in Conns, NEW a \in Addrs, ReceivePacket(k, a)
      PROVE  TypeOK'
  <2>1. udp' \in UdpType
    <3>1. /\ udp \in UdpType
          /\ byAddr \in [Addrs -> 0 .. MaxMessages]
      BY DEF Inv, TypeOK, UdpType
    <3> QED
      BY <1>11, <3>1, Indices DEF Inv, OwnInv, Announced, ReceivePacket, inbox, conns,
         channels, session, chat, ghosts, UdpType, UdpSteps
  <2>2. heard' \subseteq Packets
    <3>1. /\ heard \subseteq Packets
          /\ [key |-> k, addr |-> a] \in Packets
      BY DEF Inv, TypeOK, Packets
    <3> QED
      BY <1>11, <3>1 DEF ReceivePacket
  <2> QED
    BY <1>11, <2>1, <2>2 DEF Inv, TypeOK, AdapterType, UdpType, SweeperType, ReceivePacket,
       inbox, conns, channels, session, chat, ghosts
<1>12. CASE FindByNonce
  <2>1. udp' \in UdpType
    <3>1. /\ udp \in UdpType
          /\ byNonce \in [ConnIds -> 0 .. MaxMessages]
          /\ connId \in [Conns -> ConnIds \cup {NoId}]
      BY DEF Inv, TypeOK, UdpType
    <3> QED
      BY <1>12, <3>1, Indices DEF Inv, OwnInv, Announced, FindByNonce, UdpWaits, inbox,
         conns, channels, session, chat, ghosts, UdpType, UdpSteps
  <2> QED
    BY <1>12, <2>1 DEF Inv, TypeOK, AdapterType, UdpType, SweeperType, FindByNonce,
       inbox, conns, channels, session, chat, ghosts
<1>13. CASE BindRemote
  <2>1. remote' \in [Conns -> Addrs \cup {NoAddr}]
    <3>1. /\ remote \in [Conns -> Addrs \cup {NoAddr}]
      BY DEF Inv, TypeOK
    <3> QED
      BY <1>13, <3>1, Indices, UdpStep DEF Inv, OwnInv, Announced, BindRemote, inbox,
         conns, channels, chat, ghosts
  <2>2. udp' \in UdpType
    <3>1. /\ udp \in UdpType
      BY DEF Inv, TypeOK, UdpType
    <3> QED
      BY <1>13, <3>1, Indices, UdpStep DEF Inv, OwnInv, Announced, BindRemote, inbox,
         conns, channels, chat, ghosts, UdpType, UdpSteps
  <2> QED
    BY <1>13, <2>1, <2>2 DEF Inv, TypeOK, AdapterType, UdpType, SweeperType,
       BindRemote, inbox, conns, channels, chat, ghosts
<1>14. CASE AddUdpSession
  <2>1. byAddr' \in [Addrs -> 0 .. MaxMessages]
    <3>1. /\ byAddr \in [Addrs -> 0 .. MaxMessages]
      BY DEF Inv, TypeOK
    <3> QED
      BY <1>14, <3>1, Indices, UdpStep DEF Inv, OwnInv, SweeperInv, TablesInv,
         Disconnecting, Up, AddUdpSession, AddAddr, inbox, conns, channels, chat,
         ghosts
  <2>2. udp' \in UdpType
    <3>1. /\ udp \in UdpType
      BY DEF Inv, TypeOK, UdpType
    <3> QED
      BY <1>14, <3>1, Indices, UdpStep DEF Inv, OwnInv, Announced, AddUdpSession, AddAddr,
         inbox, conns, channels, chat, ghosts, UdpType, UdpSteps
  <2> QED
    BY <1>14, <2>1, <2>2 DEF Inv, TypeOK, AdapterType, UdpType, SweeperType,
       AddUdpSession, inbox, conns, channels, chat, ghosts
<1>15. CASE Deliver
  <2>1. recv' \in [Conns -> 0 .. AudioCap]
    <3>1. /\ recv \in [Conns -> 0 .. AudioCap]
      BY DEF Inv, TypeOK
    <3> QED
      BY <1>15, <3>1, Indices, AppendProperties DEF Inv, OwnInv, Announced, Deliver,
         Closed, UdpWaits, inbox, conns, session, chat, ghosts
  <2>2. udp' \in UdpType
    <3>1. /\ udp \in UdpType
      BY DEF Inv, TypeOK, UdpType
    <3> QED
      BY <1>15, <3>1, Indices DEF Inv, OwnInv, Announced, Deliver, Closed, UdpWaits,
         inbox, conns, session, chat, ghosts, UdpType, UdpSteps
  <2>3. crashed' \in BOOLEAN
    <3>1. /\ crashed \in BOOLEAN
      BY DEF Inv, TypeOK
    <3> QED
      BY <1>15, <3>1, Indices DEF Inv, Deliver, Closed, UdpWaits, inbox, conns,
         session, chat, ghosts
  <2> QED
    BY <1>15, <2>1, <2>2, <2>3 DEF Inv, TypeOK, AdapterType, UdpType, SweeperType,
       Deliver, inbox, conns, session, chat, ghosts
<1>16. ASSUME NEW c \in Conns, Idle(c)
      PROVE  TypeOK'
  <2>1. active' \subseteq Conns
    <3>1. /\ active \subseteq Conns
      BY DEF Inv, TypeOK
    <3> QED
      BY <1>16, <3>1, Indices DEF Inv, AdapterInv, Idle, inbox, conns, channels,
         session, chat, steps, ghosts
  <2> QED
    BY <1>16, <2>1 DEF Inv, TypeOK, AdapterType, UdpType, SweeperType, Idle, inbox,
       conns, channels, session, chat, steps, ghosts
<1>17. ASSUME NEW d \in Devices, Destroy(d)
      PROVE  TypeOK'
  <2>1. destroyed' \subseteq Conns
    <3>1. /\ destroyed \subseteq Conns
          /\ connOf \in [Devices -> 0 .. MaxMessages]
      BY DEF Inv, TypeOK
    <3> QED
      BY <1>17, <3>1, Indices DEF Inv, Destroy, SettingUp, inbox, conns, channels,
         session, chat
  <2>2. early' \subseteq Conns
    <3>1. /\ early \subseteq Conns
          /\ connOf \in [Devices -> 0 .. MaxMessages]
      BY DEF Inv, TypeOK
    <3> QED
      BY <1>17, <3>1, Indices DEF Inv, Destroy, SettingUp, inbox, conns, channels,
         session, chat
  <2>3. sweeper' \in SweeperType
    <3>1. /\ sweeper \in SweeperType
          /\ connOf \in [Devices -> 0 .. MaxMessages]
          /\ callbacks \in [Conns -> 0 .. 3]
      BY DEF Inv, TypeOK, SweeperType
    <3> QED
      BY <1>17, <3>1, Indices DEF Inv, SweeperInv, TablesInv, Disconnecting, Up,
         Destroy, SettingUp, inbox, conns, channels, session, chat, SweeperType,
         SweeperSteps
  <2> QED
    BY <1>17, <2>1, <2>2, <2>3 DEF Inv, TypeOK, AdapterType, UdpType, SweeperType,
       Destroy, inbox, conns, channels, session, chat
<1>18. CASE LookupSession
  <2>1. byAddr' \in [Addrs -> 0 .. MaxMessages]
    <3>1. /\ byAddr \in [Addrs -> 0 .. MaxMessages]
      BY DEF Inv, TypeOK
    <3> QED
      BY <1>18, <3>1, Indices, FindStep DEF Inv, OwnInv, SweeperInv, TablesInv,
         Disconnecting, Up, LookupSession, AfterDisconnect, FoundConn, FoundSession,
         Find, ForgetAddr, SweeperWaits, inbox, conns, channels, session, chat, ghosts
  <2>2. sweeper' \in SweeperType
    <3>1. /\ sweeper \in SweeperType
      BY DEF Inv, TypeOK, SweeperType
    <3> QED
      BY <1>18, <3>1, Indices, FindStep DEF Inv, SweeperInv, TablesInv, Disconnecting,
         Up, LookupSession, AfterDisconnect, FoundConn, FoundSession, Find, ForgetAddr,
         SweeperWaits, inbox, conns, channels, session, chat, ghosts, SweeperType,
         SweeperSteps
  <2> QED
    BY <1>18, <2>1, <2>2 DEF Inv, TypeOK, AdapterType, UdpType, SweeperType,
       LookupSession, Find, inbox, conns, channels, session, chat, ghosts
<1>19. CASE CloseChannels
  <2>1. sweeper' \in SweeperType
    <3>1. /\ sweeper \in SweeperType
      BY DEF Inv, TypeOK, SweeperType
    <3> QED
      BY <1>19, <3>1, Indices, SweeperStep DEF Inv, SweeperInv, TablesInv,
         Disconnecting, Up, CloseChannels, SweeperWaits, inbox, conns, channels,
         session, chat, ghosts, SweeperType, SweeperSteps
  <2>2. closes' \in [Conns -> Nat]
    <3>1. /\ closes \in [Conns -> Nat]
      BY DEF Inv, TypeOK
    <3> QED
      BY <1>19, <3>1, Indices, SweeperStep DEF Inv, SweeperInv, Disconnecting, Up,
         CloseChannels, SweeperWaits, inbox, conns, channels, session, chat, ghosts
  <2> QED
    BY <1>19, <2>1, <2>2 DEF Inv, TypeOK, AdapterType, UdpType, SweeperType,
       CloseChannels, inbox, conns, channels, session, chat, ghosts
<1>20. CASE ForgetNonce
  <2>1. byNonce' \in [ConnIds -> 0 .. MaxMessages]
    <3>1. /\ byNonce \in [ConnIds -> 0 .. MaxMessages]
      BY DEF Inv, TypeOK
    <3> QED
      BY <1>20, <3>1, Indices, SweeperStep DEF Inv, ForgetNonce, SweeperWaits, inbox,
         conns, channels, chat, ghosts
  <2>2. sweeper' \in SweeperType
    <3>1. /\ sweeper \in SweeperType
      BY DEF Inv, TypeOK, SweeperType
    <3> QED
      BY <1>20, <3>1, Indices, SweeperStep DEF Inv, SweeperInv, TablesInv,
         Disconnecting, Up, ForgetNonce, SweeperWaits, inbox, conns, channels, chat,
         ghosts, SweeperType, SweeperSteps
  <2> QED
    BY <1>20, <2>1, <2>2 DEF Inv, TypeOK, AdapterType, UdpType, SweeperType,
       ForgetNonce, inbox, conns, channels, chat, ghosts
<1>21. CASE DeleteConn
  <2>1. connOf' \in [Devices -> 0 .. MaxMessages]
    <3>1. /\ connOf \in [Devices -> 0 .. MaxMessages]
      BY DEF Inv, TypeOK
    <3> QED
      BY <1>21, <3>1, Indices, SweeperStep DEF Inv, AdapterInv, DeleteConn,
         SweeperWaits, AfterDisconnect, inbox, conns, channels, session, chat, ghosts
  <2>2. active' \subseteq Conns
    <3>1. /\ active \subseteq Conns
      BY DEF Inv, TypeOK
    <3> QED
      BY <1>21, <3>1, Indices, SweeperStep DEF Inv, AdapterInv, DeleteConn,
         SweeperWaits, AfterDisconnect, inbox, conns, channels, session, chat, ghosts
  <2>3. sweeper' \in SweeperType
    <3>1. /\ sweeper \in SweeperType
      BY DEF Inv, TypeOK, SweeperType
    <3> QED
      BY <1>21, <3>1, Indices, SweeperStep DEF Inv, SweeperInv, TablesInv,
         Disconnecting, Up, DeleteConn, SweeperWaits, AfterDisconnect, inbox, conns,
         channels, session, chat, ghosts, SweeperType, SweeperSteps
  <2> QED
    BY <1>21, <2>1, <2>2, <2>3 DEF Inv, TypeOK, AdapterType, UdpType, SweeperType,
       DeleteConn, inbox, conns, channels, session, chat, ghosts
<1>22. CASE OnClose
  <2>1. manager' \in [Conns -> {"none", "running", "cancelled"}]
    <3>1. /\ manager \in [Conns -> {"none", "running", "cancelled"}]
      BY DEF Inv, TypeOK
    <3> QED
      BY <1>22, <3>1, Indices, SweeperStep DEF Inv, AdapterInv, SweeperInv, TablesInv,
         Disconnecting, Up, OnClose, SweeperWaits, inbox, conns, channels, session,
         ghosts
  <2>2. registry' \in [Devices -> 0 .. MaxMessages]
    <3>1. /\ registry \in [Devices -> 0 .. MaxMessages]
      BY DEF Inv, TypeOK
    <3> QED
      BY <1>22, <3>1, Indices, SweeperStep DEF Inv, AdapterInv, OnClose, SweeperWaits,
         inbox, conns, channels, session, ghosts
  <2>3. sweeper' \in SweeperType
    <3>1. /\ sweeper \in SweeperType
      BY DEF Inv, TypeOK, SweeperType
    <3> QED
      BY <1>22, <3>1, Indices, SweeperStep DEF Inv, SweeperInv, TablesInv,
         Disconnecting, Up, OnClose, SweeperWaits, inbox, conns, channels, session,
         ghosts, SweeperType, SweeperSteps
  <2> QED
    BY <1>22, <2>1, <2>2, <2>3 DEF Inv, TypeOK, AdapterType, UdpType, SweeperType,
       OnClose, inbox, conns, channels, session, ghosts
<1>23. CASE Unregister
  <2>1. registry' \in [Devices -> 0 .. MaxMessages]
    <3>1. /\ registry \in [Devices -> 0 .. MaxMessages]
      BY DEF Inv, TypeOK
    <3> QED
      BY <1>23, <3>1, Indices, SweeperStep DEF Inv, AdapterInv, Unregister,
         SweeperWaits, inbox, conns, channels, session, ghosts
  <2>2. sweeper' \in SweeperType
    <3>1. /\ sweeper \in SweeperType
      BY DEF Inv, TypeOK, SweeperType
    <3> QED
      BY <1>23, <3>1, Indices, SweeperStep DEF Inv, SweeperInv, TablesInv,
         Disconnecting, Up, Unregister, SweeperWaits, inbox, conns, channels, session,
         ghosts, SweeperType, SweeperSteps
  <2> QED
    BY <1>23, <2>1, <2>2 DEF Inv, TypeOK, AdapterType, UdpType, SweeperType,
       Unregister, inbox, conns, channels, session, ghosts
<1>24. ASSUME NEW c \in Conns, CloseReplaced(c)
      PROVE  TypeOK'
  <2>1. manager' \in [Conns -> {"none", "running", "cancelled"}]
    <3>1. /\ manager \in [Conns -> {"none", "running", "cancelled"}]
      BY DEF Inv, TypeOK
    <3> QED
      BY <1>24, <3>1, Indices DEF Inv, AdapterInv, SweeperInv, TablesInv,
         Disconnecting, Up, CloseReplaced, Cancel, inbox, conns, channels, session,
         steps, ghosts
  <2>2. replaced' \subseteq Conns
    <3>1. /\ replaced \subseteq Conns
      BY DEF Inv, TypeOK
    <3> QED
      BY <1>24, <3>1, Indices DEF Inv, AdapterInv, CloseReplaced, Cancel, inbox, conns,
         channels, session, steps, ghosts
  <2> QED
    BY <1>24, <2>1, <2>2 DEF Inv, TypeOK, AdapterType, UdpType, SweeperType,
       CloseReplaced, inbox, conns, channels, session, steps, ghosts
<1>25. ASSUME NEW d \in Devices, ExitChat(d)
      PROVE  TypeOK'
  <2>1. manager' \in [Conns -> {"none", "running", "cancelled"}]
    <3>1. /\ manager \in [Conns -> {"none", "running", "cancelled"}]
      BY DEF Inv, TypeOK
    <3> QED
      BY <1>25, <3>1, Indices DEF Inv, AdapterInv, SweeperInv, TablesInv,
         Disconnecting, Up, ExitChat, Cancel, inbox, conns, channels, session, steps,
         ghosts
  <2> QED
    BY <1>25, <2>1 DEF Inv, TypeOK, AdapterType, UdpType, SweeperType, ExitChat, inbox,
       conns, channels, session, steps, ghosts
<1>26. ASSUME NEW c \in Conns, RecvCmd(c)
      PROVE  TypeOK'
  <2>1. active' \subseteq Conns
    <3>1. /\ active \subseteq Conns
      BY DEF Inv, TypeOK
    <3> QED
      BY <1>26, <3>1, Indices DEF Inv, AdapterInv, RecvCmd, Touch, Up, inbox, conns,
         session, steps, ghosts
  <2>2. cmds' \in [Conns -> 0 .. CmdCap]
    <3>1. /\ cmds \in [Conns -> 0 .. CmdCap]
      BY DEF Inv, TypeOK
    <3> QED
      BY <1>26, <3>1, Indices DEF Inv, AdapterInv, RecvCmd, Touch, Up, inbox, conns,
         session, steps, ghosts
  <2>3. greeted' \subseteq Conns
    <3>1. /\ greeted \subseteq Conns
      BY DEF Inv, TypeOK
    <3> QED
      BY <1>26, <3>1, Indices DEF Inv, RecvCmd, Touch, Up, inbox, conns, session,
         steps, ghosts
  <2> QED
    BY <1>26, <2>1, <2>2, <2>3 DEF Inv, TypeOK, AdapterType, UdpType, SweeperType,
       RecvCmd, inbox, conns, session, steps, ghosts
<1>27. ASSUME NEW c \in Conns, RecvAudio(c)
      PROVE  TypeOK'
  <2>1. active' \subseteq Conns
    <3>1. /\ active \subseteq Conns
      BY DEF Inv, TypeOK
    <3> QED
      BY <1>27, <3>1, Indices DEF Inv, AdapterInv, RecvAudio, Touch, Up, inbox, conns,
         session, chat, steps, ghosts
  <2>2. recv' \in [Conns -> 0 .. AudioCap]
    <3>1. /\ recv \in [Conns -> 0 .. AudioCap]
      BY DEF Inv, TypeOK
    <3> QED
      BY <1>27, <3>1, Indices, HeadTailProperties DEF Inv, OwnInv, Announced, RecvAudio,
         Touch, Up, inbox, conns, session, chat, steps, ghosts
  <2> QED
    BY <1>27, <2>1, <2>2 DEF Inv, TypeOK, AdapterType, UdpType, SweeperType, RecvAudio,
       inbox, conns, session, chat, steps, ghosts
<1>28. ASSUME NEW c \in Conns, SendAudio(c)
      PROVE  TypeOK'
  <2>1. active' \subseteq Conns
    <3>1. /\ active \subseteq Conns
      BY DEF Inv, TypeOK
    <3> QED
      BY <1>28, <3>1, Indices DEF Inv, AdapterInv, SendAudio, Touch, Up, Closed, inbox,
         conns, channels, session, chat, steps, ghosts
  <2>2. crashed' \in BOOLEAN
    <3>1. /\ crashed \in BOOLEAN
      BY DEF Inv, TypeOK
    <3> QED
      BY <1>28, <3>1, Indices DEF Inv, SendAudio, Touch, Up, Closed, inbox, conns,
         channels, session, chat, steps, ghosts
  <2> QED
    BY <1>28, <2>1, <2>2 DEF Inv, TypeOK, AdapterType, UdpType, SweeperType, SendAudio,
       inbox, conns, channels, session, chat, steps, ghosts
<1> QED
  BY <1>1, <1>2, <1>3, <1>4, <1>5, <1>6, <1>7, <1>8, <1>9, <1>10, <1>11, <1>12, <1>13,
     <1>14, <1>15, <1>16, <1>17, <1>18, <1>19, <1>20, <1>21, <1>22, <1>23, <1>24,
     <1>25, <1>26, <1>27, <1>28 DEF Next, ProcessMessage, ProcessPacket, RunCallbacks,
     Session

\* The setup of a connection goes step by step.
LEMMA AdapterInvKept ==
  ASSUME Inv, ~crashed, Next
  PROVE  AdapterInv'
<1>1. CASE UNCHANGED <<created, device, adapter, destroyed, connOf, callbacks>>
  BY <1>1 DEF Inv, AdapterInv, Made
<1>2. CASE \/ BadMessage \/ FindByNonce \/ BindRemote \/ AddUdpSession \/ Deliver \/
                LookupSession \/ CloseChannels \/ ForgetNonce \/ OnClose \/ Unregister
           \/ \E d \in Devices : HandleMessage(d) \/ ExitChat(d)
           \/ \E c \in Conns : Idle(c) \/ CloseReplaced(c) \/ RecvCmd(c) \/
                RecvAudio(c) \/ SendAudio(c)
           \/ \E k \in Conns, a \in Addrs : ReceivePacket(k, a)
  BY <1>1, <1>2 DEF HandleMessage, BadMessage, ReceivePacket, FindByNonce, BindRemote,
     AddUdpSession, Deliver, Idle, LookupSession, CloseChannels, ForgetNonce, OnClose,
     Unregister, CloseReplaced, ExitChat, RecvCmd, RecvAudio, SendAudio, Find, conns,
     channels, session, chat, steps, ghosts, inbox
<1>3. CASE GetDeviceSession
  <2>1. Made' = Made
    BY <1>3 DEF GetDeviceSession, Made, conns, channels, session, chat, ghosts
  <2>2. /\ msgChan \in Seq(Devices) /\ Len(msgChan) <= MsgCap
    BY DEF Inv, TypeOK
  <2> QED
    BY <1>3, <2>1, <2>2, Indices, HeadTailProperties DEF Inv, AdapterInv, TablesInv,
       GetDeviceSession, conns, channels, session, chat, ghosts
<1>4. CASE CreateSession
  <2>1. UNCHANGED <<destroyed, connOf, callbacks>>
    BY <1>4 DEF CreateSession, inbox, channels, chat, ghosts
  <2> QED
    BY <1>4, <2>1, Indices, CreateStep DEF Inv, AdapterInv, MadeInv, TablesInv
<1>5. CASE SetDeviceSession
  <2>1. Made' = Made
    BY <1>5 DEF SetDeviceSession, Made, inbox, conns, channels, session, chat, ghosts
  <2>2. /\ connOf \in [Devices -> 0 .. MaxMessages]
    BY DEF Inv, TypeOK
  <2> QED
    BY <1>5, <2>1, <2>2, Indices, AdapterStep DEF Inv, AdapterInv, TablesInv,
       SetDeviceSession, inbox, conns, channels, session, chat, ghosts
<1>6. CASE HookDisconnect
  <2>1. Made' = Made
    BY <1>6 DEF HookDisconnect, Made, inbox, conns, channels, session, chat, ghosts
  <2>2. /\ callbacks \in [Conns -> 0 .. 3]
    BY DEF Inv, TypeOK
  <2> QED
    BY <1>6, <2>1, <2>2, Indices, AdapterStep DEF Inv, AdapterInv, TablesInv,
       HookDisconnect, AddCallback, inbox, conns, channels, session, chat, ghosts
<1>7. CASE NewChatManager
  <2>1. Made' = Made
    BY <1>7 DEF NewChatManager, Made, inbox, conns, channels, session, ghosts
  <2>2. /\ callbacks \in [Conns -> 0 .. 3]
    BY DEF Inv, TypeOK
  <2> QED
    BY <1>7, <2>1, <2>2, Indices, AdapterStep DEF Inv, AdapterInv, TablesInv,
       NewChatManager, AddCallback, inbox, conns, channels, session, ghosts
<1>8. CASE Register
  <2>1. Made' = Made
    BY <1>8 DEF Register, Made, inbox, conns, channels, session, ghosts
  <2> QED
    BY <1>8, <2>1, Indices, AdapterStep DEF Inv, AdapterInv, TablesInv, Register,
       inbox, conns, channels, session, ghosts
<1>9. CASE Start
  <2>1. Made' = Made
    BY <1>9 DEF Start, Made, inbox, conns, channels, session, chat, ghosts
  <2>2. /\ callbacks \in [Conns -> 0 .. 3]
    BY DEF Inv, TypeOK
  <2> QED
    BY <1>9, <2>1, <2>2, Indices, AdapterStep DEF Inv, AdapterInv, TablesInv, Start,
       AddCallback, inbox, conns, channels, session, chat, ghosts
<1>10. CASE PushMsgToRecvCmd
  <2>1. Made' = Made
    BY <1>10 DEF PushMsgToRecvCmd, Made, inbox, conns, session, chat, ghosts
  <2> QED
    BY <1>10, <2>1, Indices DEF Inv, AdapterInv, TablesInv, PushMsgToRecvCmd, Touch,
       Up, AdapterWaits, inbox, conns, session, chat, ghosts
<1>11. ASSUME NEW d \in Devices, Destroy(d)
      PROVE  AdapterInv'
  <2>1. Made' = Made
    BY <1>11 DEF Destroy, Made, inbox, conns, channels, session, chat
  <2>2. /\ destroyed \subseteq Conns
    BY DEF Inv, TypeOK
  <2> QED
    BY <1>11, <2>1, <2>2, Indices DEF Inv, AdapterInv, TablesInv, Destroy, SettingUp,
       inbox, conns, channels, session, chat
<1>12. CASE DeleteConn
  <2>1. Made' = Made
    BY <1>12 DEF DeleteConn, Made, inbox, conns, channels, session, chat, ghosts
  <2>2. /\ connOf \in [Devices -> 0 .. MaxMessages]
    BY DEF Inv, TypeOK
  <2> QED
    BY <1>12, <2>1, <2>2, Indices, SweeperStep DEF Inv, AdapterInv, TablesInv,
       DeleteConn, SweeperWaits, AfterDisconnect, inbox, conns, channels, session,
       chat, ghosts
<1> QED
  BY <1>2, <1>3, <1>4, <1>5, <1>6, <1>7, <1>8, <1>9, <1>10, <1>11, <1>12 DEF Next,
     ProcessMessage, ProcessPacket, RunCallbacks, Session

\* Nothing happens to what has not been made.
LEMMA MadeInvKept ==
  ASSUME Inv, ~crashed, Next
  PROVE  MadeInv'
<1>1. CASE UNCHANGED <<created, device, connId, recv, remote, closes, manager, greeted,
                       destroyed, callbacks>>
  BY <1>1 DEF Inv, MadeInv, Made
<1>2. CASE \/ BadMessage \/ GetDeviceSession \/ SetDeviceSession \/ Register \/
                PushMsgToRecvCmd \/ FindByNonce \/ AddUdpSession \/ LookupSession \/
                ForgetNonce \/ DeleteConn \/ Unregister
           \/ \E d \in Devices : HandleMessage(d)
           \/ \E c \in Conns : Idle(c) \/ SendAudio(c)
           \/ \E k \in Conns, a \in Addrs : ReceivePacket(k, a)
  BY <1>1, <1>2 DEF HandleMessage, BadMessage, GetDeviceSession, SetDeviceSession,
     Register, PushMsgToRecvCmd, ReceivePacket, FindByNonce, AddUdpSession, Idle,
     LookupSession, ForgetNonce, DeleteConn, Unregister, SendAudio, Find, conns,
     channels, session, chat, steps, ghosts, inbox
<1>3. CASE CreateSession
  <2>1. UNCHANGED <<recv, remote, closes, manager, greeted, destroyed, callbacks>>
    BY <1>3 DEF CreateSession, inbox, channels, chat, ghosts
  <2> QED
    BY <1>3, <2>1, Indices, CreateStep DEF Inv, MadeInv, AdapterInv
<1>4. CASE HookDisconnect
  <2>1. Made' = Made
    BY <1>4 DEF HookDisconnect, Made, inbox, conns, channels, session, chat, ghosts
  <2>2. /\ callbacks \in [Conns -> 0 .. 3]
    BY DEF Inv, TypeOK
  <2> QED
    BY <1>4, <2>1, <2>2, Indices, AdapterStep DEF Inv, MadeInv, AdapterInv,
       HookDisconnect, AddCallback, inbox, conns, channels, session, chat, ghosts
<1>5. CASE NewChatManager
  <2>1. Made' = Made
    BY <1>5 DEF NewChatManager, Made, inbox, conns, channels, session, ghosts
  <2>2. /\ callbacks \in [Conns -> 0 .. 3]
       /\ manager \in [Conns -> {"none", "running", "cancelled"}]
    BY DEF Inv, TypeOK
  <2> QED
    BY <1>5, <2>1, <2>2, Indices, AdapterStep DEF Inv, MadeInv, AdapterInv,
       NewChatManager, AddCallback, inbox, conns, channels, session, ghosts
<1>6. CASE Start
  <2>1. Made' = Made
    BY <1>6 DEF Start, Made, inbox, conns, channels, session, chat, ghosts
  <2>2. /\ callbacks \in [Conns -> 0 .. 3]
    BY DEF Inv, TypeOK
  <2> QED
    BY <1>6, <2>1, <2>2, Indices, AdapterStep DEF Inv, MadeInv, AdapterInv, Start,
       AddCallback, inbox, conns, channels, session, chat, ghosts
<1>7. CASE BindRemote
  <2>1. Made' = Made
    BY <1>7 DEF BindRemote, Made, inbox, conns, channels, chat, ghosts
  <2>2. /\ remote \in [Conns -> Addrs \cup {NoAddr}]
    BY DEF Inv, TypeOK
  <2> QED
    BY <1>7, <2>1, <2>2, Indices, UdpStep DEF Inv, MadeInv, AdapterInv, OwnInv, Shares,
       BindRemote, inbox, conns, channels, chat, ghosts
<1>8. CASE Deliver
  <2>1. Made' = Made
    BY <1>8 DEF Deliver, Made, inbox, conns, session, chat, ghosts
  <2>2. /\ recv \in [Conns -> 0 .. AudioCap]
    BY DEF Inv, TypeOK
  <2> QED
    BY <1>8, <2>1, <2>2, Indices DEF Inv, MadeInv, AdapterInv, OwnInv, Announced, Deliver,
       Closed, UdpWaits, inbox, conns, session, chat, ghosts
<1>9. ASSUME NEW d \in Devices, Destroy(d)
      PROVE  MadeInv'
  <2>1. Made' = Made
    BY <1>9 DEF Destroy, Made, inbox, conns, channels, session, chat
  <2>2. /\ destroyed \subseteq Conns
    BY DEF Inv, TypeOK
  <2> QED
    BY <1>9, <2>1, <2>2, Indices DEF Inv, MadeInv, AdapterInv, TablesInv, Destroy,
       SettingUp, inbox, conns, channels, session, chat
<1>10. CASE CloseChannels
  <2>1. Made' = Made
    BY <1>10 DEF CloseChannels, Made, inbox, conns, channels, session, chat, ghosts
  <2>2. /\ closes \in [Conns -> Nat]
    BY DEF Inv, TypeOK
  <2> QED
    BY <1>10, <2>1, <2>2, Indices, SweeperStep DEF Inv, MadeInv, AdapterInv,
       SweeperInv, Disconnecting, Up, CloseChannels, SweeperWaits, inbox, conns,
       channels, session, chat, ghosts
<1>11. CASE OnClose
  <2>1. Made' = Made
    BY <1>11 DEF OnClose, Made, inbox, conns, channels, session, ghosts
  <2>2. /\ manager \in [Conns -> {"none", "running", "cancelled"}]
    BY DEF Inv, TypeOK
  <2> QED
    BY <1>11, <2>1, <2>2, Indices, SweeperStep DEF Inv, MadeInv, AdapterInv,
       SweeperInv, Disconnecting, Up, OnClose, SweeperWaits, inbox, conns, channels,
       session, ghosts
<1>12. ASSUME NEW c \in Conns, CloseReplaced(c)
      PROVE  MadeInv'
  <2>1. Made' = Made
    BY <1>12 DEF CloseReplaced, Made, inbox, conns, channels, session, steps, ghosts
  <2>2. /\ manager \in [Conns -> {"none", "running", "cancelled"}]
    BY DEF Inv, TypeOK
  <2> QED
    BY <1>12, <2>1, <2>2, Indices DEF Inv, MadeInv, AdapterInv, CloseReplaced, Cancel,
       inbox, conns, channels, session, steps, ghosts
<1>13. ASSUME NEW d \in Devices, ExitChat(d)
      PROVE  MadeInv'
  <2>1. Made' = Made
    BY <1>13 DEF ExitChat, Made, inbox, conns, channels, session, steps, ghosts
  <2>2. /\ manager \in [Conns -> {"none", "running", "cancelled"}]
    BY DEF Inv, TypeOK
  <2> QED
    BY <1>13, <2>1, <2>2, Indices DEF Inv, MadeInv, AdapterInv, TablesInv, ExitChat,
       Cancel, inbox, conns, channels, session, steps, ghosts
<1>14. ASSUME NEW c \in Conns, RecvCmd(c)
      PROVE  MadeInv'
  <2>1. Made' = Made
    BY <1>14 DEF RecvCmd, Made, inbox, conns, session, steps, ghosts
  <2>2. /\ greeted \subseteq Conns
    BY DEF Inv, TypeOK
  <2> QED
    BY <1>14, <2>1, <2>2, Indices DEF Inv, MadeInv, AdapterInv, RecvCmd, Touch, Up,
       inbox, conns, session, steps, ghosts
<1>15. ASSUME NEW c \in Conns, RecvAudio(c)
      PROVE  MadeInv'
  <2>1. Made' = Made
    BY <1>15 DEF RecvAudio, Made, inbox, conns, session, chat, steps, ghosts
  <2>2. /\ recv \in [Conns -> 0 .. AudioCap]
    BY DEF Inv, TypeOK
  <2> QED
    BY <1>15, <2>1, <2>2, Indices DEF Inv, MadeInv, AdapterInv, RecvAudio, Touch, Up,
       inbox, conns, session, chat, steps, ghosts
<1> QED
  BY <1>2, <1>3, <1>4, <1>5, <1>6, <1>7, <1>8, <1>9, <1>10, <1>11, <1>12, <1>13, <1>14,
     <1>15 DEF Next, ProcessMessage, ProcessPacket, RunCallbacks, Session

\* The tables hold what was made for their keys.
LEMMA TablesInvKept ==
  ASSUME Inv, ~crashed, Next
  PROVE  TablesInv'
<1>1. CASE UNCHANGED <<created, device, connId, byNonce, registry, connOf>>
  BY <1>1 DEF Inv, TablesInv, Made
<1>2. CASE \/ BadMessage \/ GetDeviceSession \/ HookDisconnect \/ NewChatManager \/
                Start \/ PushMsgToRecvCmd \/ FindByNonce \/ BindRemote \/ AddUdpSession
                \/ Deliver \/ LookupSession \/ CloseChannels
           \/ \E d \in Devices : HandleMessage(d) \/ Destroy(d) \/ ExitChat(d)
           \/ \E c \in Conns : Idle(c) \/ CloseReplaced(c) \/ RecvCmd(c) \/
                RecvAudio(c) \/ SendAudio(c)
           \/ \E k \in Conns, a \in Addrs : ReceivePacket(k, a)
  BY <1>1, <1>2 DEF HandleMessage, BadMessage, GetDeviceSession, HookDisconnect,
     NewChatManager, Start, PushMsgToRecvCmd, ReceivePacket, FindByNonce, BindRemote,
     AddUdpSession, Deliver, Idle, Destroy, LookupSession, CloseChannels,
     CloseReplaced, ExitChat, RecvCmd, RecvAudio, SendAudio, Find, conns, channels,
     session, chat, steps, ghosts, inbox
<1>3. CASE CreateSession
  <2>1. UNCHANGED <<registry, connOf>>
    BY <1>3 DEF CreateSession, inbox, channels, chat, ghosts
  <2> QED
    BY <1>3, <2>1, Indices, CreateStep DEF Inv, TablesInv, AdapterInv, MadeInv
<1>4. CASE SetDeviceSession
  <2>1. Made' = Made
    BY <1>4 DEF SetDeviceSession, Made, inbox, conns, channels, session, chat, ghosts
  <2>2. /\ connOf \in [Devices -> 0 .. MaxMessages]
    BY DEF Inv, TypeOK
  <2> QED
    BY <1>4, <2>1, <2>2, Indices, AdapterStep DEF Inv, TablesInv, AdapterInv, MadeInv,
       SetDeviceSession, inbox, conns, channels, session, chat, ghosts
<1>5. CASE Register
  <2>1. Made' = Made
    BY <1>5 DEF Register, Made, inbox, conns, channels, session, ghosts
  <2>2. /\ registry \in [Devices -> 0 .. MaxMessages]
    BY DEF Inv, TypeOK
  <2> QED
    BY <1>5, <2>1, <2>2, Indices, AdapterStep DEF Inv, TablesInv, AdapterInv, MadeInv,
       Register, inbox, conns, channels, session, ghosts
<1>6. CASE ForgetNonce
  <2>1. Made' = Made
    BY <1>6 DEF ForgetNonce, Made, inbox, conns, channels, chat, ghosts
  <2>2. /\ byNonce \in [ConnIds -> 0 .. MaxMessages]
    BY DEF Inv, TypeOK
  <2> QED
    BY <1>6, <2>1, <2>2, Indices, SweeperStep DEF Inv, TablesInv, AdapterInv, MadeInv,
       ForgetNonce, SweeperWaits, inbox, conns, channels, chat, ghosts
<1>7. CASE DeleteConn
  <2>1. Made' = Made
    BY <1>7 DEF DeleteConn, Made, inbox, conns, channels, session, chat, ghosts
  <2>2. /\ connOf \in [Devices -> 0 .. MaxMessages]
    BY DEF Inv, TypeOK
  <2> QED
    BY <1>7, <2>1, <2>2, Indices, SweeperStep DEF Inv, TablesInv, AdapterInv, MadeInv,
       DeleteConn, SweeperWaits, AfterDisconnect, inbox, conns, channels, session,
       chat, ghosts
<1>8. CASE OnClose
  <2>1. Made' = Made
    BY <1>8 DEF OnClose, Made, inbox, conns, channels, session, ghosts
  <2>2. /\ registry \in [Devices -> 0 .. MaxMessages]
    BY DEF Inv, TypeOK
  <2> QED
    BY <1>8, <2>1, <2>2, Indices, SweeperStep DEF Inv, TablesInv, AdapterInv, MadeInv,
       OnClose, SweeperWaits, inbox, conns, channels, session, ghosts
<1>9. CASE Unregister
  <2>1. Made' = Made
    BY <1>9 DEF Unregister, Made, inbox, conns, channels, session, ghosts
  <2>2. /\ registry \in [Devices -> 0 .. MaxMessages]
    BY DEF Inv, TypeOK
  <2> QED
    BY <1>9, <2>1, <2>2, Indices, SweeperStep DEF Inv, TablesInv, AdapterInv, MadeInv,
       Unregister, SweeperWaits, inbox, conns, channels, session, ghosts
<1> QED
  BY <1>2, <1>3, <1>4, <1>5, <1>6, <1>7, <1>8, <1>9 DEF Next, ProcessMessage,
     ProcessPacket, RunCallbacks, Session

\* The sweeper works on a connection that is in the table.
LEMMA SweeperInvKept ==
  ASSUME Inv, ~crashed, Next
  PROVE  SweeperInv'
<1>1. CASE UNCHANGED <<created, device, connId, sweeper, destroyed, connOf>>
  BY <1>1 DEF Inv, SweeperInv, Made, Disconnecting, Up
<1>2. CASE \/ BadMessage \/ GetDeviceSession \/ HookDisconnect \/ NewChatManager \/
                Register \/ Start \/ PushMsgToRecvCmd \/ FindByNonce \/ BindRemote \/
                AddUdpSession \/ Deliver
           \/ \E d \in Devices : HandleMessage(d) \/ ExitChat(d)
           \/ \E c \in Conns : Idle(c) \/ CloseReplaced(c) \/ RecvCmd(c) \/
                RecvAudio(c) \/ SendAudio(c)
           \/ \E k \in Conns, a \in Addrs : ReceivePacket(k, a)
  BY <1>1, <1>2 DEF HandleMessage, BadMessage, GetDeviceSession, HookDisconnect,
     NewChatManager, Register, Start, PushMsgToRecvCmd, ReceivePacket, FindByNonce,
     BindRemote, AddUdpSession, Deliver, Idle, CloseReplaced, ExitChat, RecvCmd,
     RecvAudio, SendAudio, conns, channels, session, chat, steps, ghosts, inbox
<1>3. CASE CreateSession
  <2>1. UNCHANGED <<sweeper, destroyed, connOf>>
    BY <1>3 DEF CreateSession, inbox, channels, chat, ghosts
  <2> QED
    BY <1>3, <2>1, Indices, CreateStep DEF Inv, SweeperInv, Disconnecting, Up,
       AdapterInv, MadeInv, TablesInv
<1>4. CASE SetDeviceSession
  <2>1. Made' = Made
    BY <1>4 DEF SetDeviceSession, Made, inbox, conns, channels, session, chat, ghosts
  <2>2. /\ connOf \in [Devices -> 0 .. MaxMessages]
    BY DEF Inv, TypeOK
  <2> QED
    BY <1>4, <2>1, <2>2, Indices, AdapterStep DEF Inv, SweeperInv, Disconnecting, Up,
       AdapterInv, MadeInv, TablesInv, SetDeviceSession, inbox, conns, channels,
       session, chat, ghosts
<1>5. ASSUME NEW d \in Devices, Destroy(d)
      PROVE  SweeperInv'
  <2>1. Made' = Made
    BY <1>5 DEF Destroy, Made, inbox, conns, channels, session, chat
  <2>2. /\ destroyed \subseteq Conns
    BY DEF Inv, TypeOK
  <2> QED
    BY <1>5, <2>1, <2>2, Indices DEF Inv, SweeperInv, Disconnecting, Up, AdapterInv,
       MadeInv, TablesInv, Destroy, SettingUp, inbox, conns, channels, session, chat
<1>6. CASE LookupSession
  <2>1. UNCHANGED <<created, device, connId, destroyed, connOf>>
    BY <1>6 DEF LookupSession, Find, inbox, conns, channels, session, chat, ghosts
  <2>2. Made' = Made
    BY <1>6 DEF LookupSession, Find, conns, Made
  <2> QED
    BY <1>6, <2>1, <2>2, Indices, FindStep DEF Inv, SweeperInv, Disconnecting, Up,
       AdapterInv, MadeInv, TablesInv
<1>7. CASE CloseChannels
  <2>1. Made' = Made
    BY <1>7 DEF CloseChannels, Made, inbox, conns, channels, session, chat, ghosts
  <2> QED
    BY <1>7, <2>1, Indices, SweeperStep DEF Inv, SweeperInv, Disconnecting, Up,
       AdapterInv, MadeInv, TablesInv, CloseChannels, SweeperWaits, inbox, conns,
       channels, session, chat, ghosts
<1>8. CASE ForgetNonce
  <2>1. Made' = Made
    BY <1>8 DEF ForgetNonce, Made, inbox, conns, channels, chat, ghosts
  <2> QED
    BY <1>8, <2>1, Indices, SweeperStep DEF Inv, SweeperInv, Disconnecting, Up,
       AdapterInv, MadeInv, TablesInv, ForgetNonce, SweeperWaits, inbox, conns,
       channels, chat, ghosts
<1>9. CASE DeleteConn
  <2>1. Made' = Made
    BY <1>9 DEF DeleteConn, Made, inbox, conns, channels, session, chat, ghosts
  <2>2. /\ connOf \in [Devices -> 0 .. MaxMessages]
    BY DEF Inv, TypeOK
  <2> QED
    BY <1>9, <2>1, <2>2, Indices, SweeperStep DEF Inv, SweeperInv, Disconnecting, Up,
       AdapterInv, MadeInv, TablesInv, DeleteConn, SweeperWaits, AfterDisconnect,
       inbox, conns, channels, session, chat, ghosts
<1>10. CASE OnClose
  <2>1. Made' = Made
    BY <1>10 DEF OnClose, Made, inbox, conns, channels, session, ghosts
  <2> QED
    BY <1>10, <2>1, Indices, SweeperStep DEF Inv, SweeperInv, Disconnecting, Up,
       AdapterInv, MadeInv, TablesInv, OnClose, SweeperWaits, inbox, conns, channels,
       session, ghosts
<1>11. CASE Unregister
  <2>1. Made' = Made
    BY <1>11 DEF Unregister, Made, inbox, conns, channels, session, ghosts
  <2> QED
    BY <1>11, <2>1, Indices, SweeperStep DEF Inv, SweeperInv, Disconnecting, Up,
       AdapterInv, MadeInv, TablesInv, Unregister, SweeperWaits, inbox, conns,
       channels, session, ghosts
<1> QED
  BY <1>2, <1>3, <1>4, <1>5, <1>6, <1>7, <1>8, <1>9, <1>10, <1>11 DEF Next,
     ProcessMessage, ProcessPacket, RunCallbacks, Session

\* The sweeper, which alone closes sessions, finds open ones only.
LEMMA OpenInvKept ==
  ASSUME Inv, ~crashed, Next
  PROVE  OpenInv'
<1>1. CASE UNCHANGED <<connId, byNonce, closes, sweeper>>
  BY <1>1 DEF Inv, OpenInv
<1>2. CASE \/ BadMessage \/ GetDeviceSession \/ SetDeviceSession \/ HookDisconnect \/
                NewChatManager \/ Register \/ Start \/ PushMsgToRecvCmd \/ FindByNonce
                \/ BindRemote \/ AddUdpSession \/ Deliver
           \/ \E d \in Devices : HandleMessage(d) \/ ExitChat(d)
           \/ \E c \in Conns : Idle(c) \/ CloseReplaced(c) \/ RecvCmd(c) \/
                RecvAudio(c) \/ SendAudio(c)
           \/ \E k \in Conns, a \in Addrs : ReceivePacket(k, a)
  BY <1>1, <1>2 DEF HandleMessage, BadMessage, GetDeviceSession, SetDeviceSession,
     HookDisconnect, NewChatManager, Register, Start, PushMsgToRecvCmd, ReceivePacket,
     FindByNonce, BindRemote, AddUdpSession, Deliver, Idle, CloseReplaced, ExitChat,
     RecvCmd, RecvAudio, SendAudio, conns, channels, session, chat, steps, ghosts,
     inbox
<1>3. CASE CreateSession
  <2>1. UNCHANGED <<closes, sweeper>>
    BY <1>3 DEF CreateSession, inbox, channels, chat, ghosts
  <2> QED
    BY <1>3, <2>1, Indices, CreateStep DEF Inv, OpenInv, MadeInv, TablesInv,
       SweeperInv, Disconnecting, Up
<1>4. ASSUME NEW d \in Devices, Destroy(d)
      PROVE  OpenInv'
  <2>1. Made' = Made
    BY <1>4 DEF Destroy, Made, inbox, conns, channels, session, chat
  <2> QED
    BY <1>4, <2>1, Indices DEF Inv, OpenInv, MadeInv, TablesInv, SweeperInv,
       Disconnecting, Up, Destroy, SettingUp, inbox, conns, channels, session, chat
<1>5. CASE LookupSession
  <2>1. UNCHANGED <<connId, byNonce, closes>>
    BY <1>5 DEF LookupSession, Find, inbox, conns, channels, session, chat, ghosts
  <2>2. Made' = Made
    BY <1>5 DEF LookupSession, Find, conns, Made
  <2> QED
    BY <1>5, <2>1, <2>2, Indices, FindStep DEF Inv, OpenInv, MadeInv, TablesInv,
       SweeperInv, Disconnecting, Up
<1>6. CASE CloseChannels
  <2>1. Made' = Made
    BY <1>6 DEF CloseChannels, Made, inbox, conns, channels, session, chat, ghosts
  <2>2. /\ closes \in [Conns -> Nat]
    BY DEF Inv, TypeOK
  <2> QED
    BY <1>6, <2>1, <2>2, Indices, SweeperStep DEF Inv, OpenInv, MadeInv, TablesInv,
       SweeperInv, Disconnecting, Up, CloseChannels, SweeperWaits, inbox, conns,
       channels, session, chat, ghosts
<1>7. CASE ForgetNonce
  <2>1. Made' = Made
    BY <1>7 DEF ForgetNonce, Made, inbox, conns, channels, chat, ghosts
  <2>2. /\ byNonce \in [ConnIds -> 0 .. MaxMessages]
    BY DEF Inv, TypeOK
  <2> QED
    BY <1>7, <2>1, <2>2, Indices, SweeperStep DEF Inv, OpenInv, MadeInv, TablesInv,
       SweeperInv, Disconnecting, Up, ForgetNonce, SweeperWaits, inbox, conns,
       channels, chat, ghosts
<1>8. CASE DeleteConn
  <2>1. Made' = Made
    BY <1>8 DEF DeleteConn, Made, inbox, conns, channels, session, chat, ghosts
  <2> QED
    BY <1>8, <2>1, Indices, SweeperStep DEF Inv, OpenInv, MadeInv, TablesInv,
       SweeperInv, Disconnecting, Up, DeleteConn, SweeperWaits, AfterDisconnect, inbox,
       conns, channels, session, chat, ghosts
<1>9. CASE OnClose
  <2>1. Made' = Made
    BY <1>9 DEF OnClose, Made, inbox, conns, channels, session, ghosts
  <2> QED
    BY <1>9, <2>1, Indices, SweeperStep DEF Inv, OpenInv, MadeInv, TablesInv,
       SweeperInv, Disconnecting, Up, OnClose, SweeperWaits, inbox, conns, channels,
       session, ghosts
<1>10. CASE Unregister
  <2>1. Made' = Made
    BY <1>10 DEF Unregister, Made, inbox, conns, channels, session, ghosts
  <2> QED
    BY <1>10, <2>1, Indices, SweeperStep DEF Inv, OpenInv, MadeInv, TablesInv,
       SweeperInv, Disconnecting, Up, Unregister, SweeperWaits, inbox, conns, channels,
       session, ghosts
<1> QED
  BY <1>2, <1>3, <1>4, <1>5, <1>6, <1>7, <1>8, <1>9, <1>10 DEF Next, ProcessMessage,
     ProcessPacket, RunCallbacks, Session

\* What has come from an address has come for good.
LEMMA OwnInvKept ==
  ASSUME Inv, ~crashed, Next
  PROVE  OwnInv'
<1>1. CASE UNCHANGED <<created, device, connId, byAddr, remote, udp, heard>>
  BY <1>1 DEF Inv, OwnInv, Made, Announced, Packet
<1>2. CASE \/ BadMessage \/ GetDeviceSession \/ SetDeviceSession \/ HookDisconnect \/
                NewChatManager \/ Register \/ Start \/ PushMsgToRecvCmd \/
                CloseChannels \/ ForgetNonce \/ DeleteConn \/ OnClose \/ Unregister
           \/ \E d \in Devices : HandleMessage(d) \/ Destroy(d) \/ ExitChat(d)
           \/ \E c \in Conns : Idle(c) \/ CloseReplaced(c) \/ RecvCmd(c) \/
                RecvAudio(c) \/ SendAudio(c)
  BY <1>1, <1>2 DEF HandleMessage, BadMessage, GetDeviceSession, SetDeviceSession,
     HookDisconnect, NewChatManager, Register, Start, PushMsgToRecvCmd, Idle, Destroy,
     CloseChannels, ForgetNonce, DeleteConn, OnClose, Unregister, CloseReplaced,
     ExitChat, RecvCmd, RecvAudio, SendAudio, conns, channels, session, chat, steps,
     ghosts, inbox
<1>3. CASE CreateSession
  <2>1. UNCHANGED <<byAddr, remote, udp, heard>>
    BY <1>3 DEF CreateSession, inbox, channels, chat, ghosts
  <2>2. /\ \A s \in Made : connId'[s] = connId[s]
        /\ remote[created'] = NoAddr
    BY <1>3, CreateStep, Indices DEF Inv, MadeInv
  <2>3. ASSUME NEW s \in Made, NEW a, Announced(s, a)
        PROVE  Announced(s, a)'
    BY <2>1, <2>2, <2>3 DEF Announced, Inv, OwnInv
  <2>4. Made' = Made \cup {created'}
    BY <1>3, CreateStep
  <2>5. Packet' = Packet
    BY <2>1 DEF Packet
  <2> QED
    BY <2>1, <2>2, <2>3, <2>4, <2>5 DEF Inv, OwnInv
<1>4. ASSUME NEW k \in Conns, NEW a \in Addrs, ReceivePacket(k, a)
      PROVE  OwnInv'
  <2>1. /\ UNCHANGED <<created, connId, byAddr, remote>>
        /\ heard' = heard \cup {[key |-> k, addr |-> a]}
        /\ udp' = [pc |-> IF byAddr[a] = 0 THEN "nonce" ELSE "deliver",
                   addr |-> a, key |-> k, to |-> byAddr[a]]
    BY <1>4 DEF ReceivePacket, conns, session
  <2>2. k \in Made
    BY <1>4 DEF ReceivePacket, Inv, MadeInv
  <2>3. ASSUME NEW s, NEW b, Announced(s, b)
        PROVE  Announced(s, b)'
    BY <2>1, <2>3 DEF Announced
  <2>4. Made' = Made /\ Packet' = [key |-> k, addr |-> a]
    BY <2>1 DEF Made, Packet
  <2>5. udp'.pc \in {"bind", "store", "deliver"} => udp'.to = byAddr[a] /\ byAddr[a] # 0
    BY <2>1
  <2>6. udp'.addr = a /\ udp'.key = k
    BY <2>1
  <2> HIDE DEF Packet
  <2>7. \A p \in heard' : p.key \in Made
    BY <2>1, <2>2 DEF Inv, OwnInv
  <2> QED
    BY <2>1, <2>2, <2>3, <2>4, <2>5, <2>6, <2>7 DEF Inv, OwnInv
<1>5. CASE FindByNonce
  <2>1. UNCHANGED <<created, connId, byAddr, remote, heard>>
    BY <1>5 DEF FindByNonce, conns, channels, session, ghosts
  <2>2. Made' = Made /\ \A s, a : Announced(s, a)' = Announced(s, a)
    BY <2>1 DEF Made, Announced
  <2>3. CASE udp' = UdpWaits
    BY <2>1, <2>2, <2>3 DEF Inv, OwnInv, UdpWaits
  <2>4. CASE udp' # UdpWaits
    <3> DEFINE s == byNonce[connId[udp.key]]
    <3>1. /\ udp.pc = "nonce" /\ s # 0
          /\ udp' = [udp EXCEPT !.pc = "bind", !.to = s] /\ udp \in UdpType
      BY <1>5, <2>4 DEF FindByNonce, Inv, TypeOK, UdpType
    <3>2. udp'.pc = "bind" /\ udp'.addr = udp.addr /\ udp'.key = udp.key /\ udp'.to = s
      BY <3>1 DEF UdpType
    <3>3. udp.addr \in Addrs /\ udp.key \in Made /\ Packet \in heard
      BY <3>1 DEF Inv, OwnInv
    <3>4. s \in Made /\ connId[s] = connId[udp.key]
      BY <3>1, <3>3 DEF Inv, TablesInv, MadeInv
    <3>5. Announced(s, udp.addr)
      BY <3>3, <3>4 DEF Announced, Packet
    <3>6. Packet' = Packet
      BY <3>2 DEF Packet
    <3> HIDE DEF s
    <3> QED
      BY <2>1, <2>2, <3>2, <3>3, <3>4, <3>5, <3>6 DEF Inv, OwnInv
  <2> QED
    BY <2>3, <2>4
<1>6. CASE BindRemote
  <2>1. UNCHANGED <<created, connId, byAddr, heard>>
    BY <1>6 DEF BindRemote, conns, ghosts
  <2>2. Made' = Made /\ \A s, a : Announced(s, a)' = Announced(s, a)
    BY <2>1 DEF Made, Announced
  <2>3. /\ udp.pc = "bind" /\ udp'.pc = "store"
        /\ udp'.addr = udp.addr /\ udp'.key = udp.key /\ udp'.to = udp.to
    BY <1>6, UdpStep DEF BindRemote, Inv
  <2>4. Packet' = Packet
    BY <2>3 DEF Packet
  <2>5. \A s \in Made : remote'[s] # NoAddr => Announced(s, remote'[s])
    <3>1. remote \in [Conns -> Addrs \cup {NoAddr}] /\ Made \subseteq Conns
      BY Indices DEF Inv, TypeOK
    <3>2. remote' = [remote EXCEPT ![udp.to] = udp.addr]
      BY <1>6 DEF BindRemote
    <3> QED
      BY <2>3, <3>1, <3>2 DEF Inv, OwnInv
  <2> QED
    BY <2>1, <2>2, <2>3, <2>4, <2>5 DEF Inv, OwnInv
<1>7. CASE AddUdpSession
  <2>1. UNCHANGED <<created, connId, remote, heard>>
    BY <1>7 DEF AddUdpSession, conns, ghosts
  <2>2. Made' = Made /\ \A s, a : Announced(s, a)' = Announced(s, a)
    BY <2>1 DEF Made, Announced
  <2>3. /\ udp.pc = "store" /\ udp'.pc = "deliver"
        /\ udp'.addr = udp.addr /\ udp'.key = udp.key /\ udp'.to = udp.to
    BY <1>7, UdpStep DEF AddUdpSession, Inv
  <2>4. Packet' = Packet
    BY <2>3 DEF Packet
  <2>5. \A a \in Addrs : byAddr'[a] # 0 => byAddr'[a] \in Made /\ Announced(byAddr'[a], a)
    <3>1. byAddr \in [Addrs -> 0 .. MaxMessages]
      BY DEF Inv, TypeOK
    <3>2. byAddr' = [byAddr EXCEPT ![udp.addr] = udp.to]
      BY <1>7 DEF AddUdpSession, AddAddr
    <3> QED
      BY <2>3, <3>1, <3>2 DEF Inv, OwnInv
  <2> QED
    BY <2>1, <2>2, <2>3, <2>4, <2>5 DEF Inv, OwnInv
<1>8. CASE Deliver
  <2>1. UNCHANGED <<created, connId, byAddr, remote, heard>> /\ udp' = UdpWaits
    BY <1>8 DEF Deliver, conns, session, ghosts
  <2>2. Made' = Made /\ \A s, a : Announced(s, a)' = Announced(s, a)
    BY <2>1 DEF Made, Announced
  <2> QED
    BY <2>1, <2>2 DEF Inv, OwnInv, UdpWaits
<1>9. CASE LookupSession
  <2>1. UNCHANGED <<created, connId, remote, udp, heard>>
    BY <1>9 DEF LookupSession, Find, conns, ghosts
  <2>2. Made' = Made /\ \A s, a : Announced(s, a)' = Announced(s, a)
    BY <2>1 DEF Made, Announced
  <2>3. Packet' = Packet
    BY <2>1 DEF Packet
  <2> QED
    BY <1>9, <2>1, <2>2, <2>3, Indices, FindStep DEF Inv, OwnInv
<1> QED
  BY <1>2, <1>3, <1>4, <1>5, <1>6, <1>7, <1>8, <1>9 DEF Next, ProcessMessage,
     ProcessPacket, RunCallbacks, Session

\* A connection is in the table until it is destroyed.
LEMMA UpInvKept ==
  ASSUME Inv, ~crashed, Next
  PROVE  UpInv'
<1>1. CASE UNCHANGED <<created, device, adapter, sweeper, destroyed, connOf>>
  BY <1>1 DEF Inv, UpInv, Made, Disconnecting, Up
<1>2. CASE \/ BadMessage \/ FindByNonce \/ BindRemote \/ AddUdpSession \/ Deliver
           \/ \E d \in Devices : HandleMessage(d) \/ ExitChat(d)
           \/ \E c \in Conns : Idle(c) \/ CloseReplaced(c) \/ RecvCmd(c) \/
                RecvAudio(c) \/ SendAudio(c)
           \/ \E k \in Conns, a \in Addrs : ReceivePacket(k, a)
  BY <1>1, <1>2 DEF HandleMessage, BadMessage, ReceivePacket, FindByNonce, BindRemote,
     AddUdpSession, Deliver, Idle, CloseReplaced, ExitChat, RecvCmd, RecvAudio,
     SendAudio, conns, channels, session, chat, steps, ghosts, inbox
<1>3. CASE GetDeviceSession
  <2>1. Made' = Made
    BY <1>3 DEF GetDeviceSession, Made, conns, channels, session, chat, ghosts
  <2> QED
    BY <1>3, <2>1, Indices DEF Inv, UpInv, Disconnecting, Up, AdapterInv, MadeInv,
       TablesInv, SweeperInv, GetDeviceSession, conns, channels, session, chat, ghosts
<1>4. CASE CreateSession
  <2>1. UNCHANGED <<sweeper, destroyed, connOf>>
    BY <1>4 DEF CreateSession, inbox, channels, chat, ghosts
  <2> QED
    BY <1>4, <2>1, Indices, CreateStep DEF Inv, UpInv, Disconnecting, Up, AdapterInv,
       MadeInv, TablesInv, SweeperInv
<1>5. CASE SetDeviceSession
  <2>1. Made' = Made
    BY <1>5 DEF SetDeviceSession, Made, inbox, conns, channels, session, chat, ghosts
  <2>2. /\ connOf \in [Devices -> 0 .. MaxMessages]
    BY DEF Inv, TypeOK
  <2> QED
    BY <1>5, <2>1, <2>2, Indices, AdapterStep DEF Inv, UpInv, Disconnecting, Up,
       AdapterInv, MadeInv, TablesInv, SweeperInv, SetDeviceSession, inbox, conns,
       channels, session, chat, ghosts
<1>6. CASE HookDisconnect
  <2>1. Made' = Made
    BY <1>6 DEF HookDisconnect, Made, inbox, conns, channels, session, chat, ghosts
  <2> QED
    BY <1>6, <2>1, Indices, AdapterStep DEF Inv, UpInv, Disconnecting, Up, AdapterInv,
       MadeInv, TablesInv, SweeperInv, HookDisconnect, AddCallback, inbox, conns,
       channels, session, chat, ghosts
<1>7. CASE NewChatManager
  <2>1. Made' = Made
    BY <1>7 DEF NewChatManager, Made, inbox, conns, channels, session, ghosts
  <2> QED
    BY <1>7, <2>1, Indices, AdapterStep DEF Inv, UpInv, Disconnecting, Up, AdapterInv,
       MadeInv, TablesInv, SweeperInv, NewChatManager, AddCallback, inbox, conns,
       channels, session, ghosts
<1>8. CASE Register
  <2>1. Made' = Made
    BY <1>8 DEF Register, Made, inbox, conns, channels, session, ghosts
  <2> QED
    BY <1>8, <2>1, Indices, AdapterStep DEF Inv, UpInv, Disconnecting, Up, AdapterInv,
       MadeInv, TablesInv, SweeperInv, Register, inbox, conns, channels, session,
       ghosts
<1>9. CASE Start
  <2>1. Made' = Made
    BY <1>9 DEF Start, Made, inbox, conns, channels, session, chat, ghosts
  <2> QED
    BY <1>9, <2>1, Indices, AdapterStep DEF Inv, UpInv, Disconnecting, Up, AdapterInv,
       MadeInv, TablesInv, SweeperInv, Start, AddCallback, inbox, conns, channels,
       session, chat, ghosts
<1>10. CASE PushMsgToRecvCmd
  <2>1. Made' = Made
    BY <1>10 DEF PushMsgToRecvCmd, Made, inbox, conns, session, chat, ghosts
  <2> QED
    BY <1>10, <2>1, Indices DEF Inv, UpInv, Disconnecting, Up, AdapterInv, MadeInv,
       TablesInv, SweeperInv, PushMsgToRecvCmd, Touch, AdapterWaits, inbox, conns,
       session, chat, ghosts
<1>11. ASSUME NEW d \in Devices, Destroy(d)
      PROVE  UpInv'
  <2>1. Made' = Made
    BY <1>11 DEF Destroy, Made, inbox, conns, channels, session, chat
  <2>2. /\ destroyed \subseteq Conns
    BY DEF Inv, TypeOK
  <2> QED
    BY <1>11, <2>1, <2>2, Indices DEF Inv, UpInv, Disconnecting, Up, AdapterInv,
       MadeInv, TablesInv, SweeperInv, Destroy, SettingUp, inbox, conns, channels,
       session, chat
<1>12. CASE LookupSession
  <2>1. UNCHANGED <<created, device, adapter, destroyed, connOf>>
    BY <1>12 DEF LookupSession, Find, inbox, conns, channels, session, chat, ghosts
  <2>2. Made' = Made
    BY <1>12 DEF LookupSession, Find, conns, Made
  <2> QED
    BY <1>12, <2>1, <2>2, Indices, FindStep DEF Inv, UpInv, Disconnecting, Up,
       AdapterInv, MadeInv, TablesInv, SweeperInv
<1>13. CASE CloseChannels
  <2>1. Made' = Made
    BY <1>13 DEF CloseChannels, Made, inbox, conns, channels, session, chat, ghosts
  <2> QED
    BY <1>13, <2>1, Indices, SweeperStep DEF Inv, UpInv, Disconnecting, Up, AdapterInv,
       MadeInv, TablesInv, SweeperInv, CloseChannels, SweeperWaits, inbox, conns,
       channels, session, chat, ghosts
<1>14. CASE ForgetNonce
  <2>1. Made' = Made
    BY <1>14 DEF ForgetNonce, Made, inbox, conns, channels, chat, ghosts
  <2> QED
    BY <1>14, <2>1, Indices, SweeperStep DEF Inv, UpInv, Disconnecting, Up, AdapterInv,
       MadeInv, TablesInv, SweeperInv, ForgetNonce, SweeperWaits, inbox, conns,
       channels, chat, ghosts
<1>15. CASE DeleteConn
  <2>1. Made' = Made
    BY <1>15 DEF DeleteConn, Made, inbox, conns, channels, session, chat, ghosts
  <2>2. /\ connOf \in [Devices -> 0 .. MaxMessages]
    BY DEF Inv, TypeOK
  <2> QED
    BY <1>15, <2>1, <2>2, Indices, SweeperStep DEF Inv, UpInv, Disconnecting, Up,
       AdapterInv, MadeInv, TablesInv, SweeperInv, DeleteConn, SweeperWaits,
       AfterDisconnect, inbox, conns, channels, session, chat, ghosts
<1>16. CASE OnClose
  <2>1. Made' = Made
    BY <1>16 DEF OnClose, Made, inbox, conns, channels, session, ghosts
  <2> QED
    BY <1>16, <2>1, Indices, SweeperStep DEF Inv, UpInv, Disconnecting, Up, AdapterInv,
       MadeInv, TablesInv, SweeperInv, OnClose, SweeperWaits, inbox, conns, channels,
       session, ghosts
<1>17. CASE Unregister
  <2>1. Made' = Made
    BY <1>17 DEF Unregister, Made, inbox, conns, channels, session, ghosts
  <2> QED
    BY <1>17, <2>1, Indices, SweeperStep DEF Inv, UpInv, Disconnecting, Up, AdapterInv,
       MadeInv, TablesInv, SweeperInv, Unregister, SweeperWaits, inbox, conns,
       channels, session, ghosts
<1> QED
  BY <1>2, <1>3, <1>4, <1>5, <1>6, <1>7, <1>8, <1>9, <1>10, <1>11, <1>12, <1>13, <1>14,
     <1>15, <1>16, <1>17 DEF Next, ProcessMessage, ProcessPacket, RunCallbacks, Session

\* A session with an id of its own goes with its connection.
LEMMA SessionInvKept ==
  ASSUME Inv, ~crashed, Next
  PROVE  SessionInv'
<1>1. CASE UNCHANGED <<created, connId, byNonce, closes, sweeper, destroyed>>
  BY <1>1 DEF Inv, SessionInv, Made, Alone
<1>2. CASE \/ BadMessage \/ GetDeviceSession \/ SetDeviceSession \/ HookDisconnect \/
                NewChatManager \/ Register \/ Start \/ PushMsgToRecvCmd \/ FindByNonce
                \/ BindRemote \/ AddUdpSession \/ Deliver
           \/ \E d \in Devices : HandleMessage(d) \/ ExitChat(d)
           \/ \E c \in Conns : Idle(c) \/ CloseReplaced(c) \/ RecvCmd(c) \/
                RecvAudio(c) \/ SendAudio(c)
           \/ \E k \in Conns, a \in Addrs : ReceivePacket(k, a)
  BY <1>1, <1>2 DEF HandleMessage, BadMessage, GetDeviceSession, SetDeviceSession,
     HookDisconnect, NewChatManager, Register, Start, PushMsgToRecvCmd, ReceivePacket,
     FindByNonce, BindRemote, AddUdpSession, Deliver, Idle, CloseReplaced, ExitChat,
     RecvCmd, RecvAudio, SendAudio, conns, channels, session, chat, steps, ghosts,
     inbox
<1>3. CASE CreateSession
  <2>1. UNCHANGED <<closes, sweeper, destroyed>>
    BY <1>3 DEF CreateSession, inbox, channels, chat, ghosts
  <2>2. /\ \A s \in Made : connId'[s] = connId[s]
        /\ closes[created'] = 0 /\ created' \notin destroyed
    BY <1>3, CreateStep, Indices DEF Inv, MadeInv
  <2>3. Made' = Made \cup {created'} /\ byNonce'[connId'[created']] = created'
    BY <1>3, CreateStep
  <2>4. ASSUME NEW c \in Made, Alone(c)'
        PROVE  Alone(c) /\ byNonce'[connId'[c]] = byNonce[connId[c]]
    <3>1. \A t \in Made \cup {created'} : connId'[t] = connId'[c] => t = c
      BY <2>3, <2>4 DEF Alone, Made
    <3>2. Alone(c)
      BY <2>2, <3>1 DEF Alone, Made
    <3>3. connId[c] \in ConnIds /\ connId'[created'] # connId[c]
      BY <1>3, <2>2, <3>1, CreateStep DEF Inv, MadeInv
    <3> QED
      BY <1>3, <2>2, <3>2, <3>3, CreateStep
  <2> QED
    BY <2>1, <2>2, <2>3, <2>4 DEF Inv, SessionInv
<1>4. ASSUME NEW d \in Devices, Destroy(d)
      PROVE  SessionInv'
  <2>1. Made' = Made
    BY <1>4 DEF Destroy, Made, inbox, conns, channels, session, chat
  <2>2. /\ destroyed \subseteq Conns
    BY DEF Inv, TypeOK
  <2>3. UNCHANGED <<byNonce, connId, closes>> /\ \A c \in Made : Alone(c)' = Alone(c)
    BY <1>4 DEF Destroy, conns, session, Alone
  <2>4. /\ destroyed' = destroyed \cup {connOf[d]}
        /\ sweeper.pc = "wait" /\ sweeper'.pc = "lookup" /\ sweeper'.conn = connOf[d]
    BY <1>4 DEF Destroy
  <2>5. ASSUME NEW c \in Made
        PROVE  /\ c \notin destroyed \/ (sweeper.conn = c /\ sweeper.pc \in {"lookup", "close"})
                    <=> c \notin destroyed
               /\ c \notin destroyed' \/ (sweeper'.conn = c /\ sweeper'.pc \in {"lookup", "close"})
                    <=> c \notin destroyed \/ c = connOf[d]
    BY <2>4
  <2>6. connOf[d] \in Made => connOf[d] \notin destroyed
    <3>1. connOf[d] \in Made => Up(connOf[d])
      BY Indices DEF Inv, TablesInv, Up, Made
    <3> QED
      BY <3>1, <2>4 DEF Inv, UpInv, Disconnecting
  <2> QED
    BY <2>1, <2>3, <2>4, <2>5, <2>6 DEF Inv, SessionInv
<1>5. CASE LookupSession
  <2>1. UNCHANGED <<created, connId, byNonce, closes, destroyed>>
    BY <1>5 DEF LookupSession, Find, inbox, conns, channels, session, chat, ghosts
  <2>2. Made' = Made
    BY <1>5 DEF LookupSession, Find, conns, Made
  <2> QED
    BY <1>5, <2>1, <2>2, Indices, FindStep DEF Inv, SessionInv, Alone, MadeInv,
       TablesInv, SweeperInv, Disconnecting, Up
<1>6. CASE CloseChannels
  <2>1. Made' = Made
    BY <1>6 DEF CloseChannels, Made, inbox, conns, channels, session, chat, ghosts
  <2>2. /\ closes \in [Conns -> Nat]
    BY DEF Inv, TypeOK
  <2>3. /\ UNCHANGED <<byNonce, connId, destroyed>> /\ \A c \in Made : Alone(c)' = Alone(c)
        /\ closes' = [closes EXCEPT ![sweeper.session] = @ + 1]
        /\ Sweeper("close", "forget")
    BY <1>6 DEF CloseChannels, conns, ghosts, Alone
  <2>4. /\ sweeper.pc = "close" /\ sweeper'.pc = "forget" /\ sweeper'.conn = sweeper.conn
    BY <2>3, SweeperStep DEF Inv
  <2>5. /\ sweeper.conn \in Made /\ sweeper.conn \in destroyed
        /\ sweeper.session \in Made /\ connId[sweeper.session] = connId[sweeper.conn]
    BY <2>4 DEF Inv, SweeperInv
  <2>6. ASSUME NEW c \in Made, Alone(c)
        PROVE  c = sweeper.session <=> c = sweeper.conn
    BY <2>5, <2>6 DEF Alone, Made
  <2>7. ASSUME NEW c \in Made
        PROVE  IF c = sweeper.session THEN closes'[c] # 0 ELSE closes'[c] = closes[c]
    BY <2>2, <2>3, Indices
  <2> QED
    BY <2>1, <2>3, <2>4, <2>5, <2>6, <2>7 DEF Inv, SessionInv
<1>7. CASE ForgetNonce
  <2>1. Made' = Made
    BY <1>7 DEF ForgetNonce, Made, inbox, conns, channels, chat, ghosts
  <2>2. /\ byNonce \in [ConnIds -> 0 .. MaxMessages]
    BY DEF Inv, TypeOK
  <2>3. /\ UNCHANGED <<closes, connId, destroyed>> /\ \A c \in Made : Alone(c)' = Alone(c)
        /\ byNonce' = [byNonce EXCEPT ![connId[sweeper.conn]] = 0]
        /\ Sweeper("forget", "delete")
    BY <1>7 DEF ForgetNonce, conns, ghosts, Alone
  <2>4. /\ sweeper.pc = "forget" /\ sweeper'.pc = "delete" /\ sweeper'.conn = sweeper.conn
    BY <2>3, SweeperStep DEF Inv
  <2>5. sweeper.conn \in Made /\ sweeper.conn \in destroyed
    BY <2>4 DEF Inv, SweeperInv
  <2>6. ASSUME NEW c \in Made, Alone(c)
        PROVE  byNonce'[connId[c]] = IF c = sweeper.conn THEN 0 ELSE byNonce[connId[c]]
    BY <2>2, <2>3, <2>5, <2>6 DEF Alone, Made, Inv, MadeInv
  <2>7. 0 \notin Made
    BY Indices
  <2> QED
    BY <2>1, <2>3, <2>4, <2>5, <2>6, <2>7 DEF Inv, SessionInv
<1>8. CASE DeleteConn
  <2>1. Made' = Made
    BY <1>8 DEF DeleteConn, Made, inbox, conns, channels, session, chat, ghosts
  <2> QED
    BY <1>8, <2>1, Indices, SweeperStep DEF Inv, SessionInv, Alone, MadeInv, TablesInv,
       SweeperInv, Disconnecting, Up, DeleteConn, SweeperWaits, AfterDisconnect, inbox,
       conns, channels, session, chat, ghosts
<1>9. CASE OnClose
  <2>1. Made' = Made
    BY <1>9 DEF OnClose, Made, inbox, conns, channels, session, ghosts
  <2> QED
    BY <1>9, <2>1, Indices, SweeperStep DEF Inv, SessionInv, Alone, MadeInv, TablesInv,
       SweeperInv, Disconnecting, Up, OnClose, SweeperWaits, inbox, conns, channels,
       session, ghosts
<1>10. CASE Unregister
  <2>1. Made' = Made
    BY <1>10 DEF Unregister, Made, inbox, conns, channels, session, ghosts
  <2> QED
    BY <1>10, <2>1, Indices, SweeperStep DEF Inv, SessionInv, Alone, MadeInv,
       TablesInv, SweeperInv, Disconnecting, Up, Unregister, SweeperWaits, inbox,
       conns, channels, session, ghosts
<1> QED
  BY <1>2, <1>3, <1>4, <1>5, <1>6, <1>7, <1>8, <1>9, <1>10 DEF Next, ProcessMessage,
     ProcessPacket, RunCallbacks, Session

\* So does the manager of a connection that was set up.
LEMMA ManagerInvKept ==
  ASSUME Inv, ~crashed, Next
  PROVE  ManagerInv'
<1>1. CASE UNCHANGED <<created, device, manager, registry, adapter, sweeper, destroyed,
                       early, callbacks>>
  BY <1>1 DEF Inv, ManagerInv, Made, Disconnecting, SettingUp
<1>2. CASE \/ BadMessage \/ FindByNonce \/ BindRemote \/ AddUdpSession \/ Deliver
           \/ \E d \in Devices : HandleMessage(d)
           \/ \E c \in Conns : Idle(c) \/ RecvCmd(c) \/ RecvAudio(c) \/ SendAudio(c)
           \/ \E k \in Conns, a \in Addrs : ReceivePacket(k, a)
  BY <1>1, <1>2 DEF HandleMessage, BadMessage, ReceivePacket, FindByNonce, BindRemote,
     AddUdpSession, Deliver, Idle, RecvCmd, RecvAudio, SendAudio, conns, channels,
     session, chat, steps, ghosts, inbox
<1>3. CASE GetDeviceSession
  <2>1. Made' = Made
    BY <1>3 DEF GetDeviceSession, Made, conns, channels, session, chat, ghosts
  <2>2. /\ callbacks \in [Conns -> 0 .. 3]
    BY DEF Inv, TypeOK
  <2> QED
    BY <1>3, <2>1, <2>2, Indices DEF Inv, ManagerInv, Disconnecting, SettingUp,
       AdapterInv, MadeInv, TablesInv, SweeperInv, Up, GetDeviceSession, conns,
       channels, session, chat, ghosts, SetupSteps
<1>4. CASE CreateSession
  <2>1. UNCHANGED <<manager, registry, sweeper, destroyed, early, callbacks>>
    BY <1>4 DEF CreateSession, inbox, channels, chat, ghosts
  <2> QED
    BY <1>4, <2>1, Indices, CreateStep DEF Inv, ManagerInv, Disconnecting, SettingUp,
       AdapterInv, MadeInv, TablesInv, SweeperInv, Up, SetupSteps
<1>5. CASE SetDeviceSession
  <2>1. Made' = Made
    BY <1>5 DEF SetDeviceSession, Made, inbox, conns, channels, session, chat, ghosts
  <2>2. /\ callbacks \in [Conns -> 0 .. 3]
    BY DEF Inv, TypeOK
  <2> QED
    BY <1>5, <2>1, <2>2, Indices, AdapterStep DEF Inv, ManagerInv, Disconnecting,
       SettingUp, AdapterInv, MadeInv, TablesInv, SweeperInv, Up, SetDeviceSession,
       inbox, conns, channels, session, chat, ghosts, SetupSteps
<1>6. CASE HookDisconnect
  <2>1. Made' = Made
    BY <1>6 DEF HookDisconnect, Made, inbox, conns, channels, session, chat, ghosts
  <2>2. /\ callbacks \in [Conns -> 0 .. 3]
    BY DEF Inv, TypeOK
  <2> QED
    BY <1>6, <2>1, <2>2, Indices, AdapterStep DEF Inv, ManagerInv, Disconnecting,
       SettingUp, AdapterInv, MadeInv, TablesInv, SweeperInv, Up, HookDisconnect,
       AddCallback, inbox, conns, channels, session, chat, ghosts, SetupSteps
<1>7. CASE NewChatManager
  <2>1. Made' = Made
    BY <1>7 DEF NewChatManager, Made, inbox, conns, channels, session, ghosts
  <2>2. /\ callbacks \in [Conns -> 0 .. 3]
       /\ manager \in [Conns -> {"none", "running", "cancelled"}]
    BY DEF Inv, TypeOK
  <2> QED
    BY <1>7, <2>1, <2>2, Indices, AdapterStep DEF Inv, ManagerInv, Disconnecting,
       SettingUp, AdapterInv, MadeInv, TablesInv, SweeperInv, Up, NewChatManager,
       AddCallback, inbox, conns, channels, session, ghosts, SetupSteps
<1>8. CASE Register
  <2>1. Made' = Made
    BY <1>8 DEF Register, Made, inbox, conns, channels, session, ghosts
  <2>2. /\ registry \in [Devices -> 0 .. MaxMessages]
       /\ callbacks \in [Conns -> 0 .. 3]
    BY DEF Inv, TypeOK
  <2> QED
    BY <1>8, <2>1, <2>2, Indices, AdapterStep DEF Inv, ManagerInv, Disconnecting,
       SettingUp, AdapterInv, MadeInv, TablesInv, SweeperInv, Up, Register, inbox,
       conns, channels, session, ghosts, SetupSteps
<1>9. CASE Start
  <2>1. Made' = Made
    BY <1>9 DEF Start, Made, inbox, conns, channels, session, chat, ghosts
  <2>2. /\ callbacks \in [Conns -> 0 .. 3]
    BY DEF Inv, TypeOK
  <2> QED
    BY <1>9, <2>1, <2>2, Indices, AdapterStep DEF Inv, ManagerInv, Disconnecting,
       SettingUp, AdapterInv, MadeInv, TablesInv, SweeperInv, Up, Start, AddCallback,
       inbox, conns, channels, session, chat, ghosts, SetupSteps
<1>10. CASE PushMsgToRecvCmd
  <2>1. Made' = Made
    BY <1>10 DEF PushMsgToRecvCmd, Made, inbox, conns, session, chat, ghosts
  <2>2. /\ callbacks \in [Conns -> 0 .. 3]
    BY DEF Inv, TypeOK
  <2> QED
    BY <1>10, <2>1, <2>2, Indices DEF Inv, ManagerInv, Disconnecting, SettingUp,
       AdapterInv, MadeInv, TablesInv, SweeperInv, Up, PushMsgToRecvCmd, Touch,
       AdapterWaits, inbox, conns, session, chat, ghosts, SetupSteps
<1>11. ASSUME NEW d \in Devices, Destroy(d)
      PROVE  ManagerInv'
  <2>1. Made' = Made
    BY <1>11 DEF Destroy, Made, inbox, conns, channels, session, chat
  <2>2. /\ destroyed \subseteq Conns
       /\ early \subseteq Conns
       /\ callbacks \in [Conns -> 0 .. 3]
    BY DEF Inv, TypeOK
  <2> QED
    BY <1>11, <2>1, <2>2, Indices DEF Inv, ManagerInv, Disconnecting, SettingUp,
       AdapterInv, MadeInv, TablesInv, SweeperInv, Up, Destroy, inbox, conns, channels,
       session, chat, SetupSteps
<1>12. CASE LookupSession
  <2>1. UNCHANGED <<created, device, manager, registry, adapter, destroyed, early, callbacks>>
    BY <1>12 DEF LookupSession, Find, inbox, conns, channels, session, chat, ghosts
  <2>2. Made' = Made
    BY <1>12 DEF LookupSession, Find, conns, Made
  <2> QED
    BY <1>12, <2>1, <2>2, Indices, FindStep DEF Inv, ManagerInv, Disconnecting,
       SettingUp, AdapterInv, MadeInv, TablesInv, SweeperInv, Up, SetupSteps
<1>13. CASE CloseChannels
  <2>1. Made' = Made
    BY <1>13 DEF CloseChannels, Made, inbox, conns, channels, session, chat, ghosts
  <2> QED
    BY <1>13, <2>1, Indices, SweeperStep DEF Inv, ManagerInv, Disconnecting, SettingUp,
       AdapterInv, MadeInv, TablesInv, SweeperInv, Up, CloseChannels, SweeperWaits,
       inbox, conns, channels, session, chat, ghosts, SetupSteps
<1>14. CASE ForgetNonce
  <2>1. Made' = Made
    BY <1>14 DEF ForgetNonce, Made, inbox, conns, channels, chat, ghosts
  <2> QED
    BY <1>14, <2>1, Indices, SweeperStep DEF Inv, ManagerInv, Disconnecting, SettingUp,
       AdapterInv, MadeInv, TablesInv, SweeperInv, Up, ForgetNonce, SweeperWaits,
       inbox, conns, channels, chat, ghosts, SetupSteps
<1>15. CASE DeleteConn
  <2>1. Made' = Made
    BY <1>15 DEF DeleteConn, Made, inbox, conns, channels, session, chat, ghosts
  <2> QED
    BY <1>15, <2>1, Indices, SweeperStep DEF Inv, ManagerInv, Disconnecting, SettingUp,
       AdapterInv, MadeInv, TablesInv, SweeperInv, Up, DeleteConn, SweeperWaits,
       AfterDisconnect, inbox, conns, channels, session, chat, ghosts, SetupSteps
<1>16. CASE OnClose
  <2>1. Made' = Made
    BY <1>16 DEF OnClose, Made, inbox, conns, channels, session, ghosts
  <2>2. /\ manager \in [Conns -> {"none", "running", "cancelled"}]
       /\ registry \in [Devices -> 0 .. MaxMessages]
    BY DEF Inv, TypeOK
  <2> QED
    BY <1>16, <2>1, <2>2, Indices, SweeperStep DEF Inv, ManagerInv, Disconnecting,
       SettingUp, AdapterInv, MadeInv, TablesInv, SweeperInv, Up, OnClose,
       SweeperWaits, inbox, conns, channels, session, ghosts, SetupSteps
<1>17. CASE Unregister
  <2>1. Made' = Made
    BY <1>17 DEF Unregister, Made, inbox, conns, channels, session, ghosts
  <2>2. /\ registry \in [Devices -> 0 .. MaxMessages]
    BY DEF Inv, TypeOK
  <2> QED
    BY <1>17, <2>1, <2>2, Indices, SweeperStep DEF Inv, ManagerInv, Disconnecting,
       SettingUp, AdapterInv, MadeInv, TablesInv, SweeperInv, Up, Unregister,
       SweeperWaits, inbox, conns, channels, session, ghosts, SetupSteps
<1>18. ASSUME NEW c \in Conns, CloseReplaced(c)
      PROVE  ManagerInv'
  <2>1. Made' = Made
    BY <1>18 DEF CloseReplaced, Made, inbox, conns, channels, session, steps, ghosts
  <2>2. /\ manager \in [Conns -> {"none", "running", "cancelled"}]
    BY DEF Inv, TypeOK
  <2> QED
    BY <1>18, <2>1, <2>2, Indices DEF Inv, ManagerInv, Disconnecting, SettingUp,
       AdapterInv, MadeInv, TablesInv, SweeperInv, Up, CloseReplaced, Cancel, inbox,
       conns, channels, session, steps, ghosts, SetupSteps
<1>19. ASSUME NEW d \in Devices, ExitChat(d)
      PROVE  ManagerInv'
  <2>1. Made' = Made
    BY <1>19 DEF ExitChat, Made, inbox, conns, channels, session, steps, ghosts
  <2>2. /\ manager \in [Conns -> {"none", "running", "cancelled"}]
    BY DEF Inv, TypeOK
  <2> QED
    BY <1>19, <2>1, <2>2, Indices DEF Inv, ManagerInv, Disconnecting, SettingUp,
       AdapterInv, MadeInv, TablesInv, SweeperInv, Up, ExitChat, Cancel, inbox, conns,
       channels, session, steps, ghosts, SetupSteps
<1> QED
  BY <1>2, <1>3, <1>4, <1>5, <1>6, <1>7, <1>8, <1>9, <1>10, <1>11, <1>12, <1>13, <1>14,
     <1>15, <1>16, <1>17, <1>18, <1>19 DEF Next, ProcessMessage, ProcessPacket,
     RunCallbacks, Session

\* When nothing changes neither do the parts.
LEMMA StutterInv == Inv /\ UNCHANGED vars => Inv'
<1> SUFFICES ASSUME Inv, UNCHANGED vars PROVE Inv'
  OBVIOUS
<1> USE DEF Inv, vars, inbox, conns, channels, session, chat, steps, ghosts
<1>1. TypeOK'
  BY DEF TypeOK
<1>2. AdapterInv' /\ MadeInv' /\ TablesInv'
  BY DEF AdapterInv, MadeInv, TablesInv, Made
<1>3. SweeperInv' /\ OpenInv' /\ UpInv'
  BY DEF SweeperInv, OpenInv, UpInv, Made, Disconnecting, Up
<1>4. OwnInv'
  BY DEF OwnInv, Made, Announced, Packet
<1>5. SessionInv' /\ ManagerInv'
  BY DEF SessionInv, ManagerInv, Made, Alone, Disconnecting, SettingUp
<1> QED
  BY <1>1, <1>2, <1>3, <1>4, <1>5

LEMMA StepInv == Inv /\ [Next]_vars => Inv'
<1> SUFFICES ASSUME Inv, [Next]_vars PROVE Inv'
  OBVIOUS
<1>1. CASE UNCHANGED vars
  BY <1>1, StutterInv
<1>2. CASE Next
  <2>1. ~crashed
    BY <1>2 DEF Next
  <2>2. TypeOK'
    BY <1>2, <2>1, TypesKept
  <2> QED
    BY <1>2, <2>1, <2>2, AdapterInvKept, MadeInvKept, TablesInvKept, SweeperInvKept,
       OpenInvKept, OwnInvKept, UpInvKept, SessionInvKept, ManagerInvKept DEF Inv
<1> QED
  BY <1>1, <1>2

LEMMA AlwaysInv == Spec => []Inv
BY InitInv, StepInv, PTL DEF Spec

----------------------------------------------------------------------------

\* The types, and with them the bounds on the queues: no more callbacks than three,
\* no more messages or frames than a channel has room for.
THEOREM TypeCorrect == Spec => []TypeOK
<1>1. Inv => TypeOK
  BY DEF Inv
<1> QED
  BY <1>1, AlwaysInv, PTL

\* UdpSession.Destroy never closes a channel a second time, whatever ids are drawn.
THEOREM SessionsClosedOnce == Spec => []ClosedOnce
<1>1. Inv => ClosedOnce
  BY DEF Inv, OpenInv, ClosedOnce
<1> QED
  BY <1>1, AlwaysInv, PTL

\* Whatever addresses the devices have and take over from one another: the UDP server
\* gives a session audio of an address, and sends audio there, only when the nonce of the
\* session has come from it; over an address of one device only it gives no session the
\* audio of another, unless it gave both the same id.
THEOREM AudioIsOwn == Spec => []OwnAudioOnly
<1>1. ASSUME Inv, udp.pc = "deliver"
      PROVE  /\ Announced(udp.to, udp.addr)
             /\ OneSender(udp.addr) => Shares(udp.to, device[udp.key])
  <2>1. Packet \in heard /\ Announced(udp.to, udp.addr)
    BY <1>1 DEF Inv, OwnInv
  <2>2. PICK p \in heard : p.addr = udp.addr /\ connId[p.key] = connId[udp.to]
    BY <2>1 DEF Announced
  <2>3. OneSender(udp.addr) => device[p.key] = device[udp.key]
    BY <2>1, <2>2 DEF OneSender, Packet
  <2>4. p.key \in Conns
    BY <1>1, <2>2, Indices DEF Inv, OwnInv
  <2> QED
    BY <2>1, <2>2, <2>3, <2>4 DEF Shares
<1>2. Inv => OwnAudioOnly
  BY <1>1 DEF Inv, OwnInv, OwnAudioOnly, Made
<1> QED
  BY <1>2, AlwaysInv, PTL

\* What belongs to a connection is there until it is destroyed and not afterwards.
THEOREM ConnectionsRetire == Spec => []RetiredTogether
<1>1. ASSUME Inv, NEW c \in Made, ~(adapter.conn = c /\ adapter.pc # "read"), sweeper.conn # c
      PROVE  /\ Up(c) <=> c \notin destroyed
             /\ Alone(c) => /\ Up(c) <=> byNonce[connId[c]] = c
                            /\ Up(c) <=> ~Closed(c)
             /\ c \in destroyed \ early => manager[c] = "cancelled" /\ registry[device[c]] # c
  <2>1. closes[c] \in Nat
    BY <1>1, Indices DEF Inv, TypeOK
  <2>2. Up(c) <=> c \notin destroyed
    BY <1>1 DEF Inv, UpInv
  <2>3. Alone(c) => (byNonce[connId[c]] = c <=> c \notin destroyed)
    BY <1>1 DEF Inv, SessionInv
  <2>4. Alone(c) => (Closed(c) <=> c \in destroyed)
    BY <1>1, <2>1 DEF Inv, SessionInv, Closed
  <2>5. c \in destroyed \ early => manager[c] = "cancelled" /\ registry[device[c]] # c
    BY <1>1 DEF Inv, ManagerInv
  <2> QED
    BY <2>2, <2>3, <2>4, <2>5
<1>2. Inv => RetiredTogether
  BY <1>1 DEF RetiredTogether, Made
<1> QED
  BY <1>2, AlwaysInv, PTL

=============================================================================
