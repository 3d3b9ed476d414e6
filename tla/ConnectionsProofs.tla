-------------------------- MODULE ConnectionsProofs --------------------------
(***************************************************************************)
(* Proofs about Connections, for any number of connections of the device.  *)
(***************************************************************************)
EXTENDS Connections, SequenceTheorems, TLAPS

----------------------------------------------------------------------------
(* Types                                                                   *)

\* The lists of calls that goroutines start with.
LEMMA CallLists ==
  ASSUME NEW c \in Conns
  PROVE  /\ <<>> \in Seq(CallType)
         /\ ManagerClose(c) \in Seq(CallType)
         /\ <<The("unlock", c)>> \in Seq(CallType)
         /\ <<The("lookup", c), The("exited", c)>> \in Seq(CallType)
         /\ <<The("close", c)>> \in Seq(CallType)
BY DEF CallType, The, ManagerClose

\* The callbacks of a connection.
LEMMA CallbacksType ==
  ASSUME TypeOK, NEW c \in Conns
  PROVE  RunCallbacks(c) \in Seq(CallType)
<1>1. callbacks[c] \in {0, 1, 2}
  BY DEF TypeOK
<1>2. CASE callbacks[c] = 0
  BY <1>2 DEF RunCallbacks
<1>3. CASE callbacks[c] = 1
  BY <1>3 DEF RunCallbacks, CallType, The
<1>4. CASE callbacks[c] = 2
  BY <1>4 DEF RunCallbacks, CallType, The
<1> QED
  BY <1>1, <1>2, <1>3, <1>4

\* Making a call leaves a list of calls.
LEMMA CallTypes ==
  ASSUME TypeOK, NEW g \in Goroutines, NEW name, NEW c \in Conns,
         NEW rest \in Seq(CallType), Call(g, name, c, rest)
  PROVE  /\ calls' \in [Goroutines -> Seq(CallType)]
         /\ calls[g] # <<>> /\ Head(calls[g]) = The(name, c)
         /\ calls'[g] = rest \o Tail(calls[g])
         /\ \A h \in Goroutines \ {g} : calls'[h] = calls[h]
<1>1. calls[g] \in Seq(CallType) /\ calls[g] # <<>>
  BY DEF TypeOK, Call
<1>2. Tail(calls[g]) \in Seq(CallType)
  BY <1>1, HeadTailProperties
<1>3. rest \o Tail(calls[g]) \in Seq(CallType)
  BY <1>2, ConcatProperties
<1> QED
  BY <1>1, <1>3 DEF TypeOK, Call

\* The next call, with the calls that it brings along.
MakesCall(g, name, c, rest) ==
  /\ Call(g, name, c, rest)
  /\ rest \in Seq(CallType)

\* Every call is one of these six, and what it brings along is a list of calls.
LEMMA MakeCallCases ==
  ASSUME TypeOK, NEW g \in Goroutines, NEW c \in Conns
  PROVE  /\ Cancel(g, c) => MakesCall(g, "cancel", c, <<>>)
         /\ Unregister(g, c) => MakesCall(g, "unregister", c, <<>>)
         /\ OnClose(g, c) => MakesCall(g, "onClose", c, <<>>)
         /\ Close(g, c) => \/ c \in isClosed /\ MakesCall(g, "close", c, <<>>)
                           \/ /\ c \notin isClosed
                              /\ MakesCall(g, "close", c, RunCallbacks(c) \o <<The("unlock", c)>>)
         /\ Unlock(g, c) => MakesCall(g, "unlock", c, <<>>)
         /\ Lookup(g, c) => \/ MakesCall(g, "lookup", c, <<>>)
                            \/ MakesCall(g, "lookup", c, ManagerClose(registry))
         /\ ExitReturns(g, c) => MakesCall(g, "exited", c, <<>>)
<1>1. <<>> \in Seq(CallType)
  BY CallLists
<1>2. RunCallbacks(c) \o <<The("unlock", c)>> \in Seq(CallType)
  BY CallbacksType, CallLists, ConcatProperties
<1>3. registry # 0 => ManagerClose(registry) \in Seq(CallType)
  BY CallLists DEF TypeOK, Conns
<1>4. Lookup(g, c) => \/ MakesCall(g, "lookup", c, <<>>)
                      \/ MakesCall(g, "lookup", c, ManagerClose(registry))
  BY <1>1, <1>3 DEF Lookup, MakesCall
<1>5. Close(g, c) => \/ c \in isClosed /\ MakesCall(g, "close", c, <<>>)
                     \/ /\ c \notin isClosed
                        /\ MakesCall(g, "close", c, RunCallbacks(c) \o <<The("unlock", c)>>)
  BY <1>1, <1>2 DEF Close, MakesCall
<1> QED
  BY <1>1, <1>4, <1>5 DEF Cancel, Unregister, OnClose, Unlock, ExitReturns, MakesCall

\* Init satisfies the types.
LEMMA TypeInit == Init => TypeOK
<1> SUFFICES ASSUME Init PROVE TypeOK
  OBVIOUS
<1>1. <<>> \in Seq(CallType)
  OBVIOUS
<1> QED
  BY <1>1, BoundAssumption
     DEF Init, TypeOK, Conns, SetupSteps, ReaderSteps, LoopSteps

\* A call keeps the types.
LEMMA TypeMakeCall ==
  ASSUME TypeOK, NEW g \in Goroutines, MakeCall(g)
  PROVE  TypeOK'
<1> PICK c \in Conns :
      \/ Cancel(g, c) \/ Unregister(g, c) \/ OnClose(g, c) \/ Close(g, c)
      \/ Unlock(g, c) \/ Lookup(g, c) \/ ExitReturns(g, c)
  BY DEF MakeCall
<1>1. calls' \in [Goroutines -> Seq(CallType)]
  BY MakeCallCases, CallTypes DEF MakesCall
<1>2. /\ registry' \in 0 .. MaxConns
      /\ cancelled' \subseteq Conns /\ exited' \subseteq Conns
      /\ isClosed' \subseteq Conns /\ locked' \subseteq Conns
  BY BoundAssumption DEF TypeOK, Cancel, Unregister, OnClose, Close, Unlock, Lookup,
     ExitReturns, connVars, ghosts
<1>3. closes' \in [Conns -> Nat]
  <2>1. closes[c] + 1 \in Nat
    BY DEF TypeOK
  <2>2. [closes EXCEPT ![c] = @ + 1] \in [Conns -> Nat]
    BY <2>1 DEF TypeOK
  <2>3. closes' = closes \/ closes' = [closes EXCEPT ![c] = @ + 1]
    BY DEF Cancel, Unregister, OnClose, Close, Unlock, Lookup, ExitReturns, ghosts
  <2> QED
    BY <2>2, <2>3 DEF TypeOK
<1>4. UNCHANGED <<accepted, callbacks, setup, reader, loop, missed>>
  BY DEF Cancel, Unregister, OnClose, Close, Unlock, Lookup, ExitReturns, connVars,
     steps, ghosts
<1> QED
  BY <1>1, <1>2, <1>3, <1>4 DEF TypeOK

\* A connection has one callback once NewChatManager has run and two once Start
\* has.
CallbackInv ==
  \A c \in Conns :
    /\ setup[c] \in {"none", "accepted"} => callbacks[c] = 0
    /\ setup[c] \in {"register", "hook"} => callbacks[c] = 1

\* A step of the setup, the reader, the loop or the worker keeps the types.
LEMMA TypeConn ==
  ASSUME TypeOK, CallbackInv, NEW c \in Conns,
         \/ Accept(c) \/ OnNewConnection(c)
         \/ ReaderPanics(c) \/ ReaderEnds(c) \/ ReadError(c)
         \/ CmdMessageLoop(c) \/ EndSession(c)
  PROVE  TypeOK'
<1>1. CASE Accept(c)
  BY <1>1, BoundAssumption
     DEF TypeOK, Accept, Setup, Conns, SetupSteps, ReaderSteps, ghosts
<1>2. CASE NewChatManager(c)
  <2>1. callbacks[c] = 0
    BY <1>2 DEF NewChatManager, Setup, CallbackInv
  <2>2. callbacks' \in [Conns -> 0 .. 2]
    BY <1>2, <2>1 DEF TypeOK, NewChatManager, AddCallback
  <2> QED
    BY <1>2, <2>2 DEF TypeOK, NewChatManager, Setup, SetupSteps, ghosts
<1>3. CASE Register(c)
  <2>1. registry # 0 =>
          registry \in Conns /\ ManagerClose(registry) \in Seq(CallType)
    BY CallLists DEF TypeOK, Conns
  <2>2. calls' \in [Goroutines -> Seq(CallType)]
    BY <1>3, <2>1 DEF TypeOK, Register
  <2>3. registry' \in 0 .. MaxConns
    BY <1>3, BoundAssumption DEF Register, Conns
  <2> QED
    BY <1>3, <2>2, <2>3 DEF TypeOK, Register, Setup, SetupSteps, connVars, ghosts
<1>4. CASE Start(c)
  <2>1. callbacks[c] = 1
    BY <1>4 DEF Start, Setup, CallbackInv
  <2>2. callbacks' \in [Conns -> 0 .. 2]
    BY <1>4, <2>1 DEF TypeOK, Start, AddCallback
  <2>3. setup' \in [Conns -> SetupSteps] /\ loop' \in [Conns -> LoopSteps]
    BY <1>4 DEF TypeOK, Start, Setup, SetupSteps, LoopSteps
  <2> QED
    BY <1>4, <2>2, <2>3 DEF TypeOK, Start, ghosts
<1>5. CASE ReaderPanics(c) \/ ReaderEnds(c)
  BY <1>5 DEF TypeOK, ReaderPanics, ReaderEnds, Reader, ReaderSteps, connVars, ghosts
<1>6. CASE ReadError(c)
  <2>1. calls' \in [Goroutines -> Seq(CallType)]
    BY <1>6, CallbacksType DEF TypeOK, ReadError
  <2> QED
    BY <1>6, <2>1 DEF TypeOK, ReadError, Reader, ReaderSteps, connVars
<1>7. CASE CmdMessageLoop(c)
  BY <1>7 DEF TypeOK, CmdMessageLoop, RecvCmd, RecvTimeout, Loop, LoopSteps, connVars,
     ghosts
<1>8. CASE EndSession(c)
  <2>1. calls' \in [Goroutines -> Seq(CallType)]
    BY <1>8, CallLists DEF TypeOK, EndSession
  <2> QED
    BY <1>8, <2>1 DEF TypeOK, EndSession, connVars, steps, ghosts
<1> QED
  BY <1>1, <1>2, <1>3, <1>4, <1>5, <1>6, <1>7, <1>8 DEF OnNewConnection

\* The callbacks follow the setup.
LEMMA CallbackStep ==
  ASSUME TypeOK, CallbackInv, Next
  PROVE  CallbackInv'
<1>1. CASE \E g \in Goroutines : MakeCall(g)
  BY <1>1 DEF MakeCall, Cancel, Unregister, OnClose, Close, Unlock, Lookup, ExitReturns,
     connVars, steps, CallbackInv
<1>2. CASE \E c \in Conns : Accept(c)
  BY <1>2 DEF Accept, Setup, CallbackInv, TypeOK
<1>3. CASE \E c \in Conns : NewChatManager(c)
  BY <1>3 DEF NewChatManager, AddCallback, Setup, CallbackInv, TypeOK
<1>4. CASE \E c \in Conns : Register(c)
  BY <1>4 DEF Register, Setup, CallbackInv, TypeOK, connVars
<1>5. CASE \E c \in Conns : Start(c)
  BY <1>5 DEF Start, AddCallback, Setup, CallbackInv, TypeOK
<1>6. CASE \E c \in Conns :
        \/ ReaderPanics(c) \/ ReaderEnds(c) \/ ReadError(c)
        \/ CmdMessageLoop(c) \/ EndSession(c)
  BY <1>6 DEF ReaderPanics, ReaderEnds, ReadError, CmdMessageLoop, RecvCmd, RecvTimeout,
     EndSession, connVars, steps, CallbackInv
<1> QED
  BY <1>1, <1>2, <1>3, <1>4, <1>5, <1>6 DEF Next, OnNewConnection

\* Every variable of the connections keeps its type, the number of callbacks of
\* a connection included: none is added twice.
THEOREM TypeCorrect == Spec => []TypeOK
<1>1. Init => TypeOK /\ CallbackInv
  BY TypeInit DEF Init, CallbackInv
<1>2. TypeOK /\ CallbackInv /\ [Next]_vars => TypeOK' /\ CallbackInv'
  <2>1. CASE Next
    <3>1. TypeOK /\ CallbackInv => TypeOK'
      BY <2>1, TypeMakeCall, TypeConn DEF Next
    <3> QED
      BY <2>1, <3>1, CallbackStep
  <2>2. CASE UNCHANGED vars
    BY <2>2 DEF vars, connVars, steps, ghosts, TypeOK, CallbackInv
  <2> QED
    BY <2>1, <2>2
<1> QED
  BY <1>1, <1>2, PTL DEF Spec

----------------------------------------------------------------------------
(* The channels are closed once                                            *)

\* isClosed records the one Close that closed the channels.
ClosesInv == \A c \in Conns : closes[c] = IF c \in isClosed THEN 1 ELSE 0

\* Close finds isClosed set or sets it under the lock: however many callers, the
\* channels are closed once (a second close of a channel would panic).
THEOREM ChannelsClosedOnce == Spec => []ClosedOnce
<1>1. Init => ClosesInv
  BY DEF Init, ClosesInv
<1>2. TypeOK /\ ClosesInv /\ [Next]_vars => ClosesInv'
  <2> SUFFICES ASSUME TypeOK, ClosesInv, [Next]_vars PROVE ClosesInv'
    OBVIOUS
  <2>1. CASE \E g \in Goroutines, c \in Conns : Close(g, c)
    BY <2>1 DEF Close, ClosesInv, TypeOK
  <2>2. CASE UNCHANGED <<isClosed, closes>>
    BY <2>2 DEF ClosesInv
  <2>3. \/ \E g \in Goroutines, c \in Conns : Close(g, c)
        \/ UNCHANGED <<isClosed, closes>>
    BY DEF Next, MakeCall, Cancel, Unregister, OnClose, Unlock, Lookup, ExitReturns,
       Accept, OnNewConnection, NewChatManager, Register, Start, ReaderPanics, ReaderEnds,
       ReadError, CmdMessageLoop, RecvCmd, RecvTimeout, EndSession, vars, connVars, ghosts
  <2> QED
    BY <2>1, <2>2, <2>3
<1>3. ClosesInv => ClosedOnce
  BY DEF ClosesInv, ClosedOnce
<1> QED
  BY <1>1, <1>2, <1>3, TypeCorrect, PTL DEF Spec

----------------------------------------------------------------------------
(* Nobody waits under a lock                                               *)

\* The calls that RunCallbacks consists of.
Harmless == {"onClose", "unregister"}

\* The list s ends in giving the lock of c back, and does nothing before that
\* but running callbacks.
Unlocks(s, c) ==
  \E k \in 1 .. Len(s) :
    /\ s[k] = The("unlock", c)
    /\ \A j \in 1 .. k - 1 : s[j].name \in Harmless

LockInv == \A c \in locked : \E g \in Goroutines : Unlocks(calls[g], c)

\* A goroutine that is handed a list of calls has none left to make.
IdleInv ==
  /\ \A c \in Conns :
       /\ setup[c] = "none" => reader[c] = "off"
       /\ setup[c] \in {"none", "accepted", "register"} =>
            registry # c /\ calls[<<"replacer", c>>] = <<>>
       /\ reader[c] \in {"off", "read"} => calls[<<"reader", c>>] = <<>>
  /\ registry # 0 => calls[<<"replacer", registry>>] = <<>>

\* Names of calls are told apart by the records.
LEMMA Records ==
  ASSUME NEW c \in Conns, NEW d \in Conns
  PROVE  /\ The("unlock", c) \in CallType
         /\ \A name : The(name, c).name = name /\ The(name, c).on = c
         /\ \A name : The(name, c) = The("unlock", d) => name = "unlock" /\ c = d
BY DEF The, CallType

\* Whoever is to unlock c and makes another call first runs a callback, and is
\* to unlock c afterwards.
LEMMA UnlocksTail ==
  ASSUME NEW s \in Seq(CallType), s # <<>>, NEW c \in Conns,
         Unlocks(s, c), Head(s) # The("unlock", c)
  PROVE  Head(s).name \in Harmless /\ Unlocks(Tail(s), c)
<1> PICK k \in 1 .. Len(s) :
      s[k] = The("unlock", c) /\ \A j \in 1 .. k - 1 : s[j].name \in Harmless
  BY DEF Unlocks
<1>1. Len(s) \in Nat /\ Head(s) = s[1]
  BY LenProperties
<1>2. k # 1
  BY <1>1
<1>3. Head(s).name \in Harmless
  BY <1>1, <1>2
<1>4. /\ Len(Tail(s)) = Len(s) - 1
      /\ \A i \in 1 .. Len(Tail(s)) : Tail(s)[i] = s[i + 1]
  BY HeadTailProperties
<1>5. k - 1 \in 1 .. Len(Tail(s)) /\ Tail(s)[k - 1] = The("unlock", c)
  BY <1>1, <1>2, <1>4
<1>6. ASSUME NEW j \in 1 .. (k - 1) - 1 PROVE Tail(s)[j].name \in Harmless
  BY <1>1, <1>2, <1>4
<1> QED
  BY <1>3, <1>5, <1>6 DEF Unlocks

\* The calls of a Close that takes the lock end in giving it back.
LEMMA UnlocksNew ==
  ASSUME TypeOK, NEW c \in Conns, NEW t \in Seq(CallType)
  PROVE  Unlocks((RunCallbacks(c) \o <<The("unlock", c)>>) \o t, c)
<1> DEFINE r == RunCallbacks(c)
           s == (r \o <<The("unlock", c)>>) \o t
<1>1. r \in Seq(CallType) /\ <<The("unlock", c)>> \in Seq(CallType)
  BY CallbacksType, CallLists
<1>2. \A j \in 1 .. Len(r) : r[j].name \in Harmless
  <2>1. callbacks[c] \in {0, 1, 2}
    BY DEF TypeOK
  <2>2. CASE callbacks[c] = 0
    BY <2>2 DEF RunCallbacks
  <2>3. CASE callbacks[c] = 1
    BY <2>3 DEF RunCallbacks, The, Harmless
  <2>4. CASE callbacks[c] = 2
    BY <2>4 DEF RunCallbacks, The, Harmless
  <2> QED
    BY <2>1, <2>2, <2>3, <2>4
<1> HIDE DEF r
<1> DEFINE u == r \o <<The("unlock", c)>>
<1>3. /\ u \in Seq(CallType) /\ Len(u) = Len(r) + 1
      /\ \A i \in 1 .. Len(r) + 1 : u[i] = IF i <= Len(r) THEN r[i] ELSE The("unlock", c)
  <2>1. Len(<<The("unlock", c)>>) = 1 /\ <<The("unlock", c)>>[1] = The("unlock", c)
    OBVIOUS
  <2>2. Len(r) \in Nat
    BY <1>1, LenProperties
  <2>3. /\ u \in Seq(CallType) /\ Len(u) = Len(r) + 1
        /\ \A i \in 1 .. Len(r) + 1 :
             u[i] = IF i <= Len(r) THEN r[i] ELSE <<The("unlock", c)>>[i - Len(r)]
    BY <1>1, <2>1, ConcatProperties
  <2> QED
    BY <2>1, <2>2, <2>3
<1> HIDE DEF u
<1>4. /\ Len(u \o t) = Len(u) + Len(t)
      /\ \A i \in 1 .. Len(u) + Len(t) : (u \o t)[i] = IF i <= Len(u) THEN u[i] ELSE t[i - Len(u)]
  BY <1>3, ConcatProperties
<1>5. Len(r) \in Nat /\ Len(t) \in Nat
  BY <1>1, LenProperties
<1>6. Len(r) + 1 \in 1 .. Len(u \o t) /\ (u \o t)[Len(r) + 1] = The("unlock", c)
  BY <1>3, <1>4, <1>5
<1>7. \A j \in 1 .. (Len(r) + 1) - 1 : (u \o t)[j].name \in Harmless
  BY <1>2, <1>3, <1>4, <1>5
<1> QED
  BY <1>6, <1>7 DEF Unlocks, u, r

\* Another goroutine's calls leave the holder where it is; its own calls bring
\* it nearer to the unlock.
LEMMA LockCall ==
  ASSUME TypeOK, LockInv, NEW g \in Goroutines, MakeCall(g)
  PROVE  LockInv'
<1> PICK d \in Conns :
      \/ Cancel(g, d) \/ Unregister(g, d) \/ OnClose(g, d) \/ Close(g, d)
      \/ Unlock(g, d) \/ Lookup(g, d) \/ ExitReturns(g, d)
  BY DEF MakeCall
<1>1. calls[g] \in Seq(CallType)
  BY DEF TypeOK
<1>2. \E name, rest : MakesCall(g, name, d, rest)
  BY MakeCallCases
<1>3. \A h \in Goroutines \ {g} : calls'[h] = calls[h]
  BY <1>2, CallTypes DEF MakesCall
<1> SUFFICES ASSUME NEW c \in locked'
             PROVE  \E h \in Goroutines : Unlocks(calls'[h], c)
  BY DEF LockInv
<1>4. CASE c \notin locked
  <2>1. Close(g, d) /\ c = d /\ d \notin isClosed
    BY <1>4 DEF Cancel, Unregister, OnClose, Close, Unlock, Lookup, ExitReturns, connVars
  <2>2. MakesCall(g, "close", d, RunCallbacks(d) \o <<The("unlock", d)>>)
    BY <2>1, MakeCallCases
  <2>3. calls'[g] = (RunCallbacks(d) \o <<The("unlock", d)>>) \o Tail(calls[g])
    BY <2>2, CallTypes DEF MakesCall
  <2>4. Tail(calls[g]) \in Seq(CallType)
    BY <1>1, <2>2, HeadTailProperties DEF MakesCall, Call
  <2> QED
    BY <2>1, <2>3, <2>4, UnlocksNew
<1>5. CASE c \in locked
  <2>1. c \in Conns
    BY <1>5 DEF TypeOK
  <2>2. PICK h \in Goroutines : Unlocks(calls[h], c)
    BY <1>5 DEF LockInv
  <2>3. CASE h # g
    BY <1>3, <2>2, <2>3
  <2>4. CASE h = g
    <3>1. PICK name, rest : MakesCall(g, name, d, rest)
      BY <1>2
    <3>2. calls[g] # <<>> /\ Head(calls[g]) = The(name, d)
      BY <3>1, CallTypes DEF MakesCall
    <3>3. Head(calls[g]) # The("unlock", c)
      <4>1. CASE Unlock(g, d)
        <5>1. c # d
          BY <4>1 DEF Unlock
        <5>2. Head(calls[g]) = The("unlock", d)
          BY <4>1 DEF Unlock, Call
        <5> QED
          BY <2>1, <5>1, <5>2, Records
      <4>2. CASE ~Unlock(g, d)
        <5>1. \E n \in {"cancel", "unregister", "onClose", "close", "lookup", "exited"} :
                Head(calls[g]) = The(n, d)
          BY <4>2 DEF Cancel, Unregister, OnClose, Close, Lookup, ExitReturns, Call
        <5>2. PICK n \in {"cancel", "unregister", "onClose", "close", "lookup", "exited"} :
                Head(calls[g]) = The(n, d)
          BY <5>1
        <5>3. n # "unlock"
          BY <5>2
        <5> QED
          BY <2>1, <5>2, <5>3, Records
      <4> QED
        BY <4>1, <4>2
    <3>4. Head(calls[g]).name \in Harmless /\ Unlocks(Tail(calls[g]), c)
      BY <1>1, <2>1, <2>2, <2>4, <3>2, <3>3, UnlocksTail
    <3>5. Unregister(g, d) \/ OnClose(g, d)
      BY <3>4, Records DEF Cancel, Close, Unlock, Lookup, ExitReturns, Call, Harmless
    <3>6. calls'[g] = <<>> \o Tail(calls[g])
      BY <3>5, <1>1 DEF TypeOK, Unregister, OnClose, Call
    <3>7. Tail(calls[g]) \in Seq(CallType)
      BY <1>1, <3>2, HeadTailProperties
    <3>8. calls'[g] = Tail(calls[g])
      BY <3>6, <3>7, ConcatEmptySeq
    <3> QED
      BY <2>4, <3>4, <3>8
  <2> QED
    BY <2>3, <2>4
<1> QED
  BY <1>4, <1>5

\* A goroutine that is handed its first calls had none: nobody's are overwritten.
LEMMA IdleCall ==
  ASSUME TypeOK, IdleInv, NEW g \in Goroutines, MakeCall(g)
  PROVE  IdleInv'
<1> PICK d \in Conns :
      \/ Cancel(g, d) \/ Unregister(g, d) \/ OnClose(g, d) \/ Close(g, d)
      \/ Unlock(g, d) \/ Lookup(g, d) \/ ExitReturns(g, d)
  BY DEF MakeCall
<1>1. \E name, rest : MakesCall(g, name, d, rest)
  BY MakeCallCases
<1>2. calls[g] # <<>> /\ \A h \in Goroutines \ {g} : calls'[h] = calls[h]
  BY <1>1, CallTypes DEF MakesCall
<1>3. UNCHANGED <<setup, reader>> /\ registry' \in {0, registry}
  BY DEF Cancel, Unregister, OnClose, Close, Unlock, Lookup, ExitReturns, steps
<1>4. \A c \in Conns : <<"replacer", c>> \in Goroutines /\ <<"reader", c>> \in Goroutines
  BY DEF Goroutines
<1>5. 0 \notin Conns /\ (registry # 0 => registry \in Conns)
  BY DEF Conns, TypeOK
<1>6. ASSUME NEW c \in Conns, setup[c] \in {"none", "accepted", "register"}
      PROVE  registry' # c /\ calls'[<<"replacer", c>>] = <<>>
  BY <1>2, <1>3, <1>4, <1>5, <1>6 DEF IdleInv
<1>7. ASSUME NEW c \in Conns, reader[c] \in {"off", "read"}
      PROVE  calls'[<<"reader", c>>] = <<>>
  BY <1>2, <1>4, <1>7 DEF IdleInv
<1>8. registry' # 0 => calls'[<<"replacer", registry'>>] = <<>>
  BY <1>2, <1>3, <1>4, <1>5 DEF IdleInv
<1> QED
  BY <1>3, <1>6, <1>7, <1>8 DEF IdleInv

\* The setup and the reader hand out calls only to goroutines without any.
LEMMA IdleConn ==
  ASSUME TypeOK, IdleInv, NEW c \in Conns,
         \/ Accept(c) \/ OnNewConnection(c)
         \/ ReaderPanics(c) \/ ReaderEnds(c) \/ ReadError(c)
         \/ CmdMessageLoop(c) \/ EndSession(c)
  PROVE  /\ IdleInv'
         /\ \A g \in Goroutines : calls[g] # <<>> => calls'[g] = calls[g]
<1>1. 0 \notin Conns /\ (registry # 0 => registry \in Conns)
  BY DEF Conns, TypeOK
<1>2. CASE UNCHANGED <<calls, registry>> /\ \A d \in Conns \ {c} : UNCHANGED <<setup[d], reader[d]>>
  <2>1. \/ setup'[c] \notin {"none", "accepted", "register"}
        \/ setup'[c] = setup[c]
        \/ setup[c] \in {"none", "accepted", "register"}
    <3>1. CASE Accept(c)
      BY <3>1 DEF Accept, Setup
    <3>2. CASE NewChatManager(c)
      BY <3>2 DEF NewChatManager, Setup
    <3>3. CASE Register(c) \/ Start(c)
      BY <3>3 DEF TypeOK, Register, Start, Setup
    <3>4. CASE setup' = setup
      BY <3>4
    <3> QED
      BY <3>1, <3>2, <3>3, <3>4 DEF OnNewConnection, ReaderPanics, ReaderEnds, ReadError,
         CmdMessageLoop, RecvCmd, RecvTimeout, EndSession, steps
  <2>2. reader'[c] \in {"off", "read"} => reader[c] \in {"off", "read"}
    <3>1. CASE Accept(c)
      BY <3>1 DEF TypeOK, Accept, Setup, IdleInv
    <3>2. CASE ReaderPanics(c) \/ ReaderEnds(c) \/ ReadError(c)
      BY <3>2 DEF TypeOK, ReaderPanics, ReaderEnds, ReadError, Reader
    <3>3. CASE reader' = reader
      BY <3>3
    <3> QED
      BY <3>1, <3>2, <3>3 DEF OnNewConnection, NewChatManager, Register, Start,
         CmdMessageLoop, RecvCmd, RecvTimeout, EndSession, steps
  <2>3. setup'[c] = "none" => reader'[c] = "off"
    <3>1. CASE Accept(c)
      BY <3>1 DEF TypeOK, Accept, Setup
    <3>2. CASE NewChatManager(c) \/ Register(c) \/ Start(c)
      BY <3>2 DEF TypeOK, NewChatManager, Register, Start, Setup
    <3>3. CASE ReaderPanics(c) \/ ReaderEnds(c) \/ ReadError(c)
      BY <3>3 DEF ReaderPanics, ReaderEnds, ReadError, Reader, IdleInv
    <3>4. CASE UNCHANGED <<setup, reader>>
      BY <3>4 DEF IdleInv
    <3> QED
      BY <3>1, <3>2, <3>3, <3>4 DEF OnNewConnection, CmdMessageLoop, RecvCmd, RecvTimeout,
         EndSession, steps
  <2> QED
    BY <1>2, <2>1, <2>2, <2>3 DEF IdleInv
<1>3. CASE Register(c)
  <2>1. setup[c] = "register" /\ setup'[c] = "hook" /\ registry' = c
        /\ \A d \in Conns \ {c} : setup'[d] = setup[d]
    BY <1>3 DEF Register, Setup, TypeOK
  <2>2. registry # c /\ calls[<<"replacer", c>>] = <<>>
    BY <2>1 DEF IdleInv
  <2>3. \A d \in Conns : <<"replacer", d>> \in Goroutines /\ <<"reader", d>> \in Goroutines
    BY DEF Goroutines
  <2>4. \A g \in Goroutines : g # <<"replacer", registry>> => calls'[g] = calls[g]
    BY <1>3 DEF Register, TypeOK
  <2>5. \A d \in Conns : calls'[<<"reader", d>>] = calls[<<"reader", d>>]
    BY <2>3, <2>4
  <2>6. reader' = reader
    BY <1>3 DEF Register
  <2>7. registry = 0 => calls' = calls
    BY <1>3 DEF Register
  <2>8. ASSUME NEW d \in Conns, setup'[d] \in {"none", "accepted", "register"}
        PROVE  registry' # d /\ calls'[<<"replacer", d>>] = <<>>
    <3>1. d # c /\ registry # d /\ calls[<<"replacer", d>>] = <<>>
      BY <2>1, <2>8 DEF IdleInv
    <3>2. calls'[<<"replacer", d>>] = calls[<<"replacer", d>>]
      BY <2>3, <2>4, <3>1
    <3> QED
      BY <2>1, <3>1, <3>2
  <2>9. calls'[<<"replacer", c>>] = <<>>
    BY <2>2, <2>3, <2>4
  <2>10. IdleInv'
    BY <2>1, <2>5, <2>6, <2>8, <2>9 DEF IdleInv
  <2>11. ASSUME NEW g \in Goroutines, calls[g] # <<>> PROVE calls'[g] = calls[g]
    BY <2>4, <2>7, <2>11 DEF IdleInv
  <2> QED
    BY <2>10, <2>11
<1>4. CASE ReadError(c)
  <2>1. reader[c] = "read" /\ reader'[c] = "notify" /\ setup' = setup /\ registry' = registry
        /\ \A d \in Conns \ {c} : reader'[d] = reader[d]
    BY <1>4 DEF ReadError, Reader, TypeOK
  <2>2. calls[<<"reader", c>>] = <<>>
    BY <2>1 DEF IdleInv
  <2>3. \A g \in Goroutines : g # <<"reader", c>> => calls'[g] = calls[g]
    BY <1>4 DEF ReadError, TypeOK
  <2>4. \A d \in Conns : <<"replacer", d>> \in Goroutines /\ <<"reader", d>> \in Goroutines
    BY DEF Goroutines
  <2>5. IdleInv'
    BY <1>1, <2>1, <2>3, <2>4 DEF IdleInv
  <2> QED
    BY <2>2, <2>3, <2>5
<1>5. CASE EndSession(c)
  <2>1. calls[<<"worker", c>>] = <<>> /\ UNCHANGED <<setup, reader, registry>>
    BY <1>5 DEF EndSession, steps
  <2>2. \A g \in Goroutines : g # <<"worker", c>> => calls'[g] = calls[g]
    BY <1>5 DEF EndSession, TypeOK
  <2>3. \A d \in Conns : <<"replacer", d>> \in Goroutines /\ <<"reader", d>> \in Goroutines
    BY DEF Goroutines
  <2>4. IdleInv'
    BY <1>1, <2>1, <2>2, <2>3 DEF IdleInv
  <2> QED
    BY <2>1, <2>2, <2>4
<1>6. \/ UNCHANGED <<calls, registry>> /\ \A d \in Conns \ {c} : UNCHANGED <<setup[d], reader[d]>>
      \/ Register(c) \/ ReadError(c) \/ EndSession(c)
  BY DEF TypeOK, Accept, OnNewConnection, NewChatManager, Start, Setup,
     ReaderPanics, ReaderEnds, Reader, CmdMessageLoop, RecvCmd, RecvTimeout, steps
<1> QED
  BY <1>2, <1>3, <1>4, <1>5, <1>6

\* The list of a holder is not empty.
LEMMA UnlocksSome ==
  ASSUME NEW s, NEW c, Unlocks(s, c), s = <<>>
  PROVE  FALSE
BY DEF Unlocks

\* Close runs the callbacks of a connection under its lock: whoever holds a lock
\* gives it back without asking for one, so no two Close calls wait for each
\* other and none waits for itself.
THEOREM LocksAreGivenBack == Spec => []HolderNeverWaits
<1>1. Init => LockInv /\ IdleInv
  <2> SUFFICES ASSUME Init PROVE LockInv /\ IdleInv
    OBVIOUS
  <2>1. \A c \in Conns : <<"replacer", c>> \in Goroutines /\ <<"reader", c>> \in Goroutines
    BY DEF Goroutines
  <2>2. 0 \notin Conns
    BY DEF Conns
  <2> QED
    BY <2>1, <2>2 DEF Init, LockInv, IdleInv
<1>2. TypeOK /\ LockInv /\ IdleInv /\ [Next]_vars => LockInv' /\ IdleInv'
  <2> SUFFICES ASSUME TypeOK, LockInv, IdleInv, [Next]_vars PROVE LockInv' /\ IdleInv'
    OBVIOUS
  <2>1. CASE \E g \in Goroutines : MakeCall(g)
    BY <2>1, LockCall, IdleCall
  <2>2. ASSUME NEW c \in Conns,
               \/ Accept(c) \/ OnNewConnection(c)
               \/ ReaderPanics(c) \/ ReaderEnds(c) \/ ReadError(c)
               \/ CmdMessageLoop(c) \/ EndSession(c)
        PROVE  LockInv' /\ IdleInv'
    <3>1. IdleInv' /\ \A g \in Goroutines : calls[g] # <<>> => calls'[g] = calls[g]
      BY <2>2, IdleConn
    <3>2. locked' = locked
      BY <2>2 DEF Accept, OnNewConnection, NewChatManager, Register, Start, ReaderPanics,
         ReaderEnds, ReadError, CmdMessageLoop, RecvCmd, RecvTimeout, EndSession, connVars
    <3>3. LockInv'
      BY <3>1, <3>2, UnlocksSome DEF LockInv
    <3> QED
      BY <3>1, <3>3
  <2>3. CASE UNCHANGED vars
    BY <2>3 DEF vars, connVars, steps, ghosts, LockInv, IdleInv
  <2> QED
    BY <2>1, <2>2, <2>3 DEF Next
<1>3. TypeOK /\ LockInv => HolderNeverWaits
  <2> SUFFICES ASSUME TypeOK, LockInv, NEW c \in locked
               PROVE  \E g \in Goroutines : \E k \in 1 .. Len(calls[g]) :
                        /\ calls[g][k] = The("unlock", c)
                        /\ \A j \in 1 .. k : calls[g][j].name # "close"
    BY DEF HolderNeverWaits
  <2>1. PICK g \in Goroutines : Unlocks(calls[g], c)
    BY DEF LockInv
  <2>2. PICK k \in 1 .. Len(calls[g]) :
          /\ calls[g][k] = The("unlock", c)
          /\ \A j \in 1 .. k - 1 : calls[g][j].name \in Harmless
    BY <2>1 DEF Unlocks
  <2>3. ASSUME NEW j \in 1 .. k PROVE calls[g][j].name # "close"
    <3>1. CASE j = k
      BY <2>2, <3>1 DEF The
    <3>2. CASE j # k
      <4>1. j \in 1 .. k - 1
        BY <3>2
      <4> QED
        BY <2>2, <4>1 DEF Harmless
    <3> QED
      BY <3>1, <3>2
  <2> QED
    BY <2>2, <2>3
<1> QED
  BY <1>1, <1>2, <1>3, TypeCorrect, PTL DEF Spec
=============================================================================
