--------------------------- MODULE ListeningProofs ---------------------------
(***************************************************************************)
(* Proofs about Listening, for any number of goroutines and messages.      *)
(***************************************************************************)
EXTENDS Listening, SequenceTheorems, FiniteSetTheorems, TLAPS

----------------------------------------------------------------------------
(* Types                                                                   *)

TodoType == [Goroutines -> Seq(CallNames)]
OwnType == [Goroutines -> [ctx : Nat, rec : Nat, since : Nat]]
VadType == [Vads -> [step : VadSteps, at : Nat, had : BOOLEAN, have : BOOLEAN, chan : Nat]]
ListenerType == [Listeners -> [step : ListenerSteps, on : Nat]]
RecType == [made : Nat, of : [Made -> Recognition]]

\* The variables that a lemma about types changes one at a time.
LEMMA TypesOfVariables ==
  ASSUME TypeOK
  PROVE  /\ todo \in TodoType /\ own \in OwnType /\ vad \in VadType
         /\ listener \in ListenerType /\ rec \in RecType
BY DEF TypeOK, TodoType, OwnType, VadType, ListenerType, RecType

\* The lists of calls that goroutines start with.
LEMMA PlanTypes ==
  /\ <<>> \in Seq(CallNames) /\ Silence \in Seq(CallNames)
  /\ Restart \in Seq(CallNames) /\ ListenStart \in Seq(CallNames)
  /\ <<"cancelSession">> \in Seq(CallNames)
  /\ <<"cancelSession">> \o ListenStart \in Seq(CallNames)
<1>1. Restart \in Seq(CallNames)
  BY DEF Restart, CallNames
<1>2. <<"listening", "closeChan", "clearChan", "destroy">> \in Seq(CallNames)
  BY DEF CallNames
<1>3. ListenStart \in Seq(CallNames)
  BY <1>1, <1>2, ConcatProperties DEF ListenStart
<1>4. <<"cancelSession">> \in Seq(CallNames)
  BY DEF CallNames
<1>5. Silence \in Seq(CallNames)
  BY DEF Silence, CallNames
<1> QED
  BY <1>1, <1>3, <1>4, <1>5, ConcatProperties

\* A goroutine with another list of calls.
LEMMA TodoTypes ==
  ASSUME TypeOK, NEW g \in Goroutines, NEW s \in Seq(CallNames)
  PROVE  [todo EXCEPT ![g] = s] \in TodoType
BY TypesOfVariables DEF TodoType

\* Returning from a call.
LEMMA ReturnTypes ==
  ASSUME TypeOK, NEW g \in Goroutines, NEW name, Next1(g, name)
  PROVE  /\ [todo EXCEPT ![g] = Tail(@)] \in TodoType
         /\ [todo EXCEPT ![g] = <<>>] \in TodoType
         /\ Tail(todo[g]) \in Seq(CallNames)
<1>1. todo[g] \in Seq(CallNames) /\ todo[g] # <<>>
  BY TypesOfVariables DEF TodoType, Next1
<1>2. Tail(todo[g]) \in Seq(CallNames)
  BY <1>1, HeadTailProperties
<1> QED
  BY <1>2, TodoTypes, PlanTypes

\* A failing restart.
LEMMA FailsTypes ==
  ASSUME TypeOK, NEW g \in Goroutines, Fails(g)
  PROVE  /\ todo' \in TodoType /\ listener' \in ListenerType
         /\ conn' \in {"open", "closed", "crashed"}
<1>1. todo' \in TodoType
  BY TodoTypes, PlanTypes DEF Fails
<1>2. listener' \in ListenerType
  BY TypesOfVariables DEF Fails, ListenerType, ListenerSteps
<1> QED
  BY <1>1, <1>2 DEF Fails, TypeOK

\* StopSpeaking cancels the session.
LEMMA CancelSessionTypes ==
  ASSUME TypeOK, NEW g \in Goroutines, CancelSession(g)
  PROVE  TypeOK'
<1>1. todo' \in TodoType
  BY ReturnTypes DEF CancelSession, Call, Returns
<1>2. cur' \in Nat /\ cancelled' \subseteq Nat
  BY DEF TypeOK, CancelSession
<1> QED
  BY <1>1, <1>2 DEF TypeOK, CancelSession, TodoType, OwnType, VadType, ListenerType, RecType,
    outerVars, sessionVars, inputVars, flagVars, asrVars, goVars, ghosts

\* The status, and the look at the connection.
LEMMA SetListeningTypes ==
  ASSUME TypeOK, NEW g \in Goroutines, SetListening(g)
  PROVE  TypeOK'
<1>1. todo' \in TodoType
  BY ReturnTypes DEF SetListening
<1> QED
  BY <1>1 DEF TypeOK, SetListening, TodoType, OwnType, VadType, ListenerType, RecType,
    outerVars, sessionVars, inputVars, flagVars, asrVars, goVars, ghosts

\* A record of the channels with another field.
LEMMA RecordFields ==
  ASSUME NEW B, NEW D, NEW c \in [made : Nat, buf : B, closed : D], NEW n \in Nat, NEW b \in B,
         NEW d \in D
  PROVE  /\ [c EXCEPT !.made = n] \in [made : Nat, buf : B, closed : D]
         /\ [c EXCEPT !.buf = b] \in [made : Nat, buf : B, closed : D]
         /\ [c EXCEPT !.closed = d] \in [made : Nat, buf : B, closed : D]
OBVIOUS

LEMMA ChannelFields ==
  ASSUME NEW c \in Channels
  PROVE  /\ \A n \in Nat : [c EXCEPT !.made = n] \in Channels
         /\ \A b \in [Made -> Seq(Frame)] : [c EXCEPT !.buf = b] \in Channels
         /\ \A d \in SUBSET (Nat \ {0}) : [c EXCEPT !.closed = d] \in Channels
<1>1. c \in [made : Nat, buf : [Made -> Seq(Frame)], closed : SUBSET (Nat \ {0})]
  BY DEF Channels
<1>2. c.made \in Nat /\ c.buf \in [Made -> Seq(Frame)] /\ c.closed \in SUBSET (Nat \ {0})
  BY <1>1
<1> QED
  BY <1>1, <1>2, RecordFields, Zenon DEF Channels

\* Stop closes the channel, or finds nil.
LEMMA CloseChanTypes ==
  ASSUME TypeOK, NEW g \in Goroutines, CloseChan(g), Tail(todo[g]) # <<>>
  PROVE  TypeOK'
<1>1. Tail(todo[g]) \in Seq(CallNames) /\ [todo EXCEPT ![g] = Tail(@)] \in TodoType
  BY ReturnTypes DEF CloseChan
<1>2. Tail(Tail(todo[g])) \in Seq(CallNames)
  BY <1>1, HeadTailProperties
<1>3. [todo EXCEPT ![g] = Tail(Tail(@))] \in TodoType
  BY <1>2, TodoTypes
<1>4. todo' \in TodoType
  BY <1>1, <1>3 DEF CloseChan, Returns
<1>5. chan' \in Channels /\ closes' \in [Made -> Nat] /\ lock' \in Goroutines \cup {"none"}
  <2>1. field.chan \in Nat /\ chan \in Channels /\ closes \in [Made -> Nat]
    BY DEF TypeOK
  <2>2. CASE field.chan # 0 /\ CloseField /\ lock' = g
    <3>1. chan' \in Channels
      <4>1. chan.closed \cup {field.chan} \in SUBSET (Nat \ {0})
        BY <2>1, <2>2 DEF Channels
      <4> QED
        BY <2>1, <2>2, <4>1, ChannelFields DEF CloseField
    <3>2. closes' \in [Made -> Nat]
      <4>1. closes' = [closes EXCEPT ![field.chan] = @ + 1]
        BY <2>2 DEF CloseField
      <4>2. closes \in [Made -> Nat]
        BY <2>1
      <4>3. \A k \in Made : closes'[k] \in Nat
        BY <4>1, <4>2
      <4> QED
        BY <4>1, <4>2, <4>3
    <3> QED
      BY <2>2, <3>1, <3>2
  <2>3. CASE UNCHANGED <<lock, chan, closes>>
    BY <2>3, <2>1 DEF TypeOK
  <2> QED
    BY <2>2, <2>3 DEF CloseChan
<1> QED
  BY <1>4, <1>5 DEF TypeOK, CloseChan, TodoType, outerVars, sessionVars, inputVars, flagVars

\* Stop forgets the channel.
LEMMA ClearChanTypes ==
  ASSUME TypeOK, NEW g \in Goroutines, ClearChan(g)
  PROVE  TypeOK'
<1>1. todo' \in TodoType
  BY ReturnTypes DEF ClearChan, Call, Returns
<1>2. field' \in [chan : Nat, results : Nat]
  BY DEF TypeOK, ClearChan
<1> QED
  BY <1>1, <1>2 DEF TypeOK, ClearChan, TodoType, OwnType, VadType, ListenerType, RecType,
    outerVars, sessionVars, inputVars, flagVars, asrVars, goVars, ghosts

\* The session context of now, made when there is none.
LEMMA CtxTypes ==
  ASSUME TypeOK, NEW s \in Sessions, GetSessionCtx(s)
  PROVE  cur' \in Nat /\ sessions' \in Nat /\ cancelled' \subseteq Nat /\ s \in Nat
BY BoundsAssumption DEF TypeOK, GetSessionCtx, Sessions

\* Destroy, and the context of the session.
LEMMA DestroyTypes ==
  ASSUME TypeOK, NEW g \in Goroutines, Destroy(g)
  PROVE  TypeOK'
<1>1. todo' \in TodoType
  BY ReturnTypes DEF Destroy, Call, Returns
<1>2. cur' \in Nat /\ sessions' \in Nat /\ cancelled' \subseteq Nat
  BY CtxTypes DEF Destroy
<1>3. own' \in OwnType
  BY CtxTypes, TypesOfVariables DEF Destroy, OwnType
<1> QED
  BY <1>1, <1>2, <1>3 DEF TypeOK, Destroy, TodoType, OwnType, VadType, ListenerType, RecType,
    outerVars, sessionVars, inputVars, flagVars, asrVars, goVars, ghosts

\* Silence is noted.
LEMMA StopVoiceTypes ==
  ASSUME TypeOK, NEW g \in Goroutines, StopVoice(g)
  PROVE  TypeOK'
<1>1. todo' \in TodoType
  BY ReturnTypes DEF StopVoice, Call, Returns
<1> QED
  BY <1>1 DEF TypeOK, StopVoice, TodoType, OwnType, VadType, ListenerType, RecType, outerVars,
    sessionVars, inputVars, flagVars, asrVars, goVars, ghosts

\* The detector is given back.
LEMMA ResetVadTypes ==
  ASSUME TypeOK, NEW g \in Goroutines, ResetVad(g)
  PROVE  TypeOK'
<1>1. todo' \in TodoType
  BY ReturnTypes DEF ResetVad, Call, Returns
<1> QED
  BY <1>1 DEF TypeOK, ResetVad, TodoType, OwnType, VadType, ListenerType, RecType, outerVars,
    sessionVars, inputVars, flagVars, asrVars, goVars, ghosts

\* A restart begins.
LEMMA CancelAsrTypes ==
  ASSUME TypeOK, NEW g \in Goroutines, CancelAsr(g)
  PROVE  TypeOK'
<1>1. own' \in OwnType /\ listens' \in Nat
  <2>1. listens \in Nat
    BY DEF TypeOK
  <2> QED
    BY <2>1, TypesOfVariables DEF CancelAsr, OwnType
<1>2. todo' \in TodoType /\ listener' \in ListenerType /\ conn' \in {"open", "closed", "crashed"}
  <2>1. CASE Fails(g)
    BY <2>1, FailsTypes
  <2>2. CASE Returns(g) /\ UNCHANGED <<conn, listener>>
    <3>1. todo' \in TodoType
      BY <2>2, ReturnTypes DEF CancelAsr, Returns
    <3> QED
      BY <2>2, <3>1, TypesOfVariables DEF TypeOK
  <2> QED
    BY <2>1, <2>2 DEF CancelAsr
<1> QED
  BY <1>1, <1>2 DEF TypeOK, CancelAsr, TodoType, OwnType, ListenerType, sessionVars, inputVars,
    asrVars

\* A channel is made.
LEMMA NewChanType ==
  ASSUME TypeOK
  PROVE  [chan EXCEPT !.made = @ + 1] \in Channels /\ chan.made + 1 \in Nat
<1>1. chan \in Channels /\ chan.made + 1 \in Nat
  BY DEF TypeOK, Channels
<1> QED
  BY <1>1, ChannelFields

\* A new channel.
LEMMA NewChanTypes ==
  ASSUME TypeOK, NEW g \in Goroutines, NewChan(g)
  PROVE  TypeOK'
<1>1. todo' \in TodoType
  BY ReturnTypes DEF NewChan, Call, Returns
<1>2. chan' \in Channels
  BY NewChanType DEF TypeOK, NewChan
<1>3. field' \in [chan : Nat, results : Nat]
  BY NewChanType DEF TypeOK, NewChan
<1> QED
  BY <1>1, <1>2, <1>3 DEF TypeOK, NewChan, TodoType, OwnType, VadType, ListenerType, RecType,
    outerVars, sessionVars, inputVars, flagVars, asrVars, goVars, ghosts

\* A recognition begins, or fails to.
LEMMA RecognizeTypes ==
  ASSUME TypeOK, NEW g \in Goroutines, Recognize(g)
  PROVE  TypeOK'
<1>1. /\ todo' \in TodoType /\ listener' \in ListenerType
      /\ conn' \in {"open", "closed", "crashed"} /\ rec' \in RecType /\ own' \in OwnType
  <2>1. CASE Fails(g) /\ UNCHANGED <<rec, own>>
    BY <2>1, FailsTypes, TypesOfVariables
  <2>2. CASE Returns(g) /\ UNCHANGED <<conn, listener>>
    <3>1. todo' \in TodoType
      BY <2>2, ReturnTypes DEF Recognize, Returns
    <3>2. CASE UNCHANGED <<rec, own>>
      BY <2>2, <3>1, <3>2, TypesOfVariables DEF TypeOK
    <3>3. CASE ~UNCHANGED <<rec, own>>
      <4>1. rec' = [made |-> rec.made + 1,
                    of |-> [rec.of EXCEPT ![rec.made + 1] =
                        [chan |-> field.chan, since |-> own[g].since, ended |-> FALSE]]]
            /\ own' = [own EXCEPT ![g].rec = rec.made + 1]
        BY <3>3 DEF Recognize
      <4>2. [chan |-> field.chan, since |-> own[g].since, ended |-> FALSE] \in Recognition
        BY TypesOfVariables DEF TypeOK, OwnType, Recognition
      <4>3. rec' \in RecType
        <5>1. rec.made + 1 \in Nat /\ rec.of \in [Made -> Recognition]
          BY TypesOfVariables DEF RecType
        <5>2. [rec.of EXCEPT ![rec.made + 1] =
                 [chan |-> field.chan, since |-> own[g].since, ended |-> FALSE]]
              \in [Made -> Recognition]
          BY <4>2, <5>1
        <5> QED
          BY <4>1, <5>1, <5>2 DEF RecType
      <4>4. own' \in OwnType
        BY <4>1, TypesOfVariables DEF RecType, OwnType
      <4> QED
        BY <2>2, <3>1, <4>3, <4>4, TypesOfVariables DEF TypeOK
    <3> QED
      BY <3>2, <3>3
  <2> QED
    BY <2>1, <2>2 DEF Recognize
<1> QED
  BY <1>1 DEF TypeOK, Recognize, TodoType, OwnType, ListenerType, RecType, sessionVars,
    inputVars, flagVars, ghosts

\* The result channel is published.
LEMMA PublishTypes ==
  ASSUME TypeOK, NEW g \in Goroutines, Publish(g)
  PROVE  TypeOK'
<1>1. todo' \in TodoType
  BY ReturnTypes DEF Publish, Call, Returns
<1>2. field' \in [chan : Nat, results : Nat]
  <2>1. own[g].rec \in Nat
    BY TypesOfVariables DEF OwnType
  <2> QED
    BY <2>1 DEF TypeOK, Publish
<1>3. own' \in OwnType /\ listener' \in ListenerType
  <2>1. NoRestart \in [ctx : Nat, rec : Nat, since : Nat]
    BY DEF NoRestart
  <2>2. CASE g = "cmd"
    <3>1. PICK l \in Listeners :
            /\ listener' = [listener EXCEPT ![l].step = "loop"]
            /\ own' = [own EXCEPT ![l].ctx = own[g].ctx, ![g] = NoRestart]
      BY <2>2 DEF Publish
    <3>2. [own EXCEPT ![l].ctx = own[g].ctx] \in OwnType
      BY TypesOfVariables DEF OwnType
    <3>3. own' = [[own EXCEPT ![l].ctx = own[g].ctx] EXCEPT ![g] = NoRestart]
      BY <3>1
    <3>4. own' \in OwnType
      BY <2>1, <3>2, <3>3 DEF OwnType
    <3>5. listener' \in ListenerType
      BY <3>1, TypesOfVariables DEF ListenerType, ListenerSteps
    <3> QED
      BY <3>4, <3>5
  <2>3. CASE g # "cmd"
    <3>1. own' \in OwnType
      BY <2>3, TypesOfVariables DEF Publish, OwnType
    <3>2. listener' \in ListenerType
      BY <2>3, TypesOfVariables DEF Publish, ListenerType, ListenerSteps
    <3> QED
      BY <3>1, <3>2
  <2> QED
    BY <2>2, <2>3
<1> QED
  BY <1>1, <1>2, <1>3 DEF TypeOK, Publish, TodoType, OwnType, ListenerType, outerVars,
    sessionVars, inputVars, flagVars, ghosts

----------------------------------------------------------------------------
(* Types: commands, audio and results                                      *)

\* A message for the command loop.
LEMMA ReceiveTypes ==
  ASSUME TypeOK, NEW s \in Seq(CallNames), Receive(s)
  PROVE  todo' \in TodoType /\ inputs' \in Nat
<1>1. todo' \in TodoType
  BY TodoTypes DEF Receive, Goroutines
<1> QED
  BY <1>1 DEF Receive, TypeOK

LEMMA CommandsTypes ==
  ASSUME TypeOK, Commands
  PROVE  TypeOK'
<1>1. CASE \E v \in Vads : HandleHelloMessage(v)
  <2>1. PICK v \in Vads : HandleHelloMessage(v)
    BY <1>1
  <2>2. vad' \in VadType
    BY <2>1, TypesOfVariables DEF HandleHelloMessage, GoTo, VadType, VadSteps
  <2> QED
    BY <2>1, <2>2 DEF TypeOK, HandleHelloMessage, OnlyVad, VadType, outerVars, sessionVars,
      inputVars, flagVars, asrVars, ghosts
<1>2. CASE \E m \in {"auto", "manual"} : HandleListenStart(m)
  <2>1. PICK m \in {"auto", "manual"} : HandleListenStart(m)
    BY <1>2
  <2>2. todo' \in TodoType /\ inputs' \in Nat
    BY <2>1, ReceiveTypes, PlanTypes DEF HandleListenStart
  <2> QED
    BY <2>1, <2>2 DEF TypeOK, HandleListenStart, Receive, TodoType, sessionVars, flagVars,
      asrVars, ghosts
<1>3. CASE HandleListenStop
  <2>1. todo' \in TodoType /\ inputs' \in Nat
    BY <1>3, ReceiveTypes, PlanTypes DEF HandleListenStop
  <2> QED
    BY <1>3, <2>1 DEF TypeOK, HandleListenStop, Receive, TodoType, sessionVars, flagVars,
      asrVars, ghosts
<1>4. CASE StopSpeaking
  <2>1. todo' \in TodoType /\ inputs' \in Nat
    BY <1>4, ReceiveTypes, PlanTypes DEF StopSpeaking
  <2> QED
    BY <1>4, <2>1 DEF TypeOK, StopSpeaking, Receive, TodoType, sessionVars, flagVars,
      asrVars, ghosts
<1> QED
  BY <1>1, <1>2, <1>3, <1>4 DEF Commands

\* A VAD goroutine at another step.
LEMMA VadStepTypes ==
  ASSUME TypeOK, NEW v \in Vads
  PROVE  /\ Drop(v) => vad' \in VadType
         /\ Leave(v) => vad' \in VadType
         /\ \A step \in VadSteps : GoTo(v, step) => vad' \in VadType
<1>1. [Resting EXCEPT !.step = "take"] \in
        [step : VadSteps, at : Nat, had : BOOLEAN, have : BOOLEAN, chan : Nat]
  BY DEF Resting, VadSteps
<1>2. Resting \in [step : VadSteps, at : Nat, had : BOOLEAN, have : BOOLEAN, chan : Nat]
  BY DEF Resting, VadSteps
<1>3. \A step \in VadSteps : GoTo(v, step) => vad' \in VadType
  BY TypesOfVariables DEF GoTo, VadType
<1> QED
  BY <1>1, <1>2, <1>3, TypesOfVariables DEF Drop, Leave, VadType

\* The process ends.
LEMMA PanicTypes ==
  ASSUME TypeOK, NEW v \in Vads, Panic(v)
  PROVE  TypeOK'
BY DEF TypeOK, Panic, sessionVars, inputVars, flagVars, asrVars, goVars, ghosts

LEMMA TakeFrameTypes ==
  ASSUME TypeOK, NEW v \in Vads, TakeFrame(v)
  PROVE  TypeOK'
<1>1. vad' \in VadType
  <2>1. [Resting EXCEPT !.step = IF mode = "manual" THEN "decide" ELSE "detect",
                        !.at = listens, !.have = mode = "manual",
                        !.had = haveVoice \/ mode = "manual"]
          \in [step : VadSteps, at : Nat, had : BOOLEAN, have : BOOLEAN, chan : Nat]
    BY DEF TypeOK, Resting, VadSteps
  <2> QED
    BY <2>1, TypesOfVariables DEF TakeFrame, VadType
<1> QED
  BY <1>1 DEF TypeOK, TakeFrame, OnlyVad, VadType, outerVars, sessionVars, inputVars,
    flagVars, asrVars, ghosts

\* The steps of the VAD goroutine that change nothing else, and its detector.
LEMMA VadOnlyTypes ==
  ASSUME TypeOK, vad' \in VadType, OnlyVad
  PROVE  TypeOK'
BY DEF TypeOK, OnlyVad, VadType, outerVars, sessionVars, inputVars, flagVars, asrVars, ghosts

LEMMA InitVadTypes ==
  ASSUME TypeOK, NEW v \in Vads, InitVad(v)
  PROVE  TypeOK'
<1>1. vad' \in VadType /\ vadOn' \in BOOLEAN
  <2>1. CASE vadOn' = TRUE /\ GoTo(v, "judge")
    BY <2>1, VadStepTypes DEF VadSteps
  <2>2. CASE UNCHANGED vadOn /\ Drop(v)
    BY <2>2, VadStepTypes DEF TypeOK
  <2> QED
    BY <2>1, <2>2 DEF InitVad
<1> QED
  BY <1>1 DEF TypeOK, InitVad, VadType, outerVars, sessionVars, inputVars, asrVars, ghosts

LEMMA IsVadTypes ==
  ASSUME TypeOK, NEW v \in Vads, IsVad(v)
  PROVE  TypeOK'
<1>1. CASE Panic(v)
  BY <1>1, PanicTypes
<1>2. CASE Drop(v) /\ OnlyVad
  BY <1>2, VadStepTypes, VadOnlyTypes
<1>3. CASE (\E have \in BOOLEAN :
              vad' = [vad EXCEPT ![v].step = "decide", ![v].have = have]) /\ OnlyVad
  <2>1. PICK have \in BOOLEAN : vad' = [vad EXCEPT ![v].step = "decide", ![v].have = have]
    BY <1>3
  <2>2. [vad EXCEPT ![v].step = "decide"] \in VadType
    BY TypesOfVariables DEF VadType, VadSteps
  <2>3. vad' = [[vad EXCEPT ![v].step = "decide"] EXCEPT ![v].have = have]
    BY <2>1
  <2>4. vad' \in VadType
    BY <2>2, <2>3 DEF VadType
  <2> QED
    BY <1>3, <2>4, VadOnlyTypes
<1> QED
  BY <1>1, <1>2, <1>3 DEF IsVad

LEMMA DecideTypes ==
  ASSUME TypeOK, NEW v \in Vads, Decide(v)
  PROVE  TypeOK'
<1>1. haveVoice' \in BOOLEAN
  BY TypesOfVariables DEF Decide, TypeOK, VadType
<1>2. vad' \in VadType /\ conn' \in {"open", "closed", "crashed"}
  <2>1. CASE conn' = "closed" /\ Leave(v)
    BY <2>1, VadStepTypes
  <2>2. CASE (IF vad[v].had THEN GoTo(v, "check") ELSE Drop(v)) /\ UNCHANGED conn
    BY <2>2, VadStepTypes DEF VadSteps, TypeOK
  <2> QED
    BY <2>1, <2>2 DEF Decide
<1> QED
  BY <1>1, <1>2 DEF TypeOK, Decide, VadType, sessionVars, inputVars, asrVars, ghosts

\* After the send.
LEMMA AfterSendTypes ==
  ASSUME TypeOK, NEW v \in Vads, AfterSend(v), chan' \in Channels, UNCHANGED ghosts
  PROVE  TypeOK'
<1>1. vad' \in VadType
  BY VadStepTypes DEF AfterSend
<1>2. todo' \in TodoType
  <2>1. CASE UNCHANGED todo
    BY <2>1, TypesOfVariables
  <2>2. CASE todo' = [todo EXCEPT ![v] = Silence]
    BY <2>2, PlanTypes, TodoTypes DEF Goroutines
  <2> QED
    BY <2>1, <2>2 DEF AfterSend
<1> QED
  BY <1>1, <1>2 DEF TypeOK, AfterSend, VadType, TodoType, outerVars, sessionVars, inputVars,
    flagVars, ghosts

\* A channel with other contents.
LEMMA BufTypes ==
  ASSUME TypeOK, NEW k \in Nat, NEW s, k \in Made => s \in Seq(Frame)
  PROVE  [chan EXCEPT !.buf[k] = s] \in Channels
<1>1. chan \in Channels /\ chan.buf \in [Made -> Seq(Frame)]
  BY DEF TypeOK, Channels
<1>2. [chan.buf EXCEPT ![k] = s] \in [Made -> Seq(Frame)]
  <2>1. CASE k \in Made
    BY <1>1, <2>1
  <2>2. CASE k \notin Made
    <3>1. [chan.buf EXCEPT ![k] = s] = chan.buf
      BY <1>1, <2>2
    <3> QED
      BY <1>1, <3>1
  <2> QED
    BY <2>1, <2>2
<1>3. [chan EXCEPT !.buf = [chan.buf EXCEPT ![k] = s]] \in Channels
  BY <1>1, <1>2, ChannelFields
<1> QED
  BY <1>3

LEMMA CheckChanTypes ==
  ASSUME TypeOK, NEW v \in Vads, CheckChan(v)
  PROVE  TypeOK'
<1>1. CASE GoTo(v, "load") /\ OnlyVad
  BY <1>1, VadStepTypes, VadOnlyTypes DEF VadSteps
<1>2. CASE AfterSend(v) /\ UNCHANGED chan
  <2>1. chan' \in Channels
    BY <1>2 DEF TypeOK
  <2> QED
    BY <1>2, <2>1, AfterSendTypes DEF AfterSend
<1> QED
  BY <1>1, <1>2 DEF CheckChan

LEMMA LoadChanTypes ==
  ASSUME TypeOK, NEW v \in Vads, LoadChan(v)
  PROVE  TypeOK'
<1>1. field.chan \in Nat
  BY DEF TypeOK
<1>2. vad' \in VadType
  BY <1>1, TypesOfVariables DEF LoadChan, VadType, VadSteps
<1> QED
  BY <1>2, VadOnlyTypes DEF LoadChan

LEMMA SendFrameTypes ==
  ASSUME TypeOK, NEW v \in Vads, SendFrame(v)
  PROVE  TypeOK'
<1> DEFINE k == vad[v].chan
           f == [by |-> v, at |-> vad[v].at]
<1>1. CASE Panic(v)
  BY <1>1, PanicTypes
<1>2. CASE chan' = [chan EXCEPT !.buf[k] = Append(@, f)] /\ AfterSend(v)
  <2>1. k \in Nat /\ f \in Frame
    BY TypesOfVariables DEF VadType, Frame
  <2>2. k \in Made => Append(chan.buf[k], f) \in Seq(Frame)
    <3>1. k \in Made => chan.buf[k] \in Seq(Frame)
      BY DEF TypeOK, Channels
    <3> QED
      BY <2>1, <3>1, AppendProperties
  <2>3. chan' = [chan EXCEPT !.buf[k] = Append(chan.buf[k], f)]
    BY <1>2
  <2>4. chan' \in Channels
    <3> HIDE DEF k, f
    <3> QED
      BY <2>1, <2>2, <2>3, BufTypes
  <2> QED
    BY <1>2, <2>4, AfterSendTypes DEF AfterSend
<1> QED
  BY <1>1, <1>2 DEF SendFrame

LEMMA VadTypes ==
  ASSUME TypeOK, NEW v \in Vads, ProcessVadAudio(v)
  PROVE  TypeOK'
<1>1. CASE VadEnds(v)
  BY <1>1, VadStepTypes, VadOnlyTypes DEF VadEnds
<1> QED
  BY <1>1, TakeFrameTypes, InitVadTypes, IsVadTypes, DecideTypes, CheckChanTypes,
    LoadChanTypes, SendFrameTypes DEF ProcessVadAudio

LEMMA ForwardTypes ==
  ASSUME TypeOK, NEW r \in Made, ForwardStreamAudio(r)
  PROVE  TypeOK'
<1> DEFINE k == rec.of[r].chan
           b == Head(chan.buf[k]).by
<1>1. k \in Nat
  BY TypesOfVariables DEF RecType, Recognition
<1>2. chan.buf[k] # <<>> /\ chan' = [chan EXCEPT !.buf[k] = Tail(chan.buf[k])]
      /\ stale' = [stale EXCEPT ![r][b] = @ + Old(r)]
  BY DEF ForwardStreamAudio
<1>3. k \in Made => Tail(chan.buf[k]) \in Seq(Frame)
  <2>1. k \in Made => chan.buf[k] \in Seq(Frame)
    BY DEF TypeOK, Channels
  <2> QED
    BY <1>2, <2>1, HeadTailProperties
<1>4. chan' \in Channels
  <2> HIDE DEF k
  <2> QED
    BY <1>1, <1>2, <1>3, BufTypes
<1>5. stale' \in [Made -> [Vads -> Nat]]
  <2>1. Old(r) \in Nat
    BY DEF Old
  <2>2. stale \in [Made -> [Vads -> Nat]]
    BY DEF TypeOK
  <2> DEFINE row == stale[r]
  <2>3. row \in [Vads -> Nat] /\ stale' = [stale EXCEPT ![r] = [row EXCEPT ![b] = row[b] + Old(r)]]
    BY <1>2, <2>2
  <2> HIDE DEF k, b, row
  <2>4. \A v \in Vads : [row EXCEPT ![b] = row[b] + Old(r)][v] \in Nat
    BY <2>1, <2>3
  <2>5. [row EXCEPT ![b] = row[b] + Old(r)] \in [Vads -> Nat]
    BY <2>3, <2>4
  <2> QED
    BY <2>2, <2>3, <2>5
<1> QED
  BY <1>4, <1>5 DEF TypeOK, ForwardStreamAudio, outerVars, sessionVars, inputVars, flagVars,
    goVars

\* A listener at another step.
LEMMA ToStepTypes ==
  ASSUME TypeOK, NEW l \in Listeners, NEW step \in ListenerSteps, ToStep(l, step)
  PROVE  listener' \in ListenerType
BY TypesOfVariables DEF ToStep, ListenerType

LEMMA ListenerOnlyTypes ==
  ASSUME TypeOK, listener' \in ListenerType, OnlyListener
  PROVE  TypeOK'
BY DEF TypeOK, OnlyListener, ListenerType, outerVars, sessionVars, inputVars, flagVars,
  asrVars, ghosts

\* A listener that enters the select.
LEMMA SelectTypes ==
  ASSUME TypeOK, NEW l \in Listeners, ListenLoop(l) \/ HearPart(l)
  PROVE  TypeOK'
<1>1. field.results \in Nat
  BY DEF TypeOK
<1>2. CASE ListenLoop(l)
  <2>1. listener' \in ListenerType
    BY <1>1, <1>2, TypesOfVariables DEF ListenLoop, ToStep, ListenerType, ListenerSteps
  <2> QED
    BY <1>2, <2>1, ListenerOnlyTypes DEF ListenLoop
<1>3. CASE HearPart(l)
  <2>1. listener' \in ListenerType
    BY <1>1, <1>3, TypesOfVariables DEF HearPart, ListenerType
  <2> QED
    BY <1>3, <2>1, ListenerOnlyTypes DEF HearPart, OnlyListener
<1> QED
  BY <1>2, <1>3

\* RetireAsrResult returns.
LEMMA RetireTypes ==
  ASSUME TypeOK, NEW l \in Listeners, NEW step \in ListenerSteps, NEW s \in Seq(CallNames),
         Retire(l, step, s), rec' \in RecType
  PROVE  TypeOK'
<1>1. listener' \in ListenerType
  BY ToStepTypes DEF Retire
<1>2. todo' \in TodoType
  BY TodoTypes DEF Retire, Goroutines
<1> QED
  BY <1>1, <1>2 DEF TypeOK, Retire, ListenerType, TodoType, RecType, outerVars, sessionVars,
    inputVars, flagVars, ghosts

LEMMA HearTypes ==
  ASSUME TypeOK, NEW l \in Listeners, HearCancel(l) \/ HearFinal(l) \/ HearEnd(l)
  PROVE  TypeOK'
<1>1. {"off", "deliver", "empty"} \subseteq ListenerSteps
  BY DEF ListenerSteps
<1>2. [rec EXCEPT !.of[listener[l].on].ended = TRUE] \in RecType
  <2> DEFINE on == listener[l].on
  <2>1. rec \in RecType
    BY TypesOfVariables
  <2> HIDE DEF on
  <2> QED
    BY <2>1 DEF RecType, Recognition
<1>3. CASE HearCancel(l)
  BY <1>1, <1>3, RetireTypes, PlanTypes, TypesOfVariables DEF HearCancel
<1>4. CASE HearFinal(l)
  BY <1>1, <1>2, <1>4, RetireTypes, PlanTypes DEF HearFinal
<1>5. CASE HearEnd(l)
  BY <1>1, <1>2, <1>5, RetireTypes, PlanTypes DEF HearEnd
<1> QED
  BY <1>3, <1>4, <1>5

LEMMA DeliverTypes ==
  ASSUME TypeOK, NEW l \in Listeners, Deliver(l)
  PROVE  TypeOK'
<1>1. listener' \in ListenerType
  BY ToStepTypes DEF Deliver, ListenerSteps
<1>2. cur' \in Nat /\ sessions' \in Nat /\ cancelled' \subseteq Nat
  BY CtxTypes DEF Deliver, TypeOK, sessionVars
<1> QED
  BY <1>1, <1>2 DEF TypeOK, Deliver, ListenerType, inputVars, flagVars, asrVars, ghosts

LEMMA EmptyTypes ==
  ASSUME TypeOK, NEW l \in Listeners, Again(l) \/ GiveUp(l) \/ EmptyCancelled(l)
  PROVE  TypeOK'
<1>1. CASE Again(l)
  <2>1. todo' \in TodoType
    BY <1>1, TodoTypes, PlanTypes DEF Again, Goroutines
  <2>2. inputs' \in Nat
    BY <1>1 DEF Again, TypeOK
  <2> QED
    BY <1>1, <2>1, <2>2 DEF TypeOK, Again, TodoType, sessionVars, flagVars, asrVars, ghosts
<1>2. CASE GiveUp(l)
  <2>1. listener' \in ListenerType
    BY <1>2, ToStepTypes DEF GiveUp, ListenerSteps
  <2> QED
    BY <1>2, <2>1 DEF TypeOK, GiveUp, ListenerType, sessionVars, inputVars, flagVars, asrVars,
      ghosts
<1>3. CASE EmptyCancelled(l)
  BY <1>3, ToStepTypes, ListenerOnlyTypes DEF EmptyCancelled, ListenerSteps
<1> QED
  BY <1>1, <1>2, <1>3

----------------------------------------------------------------------------
(* The channel is closed once                                              *)

\* Asr.Stop is two calls, one after the other.
Paired(s) ==
  \A i \in 1 .. Len(s) :
    /\ s[i] = "closeChan" => i < Len(s) /\ s[i + 1] = "clearChan"
    /\ s[i] = "clearChan" /\ i > 1 => s[i - 1] = "closeChan"

\* g is between the two.
Clearing(g) == todo[g] # <<>> /\ Head(todo[g]) = "clearChan"

\* Whoever has closed the channel holds the lock until the field is nil; the
\* channel in the field is open unless the lock is held.  Channels are closed
\* after they are made.
ClosingInv ==
  /\ \A g \in Goroutines : Paired(todo[g])
  /\ \A g \in Goroutines : Clearing(g) <=> lock = g
  /\ field.chan <= chan.made
  /\ \A k \in chan.closed : k <= chan.made
  /\ lock = "none" => field.chan \notin chan.closed
  /\ \A k \in Made : closes[k] = IF k \in chan.closed THEN 1 ELSE 0

Inv == TypeOK /\ ClosingInv

\* A list that may be given to a goroutine: it does not begin between the two.
Plan(s) == s \in Seq(CallNames) /\ Paired(s) /\ (s # <<>> => Head(s) # "clearChan")

\* One plan after another is a plan.
LEMMA ConcatPlans ==
  ASSUME NEW s, NEW t, Plan(s), Plan(t), s # <<>>
  PROVE  Plan(s \o t)
<1>1. /\ s \in Seq(CallNames) /\ t \in Seq(CallNames)
      /\ s \o t \in Seq(CallNames) /\ Len(s \o t) = Len(s) + Len(t)
      /\ \A i \in 1 .. Len(s) + Len(t) :
           (s \o t)[i] = IF i <= Len(s) THEN s[i] ELSE t[i - Len(s)]
      /\ Len(s) \in Nat \ {0} /\ Len(t) \in Nat
  BY ConcatProperties, EmptySeq, LenProperties DEF Plan
<1>2. s[1] # "clearChan" /\ (Len(t) > 0 => t[1] # "clearChan")
  <2>1. Len(t) > 0 => t # <<>>
    OBVIOUS
  <2>2. Head(s) = s[1] /\ Head(t) = t[1]
    OBVIOUS
  <2>3. Head(s) # "clearChan" /\ (t # <<>> => Head(t) # "clearChan")
    BY DEF Plan
  <2> QED
    BY <2>1, <2>2, <2>3
<1>3. ASSUME NEW i \in 1 .. Len(s \o t), (s \o t)[i] = "closeChan"
      PROVE  i < Len(s \o t) /\ (s \o t)[i + 1] = "clearChan"
  <2>1. CASE i <= Len(s)
    <3>1. i \in 1 .. Len(s) /\ s[i] = "closeChan"
      BY <1>1, <1>3, <2>1
    <3>2. i < Len(s) /\ s[i + 1] = "clearChan"
      BY <3>1 DEF Plan, Paired
    <3> QED
      BY <1>1, <1>3, <3>1, <3>2
  <2>2. CASE i > Len(s)
    <3>1. i - Len(s) \in 1 .. Len(t) /\ t[i - Len(s)] = "closeChan"
      BY <1>1, <1>3, <2>2
    <3>2. i - Len(s) < Len(t) /\ t[i - Len(s) + 1] = "clearChan"
      BY <3>1 DEF Plan, Paired
    <3> QED
      BY <1>1, <1>3, <2>2, <3>1, <3>2
  <2> QED
    BY <1>1, <2>1, <2>2
<1>4. ASSUME NEW i \in 1 .. Len(s \o t), (s \o t)[i] = "clearChan", i > 1
      PROVE  (s \o t)[i - 1] = "closeChan"
  <2>1. CASE i <= Len(s)
    <3>1. i \in 1 .. Len(s) /\ s[i] = "clearChan"
      BY <1>1, <1>4, <2>1
    <3>2. s[i - 1] = "closeChan"
      BY <1>4, <3>1 DEF Plan, Paired
    <3> QED
      BY <1>1, <1>4, <3>1, <3>2
  <2>2. CASE i > Len(s)
    <3>1. i - Len(s) \in 1 .. Len(t) /\ t[i - Len(s)] = "clearChan"
      BY <1>1, <1>4, <2>2
    <3>2. i - Len(s) > 1
      BY <1>1, <1>2, <3>1
    <3>3. t[i - Len(s) - 1] = "closeChan"
      BY <3>1, <3>2 DEF Plan, Paired
    <3> QED
      BY <1>1, <1>4, <2>2, <3>1, <3>2, <3>3
  <2>3. i <= Len(s) \/ i > Len(s)
    BY <1>1
  <2> QED
    BY <2>1, <2>2, <2>3
<1>5. Head(s \o t) = s[1]
  BY <1>1
<1> QED
  BY <1>1, <1>2, <1>3, <1>4, <1>5 DEF Plan, Paired

LEMMA Plans ==
  /\ Plan(<<>>) /\ Plan(Silence) /\ Plan(Restart) /\ Plan(ListenStart)
  /\ Plan(<<"cancelSession">>) /\ Plan(<<"cancelSession">> \o ListenStart)
<1>1. Plan(<<>>)
  BY PlanTypes DEF Plan, Paired
<1>2. Plan(<<"cancelSession">>)
  BY PlanTypes DEF Plan, Paired
<1>3. Plan(Silence)
  BY PlanTypes DEF Plan, Paired, Silence
<1>4. Plan(Restart)
  BY PlanTypes DEF Plan, Paired, Restart
<1>5. Plan(<<"listening", "closeChan", "clearChan", "destroy">>)
  BY DEF Plan, Paired, CallNames
<1>6. Plan(ListenStart)
  BY <1>4, <1>5, ConcatPlans DEF ListenStart
<1>7. Plan(<<"cancelSession">> \o ListenStart)
  BY <1>2, <1>6, ConcatPlans
<1> QED
  BY <1>1, <1>2, <1>3, <1>4, <1>6, <1>7

\* What is left of a list after its first call.
LEMMA TailPaired ==
  ASSUME NEW s \in Seq(CallNames), s # <<>>, Paired(s)
  PROVE  /\ Paired(Tail(s))
         /\ Head(s) = "closeChan" => Tail(s) # <<>> /\ Head(Tail(s)) = "clearChan"
         /\ Tail(s) # <<>> /\ Head(Tail(s)) = "clearChan" => Head(s) = "closeChan"
<1>1. /\ Tail(s) \in Seq(CallNames) /\ Len(Tail(s)) = Len(s) - 1
      /\ \A i \in 1 .. Len(Tail(s)) : Tail(s)[i] = s[i + 1]
      /\ Len(s) \in Nat \ {0}
  BY HeadTailProperties, EmptySeq
<1>2. Head(s) = s[1]
  OBVIOUS
<1>3. Paired(Tail(s))
  BY <1>1 DEF Paired
<1>4. Tail(s) # <<>> => 1 \in 1 .. Len(Tail(s)) /\ Head(Tail(s)) = s[2] /\ 2 \in 1 .. Len(s)
  <2>1. ASSUME Tail(s) # <<>> PROVE Len(Tail(s)) \in Nat \ {0} /\ Head(Tail(s)) = Tail(s)[1]
    BY <1>1, <2>1, EmptySeq
  <2> QED
    BY <1>1, <2>1
<1>5. Len(s) > 1 => Tail(s) # <<>>
  <2>1. Len(s) > 1 => Len(Tail(s)) # 0
    BY <1>1
  <2>2. \A t : t = <<>> => Len(t) = 0
    OBVIOUS
  <2> QED
    BY <2>1, <2>2
<1>6. Head(s) = "closeChan" => Tail(s) # <<>> /\ Head(Tail(s)) = "clearChan"
  BY <1>1, <1>2, <1>4, <1>5 DEF Paired
<1>7. Tail(s) # <<>> /\ Head(Tail(s)) = "clearChan" => Head(s) = "closeChan"
  BY <1>1, <1>2, <1>4 DEF Paired
<1> QED
  BY <1>3, <1>6, <1>7

\* Nothing that the invariant speaks of has changed.
Quiet == UNCHANGED <<todo, lock, field.chan, chan.made, chan.closed, closes>>

LEMMA QuietKeeps ==
  ASSUME ClosingInv, Quiet
  PROVE  ClosingInv'
BY DEF ClosingInv, Quiet, Clearing

\* The todo of g has changed, and g was not between the two nor is it now.
Moves(g, s) ==
  /\ todo' = [todo EXCEPT ![g] = s]
  /\ ~Clearing(g)
  /\ Plan(s)
  /\ lock' = lock

LEMMA MovesKeepsLists ==
  ASSUME Inv, NEW g \in Goroutines, NEW s, Moves(g, s)
  PROVE  /\ \A h \in Goroutines : Paired(todo'[h])
         /\ \A h \in Goroutines :
              (todo'[h] # <<>> /\ Head(todo'[h]) = "clearChan") <=> lock' = h
<1>1. todo \in TodoType
  BY TypesOfVariables DEF Inv
<1>2. \A h \in Goroutines : todo'[h] = IF h = g THEN s ELSE todo[h]
  BY <1>1 DEF Moves, TodoType
<1>3. \A h \in Goroutines : Paired(todo'[h])
  BY <1>2 DEF Inv, ClosingInv, Moves, Plan
<1>4. \A h \in Goroutines : (todo'[h] # <<>> /\ Head(todo'[h]) = "clearChan") <=> lock' = h
  BY <1>2 DEF Inv, ClosingInv, Moves, Plan, Clearing
<1> QED
  BY <1>3, <1>4

LEMMA MovesKeeps ==
  ASSUME Inv, NEW g \in Goroutines, NEW s, Moves(g, s),
         UNCHANGED <<field.chan, chan.made, chan.closed, closes>>
  PROVE  ClosingInv'
BY MovesKeepsLists DEF Inv, ClosingInv, Clearing, Moves

\* Returning from a call that is neither half of Stop.
LEMMA ReturnMoves ==
  ASSUME Inv, NEW g \in Goroutines, NEW name, Next1(g, name),
         name \notin {"closeChan", "clearChan"}, lock' = lock
  PROVE  /\ Returns(g) => Moves(g, Tail(todo[g]))
         /\ todo' = [todo EXCEPT ![g] = <<>>] => Moves(g, <<>>)
<1>1. todo[g] \in Seq(CallNames) /\ todo[g] # <<>> /\ Paired(todo[g]) /\ Head(todo[g]) = name
  BY TypesOfVariables DEF TodoType, Next1, Inv, ClosingInv
<1>2. ~Clearing(g)
  BY <1>1 DEF Clearing
<1>3. Plan(Tail(todo[g]))
  BY <1>1, TailPaired, HeadTailProperties DEF Plan
<1> QED
  BY <1>2, <1>3, Plans DEF Moves, Returns

\* A goroutine with nothing to do takes a plan.
LEMMA PlanMoves ==
  ASSUME Inv, NEW g \in Goroutines, todo[g] = <<>>, NEW s, Plan(s),
         todo' = [todo EXCEPT ![g] = s], lock' = lock
  PROVE  Moves(g, s)
BY DEF Moves, Clearing

LEMMA NoneIsNobody == "none" \notin Goroutines
BY SlotsAssumption DEF Goroutines

\* Closing: the lock is taken by the goroutine that will forget the channel.
LEMMA CloseChanKeeps ==
  ASSUME Inv, NEW g \in Goroutines, CloseChan(g)
  PROVE  Inv'
<1> DEFINE s == todo[g]
<1>1. s \in Seq(CallNames) /\ s # <<>> /\ Paired(s) /\ Head(s) = "closeChan" /\ lock = "none"
  BY TypesOfVariables DEF TodoType, CloseChan, Next1, Inv, ClosingInv
<1>2. Tail(s) # <<>> /\ Head(Tail(s)) = "clearChan" /\ Paired(Tail(s))
  BY <1>1, TailPaired
<1>3. Tail(s) \in Seq(CallNames)
  BY <1>1, HeadTailProperties
<1>4. TypeOK'
  BY <1>2, CloseChanTypes DEF Inv
<1>5. todo \in TodoType
  BY TypesOfVariables DEF Inv
<1>6. CASE field.chan # 0 /\ CloseField /\ lock' = g /\ Returns(g)
  <2>1. \A h \in Goroutines : todo'[h] = IF h = g THEN Tail(s) ELSE todo[h]
    BY <1>5, <1>6 DEF Returns, TodoType
  <2>2. \A h \in Goroutines : Paired(todo'[h])
    BY <2>1, <1>2 DEF Inv, ClosingInv
  <2>3. \A h \in Goroutines : (todo'[h] # <<>> /\ Head(todo'[h]) = "clearChan") <=> lock' = h
    BY <2>1, <1>1, <1>2, <1>6, NoneIsNobody DEF Inv, ClosingInv, Clearing
  <2>4. chan \in Channels /\ field' = field
    BY DEF CloseChan, Inv, TypeOK
  <2>5. chan'.made = chan.made /\ chan'.closed = chan.closed \cup {field.chan}
    BY <1>6, <2>4 DEF CloseField, Channels
  <2>6. field.chan \notin chan.closed
    BY <1>1 DEF Inv, ClosingInv
  <2>7. \A k \in Made : closes'[k] = IF k \in chan'.closed THEN 1 ELSE 0
    <3>1. closes' = [closes EXCEPT ![field.chan] = @ + 1] /\ closes \in [Made -> Nat]
      BY <1>6 DEF CloseField, Inv, TypeOK
    <3>2. \A k \in Made : closes[k] = IF k \in chan.closed THEN 1 ELSE 0
      BY DEF Inv, ClosingInv
    <3> QED
      BY <2>5, <2>6, <3>1, <3>2
  <2>8. field'.chan <= chan'.made /\ \A k \in chan'.closed : k <= chan'.made
    BY <2>4, <2>5 DEF Inv, ClosingInv
  <2>9. lock' # "none"
    BY <1>6, NoneIsNobody
  <2> QED
    BY <1>4, <2>2, <2>3, <2>7, <2>8, <2>9 DEF Inv, ClosingInv, Clearing
<1>7. CASE todo' = [todo EXCEPT ![g] = Tail(Tail(@))] /\ UNCHANGED <<lock, chan, closes>>
  <2>1. Plan(Tail(Tail(s)))
    BY <1>2, <1>3, TailPaired, HeadTailProperties DEF Plan
  <2>2. Moves(g, Tail(Tail(s)))
    BY <1>1, <1>7, <2>1 DEF Moves, Clearing
  <2>3. field' = field
    BY DEF CloseChan
  <2> QED
    BY <1>4, <1>7, <2>2, <2>3, MovesKeeps DEF Inv
<1> QED
  BY <1>6, <1>7 DEF CloseChan

\* Forgetting: the holder of the lock gives it back with a field that is nil.
LEMMA ClearChanKeeps ==
  ASSUME Inv, NEW g \in Goroutines, ClearChan(g)
  PROVE  Inv'
<1> DEFINE s == todo[g]
<1>1. s \in Seq(CallNames) /\ s # <<>> /\ Paired(s) /\ Head(s) = "clearChan" /\ lock = g
  BY TypesOfVariables DEF TodoType, ClearChan, Call, Next1, Inv, ClosingInv, Clearing
<1>2. Plan(Tail(s))
  BY <1>1, TailPaired, HeadTailProperties DEF Plan
<1>3. TypeOK'
  BY ClearChanTypes DEF Inv
<1>4. todo \in TodoType
  BY TypesOfVariables DEF Inv
<1>5. \A h \in Goroutines : todo'[h] = IF h = g THEN Tail(s) ELSE todo[h]
  BY <1>4 DEF ClearChan, Call, Returns, TodoType
<1>6. \A h \in Goroutines : Paired(todo'[h])
  BY <1>2, <1>5 DEF Inv, ClosingInv, Plan
<1>7. lock' = "none"
  BY DEF ClearChan
<1>8. \A h \in Goroutines : (todo'[h] # <<>> /\ Head(todo'[h]) = "clearChan") <=> lock' = h
  BY <1>1, <1>2, <1>5, <1>7, NoneIsNobody DEF Inv, ClosingInv, Plan, Clearing
<1>9. field'.chan = 0 /\ UNCHANGED <<chan, closes>>
  <2>1. field \in [chan : Nat, results : Nat] /\ field' = [field EXCEPT !.chan = 0]
    BY DEF ClearChan, Inv, TypeOK
  <2> QED
    BY <2>1 DEF ClearChan, ghosts
<1>10. 0 \notin chan.closed /\ 0 <= chan.made
  BY DEF Inv, TypeOK, Channels
<1> QED
  BY <1>3, <1>6, <1>8, <1>9, <1>10 DEF Inv, ClosingInv, Clearing

\* A new channel was never closed.
LEMMA NewChanKeeps ==
  ASSUME Inv, NEW g \in Goroutines, NewChan(g)
  PROVE  Inv'
<1>1. TypeOK'
  BY NewChanTypes DEF Inv
<1>2. Moves(g, Tail(todo[g]))
  BY ReturnMoves DEF NewChan, Call
<1>3. chan \in Channels /\ field \in [chan : Nat, results : Nat]
  BY DEF Inv, TypeOK
<1>4. /\ chan'.made = chan.made + 1 /\ chan'.closed = chan.closed
      /\ field'.chan = chan.made + 1 /\ chan.made \in Nat /\ closes' = closes
      /\ chan.closed \subseteq Nat
  <2>1. /\ chan' = [chan EXCEPT !.made = @ + 1] /\ closes' = closes
        /\ field' = [field EXCEPT !.chan = chan.made + 1]
    BY DEF NewChan, ghosts
  <2>2. chan'.made = chan.made + 1 /\ chan'.closed = chan.closed /\ chan.made \in Nat
        /\ chan.closed \subseteq Nat
    BY <1>3, <2>1 DEF Channels
  <2> QED
    BY <1>3, <2>1, <2>2
<1>5. \A k \in chan.closed : k <= chan.made
  BY DEF Inv, ClosingInv
<1>6. /\ field'.chan <= chan'.made /\ field'.chan \notin chan'.closed
      /\ \A k \in chan'.closed : k <= chan'.made
  BY <1>4, <1>5
<1>7. \A k \in Made : closes'[k] = IF k \in chan'.closed THEN 1 ELSE 0
  BY <1>4 DEF Inv, ClosingInv
<1> QED
  BY <1>1, <1>2, <1>6, <1>7, MovesKeepsLists DEF Inv, ClosingInv, Clearing

\* The other calls.
LEMMA CallsKeep ==
  ASSUME Inv, NEW g \in Goroutines, Calls(g)
  PROVE  Inv'
<1>1. CASE CancelSession(g)
  <2>1. Moves(g, Tail(todo[g])) /\ UNCHANGED <<field, chan, closes>>
    BY <1>1, ReturnMoves DEF CancelSession, Call, asrVars, ghosts
  <2> QED
    BY <1>1, <2>1, MovesKeeps, CancelSessionTypes DEF Inv
<1>2. CASE SetListening(g)
  <2>1. (Moves(g, Tail(todo[g])) \/ Moves(g, <<>>)) /\ UNCHANGED <<field, chan, closes>>
    BY <1>2, ReturnMoves DEF SetListening, Returns, asrVars, ghosts
  <2> QED
    BY <1>2, <2>1, MovesKeeps, SetListeningTypes DEF Inv
<1>3. CASE Destroy(g)
  <2>1. Moves(g, Tail(todo[g])) /\ UNCHANGED <<field, chan, closes>>
    BY <1>3, ReturnMoves DEF Destroy, Call, asrVars, ghosts
  <2> QED
    BY <1>3, <2>1, MovesKeeps, DestroyTypes DEF Inv
<1>4. CASE StopVoice(g)
  <2>1. Moves(g, Tail(todo[g])) /\ UNCHANGED <<field, chan, closes>>
    BY <1>4, ReturnMoves DEF StopVoice, Call, asrVars, ghosts
  <2> QED
    BY <1>4, <2>1, MovesKeeps, StopVoiceTypes DEF Inv
<1>5. CASE ResetVad(g)
  <2>1. Moves(g, Tail(todo[g])) /\ UNCHANGED <<field, chan, closes>>
    BY <1>5, ReturnMoves DEF ResetVad, Call, asrVars, ghosts
  <2> QED
    BY <1>5, <2>1, MovesKeeps, ResetVadTypes DEF Inv
<1>6. CASE CancelAsr(g)
  <2>1. (Moves(g, Tail(todo[g])) \/ Moves(g, <<>>)) /\ UNCHANGED <<field, chan, closes>>
    BY <1>6, ReturnMoves DEF CancelAsr, Fails, asrVars
  <2> QED
    BY <1>6, <2>1, MovesKeeps, CancelAsrTypes DEF Inv
<1>7. CASE Recognize(g)
  <2>1. (Moves(g, Tail(todo[g])) \/ Moves(g, <<>>)) /\ UNCHANGED <<field, chan, closes>>
    BY <1>7, ReturnMoves DEF Recognize, Fails, ghosts
  <2> QED
    BY <1>7, <2>1, MovesKeeps, RecognizeTypes DEF Inv
<1>8. CASE Publish(g)
  <2>1. Moves(g, Tail(todo[g])) /\ UNCHANGED <<chan, closes>>
    BY <1>8, ReturnMoves DEF Publish, Call, ghosts
  <2>2. UNCHANGED field.chan
    BY <1>8 DEF Publish, Inv, TypeOK
  <2> QED
    BY <1>8, <2>1, <2>2, MovesKeeps, PublishTypes DEF Inv
<1> QED
  BY <1>1, <1>2, <1>3, <1>4, <1>5, <1>6, <1>7, <1>8, CloseChanKeeps, ClearChanKeeps,
    NewChanKeeps DEF Calls

\* Messages for the command loop.
LEMMA CommandsKeep ==
  ASSUME Inv, Commands
  PROVE  Inv'
<1>1. TypeOK'
  BY CommandsTypes DEF Inv
<1>2. ASSUME NEW s, Plan(s), Receive(s) PROVE ClosingInv'
  <2>1. todo["cmd"] = <<>> /\ "cmd" \in Goroutines
    BY <1>2 DEF Receive, Free, Goroutines
  <2>2. Moves("cmd", s) /\ UNCHANGED <<field, chan, closes>>
    BY <1>2, <2>1, PlanMoves DEF Receive, asrVars, ghosts
  <2> QED
    BY <2>1, <2>2, MovesKeeps
<1>3. CASE \E v \in Vads : HandleHelloMessage(v)
  <2>1. Quiet
    BY <1>3 DEF HandleHelloMessage, OnlyVad, Quiet, asrVars, ghosts
  <2> QED
    BY <1>1, <2>1, QuietKeeps DEF Inv
<1>4. CASE \E m \in {"auto", "manual"} : HandleListenStart(m)
  BY <1>1, <1>2, <1>4, Plans DEF HandleListenStart, Inv
<1>5. CASE HandleListenStop
  BY <1>1, <1>2, <1>5, Plans DEF HandleListenStop, Inv
<1>6. CASE StopSpeaking
  BY <1>1, <1>2, <1>6, Plans DEF StopSpeaking, Inv
<1> QED
  BY <1>3, <1>4, <1>5, <1>6 DEF Commands

\* The VAD goroutine: it takes Silence as a plan.
LEMMA VadKeeps ==
  ASSUME Inv, NEW v \in Vads, ProcessVadAudio(v)
  PROVE  Inv'
<1>1. TypeOK'
  BY VadTypes DEF Inv
<1>2. v \in Goroutines
  BY DEF Goroutines
<1>3. ASSUME AfterSend(v), todo[v] = <<>>,
             UNCHANGED <<chan.made, chan.closed, closes>> PROVE ClosingInv'
  <2>1. CASE UNCHANGED todo
    BY <1>3, <2>1, QuietKeeps DEF Quiet, AfterSend, Inv
  <2>2. CASE todo' = [todo EXCEPT ![v] = Silence]
    <3>1. Moves(v, Silence) /\ UNCHANGED field
      BY <1>2, <1>3, <2>2, Plans, PlanMoves DEF AfterSend
    <3> QED
      BY <1>2, <1>3, <3>1, MovesKeeps
  <2> QED
    BY <1>3, <2>1, <2>2 DEF AfterSend
<1>4. ASSUME OnlyVad PROVE ClosingInv'
  BY <1>4, QuietKeeps DEF Quiet, OnlyVad, Inv, asrVars, ghosts
<1>5. ASSUME Panic(v) PROVE ClosingInv'
  BY <1>5, QuietKeeps DEF Quiet, Panic, Inv, asrVars, ghosts, goVars
<1>6. CASE TakeFrame(v) \/ VadEnds(v) \/ IsVad(v) \/ LoadChan(v)
  BY <1>1, <1>4, <1>5, <1>6 DEF TakeFrame, VadEnds, IsVad, LoadChan, Inv
<1>7. CASE InitVad(v) \/ Decide(v)
  BY <1>1, <1>7, QuietKeeps DEF Quiet, InitVad, Decide, Inv, asrVars, ghosts
<1>8. CASE CheckChan(v)
  <2>1. CASE OnlyVad
    BY <1>1, <1>4, <2>1 DEF Inv
  <2>2. CASE AfterSend(v) /\ UNCHANGED chan
    BY <1>1, <1>3, <1>8, <2>2 DEF CheckChan, At, Free, AfterSend, Inv, ghosts
  <2> QED
    BY <1>8, <2>1, <2>2 DEF CheckChan
<1>9. CASE SendFrame(v)
  <2>1. CASE Panic(v)
    BY <1>1, <1>5, <2>1 DEF Inv
  <2>2. CASE AfterSend(v) /\ ~Panic(v)
    <3> DEFINE k == vad[v].chan
               b == Append(chan.buf[k], [by |-> v, at |-> vad[v].at])
    <3>1. chan' = [chan EXCEPT !.buf[k] = b]
      BY <1>9, <2>2 DEF SendFrame
    <3>2. chan'.made = chan.made /\ chan'.closed = chan.closed
      <4> HIDE DEF k, b
      <4> QED
        BY <3>1 DEF Inv, TypeOK, Channels
    <3> QED
      BY <1>1, <1>3, <1>9, <2>2, <3>2 DEF SendFrame, At, Free, AfterSend, Inv, ghosts
  <2> QED
    BY <1>9, <2>1, <2>2 DEF SendFrame
<1> QED
  BY <1>6, <1>7, <1>8, <1>9 DEF ProcessVadAudio

LEMMA ForwardKeeps ==
  ASSUME Inv, NEW r \in Made, ForwardStreamAudio(r)
  PROVE  Inv'
<1> DEFINE k == rec.of[r].chan
           b == Tail(chan.buf[k])
<1>1. TypeOK'
  BY ForwardTypes DEF Inv
<1>2. chan' = [chan EXCEPT !.buf[k] = b]
  BY DEF ForwardStreamAudio
<1>3. chan'.made = chan.made /\ chan'.closed = chan.closed
  <2> HIDE DEF k, b
  <2> QED
    BY <1>2 DEF Inv, TypeOK, Channels
<1>4. Quiet
  BY <1>3 DEF Quiet, ForwardStreamAudio, goVars
<1> QED
  BY <1>1, <1>4, QuietKeeps DEF Inv

\* The listener: it takes Silence or Restart as a plan.
LEMMA ListenKeeps ==
  ASSUME Inv, NEW l \in Listeners, Listen(l)
  PROVE  Inv'
<1>1. TypeOK'
  BY SelectTypes, HearTypes, DeliverTypes, EmptyTypes DEF Listen, Inv
<1>2. l \in Goroutines
  BY DEF Goroutines
<1>3. ASSUME NEW step, NEW s, Plan(s), todo[l] = <<>>, Retire(l, step, s) PROVE ClosingInv'
  <2>1. Moves(l, s) /\ UNCHANGED <<field, chan, closes>>
    BY <1>2, <1>3, PlanMoves DEF Retire, ghosts
  <2> QED
    BY <1>2, <2>1, MovesKeeps
<1>4. CASE ListenLoop(l) \/ HearPart(l) \/ Deliver(l) \/ GiveUp(l) \/ EmptyCancelled(l)
  <2>1. Quiet
    BY <1>4 DEF Quiet, ListenLoop, HearPart, Deliver, GiveUp, EmptyCancelled, OnlyListener,
      asrVars, ghosts
  <2> QED
    BY <1>1, <2>1, QuietKeeps DEF Inv
<1>5. CASE HearCancel(l) \/ HearFinal(l) \/ HearEnd(l)
  BY <1>1, <1>3, <1>5, Plans DEF HearCancel, HearFinal, HearEnd, Is, Free, Inv
<1>6. CASE Again(l)
  <2>1. Moves(l, Restart) /\ UNCHANGED <<field, chan, closes>>
    BY <1>2, <1>6, Plans, PlanMoves DEF Again, Is, Free, asrVars, ghosts
  <2> QED
    BY <1>1, <1>2, <2>1, MovesKeeps DEF Inv
<1> QED
  BY <1>4, <1>5, <1>6 DEF Listen

----------------------------------------------------------------------------
(* Theorems                                                                *)

LEMMA InitInv == Init => Inv
<1> SUFFICES ASSUME Init PROVE Inv
  OBVIOUS
<1>1. TypeOK
  <2>1. todo \in TodoType /\ own \in OwnType
    BY PlanTypes DEF Init, TodoType, OwnType, NoRestart
  <2>2. vad \in VadType /\ listener \in ListenerType
    BY DEF Init, VadType, ListenerType, Resting, VadSteps, ListenerSteps
  <2>3. chan \in Channels
    <3>1. [k \in Made |-> <<>>] \in [Made -> Seq(Frame)]
      BY EmptySeq
    <3> QED
      BY <3>1 DEF Init, Channels
  <2>4. rec \in RecType
    BY DEF Init, RecType, Recognition
  <2>5. closes \in [Made -> Nat] /\ stale \in [Made -> [Vads -> Nat]]
    BY DEF Init
  <2>6. field \in [chan : Nat, results : Nat]
    BY DEF Init
  <2> QED
    BY <2>1, <2>2, <2>3, <2>4, <2>5, <2>6 DEF Init, TypeOK, TodoType, OwnType, VadType,
      ListenerType, RecType
<1>2. ClosingInv
  BY Plans, NoneIsNobody DEF Init, ClosingInv, Clearing, Plan
<1> QED
  BY <1>1, <1>2 DEF Inv

LEMMA NextInv == Inv /\ [Next]_vars => Inv'
<1> SUFFICES ASSUME Inv, [Next]_vars PROVE Inv'
  OBVIOUS
<1>1. CASE UNCHANGED vars
  <2>1. Quiet
    BY <1>1 DEF vars, Quiet, asrVars, goVars, ghosts
  <2>2. TypeOK'
    BY <1>1 DEF Inv, TypeOK, vars, outerVars, sessionVars, inputVars, flagVars, asrVars,
      goVars, ghosts
  <2> QED
    BY <2>1, <2>2, QuietKeeps DEF Inv
<1>2. CASE ReplyStarts \/ Disconnect
  <2>1. Quiet
    BY <1>2 DEF ReplyStarts, Disconnect, Quiet, asrVars, goVars, ghosts
  <2>2. TypeOK'
    BY <1>2 DEF Inv, TypeOK, ReplyStarts, Disconnect, outerVars, sessionVars, inputVars,
      flagVars, asrVars, goVars, ghosts
  <2> QED
    BY <2>1, <2>2, QuietKeeps DEF Inv
<1> QED
  BY <1>1, <1>2, CommandsKeep, CallsKeep, VadKeeps, ListenKeeps, ForwardKeeps DEF Next

\* Every variable keeps its type, and the invariant holds at every step.
THEOREM InvHolds == Spec => []Inv
BY InitInv, NextInv, PTL DEF Spec

\* TypeOK, for any number of goroutines and messages.
THEOREM TypeCorrect == Spec => []TypeOK
<1>1. Inv => TypeOK
  BY DEF Inv
<1> QED
  BY <1>1, InvHolds, PTL

\* The channel of a recognition is closed once (Asr.Stop), whatever number of
\* goroutines stops the recognition while others start it again.
THEOREM ChannelClosedOnce == Spec => []ClosedOnce
<1>1. Inv => ClosedOnce
  BY DEF Inv, ClosingInv, ClosedOnce
<1> QED
  BY <1>1, InvHolds, PTL

----------------------------------------------------------------------------
(* Few stale frames                                                        *)

\* In a list of calls a recognition is started right after its channel is
\* made, and one channel is made at most.
Chained(s) ==
  /\ \A i \in 1 .. Len(s) : s[i] = "recognize" /\ i > 1 => s[i - 1] = "newChan"
  /\ \A i, j \in 1 .. Len(s) : s[i] = "newChan" /\ s[j] = "newChan" => i = j

Makes(s) == \E i \in 1 .. Len(s) : s[i] = "newChan"
Making == {g \in Goroutines : Makes(todo[g])}

\* Every channel but the first comes from an input, so Made numbers them all.
Bounded ==
  /\ IsFiniteSet(Making)
  /\ inputs <= MaxInputs
  /\ chan.made + Cardinality(Making) <= inputs + 1

Known ==
  /\ \A v \in Vads : vad[v].chan <= chan.made
  /\ \A r \in Made : rec.of[r].chan <= chan.made
  /\ \A k \in Made : k > chan.made => chan.buf[k] = <<>>

Timely ==
  /\ \A g \in Goroutines : own[g].since <= listens
  /\ \A r \in Made : rec.of[r].since <= listens

\* The frames of v from before t: in channel k, and the one v holds.
OldAt(k, i, v, t) == chan.buf[k][i].by = v /\ chan.buf[k][i].at < t
Carries(v, t) == vad[v].step \notin {"off", "take"} /\ vad[v].at < t

AtMostOne(k, v, t) ==
  \A i \in 1 .. Len(chan.buf[k]) : OldAt(k, i, v, t) =>
    /\ ~Carries(v, t)
    /\ \A j \in 1 .. Len(chan.buf[k]) : OldAt(k, j, v, t) => i = j
NoneOld(k, v, t) ==
  ~Carries(v, t) /\ \A i \in 1 .. Len(chan.buf[k]) : ~OldAt(k, i, v, t)

\* Recognition r has read no stale frame of v and at most one is under way, or
\* it has read one and none is.
Few(r, v) ==
  /\ rec.of[r].chan = 0 \/ r > rec.made => stale[r][v] = 0
  /\ rec.of[r].chan # 0 =>
       /\ AtMostOne(rec.of[r].chan, v, rec.of[r].since)
       /\ stale[r][v] = 0 \/ (stale[r][v] = 1 /\ NoneOld(rec.of[r].chan, v, rec.of[r].since))

\* g starts a recognition next, with whatever channel is in the field then.
Starting(g) == todo[g] # <<>> /\ Head(todo[g]) = "recognize"

StaleInv ==
  /\ \A g \in Goroutines : Chained(todo[g])
  /\ Bounded /\ Known /\ Timely
  /\ \A r \in Made, v \in Vads : Few(r, v)
  /\ \A g \in Goroutines, v \in Vads :
       Starting(g) /\ field.chan # 0 => AtMostOne(field.chan, v, own[g].since)

\* A list that may be given to a goroutine.
Fresh(s) ==
  s \in Seq(CallNames) /\ Chained(s) /\ (s # <<>> => Head(s) # "recognize")

\* A plan that makes no channel, before one that does.
LEMMA ConcatFresh ==
  ASSUME NEW s, NEW t, Fresh(s), Fresh(t), s # <<>>, ~Makes(s)
  PROVE  Fresh(s \o t)
<1>1. /\ s \in Seq(CallNames) /\ t \in Seq(CallNames)
      /\ s \o t \in Seq(CallNames) /\ Len(s \o t) = Len(s) + Len(t)
      /\ \A i \in 1 .. Len(s) + Len(t) :
           (s \o t)[i] = IF i <= Len(s) THEN s[i] ELSE t[i - Len(s)]
      /\ Len(s) \in Nat \ {0} /\ Len(t) \in Nat
  BY ConcatProperties, EmptySeq, LenProperties DEF Fresh
<1>2. s[1] # "recognize" /\ (Len(t) > 0 => t[1] # "recognize")
  <2>1. Len(t) > 0 => t # <<>>
    OBVIOUS
  <2>2. Head(s) = s[1] /\ Head(t) = t[1]
    OBVIOUS
  <2>3. Head(s) # "recognize" /\ (t # <<>> => Head(t) # "recognize")
    BY DEF Fresh
  <2> QED
    BY <2>1, <2>2, <2>3
<1>3. ASSUME NEW i \in 1 .. Len(s \o t), (s \o t)[i] = "recognize", i > 1
      PROVE  (s \o t)[i - 1] = "newChan"
  <2>1. CASE i <= Len(s)
    <3>1. i \in 1 .. Len(s) /\ s[i] = "recognize"
      BY <1>1, <1>3, <2>1
    <3>2. s[i - 1] = "newChan"
      BY <1>3, <3>1 DEF Fresh, Chained
    <3> QED
      BY <1>1, <1>3, <3>1, <3>2
  <2>2. CASE i > Len(s)
    <3>1. i - Len(s) \in 1 .. Len(t) /\ t[i - Len(s)] = "recognize"
      BY <1>1, <1>3, <2>2
    <3>2. i - Len(s) > 1
      BY <1>1, <1>2, <3>1
    <3>3. t[i - Len(s) - 1] = "newChan"
      BY <3>1, <3>2 DEF Fresh, Chained
    <3> QED
      BY <1>1, <1>3, <2>2, <3>1, <3>2, <3>3
  <2>3. i <= Len(s) \/ i > Len(s)
    BY <1>1
  <2> QED
    BY <2>1, <2>2, <2>3
<1>4. ASSUME NEW i \in 1 .. Len(s \o t), (s \o t)[i] = "newChan"
      PROVE  i > Len(s) /\ i - Len(s) \in 1 .. Len(t) /\ t[i - Len(s)] = "newChan"
  <2>1. i > Len(s)
    BY <1>1, <1>4 DEF Makes
  <2> QED
    BY <1>1, <1>4, <2>1
<1>5. ASSUME NEW i \in 1 .. Len(s \o t), NEW j \in 1 .. Len(s \o t),
             (s \o t)[i] = "newChan", (s \o t)[j] = "newChan"
      PROVE  i = j
  <2>1. i - Len(s) = j - Len(s)
    <3>1. i - Len(s) \in 1 .. Len(t) /\ t[i - Len(s)] = "newChan"
      BY <1>4, <1>5
    <3>2. j - Len(s) \in 1 .. Len(t) /\ t[j - Len(s)] = "newChan"
      BY <1>4, <1>5
    <3> QED
      BY <3>1, <3>2 DEF Fresh, Chained
  <2> QED
    BY <1>1, <2>1
<1>6. Head(s \o t) = s[1]
  BY <1>1
<1> QED
  BY <1>1, <1>2, <1>3, <1>5, <1>6 DEF Fresh, Chained

LEMMA FreshPlans ==
  /\ Fresh(<<>>) /\ Fresh(Silence) /\ Fresh(Restart) /\ Fresh(ListenStart)
  /\ Fresh(<<"cancelSession">>) /\ Fresh(<<"cancelSession">> \o ListenStart)
  /\ ~Makes(<<>>) /\ ~Makes(Silence)
<1>1. Fresh(<<>>) /\ ~Makes(<<>>)
  BY PlanTypes DEF Fresh, Chained, Makes
<1>2. Fresh(<<"cancelSession">>) /\ ~Makes(<<"cancelSession">>)
  BY PlanTypes DEF Fresh, Chained, Makes
<1>3. Fresh(Silence) /\ ~Makes(Silence)
  BY PlanTypes DEF Fresh, Chained, Silence, Makes
<1>4. Fresh(Restart)
  BY PlanTypes DEF Fresh, Chained, Restart
<1>5. /\ Fresh(<<"listening", "closeChan", "clearChan", "destroy">>)
      /\ ~Makes(<<"listening", "closeChan", "clearChan", "destroy">>)
  BY DEF Fresh, Chained, CallNames, Makes
<1>6. Fresh(ListenStart)
  BY <1>4, <1>5, ConcatFresh DEF ListenStart
<1>7. Fresh(<<"cancelSession">> \o ListenStart)
  BY <1>2, <1>6, ConcatFresh
<1> QED
  BY <1>1, <1>2, <1>3, <1>4, <1>6, <1>7

\* What is left of a list after its first call.
LEMMA TailFresh ==
  ASSUME NEW s \in Seq(CallNames), s # <<>>, Chained(s)
  PROVE  /\ Tail(s) \in Seq(CallNames) /\ Chained(Tail(s))
         /\ Head(s) # "newChan" => Fresh(Tail(s))
         /\ Makes(Tail(s)) => Makes(s)
         /\ Head(s) = "newChan" => Makes(s) /\ ~Makes(Tail(s))
<1>1. /\ Tail(s) \in Seq(CallNames) /\ Len(Tail(s)) = Len(s) - 1
      /\ \A i \in 1 .. Len(Tail(s)) : Tail(s)[i] = s[i + 1]
      /\ Len(s) \in Nat \ {0}
  BY HeadTailProperties, EmptySeq
<1>2. Head(s) = s[1]
  OBVIOUS
<1>3. Chained(Tail(s))
  <2>1. ASSUME NEW i \in 1 .. Len(Tail(s)), Tail(s)[i] = "recognize", i > 1
        PROVE  Tail(s)[i - 1] = "newChan"
    <3>1. i + 1 \in 1 .. Len(s) /\ s[i + 1] = "recognize" /\ i + 1 > 1
      BY <1>1, <2>1
    <3>2. s[(i + 1) - 1] = "newChan"
      BY <3>1 DEF Chained
    <3> QED
      BY <1>1, <2>1, <3>2
  <2>2. ASSUME NEW i \in 1 .. Len(Tail(s)), NEW j \in 1 .. Len(Tail(s)),
               Tail(s)[i] = "newChan", Tail(s)[j] = "newChan"
        PROVE  i = j
    <3>1. i + 1 \in 1 .. Len(s) /\ j + 1 \in 1 .. Len(s)
          /\ s[i + 1] = "newChan" /\ s[j + 1] = "newChan"
      BY <1>1, <2>2
    <3> QED
      BY <3>1 DEF Chained
  <2> QED
    BY <2>1, <2>2 DEF Chained
<1>4. ASSUME Head(s) # "newChan", Tail(s) # <<>> PROVE Head(Tail(s)) # "recognize"
  <2>1. Len(Tail(s)) \in Nat \ {0} /\ Head(Tail(s)) = Tail(s)[1]
    BY <1>1, <1>4, EmptySeq
  <2>2. Tail(s)[1] = s[2] /\ 2 \in 1 .. Len(s)
    BY <1>1, <2>1
  <2> QED
    BY <1>2, <1>4, <2>1, <2>2 DEF Chained
<1>5. ASSUME NEW i \in 1 .. Len(Tail(s)), Tail(s)[i] = "newChan"
      PROVE  i + 1 \in 1 .. Len(s) /\ s[i + 1] = "newChan" /\ i + 1 # 1
  BY <1>1, <1>5
<1>6. Head(s) = "newChan" => Makes(s) /\ ~Makes(Tail(s))
  BY <1>1, <1>2, <1>5 DEF Makes, Chained
<1> QED
  BY <1>1, <1>3, <1>4, <1>5, <1>6 DEF Fresh, Makes

----------------------------------------------------------------------------
(* Few stale frames: what a step keeps                                     *)

\* g turns to another list; what makes a channel was counted with an input.
Turns(g, s) ==
  /\ todo' = [todo EXCEPT ![g] = s]
  /\ Fresh(s)
  /\ Makes(s) => Makes(todo[g]) \/ inputs' = inputs + 1

LEMMA TurnsLists ==
  ASSUME Inv, StaleInv, NEW g \in Goroutines, NEW s, Turns(g, s)
  PROVE  /\ \A h \in Goroutines : todo'[h] = IF h = g THEN s ELSE todo[h]
         /\ \A h \in Goroutines : Chained(todo'[h])
         /\ \A h \in Goroutines : Starting(h)' => h # g /\ Starting(h)
<1>1. todo \in TodoType
  BY TypesOfVariables DEF Inv
<1>2. \A h \in Goroutines : todo'[h] = IF h = g THEN s ELSE todo[h]
  BY <1>1 DEF Turns, TodoType
<1>3. \A h \in Goroutines : Chained(todo'[h])
  BY <1>2 DEF StaleInv, Turns, Fresh
<1>4. \A h \in Goroutines : Starting(h)' => h # g /\ Starting(h)
  BY <1>2 DEF Turns, Fresh, Starting
<1> QED
  BY <1>2, <1>3, <1>4

\* The channels made and to be made, after an input or without one.
LEMMA TurnsBounded ==
  ASSUME Inv, StaleInv, NEW g \in Goroutines, NEW s, Turns(g, s), chan'.made = chan.made,
         inputs' = inputs \/ (inputs' = inputs + 1 /\ inputs < MaxInputs)
  PROVE  Bounded'
<1>1. /\ IsFiniteSet(Making) /\ inputs <= MaxInputs
      /\ chan.made + Cardinality(Making) <= inputs + 1
  BY DEF StaleInv, Bounded
<1>2. inputs \in Nat /\ MaxInputs \in Nat /\ chan.made \in Nat /\ Cardinality(Making) \in Nat
  BY <1>1, FS_CardinalityType, BoundsAssumption DEF Inv, TypeOK, Channels
<1>3. \A h \in Goroutines : todo'[h] = IF h = g THEN s ELSE todo[h]
  BY TurnsLists
<1>4. CASE inputs' = inputs
  <2>1. Makes(s) => Makes(todo[g])
    BY <1>2, <1>4 DEF Turns
  <2>2. Making' \in SUBSET Making
    BY <1>3, <2>1 DEF Making
  <2>3. IsFiniteSet(Making') /\ Cardinality(Making') <= Cardinality(Making)
    BY <1>1, <2>2, FS_Subset
  <2>4. Cardinality(Making') \in Nat
    BY <2>3, FS_CardinalityType
  <2>5. chan'.made + Cardinality(Making') <= inputs' + 1
    BY <1>1, <1>2, <1>4, <2>3, <2>4
  <2>6. Bounded' <=> /\ IsFiniteSet(Making') /\ inputs' <= MaxInputs
                     /\ chan'.made + Cardinality(Making') <= inputs' + 1
    BY DEF Bounded
  <2> QED
    BY <1>1, <1>4, <2>3, <2>5, <2>6
<1>5. CASE inputs' = inputs + 1 /\ inputs < MaxInputs
  <2>1. Making' \in SUBSET (Making \cup {g})
    BY <1>3 DEF Making
  <2>2. /\ IsFiniteSet(Making \cup {g}) /\ Cardinality(Making \cup {g}) \in Nat
        /\ Cardinality(Making \cup {g}) <= Cardinality(Making) + 1
    <3>1. /\ IsFiniteSet(Making \cup {g})
          /\ Cardinality(Making \cup {g}) =
               IF g \in Making THEN Cardinality(Making) ELSE Cardinality(Making) + 1
      BY <1>1, FS_AddElement
    <3> QED
      BY <1>2, <3>1
  <2>3. IsFiniteSet(Making') /\ Cardinality(Making') <= Cardinality(Making \cup {g})
    BY <2>1, <2>2, FS_Subset
  <2>4. Cardinality(Making') \in Nat
    BY <2>3, FS_CardinalityType
  <2>5. chan'.made + Cardinality(Making') <= inputs' + 1 /\ inputs' <= MaxInputs
    BY <1>1, <1>2, <1>5, <2>2, <2>3, <2>4
  <2>6. Bounded' <=> /\ IsFiniteSet(Making') /\ inputs' <= MaxInputs
                     /\ chan'.made + Cardinality(Making') <= inputs' + 1
    BY DEF Bounded
  <2> QED
    BY <2>3, <2>5, <2>6
<1> QED
  BY <1>4, <1>5

\* The channels made are numbers of Made.
LEMMA MadeBound ==
  ASSUME Inv, StaleInv
  PROVE  /\ chan.made \in Nat /\ \A k \in Nat : k # 0 /\ k <= chan.made => k \in Made
         /\ field.chan \in Nat /\ field.chan <= chan.made
         /\ listens \in Nat /\ rec.made \in Nat
         /\ \A v \in Vads : vad[v].chan \in Nat /\ vad[v].chan <= chan.made
         /\ \A r \in Made : /\ rec.of[r].chan \in Nat /\ rec.of[r].chan <= chan.made
                             /\ rec.of[r].since \in Nat /\ rec.of[r].since <= listens
         /\ \A g \in Goroutines : own[g].since \in Nat /\ own[g].since <= listens
<1>1. /\ IsFiniteSet(Making) /\ inputs <= MaxInputs
      /\ chan.made + Cardinality(Making) <= inputs + 1
  BY DEF StaleInv, Bounded
<1>2. inputs \in Nat /\ MaxInputs \in Nat /\ chan.made \in Nat /\ Cardinality(Making) \in Nat
  BY <1>1, FS_CardinalityType, BoundsAssumption DEF Inv, TypeOK, Channels
<1>3. \A k \in Nat : k # 0 /\ k <= chan.made => k \in Made
  BY <1>1, <1>2 DEF Made
<1>4. field.chan \in Nat /\ field.chan <= chan.made /\ listens \in Nat
  BY DEF Inv, TypeOK, ClosingInv
<1>5. /\ rec.made \in Nat
      /\ \A r \in Made : rec.of[r].chan \in Nat /\ rec.of[r].since \in Nat
  BY DEF Inv, TypeOK, Recognition
<1>6. \A v \in Vads : vad[v].chan \in Nat
  BY DEF Inv, TypeOK
<1>7. \A g \in Goroutines : own[g].since \in Nat
  BY DEF Inv, TypeOK
<1> QED
  BY <1>2, <1>3, <1>4, <1>5, <1>6, <1>7 DEF StaleInv, Known, Timely

\* Nobody has come to hold an older frame.
Calm(v) == \A t \in Nat : t <= listens /\ Carries(v, t)' => Carries(v, t)

\* In no channel are there more old frames than before.
Settled ==
  \A k \in Made, v \in Vads, t \in Nat : t <= listens =>
    /\ AtMostOne(k, v, t) => AtMostOne(k, v, t)'
    /\ NoneOld(k, v, t) => NoneOld(k, v, t)'

LEMMA CalmSettles ==
  ASSUME chan'.buf = chan.buf, \A v \in Vads : Calm(v)
  PROVE  Settled
BY DEF Settled, Calm, AtMostOne, NoneOld, OldAt

LEMMA SameVadCalm ==
  ASSUME NEW v \in Vads, vad'[v] = vad[v]
  PROVE  Calm(v)
BY DEF Calm, Carries

\* What a step leaves of the recognitions, the frames they have read, and the
\* channels made.
Untouched ==
  /\ Settled
  /\ rec'.made = rec.made
  /\ \A r \in Made : rec'.of[r].chan = rec.of[r].chan /\ rec'.of[r].since = rec.of[r].since
  /\ stale' = stale
  /\ listens <= listens'
  /\ chan'.made = chan.made
  /\ \A k \in Made : k > chan.made => chan'.buf[k] = <<>>

\* Such a step keeps the bound for every recognition.
LEMMA UntouchedFew ==
  ASSUME Inv, StaleInv, Untouched, NEW r \in Made, NEW v \in Vads
  PROVE  Few(r, v)'
<1> DEFINE k == rec.of[r].chan
           t == rec.of[r].since
<1>1. rec'.of[r].chan = k /\ rec'.of[r].since = t /\ rec'.made = rec.made /\ stale' = stale
  BY DEF Untouched
<1>2. k \in Nat /\ t \in Nat /\ t <= listens /\ (k # 0 => k \in Made)
  BY MadeBound
<1>3. Few(r, v)
  BY DEF StaleInv
<1>4. ASSUME k # 0
      PROVE  /\ AtMostOne(k, v, t) => AtMostOne(k, v, t)'
             /\ NoneOld(k, v, t) => NoneOld(k, v, t)'
  BY <1>2, <1>4 DEF Untouched, Settled
<1>5. Few(r, v) <=>
        /\ k = 0 \/ r > rec.made => stale[r][v] = 0
        /\ k # 0 => /\ AtMostOne(k, v, t)
                    /\ stale[r][v] = 0 \/ (stale[r][v] = 1 /\ NoneOld(k, v, t))
  BY DEF Few
<1>6. Few(r, v)' <=>
        /\ k = 0 \/ r > rec.made => stale[r][v] = 0
        /\ k # 0 => /\ AtMostOne(k, v, t)'
                    /\ stale[r][v] = 0 \/ (stale[r][v] = 1 /\ NoneOld(k, v, t)')
  BY <1>1 DEF Few, AtMostOne, NoneOld, OldAt, Carries
<1> HIDE DEF k, t
<1> QED
  BY <1>3, <1>4, <1>5, <1>6

\* A restart that is to start its recognition next, on the channel in the
\* field: it was so before, or there is no channel now.
LEMMA UntouchedStarting ==
  ASSUME Inv, StaleInv, Untouched, NEW g \in Goroutines, NEW v \in Vads,
         Starting(g), own'[g].since = own[g].since, field'.chan = field.chan, field.chan # 0
  PROVE  AtMostOne(field.chan, v, own[g].since)'
<1>1. field.chan \in Made /\ own[g].since \in Nat /\ own[g].since <= listens
  BY MadeBound
<1>2. PICK k \in Made, t \in Nat : k = field.chan /\ t = own[g].since /\ t <= listens
  BY <1>1
<1>3. AtMostOne(k, v, t)
  BY <1>2 DEF StaleInv
<1>4. AtMostOne(k, v, t)'
  BY <1>2, <1>3 DEF Untouched, Settled
<1>5. field'.chan = k /\ own'[g].since = t
  BY <1>2
<1> QED
  BY <1>4, <1>5 DEF AtMostOne, OldAt, Carries

LEMMA UntouchedKeeps ==
  ASSUME Inv, StaleInv, Untouched, Bounded',
         \A h \in Goroutines : Chained(todo'[h]),
         \A h \in Goroutines : Starting(h)' => Starting(h) /\ own'[h].since = own[h].since,
         \A h \in Goroutines : own'[h].since <= listens',
         field'.chan \in {0, field.chan},
         \A v \in Vads : vad'[v].chan <= chan.made,
         listens' \in Nat
  PROVE  StaleInv'
<1>1. Known'
  BY MadeBound DEF Known, Untouched
<1>2. Timely'
  <2>1. \A r \in Made : rec'.of[r].since <= listens'
    BY MadeBound DEF Untouched
  <2> QED
    BY <2>1 DEF Timely
<1>3. \A r \in Made, v \in Vads : Few(r, v)'
  BY UntouchedFew
<1>4. ASSUME NEW g \in Goroutines, NEW v \in Vads, Starting(g)', field'.chan # 0
      PROVE  AtMostOne(field.chan, v, own[g].since)'
  BY <1>4, UntouchedStarting
<1>5. \A g \in Goroutines, v \in Vads :
        (Starting(g)' /\ field'.chan # 0) => AtMostOne(field.chan, v, own[g].since)'
  BY <1>4
<1> QED
  BY <1>1, <1>2, <1>3, <1>5 DEF StaleInv

\* A step of g that only turns to another list, and gives g's restart another
\* time.
LEMMA TurnsKeeps ==
  ASSUME Inv, StaleInv, NEW g \in Goroutines, NEW s, Turns(g, s),
         inputs' = inputs \/ (inputs' = inputs + 1 /\ inputs < MaxInputs),
         Untouched,
         \A h \in Goroutines : h # g => own'[h].since = own[h].since,
         own'[g].since <= listens',
         field'.chan \in {0, field.chan},
         \A v \in Vads : vad'[v].chan <= chan.made,
         listens' \in Nat
  PROVE  StaleInv'
<1>1. Bounded'
  BY TurnsBounded DEF Untouched
<1>2. /\ \A h \in Goroutines : Chained(todo'[h])
      /\ \A h \in Goroutines : Starting(h)' => h # g /\ Starting(h)
  BY TurnsLists
<1>3. \A h \in Goroutines : own'[h].since <= listens'
  BY MadeBound DEF Untouched
<1> QED
  BY <1>1, <1>2, <1>3, UntouchedKeeps

\* Returning from a call that makes no channel, or giving up.
LEMMA ReturnTurns ==
  ASSUME Inv, StaleInv, NEW g \in Goroutines, NEW name, Next1(g, name), name # "newChan"
  PROVE  /\ Returns(g) => Turns(g, Tail(todo[g]))
         /\ todo' = [todo EXCEPT ![g] = <<>>] => Turns(g, <<>>)
<1>1. todo[g] \in Seq(CallNames) /\ todo[g] # <<>> /\ Chained(todo[g]) /\ Head(todo[g]) = name
  BY TypesOfVariables DEF TodoType, Next1, Inv, StaleInv
<1>2. Fresh(Tail(todo[g])) /\ (Makes(Tail(todo[g])) => Makes(todo[g]))
  BY <1>1, TailFresh
<1> QED
  BY <1>2, FreshPlans DEF Turns, Returns

\* A step that touches neither channels nor goroutines of the audio.
LEMMA Undisturbed ==
  ASSUME Inv, StaleInv, chan'.buf = chan.buf, chan'.made = chan.made, vad' = vad,
         rec'.made = rec.made, stale' = stale, listens' \in {listens, listens + 1},
         \A r \in Made : rec'.of[r].chan = rec.of[r].chan /\ rec'.of[r].since = rec.of[r].since
  PROVE  /\ Untouched /\ listens' \in Nat
         /\ \A v \in Vads : vad'[v].chan <= chan.made
<1>1. Settled
  BY CalmSettles, SameVadCalm
<1>2. \A k \in Made : k > chan.made => chan'.buf[k] = <<>>
  BY DEF StaleInv, Known
<1>3. listens <= listens' /\ listens' \in Nat
  BY MadeBound
<1> QED
  BY <1>1, <1>2, <1>3, MadeBound DEF Untouched

\* Stop: the channel is closed, its frames stay; then the field is nil.
LEMMA CloseChanStale ==
  ASSUME Inv, StaleInv, NEW g \in Goroutines, CloseChan(g)
  PROVE  StaleInv'
<1> DEFINE s == todo[g]
<1>1. s \in Seq(CallNames) /\ s # <<>> /\ Paired(s) /\ Chained(s) /\ Head(s) = "closeChan"
  BY TypesOfVariables DEF TodoType, CloseChan, Next1, Inv, ClosingInv, StaleInv
<1>2. Tail(s) # <<>> /\ Head(Tail(s)) = "clearChan"
  BY <1>1, TailPaired
<1>3. Tail(s) \in Seq(CallNames) /\ Fresh(Tail(s)) /\ (Makes(Tail(s)) => Makes(s))
  BY <1>1, TailFresh
<1>4. Fresh(Tail(Tail(s))) /\ (Makes(Tail(Tail(s))) => Makes(s))
  BY <1>2, <1>3, TailFresh DEF Fresh
<1>5. Turns(g, Tail(s)) \/ Turns(g, Tail(Tail(s)))
  BY <1>3, <1>4 DEF CloseChan, Returns, Turns
<1>6. chan'.buf = chan.buf /\ chan'.made = chan.made
  BY DEF CloseChan, CloseField, Inv, TypeOK, Channels
<1>7. /\ Untouched /\ listens' \in Nat /\ \A v \in Vads : vad'[v].chan <= chan.made
  BY <1>6, Undisturbed DEF CloseChan
<1>8. own' = own /\ inputs' = inputs /\ field' = field /\ listens' = listens
  BY DEF CloseChan, outerVars, inputVars
<1> HIDE DEF s
<1> QED
  BY <1>5, <1>7, <1>8, MadeBound, TurnsKeeps

\* A call that leaves the audio and the times of the restarts alone.
LEMMA QuietCallKeeps ==
  ASSUME Inv, StaleInv, NEW g \in Goroutines, NEW s, Turns(g, s),
         UNCHANGED <<inputs, chan, rec, vad, own, listens, stale>>, field'.chan \in {0, field.chan}
  PROVE  StaleInv'
<1>1. Untouched /\ listens' \in Nat /\ \A v \in Vads : vad'[v].chan <= chan.made
  BY Undisturbed
<1> QED
  BY <1>1, MadeBound, TurnsKeeps

LEMMA QuietCallsStale ==
  ASSUME Inv, StaleInv, NEW g \in Goroutines,
         \/ CancelSession(g) \/ SetListening(g) \/ ClearChan(g) \/ StopVoice(g) \/ ResetVad(g)
  PROVE  StaleInv'
<1>1. CASE CancelSession(g)
  BY <1>1, ReturnTurns, QuietCallKeeps
    DEF CancelSession, Call, inputVars, asrVars, ghosts
<1>2. CASE SetListening(g)
  <2>1. Turns(g, Tail(todo[g])) \/ Turns(g, <<>>)
    BY <1>2, ReturnTurns DEF SetListening, Returns
  <2> QED
    BY <1>2, <2>1, QuietCallKeeps DEF SetListening, outerVars, inputVars, asrVars, ghosts
<1>3. CASE ClearChan(g)
  <2>1. field'.chan = 0
    BY <1>3 DEF ClearChan, Inv, TypeOK
  <2> QED
    BY <1>3, <2>1, ReturnTurns, QuietCallKeeps DEF ClearChan, Call, outerVars, inputVars, ghosts
<1>4. CASE StopVoice(g)
  BY <1>4, ReturnTurns, QuietCallKeeps
    DEF StopVoice, Call, outerVars, inputVars, asrVars, ghosts
<1>5. CASE ResetVad(g)
  BY <1>5, ReturnTurns, QuietCallKeeps
    DEF ResetVad, Call, outerVars, inputVars, asrVars, ghosts
<1> QED
  BY <1>1, <1>2, <1>3, <1>4, <1>5

\* Destroy gives the restart its session context, not its time.
LEMMA DestroyStale ==
  ASSUME Inv, StaleInv, NEW g \in Goroutines, Destroy(g)
  PROVE  StaleInv'
<1>1. Turns(g, Tail(todo[g]))
  BY ReturnTurns DEF Destroy, Call
<1>2. Untouched /\ listens' \in Nat /\ \A v \in Vads : vad'[v].chan <= chan.made
  BY Undisturbed DEF Destroy, asrVars, ghosts
<1>3. \A h \in Goroutines : own'[h].since = own[h].since
  BY TypesOfVariables DEF Destroy, OwnType, Inv
<1>4. inputs' = inputs /\ field' = field /\ listens' = listens
  BY DEF Destroy, inputVars, asrVars, ghosts
<1> QED
  BY <1>1, <1>2, <1>3, <1>4, MadeBound, TurnsKeeps

\* A restart begins: everything taken so far is old for it, and it has a
\* channel to make before it starts a recognition.
LEMMA CancelAsrStale ==
  ASSUME Inv, StaleInv, NEW g \in Goroutines, CancelAsr(g)
  PROVE  StaleInv'
<1>1. Turns(g, Tail(todo[g])) \/ Turns(g, <<>>)
  BY ReturnTurns DEF CancelAsr, Fails
<1>2. Untouched /\ listens' \in Nat /\ \A v \in Vads : vad'[v].chan <= chan.made
  BY Undisturbed DEF CancelAsr, asrVars
<1>3. /\ \A h \in Goroutines : h # g => own'[h].since = own[h].since
      /\ own'[g].since = listens + 1
  BY TypesOfVariables DEF CancelAsr, OwnType, Inv
<1>4. inputs' = inputs /\ field' = field /\ listens' = listens + 1 /\ listens \in Nat
  BY DEF CancelAsr, inputVars, asrVars, Inv, TypeOK
<1>5. own'[g].since <= listens'
  BY <1>3, <1>4
<1> QED
  BY <1>1, <1>2, <1>3, <1>4, <1>5, TurnsKeeps

\* The result channel is published; the restart is over.
LEMMA PublishStale ==
  ASSUME Inv, StaleInv, NEW g \in Goroutines, Publish(g)
  PROVE  StaleInv'
<1>1. Turns(g, Tail(todo[g]))
  BY ReturnTurns DEF Publish, Call
<1>2. Untouched /\ listens' \in Nat /\ \A v \in Vads : vad'[v].chan <= chan.made
  BY Undisturbed DEF Publish, ghosts
<1>3. inputs' = inputs /\ field'.chan = field.chan /\ listens' = listens
  BY DEF Publish, outerVars, inputVars, ghosts, Inv, TypeOK
<1>4. own \in OwnType
  BY TypesOfVariables DEF Inv
<1>5. /\ \A h \in Goroutines : h # g => own'[h].since = own[h].since
      /\ own'[g].since = 0
  <2>1. CASE g = "cmd"
    <3>1. PICK l \in Listeners : own' = [own EXCEPT ![l].ctx = own[g].ctx, ![g] = NoRestart]
      BY <2>1 DEF Publish
    <3>2. l # g /\ l \in Goroutines
      BY <2>1, SlotsAssumption DEF Goroutines
    <3>3. \A h \in Goroutines : own'[h] =
            IF h = g THEN NoRestart ELSE IF h = l THEN [own[l] EXCEPT !.ctx = own[g].ctx]
            ELSE own[h]
      BY <1>4, <3>1, <3>2 DEF OwnType
    <3> QED
      BY <1>4, <3>2, <3>3 DEF OwnType, NoRestart
  <2>2. CASE g # "cmd"
    BY <1>4, <2>2 DEF Publish, OwnType
  <2> QED
    BY <2>1, <2>2
<1>6. own'[g].since <= listens'
  BY <1>3, <1>5, MadeBound
<1> QED
  BY <1>1, <1>2, <1>3, <1>5, <1>6, TurnsKeeps

\* A new channel holds no frame, and it was counted.
LEMMA NewChanStale ==
  ASSUME Inv, StaleInv, NEW g \in Goroutines, NewChan(g)
  PROVE  StaleInv'
<1>1. todo[g] \in Seq(CallNames) /\ todo[g] # <<>> /\ Chained(todo[g]) /\ Head(todo[g]) = "newChan"
  BY TypesOfVariables DEF TodoType, NewChan, Call, Next1, Inv, StaleInv
<1>2. Chained(Tail(todo[g])) /\ Makes(todo[g]) /\ ~Makes(Tail(todo[g]))
  BY <1>1, TailFresh
<1>3. \A h \in Goroutines : todo'[h] = IF h = g THEN Tail(todo[g]) ELSE todo[h]
  BY TypesOfVariables DEF NewChan, Call, Returns, TodoType, Inv
<1>4. /\ chan'.made = chan.made + 1 /\ chan'.buf = chan.buf
      /\ field'.chan = chan.made + 1 /\ chan.made \in Nat
  <2>1. chan \in Channels /\ field \in [chan : Nat, results : Nat]
    BY DEF Inv, TypeOK
  <2>2. /\ chan' = [chan EXCEPT !.made = @ + 1]
        /\ field' = [field EXCEPT !.chan = chan.made + 1]
    BY DEF NewChan
  <2>3. chan'.made = chan.made + 1 /\ chan'.buf = chan.buf /\ chan.made \in Nat
    BY <2>1, <2>2 DEF Channels
  <2> QED
    BY <2>1, <2>2, <2>3
<1>5. UNCHANGED <<inputs, rec, vad, own, listens, stale>>
  BY DEF NewChan, outerVars, inputVars, ghosts
<1>6. Bounded'
  <2>1. /\ IsFiniteSet(Making) /\ inputs <= MaxInputs
        /\ chan.made + Cardinality(Making) <= inputs + 1
    BY DEF StaleInv, Bounded
  <2>2. inputs \in Nat /\ MaxInputs \in Nat /\ Cardinality(Making) \in Nat
    BY <2>1, FS_CardinalityType, BoundsAssumption DEF Inv, TypeOK
  <2>3. Making' = Making \ {g} /\ g \in Making
    BY <1>2, <1>3 DEF Making
  <2>4. IsFiniteSet(Making') /\ Cardinality(Making') = Cardinality(Making) - 1
    BY <2>1, <2>3, FS_RemoveElement
  <2>5. chan'.made + Cardinality(Making') <= inputs' + 1 /\ inputs' <= MaxInputs
    BY <1>4, <1>5, <2>1, <2>2, <2>4
  <2>6. Bounded' <=> /\ IsFiniteSet(Making') /\ inputs' <= MaxInputs
                     /\ chan'.made + Cardinality(Making') <= inputs' + 1
    BY DEF Bounded
  <2> QED
    BY <2>4, <2>5, <2>6
<1>7. chan.made + 1 \in Made
  <2>1. /\ IsFiniteSet(Making') /\ inputs' <= MaxInputs
        /\ chan'.made + Cardinality(Making') <= inputs' + 1
    BY <1>6 DEF Bounded
  <2>2. Cardinality(Making') \in Nat /\ MaxInputs \in Nat /\ inputs \in Nat
    BY <2>1, FS_CardinalityType, BoundsAssumption DEF Inv, TypeOK
  <2> QED
    BY <1>4, <1>5, <2>1, <2>2 DEF Made
<1>8. chan.buf[chan.made + 1] = <<>>
  BY <1>4, <1>7 DEF StaleInv, Known
<1>9. Known'
  <2>1. \A v \in Vads : vad'[v].chan <= chan'.made
    BY <1>4, <1>5, MadeBound
  <2>2. \A r \in Made : rec'.of[r].chan <= chan'.made
    BY <1>4, <1>5, MadeBound
  <2>3. \A k \in Made : k > chan'.made => chan'.buf[k] = <<>>
    BY <1>4, BoundsAssumption DEF StaleInv, Known, Made
  <2> QED
    BY <2>1, <2>2, <2>3 DEF Known
<1>10. Timely'
  BY <1>5 DEF StaleInv, Timely
<1>11. \A r \in Made, v \in Vads : Few(r, v)'
  BY <1>4, <1>5 DEF StaleInv, Few, AtMostOne, NoneOld, OldAt, Carries
<1>12. \A v \in Vads, h \in Goroutines : AtMostOne(field.chan, v, own[h].since)'
  <2>1. chan'.buf[field'.chan] = <<>>
    BY <1>4, <1>8
  <2>2. Len(<<>>) = 0
    OBVIOUS
  <2> QED
    BY <2>1, <2>2 DEF AtMostOne
<1>13. \A h \in Goroutines : Chained(todo'[h])
  BY <1>2, <1>3 DEF StaleInv
<1> QED
  BY <1>6, <1>9, <1>10, <1>11, <1>12, <1>13 DEF StaleInv

\* A recognition starts on the channel in the field, and begins with its count.
LEMMA RecognizeStale ==
  ASSUME Inv, StaleInv, NEW g \in Goroutines, Recognize(g)
  PROVE  StaleInv'
<1>1. Turns(g, Tail(todo[g])) \/ Turns(g, <<>>)
  BY ReturnTurns DEF Recognize, Fails
<1>2. UNCHANGED <<inputs, field, chan, vad, listens, stale>>
  BY DEF Recognize, inputVars, ghosts
<1>3. CASE UNCHANGED <<rec, own>>
  BY <1>1, <1>2, <1>3, QuietCallKeeps
<1>4. CASE ~UNCHANGED <<rec, own>>
  <2>1. /\ rec' = [made |-> rec.made + 1,
                   of |-> [rec.of EXCEPT ![rec.made + 1] =
                       [chan |-> field.chan, since |-> own[g].since, ended |-> FALSE]]]
        /\ own' = [own EXCEPT ![g].rec = rec.made + 1]
    BY <1>4 DEF Recognize
  <2>2. \A h \in Goroutines : own'[h].since = own[h].since
    BY <2>1, TypesOfVariables DEF OwnType, Inv
  <2>3. /\ rec'.made = rec.made + 1 /\ rec.made \in Nat
        /\ \A r \in Made : rec'.of[r] =
             IF r = rec.made + 1 THEN [chan |-> field.chan, since |-> own[g].since, ended |-> FALSE]
             ELSE rec.of[r]
    BY <2>1 DEF Inv, TypeOK
  <2>4. Bounded'
    BY <1>1, <1>2, TurnsBounded
  <2>5. Known'
    BY <1>2, <2>3, MadeBound DEF StaleInv, Known
  <2>6. Timely'
    BY <1>2, <2>2, <2>3, MadeBound DEF StaleInv, Timely
  <2>7. Starting(g)
    BY DEF Recognize, Next1, Starting
  <2>8. ASSUME NEW r \in Made, NEW v \in Vads PROVE Few(r, v)'
    <3>1. Few(r, v)
      BY DEF StaleInv
    <3>2. CASE r = rec.made + 1
      <4>1. stale[r][v] = 0
        <5>1. r > rec.made
          BY <2>3, <3>2
        <5> QED
          BY <3>1, <5>1 DEF Few
      <4>2. rec'.of[r].chan = field.chan /\ rec'.of[r].since = own[g].since
        BY <2>3, <3>2
      <4>3. field.chan # 0 => AtMostOne(field.chan, v, own[g].since)
        BY <2>7 DEF StaleInv
      <4> QED
        BY <1>2, <4>1, <4>2, <4>3 DEF Few, AtMostOne, OldAt, Carries
    <3>3. CASE r # rec.made + 1
      <4>1. rec'.of[r] = rec.of[r]
        BY <2>3, <3>3
      <4>2. r > rec'.made => r > rec.made
        BY <2>3, BoundsAssumption DEF Made
      <4> QED
        BY <1>2, <3>1, <4>1, <4>2 DEF Few, AtMostOne, NoneOld, OldAt, Carries
    <3> QED
      BY <3>2, <3>3
  <2>9. /\ \A h \in Goroutines : Chained(todo'[h])
        /\ \A h \in Goroutines : Starting(h)' => Starting(h)
    BY <1>1, TurnsLists
  <2>10. ASSUME NEW h \in Goroutines, NEW v \in Vads, Starting(h)', field'.chan # 0
         PROVE  AtMostOne(field.chan, v, own[h].since)'
    <3>1. AtMostOne(field.chan, v, own[h].since)
      BY <1>2, <2>9, <2>10 DEF StaleInv
    <3> QED
      BY <1>2, <2>2, <3>1 DEF AtMostOne, OldAt, Carries
  <2> QED
    BY <2>4, <2>5, <2>6, <2>8, <2>9, <2>10 DEF StaleInv
<1> QED
  BY <1>3, <1>4

LEMMA CallsStale ==
  ASSUME Inv, StaleInv, NEW g \in Goroutines, Calls(g)
  PROVE  StaleInv'
BY QuietCallsStale, CloseChanStale, DestroyStale, CancelAsrStale, NewChanStale, RecognizeStale,
  PublishStale DEF Calls

\* A goroutine with nothing to do takes a plan.
LEMMA PlanTurns ==
  ASSUME Inv, NEW g \in Goroutines, NEW s, Fresh(s), todo' = [todo EXCEPT ![g] = s],
         Makes(s) => inputs' = inputs + 1
  PROVE  Turns(g, s)
BY DEF Turns

\* A step that leaves the todo of every goroutine as it is.
LEMMA SameTodoKeeps ==
  ASSUME Inv, StaleInv, Untouched, UNCHANGED <<inputs, todo, own, field.chan, listens>>,
         \A v \in Vads : vad'[v].chan <= chan.made
  PROVE  StaleInv'
<1>1. Bounded'
  BY DEF StaleInv, Bounded, Making, Untouched
<1>2. /\ \A h \in Goroutines : Chained(todo'[h])
      /\ \A h \in Goroutines : Starting(h)' => Starting(h)
  BY DEF StaleInv, Starting
<1> QED
  BY <1>1, <1>2, MadeBound, UntouchedKeeps

\* Messages for the command loop.
LEMMA CommandsStale ==
  ASSUME Inv, StaleInv, Commands
  PROVE  StaleInv'
<1>1. ASSUME NEW s, Fresh(s), Receive(s), vad' = vad PROVE StaleInv'
  <2>1. "cmd" \in Goroutines
    BY DEF Goroutines
  <2>2. Turns("cmd", s)
    BY <1>1, <2>1, PlanTurns DEF Receive
  <2>3. Untouched /\ listens' \in Nat /\ \A v \in Vads : vad'[v].chan <= chan.made
    BY <1>1, Undisturbed DEF Receive, asrVars, ghosts
  <2>4. own' = own /\ field' = field /\ listens' = listens /\ inputs' = inputs + 1
        /\ inputs < MaxInputs
    BY <1>1 DEF Receive, asrVars, ghosts
  <2> QED
    BY <2>1, <2>2, <2>3, <2>4, MadeBound, TurnsKeeps
<1>2. CASE \E m \in {"auto", "manual"} : HandleListenStart(m)
  BY <1>1, <1>2, FreshPlans DEF HandleListenStart
<1>3. CASE HandleListenStop
  BY <1>1, <1>3, FreshPlans DEF HandleListenStop
<1>4. CASE StopSpeaking
  BY <1>1, <1>4, FreshPlans DEF StopSpeaking
<1>5. CASE \E v \in Vads : HandleHelloMessage(v)
  <2>1. PICK v \in Vads : HandleHelloMessage(v)
    BY <1>5
  <2>2. /\ vad[v].step = "off" /\ vad' = [vad EXCEPT ![v].step = "take"]
        /\ OnlyVad
    BY <2>1 DEF HandleHelloMessage, GoTo
  <2>3. \A w \in Vads : vad'[w] = IF w = v THEN [vad[v] EXCEPT !.step = "take"] ELSE vad[w]
    BY <2>2, TypesOfVariables DEF VadType, Inv
  <2>4. vad'[v].step = "take" /\ vad'[v].chan = vad[v].chan
    BY <2>2, TypesOfVariables DEF VadType, Inv
  <2>5. \A w \in Vads : Calm(w)
    BY <2>3, <2>4, SameVadCalm DEF Calm, Carries
  <2>6. UNCHANGED <<chan, rec, stale, inputs, todo, own, field, listens>>
    BY <2>2 DEF OnlyVad, outerVars, inputVars, asrVars, ghosts
  <2>7. Untouched
    BY <2>5, <2>6, CalmSettles, MadeBound DEF Untouched, StaleInv, Known
  <2>8. \A w \in Vads : vad'[w].chan <= chan.made
    BY <2>3, <2>4, MadeBound
  <2> QED
    BY <2>6, <2>7, <2>8, SameTodoKeeps
<1> QED
  BY <1>2, <1>3, <1>4, <1>5 DEF Commands

\* A step of the VAD goroutine v after which v holds no older frame.
LEMMA VadCalm ==
  ASSUME Inv, StaleInv, NEW v \in Vads, NEW e, vad' = [vad EXCEPT ![v] = e],
         \/ e.step \in {"off", "take"}
         \/ e.at = listens
         \/ vad[v].step \notin {"off", "take"} /\ e.at = vad[v].at,
         UNCHANGED <<chan, rec, stale, listens>>, e.chan = 0 \/ e.chan <= chan.made
  PROVE  Untouched /\ \A w \in Vads : vad'[w].chan <= chan.made
<1>1. \A w \in Vads : vad'[w] = IF w = v THEN e ELSE vad[w]
  BY TypesOfVariables DEF VadType, Inv
<1>2. ASSUME NEW w \in Vads PROVE Calm(w)
  <2>1. CASE w = v
    <3>1. vad'[v] = e /\ listens \in Nat
      BY <1>1, MadeBound
    <3> QED
      BY <2>1, <3>1 DEF Calm, Carries
  <2>2. CASE w # v
    BY <1>1, <2>2, SameVadCalm
  <2> QED
    BY <2>1, <2>2
<1>3. Untouched
  BY <1>2, CalmSettles, MadeBound DEF Untouched, StaleInv, Known
<1>4. \A w \in Vads : vad'[w].chan <= chan.made
  BY <1>1, MadeBound
<1> QED
  BY <1>3, <1>4

LEMMA VadRecords ==
  ASSUME Inv, NEW v \in Vads
  PROVE  /\ \A step : GoTo(v, step) =>
              \E e : /\ vad' = [vad EXCEPT ![v] = e]
                     /\ e.step = step /\ e.at = vad[v].at /\ e.chan = vad[v].chan
         /\ Drop(v) \/ Leave(v) =>
              \E e : vad' = [vad EXCEPT ![v] = e] /\ e.step \in {"off", "take"} /\ e.chan = 0
<1>1. vad \in VadType
  BY TypesOfVariables DEF Inv
<1>2. ASSUME NEW step, GoTo(v, step)
      PROVE  \E e : /\ vad' = [vad EXCEPT ![v] = e]
                    /\ e.step = step /\ e.at = vad[v].at /\ e.chan = vad[v].chan
  <2>1. vad' = [vad EXCEPT ![v] = [vad[v] EXCEPT !.step = step]]
    BY <1>1, <1>2 DEF GoTo, VadType
  <2>2. /\ [vad[v] EXCEPT !.step = step].step = step
        /\ [vad[v] EXCEPT !.step = step].at = vad[v].at
        /\ [vad[v] EXCEPT !.step = step].chan = vad[v].chan
    BY <1>1 DEF VadType
  <2> QED
    BY <2>1, <2>2
<1>3. ASSUME Drop(v) \/ Leave(v)
      PROVE  \E e : vad' = [vad EXCEPT ![v] = e] /\ e.step \in {"off", "take"} /\ e.chan = 0
  <2>1. CASE Drop(v)
    <3>1. /\ [Resting EXCEPT !.step = "take"].step = "take"
          /\ [Resting EXCEPT !.step = "take"].chan = 0
      BY DEF Resting
    <3> QED
      BY <2>1, <3>1 DEF Drop
  <2>2. CASE Leave(v)
    <3>1. Resting.step = "off" /\ Resting.chan = 0
      BY DEF Resting
    <3> QED
      BY <2>2, <3>1 DEF Leave
  <2> QED
    BY <1>3, <2>1, <2>2
<1> QED
  BY <1>2, <1>3

\* The steps of the VAD goroutine up to its send.
LEMMA VadStepsStale ==
  ASSUME Inv, StaleInv, NEW v \in Vads,
         \/ TakeFrame(v) \/ VadEnds(v) \/ InitVad(v) \/ IsVad(v) \/ Decide(v) \/ LoadChan(v)
  PROVE  StaleInv'
<1>1. vad \in VadType
  BY TypesOfVariables DEF Inv
<1>2. UNCHANGED <<chan, rec, stale, listens, inputs, todo, own, field>>
  BY DEF TakeFrame, VadEnds, InitVad, IsVad, Decide, LoadChan, OnlyVad, Panic, outerVars,
    sessionVars, inputVars, asrVars, goVars, ghosts
<1>3. Untouched /\ \A w \in Vads : vad'[w].chan <= chan.made
  <2>1. CASE TakeFrame(v)
    <3> DEFINE e == [Resting EXCEPT !.step = IF mode = "manual" THEN "decide" ELSE "detect",
                       !.at = listens, !.have = mode = "manual",
                       !.had = haveVoice \/ mode = "manual"]
    <3>1. vad' = [vad EXCEPT ![v] = e] /\ e.at = listens /\ e.chan = 0
      BY <2>1 DEF TakeFrame, Resting
    <3> HIDE DEF e
    <3> QED
      BY <1>2, <3>1, VadCalm
  <2>2. CASE \/ VadEnds(v) \/ Drop(v) \/ Leave(v)
    <3>1. PICK e : vad' = [vad EXCEPT ![v] = e] /\ e.step \in {"off", "take"} /\ e.chan = 0
      BY <2>2, VadRecords DEF VadEnds
    <3> QED
      BY <1>2, <3>1, VadCalm
  <2>3. ASSUME NEW step, GoTo(v, step), vad[v].step \notin {"off", "take"}
        PROVE  Untouched /\ \A w \in Vads : vad'[w].chan <= chan.made
    <3>1. PICK e : /\ vad' = [vad EXCEPT ![v] = e]
                   /\ e.step = step /\ e.at = vad[v].at /\ e.chan = vad[v].chan
      BY <2>3, VadRecords
    <3>2. e.chan <= chan.made
      BY <3>1, MadeBound
    <3> QED
      BY <1>2, <2>3, <3>1, <3>2, VadCalm
  <2>4. CASE InitVad(v)
    BY <2>2, <2>3, <2>4 DEF InitVad, At
  <2>5. CASE IsVad(v)
    <3>1. vad[v].step \notin {"off", "take"}
      BY <2>5 DEF IsVad, At
    <3>2. CASE Panic(v)
      <4>1. \A w \in Vads : Calm(w) /\ vad'[w].chan <= chan.made
        BY <3>2, SameVadCalm, MadeBound DEF Panic, goVars
      <4> QED
        BY <1>2, <4>1, CalmSettles, MadeBound DEF Untouched, StaleInv, Known
    <3>3. CASE \E have \in BOOLEAN :
                 vad' = [vad EXCEPT ![v].step = "decide", ![v].have = have]
      <4>1. PICK have \in BOOLEAN : vad' = [vad EXCEPT ![v].step = "decide", ![v].have = have]
        BY <3>3
      <4> DEFINE e == [vad[v] EXCEPT !.step = "decide", !.have = have]
      <4>2. vad' = [vad EXCEPT ![v] = e]
        BY <1>1, <4>1 DEF VadType
      <4>3. e.at = vad[v].at /\ e.chan = vad[v].chan
        BY <1>1 DEF VadType
      <4>4. vad[v].chan <= chan.made
        BY MadeBound
      <4> HIDE DEF e
      <4> QED
        BY <1>2, <3>1, <4>2, <4>3, <4>4, VadCalm
    <3> QED
      BY <2>2, <2>5, <3>2, <3>3 DEF IsVad
  <2>6. CASE Decide(v)
    BY <2>2, <2>3, <2>6 DEF Decide, At
  <2>7. CASE LoadChan(v)
    <3> DEFINE e == [vad[v] EXCEPT !.step = "send", !.chan = field.chan]
    <3>1. vad' = [vad EXCEPT ![v] = e] /\ vad[v].step = "load"
      BY <1>1, <2>7 DEF VadType, LoadChan, At
    <3>2. e.at = vad[v].at /\ e.chan = field.chan
      BY <1>1 DEF VadType
    <3>3. field.chan <= chan.made
      BY MadeBound
    <3> HIDE DEF e
    <3> QED
      BY <1>2, <3>1, <3>2, <3>3, VadCalm
  <2> QED
    BY <2>1, <2>2, <2>4, <2>5, <2>6, <2>7
<1> QED
  BY <1>2, <1>3, SameTodoKeeps

\* After the send v holds nothing; it may have to stop the recognition.
LEMMA AfterSendStale ==
  ASSUME Inv, StaleInv, NEW v \in Vads, AfterSend(v), Untouched, UNCHANGED listens
  PROVE  StaleInv'
<1>1. PICK e : vad' = [vad EXCEPT ![v] = e] /\ e.chan = 0
  BY VadRecords DEF AfterSend
<1>2. \A w \in Vads : vad'[w].chan <= chan.made
  BY <1>1, MadeBound, TypesOfVariables DEF Inv, VadType
<1>3. UNCHANGED <<inputs, own, field>>
  BY DEF AfterSend, outerVars, inputVars
<1>4. CASE UNCHANGED todo
  BY <1>2, <1>3, <1>4, SameTodoKeeps
<1>5. CASE todo' = [todo EXCEPT ![v] = Silence]
  <2>1. v \in Goroutines /\ Turns(v, Silence)
    BY <1>5, FreshPlans, PlanTurns DEF Goroutines
  <2> QED
    BY <1>2, <1>3, <2>1, MadeBound, TurnsKeeps
<1> QED
  BY <1>4, <1>5 DEF AfterSend

\* The frame of v is the last in channel k now, and no longer with v.
LEMMA SendSettles ==
  ASSUME Inv, StaleInv, NEW v \in Vads, NEW k \in Made, Drop(v),
         chan'.buf = [chan.buf EXCEPT ![k] = Append(@, [by |-> v, at |-> vad[v].at])],
         vad[v].step = "send"
  PROVE  Settled
<1>1. \A w \in Vads : vad'[w] = IF w = v THEN [Resting EXCEPT !.step = "take"] ELSE vad[w]
  BY TypesOfVariables DEF Drop, VadType, Inv
<1>2. vad'[v].step = "take"
  BY <1>1 DEF Resting
<1>3. ASSUME NEW w \in Vads, NEW t \in Nat
      PROVE  /\ w # v => (Carries(w, t)' <=> Carries(w, t))
             /\ ~Carries(v, t)' /\ (Carries(v, t) <=> vad[v].at < t)
  BY <1>1, <1>2 DEF Carries
<1>4. chan.buf \in [Made -> Seq(Frame)] /\ chan.buf[k] \in Seq(Frame)
      /\ [by |-> v, at |-> vad[v].at] \in Frame
  BY DEF Inv, TypeOK, Channels, Frame
<1>5. PICK s \in Seq(Frame), f \in Frame, n \in Nat :
        s = chan.buf[k] /\ f = [by |-> v, at |-> vad[v].at] /\ n = Len(s)
  BY <1>4, LenProperties
<1>6. /\ \A j \in Made : chan'.buf[j] = IF j = k THEN Append(s, f) ELSE chan.buf[j]
      /\ Len(Append(s, f)) = n + 1
      /\ \A i \in 1 .. n : Append(s, f)[i] = s[i]
      /\ Append(s, f)[n + 1] = f
      /\ f.by = v /\ f.at = vad[v].at
  BY <1>4, <1>5, AppendProperties
<1>7. ASSUME NEW j \in Made, NEW w \in Vads, NEW t \in Nat
      PROVE  /\ AtMostOne(j, w, t) => AtMostOne(j, w, t)'
             /\ NoneOld(j, w, t) => NoneOld(j, w, t)'
  <2>1. CASE j # k
    <3>1. chan'.buf[j] = chan.buf[j]
      BY <1>6, <2>1
    <3>2. Carries(w, t)' => Carries(w, t)
      BY <1>3
    <3> QED
      BY <3>1, <3>2 DEF AtMostOne, NoneOld, OldAt
  <2>2. CASE j = k
    <3>1. Len(chan'.buf[j]) = n + 1 /\ chan.buf[j] = s /\ Len(s) = n /\ n \in Nat
      BY <1>5, <1>6, <2>2
    <3>2. ASSUME NEW i \in 1 .. n PROVE OldAt(j, i, w, t)' <=> OldAt(j, i, w, t)
      BY <1>6, <2>2, <3>1 DEF OldAt
    <3>3. OldAt(j, n + 1, w, t)' <=> (w = v /\ vad[v].at < t)
      BY <1>6, <2>2 DEF OldAt
    <3>4. ASSUME AtMostOne(j, w, t), NEW i \in 1 .. n + 1, OldAt(j, i, w, t)'
          PROVE  /\ ~Carries(w, t)'
                 /\ \A m \in 1 .. n + 1 : OldAt(j, m, w, t)' => i = m
      <4>1. CASE i \in 1 .. n
        <5>1. ~Carries(w, t) /\ \A m \in 1 .. n : OldAt(j, m, w, t) => i = m
          BY <3>1, <3>2, <3>4, <4>1 DEF AtMostOne
        <5>2. ~Carries(w, t)' /\ ~OldAt(j, n + 1, w, t)'
          BY <1>3, <3>3, <5>1
        <5>3. ASSUME NEW m \in 1 .. n + 1, OldAt(j, m, w, t)' PROVE i = m
          <6>1. m \in 1 .. n
            BY <5>2, <5>3
          <6> QED
            BY <3>2, <5>1, <5>3, <6>1
        <5> QED
          BY <5>2, <5>3
      <4>2. CASE i = n + 1
        <5>1. w = v /\ Carries(v, t)
          BY <1>3, <3>3, <3>4, <4>2
        <5>2. \A m \in 1 .. n : ~OldAt(j, m, w, t)
          BY <3>1, <3>4, <5>1 DEF AtMostOne
        <5>3. ASSUME NEW m \in 1 .. n + 1, OldAt(j, m, w, t)' PROVE i = m
          <6>1. m \notin 1 .. n
            BY <3>2, <5>2, <5>3
          <6> QED
            BY <4>2, <6>1
        <5> QED
          BY <1>3, <5>1, <5>3
      <4> QED
        BY <4>1, <4>2
    <3>5. AtMostOne(j, w, t) => AtMostOne(j, w, t)'
      BY <3>1, <3>4 DEF AtMostOne
    <3>6. ASSUME NoneOld(j, w, t) PROVE NoneOld(j, w, t)'
      <4>1. ~Carries(w, t) /\ \A m \in 1 .. n : ~OldAt(j, m, w, t)
        BY <3>1, <3>6 DEF NoneOld
      <4>2. ~Carries(w, t)' /\ ~OldAt(j, n + 1, w, t)'
        BY <1>3, <3>3, <4>1
      <4>3. \A m \in 1 .. n + 1 : ~OldAt(j, m, w, t)'
        BY <3>2, <4>1, <4>2
      <4> QED
        BY <3>1, <4>2, <4>3 DEF NoneOld
    <3> QED
      BY <3>5, <3>6
  <2> QED
    BY <2>1, <2>2
<1> QED
  BY <1>7 DEF Settled

LEMMA SendFrameStale ==
  ASSUME Inv, StaleInv, NEW v \in Vads, SendFrame(v)
  PROVE  StaleInv'
<1>1. CASE Panic(v)
  <2>1. UNCHANGED <<chan, rec, stale, listens, inputs, todo, own, field, vad>>
    BY <1>1 DEF Panic, inputVars, asrVars, goVars, ghosts
  <2>2. \A w \in Vads : Calm(w) /\ vad'[w].chan <= chan.made
    BY <2>1, SameVadCalm, MadeBound
  <2>3. Untouched
    BY <2>1, <2>2, CalmSettles, MadeBound DEF Untouched, StaleInv, Known
  <2> QED
    BY <2>1, <2>2, <2>3, SameTodoKeeps
<1>2. CASE ~Panic(v)
  <2>1. PICK k \in Nat : k = vad[v].chan /\ k # 0 /\ k <= chan.made /\ k \in Made
    BY <1>2, MadeBound DEF SendFrame
  <2>2. PICK b : b = Append(chan.buf[k], [by |-> v, at |-> vad[v].at])
    OBVIOUS
  <2>3. chan' = [chan EXCEPT !.buf[k] = b] /\ AfterSend(v) /\ vad[v].step = "send"
    BY <1>2, <2>1, <2>2 DEF SendFrame, At
  <2>4. chan'.made = chan.made /\ chan'.buf = [chan.buf EXCEPT ![k] = b]
    BY <2>3 DEF Inv, TypeOK, Channels
  <2>5. Settled
    BY <2>1, <2>2, <2>3, <2>4, SendSettles DEF AfterSend
  <2>6. UNCHANGED <<rec, stale, listens>>
    BY <2>3 DEF AfterSend, ghosts
  <2>7. ASSUME NEW j \in Made, j > chan.made PROVE chan'.buf[j] = <<>>
    <3>1. j # k
      BY <2>1, <2>7, MadeBound
    <3>2. chan'.buf[j] = chan.buf[j]
      BY <2>4, <3>1 DEF Inv, TypeOK, Channels
    <3> QED
      BY <2>7, <3>2 DEF StaleInv, Known
  <2>8. Untouched
    BY <2>4, <2>5, <2>6, <2>7, MadeBound DEF Untouched
  <2> QED
    BY <2>3, <2>6, <2>8, AfterSendStale
<1> QED
  BY <1>1, <1>2

LEMMA VadStale ==
  ASSUME Inv, StaleInv, NEW v \in Vads, ProcessVadAudio(v)
  PROVE  StaleInv'
<1>1. CASE CheckChan(v)
  <2>1. CASE GoTo(v, "load") /\ OnlyVad
    <3>1. PICK e : /\ vad' = [vad EXCEPT ![v] = e]
                   /\ e.step = "load" /\ e.at = vad[v].at /\ e.chan = vad[v].chan
      BY <2>1, VadRecords
    <3>2. UNCHANGED <<chan, rec, stale, listens, inputs, todo, own, field>>
      BY <2>1 DEF OnlyVad, outerVars, inputVars, asrVars, ghosts
    <3>3. e.chan <= chan.made /\ vad[v].step = "check"
      BY <1>1, <3>1, MadeBound DEF CheckChan, At
    <3>4. Untouched /\ \A w \in Vads : vad'[w].chan <= chan.made
      BY <3>1, <3>2, <3>3, VadCalm
    <3> QED
      BY <3>2, <3>4, SameTodoKeeps
  <2>2. CASE AfterSend(v) /\ UNCHANGED chan
    <3>1. UNCHANGED <<chan, rec, stale, listens>>
      BY <2>2 DEF AfterSend, ghosts
    <3>2. PICK e : vad' = [vad EXCEPT ![v] = e] /\ e.step \in {"off", "take"} /\ e.chan = 0
      BY <2>2, VadRecords DEF AfterSend
    <3>3. Untouched
      BY <3>1, <3>2, VadCalm
    <3> QED
      BY <2>2, <3>1, <3>3, AfterSendStale
  <2> QED
    BY <1>1, <2>1, <2>2 DEF CheckChan
<1> QED
  BY <1>1, VadStepsStale, SendFrameStale DEF ProcessVadAudio

\* The first frame of channel k has left it: one fewer, and if it was old, no
\* other is.
LEMMA TailSettles ==
  ASSUME Inv, NEW k \in Made, chan.buf[k] # <<>>, vad' = vad,
         chan'.buf = [chan.buf EXCEPT ![k] = Tail(@)]
  PROVE  /\ Settled
         /\ \A v \in Vads, t \in Nat :
              AtMostOne(k, v, t) /\ OldAt(k, 1, v, t) => NoneOld(k, v, t)'
<1>1. chan.buf \in [Made -> Seq(Frame)] /\ chan.buf[k] \in Seq(Frame)
  BY DEF Inv, TypeOK, Channels
<1>2. PICK s \in Seq(Frame), n \in Nat : s = chan.buf[k] /\ s # <<>> /\ n + 1 = Len(s)
  <2>1. Len(chan.buf[k]) \in Nat \ {0}
    BY <1>1, EmptySeq
  <2>2. (Len(chan.buf[k]) - 1) + 1 = Len(chan.buf[k]) /\ Len(chan.buf[k]) - 1 \in Nat
    BY <2>1
  <2> QED
    BY <1>1, <2>2
<1>3. /\ \A j \in Made : chan'.buf[j] = IF j = k THEN Tail(s) ELSE chan.buf[j]
      /\ Len(Tail(s)) = n /\ \A i \in 1 .. n : Tail(s)[i] = s[i + 1]
  BY <1>1, <1>2, HeadTailProperties
<1>4. ASSUME NEW v \in Vads, NEW t \in Nat
      PROVE  Carries(v, t)' <=> Carries(v, t)
  BY DEF Carries
<1>5. ASSUME NEW v \in Vads, NEW t \in Nat, NEW i \in 1 .. n
      PROVE  (OldAt(k, i, v, t)' <=> OldAt(k, i + 1, v, t)) /\ i + 1 \in 1 .. n + 1
  <2>1. chan'.buf[k][i] = chan.buf[k][i + 1]
    BY <1>2, <1>3
  <2>2. OldAt(k, i, v, t)' <=> OldAt(k, i + 1, v, t)
    BY <2>1 DEF OldAt
  <2> QED
    BY <2>2
<1>6. Len(chan'.buf[k]) = n /\ Len(chan.buf[k]) = n + 1
  BY <1>2, <1>3
<1>7. ASSUME NEW v \in Vads, NEW t \in Nat, AtMostOne(k, v, t) PROVE AtMostOne(k, v, t)'
  <2>1. ASSUME NEW i \in 1 .. n, OldAt(k, i, v, t)'
        PROVE  ~Carries(v, t)' /\ \A j \in 1 .. n : OldAt(k, j, v, t)' => i = j
    <3>1. i + 1 \in 1 .. n + 1 /\ OldAt(k, i + 1, v, t)
      BY <1>5, <2>1
    <3>2. ~Carries(v, t) /\ \A j \in 1 .. n + 1 : OldAt(k, j, v, t) => i + 1 = j
      BY <1>6, <1>7, <3>1 DEF AtMostOne
    <3>3. ASSUME NEW j \in 1 .. n, OldAt(k, j, v, t)' PROVE i = j
      <4>1. i + 1 = j + 1
        BY <1>5, <3>2, <3>3
      <4> QED
        BY <4>1
    <3> QED
      BY <1>4, <3>2, <3>3
  <2> QED
    BY <1>6, <2>1 DEF AtMostOne
<1>8. ASSUME NEW v \in Vads, NEW t \in Nat, NoneOld(k, v, t) PROVE NoneOld(k, v, t)'
  <2>1. ~Carries(v, t)' /\ \A i \in 1 .. n : ~OldAt(k, i, v, t)'
    BY <1>4, <1>5, <1>6, <1>8 DEF NoneOld
  <2> QED
    BY <1>6, <2>1 DEF NoneOld
<1>9. ASSUME NEW v \in Vads, NEW t \in Nat, AtMostOne(k, v, t), OldAt(k, 1, v, t)
      PROVE  NoneOld(k, v, t)'
  <2>1. ~Carries(v, t) /\ \A j \in 1 .. n + 1 : OldAt(k, j, v, t) => 1 = j
    <3>1. 1 \in 1 .. n + 1
      BY <1>2
    <3> QED
      BY <1>6, <1>9, <3>1 DEF AtMostOne
  <2>2. \A i \in 1 .. n : ~OldAt(k, i, v, t)'
    <3>1. ASSUME NEW i \in 1 .. n, OldAt(k, i, v, t)' PROVE FALSE
      <4>1. 1 = i + 1
        BY <1>5, <2>1, <3>1
      <4> QED
        BY <4>1
    <3> QED
      BY <3>1
  <2> QED
    BY <1>4, <1>6, <2>1, <2>2 DEF NoneOld
<1>10. ASSUME NEW j \in Made, NEW v \in Vads, NEW t \in Nat, j # k
       PROVE  /\ AtMostOne(j, v, t) => AtMostOne(j, v, t)'
              /\ NoneOld(j, v, t) => NoneOld(j, v, t)'
  <2>1. chan'.buf[j] = chan.buf[j]
    BY <1>3, <1>10
  <2> QED
    BY <1>4, <2>1 DEF AtMostOne, NoneOld, OldAt
<1>11. Settled
  BY <1>7, <1>8, <1>10 DEF Settled
<1> QED
  BY <1>9, <1>11

\* A frame is read.  An old one is the only one on its way to this recognition.
LEMMA ForwardStale ==
  ASSUME Inv, StaleInv, NEW q \in Made, ForwardStreamAudio(q)
  PROVE  StaleInv'
<1>1. PICK k \in Made, t \in Nat :
        k = rec.of[q].chan /\ t = rec.of[q].since /\ chan.buf[k] # <<>>
  BY MadeBound DEF ForwardStreamAudio
<1>2. UNCHANGED <<rec, vad, listens, inputs, todo, own, field>>
  BY DEF ForwardStreamAudio, outerVars, inputVars, goVars
<1>3. q <= rec.made /\ chan' = [chan EXCEPT !.buf[k] = Tail(@)]
      /\ stale' = [stale EXCEPT ![q][Head(chan.buf[k]).by] = @ + Old(q)]
  BY <1>1 DEF ForwardStreamAudio
<1>4. chan'.made = chan.made /\ chan'.buf = [chan.buf EXCEPT ![k] = Tail(@)]
  BY <1>3 DEF Inv, TypeOK, Channels
<1>5. /\ Settled
      /\ \A v \in Vads : AtMostOne(k, v, t) /\ OldAt(k, 1, v, t) => NoneOld(k, v, t)'
  BY <1>1, <1>2, <1>4, TailSettles
<1>6. PICK w \in Vads : w = Head(chan.buf[k]).by
  <2>1. chan.buf[k] \in Seq(Frame)
    BY DEF Inv, TypeOK, Channels
  <2>2. Head(chan.buf[k]) \in Frame
    BY <1>1, <2>1, HeadTailProperties
  <2> QED
    BY <2>2 DEF Frame
<1>7. /\ Old(q) \in {0, 1} /\ (Old(q) = 1 => OldAt(k, 1, w, t))
  <2>1. Head(chan.buf[k]) = chan.buf[k][1]
    OBVIOUS
  <2> QED
    BY <1>1, <1>6, <2>1 DEF Old, OldAt
<1>8. /\ \A r \in Made, v \in Vads :
           stale'[r][v] = IF r = q /\ v = w THEN stale[q][w] + Old(q) ELSE stale[r][v]
      /\ \A r \in Made, v \in Vads : stale[r][v] \in Nat
  <2>1. stale \in [Made -> [Vads -> Nat]]
    BY DEF Inv, TypeOK
  <2>2. stale' = [stale EXCEPT ![q] = [stale[q] EXCEPT ![w] = @ + Old(q)]]
    BY <1>3, <1>6, <2>1
  <2> QED
    BY <2>1, <2>2
<1>9. ASSUME NEW r \in Made, NEW v \in Vads PROVE Few(r, v)'
  <2>1. PICK c \in Nat, d \in Nat : c = rec.of[r].chan /\ d = rec.of[r].since /\ d <= listens
    BY MadeBound
  <2>2. rec'.of[r].chan = c /\ rec'.of[r].since = d /\ rec'.made = rec.made
    BY <1>2, <2>1
  <2>3. c = 0 \/ r > rec.made => stale[r][v] = 0
    BY <2>1 DEF StaleInv, Few
  <2>4. c # 0 => /\ AtMostOne(c, v, d)
                 /\ stale[r][v] = 0 \/ (stale[r][v] = 1 /\ NoneOld(c, v, d))
    BY <2>1 DEF StaleInv, Few
  <2>5. c # 0 => c \in Made
    BY <2>1, MadeBound
  <2>6. c # 0 => /\ AtMostOne(c, v, d)'
                 /\ NoneOld(c, v, d) => NoneOld(c, v, d)'
    BY <1>5, <2>1, <2>4, <2>5 DEF Settled
  <2>7. /\ c = 0 \/ r > rec.made => stale'[r][v] = 0
        /\ c # 0 => stale'[r][v] = 0 \/ (stale'[r][v] = 1 /\ NoneOld(c, v, d)')
    <3>1. CASE ~(r = q /\ v = w) \/ Old(q) = 0
      <4>1. stale'[r][v] = stale[r][v]
        BY <1>8, <3>1
      <4> QED
        BY <2>3, <2>4, <2>6, <4>1
    <3>2. CASE r = q /\ v = w /\ Old(q) = 1
      <4>1. c = k /\ d = t /\ c # 0 /\ ~(r > rec.made)
        BY <1>1, <1>3, <2>1, <3>2, MadeBound DEF Made
      <4>2. OldAt(k, 1, w, t)
        BY <1>7, <3>2
      <4>3. ~NoneOld(k, w, t)
        <5>1. 1 \in 1 .. Len(chan.buf[k])
          <6>1. chan.buf[k] \in Seq(Frame)
            BY DEF Inv, TypeOK, Channels
          <6>2. Len(chan.buf[k]) \in Nat \ {0}
            BY <1>1, <6>1, EmptySeq
          <6> QED
            BY <6>2
        <5> QED
          BY <4>2, <5>1 DEF NoneOld
      <4>4. stale[r][v] = 0
        BY <2>4, <3>2, <4>1, <4>3
      <4>5. stale'[r][v] = 1
        BY <1>8, <3>2, <4>4
      <4>6. NoneOld(c, v, d)'
        BY <1>5, <2>4, <3>2, <4>1, <4>2
      <4> QED
        BY <4>1, <4>5, <4>6
    <3> QED
      BY <1>7, <3>1, <3>2
  <2> QED
    BY <2>2, <2>6, <2>7 DEF Few, AtMostOne, NoneOld, OldAt, Carries
<1>10. Known'
  <2>1. \A j \in Made : j > chan'.made => chan'.buf[j] = <<>>
    BY <1>1, <1>4, MadeBound DEF StaleInv, Known, Inv, TypeOK, Channels
  <2> QED
    BY <1>2, <1>4, <2>1 DEF StaleInv, Known
<1>11. Bounded'
  BY <1>2, <1>4 DEF StaleInv, Bounded, Making
<1>12. Timely'
  BY <1>2 DEF StaleInv, Timely
<1>13. ASSUME NEW g \in Goroutines, NEW v \in Vads, Starting(g)', field'.chan # 0
       PROVE  AtMostOne(field.chan, v, own[g].since)'
  <2>1. PICK c \in Made, d \in Nat : c = field.chan /\ d = own[g].since /\ d <= listens
    BY <1>2, <1>13, MadeBound
  <2>2. AtMostOne(c, v, d)
    BY <1>2, <1>13, <2>1 DEF StaleInv, Starting
  <2>3. AtMostOne(c, v, d)'
    BY <1>5, <2>1, <2>2 DEF Settled
  <2> QED
    BY <1>2, <2>1, <2>3 DEF AtMostOne, OldAt, Carries
<1> QED
  BY <1>2, <1>9, <1>10, <1>11, <1>12, <1>13 DEF StaleInv

\* A listener: it hears, and it may stop the recognition or start it again.
LEMMA ListenStale ==
  ASSUME Inv, StaleInv, NEW l \in Listeners, Listen(l)
  PROVE  StaleInv'
<1>1. l \in Goroutines
  BY DEF Goroutines
<1>2. \A r \in Made : rec'.of[r].chan = rec.of[r].chan /\ rec'.of[r].since = rec.of[r].since
  <2>1. CASE HearFinal(l) \/ HearEnd(l)
    <3>1. rec \in RecType /\ rec' = [rec EXCEPT !.of[listener[l].on].ended = TRUE]
      BY <2>1, TypesOfVariables DEF HearFinal, HearEnd, Inv
    <3>2. \A r \in Made : rec'.of[r] =
            IF r = listener[l].on THEN [rec.of[r] EXCEPT !.ended = TRUE] ELSE rec.of[r]
      BY <3>1 DEF RecType
    <3>3. \A r \in Made : rec.of[r] \in Recognition
      BY <3>1 DEF RecType
    <3> QED
      BY <3>2, <3>3 DEF Recognition
  <2>2. CASE ~(HearFinal(l) \/ HearEnd(l))
    BY <2>2 DEF Listen, ListenLoop, HearCancel, HearPart, Deliver, Again, GiveUp,
      EmptyCancelled, OnlyListener, asrVars
  <2> QED
    BY <2>1, <2>2
<1>3. /\ rec'.made = rec.made
      /\ UNCHANGED <<chan, vad, own, field, listens, stale>>
  BY DEF Listen, ListenLoop, HearCancel, HearPart, HearFinal, HearEnd, Deliver, Again, GiveUp,
    EmptyCancelled, OnlyListener, Retire, asrVars, ghosts, Inv, TypeOK
<1>4. Untouched /\ listens' \in Nat /\ \A v \in Vads : vad'[v].chan <= chan.made
  BY <1>2, <1>3, Undisturbed
<1>5. CASE UNCHANGED <<todo, inputs>>
  BY <1>3, <1>4, <1>5, SameTodoKeeps
<1>6. ASSUME NEW s, Turns(l, s), inputs' = inputs \/ (inputs' = inputs + 1 /\ inputs < MaxInputs)
      PROVE  StaleInv'
  BY <1>1, <1>3, <1>4, <1>6, MadeBound, TurnsKeeps
<1>7. CASE Again(l)
  <2>1. Turns(l, Restart)
    BY <1>1, <1>7, FreshPlans, PlanTurns DEF Again
  <2> QED
    BY <1>6, <1>7, <2>1 DEF Again
<1>8. CASE HearCancel(l) \/ HearFinal(l) \/ HearEnd(l)
  <2>1. Turns(l, <<>>) \/ Turns(l, Silence)
    BY <1>1, <1>8, FreshPlans, PlanTurns DEF HearCancel, HearFinal, HearEnd, Retire
  <2>2. inputs' = inputs
    BY <1>8 DEF HearCancel, HearFinal, HearEnd, Retire, outerVars, inputVars
  <2> QED
    BY <1>6, <2>1, <2>2
<1>9. CASE ListenLoop(l) \/ HearPart(l) \/ Deliver(l) \/ GiveUp(l) \/ EmptyCancelled(l)
  BY <1>5, <1>9 DEF ListenLoop, HearPart, Deliver, GiveUp, EmptyCancelled, OnlyListener,
    outerVars, inputVars
<1> QED
  BY <1>7, <1>8, <1>9 DEF Listen

LEMMA InitStale == Init => StaleInv
<1> SUFFICES ASSUME Init PROVE StaleInv
  OBVIOUS
<1>1. \A g \in Goroutines : todo[g] = <<>>
  BY DEF Init
<1>2. \A g \in Goroutines : Chained(todo[g]) /\ ~Makes(todo[g]) /\ ~Starting(g)
  BY <1>1, FreshPlans DEF Fresh, Starting
<1>3. Bounded
  <2>1. Making = {}
    BY <1>2 DEF Making
  <2>2. IsFiniteSet(Making) /\ Cardinality(Making) = 0
    BY <2>1, FS_EmptySet
  <2>3. inputs = 0 /\ chan.made = 1 /\ MaxInputs \in Nat
    BY BoundsAssumption DEF Init
  <2> QED
    BY <2>2, <2>3 DEF Bounded
<1>4. Known
  BY DEF Init, Known, Resting
<1>5. Timely
  BY DEF Init, Timely, NoRestart
<1>6. \A r \in Made, v \in Vads : Few(r, v)
  BY DEF Init, Few, Made
<1> QED
  BY <1>2, <1>3, <1>4, <1>5, <1>6 DEF StaleInv

LEMMA NextStale == Inv /\ StaleInv /\ [Next]_vars => StaleInv'
<1> SUFFICES ASSUME Inv, StaleInv, [Next]_vars PROVE StaleInv'
  OBVIOUS
<1>1. CASE UNCHANGED vars \/ ReplyStarts \/ Disconnect
  <2>1. UNCHANGED <<chan, rec, vad, todo, own, field, listens, stale, inputs>>
    BY <1>1 DEF ReplyStarts, Disconnect, vars, outerVars, inputVars, asrVars, goVars, ghosts
  <2>2. Untouched /\ \A v \in Vads : vad'[v].chan <= chan.made
    BY <2>1, Undisturbed
  <2> QED
    BY <2>1, <2>2, SameTodoKeeps
<1> QED
  BY <1>1, CommandsStale, CallsStale, VadStale, ListenStale, ForwardStale DEF Next

\* RestartAsrRecognition: a recognition is fed one frame from before its start
\* at most, by each goroutine that feeds it, for any number of them and
\* however the restarts of the command loop and of the listeners overlap.
THEOREM StaleFramesBounded == Spec => []FewStaleFrames
<1>1. Init => Inv /\ StaleInv
  BY InitInv, InitStale
<1>2. (Inv /\ StaleInv) /\ [Next]_vars => (Inv /\ StaleInv)'
  BY NextInv, NextStale
<1>3. Inv /\ StaleInv => FewStaleFrames
  BY DEF StaleInv, Few, FewStaleFrames
<1> QED
  BY <1>1, <1>2, <1>3, PTL DEF Spec
============================================================================
