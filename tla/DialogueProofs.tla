--------------------------- MODULE DialogueProofs ---------------------------
(***************************************************************************)
(* Proofs about Dialogue, for any number of listeners, any capacity of the *)
(* queues and any bounds.                                                  *)
(***************************************************************************)
EXTENDS Dialogue, SequenceTheorems, TLAPS

USE DEF Contexts, Workers, Statuses, Calls, ListenerSteps, WorkerSteps, VoiceSteps

\* What a goroutine in the middle of its work holds.
HasContext ==
  /\ \A l \in Listeners : listener[l].step \in {"push", "send"} => listener[l].to # 0
  /\ \A w \in Workers : worker[w].step \notin {"pop", "exit"} => worker[w].ctx # 0
  /\ voice.step \notin {"pop", "exit"} => voice.item # NoSentence

----------------------------------------------------------------------------
(* Types                                                                   *)

\* The context that GetSessionCtx hands out is one, and the bookkeeping of
\* contexts keeps its type.
LEMMA GetSessionCtxType ==
  ASSUME TypeOK, NEW c \in Contexts, GetSessionCtx(c)
  PROVE  cur' \in 0 .. MaxCtx /\ created' \in 0 .. MaxCtx /\ cancelled' \subseteq Contexts
BY BoundsAssumption DEF TypeOK, GetSessionCtx

\* A queue of this kind keeps its type when an item of that kind is pushed.
LEMMA EnqueueType ==
  ASSUME NEW S, NEW q \in Seq(S), NEW item \in S
  PROVE  Enqueue(q, item) \in Seq(S)
BY DEF Enqueue

\* The next call leaves the rest of a handler's calls.
LEMMA CallType ==
  ASSUME TypeOK, NEW name, Call(name)
  PROVE  todo' \in Seq(Calls) /\ commands' \in 0 .. MaxCommands
BY DEF TypeOK, Call

\* The sequences of calls that the handlers make.
LEMMA HandlerCalls ==
  /\ StopSpeaking \in Seq(Calls)
  /\ StopSpeaking \o <<"stop">> \in Seq(Calls)
  /\ \A reaction \in {<<>>, <<"greet">>, <<"text">>} : StopSpeaking \o reaction \in Seq(Calls)
  /\ \A interrupt \in {<<>>, StopSpeaking} : interrupt \o <<"status", "listen">> \in Seq(Calls)
  /\ <<"silence">> \in Seq(Calls)
<1>1. StopSpeaking \in Seq(Calls)
  BY DEF StopSpeaking
<1>2. /\ <<"stop">> \in Seq(Calls) /\ <<"greet">> \in Seq(Calls) /\ <<"text">> \in Seq(Calls)
      /\ <<"status", "listen">> \in Seq(Calls) /\ <<"silence">> \in Seq(Calls)
      /\ <<>> \in Seq(Calls)
  OBVIOUS
<1>3. \A s, t \in Seq(Calls) : s \o t \in Seq(Calls)
  OBVIOUS
<1> QED
  BY <1>1, <1>2, <1>3

\* The command loop keeps the types.
LEMMA CommandLoopType == TypeOK /\ CommandLoop => TypeOK'
<1> SUFFICES ASSUME TypeOK, CommandLoop PROVE TypeOK'
  OBVIOUS
<1> USE DEF devVars, ctxVars, ghosts
<1>1. ASSUME NEW calls \in Seq(Calls), Receive(calls), UNCHANGED welcomed PROVE TypeOK'
  BY <1>1, BoundsAssumption DEF TypeOK, Receive
<1>3. CASE HandleAbort
  BY <1>1, HandlerCalls, <1>3 DEF HandleAbort
<1>4. CASE HandleDetect
  BY <1>1, HandlerCalls, <1>4 DEF HandleDetect
<1>5. CASE HandleListenStart
  BY <1>1, HandlerCalls, <1>5 DEF HandleListenStart
<1>6. CASE HandleListenStop
  BY <1>1, HandlerCalls, <1>6 DEF HandleListenStop
<1>7. CASE CancelSessionCtx
  <2>1. cancelled' \subseteq 1 .. MaxCtx
    BY <1>7, BoundsAssumption DEF TypeOK, CancelSessionCtx
  <2>2. cur' \in 0 .. MaxCtx
    BY <1>7, BoundsAssumption DEF CancelSessionCtx
  <2>3. todo' \in Seq(Calls) /\ commands' \in 0 .. MaxCommands
    BY <1>7, CallType DEF CancelSessionCtx
  <2> QED
    BY <1>7, <2>1, <2>2, <2>3 DEF TypeOK, CancelSessionCtx
<1>8. CASE ClearLLMResponseQueue
  BY <1>8, CallType DEF TypeOK, ClearLLMResponseQueue
<1>9. CASE ClearChatTextQueue
  <2>1. listener' \in [Listeners -> ListenerState]
    <3>1. ASSUME NEW l \in Listeners
          PROVE  /\ listener[l] \in ListenerState
                 /\ [listener[l] EXCEPT !.step = "lost"] \in ListenerState
      BY DEF TypeOK, ListenerState, ListenerSteps
    <3> QED
      BY <1>9, <3>1 DEF ClearChatTextQueue
  <2>3. chatQ' = <<>> /\ UNCHANGED <<ctxVars, open, status, welcomed, greetQ, voiceQ,
                                    worker, voice, spoken, ghosts>>
    BY <1>9 DEF ClearChatTextQueue
  <2>2. todo' \in Seq(Calls) /\ commands' \in 0 .. MaxCommands
    BY <1>9, CallType DEF ClearChatTextQueue
  <2> QED
    BY <2>1, <2>2, <2>3 DEF TypeOK
<1>10. CASE SendAbortStop
  <2>1. todo' \in Seq(Calls) /\ commands' \in 0 .. MaxCommands
    BY <1>10, CallType DEF SendAbortStop
  <2>2. /\ shown' \in {"none", "start", "stop"}
        /\ UNCHANGED <<ctxVars, open, status, welcomed, listener, chatQ, greetQ, voiceQ, worker,
                       voice, spoken, lateFrames, lateSays>>
    BY <1>10 DEF TypeOK, SendAbortStop, Show
  <2> QED
    BY <2>1, <2>2 DEF TypeOK
<1>11. CASE Greet
  <2>1. todo' \in Seq(Calls) /\ commands' \in 0 .. MaxCommands
    BY <1>11, CallType DEF Greet
  <2>2. ctxVars' = ctxVars \/ \E c \in Contexts : GetSessionCtx(c)
    BY <1>11 DEF Greet
  <2>3. cur' \in 0 .. MaxCtx /\ created' \in 0 .. MaxCtx /\ cancelled' \subseteq Contexts
    BY <2>2, GetSessionCtxType DEF TypeOK
  <2>4. greetQ' \in Seq(Contexts)
    <3>1. greetQ' = greetQ \/ \E c \in Contexts : greetQ' = Enqueue(greetQ, c)
      BY <1>11 DEF Greet
    <3>2. greetQ \in Seq(Contexts)
      BY DEF TypeOK
    <3> QED
      BY <3>1, <3>2, EnqueueType
  <2>5. /\ UNCHANGED <<open, status, listener, chatQ, voiceQ, worker, voice, spoken, ghosts>>
        /\ welcomed' \in BOOLEAN
    BY <1>11 DEF TypeOK, Greet
  <2> QED
    BY <2>1, <2>3, <2>4, <2>5 DEF TypeOK
<1>12. CASE DetectText
  <2>1. todo' \in Seq(Calls) /\ commands' \in 0 .. MaxCommands
    BY <1>12, CallType DEF DetectText
  <2>2. ctxVars' = ctxVars \/ \E c \in Contexts : GetSessionCtx(c)
    BY <1>12 DEF DetectText
  <2>3. cur' \in 0 .. MaxCtx /\ created' \in 0 .. MaxCtx /\ cancelled' \subseteq Contexts
    BY <2>2, GetSessionCtxType DEF TypeOK
  <2>4. chatQ' \in Seq(Contexts)
    <3>1. chatQ' = chatQ \/ \E c \in Contexts : chatQ' = Enqueue(chatQ, c)
      BY <1>12 DEF DetectText
    <3>2. chatQ \in Seq(Contexts)
      BY DEF TypeOK
    <3> QED
      BY <3>1, <3>2, EnqueueType
  <2>5. UNCHANGED <<open, status, welcomed, listener, greetQ, voiceQ, worker, voice, spoken,
                   ghosts>>
    BY <1>12 DEF DetectText
  <2> QED
    BY <2>1, <2>3, <2>4, <2>5, ZenonT(30) DEF TypeOK
<1>13. CASE SetListening
  BY <1>13, CallType DEF TypeOK, SetListening
<1>14. CASE OnListenStart
  <2>1. todo' \in Seq(Calls) /\ commands' \in 0 .. MaxCommands
    BY <1>14, CallType DEF OnListenStart
  <2>2. ctxVars' = ctxVars \/ \E c \in Contexts : GetSessionCtx(c)
    BY <1>14 DEF OnListenStart
  <2>3. cur' \in 0 .. MaxCtx /\ created' \in 0 .. MaxCtx /\ cancelled' \subseteq Contexts
    BY <2>2, GetSessionCtxType DEF TypeOK
  <2>4. listener' \in [Listeners -> ListenerState] /\ open' \in BOOLEAN
    <3>1. \/ UNCHANGED listener
          \/ \E c \in Contexts, l \in Listeners :
               listener' = [listener EXCEPT ![l] = [step |-> "wait", ctx |-> c, to |-> 0]]
      BY <1>14 DEF OnListenStart
    <3>2. \A c \in Contexts : [step |-> "wait", ctx |-> c, to |-> 0] \in ListenerState
      BY BoundsAssumption DEF ListenerState
    <3>3. listener' \in [Listeners -> ListenerState]
      BY <3>1, <3>2 DEF TypeOK
    <3> QED
      BY <1>14, <3>3 DEF TypeOK, OnListenStart
  <2>5. status' \in Statuses
    BY <1>14 DEF TypeOK, OnListenStart
  <2> QED
    BY <1>14, <2>1, <2>3, <2>4, <2>5 DEF TypeOK, OnListenStart
<1>15. CASE OnManualStop
  BY <1>15, CallType DEF TypeOK, OnManualStop
<1> QED
  BY <1>3, <1>4, <1>5, <1>6, <1>7, <1>8, <1>9, <1>10, <1>11, <1>12, <1>13, <1>14,
     <1>15 DEF CommandLoop

\* The listeners keep the types.
LEMMA ListenerType == TypeOK /\ HasContext /\ (\E l \in Listeners : Listener(l)) => TypeOK'
<1> SUFFICES ASSUME TypeOK, HasContext, NEW l \in Listeners, Listener(l) PROVE TypeOK'
  OBVIOUS
<1> USE DEF devVars, ctxVars, ghosts
<1>1. ASSUME NEW step \in ListenerSteps, Listen(l, step)
      PROVE  listener' \in [Listeners -> ListenerState]
  <2>1. listener[l] \in ListenerState
    BY DEF TypeOK
  <2>2. [listener[l] EXCEPT !.step = step] \in ListenerState
    BY <2>1 DEF ListenerState
  <2>3. listener' = [listener EXCEPT ![l] = [listener[l] EXCEPT !.step = step]]
    BY <1>1 DEF TypeOK, Listen
  <2> QED
    BY <2>2, <2>3 DEF TypeOK
<1>2. ASSUME Leave(l) PROVE listener' \in [Listeners -> ListenerState]
  BY <1>2, BoundsAssumption DEF TypeOK, Leave, ListenerState, Off
<1>3. CASE HearText(l)
  BY <1>3, <1>1 DEF TypeOK, HearText
<1>4. CASE HearCancel(l)
  BY <1>4, <1>2 DEF TypeOK, HearCancel
<1>5. CASE HearNothing(l)
  BY <1>5, <1>2 DEF TypeOK, HearNothing
<1>6. CASE EndVoice(l)
  BY <1>6, <1>1 DEF TypeOK, EndVoice
<1>7. CASE SendStt(l)
  BY <1>7, <1>1, <1>2 DEF TypeOK, SendStt
<1>8. CASE TakeCtx(l)
  <2>1. PICK c \in Contexts :
          GetSessionCtx(c) /\ listener' = [listener EXCEPT ![l].step = "push", ![l].to = c]
    BY <1>8 DEF TakeCtx
  <2>2. listener' \in [Listeners -> ListenerState]
    <3>1. [listener[l] EXCEPT !.step = "push", !.to = c] \in ListenerState
      <4>1. listener[l] \in ListenerState /\ c \in 0 .. MaxCtx
        BY BoundsAssumption DEF TypeOK
      <4> HIDE DEF Contexts
      <4> QED
        BY <4>1 DEF ListenerState
    <3>2. listener' = [listener EXCEPT ![l] = [listener[l] EXCEPT !.step = "push", !.to = c]]
      BY <2>1 DEF TypeOK
    <3> QED
      BY <3>1, <3>2 DEF TypeOK
  <2>3. cur' \in 0 .. MaxCtx /\ created' \in 0 .. MaxCtx /\ cancelled' \subseteq Contexts
    BY <2>1, GetSessionCtxType
  <2> QED
    <3>1. UNCHANGED <<open, status, devVars, chatQ, greetQ, voiceQ, worker, voice, spoken, ghosts>>
      BY <1>8 DEF TakeCtx
    <3> QED
      BY <2>2, <2>3, <3>1 DEF TypeOK
<1>9. CASE TakeChannel(l)
  BY <1>9, <1>1 DEF TypeOK, TakeChannel
<1>10. CASE SendText(l)
  <2>1. listener[l].to \in Contexts
    BY <1>10, BoundsAssumption DEF TypeOK, HasContext, SendText, ListenerState
  <2>2. chatQ' \in Seq(Contexts)
    <3>1. chatQ \in Seq(Contexts) /\ chatQ' = Enqueue(chatQ, listener[l].to)
      BY <1>10 DEF TypeOK, SendText
    <3> QED
      BY <2>1, <3>1, EnqueueType
  <2> QED
    BY <1>10, <2>2, <1>2 DEF TypeOK, SendText
<1>11. CASE RecoverLost(l)
  BY <1>11, <1>2 DEF TypeOK, RecoverLost
<1> QED
  BY <1>3, <1>4, <1>5, <1>6, <1>7, <1>8, <1>9, <1>10, <1>11 DEF Listener

\* A worker is a record of its type, and stays one under the updates that the
\* actions make.
LEMMA WorkerRecord ==
  ASSUME NEW r \in WorkerState, NEW step \in WorkerSteps, NEW c \in 0 .. MaxCtx,
         NEW n \in Nat, NEW b \in BOOLEAN
  PROVE  /\ [r EXCEPT !.step = step] \in WorkerState
         /\ [r EXCEPT !.step = step, !.said = n] \in WorkerState
         /\ [r EXCEPT !.step = step, !.last = b, !.text = b] \in WorkerState
         /\ [r EXCEPT !.tools = TRUE, !.step = step] \in WorkerState
         /\ [r EXCEPT !.step = step, !.nested = TRUE, !.tools = FALSE, !.last = FALSE,
                     !.text = FALSE] \in WorkerState
         /\ [IdleWorker EXCEPT !.step = step, !.ctx = c, !.said = n] \in WorkerState
<1> HIDE DEF WorkerSteps, Contexts, Workers
<1>1. [r EXCEPT !.step = step] \in WorkerState
  BY DEF WorkerState
<1>2. [r EXCEPT !.step = step, !.said = n] \in WorkerState
  BY DEF WorkerState
<1>3. [r EXCEPT !.step = step, !.last = b, !.text = b] \in WorkerState
  BY DEF WorkerState
<1>4. [r EXCEPT !.tools = TRUE, !.step = step] \in WorkerState
  BY DEF WorkerState
<1>5. [r EXCEPT !.step = step, !.nested = TRUE, !.tools = FALSE, !.last = FALSE,
                !.text = FALSE] \in WorkerState
  BY DEF WorkerState
<1>6. [IdleWorker EXCEPT !.step = step, !.ctx = c, !.said = n] \in WorkerState
  BY DEF WorkerState, IdleWorker
<1> QED
  BY <1>1, <1>2, <1>3, <1>4, <1>5, <1>6

\* A worker that moves on, within its reply or to another one, keeps its type.
LEMMA WorkerMoves ==
  ASSUME TypeOK, NEW w \in Workers, NEW step \in WorkerSteps
  PROVE  /\ Goto(w, step) => worker' \in [Workers -> WorkerState]
         /\ GotoUnlessDone(w, step) => worker' \in [Workers -> WorkerState]
         /\ \A c \in 0 .. MaxCtx : Reset(w, step, c) => worker' \in [Workers -> WorkerState]
<1>1. ASSUME NEW next \in WorkerSteps, Goto(w, next) PROVE worker' \in [Workers -> WorkerState]
  <2>1. [worker[w] EXCEPT !.step = next] \in WorkerState
    <3>1. worker[w] \in WorkerState
      BY DEF TypeOK
    <3> QED
      BY <3>1 DEF WorkerState
  <2>2. worker' = [worker EXCEPT ![w] = [worker[w] EXCEPT !.step = next]]
    BY <1>1 DEF Goto, TypeOK
  <2> QED
    BY <2>1, <2>2 DEF TypeOK
<1>2. ASSUME NEW c \in 0 .. MaxCtx, Reset(w, step, c) PROVE worker' \in [Workers -> WorkerState]
  <2>1. worker[w] \in WorkerState /\ worker[w].said \in Nat
    BY DEF TypeOK, WorkerState
  <2>2. [IdleWorker EXCEPT !.step = step, !.ctx = c, !.said = worker[w].said] \in WorkerState
    <3> HIDE DEF Workers, WorkerSteps
    <3> QED
      BY <2>1, WorkerRecord
  <2> QED
    BY <1>2, <2>2 DEF Reset, TypeOK
<1>3. ASSUME GotoUnlessDone(w, step) PROVE worker' \in [Workers -> WorkerState]
  BY <1>1, <1>3 DEF GotoUnlessDone
<1> QED
  BY <1>1, <1>2, <1>3

\* A sentence that a worker with a context queues is one.
LEMMA SayType ==
  ASSUME TypeOK, NEW w \in Workers, NEW next \in WorkerSteps, worker[w].ctx # 0, Say(w, next)
  PROVE  /\ voiceQ' \in Seq(Sentence)
         /\ worker' \in [Workers -> WorkerState]
         /\ lateSays' \in [Workers -> Nat]
<1> DEFINE n == worker[w].said + 1
           s == [owner |-> w, n |-> n, ctx |-> worker[w].ctx]
<1>0. worker[w] \in WorkerState
  BY DEF TypeOK
<1>1. n \in Nat \ {0} /\ worker[w].ctx \in Contexts
  BY <1>0, BoundsAssumption DEF WorkerState
<1>2. s \in Sentence
  BY <1>1 DEF Sentence
<1>3. voiceQ' \in Seq(Sentence)
  BY <1>2, EnqueueType DEF TypeOK, Say
<1>4. [worker[w] EXCEPT !.step = next, !.said = n] \in WorkerState
  <2> HIDE DEF n
  <2>1. n \in Nat
    BY <1>1
  <2>2. 0 \in 0 .. MaxCtx
    BY BoundsAssumption
  <2> HIDE DEF Workers, WorkerSteps
  <2> QED
    BY <1>0, <2>1, <2>2, WorkerRecord
<1>5. worker' = [worker EXCEPT ![w] = [worker[w] EXCEPT !.step = next, !.said = n]]
  BY DEF Say, TypeOK
<1>6. worker' \in [Workers -> WorkerState]
  BY <1>4, <1>5 DEF TypeOK
<1>7. lateSays' \in [Workers -> Nat]
  BY DEF Say, TypeOK
<1> QED
  BY <1>3, <1>6, <1>7

\* A step that changes nothing but a worker keeps the types.
LEMMA OnlyWorker ==
  ASSUME TypeOK, worker' \in [Workers -> WorkerState],
         UNCHANGED <<ctxVars, open, status, devVars, listener, chatQ, greetQ, voiceQ,
                     voice, spoken, ghosts>>
  PROVE  TypeOK'
BY DEF TypeOK, ctxVars, devVars, ghosts

\* The steps that both workers have keep the types.
LEMMA WorkerType ==
  ASSUME TypeOK, HasContext, NEW w \in Workers, Worker(w)
  PROVE  TypeOK'
<1> USE DEF devVars, ctxVars, ghosts
<1>1. CASE WorkerExit(w)
  BY <1>1, WorkerMoves DEF TypeOK, WorkerExit
<1>2. CASE SendTtsStart(w)
  BY <1>2, WorkerMoves DEF TypeOK, SendTtsStart, Show
<1>3. CASE BeginResponse(w)
  BY <1>3, WorkerMoves DEF TypeOK, BeginResponse
<1>4. CASE TakeSentence(w)
  <2>1. PICK last \in BOOLEAN :
          worker' = [worker EXCEPT ![w].step = "push", ![w].last = last, ![w].text = last]
    BY <1>4 DEF TakeSentence
  <2>2. [worker[w] EXCEPT !.step = "push", !.last = last, !.text = last] \in WorkerState
    BY WorkerRecord, BoundsAssumption DEF TypeOK
  <2>3. worker' = [worker EXCEPT ![w] =
          [worker[w] EXCEPT !.step = "push", !.last = last, !.text = last]]
    BY <2>1 DEF TypeOK
  <2> QED
    <3>1. worker' \in [Workers -> WorkerState]
      BY <2>2, <2>3 DEF TypeOK
    <3>2. UNCHANGED <<ctxVars, open, status, devVars, listener, chatQ, greetQ, voiceQ,
                     voice, spoken, ghosts>>
      BY <1>4 DEF TakeSentence
    <3> QED
      BY <3>1, <3>2, OnlyWorker
<1>5. CASE TakeCancel(w)
  BY <1>5, WorkerMoves DEF TypeOK, TakeCancel
<1>6. CASE PushSentence(w)
  <2>1. UNCHANGED <<ctxVars, open, status, devVars, listener, chatQ, greetQ, voice, spoken,
                   shown, lateFrames>>
    BY <1>6 DEF PushSentence
  <2>2. /\ worker' \in [Workers -> WorkerState] /\ voiceQ' \in Seq(Sentence)
        /\ lateSays' \in [Workers -> Nat]
    BY <1>6, SayType DEF HasContext, PushSentence
  <2> QED
    BY <2>1, <2>2 DEF TypeOK
<1>7. CASE SentenceSpoken(w)
  BY <1>7, WorkerMoves DEF TypeOK, SentenceSpoken
<1>8. CASE WaitCancelled(w)
  BY <1>8, WorkerMoves DEF TypeOK, WaitCancelled
<1>9. CASE WaitTimeout(w)
  BY <1>9, WorkerMoves DEF TypeOK, WaitTimeout
<1>10. CASE FinishResponse(w)
  BY <1>10, WorkerMoves DEF TypeOK, FinishResponse
<1>11. CASE SendTtsStop(w)
  <2>1. worker' \in [Workers -> WorkerState]
    BY <1>11, WorkerMoves, BoundsAssumption DEF SendTtsStop
  <2>2. shown' \in {"none", "start", "stop"} /\ lateSays' \in [Workers -> Nat]
    BY <1>11 DEF TypeOK, SendTtsStop, Show
  <2> QED
    BY <1>11, <2>1, <2>2 DEF TypeOK, SendTtsStop
<1> QED
  BY <1>1, <1>2, <1>3, <1>4, <1>5, <1>6, <1>7, <1>8, <1>9, <1>10, <1>11 DEF Worker

\* The chat worker and the greet worker keep the types.
LEMMA WorkersType == TypeOK /\ HasContext /\ (ChatWorker \/ GreetWorker) => TypeOK'
<1> SUFFICES ASSUME TypeOK, HasContext, ChatWorker \/ GreetWorker PROVE TypeOK'
  OBVIOUS
<1> USE DEF devVars, ctxVars, ghosts
<1>1. CASE PopText
  <2>1. Head(chatQ) \in Contexts /\ Tail(chatQ) \in Seq(Contexts)
    <3>1. chatQ \in Seq(Contexts) /\ chatQ # <<>>
      BY <1>1 DEF TypeOK, PopText
    <3> HIDE DEF Contexts
    <3> QED
      BY <3>1, HeadTailProperties
  <2>2. worker' \in [Workers -> WorkerState]
    BY <1>1, <2>1, WorkerMoves DEF PopText
  <2> QED
    BY <1>1, <2>1, <2>2 DEF TypeOK, PopText
<1>2. CASE PopGreeting
  <2>1. Head(greetQ) \in Contexts /\ Tail(greetQ) \in Seq(Contexts)
    <3>1. greetQ \in Seq(Contexts) /\ greetQ # <<>>
      BY <1>2 DEF TypeOK, PopGreeting
    <3> HIDE DEF Contexts
    <3> QED
      BY <3>1, HeadTailProperties
  <2>2. worker' \in [Workers -> WorkerState]
    BY <1>2, <2>1, WorkerMoves DEF PopGreeting
  <2> QED
    <3>1. greetQ' = Tail(greetQ)
          /\ UNCHANGED <<ctxVars, open, status, devVars, listener, chatQ, voiceQ, voice, spoken,
                         ghosts>>
      BY <1>2 DEF PopGreeting
    <3> QED
      BY <2>1, <2>2, <3>1 DEF TypeOK
<1>3. CASE CheckText
  <2>1. worker' \in [Workers -> WorkerState]
    BY <1>3, WorkerMoves, BoundsAssumption DEF CheckText
  <2> QED
    <3>1. /\ open' \in BOOLEAN
          /\ UNCHANGED <<ctxVars, status, devVars, listener, chatQ, greetQ, voiceQ, voice, spoken,
                         ghosts>>
      BY <1>3 DEF TypeOK, CheckText
    <3> QED
      BY <2>1, <3>1 DEF TypeOK
<1>4. CASE AskLLM
  BY <1>4, WorkerMoves DEF TypeOK, AskLLM
<1>5. CASE TakeTools
  <2> DEFINE new == [worker["chat"] EXCEPT !.tools = TRUE,
                       !.step = IF Done(worker["chat"].ctx) THEN "stop" ELSE "take"]
  <2>1. new \in WorkerState
    BY WorkerRecord, BoundsAssumption DEF TypeOK
  <2>2. worker' = [worker EXCEPT !["chat"] = new]
    BY <1>5 DEF TypeOK, TakeTools
  <2> HIDE DEF new
  <2>3. worker' \in [Workers -> WorkerState]
    BY <2>1, <2>2 DEF TypeOK
  <2> QED
    BY <1>5, <2>3, OnlyWorker DEF TakeTools
<1>6. CASE TakeEnd
  BY <1>6, WorkerMoves DEF TypeOK, TakeEnd
<1>7. CASE CallTools
  <2> DEFINE new == [worker["chat"] EXCEPT !.step = "ask", !.nested = TRUE,
                       !.tools = FALSE, !.last = FALSE, !.text = FALSE]
  <2>1. new \in WorkerState
    BY WorkerRecord, BoundsAssumption DEF TypeOK
  <2>2. \/ Goto("chat", "repeat") \/ Goto("chat", "stop")
        \/ worker' = [worker EXCEPT !["chat"] = new]
    BY <1>7 DEF TypeOK, CallTools
  <2>3. worker' \in [Workers -> WorkerState]
    <3> HIDE DEF new
    <3> QED
      BY <2>1, <2>2, WorkerMoves DEF TypeOK
  <2> QED
    <3>1. open' \in BOOLEAN
      BY <1>7 DEF TypeOK, CallTools
    <3> QED
      BY <1>7, <2>3, <3>1 DEF TypeOK, CallTools
<1>8. CASE RepeatSentence
  <2>1. UNCHANGED <<ctxVars, open, status, devVars, listener, chatQ, greetQ, voice, spoken,
                   shown, lateFrames>>
    BY <1>8 DEF RepeatSentence
  <2>2. /\ worker' \in [Workers -> WorkerState] /\ voiceQ' \in Seq(Sentence)
        /\ lateSays' \in [Workers -> Nat]
    BY <1>8, SayType DEF HasContext, RepeatSentence
  <2> QED
    BY <2>1, <2>2 DEF TypeOK
<1> QED
  BY <1>1, <1>2, <1>3, <1>4, <1>5, <1>6, <1>7, <1>8, WorkerType DEF ChatWorker, GreetWorker

\* The voice worker keeps the types.
LEMMA VoiceType == TypeOK /\ HasContext /\ VoiceWorker => TypeOK'
<1> SUFFICES ASSUME TypeOK, HasContext, VoiceWorker PROVE TypeOK'
  OBVIOUS
<1> USE DEF devVars, ctxVars, ghosts
<1>1. ASSUME NEW step \in VoiceSteps, VoiceGoto(step)
      PROVE  voice' \in [step : VoiceSteps, item : Sentence \cup {NoSentence}]
  BY <1>1 DEF TypeOK, VoiceGoto
<1>2. CASE PopSentence
  <2>1. Head(voiceQ) \in Sentence /\ Tail(voiceQ) \in Seq(Sentence)
    BY <1>2 DEF TypeOK, PopSentence
  <2> QED
    BY <1>2, <2>1 DEF TypeOK, PopSentence
<1>3. CASE VoiceExit
  BY <1>3, <1>1 DEF TypeOK, VoiceExit
<1>4. CASE Synthesize
  BY <1>4, <1>1 DEF TypeOK, Synthesize
<1>5. CASE SendSentenceStart
  BY <1>5, <1>1 DEF TypeOK, SendSentenceStart
<1>6. CASE TakeFrame
  BY <1>6, <1>1 DEF TypeOK, TakeFrame
<1>7. CASE SendAudio
  <2>1. lateFrames' \in [Contexts -> Nat]
    <3>1. UNCHANGED lateFrames \/ \E c : lateFrames' = [lateFrames EXCEPT ![c] = @ + 1]
      BY <1>7 DEF SendAudio
    <3> QED
      BY <3>1 DEF TypeOK
  <2> QED
    BY <1>7, <1>1, <2>1 DEF TypeOK, SendAudio
<1>8. CASE AudioCancelled
  BY <1>8, <1>1 DEF TypeOK, AudioCancelled
<1>9. CASE AudioComplete
  BY <1>9, <1>1 DEF TypeOK, AudioComplete
<1>10. CASE SendSentenceEnd
  BY <1>10, <1>1 DEF TypeOK, SendSentenceEnd
<1>11. CASE EndSentence
  <2>1. voice.item \in Sentence
    BY <1>11 DEF TypeOK, HasContext, EndSentence
  <2>2. spoken' \in [Workers -> Nat]
    BY <1>11, <2>1 DEF TypeOK, EndSentence, Sentence
  <2> QED
    BY <1>11, <2>2 DEF TypeOK, EndSentence
<1> QED
  BY <1>2, <1>3, <1>4, <1>5, <1>6, <1>7, <1>8, <1>9, <1>10, <1>11 DEF VoiceWorker

\* Every step keeps the types.
LEMMA StepType == TypeOK /\ HasContext /\ [Next]_vars => TypeOK'
<1> SUFFICES ASSUME TypeOK, HasContext, [Next]_vars PROVE TypeOK'
  OBVIOUS
<1> USE DEF devVars, ctxVars, ghosts
<1>1. CASE VadSilence
  BY <1>1 DEF TypeOK, VadSilence
<1>2. CASE Disconnect
  BY <1>2 DEF TypeOK, Disconnect
<1>3. CASE UNCHANGED vars
  BY <1>3 DEF TypeOK, vars
<1> QED
  BY <1>1, <1>2, <1>3, CommandLoopType, ListenerType, WorkersType, VoiceType DEF Next

----------------------------------------------------------------------------
(* The inductive invariant                                                 *)

\* A frame that is about to be sent passed the check of its context, and a
\* context with a late frame stays cancelled.
FrameInv ==
  \A c \in Contexts :
    /\ lateFrames[c] <= 1
    /\ lateFrames[c] # 0 => Done(c)
    /\ voice.step = "frame" /\ voice.item.ctx = c => lateFrames[c] = 0

\* Where in its reply a worker can be that has queued late sentences.
LateOf(w) ==
  /\ lateSays[w] <= (IF worker[w].tools THEN 2 ELSE 1)
  /\ lateSays[w] # 0 => Done(worker[w].ctx)
  /\ worker[w].step \in {"pop", "check", "take", "push", "exit"} => lateSays[w] = 0
  /\ worker[w].step # "stop" => lateSays[w] <= 1
  /\ worker[w].step \in {"tools", "repeat"} => worker[w].tools

LateInv == \A w \in Workers : LateOf(w)

\* The sentences of a worker are numbered in the order of the voice queue,
\* behind the one being spoken.
OrderInv ==
  /\ \A w \in Workers : spoken[w] <= worker[w].said
  /\ \A i \in 1 .. Len(voiceQ) :
       /\ voiceQ[i].n <= worker[voiceQ[i].owner].said
       /\ voiceQ[i].n > spoken[voiceQ[i].owner]
       /\ voiceQ[i].owner = voice.item.owner => voiceQ[i].n > voice.item.n
       /\ \A j \in 1 .. Len(voiceQ) :
            i < j /\ voiceQ[i].owner = voiceQ[j].owner => voiceQ[i].n < voiceQ[j].n
  /\ voice.item # NoSentence =>
       /\ voice.item.n <= worker[voice.item.owner].said
       /\ voice.item.n > spoken[voice.item.owner]

IInv ==
  TypeOK /\ HasContext /\ FrameInv /\ LateInv /\ OrderInv /\ DeviceNotLeftSpeaking

\* The initial states satisfy the invariant.
LEMMA InitInv == Init => IInv
<1> SUFFICES ASSUME Init PROVE IInv
  OBVIOUS
<1>1. IdleWorker \in WorkerState /\ Off \in ListenerState
  BY BoundsAssumption DEF IdleWorker, WorkerState, Off, ListenerState
<1>2. TypeOK
  <2>1. todo \in Seq(Calls) /\ chatQ \in Seq(Contexts) /\ greetQ \in Seq(Contexts)
        /\ voiceQ \in Seq(Sentence)
    BY DEF Init
  <2>2. /\ listener \in [Listeners -> ListenerState]
        /\ worker \in [Workers -> WorkerState]
        /\ spoken \in [Workers -> Nat]
        /\ lateFrames \in [Contexts -> Nat]
        /\ lateSays \in [Workers -> Nat]
    BY <1>1 DEF Init
  <2>3. voice \in [step : VoiceSteps, item : Sentence \cup {NoSentence}]
    BY DEF Init
  <2>4. /\ cur \in 0 .. MaxCtx /\ created \in 0 .. MaxCtx /\ cancelled \subseteq Contexts
        /\ commands \in 0 .. MaxCommands
    BY BoundsAssumption DEF Init
  <2>5. /\ open \in BOOLEAN /\ status \in Statuses /\ welcomed \in BOOLEAN
        /\ shown \in {"none", "start", "stop"}
    BY DEF Init
  <2> QED
    BY <2>1, <2>2, <2>3, <2>4, <2>5 DEF TypeOK
<1>3. HasContext
  BY DEF Init, HasContext, IdleWorker, Off
<1>4. FrameInv
  BY DEF Init, FrameInv
<1>5. LateInv
  BY DEF Init, LateInv, LateOf, IdleWorker
<1>6. OrderInv
  BY DEF Init, OrderInv, IdleWorker
<1>7. DeviceNotLeftSpeaking
  BY DEF Init, DeviceNotLeftSpeaking
<1> QED
  BY <1>2, <1>3, <1>4, <1>5, <1>6, <1>7 DEF IInv

----------------------------------------------------------------------------
(* Steps of the command loop, the listeners and the connection             *)

\* What everybody but the workers and the voice worker leaves alone.
Bystander ==
  /\ UNCHANGED <<worker, voice, voiceQ, spoken, lateFrames, lateSays>>
  /\ cancelled \subseteq cancelled'
  /\ open' => open
  /\ shown' = shown \/ shown' = "stop"

\* The command loop is a bystander, and a listener that it spawns or whose
\* push it spoils needs no context.
LEMMA CommandLoopBystander ==
  TypeOK /\ CommandLoop =>
    /\ Bystander
    /\ \A l \in Listeners : listener'[l].step \in {"push", "send"} => listener'[l] = listener[l]
<1> SUFFICES ASSUME TypeOK, CommandLoop
             PROVE  /\ Bystander
                    /\ \A l \in Listeners :
                         listener'[l].step \in {"push", "send"} => listener'[l] = listener[l]
  OBVIOUS
<1> USE DEF devVars, ctxVars, ghosts, Bystander
<1>1. ASSUME NEW calls, Receive(calls)
      PROVE  Bystander /\ UNCHANGED listener
  BY <1>1 DEF Receive
<1>2. CASE HandleAbort \/ HandleDetect \/ HandleListenStart \/ HandleListenStop
  BY <1>1, <1>2 DEF HandleAbort, HandleDetect, HandleListenStart, HandleListenStop
<1>3. CASE CancelSessionCtx
  BY <1>3 DEF CancelSessionCtx
<1>4. CASE ClearLLMResponseQueue
  BY <1>4 DEF ClearLLMResponseQueue
<1>5. CASE ClearChatTextQueue
  <2>1. Bystander
    BY <1>5 DEF ClearChatTextQueue
  <2>2. ASSUME NEW l \in Listeners, listener'[l].step \in {"push", "send"}
        PROVE  listener'[l] = listener[l]
    <3>1. CASE listener[l].step # "send"
      BY <1>5, <3>1 DEF ClearChatTextQueue
    <3>2. CASE listener[l].step = "send"
      <4>1. listener'[l] = [listener[l] EXCEPT !.step = "lost"]
        BY <1>5, <3>2 DEF ClearChatTextQueue
      <4>2. listener[l] \in ListenerState
        BY DEF TypeOK
      <4>3. listener'[l].step = "lost"
        BY <4>1, <4>2 DEF ListenerState
      <4> QED
        BY <2>2, <4>3
    <3> QED
      BY <3>1, <3>2
  <2> QED
    BY <2>1, <2>2
<1>6. CASE SendAbortStop
  BY <1>6 DEF SendAbortStop, Show
<1>7. CASE Greet
  BY <1>7 DEF Greet, GetSessionCtx
<1>8. CASE DetectText
  BY <1>8 DEF DetectText, GetSessionCtx
<1>9. CASE SetListening
  BY <1>9 DEF SetListening
<1>10. CASE OnListenStart
  <2>1. Bystander
    BY <1>10 DEF OnListenStart, GetSessionCtx
  <2>2. \/ UNCHANGED listener
        \/ \E c \in Contexts, l \in Listeners :
             listener' = [listener EXCEPT ![l] = [step |-> "wait", ctx |-> c, to |-> 0]]
    BY <1>10 DEF OnListenStart
  <2> QED
    BY <2>1, <2>2 DEF TypeOK
<1>11. CASE OnManualStop
  BY <1>11 DEF OnManualStop
<1> QED
  BY <1>2, <1>3, <1>4, <1>5, <1>6, <1>7, <1>8, <1>9, <1>10, <1>11 DEF CommandLoop

\* A listener is a bystander, and pushes only with a context.
LEMMA ListenerBystander ==
  ASSUME TypeOK, HasContext, NEW l \in Listeners, Listener(l)
  PROVE  /\ Bystander
         /\ \A k \in Listeners : listener'[k].step \in {"push", "send"} => listener'[k].to # 0
<1> USE DEF devVars, ctxVars, ghosts, Bystander
<1> DEFINE Others == \A k \in Listeners \ {l} : listener'[k] = listener[k]
           Mine == listener'[l].step \in {"push", "send"} => listener'[l].to # 0
<1>0. listener[l] \in ListenerState /\ listener \in [Listeners -> ListenerState]
  BY DEF TypeOK
<1>1. ASSUME NEW step, Listen(l, step),
             step \in {"push", "send"} => listener[l].step \in {"push", "send"}
      PROVE  Others /\ Mine
  <2>1. listener'[l].step = step /\ listener'[l].to = listener[l].to
    BY <1>0, <1>1 DEF Listen, ListenerState
  <2> QED
    BY <1>0, <1>1, <2>1 DEF Listen, HasContext
<1>2. ASSUME Leave(l) PROVE Others /\ Mine
  BY <1>0, <1>2 DEF Leave, Off
<1>3. ASSUME UNCHANGED listener PROVE Others /\ Mine
  BY <1>3 DEF HasContext
<1>4. Bystander /\ Others /\ Mine
  <2>1. CASE HearText(l)
    BY <1>1, <2>1 DEF HearText
  <2>2. CASE HearCancel(l)
    BY <1>2, <2>2 DEF HearCancel
  <2>3. CASE HearNothing(l)
    BY <1>2, <1>3, <2>3 DEF HearNothing, Done
  <2>4. CASE EndVoice(l)
    BY <1>1, <2>4 DEF EndVoice
  <2>5. CASE SendStt(l)
    BY <1>1, <1>2, <2>5 DEF SendStt
  <2>6. CASE TakeCtx(l)
    <3>1. PICK c \in Contexts :
            GetSessionCtx(c) /\ listener' = [listener EXCEPT ![l].step = "push", ![l].to = c]
      BY <2>6 DEF TakeCtx
    <3>2. listener'[l].to = c /\ Others
      BY <1>0, <3>1 DEF ListenerState
    <3> QED
      <4>1. Bystander
        BY <2>6, <3>1 DEF TakeCtx, GetSessionCtx
      <4>2. Mine
        BY <3>2, BoundsAssumption
      <4> QED
        BY <3>2, <4>1, <4>2
  <2>7. CASE TakeChannel(l)
    BY <1>1, <2>7 DEF TakeChannel
  <2>8. CASE SendText(l)
    BY <1>2, <2>8 DEF SendText
  <2>9. CASE RecoverLost(l)
    BY <1>2, <2>9 DEF RecoverLost
  <2> QED
    BY <2>1, <2>2, <2>3, <2>4, <2>5, <2>6, <2>7, <2>8, <2>9 DEF Listener
<1> QED
  BY <1>4 DEF HasContext

\* A bystander disturbs nothing but, perhaps, what the listeners hold.
LEMMA BystanderKeeps ==
  ASSUME IInv, Bystander
  PROVE  FrameInv' /\ LateInv' /\ OrderInv' /\ DeviceNotLeftSpeaking'
<1>1. \A c : Done(c) => Done(c)'
  BY DEF Bystander, Done
<1>2. FrameInv'
  BY <1>1 DEF IInv, FrameInv, Bystander
<1>3. LateInv'
  BY <1>1 DEF IInv, LateInv, LateOf, Bystander
<1>4. OrderInv'
  BY DEF IInv, OrderInv, Bystander
<1>5. DeviceNotLeftSpeaking'
  BY DEF IInv, DeviceNotLeftSpeaking, Silent, Bystander
<1> QED
  BY <1>2, <1>3, <1>4, <1>5

----------------------------------------------------------------------------
(* Steps of the chat worker and the greet worker                           *)

\* A step of worker w: what it leaves alone, how its sentences go on, and how
\* the device learns of it.
WorkerStep(w) ==
  /\ UNCHANGED <<cancelled, listener, voice, spoken, lateFrames>>
  /\ open' => open
  /\ \A v \in Workers \ {w} : worker'[v] = worker[v] /\ lateSays'[v] = lateSays[v]
  /\ \/ worker'[w].said = worker[w].said /\ UNCHANGED voiceQ
     \/ worker'[w].said = worker[w].said + 1 /\ Len(voiceQ) >= QueueCap /\ UNCHANGED voiceQ
     \/ /\ worker'[w].said = worker[w].said + 1
        /\ voiceQ' = Append(voiceQ, [owner |-> w, n |-> worker[w].said + 1, ctx |-> worker[w].ctx])
  /\ worker'[w].step \notin {"pop", "exit"} => worker'[w].ctx # 0
  /\ shown' # shown => shown' = "stop" \/ ~Silent(w)'
  /\ Silent(w)' => Silent(w) \/ ~open \/ shown' = "stop"

\* A worker that only changes its step within its reply.
LEMMA GotoStep ==
  ASSUME TypeOK, HasContext, NEW w \in Workers, NEW step \in WorkerSteps, Goto(w, step)
  PROVE  /\ worker'[w].step = step
         /\ worker'[w].ctx = worker[w].ctx
         /\ worker'[w].said = worker[w].said
         /\ worker'[w].tools = worker[w].tools
         /\ worker'[w].nested = worker[w].nested
         /\ \A v \in Workers \ {w} : worker'[v] = worker[v]
<1>1. worker[w] \in WorkerState
  BY DEF TypeOK
<1>2. worker'[w] = [worker[w] EXCEPT !.step = step]
  BY DEF TypeOK, Goto
<1>3. \A v \in Workers \ {w} : worker'[v] = worker[v]
  BY DEF TypeOK, Goto
<1> HIDE DEF WorkerSteps
<1> QED
  BY <1>1, <1>2, <1>3 DEF WorkerState

\* A worker that starts on an item or is through with it.
LEMMA ResetStep ==
  ASSUME TypeOK, NEW w \in Workers, NEW step, NEW c, Reset(w, step, c)
  PROVE  /\ worker'[w].step = step
         /\ worker'[w].ctx = c
         /\ worker'[w].said = worker[w].said
         /\ worker'[w].tools = FALSE
         /\ worker'[w].nested = FALSE
         /\ \A v \in Workers \ {w} : worker'[v] = worker[v]
<1>1. worker'[w] = [IdleWorker EXCEPT !.step = step, !.ctx = c, !.said = worker[w].said]
  BY DEF TypeOK, Reset
<1>2. \A v \in Workers \ {w} : worker'[v] = worker[v]
  BY DEF TypeOK, Reset
<1> QED
  BY <1>1, <1>2 DEF IdleWorker

\* A worker that queues a sentence.
LEMMA SayStep ==
  ASSUME TypeOK, NEW w \in Workers, NEW step \in WorkerSteps, Say(w, step)
  PROVE  /\ worker'[w].step = step
         /\ worker'[w].ctx = worker[w].ctx
         /\ worker'[w].said = worker[w].said + 1
         /\ worker'[w].tools = worker[w].tools
         /\ worker'[w].nested = worker[w].nested
         /\ \A v \in Workers \ {w} : worker'[v] = worker[v] /\ lateSays'[v] = lateSays[v]
         /\ \/ Len(voiceQ) >= QueueCap /\ UNCHANGED voiceQ
            \/ voiceQ' = Append(voiceQ,
                 [owner |-> w, n |-> worker[w].said + 1, ctx |-> worker[w].ctx])
         /\ lateSays'[w] = (IF Done(worker[w].ctx) THEN lateSays[w] + 1 ELSE lateSays[w])
<1> DEFINE n == worker[w].said + 1
<1>1. worker[w] \in WorkerState
  BY DEF TypeOK
<1>2. worker'[w] = [worker[w] EXCEPT !.step = step, !.said = n]
  BY DEF TypeOK, Say
<1>3. \A v \in Workers \ {w} : worker'[v] = worker[v] /\ lateSays'[v] = lateSays[v]
  BY DEF TypeOK, Say
<1>4. lateSays'[w] = (IF Done(worker[w].ctx) THEN lateSays[w] + 1 ELSE lateSays[w])
  BY DEF TypeOK, Say
<1>5. \/ Len(voiceQ) >= QueueCap /\ UNCHANGED voiceQ
      \/ voiceQ' = Append(voiceQ, [owner |-> w, n |-> n, ctx |-> worker[w].ctx])
  <2>1. Len(voiceQ) \in Nat /\ QueueCap \in Nat
    BY QueueCapAssumption DEF TypeOK
  <2> QED
    BY <2>1 DEF Say, Enqueue
<1>6. /\ worker'[w].step = step /\ worker'[w].ctx = worker[w].ctx /\ worker'[w].said = n
      /\ worker'[w].tools = worker[w].tools /\ worker'[w].nested = worker[w].nested
  <2> HIDE DEF WorkerSteps, n
  <2> QED
    BY <1>1, <1>2 DEF WorkerState
<1> QED
  BY <1>3, <1>4, <1>5, <1>6

\* The steps that both workers have are such steps, and keep what is known of
\* the late sentences.
LEMMA CommonWorkerStep ==
  ASSUME TypeOK, HasContext, NEW w \in Workers, LateOf(w), Worker(w)
  PROVE  WorkerStep(w) /\ LateOf(w)'
<1> USE DEF devVars, ctxVars, ghosts, WorkerStep, LateOf, Silent, Done
<1>0. worker[w].said \in Nat /\ lateSays[w] \in Nat
      /\ (worker[w].step \notin {"pop", "exit"} => worker[w].ctx # 0)
  BY DEF TypeOK, WorkerState, HasContext
<1>1. CASE WorkerExit(w)
  BY <1>0, <1>1, GotoStep DEF WorkerExit
<1>2. CASE SendTtsStart(w)
  BY <1>0, <1>2, GotoStep DEF SendTtsStart, Show
<1>3. CASE BeginResponse(w)
  BY <1>0, <1>3, GotoStep DEF BeginResponse, GotoUnlessDone
<1>4. CASE TakeSentence(w)
  <2>1. PICK last \in BOOLEAN :
          worker' = [worker EXCEPT ![w].step = "push", ![w].last = last, ![w].text = last]
    BY <1>4 DEF TakeSentence
  <2>2. /\ worker'[w].step = "push" /\ worker'[w].ctx = worker[w].ctx
        /\ worker'[w].said = worker[w].said /\ worker'[w].tools = worker[w].tools
        /\ \A v \in Workers \ {w} : worker'[v] = worker[v]
    BY <2>1 DEF TypeOK, WorkerState
  <2> QED
    BY <1>0, <1>4, <2>2 DEF TakeSentence
<1>5. CASE TakeCancel(w)
  BY <1>0, <1>5, GotoStep DEF TakeCancel
<1>6. CASE PushSentence(w)
  BY <1>0, <1>6, SayStep DEF PushSentence
<1>7. CASE SentenceSpoken(w)
  BY <1>0, <1>7, GotoStep DEF SentenceSpoken, GotoUnlessDone
<1>8. CASE WaitCancelled(w)
  BY <1>0, <1>8, GotoStep DEF WaitCancelled
<1>9. CASE WaitTimeout(w)
  BY <1>0, <1>9, GotoStep DEF WaitTimeout
<1>10. CASE FinishResponse(w)
  BY <1>0, <1>10, GotoStep DEF FinishResponse
<1>11. CASE SendTtsStop(w)
  <2>1. lateSays'[w] = 0 /\ \A v \in Workers \ {w} : lateSays'[v] = lateSays[v]
    BY <1>11 DEF TypeOK, SendTtsStop
  <2> QED
    <3>1. /\ worker'[w].step = "pop" /\ worker'[w].said = worker[w].said
          /\ worker'[w].tools = FALSE
          /\ \A v \in Workers \ {w} : worker'[v] = worker[v]
      BY <1>11, ResetStep DEF SendTtsStop
    <3>2. shown' = (IF open THEN "stop" ELSE shown)
      BY <1>11 DEF SendTtsStop, Show
    <3>3. UNCHANGED <<cancelled, listener, voice, spoken, lateFrames, open, voiceQ>>
      BY <1>11 DEF SendTtsStop
    <3> QED
      BY <2>1, <3>1, <3>2, <3>3
<1> QED
  BY <1>1, <1>2, <1>3, <1>4, <1>5, <1>6, <1>7, <1>8, <1>9, <1>10, <1>11 DEF Worker

\* So are the steps that only one of the two workers has.
LEMMA ChatWorkerStep ==
  ASSUME TypeOK, HasContext, LateOf("chat"), ChatWorker
  PROVE  WorkerStep("chat") /\ LateOf("chat")'
<1> USE DEF devVars, ctxVars, ghosts, WorkerStep, LateOf, Silent, Done
<1>0. /\ worker["chat"].said \in Nat /\ lateSays["chat"] \in Nat
      /\ worker["chat"].step \notin {"pop", "exit"} => worker["chat"].ctx # 0
  BY DEF TypeOK, WorkerState, HasContext
<1>1. CASE PopText
  <2>1. Head(chatQ) \in Contexts
    <3>1. chatQ \in Seq(Contexts) /\ chatQ # <<>>
      BY <1>1 DEF TypeOK, PopText
    <3> HIDE DEF Contexts
    <3> QED
      BY <3>1, HeadTailProperties
  <2>2. Head(chatQ) # 0
    BY <2>1, BoundsAssumption
  <2> QED
    <3>1. /\ worker'["chat"].step = "check" /\ worker'["chat"].ctx # 0
          /\ worker'["chat"].said = worker["chat"].said
          /\ worker'["chat"].tools = FALSE /\ worker["chat"].step = "pop"
          /\ \A v \in Workers \ {"chat"} : worker'[v] = worker[v]
      BY <1>1, <2>2, ResetStep DEF PopText
    <3>2. UNCHANGED <<cancelled, listener, voice, spoken, lateFrames, open, voiceQ, lateSays, shown>>
      BY <1>1 DEF PopText
    <3> QED
      BY <1>0, <3>1, <3>2
<1>2. CASE CheckText
  <2>1. /\ \/ worker'["chat"].step = "pop" /\ worker'["chat"].tools = FALSE
           \/ /\ worker'["chat"].step = "ask" /\ worker'["chat"].tools = worker["chat"].tools
              /\ worker'["chat"].ctx = worker["chat"].ctx
        /\ worker'["chat"].said = worker["chat"].said /\ worker["chat"].step = "check"
        /\ \A v \in Workers \ {"chat"} : worker'[v] = worker[v]
    BY <1>2, GotoStep, ResetStep DEF CheckText
  <2>2. /\ UNCHANGED <<cancelled, listener, voice, spoken, lateFrames, voiceQ, lateSays, shown>>
        /\ open' => open
    BY <1>2 DEF CheckText
  <2> QED
    BY <1>0, <2>1, <2>2
<1>3. CASE AskLLM
  BY <1>0, <1>3, GotoStep DEF AskLLM
<1>4. CASE TakeTools
  <2>1. /\ worker'["chat"].step \in {"stop", "take"}
        /\ worker'["chat"].ctx = worker["chat"].ctx /\ worker'["chat"].said = worker["chat"].said
        /\ worker'["chat"].tools = TRUE
        /\ \A v \in Workers \ {"chat"} : worker'[v] = worker[v]
    BY <1>4 DEF TypeOK, WorkerState, TakeTools
  <2> QED
    <3>1. /\ UNCHANGED <<cancelled, listener, voice, spoken, lateFrames, voiceQ, lateSays, shown, open>>
          /\ worker["chat"].step = "take"
      BY <1>4 DEF TakeTools
    <3> QED
      BY <1>0, <2>1, <3>1
<1>5. CASE TakeEnd
  BY <1>0, <1>5, GotoStep DEF TakeEnd
<1>6. CASE CallTools
  <2>0. /\ UNCHANGED <<cancelled, listener, voice, spoken, lateFrames, voiceQ, lateSays, shown>>
        /\ open' => open
        /\ worker["chat"].step = "tools" /\ worker["chat"].tools
    <3>1. worker["chat"].step = "tools"
      BY <1>6 DEF CallTools
    <3>2. worker["chat"].tools
      BY <3>1
    <3>3. UNCHANGED <<cancelled, listener, voice, spoken, lateFrames, voiceQ, lateSays, shown>>
      BY <1>6 DEF CallTools
    <3>4. open' => open
      BY <1>6 DEF CallTools
    <3> QED
      BY <3>1, <3>2, <3>3, <3>4
  <2>1. CASE Goto("chat", "repeat") \/ Goto("chat", "stop")
    <3>1. /\ worker'["chat"].step \in {"repeat", "stop"}
          /\ worker'["chat"].ctx = worker["chat"].ctx
          /\ worker'["chat"].said = worker["chat"].said
          /\ worker'["chat"].tools = worker["chat"].tools
          /\ \A v \in Workers \ {"chat"} : worker'[v] = worker[v]
      BY <2>1, GotoStep
    <3> QED
      BY <1>0, <2>0, <3>1
  <2>2. CASE worker' = [worker EXCEPT !["chat"].step = "ask", !["chat"].nested = TRUE,
             !["chat"].tools = FALSE, !["chat"].last = FALSE, !["chat"].text = FALSE]
    <3>1. /\ worker'["chat"].step = "ask" /\ worker'["chat"].nested = TRUE
          /\ worker'["chat"].ctx = worker["chat"].ctx
          /\ worker'["chat"].said = worker["chat"].said
          /\ worker'["chat"].tools = FALSE
          /\ \A v \in Workers \ {"chat"} : worker'[v] = worker[v]
      BY <2>2 DEF TypeOK, WorkerState
    <3> QED
      BY <1>0, <2>0, <3>1
  <2> QED
    BY <1>6, <2>1, <2>2 DEF CallTools
<1>7. CASE RepeatSentence
  BY <1>0, <1>7, SayStep DEF RepeatSentence
<1> QED
  BY <1>1, <1>2, <1>3, <1>4, <1>5, <1>6, <1>7, CommonWorkerStep DEF ChatWorker

\* The greet worker.
LEMMA GreetWorkerStep ==
  ASSUME TypeOK, HasContext, LateOf("greet"), GreetWorker
  PROVE  WorkerStep("greet") /\ LateOf("greet")'
<1> USE DEF devVars, ctxVars, ghosts, WorkerStep, LateOf, Silent, Done
<1>1. CASE PopGreeting
  <2>1. Head(greetQ) \in Contexts
    <3>1. greetQ \in Seq(Contexts) /\ greetQ # <<>>
      BY <1>1 DEF TypeOK, PopGreeting
    <3> HIDE DEF Contexts
    <3> QED
      BY <3>1, HeadTailProperties
  <2>2. Head(greetQ) # 0
    BY <2>1, BoundsAssumption
  <2>3. worker["greet"].said \in Nat
    BY DEF TypeOK, WorkerState
  <2> QED
    BY <1>1, <2>2, <2>3, ResetStep DEF PopGreeting
<1> QED
  BY <1>1, CommonWorkerStep DEF GreetWorker

\* The voice queue grows only by the worker's next sentence, behind everything
\* that is queued, so the order stays.
LEMMA WorkerOrder ==
  ASSUME TypeOK, OrderInv, NEW w \in Workers, WorkerStep(w)
  PROVE  OrderInv'
<1> DEFINE s == [owner |-> w, n |-> worker[w].said + 1, ctx |-> worker[w].ctx]
<1>1. /\ \A v \in Workers : worker[v].said \in Nat /\ spoken[v] \in Nat
      /\ voiceQ \in Seq(Sentence) /\ voice.item \in Sentence \cup {NoSentence}
  BY DEF TypeOK, WorkerState
<1>2. \A v \in Workers : worker'[v].said \in Nat /\ worker'[v].said >= worker[v].said
  <2> HIDE DEF Workers
  <2>1. worker'[w].said = worker[w].said \/ worker'[w].said = worker[w].said + 1
    BY DEF WorkerStep
  <2>2. \A v \in Workers \ {w} : worker'[v] = worker[v]
    BY DEF WorkerStep
  <2>3. ASSUME NEW v \in Workers
        PROVE  worker'[v].said \in Nat /\ worker'[v].said >= worker[v].said
    <3>1. CASE v = w
      BY <1>1, <2>1, <3>1
    <3>2. CASE v # w
      BY <1>1, <2>2, <3>2
    <3> QED
      BY <3>1, <3>2
  <2> QED
    BY <2>3
<1>3. voice' = voice /\ spoken' = spoken
  BY DEF WorkerStep
<1>4. \A i \in 1 .. Len(voiceQ) : voiceQ[i] \in Sentence
  BY <1>1
<1>5. \A v \in Workers : spoken[v] <= worker'[v].said
  BY <1>1, <1>2 DEF OrderInv
<1>6. voice.item # NoSentence =>
        /\ voice.item.n <= worker'[voice.item.owner].said
        /\ voice.item.n > spoken[voice.item.owner]
  <2> SUFFICES ASSUME voice.item # NoSentence
               PROVE  /\ voice.item.n <= worker'[voice.item.owner].said
                      /\ voice.item.n > spoken[voice.item.owner]
    OBVIOUS
  <2>1. voice.item.owner \in Workers /\ voice.item.n \in Nat
    BY <1>1 DEF Sentence
  <2>2. /\ voice.item.n <= worker[voice.item.owner].said
        /\ voice.item.n > spoken[voice.item.owner]
    BY DEF OrderInv
  <2> HIDE DEF Workers
  <2> QED
    BY <1>1, <1>2, <2>1, <2>2
<1>7. \A i \in 1 .. Len(voiceQ) : voiceQ[i].n <= worker'[voiceQ[i].owner].said
  <2> TAKE i \in 1 .. Len(voiceQ)
  <2>1. voiceQ[i].owner \in Workers /\ voiceQ[i].n \in Nat
    BY <1>4 DEF Sentence
  <2>2. voiceQ[i].n <= worker[voiceQ[i].owner].said
    BY DEF OrderInv
  <2> HIDE DEF Workers
  <2> QED
    BY <1>1, <1>2, <2>1, <2>2
<1>8. CASE UNCHANGED voiceQ
  BY <1>3, <1>5, <1>6, <1>7, <1>8 DEF OrderInv
<1>9. CASE worker'[w].said = worker[w].said + 1 /\ voiceQ' = Append(voiceQ, s)
  <2>1. /\ Len(voiceQ') = Len(voiceQ) + 1 /\ voiceQ'[Len(voiceQ) + 1] = s
        /\ \A i \in 1 .. Len(voiceQ) : voiceQ'[i] = voiceQ[i]
        /\ Len(voiceQ) \in Nat
    BY <1>1, <1>9
  <2>2. s.owner = w /\ s.n = worker[w].said + 1
    OBVIOUS
  <2>3. ASSUME NEW i \in 1 .. Len(voiceQ), voiceQ[i].owner = w PROVE voiceQ[i].n < s.n
    <3>1. voiceQ[i].n \in Nat
      BY <1>4 DEF Sentence
    <3>2. voiceQ[i].n <= worker[w].said
      BY <2>3 DEF OrderInv
    <3>3. worker[w].said \in Nat
      BY <1>1
    <3> QED
      BY <2>2, <3>1, <3>2, <3>3
  <2>4. w = voice.item.owner => s.n > voice.item.n
    BY <1>1, <2>2 DEF OrderInv, Sentence, NoSentence
  <2>5. s.n > spoken[w] /\ s.n <= worker'[w].said
    BY <1>1, <1>9, <2>2 DEF OrderInv
  <2> HIDE DEF s
  <2>6. ASSUME NEW i \in 1 .. Len(voiceQ')
        PROVE  /\ voiceQ'[i].n <= worker'[voiceQ'[i].owner].said
               /\ voiceQ'[i].n > spoken[voiceQ'[i].owner]
               /\ voiceQ'[i].owner = voice.item.owner => voiceQ'[i].n > voice.item.n
    <3>1. CASE i \in 1 .. Len(voiceQ)
      BY <1>7, <2>1, <3>1 DEF OrderInv
    <3>2. CASE i = Len(voiceQ) + 1
      BY <2>1, <2>2, <2>4, <2>5, <3>2
    <3> QED
      BY <2>1, <3>1, <3>2
  <2>7. ASSUME NEW i \in 1 .. Len(voiceQ'), NEW j \in 1 .. Len(voiceQ'),
               i < j, voiceQ'[i].owner = voiceQ'[j].owner
        PROVE  voiceQ'[i].n < voiceQ'[j].n
    <3>1. i \in 1 .. Len(voiceQ)
      BY <2>1, <2>7
    <3>2. CASE j \in 1 .. Len(voiceQ)
      BY <2>1, <2>7, <3>1, <3>2 DEF OrderInv
    <3>3. CASE j = Len(voiceQ) + 1
      BY <2>1, <2>2, <2>3, <2>7, <3>1, <3>3
    <3> QED
      BY <2>1, <3>2, <3>3
  <2> QED
    BY <1>3, <1>5, <1>6, <2>6, <2>7 DEF OrderInv
<1> QED
  BY <1>8, <1>9 DEF WorkerStep

\* The steps of a worker keep the invariant.
LEMMA WorkerKeeps ==
  ASSUME IInv, NEW w \in Workers, WorkerStep(w), LateOf(w)', TypeOK'
  PROVE  IInv'
<1>1. \A c : Done(c) => Done(c)'
  BY DEF WorkerStep, Done
<1>2. HasContext'
  BY DEF IInv, HasContext, WorkerStep
<1>3. FrameInv'
  BY <1>1 DEF IInv, FrameInv, WorkerStep
<1>4. LateInv'
  <2>1. ASSUME NEW v \in Workers \ {w} PROVE LateOf(v)'
    BY <1>1 DEF IInv, LateInv, LateOf, WorkerStep
  <2> QED
    BY <2>1 DEF LateInv
<1>5. OrderInv'
  BY WorkerOrder DEF IInv
<1>6. DeviceNotLeftSpeaking'
  <2>1. \A v \in Workers \ {w} : Silent(v)' => Silent(v)
    BY DEF WorkerStep, Silent
  <2> QED
    BY <2>1 DEF IInv, DeviceNotLeftSpeaking, WorkerStep
<1> QED
  BY <1>2, <1>3, <1>4, <1>5, <1>6 DEF IInv

----------------------------------------------------------------------------
(* Steps of the voice worker                                               *)

\* A step of the voice worker that only moves it on within its sentence.
VoiceMove ==
  /\ UNCHANGED <<cancelled, open, listener, worker, voiceQ, spoken, shown, lateSays>>
  /\ voice'.item = voice.item
  /\ voice.step \notin {"pop", "exit"} \/ voice'.step = "exit"

\* Everything but the frames survives such a step.
LEMMA VoiceMoveKeeps ==
  ASSUME IInv, VoiceMove
  PROVE  HasContext' /\ LateInv' /\ OrderInv' /\ DeviceNotLeftSpeaking'
<1>1. HasContext'
  BY DEF IInv, HasContext, VoiceMove
<1>2. LateInv'
  BY DEF IInv, LateInv, LateOf, Done, VoiceMove
<1>3. OrderInv'
  BY DEF IInv, OrderInv, VoiceMove
<1>4. DeviceNotLeftSpeaking'
  BY DEF IInv, DeviceNotLeftSpeaking, Silent, VoiceMove
<1> QED
  BY <1>1, <1>2, <1>3, <1>4

\* The voice worker takes a sentence: it is the first of the queue and younger
\* than the last sentence of its owner that was spoken.
LEMMA PopSentenceKeeps ==
  ASSUME IInv, PopSentence, TypeOK'
  PROVE  IInv' /\ voice'.item \in Sentence /\ voice'.item.n > spoken[voice'.item.owner]
<1> USE DEF ctxVars, devVars, ghosts
<1>1. voiceQ \in Seq(Sentence) /\ voiceQ # <<>> /\ voiceQ' = Tail(voiceQ)
  BY DEF IInv, TypeOK, PopSentence
<1>2. Len(voiceQ) \in Nat /\ Len(voiceQ) > 0 /\ voiceQ[1] \in Sentence /\ Head(voiceQ) = voiceQ[1]
  BY <1>1
<1>3. /\ Len(voiceQ') = Len(voiceQ) - 1
      /\ \A i \in 1 .. Len(voiceQ') : voiceQ'[i] = voiceQ[i + 1] /\ i + 1 \in 1 .. Len(voiceQ)
  BY <1>1, <1>2
<1>4. voice' = [step |-> "synth", item |-> voiceQ[1]]
  BY <1>2 DEF PopSentence
<1>5. UNCHANGED <<cancelled, open, listener, worker, spoken, shown, lateSays, lateFrames>>
  BY DEF PopSentence
<1>6. 1 \in 1 .. Len(voiceQ)
  BY <1>2
<1>7. voice'.item = voiceQ[1] /\ voiceQ[1].n > spoken[voiceQ[1].owner]
  BY <1>4, <1>6 DEF IInv, OrderInv
<1>8. OrderInv'
  <2>1. \A w \in Workers : spoken'[w] <= worker'[w].said
    BY <1>5 DEF IInv, OrderInv
  <2>2. voice'.item.n <= worker'[voice'.item.owner].said
    BY <1>5, <1>6, <1>7 DEF IInv, OrderInv
  <2>3. ASSUME NEW i \in 1 .. Len(voiceQ')
        PROVE  /\ voiceQ'[i].n <= worker'[voiceQ'[i].owner].said
               /\ voiceQ'[i].n > spoken'[voiceQ'[i].owner]
               /\ voiceQ'[i].owner = voice'.item.owner => voiceQ'[i].n > voice'.item.n
               /\ \A j \in 1 .. Len(voiceQ') :
                    i < j /\ voiceQ'[i].owner = voiceQ'[j].owner => voiceQ'[i].n < voiceQ'[j].n
    <3>1. voiceQ'[i] = voiceQ[i + 1] /\ i + 1 \in 1 .. Len(voiceQ)
      BY <1>3
    <3>2. /\ voiceQ'[i].n <= worker'[voiceQ'[i].owner].said
          /\ voiceQ'[i].n > spoken'[voiceQ'[i].owner]
      BY <3>1, <1>5 DEF IInv, OrderInv
    <3>3. voiceQ'[i].owner = voice'.item.owner => voiceQ'[i].n > voice'.item.n
      <4>1. 1 < i + 1 /\ voiceQ[i + 1] \in Sentence
        BY <1>1, <3>1
      <4>2. voiceQ[1].owner = voiceQ[i + 1].owner => voiceQ[1].n < voiceQ[i + 1].n
        BY <1>6, <3>1, <4>1 DEF IInv, OrderInv
      <4> QED
        BY <1>2, <1>7, <3>1, <4>1, <4>2 DEF Sentence
    <3>4. ASSUME NEW j \in 1 .. Len(voiceQ'), i < j, voiceQ'[i].owner = voiceQ'[j].owner
          PROVE  voiceQ'[i].n < voiceQ'[j].n
      <4>1. voiceQ'[j] = voiceQ[j + 1] /\ j + 1 \in 1 .. Len(voiceQ) /\ i + 1 < j + 1
        BY <1>3, <3>4
      <4> QED
        BY <3>1, <3>4, <4>1 DEF IInv, OrderInv
    <3> QED
      BY <3>2, <3>3, <3>4
  <2> QED
    BY <1>5, <1>7, <2>1, <2>2, <2>3 DEF OrderInv
<1>9. HasContext'
  <2>1. voice'.item # NoSentence
    BY <1>2, <1>7 DEF Sentence, NoSentence
  <2> QED
    BY <1>5, <2>1 DEF IInv, HasContext
<1>10. FrameInv'
  <2>1. voice'.step # "frame"
    BY <1>4
  <2> QED
    BY <1>5, <2>1 DEF IInv, FrameInv, Done
<1>11. LateInv' /\ DeviceNotLeftSpeaking'
  BY <1>5 DEF IInv, LateInv, LateOf, Done, DeviceNotLeftSpeaking, Silent
<1> QED
  BY <1>2, <1>5, <1>7, <1>8, <1>9, <1>10, <1>11 DEF IInv

\* The voice worker is through with a sentence.
LEMMA EndSentenceKeeps ==
  ASSUME IInv, EndSentence, TypeOK'
  PROVE  IInv'
<1> USE DEF ctxVars, devVars, ghosts
<1>1. voice.item \in Sentence
  BY DEF IInv, TypeOK, HasContext, EndSentence
<1>2. /\ UNCHANGED <<cancelled, open, listener, worker, voiceQ, shown, lateSays, lateFrames>>
      /\ spoken' = [spoken EXCEPT ![voice.item.owner] = voice.item.n]
      /\ voice' = [step |-> "pop", item |-> NoSentence]
  BY DEF EndSentence
<1>3. voice'.step = "pop" /\ voice'.item = NoSentence
  BY <1>2
<1>4. voiceQ \in Seq(Sentence) /\ spoken \in [Workers -> Nat]
      /\ \A i \in 1 .. Len(voiceQ) : voiceQ[i] \in Sentence
  <2>1. voiceQ \in Seq(Sentence) /\ spoken \in [Workers -> Nat]
    BY DEF IInv, TypeOK
  <2> QED
    BY <2>1
<1>5. spoken'[voice.item.owner] = voice.item.n
      /\ \A v \in Workers \ {voice.item.owner} : spoken'[v] = spoken[v]
  BY <1>1, <1>2, <1>4 DEF Sentence
<1>6. OrderInv'
  <2>1. \A w \in Workers : spoken'[w] <= worker'[w].said
    BY <1>1, <1>2, <1>5 DEF IInv, OrderInv, Sentence, NoSentence
  <2>2. ASSUME NEW i \in 1 .. Len(voiceQ)
        PROVE  /\ voiceQ[i].n > spoken'[voiceQ[i].owner]
               /\ voiceQ[i].owner # NoSentence.owner
    <3>1. voiceQ[i].owner \in Workers
      BY <1>4 DEF Sentence
    <3>2. voiceQ[i].owner # NoSentence.owner
      BY <3>1 DEF NoSentence
    <3>3. CASE voiceQ[i].owner = voice.item.owner
      BY <1>5, <3>2, <3>3 DEF IInv, OrderInv
    <3>4. CASE voiceQ[i].owner # voice.item.owner
      BY <1>5, <3>1, <3>2, <3>4 DEF IInv, OrderInv
    <3> QED
      BY <3>2, <3>3, <3>4
  <2> QED
    BY <1>2, <1>3, <2>1, <2>2 DEF IInv, OrderInv
<1>7. HasContext' /\ FrameInv'
  BY <1>2, <1>3 DEF IInv, HasContext, FrameInv, Done
<1>8. LateInv' /\ DeviceNotLeftSpeaking'
  BY <1>2 DEF IInv, LateInv, LateOf, Done, DeviceNotLeftSpeaking, Silent
<1> QED
  BY <1>6, <1>7, <1>8 DEF IInv

\* The steps of the voice worker keep the invariant.
LEMMA VoiceKeeps ==
  ASSUME IInv, VoiceWorker, TypeOK'
  PROVE  IInv'
<1> USE DEF ctxVars, devVars, ghosts
<1>0. voice \in [step : VoiceSteps, item : Sentence \cup {NoSentence}]
  BY DEF IInv, TypeOK
<1>1. ASSUME NEW step, VoiceGoto(step) PROVE voice'.step = step /\ voice'.item = voice.item
  BY <1>0, <1>1 DEF VoiceGoto
<1>2. ASSUME VoiceMove, UNCHANGED lateFrames, voice'.step # "frame" PROVE IInv'
  <2>1. FrameInv'
    BY <1>2 DEF IInv, FrameInv, Done, VoiceMove
  <2> QED
    BY <1>2, <2>1, VoiceMoveKeeps DEF IInv
<1>3. CASE PopSentence
  BY <1>3, PopSentenceKeeps
<1>4. CASE VoiceExit
  BY <1>4, <1>1, <1>2 DEF VoiceExit, VoiceMove
<1>5. CASE Synthesize
  BY <1>5, <1>1, <1>2 DEF Synthesize, VoiceMove
<1>6. CASE SendSentenceStart
  BY <1>6, <1>1, <1>2 DEF SendSentenceStart, VoiceMove
<1>7. CASE TakeFrame
  <2>1. VoiceMove /\ voice'.item = voice.item /\ UNCHANGED <<lateFrames, cancelled, open>>
    BY <1>7, <1>1 DEF TakeFrame, VoiceMove
  <2>2. \A c \in Contexts : voice'.item.ctx = c => lateFrames[c] = 0
    BY <1>7, <2>1 DEF IInv, FrameInv, TakeFrame
  <2>3. FrameInv'
    BY <2>1, <2>2 DEF IInv, FrameInv, Done
  <2> QED
    BY <2>1, <2>3, VoiceMoveKeeps DEF IInv
<1>8. CASE SendAudio
  <2>1. /\ VoiceMove /\ voice'.step # "frame" /\ voice.step = "frame"
        /\ UNCHANGED <<cancelled, open>>
    BY <1>8, <1>1 DEF SendAudio, VoiceMove
  <2>2. CASE UNCHANGED lateFrames
    BY <1>2, <2>1, <2>2
  <2>3. CASE /\ Done(voice.item.ctx)
             /\ lateFrames' = [lateFrames EXCEPT ![voice.item.ctx] = @ + 1]
    <3>1. ASSUME NEW c \in Contexts
          PROVE  lateFrames'[c] <= 1 /\ (lateFrames'[c] # 0 => Done(c)')
      <4>1. CASE c = voice.item.ctx
        <5>1. lateFrames[c] = 0
          BY <2>1, <4>1 DEF IInv, FrameInv
        <5>2. lateFrames'[c] = 1
          BY <2>3, <4>1, <5>1 DEF IInv, TypeOK
        <5> QED
          BY <2>1, <2>3, <4>1, <5>2 DEF Done
      <4>2. CASE c # voice.item.ctx
        BY <2>1, <2>3, <4>2 DEF IInv, FrameInv, TypeOK, Done
      <4> QED
        BY <4>1, <4>2
    <3>2. FrameInv'
      BY <2>1, <3>1 DEF FrameInv
    <3> QED
      BY <2>1, <3>2, VoiceMoveKeeps DEF IInv
  <2> QED
    BY <1>8, <2>2, <2>3 DEF SendAudio
<1>9. CASE AudioCancelled
  BY <1>9, <1>1, <1>2 DEF AudioCancelled, VoiceMove
<1>10. CASE AudioComplete
  BY <1>10, <1>1, <1>2 DEF AudioComplete, VoiceMove
<1>11. CASE SendSentenceEnd
  BY <1>11, <1>1, <1>2 DEF SendSentenceEnd, VoiceMove
<1>12. CASE EndSentence
  BY <1>12, EndSentenceKeeps
<1> QED
  BY <1>3, <1>4, <1>5, <1>6, <1>7, <1>8, <1>9, <1>10, <1>11, <1>12 DEF VoiceWorker

----------------------------------------------------------------------------
(* The theorems                                                            *)

\* The invariant is inductive.
LEMMA StepInv == IInv /\ [Next]_vars => IInv'
<1> SUFFICES ASSUME IInv, [Next]_vars PROVE IInv'
  OBVIOUS
<1>1. TypeOK' /\ TypeOK /\ HasContext
  BY StepType DEF IInv
<1>2. CASE CommandLoop
  <2>1. /\ Bystander
        /\ \A l \in Listeners : listener'[l].step \in {"push", "send"} => listener'[l] = listener[l]
    BY <1>1, <1>2, CommandLoopBystander
  <2>2. HasContext'
    BY <2>1 DEF IInv, HasContext, Bystander
  <2> QED
    BY <1>1, <2>1, <2>2, BystanderKeeps DEF IInv
<1>3. ASSUME NEW l \in Listeners, Listener(l) PROVE IInv'
  <2>1. /\ Bystander
        /\ \A k \in Listeners : listener'[k].step \in {"push", "send"} => listener'[k].to # 0
    BY <1>1, <1>3, ListenerBystander
  <2>2. HasContext'
    BY <2>1 DEF IInv, HasContext, Bystander
  <2> QED
    BY <1>1, <2>1, <2>2, BystanderKeeps DEF IInv
<1>4. CASE VadSilence \/ Disconnect \/ UNCHANGED vars
  <2>1. Bystander /\ UNCHANGED listener
    BY <1>4 DEF VadSilence, Disconnect, vars, ctxVars, devVars, ghosts, Bystander
  <2>2. HasContext'
    BY <2>1 DEF IInv, HasContext, Bystander
  <2> QED
    BY <1>1, <2>1, <2>2, BystanderKeeps DEF IInv
<1>5. CASE ChatWorker
  <2>1. WorkerStep("chat") /\ LateOf("chat")'
    BY <1>1, <1>5, ChatWorkerStep DEF IInv, LateInv
  <2> QED
    BY <1>1, <2>1, WorkerKeeps
<1>6. CASE GreetWorker
  <2>1. WorkerStep("greet") /\ LateOf("greet")'
    BY <1>1, <1>6, GreetWorkerStep DEF IInv, LateInv
  <2> QED
    BY <1>1, <2>1, WorkerKeeps
<1>7. CASE VoiceWorker
  BY <1>1, <1>7, VoiceKeeps
<1> QED
  BY <1>2, <1>3, <1>4, <1>5, <1>6, <1>7 DEF Next

\* The invariant holds in every reachable state.
LEMMA Invariant == Spec => []IInv
<1>1. Init => IInv
  BY InitInv
<1>2. IInv /\ [Next]_vars => IInv'
  BY StepInv
<1> QED
  BY <1>1, <1>2, PTL DEF Spec

\* Types: every goroutine of a session keeps the types of what they share.
THEOREM TypeCorrect == Spec => []TypeOK
<1>1. IInv => TypeOK
  BY DEF IInv
<1> QED
  BY <1>1, Invariant, PTL

\* SendTTSAudio: however the abort interleaves with it, at most one frame of a
\* cancelled context goes out.
THEOREM OneLateFrame == Spec => []AtMostOneLateFrame
<1>1. IInv => AtMostOneLateFrame
  BY DEF IInv, FrameInv, AtMostOneLateFrame
<1> QED
  BY <1>1, Invariant, PTL

\* handleLLMResponse: a cancelled reply queues at most one sentence more, and
\* its repetition if its tools failed.
THEOREM LateSentencesBounded == Spec => []FewLateSentences
<1>1. IInv => FewLateSentences
  BY DEF IInv, LateInv, LateOf, FewLateSentences
<1> QED
  BY <1>1, Invariant, PTL

\* SendTtsStart and SendTtsStop: every path of a reply, the cancelled ones
\* included, takes the device out of the speaking state again.
THEOREM SpeakingEnds == Spec => []DeviceNotLeftSpeaking
<1>1. IInv => DeviceNotLeftSpeaking
  BY DEF IInv
<1> QED
  BY <1>1, Invariant, PTL

\* processTTSQueue: the sentences of a worker are spoken in their order and
\* none twice, whatever was cancelled, dropped or given up.
THEOREM SpokenInOrder == Spec => SpeaksInOrder
<1>1. IInv /\ [Next]_vars =>
        [voice'.item # voice.item /\ voice'.item # NoSentence =>
           voice'.item.n > spoken[voice'.item.owner]]_vars
  <2> SUFFICES ASSUME IInv, [Next]_vars, voice'.item # voice.item, voice'.item # NoSentence
               PROVE  voice'.item.n > spoken[voice'.item.owner]
    OBVIOUS
  <2>1. TypeOK'
    BY StepType DEF IInv
  <2>2. voice \in [step : VoiceSteps, item : Sentence \cup {NoSentence}]
    BY DEF IInv, TypeOK
  <2>3. CASE VoiceWorker
    <3>1. ASSUME NEW step, VoiceGoto(step) PROVE voice'.item = voice.item
      BY <2>2, <3>1 DEF VoiceGoto
    <3>2. PopSentence
      <4>1. EndSentence => voice'.item = NoSentence
        BY DEF EndSentence
      <4> QED
        BY <2>3, <3>1, <4>1 DEF VoiceWorker, VoiceExit, Synthesize, SendSentenceStart,
           TakeFrame, SendAudio, AudioCancelled, AudioComplete, SendSentenceEnd
    <3> QED
      BY <2>1, <3>2, PopSentenceKeeps
  <2>4. CASE ~VoiceWorker
    <3>1. voice' = voice
      <4>1. CASE CommandLoop
        BY <4>1, CommandLoopBystander DEF IInv, Bystander
      <4>2. ASSUME NEW l \in Listeners, Listener(l) PROVE voice' = voice
        BY <4>2, ListenerBystander DEF IInv, Bystander
      <4>3. CASE ChatWorker
        BY <4>3, ChatWorkerStep DEF IInv, LateInv, WorkerStep
      <4>4. CASE GreetWorker
        BY <4>4, GreetWorkerStep DEF IInv, LateInv, WorkerStep
      <4>5. CASE VadSilence \/ Disconnect \/ UNCHANGED vars
        BY <4>5 DEF VadSilence, Disconnect, vars
      <4> QED
        BY <2>4, <4>1, <4>2, <4>3, <4>4, <4>5 DEF Next
    <3> QED
      BY <3>1
  <2> QED
    BY <2>3, <2>4
<1> QED
  BY <1>1, Invariant, PTL DEF Spec, SpeaksInOrder
=============================================================================
