------------------------------ MODULE Dialogue ------------------------------
(***************************************************************************)
(* One chat session (internal/app/server/chat): the goroutines between a   *)
(* recognised utterance and the audio of the reply, and the device's       *)
(* commands that interrupt them.                                           *)
(*                                                                         *)
(*   command loop   CmdMessageLoop: listen, detect and abort messages      *)
(*   listeners      the goroutines OnListenStart spawns, one per message   *)
(*   chat worker    processChatText: utterance -> LLM -> sentences         *)
(*   greet worker   processLLMResponseQueue: canned greetings -> sentences *)
(*   voice worker   processTTSQueue: sentence -> audio                     *)
(*                                                                         *)
(* They share the current session context (client.go, GetSessionCtx and    *)
(* CancelSessionCtx), three util.Queues and the status of the client.  A   *)
(* util.Queue is a sequence here: a Pop is the step that takes the item    *)
(* (ChatQueue shows why that is sound), a Push that meets a full queue     *)
(* waits and gives up after 10 s.                                          *)
(***************************************************************************)
EXTENDS Naturals, Sequences, FiniteSets

CONSTANTS
  Listeners,     \* slots for listener goroutines
  QueueCap,      \* capacity of the three queues
  MaxCtx,        \* bound: session contexts created in a behaviour
  MaxCommands,   \* bound: messages of the device in a behaviour
  MaxSentences   \* bound: sentences of a worker, the repetitions aside

ASSUME QueueCapAssumption == QueueCap \in Nat \ {0}
ASSUME BoundsAssumption ==
  MaxCtx \in Nat /\ MaxCommands \in Nat /\ MaxSentences \in Nat

VARIABLES
  cur,        \* SessionCtx.Ctx, 0 for nil
  created,    \* number of contexts created
  cancelled,  \* the contexts on which Cancel was called
  open,       \* the connection is open, its context is not cancelled
  status,     \* ClientState.Status
  welcomed,   \* ClientState.IsWelcomeSpeaking
  todo,       \* the calls the current message handler still has to make
  commands,   \* number of messages handled so far
  listener,   \* per listener: its step and its context
  chatQ,      \* chatTextQueue: the context of each utterance
  greetQ,     \* llmResponseQueue: the context of each greeting
  voiceQ,     \* ttsQueue
  worker,     \* the chat and the greet worker: handleLLMResponse
  voice,      \* the voice worker: its step and its sentence
  spoken,     \* per worker: the number of its last sentence with endChan sent
  shown,      \* history: the last tts start or stop the device received
  lateFrames, \* history: frames sent per context after its cancellation
  lateSays    \* history: sentences queued after the cancellation, per reply

Contexts == 1 .. MaxCtx
Workers == {"chat", "greet"}

ctxVars == <<cur, created, cancelled>>
devVars == <<todo, commands, welcomed>>
ghosts == <<shown, lateFrames, lateSays>>
vars == <<ctxVars, open, status, devVars, listener, chatQ, greetQ,
          voiceQ, worker, voice, spoken, ghosts>>

Statuses == {"init", "listening", "listenStop", "llmStart", "ttsStart"}
Calls == {"cancel", "clearGreetings", "clearTexts", "stop", "text", "greet",
          "status", "listen", "silence"}
ListenerSteps == {"off", "wait", "silence", "stt", "ctx", "push", "send", "lost"}
WorkerSteps == {"pop", "check", "ask", "start", "begin", "take", "push", "wait",
                "finish", "tools", "repeat", "stop", "exit"}
VoiceSteps == {"pop", "synth", "open", "audio", "frame", "close", "end", "exit"}

\* A sentence in the voice queue: whose it is, which of its owner's sentences,
\* and the context it is spoken under.
Sentence == [owner : Workers, n : Nat \ {0}, ctx : Contexts]
NoSentence == [owner |-> "none", n |-> 0, ctx |-> 0]

ListenerState == [step : ListenerSteps, ctx : 0 .. MaxCtx, to : 0 .. MaxCtx]
WorkerState ==
  [step : WorkerSteps, ctx : 0 .. MaxCtx, said : Nat,
   last : BOOLEAN, text : BOOLEAN, tools : BOOLEAN, nested : BOOLEAN]

TypeOK ==
  /\ cur \in 0 .. MaxCtx /\ created \in 0 .. MaxCtx
  /\ cancelled \subseteq Contexts
  /\ open \in BOOLEAN
  /\ status \in Statuses
  /\ welcomed \in BOOLEAN
  /\ todo \in Seq(Calls)
  /\ commands \in 0 .. MaxCommands
  /\ listener \in [Listeners -> ListenerState]
  /\ chatQ \in Seq(Contexts)
  /\ greetQ \in Seq(Contexts)
  /\ voiceQ \in Seq(Sentence)
  /\ worker \in [Workers -> WorkerState]
  /\ voice \in [step : VoiceSteps, item : Sentence \cup {NoSentence}]
  /\ spoken \in [Workers -> Nat]
  /\ shown \in {"none", "start", "stop"}
  /\ lateFrames \in [Contexts -> Nat]
  /\ lateSays \in [Workers -> Nat]

IdleWorker ==
  [step |-> "pop", ctx |-> 0, said |-> 0, last |-> FALSE, text |-> FALSE,
   tools |-> FALSE, nested |-> FALSE]

Off == [step |-> "off", ctx |-> 0, to |-> 0]

Init ==
  /\ cur = 0 /\ created = 0 /\ cancelled = {}
  /\ open = TRUE
  /\ status = "init"
  /\ welcomed = FALSE
  /\ todo = <<>>
  /\ commands = 0
  /\ listener = [l \in Listeners |-> Off]
  /\ chatQ = <<>> /\ greetQ = <<>> /\ voiceQ = <<>>
  /\ worker = [w \in Workers |-> IdleWorker]
  /\ voice = [step |-> "pop", item |-> NoSentence]
  /\ spoken = [w \in Workers |-> 0]
  /\ shown = "none"
  /\ lateFrames = [c \in Contexts |-> 0]
  /\ lateSays = [w \in Workers |-> 0]

----------------------------------------------------------------------------
(* The session context                                                     *)

\* <-ctx.Done(): session contexts are children of the connection's context.
Done(c) == c \in cancelled \/ ~open

\* GetSessionCtx: c is the current context, a new one if there is none.
GetSessionCtx(c) ==
  /\ IF cur = 0 THEN created < MaxCtx /\ c = created + 1 ELSE c = cur
  /\ cur' = c
  /\ created' = IF cur = 0 THEN c ELSE created
  /\ UNCHANGED cancelled

\* The connection goes away: the device closes it, a send or a read fails.
Disconnect ==
  /\ open
  /\ open' = FALSE
  /\ UNCHANGED <<ctxVars, status, devVars, listener, chatQ, greetQ, voiceQ,
                 worker, voice, spoken, ghosts>>

----------------------------------------------------------------------------
(* The command loop.  A handler is the sequence of the calls it makes that *)
(* other goroutines can observe; the loop reads the next message when the  *)
(* handler has made them all.                                              *)

\* StopSpeaking without its optional last call.
StopSpeaking == <<"cancel", "clearGreetings", "clearTexts">>

Receive(calls) ==
  /\ open
  /\ todo = <<>>
  /\ commands < MaxCommands
  /\ commands' = commands + 1
  /\ todo' = calls
  /\ UNCHANGED <<ctxVars, open, status, listener, chatQ, greetQ, voiceQ,
                 worker, voice, spoken, ghosts>>

HandleAbort ==
  /\ Receive(StopSpeaking \o <<"stop">>)
  /\ UNCHANGED welcomed

\* listen detect: without text, or with a wake word when greetings are off;
\* with a wake word; with any other text.
HandleDetect ==
  /\ \E reaction \in {<<>>, <<"greet">>, <<"text">>} : Receive(StopSpeaking \o reaction)
  /\ UNCHANGED welcomed

\* Only in manual mode does listen start interrupt the reply; a message may
\* change the mode.
HandleListenStart ==
  /\ \E l \in Listeners : listener[l].step = "off"
  /\ \E interrupt \in {<<>>, StopSpeaking} : Receive(interrupt \o <<"status", "listen">>)
  /\ UNCHANGED welcomed

HandleListenStop ==
  /\ Receive(<<"silence">>)
  /\ UNCHANGED welcomed

\* The next call of the handler is name.
Call(name) ==
  /\ todo # <<>>
  /\ Head(todo) = name
  /\ todo' = Tail(todo)
  /\ UNCHANGED commands

\* Mutant: the context is cancelled even if there is none.
CancelSessionCtxUnchecked ==
  /\ Call("cancel")
  /\ cancelled' = cancelled \cup {cur}
  /\ cur' = 0
  /\ UNCHANGED <<created, open, status, welcomed, listener, chatQ, greetQ,
                 voiceQ, worker, voice, spoken, ghosts>>

CancelSessionCtx ==
  /\ Call("cancel")
  /\ cancelled' = IF cur = 0 THEN cancelled ELSE cancelled \cup {cur}
  /\ cur' = 0
  /\ UNCHANGED <<created, open, status, welcomed, listener, chatQ, greetQ,
                 voiceQ, worker, voice, spoken, ghosts>>

ClearLLMResponseQueue ==
  /\ Call("clearGreetings")
  /\ greetQ' = <<>>
  /\ UNCHANGED <<ctxVars, open, status, welcomed, listener, chatQ, voiceQ,
                 worker, voice, spoken, ghosts>>

\* Clear closes the channel that a listener in the middle of a Push holds.
ClearChatTextQueue ==
  /\ Call("clearTexts")
  /\ chatQ' = <<>>
  /\ listener' = [l \in Listeners |->
       IF listener[l].step = "send" THEN [listener[l] EXCEPT !.step = "lost"]
       ELSE listener[l]]
  /\ UNCHANGED <<ctxVars, open, status, welcomed, greetQ, voiceQ, worker,
                 voice, spoken, ghosts>>

\* What a tts start or stop leaves on the device; a closed connection refuses
\* the message.
Show(state) == shown' = IF open THEN state ELSE shown

SendAbortStop ==
  /\ Call("stop")
  /\ Show("stop")
  /\ UNCHANGED <<ctxVars, open, status, welcomed, listener, chatQ, greetQ,
                 voiceQ, worker, voice, spoken, lateFrames, lateSays>>

\* Mutant: the item goes to the front.
EnqueueFirst(q, item) == IF Len(q) < QueueCap THEN <<item>> \o q ELSE q

\* Push joins the queue, or finds it full for 10 s and drops the item.
Enqueue(q, item) == IF Len(q) < QueueCap THEN Append(q, item) ELSE q

\* AddTextToTTSQueue, at most once per connection.
Greet ==
  /\ Call("greet")
  /\ \/ /\ welcomed
        /\ UNCHANGED <<ctxVars, greetQ, welcomed>>
     \/ /\ ~welcomed
        /\ \E c \in Contexts : GetSessionCtx(c) /\ greetQ' = Enqueue(greetQ, c)
        /\ welcomed' = TRUE
  /\ UNCHANGED <<open, status, listener, chatQ, voiceQ, worker, voice,
                 spoken, ghosts>>

\* AddAsrResultToQueue for a detect message with text.
DetectText ==
  /\ Call("text")
  /\ \E c \in Contexts : GetSessionCtx(c) /\ chatQ' = Enqueue(chatQ, c)
  /\ UNCHANGED <<open, status, welcomed, listener, greetQ, voiceQ, worker, voice,
                 spoken, ghosts>>

SetListening ==
  /\ Call("status")
  /\ status' = "listening"
  /\ UNCHANGED <<ctxVars, open, welcomed, listener, chatQ, greetQ, voiceQ,
                 worker, voice, spoken, ghosts>>

\* OnListenStart: Destroy, a session context, a new recognition and the
\* listener that reads it; when the recognition cannot be started the
\* connection is closed instead.
OnListenStart ==
  /\ Call("listen")
  /\ \/ /\ ~open
        /\ UNCHANGED <<ctxVars, open, status, listener>>
     \/ /\ open
        /\ status' = "init"
        /\ \E c \in Contexts :
             /\ GetSessionCtx(c)
             /\ \/ \E l \in Listeners :
                     /\ listener[l].step = "off"
                     /\ listener' = [listener EXCEPT ![l] = [step |-> "wait", ctx |-> c, to |-> 0]]
                     /\ UNCHANGED open
                \/ open' = FALSE /\ UNCHANGED listener
  /\ UNCHANGED <<welcomed, chatQ, greetQ, voiceQ, worker, voice, spoken, ghosts>>

\* OnManualStop is OnVoiceSilence.
OnManualStop ==
  /\ Call("silence")
  /\ status' = "listenStop"
  /\ UNCHANGED <<ctxVars, open, welcomed, listener, chatQ, greetQ, voiceQ,
                 worker, voice, spoken, ghosts>>

\* ProcessVadAudio calls OnVoiceSilence when the speaker falls silent; the
\* status it leaves matters while somebody waits for the recognition.
VadSilence ==
  /\ \E l \in Listeners : listener[l].step = "wait"
  /\ status' = "listenStop"
  /\ UNCHANGED <<ctxVars, open, devVars, listener, chatQ, greetQ, voiceQ, worker,
                 voice, spoken, ghosts>>

CommandLoop ==
  \/ HandleAbort \/ HandleDetect \/ HandleListenStart \/ HandleListenStop
  \/ CancelSessionCtx \/ ClearLLMResponseQueue \/ ClearChatTextQueue
  \/ SendAbortStop \/ Greet \/ DetectText \/ SetListening \/ OnListenStart
  \/ OnManualStop

----------------------------------------------------------------------------
(* The listeners                                                           *)

Listen(l, step) == listener' = [listener EXCEPT ![l].step = step]
Leave(l) == listener' = [listener EXCEPT ![l] = Off]

\* RetireAsrResult returns a text; select may prefer it to a cancellation.
HearText(l) ==
  /\ listener[l].step = "wait"
  /\ Listen(l, "silence")
  /\ UNCHANGED <<ctxVars, open, status, devVars, chatQ, greetQ, voiceQ, worker,
                 voice, spoken, ghosts>>

\* The context ends: RetireAsrResult fails, or the loop sees it first.
HearCancel(l) ==
  /\ listener[l].step = "wait"
  /\ Done(listener[l].ctx)
  /\ Leave(l)
  /\ UNCHANGED <<ctxVars, open, status, devVars, chatQ, greetQ, voiceQ, worker,
                 voice, spoken, ghosts>>

\* The recognition ends without text.  In the two listening states it is
\* restarted; the listener ends when that fails, and after 60 s it closes the
\* connection.  In any other state the listener just ends.
HearNothing(l) ==
  /\ listener[l].step = "wait"
  /\ ~Done(listener[l].ctx)
  /\ \/ /\ status \in {"listening", "listenStop"}
        /\ \/ UNCHANGED <<open, listener>>
           \/ Leave(l) /\ open' \in BOOLEAN
     \/ /\ status \notin {"listening", "listenStop"}
        /\ Leave(l)
        /\ UNCHANGED open
  /\ UNCHANGED <<ctxVars, status, devVars, chatQ, greetQ, voiceQ, worker, voice,
                 spoken, ghosts>>

\* OnVoiceSilence
EndVoice(l) ==
  /\ listener[l].step = "silence"
  /\ Listen(l, "stt")
  /\ status' = "listenStop"
  /\ UNCHANGED <<ctxVars, open, devVars, chatQ, greetQ, voiceQ, worker, voice,
                 spoken, ghosts>>

\* SendAsrResult
SendStt(l) ==
  /\ listener[l].step = "stt"
  /\ IF open THEN Listen(l, "ctx") ELSE Leave(l)
  /\ UNCHANGED <<ctxVars, open, status, devVars, chatQ, greetQ, voiceQ, worker,
                 voice, spoken, ghosts>>

\* AddAsrResultToQueue gives the text the context that is current now, which
\* need not be the one it was recognised under.
TakeCtx(l) ==
  /\ listener[l].step = "ctx"
  /\ \E c \in Contexts :
       /\ GetSessionCtx(c)
       /\ listener' = [listener EXCEPT ![l].step = "push", ![l].to = c]
  /\ UNCHANGED <<open, status, devVars, chatQ, greetQ, voiceQ, worker, voice,
                 spoken, ghosts>>

\* Push takes the channel of the queue ...
TakeChannel(l) ==
  /\ listener[l].step = "push"
  /\ Listen(l, "send")
  /\ UNCHANGED <<ctxVars, open, status, devVars, chatQ, greetQ, voiceQ, worker,
                 voice, spoken, ghosts>>

\* ... and sends to it, or gives up after 10 s.
SendText(l) ==
  /\ listener[l].step = "send"
  /\ Leave(l)
  /\ chatQ' = Enqueue(chatQ, listener[l].to)
  /\ UNCHANGED <<ctxVars, open, status, devVars, greetQ, voiceQ, worker, voice,
                 spoken, ghosts>>

\* The send panics on the closed channel; the deferred recover ends the
\* listener and the text is gone.
RecoverLost(l) ==
  /\ listener[l].step = "lost"
  /\ Leave(l)
  /\ UNCHANGED <<ctxVars, open, status, devVars, chatQ, greetQ, voiceQ, worker,
                 voice, spoken, ghosts>>

Listener(l) ==
  \/ HearText(l) \/ HearCancel(l) \/ HearNothing(l) \/ EndVoice(l) \/ SendStt(l)
  \/ TakeCtx(l) \/ TakeChannel(l) \/ SendText(l) \/ RecoverLost(l)

----------------------------------------------------------------------------
(* The chat worker and the greet worker                                    *)

Goto(w, step) == worker' = [worker EXCEPT ![w].step = step]

\* handleLLMResponse looks at the context before every response it reads.
GotoUnlessDone(w, step) ==
  Goto(w, IF Done(worker[w].ctx) THEN "stop" ELSE step)

\* w starts on an item or is through with it; only the number of its sentences
\* goes on from reply to reply.
Reset(w, step, c) ==
  worker' = [worker EXCEPT ![w] =
    [IdleWorker EXCEPT !.step = step, !.ctx = c, !.said = worker[w].said]]

PopText ==
  /\ worker["chat"].step = "pop"
  /\ chatQ # <<>>
  /\ chatQ' = Tail(chatQ)
  /\ Reset("chat", "check", Head(chatQ))
  /\ UNCHANGED <<ctxVars, open, status, devVars, listener, greetQ, voiceQ, voice,
                 spoken, ghosts>>

PopGreeting ==
  /\ worker["greet"].step = "pop"
  /\ greetQ # <<>>
  /\ greetQ' = Tail(greetQ)
  /\ Reset("greet", "start", Head(greetQ))
  /\ UNCHANGED <<ctxVars, open, status, devVars, listener, chatQ, voiceQ, voice,
                 spoken, ghosts>>

\* Mutant: every error of Pop makes the worker pop again.
WorkerContinues(w) ==
  /\ worker[w].step = "pop"
  /\ ~open
  /\ Goto(w, "pop")
  /\ UNCHANGED <<ctxVars, open, status, devVars, listener, chatQ, greetQ, voiceQ,
                 voice, spoken, ghosts>>

\* Pop sees the connection's context end.
WorkerExit(w) ==
  /\ worker[w].step = "pop"
  /\ ~open
  /\ Goto(w, "exit")
  /\ UNCHANGED <<ctxVars, open, status, devVars, listener, chatQ, greetQ, voiceQ,
                 voice, spoken, ghosts>>

\* actionDoChat drops a text of a cancelled context; a phrase such as "exit"
\* closes the session; anything else goes to the LLM.
CheckText ==
  /\ worker["chat"].step = "check"
  /\ IF Done(worker["chat"].ctx)
     THEN Reset("chat", "pop", 0) /\ UNCHANGED open
     ELSE \/ Goto("chat", "ask") /\ UNCHANGED open
          \/ Reset("chat", "pop", 0) /\ open' = FALSE
  /\ UNCHANGED <<ctxVars, status, devVars, listener, chatQ, greetQ, voiceQ, voice,
                 spoken, ghosts>>

\* DoLLmRequest; HandleLLMWithContextAndTools only starts the stream and
\* reports no error.
AskLLM ==
  /\ worker["chat"].step = "ask"
  /\ status' = "llmStart"
  /\ Goto("chat", IF worker["chat"].nested THEN "begin" ELSE "start")
  /\ UNCHANGED <<ctxVars, open, devVars, listener, chatQ, greetQ, voiceQ, voice,
                 spoken, ghosts>>

SendTtsStart(w) ==
  /\ worker[w].step = "start"
  /\ Show("start")
  /\ Goto(w, "begin")
  /\ UNCHANGED <<ctxVars, open, status, devVars, listener, chatQ, greetQ, voiceQ,
                 voice, spoken, lateFrames, lateSays>>

\* Mutant: the early return for a cancelled context leaves out SendTtsStop.
BeginResponseReturns(w) ==
  /\ worker[w].step = "begin"
  /\ IF Done(worker[w].ctx) THEN Reset(w, "pop", 0) ELSE Goto(w, "take")
  /\ UNCHANGED <<ctxVars, open, status, devVars, listener, chatQ, greetQ, voiceQ,
                 voice, spoken, ghosts>>

BeginResponse(w) ==
  /\ worker[w].step = "begin"
  /\ GotoUnlessDone(w, "take")
  /\ UNCHANGED <<ctxVars, open, status, devVars, listener, chatQ, greetQ, voiceQ,
                 voice, spoken, ghosts>>

\* A response with text: a sentence or the last one.
TakeSentence(w) ==
  /\ worker[w].step = "take"
  /\ worker[w].said < MaxSentences
  /\ \E last \in (IF w = "greet" THEN {TRUE} ELSE BOOLEAN) :
       worker' = [worker EXCEPT ![w].step = "push", ![w].last = last, ![w].text = last]
  /\ UNCHANGED <<ctxVars, open, status, devVars, listener, chatQ, greetQ, voiceQ,
                 voice, spoken, ghosts>>

\* A response with tool calls; the nested request offers no tools.
TakeTools ==
  /\ worker["chat"].step = "take"
  /\ ~worker["chat"].nested /\ ~worker["chat"].tools
  /\ worker' = [worker EXCEPT !["chat"].tools = TRUE,
       !["chat"].step = IF Done(worker["chat"].ctx) THEN "stop" ELSE "take"]
  /\ UNCHANGED <<ctxVars, open, status, devVars, listener, chatQ, greetQ, voiceQ,
                 voice, spoken, ghosts>>

\* The last response carries no text.
TakeEnd ==
  /\ worker["chat"].step = "take"
  /\ Goto("chat", "finish")
  /\ UNCHANGED <<ctxVars, open, status, devVars, listener, chatQ, greetQ, voiceQ,
                 voice, spoken, ghosts>>

\* The context ends while the worker reads; the stream closes with it.
TakeCancel(w) ==
  /\ worker[w].step = "take"
  /\ Done(worker[w].ctx)
  /\ Goto(w, "stop")
  /\ UNCHANGED <<ctxVars, open, status, devVars, listener, chatQ, greetQ, voiceQ,
                 voice, spoken, ghosts>>

\* handleTextResponse: the push to the voice queue, then w goes to next.
Say(w, next) ==
  LET n == worker[w].said + 1
      c == worker[w].ctx
  IN  /\ voiceQ' = Enqueue(voiceQ, [owner |-> w, n |-> n, ctx |-> c])
      /\ worker' = [worker EXCEPT ![w].step = next, ![w].said = n]
      /\ lateSays' = IF Done(c) THEN [lateSays EXCEPT ![w] = @ + 1] ELSE lateSays

PushSentence(w) ==
  /\ worker[w].step = "push"
  /\ Say(w, "wait")
  /\ UNCHANGED <<ctxVars, open, status, devVars, listener, chatQ, greetQ, voice,
                 spoken, shown, lateFrames>>

\* Mutant: after a sentence the next response is read without a look at the
\* context.
SentenceSpokenUnchecked(w) ==
  /\ worker[w].step = "wait"
  /\ spoken[w] >= worker[w].said
  /\ Goto(w, IF worker[w].last THEN "finish" ELSE "take")
  /\ UNCHANGED <<ctxVars, open, status, devVars, listener, chatQ, greetQ, voiceQ,
                 voice, spoken, ghosts>>

\* endChan: the voice worker has finished the sentence.
SentenceSpoken(w) ==
  /\ worker[w].step = "wait"
  /\ spoken[w] >= worker[w].said
  /\ IF worker[w].last THEN Goto(w, "finish") ELSE GotoUnlessDone(w, "take")
  /\ UNCHANGED <<ctxVars, open, status, devVars, listener, chatQ, greetQ, voiceQ,
                 voice, spoken, ghosts>>

\* The other two ways out of the wait are errors and end the response: the
\* context ends, or 30 s have passed.
WaitCancelled(w) ==
  /\ worker[w].step = "wait"
  /\ Done(worker[w].ctx)
  /\ Goto(w, "stop")
  /\ UNCHANGED <<ctxVars, open, status, devVars, listener, chatQ, greetQ, voiceQ,
                 voice, spoken, ghosts>>

\* Mutant: the wait has no timer.
WaitNoTimeout(w) ==
  /\ worker[w].step = "wait"
  /\ Done(worker[w].ctx)
  /\ Goto(w, "stop")
  /\ UNCHANGED <<ctxVars, open, status, devVars, listener, chatQ, greetQ, voiceQ,
                 voice, spoken, ghosts>>

WaitTimeout(w) ==
  /\ worker[w].step = "wait"
  /\ Goto(w, "stop")
  /\ UNCHANGED <<ctxVars, open, status, devVars, listener, chatQ, greetQ, voiceQ,
                 voice, spoken, ghosts>>

\* IsEnd: the memory is written (not part of this module), then the tools.
FinishResponse(w) ==
  /\ worker[w].step = "finish"
  /\ Goto(w, IF worker[w].tools THEN "tools" ELSE "stop")
  /\ UNCHANGED <<ctxVars, open, status, devVars, listener, chatQ, greetQ, voiceQ,
                 voice, spoken, ghosts>>

\* handleToolCallResponse: every tool failed; some ran but none has a result
\* for the LLM, the exit tool among them; some result goes back to the LLM.
CallTools ==
  /\ worker["chat"].step = "tools"
  /\ \/ /\ Goto("chat", IF worker["chat"].text THEN "repeat" ELSE "stop")
        /\ UNCHANGED open
     \/ /\ Goto("chat", "stop")
        /\ open' \in {open, FALSE}
     \/ /\ worker' = [worker EXCEPT !["chat"].step = "ask", !["chat"].nested = TRUE,
             !["chat"].tools = FALSE, !["chat"].last = FALSE, !["chat"].text = FALSE]
        /\ UNCHANGED open
  /\ UNCHANGED <<ctxVars, status, devVars, listener, chatQ, greetQ, voiceQ, voice,
                 spoken, ghosts>>

\* After failed tools the last response is queued again, without waiting.
RepeatSentence ==
  /\ worker["chat"].step = "repeat"
  /\ Say("chat", "stop")
  /\ UNCHANGED <<ctxVars, open, status, devVars, listener, chatQ, greetQ, voice,
                 spoken, shown, lateFrames>>

\* The deferred SendTtsStop, or onEndFunc.
SendTtsStop(w) ==
  /\ worker[w].step = "stop"
  /\ Show("stop")
  /\ Reset(w, "pop", 0)
  /\ lateSays' = [lateSays EXCEPT ![w] = 0]
  /\ UNCHANGED <<ctxVars, open, status, devVars, listener, chatQ, greetQ, voiceQ,
                 voice, spoken, lateFrames>>

Worker(w) ==
  \/ WorkerExit(w) \/ SendTtsStart(w) \/ BeginResponse(w) \/ TakeSentence(w)
  \/ TakeCancel(w) \/ PushSentence(w) \/ SentenceSpoken(w) \/ WaitCancelled(w)
  \/ WaitTimeout(w) \/ FinishResponse(w) \/ SendTtsStop(w)

ChatWorker ==
  \/ PopText \/ CheckText \/ AskLLM \/ TakeTools \/ TakeEnd \/ CallTools
  \/ RepeatSentence \/ Worker("chat")

GreetWorker == PopGreeting \/ Worker("greet")

----------------------------------------------------------------------------
(* The voice worker                                                        *)

VoiceGoto(step) == voice' = [voice EXCEPT !.step = step]

PopSentence ==
  /\ voice.step = "pop"
  /\ voiceQ # <<>>
  /\ voice' = [step |-> "synth", item |-> Head(voiceQ)]
  /\ voiceQ' = Tail(voiceQ)
  /\ UNCHANGED <<ctxVars, open, status, devVars, listener, chatQ, greetQ, worker,
                 spoken, ghosts>>

VoiceExit ==
  /\ voice.step = "pop"
  /\ ~open
  /\ VoiceGoto("exit")
  /\ UNCHANGED <<ctxVars, open, status, devVars, listener, chatQ, greetQ, voiceQ,
                 worker, spoken, ghosts>>

\* Mutant: a synthesis that fails because of its context is tried again.
SynthesizeRetries ==
  /\ voice.step = "synth"
  /\ VoiceGoto(IF Done(voice.item.ctx) THEN "synth" ELSE "open")
  /\ UNCHANGED <<ctxVars, open, status, devVars, listener, chatQ, greetQ, voiceQ,
                 worker, spoken, ghosts>>

\* TextToSpeechStream fails or yields a channel of frames; whether it notices
\* a cancelled context is the provider's affair.
Synthesize ==
  /\ voice.step = "synth"
  /\ \E step \in {"open", "end"} : VoiceGoto(step)
  /\ UNCHANGED <<ctxVars, open, status, devVars, listener, chatQ, greetQ, voiceQ,
                 worker, spoken, ghosts>>

\* SendSentenceStart looks at the connection, not at the context.
SendSentenceStart ==
  /\ voice.step = "open"
  /\ IF open THEN VoiceGoto("audio") /\ status' = "ttsStart"
             ELSE VoiceGoto("end") /\ UNCHANGED status
  /\ UNCHANGED <<ctxVars, open, devVars, listener, chatQ, greetQ, voiceQ, worker,
                 spoken, ghosts>>

\* Mutant: the context is only looked at while no frame is there.
TakeFrameUnchecked ==
  /\ voice.step = "audio"
  /\ VoiceGoto("frame")
  /\ UNCHANGED <<ctxVars, open, status, devVars, listener, chatQ, greetQ, voiceQ,
                 worker, spoken, ghosts>>

\* SendTTSAudio: the next frame passes the check of the context, ...
TakeFrame ==
  /\ voice.step = "audio"
  /\ ~Done(voice.item.ctx)
  /\ VoiceGoto("frame")
  /\ UNCHANGED <<ctxVars, open, status, devVars, listener, chatQ, greetQ, voiceQ,
                 worker, spoken, ghosts>>

\* ... and is sent.
SendAudio ==
  /\ voice.step = "frame"
  /\ VoiceGoto(IF open THEN "audio" ELSE "end")
  /\ lateFrames' = IF open /\ Done(voice.item.ctx)
                   THEN [lateFrames EXCEPT ![voice.item.ctx] = @ + 1]
                   ELSE lateFrames
  /\ UNCHANGED <<ctxVars, open, status, devVars, listener, chatQ, greetQ, voiceQ,
                 worker, spoken, shown, lateSays>>

\* The context ends, which is no error: the sentence is closed as usual.
AudioCancelled ==
  /\ voice.step = "audio"
  /\ Done(voice.item.ctx)
  /\ VoiceGoto("close")
  /\ UNCHANGED <<ctxVars, open, status, devVars, listener, chatQ, greetQ, voiceQ,
                 worker, spoken, ghosts>>

\* The provider closes the channel of frames.
AudioComplete ==
  /\ voice.step = "audio"
  /\ VoiceGoto("close")
  /\ UNCHANGED <<ctxVars, open, status, devVars, listener, chatQ, greetQ, voiceQ,
                 worker, spoken, ghosts>>

SendSentenceEnd ==
  /\ voice.step = "close"
  /\ VoiceGoto("end")
  /\ status' = IF open THEN "ttsStart" ELSE status
  /\ UNCHANGED <<ctxVars, open, devVars, listener, chatQ, greetQ, voiceQ, worker,
                 spoken, ghosts>>

\* onEndFunc, with or without an error.
EndSentence ==
  /\ voice.step = "end"
  /\ spoken' = [spoken EXCEPT ![voice.item.owner] = voice.item.n]
  /\ voice' = [step |-> "pop", item |-> NoSentence]
  /\ UNCHANGED <<ctxVars, open, status, devVars, listener, chatQ, greetQ, voiceQ,
                 worker, ghosts>>

VoiceWorker ==
  \/ PopSentence \/ VoiceExit \/ Synthesize \/ SendSentenceStart \/ TakeFrame
  \/ SendAudio \/ AudioCancelled \/ AudioComplete \/ SendSentenceEnd
  \/ EndSentence

----------------------------------------------------------------------------

Next ==
  \/ CommandLoop
  \/ \E l \in Listeners : Listener(l)
  \/ ChatWorker
  \/ GreetWorker
  \/ VoiceWorker
  \/ VadSilence
  \/ Disconnect

Spec == Init /\ [][Next]_vars

\* The Go scheduler runs every goroutine that can go on.  A call into an LLM
\* returns, and the stream it opens ends.
Fairness ==
  /\ WF_vars(CommandLoop)
  /\ \A l \in Listeners : WF_vars(Listener(l))
  /\ WF_vars(ChatWorker)
  /\ WF_vars(GreetWorker)

FairSpec == Spec /\ Fairness

\* The speech provider may hang, so this is no part of FairSpec: a property that
\* needs a provider that comes back says so.
ProviderReturns == WF_vars(VoiceWorker) /\ SF_vars(AudioComplete)

----------------------------------------------------------------------------
(* Properties                                                              *)

\* After its context has been cancelled a sentence puts at most one more frame
\* on the wire: the one that had passed the check when the abort came in.
AtMostOneLateFrame == \A c \in Contexts : lateFrames[c] <= 1

\* A cancelled reply queues at most one more sentence for the voice worker: the
\* wait after it may end either way, but the next response is not read.  Only a
\* last sentence may be queued once more, when the reply's tools failed.
FewLateSentences ==
  \A w \in Workers : lateSays[w] <= (IF worker[w].tools THEN 2 ELSE 1)

\* No tts start of w is waiting for its tts stop.
Silent(w) ==
  \/ worker[w].step \in {"pop", "check", "exit"}
  \/ worker[w].step = "ask" /\ ~worker[w].nested

\* When no reply is in progress the device has not been left in the speaking
\* state, whatever was aborted, timed out or dropped on the way.
DeviceNotLeftSpeaking ==
  (\A w \in Workers : Silent(w)) => (open => shown # "start")

\* The voice worker speaks the sentences of a worker in the order in which they
\* were queued and none of them twice, also when the worker has given up on an
\* earlier one and gone on to another reply.
SpeaksInOrder ==
  [][voice'.item # voice.item /\ voice'.item # NoSentence =>
       voice'.item.n > spoken[voice'.item.owner]]_vars

\* A worker leaves every reply, even if the speech provider hangs: a hanging
\* sentence costs 30 s, a full voice queue 10 s.
ReplyEnds ==
  \A w \in Workers :
    worker[w].step # "pop" ~> worker[w].step \in {"pop", "exit"}

\* When the connection goes, every goroutine of the session ends and every
\* handler runs to its end.
SessionEnds ==
  ProviderReturns =>
    (~open ~> /\ todo = <<>>
              /\ \A l \in Listeners : listener[l].step = "off"
              /\ \A w \in Workers : worker[w].step = "exit"
              /\ voice.step = "exit")

\* The speech of a cancelled context is worked off: it stays neither in the
\* voice queue nor with the voice worker.
CancelledSpeechDrains ==
  ProviderReturns =>
    \A c \in Contexts :
      c \in cancelled ~> \/ ~open
                        \/ /\ \A i \in 1 .. Len(voiceQ) : voiceQ[i].ctx # c
                           /\ voice.item.ctx # c
============================================================================
