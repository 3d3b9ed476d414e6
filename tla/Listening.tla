------------------------------ MODULE Listening ------------------------------
(***************************************************************************)
(* From the device's audio to the recognised text of one session: the      *)
(* command loop that starts and stops a recognition (session.go), the      *)
(* goroutine that looks for voice and feeds the recogniser (chat/asr.go),  *)
(* the listeners that wait for its result (session.go, OnListenStart), and *)
(* the recogniser (funasr.go).                                             *)
(*                                                                         *)
(* They share plain fields of ClientState, without a lock: the audio and   *)
(* the result channel of the recognition, the voice flags, the status.     *)
(* Only Asr.Stop has a lock, against other Stops.                          *)
(*                                                                         *)
(* todo lists the calls a goroutine still has to make; every call is a     *)
(* step.  Contexts, channels and recognitions are numbered as they are     *)
(* made, 0 is nil.  Of a frame of audio the model keeps when it was taken. *)
(* The context of a recognition is left out: a recognition may end at any  *)
(* time, cancelled or not.                                                 *)
(***************************************************************************)
EXTENDS Naturals, Sequences

CONSTANTS
  Vads,         \* slots for the goroutines that ProcessVadAudio starts
  Listeners,    \* slots for the goroutines that OnListenStart starts
  ChanCap,      \* capacity of the audio channel of a recognition
  MaxInputs     \* bound: listen and abort messages, and restarts by listeners

ASSUME BoundsAssumption ==
  /\ ChanCap \in Nat \ {0} /\ MaxInputs \in Nat
ASSUME SlotsAssumption ==
  {"cmd", "none"} \cap (Vads \cup Listeners) = {} /\ Vads \cap Listeners = {}

Goroutines == {"cmd"} \cup Vads \cup Listeners
Sessions == 1 .. MaxInputs + 1
Made == 1 .. MaxInputs + 1

VARIABLES
  conn,      \* the connection; "crashed" when a goroutine has panicked
  cur,       \* SessionCtx.Ctx
  sessions,  \* number of session contexts made
  cancelled, \* the session contexts on which Cancel was called
  inputs,    \* number of listen and abort messages, and of restarts by listeners
  mode,      \* ListenMode
  listening, \* Status is "listening" or "listenStop"
  haveVoice, \* VoiceStatus.HaveVoice
  voiceStop, \* VoiceStatus.VoiceStop
  vadOn,     \* VadProvider # nil
  lock,      \* the goroutine that holds the lock of Asr, or "none"
  field,     \* AsrAudioChannel and AsrResultChannel, which is its recognition's
  chan,      \* the audio channels made: how many, their contents, those closed
  rec,       \* the recognitions: how many, each one's channel, start and end
  todo,      \* per goroutine: the calls it still has to make
  own,       \* per goroutine: session context, recognition and time of its restart
  vad,       \* per VAD goroutine: its step and its frame
  listener,  \* per listener: its step and the recognition it waits on
  listens,   \* history: number of restarts begun, the time of the model
  closes,    \* history, per channel: how often it was closed
  stale      \* history, per recognition: frames older than its start

sessionVars == <<cur, sessions, cancelled>>
inputVars == <<inputs, mode>>
outerVars == <<conn, sessionVars, inputVars>>
flagVars == <<listening, haveVoice, voiceStop, vadOn>>
asrVars == <<lock, field, chan, rec>>
goVars == <<todo, own, vad, listener>>
ghosts == <<listens, closes, stale>>
vars == <<outerVars, flagVars, asrVars, goVars, ghosts>>

CallNames == {"cancelSession", "listening", "closeChan", "clearChan", "destroy",
              "voiceStop", "vadReset", "cancelAsr", "newChan", "recognize", "publish"}
VadSteps == {"off", "take", "detect", "judge", "decide", "check", "load", "send"}
ListenerSteps == {"off", "loop", "select", "deliver", "empty"}

Frame == [by : Vads, at : Nat]
Recognition == [chan : Nat, since : Nat, ended : BOOLEAN]
Channels == [made : Nat, buf : [Made -> Seq(Frame)], closed : SUBSET (Nat \ {0})]

TypeOK ==
  /\ conn \in {"open", "closed", "crashed"}
  /\ cur \in Nat /\ sessions \in Nat /\ cancelled \subseteq Nat
  /\ inputs \in Nat /\ mode \in {"auto", "manual"}
  /\ listening \in BOOLEAN /\ haveVoice \in BOOLEAN /\ voiceStop \in BOOLEAN
  /\ vadOn \in BOOLEAN
  /\ lock \in Goroutines \cup {"none"}
  /\ field \in [chan : Nat, results : Nat]
  /\ chan \in Channels
  /\ rec \in [made : Nat, of : [Made -> Recognition]]
  /\ todo \in [Goroutines -> Seq(CallNames)]
  /\ own \in [Goroutines -> [ctx : Nat, rec : Nat, since : Nat]]
  /\ vad \in [Vads -> [step : VadSteps, at : Nat, had : BOOLEAN, have : BOOLEAN, chan : Nat]]
  /\ listener \in [Listeners -> [step : ListenerSteps, on : Nat]]
  /\ listens \in Nat /\ closes \in [Made -> Nat] /\ stale \in [Made -> [Vads -> Nat]]

NoRestart == [ctx |-> 0, rec |-> 0, since |-> 0]
Resting == [step |-> "off", at |-> 0, had |-> FALSE, have |-> FALSE, chan |-> 0]

\* GenClientState and InitAsr make a first channel, which nobody reads.
Init ==
  /\ conn = "open"
  /\ cur = 0 /\ sessions = 0 /\ cancelled = {}
  /\ inputs = 0 /\ mode = "auto" /\ listening = FALSE
  /\ haveVoice = FALSE /\ voiceStop = FALSE /\ vadOn = FALSE
  /\ lock = "none"
  /\ field = [chan |-> 1, results |-> 0]
  /\ chan = [made |-> 1, buf |-> [k \in Made |-> <<>>], closed |-> {}]
  /\ rec = [made |-> 0, of |-> [r \in Made |-> [chan |-> 0, since |-> 0, ended |-> FALSE]]]
  /\ todo = [g \in Goroutines |-> <<>>]
  /\ own = [g \in Goroutines |-> NoRestart]
  /\ vad = [v \in Vads |-> Resting]
  /\ listener = [l \in Listeners |-> [step |-> "off", on |-> 0]]
  /\ listens = 0 /\ closes = [k \in Made |-> 0]
  /\ stale = [r \in Made |-> [v \in Vads |-> 0]]

----------------------------------------------------------------------------
(* Contexts and calls                                                      *)

Up == conn # "crashed"
Free(g) == Up /\ todo[g] = <<>>

\* <-ctx.Done(): session contexts are children of the connection's.
Done(s) == s \in cancelled \/ conn # "open"

\* GetSessionCtx returns s.
GetSessionCtx(s) ==
  /\ s = IF cur = 0 THEN sessions + 1 ELSE cur
  /\ cur' = s
  /\ sessions' = IF cur = 0 THEN s ELSE sessions
  /\ UNCHANGED cancelled

Silence == <<"voiceStop", "closeChan", "clearChan", "vadReset">>
Restart == <<"cancelAsr", "newChan", "recognize", "publish">>
ListenStart == <<"listening", "closeChan", "clearChan", "destroy">> \o Restart

Next1(g, name) == Up /\ todo[g] # <<>> /\ Head(todo[g]) = name
Returns(g) == todo' = [todo EXCEPT ![g] = Tail(@)]

\* g's next call is name, and it returns.
Call(g, name) == Next1(g, name) /\ Returns(g)

\* RestartAsrRecognition fails: OnListenStart closes the connection, a
\* listener only returns.
Fails(g) ==
  /\ todo' = [todo EXCEPT ![g] = <<>>]
  /\ conn' = IF g = "cmd" THEN "closed" ELSE conn
  /\ listener' = IF g = "cmd" THEN listener
                 ELSE [listener EXCEPT ![g] = [step |-> "off", on |-> 0]]

\* CancelSessionCtx; the queues that StopSpeaking clears are in Dialogue.
CancelSession(g) ==
  /\ Call(g, "cancelSession")
  /\ cancelled' = IF cur = 0 THEN cancelled ELSE cancelled \cup {cur}
  /\ cur' = 0
  /\ UNCHANGED <<conn, sessions, inputVars, flagVars, asrVars, own, vad, listener, ghosts>>

\* SetStatus, and OnListenStart's look at the connection.
SetListening(g) ==
  /\ Next1(g, "listening")
  /\ todo' = [todo EXCEPT ![g] = IF conn = "open" THEN Tail(@) ELSE <<>>]
  /\ listening' = TRUE
  /\ UNCHANGED <<outerVars, haveVoice, voiceStop, vadOn, asrVars, own, vad, listener, ghosts>>

CloseField ==
  /\ chan' = [chan EXCEPT !.closed = @ \cup {field.chan}]
  /\ closes' = [closes EXCEPT ![field.chan] = @ + 1]

\* Mutant: Stop without its lock.
CloseChanUnlocked(g) ==
  /\ Call(g, "closeChan")
  /\ IF field.chan = 0 THEN UNCHANGED <<chan, closes>> ELSE CloseField
  /\ UNCHANGED <<outerVars, flagVars, lock, field, rec, own, vad, listener, listens, stale>>

\* Asr.Stop takes the lock; it closes the channel, or finds nil and returns ...
CloseChan(g) ==
  /\ Next1(g, "closeChan")
  /\ lock = "none"
  /\ \/ field.chan # 0 /\ CloseField /\ lock' = g /\ Returns(g)
     \/ /\ field.chan = 0
        /\ todo' = [todo EXCEPT ![g] = Tail(Tail(@))]
        /\ UNCHANGED <<lock, chan, closes>>
  /\ UNCHANGED <<outerVars, flagVars, field, rec, own, vad, listener, listens, stale>>

\* ... and forgets it: whatever the field holds by now.
ClearChan(g) ==
  /\ Call(g, "clearChan")
  /\ lock' = "none"
  /\ field' = [field EXCEPT !.chan = 0]
  /\ UNCHANGED <<outerVars, flagVars, chan, rec, own, vad, listener, ghosts>>

\* The rest of Destroy, and GetSessionCtx in OnListenStart.
Destroy(g) ==
  /\ Call(g, "destroy")
  /\ vadOn' = FALSE /\ haveVoice' = FALSE /\ voiceStop' = FALSE
  /\ listening' = FALSE
  /\ \E s \in Sessions : GetSessionCtx(s) /\ own' = [own EXCEPT ![g].ctx = s]
  /\ UNCHANGED <<conn, inputVars, asrVars, vad, listener, ghosts>>

\* OnVoiceSilence: SetClientVoiceStop before Asr.Stop ...
StopVoice(g) ==
  /\ Call(g, "voiceStop")
  /\ voiceStop' = TRUE
  /\ UNCHANGED <<outerVars, listening, haveVoice, vadOn, asrVars, own, vad, listener, ghosts>>

\* ... Vad.Reset and SetStatus after it.
ResetVad(g) ==
  /\ Call(g, "vadReset")
  /\ vadOn' = FALSE /\ listening' = TRUE
  /\ UNCHANGED <<outerVars, haveVoice, voiceStop, asrVars, own, vad, listener, ghosts>>

\* RestartAsrRecognition cancels the recognition, resets the voice flags and
\* looks at its context.
CancelAsr(g) ==
  /\ Next1(g, "cancelAsr")
  /\ haveVoice' = FALSE /\ voiceStop' = FALSE
  /\ listens' = listens + 1
  /\ own' = [own EXCEPT ![g].since = listens + 1]
  /\ IF Done(own[g].ctx) THEN Fails(g) ELSE Returns(g) /\ UNCHANGED <<conn, listener>>
  /\ UNCHANGED <<sessionVars, inputVars, listening, vadOn, asrVars, vad, closes, stale>>

\* Mutant: the channel is kept when there is one.
NewChanIfNil(g) ==
  /\ Call(g, "newChan")
  /\ IF field.chan # 0 THEN UNCHANGED <<chan, field>>
     ELSE /\ chan' = [chan EXCEPT !.made = @ + 1]
          /\ field' = [field EXCEPT !.chan = chan.made + 1]
  /\ UNCHANGED <<outerVars, flagVars, lock, rec, own, vad, listener, ghosts>>

\* A new context and a new channel.
NewChan(g) ==
  /\ Call(g, "newChan")
  /\ chan' = [chan EXCEPT !.made = @ + 1]
  /\ field' = [field EXCEPT !.chan = chan.made + 1]
  /\ UNCHANGED <<outerVars, flagVars, lock, rec, own, vad, listener, ghosts>>

\* StreamingRecognize, with the fields as they are now; getting or writing to
\* a connection of the recogniser may fail.
Recognize(g) ==
  /\ Next1(g, "recognize")
  /\ \/ /\ Returns(g)
        /\ rec' = [made |-> rec.made + 1,
                   of |-> [rec.of EXCEPT ![rec.made + 1] =
                       [chan |-> field.chan, since |-> own[g].since, ended |-> FALSE]]]
        /\ own' = [own EXCEPT ![g].rec = rec.made + 1]
        /\ UNCHANGED <<conn, listener>>
     \/ Fails(g) /\ UNCHANGED <<rec, own>>
  /\ UNCHANGED <<sessionVars, inputVars, flagVars, lock, field, chan, vad, ghosts>>

\* The result channel is published; OnListenStart starts a listener, a
\* listener goes on.
Publish(g) ==
  /\ Call(g, "publish")
  /\ field' = [field EXCEPT !.results = own[g].rec]
  /\ \/ /\ g = "cmd"
        /\ \E l \in Listeners :
             /\ listener[l].step = "off"
             /\ listener' = [listener EXCEPT ![l].step = "loop"]
             /\ own' = [own EXCEPT ![l].ctx = own[g].ctx, ![g] = NoRestart]
     \/ /\ g # "cmd"
        /\ listener' = [listener EXCEPT ![g].step = "loop"]
        /\ own' = [own EXCEPT ![g].rec = 0, ![g].since = 0]
  /\ UNCHANGED <<outerVars, flagVars, lock, chan, rec, vad, ghosts>>

Calls(g) ==
  \/ CancelSession(g) \/ SetListening(g) \/ CloseChan(g) \/ ClearChan(g) \/ Destroy(g)
  \/ StopVoice(g) \/ ResetVad(g) \/ CancelAsr(g) \/ NewChan(g) \/ Recognize(g) \/ Publish(g)

----------------------------------------------------------------------------
(* The command loop                                                        *)

\* The next message, for which the loop has calls to make.
Receive(calls) ==
  /\ Free("cmd") /\ conn = "open"
  /\ inputs < MaxInputs
  /\ inputs' = inputs + 1
  /\ todo' = [todo EXCEPT !["cmd"] = calls]
  /\ UNCHANGED <<conn, sessionVars, flagVars, asrVars, own, listener, ghosts>>

GoTo(v, step) == vad' = [vad EXCEPT ![v].step = step]
OnlyVad == UNCHANGED <<outerVars, flagVars, asrVars, todo, own, listener, ghosts>>

\* Every hello starts a goroutine for the audio; the slots bound them.
HandleHelloMessage(v) ==
  /\ Free("cmd") /\ conn = "open"
  /\ vad[v].step = "off"
  /\ GoTo(v, "take")
  /\ OnlyVad

HandleListenStart(m) ==
  /\ mode' = m
  /\ Receive(IF m = "manual" THEN <<"cancelSession">> \o ListenStart ELSE ListenStart)
  /\ UNCHANGED vad

HandleListenStop == Receive(Silence) /\ UNCHANGED <<mode, vad>>

\* Listen "detect", and abort.
StopSpeaking == Receive(<<"cancelSession">>) /\ UNCHANGED <<mode, vad>>

\* The answer begins: the status of the LLM or of the speech.
ReplyStarts ==
  /\ conn = "open"
  /\ listening' = FALSE
  /\ UNCHANGED <<outerVars, haveVoice, voiceStop, vadOn, asrVars, goVars, ghosts>>

Disconnect ==
  /\ conn = "open"
  /\ conn' = "closed"
  /\ UNCHANGED <<sessionVars, inputVars, flagVars, asrVars, goVars, ghosts>>

----------------------------------------------------------------------------
(* The VAD goroutine                                                       *)

At(v, step) == Free(v) /\ vad[v].step = step
Drop(v) == vad' = [vad EXCEPT ![v] = [Resting EXCEPT !.step = "take"]]
Leave(v) == vad' = [vad EXCEPT ![v] = Resting]

\* A goroutine without a recover panics: the process is gone.
Panic(v) ==
  /\ conn' = "crashed"
  /\ UNCHANGED <<sessionVars, inputVars, flagVars, asrVars, goVars, ghosts>>

\* A frame is taken, even from a connection that has ended, unless the device
\* has stopped speaking; in manual mode it counts as voice after voice.
TakeFrame(v) ==
  /\ At(v, "take") /\ ~voiceStop
  /\ vad' = [vad EXCEPT ![v] =
       [Resting EXCEPT !.step = IF mode = "manual" THEN "decide" ELSE "detect",
                       !.at = listens, !.have = mode = "manual",
                       !.had = haveVoice \/ mode = "manual"]]
  /\ OnlyVad

VadEnds(v) == At(v, "take") /\ conn # "open" /\ Leave(v) /\ OnlyVad

\* The detector is taken from its pool when there is none, which may fail.
InitVad(v) ==
  /\ At(v, "detect")
  /\ \/ vadOn' = TRUE /\ GoTo(v, "judge")
     \/ ~vadOn /\ UNCHANGED vadOn /\ Drop(v)
  /\ UNCHANGED <<outerVars, listening, haveVoice, voiceStop, asrVars, todo, own, listener,
                 ghosts>>

\* IsVADExt on the field as it is now; an error drops the frame.
IsVad(v) ==
  /\ At(v, "judge")
  /\ \/ ~vadOn /\ Panic(v)
     \/ /\ vadOn
        /\ \/ Drop(v)
           \/ \E have \in BOOLEAN :
                vad' = [vad EXCEPT ![v].step = "decide", ![v].have = have]
        /\ OnlyVad

\* Voice is noted.  Without voice the goroutine may have idled too long.  Only
\* a frame that was taken after voice goes on to the recogniser.
Decide(v) ==
  /\ At(v, "decide")
  /\ haveVoice' = (haveVoice \/ vad[v].have)
  /\ \/ /\ ~vad[v].have
        /\ conn' = "closed"
        /\ Leave(v)
     \/ /\ IF vad[v].had THEN GoTo(v, "check") ELSE Drop(v)
        /\ UNCHANGED conn
  /\ UNCHANGED <<sessionVars, inputVars, listening, voiceStop, vadOn, asrVars, todo, own,
                 listener, ghosts>>

\* After the send: silence for long enough stops the recognition.
AfterSend(v) ==
  /\ Drop(v)
  /\ \/ UNCHANGED todo
     \/ ~vad[v].have /\ haveVoice /\ todo' = [todo EXCEPT ![v] = Silence]
  /\ UNCHANGED <<outerVars, flagVars, lock, field, rec, own, listener, ghosts>>

\* if AsrAudioChannel != nil ...
CheckChan(v) ==
  /\ At(v, "check")
  /\ \/ field.chan # 0 /\ GoTo(v, "load") /\ OnlyVad
     \/ field.chan = 0 /\ AfterSend(v) /\ UNCHANGED chan

\* ... AsrAudioChannel <- pcmData: the field is read again, before the send.
LoadChan(v) ==
  /\ At(v, "load")
  /\ vad' = [vad EXCEPT ![v].step = "send", ![v].chan = field.chan]
  /\ OnlyVad

\* The send waits for room, for ever on nil, and panics on a closed channel.
SendFrame(v) ==
  /\ At(v, "send")
  /\ LET k == vad[v].chan IN
     /\ k # 0
     /\ \/ k \in chan.closed /\ Panic(v)
        \/ /\ k \notin chan.closed /\ Len(chan.buf[k]) < ChanCap
           /\ chan' = [chan EXCEPT !.buf[k] = Append(@, [by |-> v, at |-> vad[v].at])]
           /\ AfterSend(v)

ProcessVadAudio(v) ==
  \/ TakeFrame(v) \/ VadEnds(v) \/ InitVad(v) \/ IsVad(v) \/ Decide(v)
  \/ CheckChan(v) \/ LoadChan(v) \/ SendFrame(v)

----------------------------------------------------------------------------
(* The recogniser                                                          *)

Old(r) == IF Head(chan.buf[rec.of[r].chan]).at < rec.of[r].since THEN 1 ELSE 0

\* forwardStreamAudio reads a frame.  It may also stop for good at any time:
\* the context, the end of the audio, a write that fails.
ForwardStreamAudio(r) ==
  /\ Up /\ r <= rec.made
  /\ LET k == rec.of[r].chan IN
     /\ k # 0 /\ chan.buf[k] # <<>>
     /\ chan' = [chan EXCEPT !.buf[k] = Tail(@)]
     /\ stale' = [stale EXCEPT ![r][Head(chan.buf[k]).by] = @ + Old(r)]
  /\ UNCHANGED <<outerVars, flagVars, lock, field, rec, goVars, listens, closes>>

----------------------------------------------------------------------------
(* The listener                                                            *)

Is(l, step) == Free(l) /\ listener[l].step = step
ToStep(l, step) == listener' = [listener EXCEPT ![l] = [step |-> step, on |-> 0]]
OnlyListener == UNCHANGED <<outerVars, flagVars, asrVars, todo, own, vad, ghosts>>

\* <-ctx.Done(), then RetireAsrResult waits on the channel of the field.
ListenLoop(l) ==
  /\ Is(l, "loop")
  /\ IF Done(own[l].ctx) THEN ToStep(l, "off")
     ELSE listener' = [listener EXCEPT ![l] = [step |-> "select", on |-> field.results]]
  /\ OnlyListener

\* RetireAsrResult returns; what was heard is emptied.
Retire(l, step, calls) ==
  /\ ToStep(l, step)
  /\ todo' = [todo EXCEPT ![l] = calls]
  /\ UNCHANGED <<outerVars, flagVars, lock, field, chan, own, vad, ghosts>>

HearCancel(l) ==
  /\ Is(l, "select") /\ Done(own[l].ctx)
  /\ Retire(l, "off", <<>>) /\ UNCHANGED rec

Running(l) == listener[l].on # 0 /\ ~rec.of[listener[l].on].ended

\* A result that is not final: the select is entered again.
HearPart(l) ==
  /\ Is(l, "select") /\ Running(l)
  /\ listener' = [listener EXCEPT ![l].on = field.results]
  /\ UNCHANGED <<outerVars, flagVars, asrVars, todo, own, vad, ghosts>>

\* The final result: with text, speaking has ended.
HearFinal(l) ==
  /\ Is(l, "select") /\ Running(l)
  /\ rec' = [rec EXCEPT !.of[listener[l].on].ended = TRUE]
  /\ \/ Retire(l, "deliver", Silence)
     \/ Retire(l, "empty", <<>>)

\* recvResult has closed its channel: a final result, a failed read, a cancel.
HearEnd(l) ==
  /\ Is(l, "select") /\ listener[l].on # 0
  /\ rec' = [rec EXCEPT !.of[listener[l].on].ended = TRUE]
  /\ Retire(l, "empty", <<>>)

\* SendAsrResult, and AddAsrResultToQueue with the session context of now.
Deliver(l) ==
  /\ Is(l, "deliver")
  /\ ToStep(l, "off")
  /\ IF conn = "open" THEN \E s \in Sessions : GetSessionCtx(s) ELSE UNCHANGED sessionVars
  /\ UNCHANGED <<conn, inputVars, flagVars, asrVars, todo, own, vad, ghosts>>

\* Nothing was said: while the device is listened to, recognition starts
\* again, until a minute has gone.
Again(l) ==
  /\ Is(l, "empty") /\ ~Done(own[l].ctx) /\ listening
  /\ inputs < MaxInputs
  /\ inputs' = inputs + 1
  /\ todo' = [todo EXCEPT ![l] = Restart]
  /\ UNCHANGED <<conn, sessionVars, mode, flagVars, asrVars, own, vad, listener, ghosts>>

GiveUp(l) ==
  /\ Is(l, "empty") /\ ~Done(own[l].ctx)
  /\ conn' = IF listening THEN "closed" ELSE conn
  /\ ToStep(l, "off")
  /\ UNCHANGED <<sessionVars, inputVars, flagVars, asrVars, todo, own, vad, ghosts>>

EmptyCancelled(l) ==
  /\ Is(l, "empty") /\ Done(own[l].ctx)
  /\ ToStep(l, "off") /\ OnlyListener

Listen(l) ==
  \/ ListenLoop(l) \/ HearCancel(l) \/ HearPart(l) \/ HearFinal(l) \/ HearEnd(l)
  \/ Deliver(l) \/ Again(l) \/ GiveUp(l) \/ EmptyCancelled(l)

----------------------------------------------------------------------------
Commands ==
  \/ \E v \in Vads : HandleHelloMessage(v)
  \/ \E m \in {"auto", "manual"} : HandleListenStart(m)
  \/ HandleListenStop \/ StopSpeaking

Next ==
  \/ Commands \/ ReplyStarts \/ Disconnect
  \/ \E g \in Goroutines : Calls(g)
  \/ \E v \in Vads : ProcessVadAudio(v)
  \/ \E l \in Listeners : Listen(l)
  \/ \E r \in Made : ForwardStreamAudio(r)

Spec == Init /\ [][Next]_vars

----------------------------------------------------------------------------
(* Properties                                                              *)

\* Stops of the command loop, of the VAD goroutine and of the listeners meet,
\* and a restart may replace the channel between a Stop's look at the field
\* and its assignment to it (asr.go, Stop): no channel is closed twice, which
\* would be a panic.
ClosedOnce == \A k \in Made : closes[k] <= 1

\* A restart makes a new channel so that no speech of before it is recognised
\* again (RestartAsrRecognition); nobody waits for the goroutine that sends.
\* It may carry one frame over, however the restarts of the command loop and
\* of the listeners overlap, and no more.
FewStaleFrames == \A r \in Made, v \in Vads : stale[r][v] <= 1
============================================================================
