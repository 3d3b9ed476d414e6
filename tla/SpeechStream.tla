---------------------------- MODULE SpeechStream ----------------------------
(***************************************************************************)
(* The streaming TTS providers other than xiaozhi                          *)
(* (tts/doubao/doubao_ws.go, tts/edge/edge.go, tts/cosyvoice/cosyvoice.go, *)
(* tts/edge_offline/edge_offline.go) and the decoder they share            *)
(* (tts/common/audio_utils.go).  A stream synthesises one sentence.  It is *)
(* a reader, which takes audio from the provider and writes it to a pipe,  *)
(* a decoder, which turns what comes out of the pipe into Opus frames on   *)
(* the output channel, and the consumer of that channel                    *)
(* (chat/tts.go SendTTSAudio), who leaves when the channel is closed or    *)
(* when the context of the reply ends.  doubao keeps one WebSocket for all *)
(* streams with the same host and token and does not mark it as in use:    *)
(* two streams may read from it at once, and each takes what it gets.      *)
(***************************************************************************)
EXTENDS Naturals, Sequences

CONSTANTS
  Streams,     \* calls of TextToSpeechStream
  Aborted,     \* the calls whose reply may be aborted
  Setups,      \* the choices of a provider for every stream
  OutCap,      \* capacity of an output channel
  Answers,     \* what doubao may answer to a request
  MaxAudio,    \* bound: pieces of audio from another provider
  MaxFrames,   \* bound: frames decoded from one message
  MaxConns     \* bound: WebSockets dialled to doubao

VARIABLES
  provider,    \* the provider that synthesises a stream, "none" for no call
  conns,       \* WebSockets dialled to doubao so far
  current,     \* wsClientMap: the shared connection, 0 if there is none
  reader,      \* [stream -> where the goroutine that reads stands]
  reads,       \* [stream -> the connection it got from getWSConnection]
  decoder,     \* [stream -> where Run stands, frames it still has to push]
  pipe,        \* [stream -> a Write is waiting, the ends are closed]
  source,      \* [stream -> audio that edge, cosyvoice, edge_offline still send]
  out,         \* [stream -> frames in the output channel, closed or not]
  consumer,    \* [stream -> where SendTTSAudio stands]
  cancelled    \* the streams whose context has ended

vars == <<provider, conns, current, reader, reads, decoder, pipe, source,
          out, consumer, cancelled>>

Kinds == {"doubao", "edge", "cosyvoice", "offline", "none"}
Messages == {"audio", "last", "bad"}
Conns == 1 .. Len(conns)

TypeOK ==
  /\ provider \in [Streams -> Kinds]
  /\ conns \in Seq([open : BOOLEAN, broken : BOOLEAN, deadline : BOOLEAN,
                    inbox : Seq(Messages)])
  /\ current \in 0 .. Len(conns)
  /\ reader \in [Streams -> {"off", "get", "send", "loop", "read", "write",
                             "writeLast", "remove", "close", "gone"}]
  /\ reads \in [Streams -> 0 .. Len(conns)]
  /\ decoder \in [Streams ->
       [step : {"off", "open", "loop", "stream", "send", "push", "gone"},
        frames : 0 .. MaxFrames, tail : BOOLEAN]]
  /\ pipe \in [Streams -> [full : BOOLEAN, closed : BOOLEAN]]
  /\ source \in [Streams -> 0 .. MaxAudio]
  /\ out \in [Streams -> [frames : 0 .. OutCap, closed : BOOLEAN]]
  /\ consumer \in [Streams -> {"off", "wait", "done"}]
  /\ cancelled \subseteq Streams

Init ==
  /\ provider \in Setups
  /\ conns = <<>>
  /\ current = 0
  /\ reader = [s \in Streams |-> "off"]
  /\ reads = [s \in Streams |-> 0]
  /\ decoder = [s \in Streams |-> [step |-> "off", frames |-> 0, tail |-> FALSE]]
  /\ pipe = [s \in Streams |-> [full |-> FALSE, closed |-> FALSE]]
  /\ source = [s \in Streams |-> MaxAudio]
  /\ out = [s \in Streams |-> [frames |-> 0, closed |-> FALSE]]
  /\ consumer = [s \in Streams |-> "off"]
  /\ cancelled = {}

ReaderGoes(s, step) == reader' = [reader EXCEPT ![s] = step]
DecoderGoes(s, step) == decoder' = [decoder EXCEPT ![s].step = step]

(***************************************************************************)
(* The shared connection of doubao                                         *)
(***************************************************************************)

\* The doubao stream s is at this step.
Asks(s, step) == provider[s] = "doubao" /\ reader[s] = step

\* getWSConnection finds a connection that answers its ping.  The ping is a
\* write: it does not notice that reading has failed.
Reuse(s) ==
  /\ Asks(s, "get")
  /\ current # 0
  /\ reads' = [reads EXCEPT ![s] = current]
  /\ ReaderGoes(s, "send")
  /\ UNCHANGED <<provider, conns, current, decoder, pipe, source, out, consumer, cancelled>>

Shut(c) == [conns EXCEPT ![c].open = FALSE]

\* wrapper.Conn.Close() of the connection that is registered, if there is one.
ShutCurrent == IF current = 0 THEN conns ELSE Shut(current)

\* There is none, or its ping fails or its last use is 30 s ago: a new one.
Dial(s) ==
  /\ Asks(s, "get")
  /\ Len(conns) < MaxConns
  /\ conns' = Append(ShutCurrent, [open |-> TRUE, broken |-> FALSE,
                                   deadline |-> FALSE, inbox |-> <<>>])
  /\ current' = Len(conns')
  /\ reads' = [reads EXCEPT ![s] = Len(conns')]
  /\ ReaderGoes(s, "send")
  /\ UNCHANGED <<provider, decoder, pipe, source, out, consumer, cancelled>>

\* TextToSpeechStream returns an error, there is no channel to read from.
Refuse(s) ==
  /\ ReaderGoes(s, "gone")
  /\ consumer' = [consumer EXCEPT ![s] = "done"]
  /\ UNCHANGED <<provider, reads, decoder, pipe, source, out, cancelled>>

DialFails(s) ==
  /\ Asks(s, "get")
  /\ conns' = ShutCurrent
  /\ current' = 0
  /\ Refuse(s)

\* removeWSConnection closes the connection registered now, which need not be
\* the one that failed.
RemoveWSConnection ==
  /\ conns' = ShutCurrent
  /\ current' = 0

Decoding(s) == [decoder EXCEPT ![s].step = "open"]

\* The read deadline is not set.
SendUnlimited(s) ==
  /\ Asks(s, "send")
  /\ conns[reads[s]].open
  /\ \E answer \in Answers :
       conns' = [conns EXCEPT ![reads[s]].inbox = @ \o answer]
  /\ ReaderGoes(s, "loop")
  /\ decoder' = Decoding(s)
  /\ UNCHANGED <<provider, current, reads, pipe, source, out, consumer, cancelled>>

\* The request is written and the read deadline set; both goroutines start.
SendRequest(s) ==
  /\ Asks(s, "send")
  /\ conns[reads[s]].open
  /\ \E answer \in Answers :
       conns' = [conns EXCEPT ![reads[s]].inbox = @ \o answer,
                              ![reads[s]].deadline = TRUE]
  /\ ReaderGoes(s, "loop")
  /\ decoder' = Decoding(s)
  /\ UNCHANGED <<provider, current, reads, pipe, source, out, consumer, cancelled>>

SendFails(s) ==
  /\ Asks(s, "send")
  /\ RemoveWSConnection
  /\ Refuse(s)

(***************************************************************************)
(* A call, its context and its consumer                                    *)
(***************************************************************************)

\* TextToSpeechStream.  doubao connects and asks before it returns, the others
\* leave that to their goroutine.
Call(s) ==
  /\ reader[s] = "off"
  /\ provider[s] # "none"
  /\ ReaderGoes(s, IF provider[s] = "edge" THEN "loop" ELSE "get")
  /\ decoder' = IF provider[s] = "edge" THEN Decoding(s) ELSE decoder
  /\ consumer' = [consumer EXCEPT ![s] = "wait"]
  /\ UNCHANGED <<provider, conns, current, reads, pipe, source, out, cancelled>>

\* The reply is aborted.
Cancel(s) ==
  /\ s \in Aborted
  /\ consumer[s] = "wait"
  /\ s \notin cancelled
  /\ cancelled' = cancelled \cup {s}
  /\ UNCHANGED <<provider, conns, current, reader, reads, decoder, pipe, source, out,
                 consumer>>

\* SendTTSAudio takes a frame, finds the channel closed, or its context done.
Take(s) ==
  /\ consumer[s] = "wait"
  /\ out[s].frames > 0
  /\ out' = [out EXCEPT ![s].frames = @ - 1]
  /\ UNCHANGED <<provider, conns, current, reader, reads, decoder, pipe, source,
                 consumer, cancelled>>

Leave(s) ==
  /\ consumer[s] = "wait"
  /\ ~ Asks(s, "get") /\ ~ Asks(s, "send")
  /\ (out[s].frames = 0 /\ out[s].closed) \/ s \in cancelled
  /\ consumer' = [consumer EXCEPT ![s] = "done"]
  /\ UNCHANGED <<provider, conns, current, reader, reads, decoder, pipe, source, out,
                 cancelled>>

Consume(s) == Take(s) \/ Leave(s)

(***************************************************************************)
(* The reader of doubao                                                    *)
(***************************************************************************)

\* The context is looked at before a read, not during it.
CheckCtx(s) ==
  /\ reader[s] = "loop"
  /\ provider[s] # "cosyvoice"
  /\ ReaderGoes(s, IF s \in cancelled THEN "close" ELSE "read")
  /\ UNCHANGED <<provider, conns, current, reads, decoder, pipe, source, out, consumer,
                 cancelled>>

\* A Write hands its bytes to the decoder, unless an end of the pipe is closed.
Write(s) == pipe' = [pipe EXCEPT ![s].full = ~pipe[s].closed]

\* The next message of the connection, whoever has asked for it.  The deadline
\* is set anew after each.
ReadMessage(s) ==
  /\ Asks(s, "read")
  /\ LET c == conns[reads[s]] IN
       /\ c.open /\ ~c.broken /\ c.inbox # <<>>
       /\ conns' = [conns EXCEPT ![reads[s]].inbox = Tail(@),
                                 ![reads[s]].deadline = TRUE]
       /\ \/ Head(c.inbox) = "audio" /\ ReaderGoes(s, "write") /\ Write(s)
          \/ Head(c.inbox) = "last" /\ ReaderGoes(s, "writeLast") /\ Write(s)
          \/ Head(c.inbox) = "bad" /\ ReaderGoes(s, "remove") /\ UNCHANGED pipe
  /\ UNCHANGED <<provider, current, reads, decoder, source, out, consumer,
                 cancelled>>

\* Nothing has come before the deadline.  A read that has failed once fails for
\* every reader and for ever.
ReadTimeout(s) ==
  /\ Asks(s, "read")
  /\ conns[reads[s]].deadline
  /\ conns' = [conns EXCEPT ![reads[s]].broken = TRUE]
  /\ ReaderGoes(s, "remove")
  /\ UNCHANGED <<provider, current, reads, decoder, pipe, source, out, consumer, cancelled>>

\* The connection has been closed, or reading from it has failed before.
ReadError(s) ==
  /\ Asks(s, "read")
  /\ ~conns[reads[s]].open \/ conns[reads[s]].broken
  /\ ReaderGoes(s, "remove")
  /\ UNCHANGED <<provider, conns, current, reads, decoder, pipe, source, out, consumer,
                 cancelled>>

Remove(s) ==
  /\ reader[s] = "remove"
  /\ RemoveWSConnection
  /\ ReaderGoes(s, "close")
  /\ UNCHANGED <<provider, reads, decoder, pipe, source, out, consumer, cancelled>>

\* A Write returns when its bytes are read or an end of the pipe is closed.
\* edge_offline leaves after its first binary message.
WriteReturns(s) ==
  /\ reader[s] \in {"write", "writeLast"}
  /\ ~pipe[s].full \/ pipe[s].closed
  /\ pipe' = [pipe EXCEPT ![s].full = FALSE]
  /\ ReaderGoes(s, IF reader[s] = "writeLast" THEN "close" ELSE "loop")
  /\ UNCHANGED <<provider, conns, current, reads, decoder, source, out,
                 consumer, cancelled>>

\* The deferred closing of the pipe.
ClosePipe(s) ==
  /\ reader[s] = "close"
  /\ pipe' = [pipe EXCEPT ![s].closed = TRUE]
  /\ ReaderGoes(s, "gone")
  /\ UNCHANGED <<provider, conns, current, reads, decoder, source, out,
                 consumer, cancelled>>
(***************************************************************************)
(* The readers of the other providers                                      *)
(***************************************************************************)

\* The goroutine returns: the channel it leaves behind is not closed.
Quit(s) == ReaderGoes(s, "gone") /\ UNCHANGED <<decoder, pipe, source>>

\* A piece of audio is written to the decoder.
Piece(s, step) ==
  /\ source[s] > 0
  /\ source' = [source EXCEPT ![s] = @ - 1]
  /\ Write(s)
  /\ ReaderGoes(s, step)
  /\ UNCHANGED decoder

\* The audio ends.
Ends(s) == ReaderGoes(s, "close") /\ UNCHANGED <<decoder, pipe, source>>

Others == <<provider, conns, current, reads, out, consumer, cancelled>>

\* edge: the next chunk of the library's channel, which the library closes when
\* the synthesis is over, fails or is cancelled.
EdgeChunk(s) ==
  /\ provider[s] = "edge"
  /\ reader[s] = "read"
  /\ Piece(s, "write") \/ Ends(s)
  /\ UNCHANGED Others

\* cosyvoice: the request fails, or its status, length or format is refused.
RequestFails(s) ==
  /\ provider[s] = "cosyvoice"
  /\ reader[s] = "get"
  /\ Quit(s)
  /\ UNCHANGED Others

\* cosyvoice: the body of the response is what the decoder reads from.
Respond(s) ==
  /\ provider[s] = "cosyvoice"
  /\ reader[s] = "get"
  /\ ReaderGoes(s, "loop")
  /\ decoder' = Decoding(s)
  /\ UNCHANGED <<pipe, source>>
  /\ UNCHANGED Others

Body(s) ==
  /\ provider[s] = "cosyvoice"
  /\ reader[s] = "loop"
  /\ Piece(s, "write") \/ Ends(s)
  /\ UNCHANGED Others

\* edge_offline: a connection of the resource pool, or none; the text is sent,
\* or not.
OfflineAsks(s) ==
  /\ provider[s] = "offline"
  /\ reader[s] \in {"get", "send"}
  /\ \/ Quit(s)
     \/ /\ reader[s] = "get"
        /\ ReaderGoes(s, "send")
        /\ UNCHANGED <<decoder, pipe, source>>
     \/ /\ reader[s] = "send"
        /\ ReaderGoes(s, "loop")
        /\ decoder' = Decoding(s)
        /\ UNCHANGED <<pipe, source>>
  /\ UNCHANGED Others

\* edge_offline: the audio is one binary message; other messages are skipped.
OfflineReads(s) ==
  /\ provider[s] = "offline"
  /\ reader[s] = "read"
  /\ \/ Piece(s, "writeLast")
     \/ Ends(s)
     \/ ReaderGoes(s, "loop") /\ UNCHANGED <<decoder, pipe, source>>
  /\ UNCHANGED Others

Reader(s) ==
  \/ Reuse(s) \/ Dial(s) \/ DialFails(s) \/ SendRequest(s) \/ SendFails(s)
  \/ CheckCtx(s) \/ ReadMessage(s) \/ ReadTimeout(s) \/ ReadError(s) \/ Remove(s)
  \/ WriteReturns(s) \/ ClosePipe(s)
  \/ EdgeChunk(s)
  \/ RequestFails(s) \/ Respond(s) \/ Body(s)
  \/ OfflineAsks(s) \/ OfflineReads(s)

(***************************************************************************)
(* The decoder                                                             *)
(***************************************************************************)

\* edge_offline sends raw samples, which need no header: RunWavDecoder.
Raw(s) == provider[s] = "offline"

\* Run returns: the output channel is closed.  Only a decoder of MP3 closes
\* what it has read from.
Return(s, framesOut) ==
  /\ DecoderGoes(s, "gone")
  /\ out' = [out EXCEPT ![s] = [frames |-> framesOut, closed |-> TRUE]]
  /\ pipe' = IF Raw(s) THEN pipe ELSE [pipe EXCEPT ![s].closed = TRUE]

DecoderOnly == UNCHANGED <<provider, conns, current, reader, reads, source,
                           consumer, cancelled>>

\* mp3.Decode reads until it has found a header; opus.NewEncoder may refuse the
\* sample rate.
OpenDecoder(s) ==
  /\ decoder[s].step = "open"
  /\ \/ /\ Raw(s) \/ pipe[s].full
        /\ DecoderGoes(s, "loop")
        /\ pipe' = IF Raw(s) THEN pipe ELSE [pipe EXCEPT ![s].full = FALSE]
        /\ UNCHANGED out
     \/ (Raw(s) \/ pipe[s].full) /\ Return(s, 0)
  /\ DecoderOnly

\* There is no header: the decoder returns and leaves the pipe open; a Write
\* waits on.  Only cosyvoice closes the body after Run.
DecodeFails(s) ==
  /\ decoder[s].step = "open"
  /\ ~Raw(s)
  /\ pipe[s].full \/ pipe[s].closed
  /\ DecoderGoes(s, "gone")
  /\ out' = [out EXCEPT ![s].closed = TRUE]
  /\ pipe' = IF provider[s] = "cosyvoice" THEN [pipe EXCEPT ![s].closed = TRUE] ELSE pipe
  /\ DecoderOnly

CheckDecoder(s) ==
  /\ decoder[s].step = "loop"
  /\ \/ s \in cancelled /\ Return(s, out[s].frames)
     \/ s \notin cancelled /\ DecoderGoes(s, "stream") /\ UNCHANGED <<pipe, out>>
  /\ DecoderOnly

\* Samples are read; they fill some frames.
Decode(s) ==
  /\ decoder[s].step = "stream"
  /\ pipe[s].full
  /\ pipe' = [pipe EXCEPT ![s].full = FALSE]
  /\ \E k \in 0 .. MaxFrames :
       decoder' = [decoder EXCEPT ![s].frames = k,
                                  ![s].step = IF k = 0 THEN "loop" ELSE "send"]
  /\ UNCHANGED out
  /\ DecoderOnly

\* The end: what is left is padded to a frame, if anything is.
DecodeEnd(s) ==
  /\ decoder[s].step = "stream"
  /\ ~pipe[s].full /\ pipe[s].closed
  /\ \/ Return(s, out[s].frames)
     \/ /\ decoder' = [decoder EXCEPT ![s] =
                         [step |-> "send", frames |-> 1, tail |-> TRUE]]
        /\ UNCHANGED <<pipe, out>>
  /\ DecoderOnly

\* RunMp3Decoder looks at the context before the frame is put into the channel,
\* RunWavDecoder does not; neither looks while it waits for room.
CheckSend(s) ==
  /\ decoder[s].step = "send"
  /\ \/ s \in cancelled /\ ~Raw(s) /\ Return(s, out[s].frames)
     \/ /\ s \notin cancelled \/ Raw(s)
        /\ DecoderGoes(s, "push")
        /\ UNCHANGED <<pipe, out>>
  /\ DecoderOnly

Push(s) ==
  /\ decoder[s].step = "push"
  /\ out[s].frames < OutCap
  /\ \/ decoder[s].tail /\ Return(s, out[s].frames + 1)
     \/ /\ ~decoder[s].tail
        /\ out' = [out EXCEPT ![s].frames = @ + 1]
        /\ decoder' = [decoder EXCEPT ![s].frames = @ - 1,
                         ![s].step = IF decoder[s].frames > 1 THEN "send" ELSE "loop"]
        /\ UNCHANGED pipe
  /\ DecoderOnly

Decoder(s) ==
  \/ OpenDecoder(s) \/ DecodeFails(s) \/ CheckDecoder(s) \/ Decode(s)
  \/ DecodeEnd(s) \/ CheckSend(s) \/ Push(s)

Next == \E s \in Streams :
  Call(s) \/ Cancel(s) \/ Consume(s) \/ Reader(s) \/ Decoder(s)

\* The goroutines run on; a read from doubao ends at its deadline and edge's
\* library ends its channel.
Fairness ==
  \A s \in Streams :
    WF_vars(Reader(s)) /\ WF_vars(Decoder(s)) /\ WF_vars(Consume(s))

Spec == Init /\ [][Next]_vars
FairSpec == Spec /\ Fairness

(***************************************************************************)
(* Properties                                                              *)
(***************************************************************************)

\* The streams of these providers close their channel whatever happens.
\* cosyvoice and edge_offline do not when their request fails, and edge_offline
\* waits without limit for its answer.
Closing(s) == provider[s] \in {"doubao", "edge"}

\* Whoever waits for the speech of doubao or edge gets to its end: even when
\* another stream on the same connection has taken the last message of the
\* answer, or has closed the connection, when the provider stops in the middle,
\* and when what it sent cannot be decoded.
SpeechEnds ==
  \A s \in Streams :
    (Closing(s) /\ consumer[s] = "wait") ~> (consumer[s] = "done")

(***************************************************************************)
(* The inductive invariant                                                 *)
(***************************************************************************)

\* A doubao stream that has got past getWSConnection has a connection.
Connected ==
  \A s \in Streams :
    provider[s] = "doubao" /\ reader[s] \notin {"off", "get", "gone"} => reads[s] # 0

\* A decoder that has frames to push counts them.
HasFrames ==
  \A s \in Streams : decoder[s].step \in {"send", "push"} => decoder[s].frames > 0

IInv == TypeOK /\ Connected /\ HasFrames
=============================================================================
