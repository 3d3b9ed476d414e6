# Verification of xiaozhiserver

TLA+ models of the xiaozhi voice server (Go, `src/`), TLC configurations that
check them on small instances, and theorems about them with proofs that TLAPS
checks. Paths below are under `src/internal/` unless they start with `src/`.

A device (a loudspeaker with a microphone) connects over WebSocket or over
MQTT plus UDP, streams audio, and gets back the text that was recognised and the
spoken reply of a language model. Nearly everything that is hard in the server
is in how its goroutines share a session: every message of the device may
interrupt a reply that four other goroutines are still producing.

## 1. The system

    device --ws--> WebSocketConn --> ChatManager/ChatSession --> LLM, tools (MCP)
           --mqtt/udp--> MqttUdpConn --^      |        |-------> ASR provider  (pool)
                                              |        |-------> VAD provider  (pool)
                                              |        '-------> TTS provider  (pool)
                                              '-- util.Queue: texts, greetings, sentences

| Component | State | Operations | Talks to |
|---|---|---|---|
| session queues, `util/queue.go` | channel, closed flag, mutex | Push, Pop (three modes), Clear, Close | shared by the command loop and the workers |
| dialogue, `app/server/chat/{session,llm,tts,llm_*}.go` | session context, status, three queues, the reply in progress | device commands; chat, greet and voice workers; listeners | queues, transport, LLM, TTS |
| connections and managers, `app/server/{app,websocket/*}.go`, `chat/{chat,manager_registry}.go` | closed flag, lock, callbacks, registry by device id | accept, set up, read, close, register, unregister, exit tool | session |
| resource pool, `util/resource_pool.go` | channel of idle resources, map of all resources, in-use flags | Acquire, Release, Resize, clean-up, Close | the `edge_offline` TTS provider, the WebRTC VAD pool |
| listening, `chat/asr.go`, `data/client/{asr,vad,client}.go` | audio channel, VAD state, voice status | audio loop, VAD goroutine, start and stop of a recognition | ASR and VAD providers, dialogue |
| device MCP, `chat/mcp.go`, `domain/mcp/{device_manager,mcp_client,local_tools}.go` | clients by device id, sessions, last ping | hello, register, ping and refresh loop, offline check, tool call | session transport |
| global MCP, `domain/mcp/manage.go` | connections, tool table, two locks | start, connect, refresh, reconnect, call, stop | MCP servers |
| MQTT/UDP, `app/server/mqtt_udp/*` | connections by device, UDP sessions by nonce and by address, time of the last activity | MQTT message, UDP packet, idle check, sends of the session | session, registry |
| broker hooks, `app/mqtt_server/*` | sessions of the embedded broker | access control, online and offline notices | MQTT |
| provider pools: `domain/asr/funasr`, `domain/tts/xiaozhi`, `domain/vad/silero_vad` | connections or engines with in-use flags | get, release, remove, clean up | external services |
| LLM stream and sentence splitter, `domain/llm/{llm,llm_sentence}.go`, `llm/eino_llm` | text buffered so far, tool call being put together | receive fragments, split them into sentences | dialogue |
| streaming TTS providers, `domain/tts/{doubao,edge,cosyvoice,edge_offline}`, `tts/common` | one shared WebSocket (doubao), a pipe and an output channel per sentence | request, read, decode, push | dialogue |
| dialogue memory, `domain/llm/memory` | list of messages per device | add, read the last ones, reset | Redis |
| parallel work queue, `util/workqueue` | - | run pieces on N workers | pools |
| authentication, `domain/auth` | sessions | create, validate, expire | HTTP |

What is not state (codecs, signatures, configuration readers, HTTP endpoints,
message types, the sample programs) is listed in `PROJECT.json` with the
reason it has no module.

### What is hard, and what makes each component correct

* **Queues.** `Push` and `Pop` look at the channel under a mutex and use it
  after the unlock, while `Clear` closes it and puts another one in its place.
  Right means: an accepted item is delivered once, in order, or was dropped by a
  `Clear`; nobody waits for ever on a channel that was replaced.
* **Dialogue.** An abort cancels a context and clears two of the three queues,
  in separate steps, while the workers are between a check of the context and
  what they do next. Right means: a bounded amount of speech of a cancelled
  reply still reaches the device, sentences are spoken in their order, the device
  is never left in the speaking state, and every reply and every session ends
  even if the voice provider hangs.
* **Connections.** A session can be ended by its device, by an exit tool, by a
  failed recognition and by a second connection of the same device, all at once.
  Right means: the channels are closed once, no lock is held for ever, managers
  and loops end with their connection, and the registry names the live manager.
* **Pools.** The idle channel, the map and the flags are updated in separate
  steps. Right means: no resource is used by two users or used after it was closed,
  the limits hold, no slot is lost, and nobody waits beyond the timeout.
* **Listening.** The fields of a recognition are plain: the command loop, the VAD
  goroutine and the listeners stop it and start it again while others read them.
  Right means: its audio channel is closed once, and what was said before a restart
  is not recognised after it.
* **MQTT/UDP.** One goroutine opens connections, another binds addresses to
  sessions, a third destroys what is idle, and none of them holds a lock across its
  lookups. Right means: a session is closed once, it hears and answers only
  addresses from which its own nonce has come, and nothing is left of a destroyed connection.
* **Provider pools.** Each service has a pool of its own making. FunASR splits a
  recognition over two goroutines of which one gives the connection back while the
  other still writes to it; xiaozhi finds a connection by a device id that it reads
  from a field all streams share, and evicts connections in use; the Silero pool has
  no lock but that of the session. Right means: one holder at a time, every open
  connection in its pool, the limits kept, and a stream that ends whatever the others
  do to its connection.
* **Replies.** A chunk ends anywhere; what is left of it meets the next chunk, a tool
  call or the end of the stream. Right means: every whole sentence is spoken once, in
  the order of the reply, and its audio channel is closed, or the session would wait.
* **MCP.** The session of a device has two links that come and go on their own, and
  the tools of a global server are replaced by refreshes, reconnections and calls.
  Right means: a session whose links are quiet leaves the pool, and the two tables of
  tools agree.

## 2. Plan

Order of work, most important behaviour first. "done" is in this directory.

| # | Module | About | Status |
|---|---|---|---|
| 1 | `OrderedDelivery`, `ChatQueue`, `ChatQueueProofs` | the queue and the service it gives | done |
| 2 | `Dialogue`, `DialogueProofs` | one session, over queues that behave as 1 says | done |
| 3 | `ResourcePool`, `ResourcePoolProofs` | the generic pool with its users | done |
| 4 | `Connections`, `ConnectionsProofs` | connections of one device, managers, registry | done |
| 5 | `Listening`, `ListeningProofs` | audio loop, VAD goroutine, recognition, their channel | done |
| 6 | `MqttUdp`, `MqttUdpProofs` | connections by device id, UDP sessions by nonce and address, the idle check | done |
| 7 | `XiaozhiPool` | the xiaozhi TTS connections and the streams that use them | done |
| 8 | `FunasrPool` | the FunASR connections and the recognitions that use them | done |
| 9 | `SileroPool` | detectors, and the session that takes one and gives it back | done |
| 10 | `SpeechStream`, `LlmStream` | a sentence from the provider to its frames; a reply from its chunks to its sentences | done |
| 11 | `DeviceMcp`, `GlobalMcp` | the MCP sessions of a device; the tools of a global server | done |
| 12 | `Speech`, `SpeechProofs`; `Services`, `ServicesProofs` | 7 and 10, and 8, 9 and 11: each group checked by one run and proved in one module | done |

`OrderedDelivery` is the abstract specification of the queue. For the pools the
promise is stated as an invariant (`OneHolder`, `ExclusiveUse`) because each has its
own idea of what a holder is. Every safety property that a run checks is now a theorem; the
liveness properties are left to the runs (section 5). Runs are kept few: one safety and, where
waiting matters, one liveness question per component; components that share no
state are checked by one run together.

## 3. The modules and the code

**`OrderedDelivery`** says what a queue promises: items are accepted, delivered
in the order of acceptance, or dropped; nothing else happens to them.

**`ChatQueue`** is `util/queue.go`. A channel is a numbered object with its
buffer and a closed flag; `ch` is the field `q.ch`. `Push` and `Pop` have
two steps where the code has two: the part under the mutex (`PushBegin`, `PopBegin`),
which remembers the channel, and the channel operation after the unlock, on the channel
remembered. `Pop` has its three modes (wait for ever, a timeout, do not wait).
`Ordered == INSTANCE OrderedDelivery` is its promise: items leave in the order in which
they were accepted, and only a `Clear` (`cuts`) may skip some. `ClearedPopReturns` is
about any `Pop` whose channel is no longer the current one, whether or not it was
closed: that `Clear` closes it is what brings the `Pop` back.

**`Dialogue`** is one session. Each goroutine has a step and the local variables
it carries from one step to the next; one action is the code between two points
where another goroutine can come in (a channel operation, a `select`, a send to the
device, a read of a shared field). The session context is a number; `cancelled`
holds those on which `Cancel` was called. Queues are sequences (`ChatQueue` shows
why); `Enqueue` gives up on a full queue, as `Push` does after 10 s. Texts,
sentences and frames have no content: a sentence is its owner, its number and
its context. The LLM is an environment that delivers sentences, tool calls, or the
end, or nothing; the voice provider delivers frames, ends, fails, or hangs.
History variables: `shown` (last tts start or stop the device saw), `lateFrames`
and `lateSays` (what was still sent or queued after the cancellation).

**`ResourcePool`** is `util/resource_pool.go` and the two ways its users behave:
those that release once and those (`careless`) that follow
`tts/edge_offline/edge_offline.go:307,353` and release twice. Acquire is split
where the code leaves the mutex: receive, mark, validate, create. The clean-up
goroutine, Resize and Close are actors.

**`Connections`** is the life of the WebSocket connections of one device: the
setup of `OnNewConnection` step by step, the reader, the command loop, a worker
that ends the session, and the goroutine in which `RegisterChatManager` closes the
manager it replaces. A goroutine's `calls` are the method calls it still has to
make; `Close` takes the connection's lock, runs the callbacks under it and
releases it, so that calls of several goroutines interleave at every call.

**`Listening`** is the way from audio to text: a goroutine's `todo` are the calls it
still has to make, and every call (a half of `Asr.Stop`, a step of
`RestartAsrRecognition`, ...) is a step, because the fields they touch have no lock.
A channel, a recognition and a session context are numbers; a frame is the time at
which the VAD goroutine took it, counted in restarts. The VAD goroutine has a step
for each read of a shared field between taking a frame and sending it, since each
may see another value. `ClearChan` forgets whatever the field holds, as the
code does, also a channel that a restart has just made. History variables: `closes`
(how often each channel was closed) and `stale` (frames of before its start that
a recognition was given).

**`MqttUdp`** is the other transport. The three goroutines of the adapter and the
server have a step each: `adapter` is `processMessage`, from the lookup of a
device through the setup of its connection to `PushMsgToRecvCmd`; `udp` is
`processPacket`; `sweeper` is the idle check with the callbacks that `Destroy`
calls one after the other. The step changes wherever the code reads or writes
one of the tables, since they have no common lock. A connection and its UDP
session are made together and have the same number; its callbacks are counted,
because the code adds at most three, always in the same order. `ConnIds` are the random ids: two sessions may
draw the same one. A packet is the session whose key and nonce it was made with, as
the device was told them in the answer to its hello (`greeted`), and the address it
comes from. It may come late or again, and from any address: devices move, and a router
gives the address of one to another. The server asks the address first and the nonce only if that
leads nowhere (`ReceivePacket`), so a session may well hear a device it was not made
for. `OwnAudioOnly` says how far this can go: a session hears an address, and
answers to it, only if a packet with its own nonce (or one that has drawn the same id) has
come from there; over an address that has only served one device it hears no other. `recv`
is a count, as nothing depends on what the frames are. Time is in `active`: `Idle` takes a connection out when 60 s have gone by,
and whatever the code counts as activity puts it back (`Touch`; only for a
connection in the table, nobody reads it otherwise). `SendAudio` stands for the send
into `SendChannel` and the goroutine behind it; closing the two channels is one step. A
send to a closed channel ends the process (`crashed`). History variables: `closes`,
`destroyed`, `early` (destroyed while it was being set up), and `heard` (the packets that
have come).

**`XiaozhiPool`** is `tts/xiaozhi/xiaozhi.go`. Connections are numbered as they are
made; `deviceId` is their name in the list, `DeviceID` the field of the provider that
all its streams write and read, `myId` the copy a stream takes of it after the lock is
given back (`Listen`). `GetWSConnection` is one step, as it is one critical section: it
drops connections that fail the ping (`Dropped`), reuses one (`Reuse`), or dials, after
evicting one in use or not (`Dial`, `DialFails`). Of the times, only the order they can
have is kept: any idle connection may be the oldest, a connection may be too old
at any time (`Clean`), and a blocked id may expire at any time (`Unblock`).

**`FunasrPool`** is `asr/funasr/funasr.go`. A streaming call has three goroutines: the
caller, the receiver, which gives the connection back in its defer, and the forwarder,
which goes on writing after that. A batch call (`Process`) has one. `removing` holds the
connections that a `go f.removeConnection` has been started for. `writeMessage` reads the
map without the lock; when another goroutine is about to write it, the runtime may end
the process (`Fatal`).

**`SileroPool`** is `vad/silero_vad/pool.go` with `Vad.Init` and `Vad.Reset` of
`data/client/vad.go`. Each operation on the channel and on the `sync.Map` is a step;
what orders them is the lock of the session only. The goroutine that asks the detector about
a frame does not take that lock: it tests the pointer (`UseVad`), reads it again for the
calls (`IsVADExt`), and ends the process if a reset was in between (`NilProvider`).
That a reset gives the detector away during such a call is not judged:
`DetectorInOnePlace` speaks of who has the detector, not of who is still in a call of it.
`ProcessVadAudio` may call
`Vad.Init` when another goroutine has just done so: the detector of before is then
lost to the pool (`StoreVad`), which no line of the repository forbids.

**`SpeechStream`** is `TextToSpeechStream` of four providers and `AudioDecoder`. A
sentence has a reader, a decoder and a consumer, joined by a pipe, which blocks the
writer until the other end reads or closes, and a channel. Messages of doubao have no
stream: two readers of the shared WebSocket take each what comes. The read deadline
belongs to the connection (`deadline`), as `SetReadDeadline` does.

**`LlmStream`** is the goroutine that receives a reply, the one that cuts it and the
loop that has it spoken. Text is a sequence of pieces, each with a length and the
separator it ends in; `Cut` and `Remaining` are `extractSmartSentences` on them,
with its rule that a comma counts only for the first sentence and that too short a
segment is put back, and its loss: an open end replaces what was put back before.
`Cut` is a fold over the pieces, one step of which is `CutAt`, and a fold is a function
(`Fold`), so that it can be reasoned about. History variable:
`passedOn`, the pieces that `llm.go` was given.

**`DeviceMcp`** is `device_manager.go` with its two entry points. One device is
enough, since the pool has no state that devices share. A handler is a call of an entry
point and the link it makes; a loop asks the links in turn and waits while one is silent.
The three steps of `RemoveMcpClient` (find, cancel, remove) are steps, since its map
is locked for each alone. Time is in `stale`: a link that does not answer may be
two minutes old. `CancelledIsRemoved` says what the three steps still guarantee: a session
whose context is cancelled is in the pool only while its remover is about to take it out.

**`GlobalMcp`** is `manage.go` for one server: the monitor, its checks and the calls of
a tool run `connect`, `refreshTools` and `disconnect` at the same time, under the lock of the
connection only where the code takes it. Of a tool the model keeps the answer it came
with and the client it was listed with. The tests of `conn.client` and what follows them are
steps of their own, since no lock joins them: two goroutines may both find none
(`NeedsClient`) and each make one (`NewClient`), and a `nil` client, also one that a ping has
just found not to be nil, ends the process (`NilClient`).

**`Speech`** joins `XiaozhiPool`, `SpeechStream` and `LlmStream`; **`Services`** joins
`FunasrPool`, `SileroPool`, `DeviceMcp` and `GlobalMcp`. A behaviour picks one of the parts
(`which`) and the variables of the others stay as they are. This adds no interleaving,
since these components share no state, and leaves none out. The first part is brought in
by EXTENDS, the others by INSTANCE, with other names for constants and variables
where two parts use the same.

`MC*` modules give the model values and the sets that a cfg cannot write.

## 4. The runs

| Run | Question | Instance |
|---|---|---|
| `ChatQueue` | Is an accepted item delivered once, in order, or dropped by a Clear, and does every caller come back? | 2 producers, 1 consumer, capacity 2, 3 items, 3 channels (two Clears), all Pop modes |
| `ChatQueuePanic` | (violation) Can Push panic? | as above, 2 items, 2 channels |
| `DialogueSafety` | How much speech of a cancelled reply reaches the device, in which order, and how is it left? | 2 listeners, queues of 2, 3 contexts, 2 commands, 2 sentences |
| `DialogueLive` | Does every reply, session and cancelled sentence end, also with a voice provider that hangs? | 1 listener, queues of 1, 2 contexts, 2 commands, 1 sentence |
| `ResourcePool` | Exclusive use, limits, no lost slot, and every call returns | 2 users, size 2, idle 1, 3 resources created, Resize and Close at any time |
| `ResourcePoolTwice` | (violation) Is a second Release refused? | 2 users, 2 resources |
| `Connections` | Two connections of a device, the second replacing the first while it is ended from all sides | 2 connections |
| `Listening` | Is an audio channel closed once, and what of before a restart is recognised after it? | 1 VAD goroutine, 1 listener, channel of 1, 2 messages or restarts by the listener |
| `MqttUdp` | Is every session closed once, over which addresses does a session hear and answer, and does all that belongs to a connection go with it? | 2 devices, 2 addresses that either may have, 2 ids, 2 messages, capacities 1; devices, addresses and ids are interchangeable |
| `MCSpeech` | Does every stream of speech end, does the pool keep its size, its connections and their names, and are sentences spoken in order? | xiaozhi: 2 streams of one provider, 2 ids, pool of 2; doubao: 2 streams on one connection; edge, cosyvoice, edge_offline: 1 stream each; 2 replies of 4 and 9 chunks |
| `MCServices` | Has a connection or a detector one holder, is every open connection in its pool, do quiet devices and cancelled sessions leave, do the tables of tools agree? | FunASR: 2 calls (streams, or a stream and a batch), 2 connections; Silero: 3 goroutines of 2 sessions, 2 detectors; 2 links and an end of one device, 2 sessions; 1 server with a monitor, 2 checks, 1 call, 3 clients |
| `ConnectionsExit` | (violation) Does exit_chat end its session? | 2 connections |

**Bounds.** Each is a constant that appears in a guard, named in the module.
They are as small as the hazard allows: a queue of 2 with 3 items is full, has
two waiting pushes and still changes channel twice; three contexts are a reply, the
one that interrupts it and the one after; two users and a pool of two meet in every
order at its last slot, and three resources let one be destroyed and replaced;
a replaced connection is the oldest of two; two starts, or a start and the restart
of a listener, are an old and a new recognition, and a channel of one already holds
a frame while another is on its way. With one slot for a listener, a second start
waits at its last call for the first listener to end; everything before that call
interleaves freely; two messages open two connections, of two devices or of one after the
first was destroyed, with two ids that may be the same and two addresses that pass from
one device to the other. `SYMMETRY` is sound there: the run has only invariants, and no
formula names a device, an address or an id. In `MCSpeech` two streams and a
pool of two with two ids already free, remove and evict each other's connections, and
an attempt that fails is made again with the full pool; the answers of doubao are all
audio, an error, or silence. The replies have a comma first, sentences below the
minimum, an open end in the middle of a chunk, a line break with and without a number
after it, and tool calls that
come whole, in parts and one after another. In `MCServices` two recognitions and two
connections meet in every order; `OneOfTwo` lets the second be a stream or a batch
and not both, to keep the run within minutes. Three goroutines on two detectors are
two of a session that reset at once and one of another session that takes what they
return. Three clients of a server are the first and the two that a reconnection and a call
make at once. Two sessions of a device are the one that ends and the one made meanwhile.
The pools of xiaozhi and FunASR are as large as the number of connections the runs
make, so the runs fill them but never ask for one more than the limit; that the
limits hold is what `PoolIsTracked` and `NoneLeaks` prove.
Capacities are smaller than the code's
(10 texts, 10 greetings, 10 sentences, 100 frames) so that full queues happen. Most of the
invariants are proved for every value of the bounds (section 5), so their instances only have
to be large enough for the liveness properties and the violations. The type invariants of
`Connections`, `Listening`, `MqttUdp` and `Services` are proved and in no run.

`CHECK_DEADLOCK FALSE` is set everywhere: the systems stop when the bounds are
used up and when everything has been closed.

**Fairness.** Weak fairness of a goroutine's own steps is the Go scheduler. An
action that stands for a timer (the 10 s of `Push`, the 30 s wait for a sentence,
the receive timeout of a loop, the acquire timeout) is fair because timers fire.
A `select` with two ready cases chooses at random, so a case that is ready again
and again is taken: strong fairness there and nowhere else (`PopItem`,
`AcquireTimeout`, `AudioComplete`). A call into the LLM returns and its stream
ends: the fairness of the workers includes that, since `llm.go` waits for it
without a limit of its own. `Listening` and `MqttUdp` have only
safety properties and no fairness: what they would promise to end, ends with a
timer of the session, and `MqttUdp` has nearly eight million states. None is assumed of the device, or of anybody
who may abort, clear, resize or close.
In `MCSpeech` the goroutines of a stream and its consumer are fair, and the
cleaner, which is a ticker; a peer that stays silent runs into the read deadline, which is
part of those steps. `EveryStreamEnds` is `StreamEnds` of `XiaozhiPool` and `SpeechEnds`
of `SpeechStream` in one formula; it speaks of doubao and edge only, since cosyvoice and
edge_offline do leave their channel open. In `MCServices` only the offline check and the
time it looks at are fair (`CheckOffline`, `Age`), for `QuietLeaves`: no loop and no
remover is.
The voice provider has none in `FairSpec`; `ProviderReturns` is an assumption
written in the two properties that need it, and `ReplyEnds` does not.

### What the violations show

* `ChatQueuePanic`: a `Push` that has left the mutex sends on the channel that a
  `Clear` has just closed, and panics. `queue.go:15` calls the queue thread-safe.
  Push and Clear are called by different goroutines of a session.
* `ResourcePoolTwice`: `edge_offline` releases its connection when the context
  ends and again in a defer. `Release` refuses the second only if nobody acquired the
  connection in between; otherwise two goroutines share it.
* `ConnectionsExit`: the registry is keyed by device id and
  `UnregisterChatManager` does not look at which manager it removes. After a
  reconnection `exit_chat` finds no manager and reports success.

### Behaviour the models have and no property judges

The models have the following, and no run is spent on it. Of one the documentation
says otherwise: `src/doc/mqtt_udp_protocol.md:24` has the server find the session of a packet by
its nonce, and `:41` calls the nonce the identity used for routing, while
`processPacket` looks at the nonce only when it does not know the address
(`udp_server.go:109`), and `CloseSession` forgets only the last address of a session
(`:243`). So the packets of a device whose address belonged to another before reach the
session of that other, or panic if it has ended. Of the rest no line of the
repository speaks: `Acquire` dereferences nil when `Close` closes the channel under it
(`resource_pool.go:171`); a resource created behind a `Close` is never closed
(`:213`); `Resize` below the number of resources in use spins (`:341`, not
called by the program); the WebSocket reader panics when it sends to a channel
that `Close` has closed (`websocket_conn.go:65`); a connection that breaks before
`OnClose` is registered is announced to nobody (`:46`); a text recognised under a
cancelled context is answered under the current one (`session.go:547`); the VAD
goroutine panics when it sends to a channel that a stop has closed, waits for ever
when a stop has set the field to nil between its two reads (`chat/asr.go:137`), and
panics when a stop has given its detector back (`:94`); a restart that meets a
stop loses its channel and stays without audio (`data/client/asr.go:60`); after a
second listen start in the same session the two listeners may restart each other's
recognition (`session.go:525`). In `MqttUdp`: a send to a session that the idle check
closes meanwhile panics (`udp_server.go:139`, `mqtt_udp_conn.go:105`); a connection
whose setup takes longer than the way to the next idle check is destroyed before its
manager has a callback, and the manager goes on with a closed session (`early`); `exit_chat` cancels the
manager of a connection and leaves the connection, which hears no more until it has been idle for
60 s, since `MqttUdpConn.Close` does nothing; a `goodbye` does nothing either, although
`session.go:402` says it frees the UDP session. The buffered beginning of an utterance is taken from
the buffer and then dropped, because the decision to send uses the voice flag of
before the frame (`chat/asr.go:136`), although the comment at `:97` wants it
sent; the model drops that frame (`Decide`) but not the older ones, whose content
it does not have. In the modules of the services: the forwarder of a recognition that has
ended writes its rest to a connection that the next one already holds (`funasr.go:349`);
`writeMessage` reads the map of the pool without its lock (`:234`) and the runtime may end the
process; a session that calls `Vad.Init` twice loses a detector to its pool
(`chat/asr.go:80`); a full xiaozhi pool closes a connection in use (`xiaozhi.go:226`), and a
stream that fails removes the connection whose id the provider has by then (`:464`);
cosyvoice and edge_offline return without closing their channel when the request fails
(`cosyvoice.go:229`, `edge_offline.go:305`); a first sound that is no MP3 leaves the pipe
open and its writer waiting (`audio_utils.go:284`), while the channel is closed; the short
sentences of a chunk are lost when its end is open (`llm_sentence.go:211`), and a tool call
that is not complete is lost when another begins (`eino_llm.go:301`); the splitter sends
without a look at the context and may wait for ever (`llm.go:110`); the removal of a
device's MCP session may remove a newer one (`device_manager.go:45`); a refresh after a
disconnect dereferences a nil client (`manage.go:265`), and so does a ping that is
overtaken by one (`:620`); two reconnections at once make two clients, of which one is
never closed (`:204`); a detector may still be in a call when a reset has given it to
another session (`chat/asr.go:95`); the greet worker's tts stop may end the speaking state in the
middle of a reply of the chat worker (`llm.go:62`); each sentence that `edge_offline`
cannot send costs a connection of its pool (`edge_offline.go:230`).

## 5. What is proved

The only assumptions are the named ASSUMEs on the constants, which TLC evaluates in the
runs: bounds are naturals, capacities are positive where the code makes them so
(`SizesAssumption`, `VadAssumption`), who belongs to whom is a function
(`StreamsAssumption`), chunks and answers are sequences of what the models call chunks and
messages (`ReplyAssumption`, `AudioAssumption`), and `None` is none of the values. All of
the theorems hold for every number of processes, capacity, bound, reply and answer.

* **`ChatQueueProofs`.** `TypeCorrect`, `NothingLost`, and `ImplementsOrderedDelivery`
  (Spec implements `OrderedDelivery` under the mapping above). `IInv` adds
  `ChannelInv`: the channels before the current one are exactly the closed
  ones, those after it are empty, nobody remembers one that does not exist yet,
  and each buffer holds exactly the items accepted for it since what was last
  delivered. Without it an item could go to a channel nobody reads.
* **`DialogueProofs`.** `OneLateFrame`, `LateSentencesBounded`, `SpeakingEnds` and
  `SpokenInOrder`. `FrameInv` says that a frame in flight is the only one that may
  be late; `LateInv` counts a late sentence against the step its worker is in (it
  has passed its last check of the context); `OrderInv` says that the sentences of
  one owner, from the voice worker's through the queue to the one being pushed,
  have increasing numbers.
* **`ResourcePoolProofs`.** `Limits`, `Exclusive`, `HeldAreAlive`, `NothingLost`.
  `PoolInv` relates the idle channel, the map and the users' steps (an idle resource
  is in the map and nobody's); `HoldInv` is the same for held ones. Exclusive use
  holds as long as nobody was `careless`: the history variable is the hypothesis.
* **`ConnectionsProofs`.** `ChannelsClosedOnce` and `LocksAreGivenBack`. `LockInv`
  says that the holder of a lock has the unlock as a pending call and nothing before it
  that waits; `CallbackInv` that a connection has only the callbacks that the setup
  added; `ClosesInv` ties the count of closes to the flag.
* **`ListeningProofs`.** `ChannelClosedOnce` and `StaleFramesBounded`. `ClosingInv` says that exactly the
  holder of the lock is between the two halves of `Stop` (its calls are in pairs),
  that the channel in the field is open unless the lock is held, and that channels are
  closed after they are made: a new one was never closed. So the restart that assigns
  the field without the lock can lose a channel but never bring a closed one back.
  `StaleInv` follows the frames that are older than a restart: for a recognition that
  has read none, at most one of each VAD goroutine is under way, in its channel or with
  the goroutine; once it has read one, none is. It must say so already of a restart
  about to call `StreamingRecognize`, with whatever channel is in the field by then
  (`Starting`), and that holds because every list of calls makes a channel right
  before (`Chained`), so that a channel in the field is younger than any restart that
  may still take it. Steps that do not touch frames are done by one lemma
  (`UntouchedKeeps`); the work is in the send, the read and the start of a recognition.

* **`MqttUdpProofs`.** All four properties: `TypeCorrect`, `SessionsClosedOnce`,
  `AudioIsOwn`, `ConnectionsRetire`. `AdapterInv` counts the callbacks by the
  step of the setup; `TablesInv` says that a table has under a key only what was made for
  that key; `OpenInv` that a session in `nonce2Session` is open unless `CloseSession`
  is about to forget it; `OwnInv` says of every address in the table, every `RemoteAddr` and
  every packet under way that the nonce of that session, or its equal, has come from
  that address, and of whom the packets under way are (no assumption is made on
  who may use an address); `UpInv`, `SessionInv` and `ManagerInv` say which step of the sweeper
  takes away what. Each is kept by every step by a lemma of its own, with one case for
  all steps that do not touch what it speaks of. A session whose id another one has drawn is
  the hypothesis `Alone`.

* **`ServicesProofs`.** For FunASR: `TypeCorrect`, `NoneShared`, `NoneLeaks`. `HandedOver`
  says that a receiver runs only when its caller is done, so that one of the two, and nobody
  else, answers for the connection; `Pooled` that the entries in use are exactly the held
  ones, each by one call, that the pool is what is open or failed, and that it is within its
  limit. One lemma (`Keeps`) does the steps that neither open, close nor hand over, which are
  most of them. For the other three, `ServicesInvariance` carries one inductive invariant
  through the union, and four theorems are read off it.
  - `DetectorsAreAlone` (`DetectorInOnePlace`). The property is not inductive: between the
    put of a reset and its last line the detector is in the channel and still named by the
    session. `Alone` counts a detector as the session's only until then (`Has`), and adds
    that hands and destroyed detectors exclude each other too; `Locked` and `Returning` say
    that a session changes its detector under its own lock only; `Fresh` that the channel holds
    the detectors in the order they were made until it is full. `AloneSuffices` leads back to
    the property.
  - `NoSessionDead` (`CancelledIsRemoved`). `Made` and `Found`: who cancels a session has found
    one that was made, so a session made later is never one of those already cancelled.
  - `TablesStayAlike` (`TablesAgree`). `OneUpdates`: who is between the two tables holds
    `conn.mu`; `Answered`: what it is about to enter has been listed.
  - `ServicesTypesCorrect`: the four type invariants.
* **`SpeechProofs`.** For the xiaozhi pool: `TypeCorrect` and `PoolIsTracked`. `Named` says
  that a blocked or released id is one of the list; `Pooled` has the three parts of
  `PoolKeepsTrack` and that only connections that were dialled are in the pool.
  Releasing, blocking and removing do no harm because they open nothing. The
  difficult step is the dial: the id it chooses is new (`NewIdIsNew`), since after the
  eviction fewer connections are in the pool than the list has ids, so an unused one exists
  (`SomeUnused`, a pigeonhole argument), and if all unused ones are blocked the code takes an
  unused one all the same. For the other two, again one invariant of the union
  (`SpeechInvariance`).
  - `SpeechTypesCorrect`. The types of `SpeechStream` need that a doubao stream past
    `getWSConnection` has a connection (`Connected`) and that a decoder about to push has
    frames (`HasFrames`); without the latter the number of frames could fall below zero.
  - `RepliesKeepOrder` (`SentencesInOrder`). `OnTheWay` is the heart: as long as the reply
    loop runs, the whole sentences of what was passed on are those said, those in the queue
    of sentences, those the splitter is sending and those in the queue of messages, in this
    order; none stays in the buffer, whatever the cut left there. `Sending` and `Ended` say
    that the end mark is sent last, when nothing is on the way. The step that cuts a message
    rests on `CutKeepsWhole` (a cut keeps the whole sentences of buffer and chunk, in order,
    among its sentences) and `RemainingHasNone`; that a fold distributes over
    concatenation is `WholeFold`.

Induction. The library's induction theorems take an operator as a parameter and cannot be
used here. Two lemmas of `SpeechProofs` take a set in its place: `Climb` (a set of
numbers up to n that contains 0, and i + 1 with every i < n, contains n; it follows from
`SomeLeast`) and `Growing` (a set of sequences that contains the empty one and
with every sequence all those one longer contains all of them). With them `FoldSteps`,
`FoldType`, `FoldEmpty` and `FoldAppend` say of `Fold` what a reader takes for granted, for
sequences of any length.

Only model-checked: the liveness properties (`ClearedPopReturns`, `BlockedPushReturns`,
`AcceptedItemIsHandled`, `ReplyEnds`, `SessionEnds`, `CancelledSpeechDrains`,
`AcquireReturns`, `CloseReturns`, `ManagerEndsWithConnection`, `CancelledLoopEnds`,
`EveryStreamEnds`, `QuietLeaves`), because the prover does neither fairness nor ENABLED, and the
three violations.

## 6. Not modelled

Content: the text of messages, audio, prompts, tool arguments. External code:
LLM framework, recognisers, synthesizers, the MQTT broker and the Redis driver appear
only as environments.

Limits of what is modelled. `XiaozhiPool` and `FunasrPool` let two goroutines read or write
one WebSocket one after the other, where the library may also panic on a concurrent
write. `SpeechStream` has no Opus encoder that fails, and takes the synchronous
`TextToSpeech` of each provider as covered by its stream. `LlmStream` leaves out how a
number at the beginning of a line is recognised; a line break has no length, and the limit of
100 characters only says how far the code looks.
`DeviceMcp` does not follow the answer to one of two requests under way: the transports
have no correlation of their own and the library behind them is external. `GlobalMcp` leaves
out `Stop`, and `SileroPool` `Resize` and `Close`, which nothing but tests calls.

Components without a module: the hooks of the embedded broker (checks of one message
against the configuration, no state between two), the WebRTC detector (a lock
around a C library; its pool is `ResourcePool`), the parallel work queue and the dialogue memory
(pure algorithms and Redis lists), authentication sessions (one map under one lock),
and what has no state at all: configuration, HTTP endpoints, signatures, start-up. They
are listed with their reasons in `PROJECT.json`.
