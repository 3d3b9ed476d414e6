----------------------------- MODULE LlmStream -----------------------------
(***************************************************************************)
(* The stream of one LLM reply: the goroutine that receives it from the    *)
(* model and puts tool calls together                                      *)
(* (llm/eino_llm/eino_llm.go EinoResponseWithTools), the goroutine that    *)
(* cuts its text into sentences (llm/llm.go HandleLLMWithContextAndTools,  *)
(* llm/llm_sentence.go extractSmartSentences) and the loop that has the    *)
(* sentences spoken (chat/llm.go handleLLMResponse).                       *)
(*                                                                         *)
(* Text is a sequence of pieces.  A piece has a length and ends in a       *)
(* separator: "pause" for a comma, "end" for the punctuation that ends a   *)
(* sentence, "line" for a line break before a number, "break" for another  *)
(* line break, "none" for none.                                            *)
(***************************************************************************)
EXTENDS Naturals, SequencesExt

CONSTANTS
  Replies,     \* what the model may stream: sequences of chunks
  ToolCalls,   \* the tool calls it may make
  MinLen,      \* characters a sentence has at least
  MsgCap,      \* capacity of the channel of messages
  SentenceCap, \* capacity of the channel of sentences
  None

VARIABLES
  chunks,      \* what the model has still to send
  source,      \* where the goroutine of the provider stands
  currentToolCall, \* the tool call whose arguments are being received
  msgChan,     \* messages on their way to the splitter
  splitter,    \* where the goroutine that cuts sentences stands
  buffer,      \* text that is not a sentence yet
  isFirst,     \* no text has been cut yet
  ready,       \* what the splitter has still to send for the last message
  sentences,   \* the channel of sentences
  reply,       \* where the loop of the reply stands
  said,        \* text given to the TTS, in order
  cancelled,   \* the context of the reply has ended
  passedOn     \* history: the text that the provider has passed on

provider == <<chunks, source, currentToolCall, msgChan, passedOn>>
cutting == <<splitter, buffer, isFirst, ready>>
speaking == <<reply, said>>
vars == <<provider, cutting, sentences, speaking, cancelled>>

Pieces == [id : Nat, n : Nat, sep : {"pause", "end", "line", "break", "none"}]
Calls == ToolCalls \cup {None}
Chunks == [text : Seq(Pieces), call : Calls, starts : BOOLEAN, complete : BOOLEAN]
Messages == [text : Seq(Pieces), calls : Seq(ToolCalls)]
Responses == [text : Seq(Pieces), calls : Seq(ToolCalls), end : BOOLEAN]

TypeOK ==
  /\ chunks \in Seq(Chunks)
  /\ source \in {"open", "stream", "gone"}
  /\ currentToolCall \in Calls
  /\ msgChan \in Seq(Messages)
  /\ splitter \in {"loop", "send", "last", "gone"}
  /\ buffer \in Seq(Pieces)
  /\ isFirst \in BOOLEAN
  /\ ready \in Seq(Responses)
  /\ sentences \in Seq(Responses)
  /\ reply \in {"take", "ended", "left"}
  /\ said \in Seq(Pieces)
  /\ cancelled \in BOOLEAN
  /\ passedOn \in Seq(Pieces)

Init ==
  /\ chunks \in Replies
  /\ source = "open"
  /\ currentToolCall = None
  /\ msgChan = <<>>
  /\ splitter = "loop"
  /\ buffer = <<>>
  /\ isFirst = TRUE
  /\ ready = <<>>
  /\ sentences = <<>>
  /\ reply = "take"
  /\ said = <<>>
  /\ cancelled = FALSE
  /\ passedOn = <<>>

\* A fold from the left. Its step is a function of what has been made so far, which gives
\* a function of the next element: about functions more can be proved than about operators.
Fold(step, base, s) ==
  LET f[i \in 0 .. Len(s)] == IF i = 0 THEN base ELSE step[f[i - 1]][s[i]]
  IN  f[Len(s)]

----------------------------------------------------------------------------
(* The provider                                                            *)

Receiving == UNCHANGED <<cutting, sentences, speaking, cancelled>>

\* responseChan <- message, which waits for room and not for the context
Forward(text, calls) ==
  /\ Len(msgChan) < MsgCap
  /\ msgChan' = Append(msgChan, [text |-> text, calls |-> calls])
  /\ passedOn' = passedOn \o text

\* The model streams, or the stream cannot be had.
OpenStream ==
  /\ source = "open"
  /\ source' = "stream"
  /\ UNCHANGED <<chunks, currentToolCall, msgChan, passedOn>>
  /\ Receiving

\* A whole reply: its text and the tool calls that begin in it.
InOneMessage(all) ==
  Fold([m \in Messages |-> [c \in Chunks |->
          [text |-> m.text \o c.text,
           calls |-> IF c.starts /\ c.call # None THEN Append(m.calls, c.call) ELSE m.calls]]],
       [text |-> <<>>, calls |-> <<>>], all)

\* Without streaming the model generates the reply in one message.
Generate ==
  /\ source = "open"
  /\ Forward(InOneMessage(chunks).text, InOneMessage(chunks).calls)
  /\ source' = "gone"
  /\ UNCHANGED <<chunks, currentToolCall>>
  /\ Receiving

\* The model fails, before or during the reply: what has been put together of a
\* tool call is lost.
Fail ==
  /\ source # "gone"
  /\ source' = "gone"
  /\ UNCHANGED <<chunks, currentToolCall, msgChan, passedOn>>
  /\ Receiving

Chunk == Head(chunks)

\* Text of a chunk is passed on when the chunk has no part of a tool call.
ReceiveText ==
  /\ source = "stream" /\ chunks # <<>>
  /\ Chunk.call = None
  /\ IF Chunk.text = <<>> THEN UNCHANGED <<msgChan, passedOn>>
     ELSE Forward(Chunk.text, <<>>)
  /\ chunks' = Tail(chunks)
  /\ UNCHANGED <<source, currentToolCall>>
  /\ Receiving

\* A name begins a tool call, in the place of one that is not complete.  Its
\* arguments are not looked at before a second chunk brings more of them.
ReceiveName ==
  /\ source = "stream" /\ chunks # <<>>
  /\ Chunk.call # None /\ Chunk.starts
  /\ currentToolCall' = Chunk.call
  /\ chunks' = Tail(chunks)
  /\ UNCHANGED <<source, msgChan, passedOn>>
  /\ Receiving

\* More arguments; the call is passed on when they are valid JSON.
ReceiveArguments ==
  /\ source = "stream" /\ chunks # <<>>
  /\ Chunk.call # None /\ ~Chunk.starts
  /\ IF currentToolCall # None /\ Chunk.complete
     THEN Forward(<<>>, <<currentToolCall>>) /\ currentToolCall' = None
     ELSE UNCHANGED <<msgChan, passedOn, currentToolCall>>
  /\ chunks' = Tail(chunks)
  /\ UNCHANGED source
  /\ Receiving

\* io.EOF: a tool call that is still there is passed on as it is.
EndOfStream ==
  /\ source = "stream" /\ chunks = <<>>
  /\ IF currentToolCall # None THEN Forward(<<>>, <<currentToolCall>>)
     ELSE UNCHANGED <<msgChan, passedOn>>
  /\ source' = "gone"
  /\ UNCHANGED <<chunks, currentToolCall>>
  /\ Receiving

EinoResponseWithTools ==
  \/ OpenStream \/ Generate \/ Fail
  \/ ReceiveText \/ ReceiveName \/ ReceiveArguments \/ EndOfStream

----------------------------------------------------------------------------
(* Sentences                                                               *)

\* Before the first sentence a comma is enough.
Separators(first) == IF first THEN {"pause", "end"} ELSE {"end"}

LineBreaks == {"line", "break"}

\* Any line break is a reason to look for sentences.
containsSentenceSeparator(text, first) ==
  \E i \in DOMAIN text : text[i].sep \in Separators(first) \cup LineBreaks

Length(text) == Fold([n \in Nat |-> [piece \in Pieces |-> n + piece.n]], 0, text)

\* A line break at the end of a segment is trimmed.
TrimEnd(segment) ==
  LET last == segment[Len(segment)] IN
    IF last.sep \in LineBreaks
    THEN [segment EXCEPT ![Len(segment)].sep = "none"] ELSE segment

Saying(text) == [text |-> text, calls |-> <<>>, end |-> FALSE]

IsSentence(segment, first) ==
  /\ Length(segment) >= MinLen
  /\ segment[Len(segment)].sep \in Separators(first)

\* A text is cut at every separator and where a line begins with a number: into
\* sentences, the short segments, and the last one, which may be open.
Cuts == [sentences : Seq(Responses), short : Seq(Pieces), open : Seq(Pieces)]

CutAt(first) ==
  [cut \in Cuts |-> [piece \in Pieces |->
     LET segment == Append(cut.open, piece) IN
       IF piece.sep \notin Separators(first) \cup {"line"}
       THEN [cut EXCEPT !.open = segment]
       ELSE IF IsSentence(segment, first)
       THEN [cut EXCEPT !.sentences = Append(@, Saying(segment)), !.open = <<>>]
       ELSE [cut EXCEPT !.short = @ \o TrimEnd(segment), !.open = <<>>]]]

Cut(text, first) ==
  Fold(CutAt(first), [sentences |-> <<>>, short |-> <<>>, open |-> <<>>], text)

\* The buffer is not reset: what has become a sentence stays in it.
WholeText(text, first) == text

\* What remains: an open segment takes the place of the short ones before it.
Remaining(text, first) ==
  LET cut == Cut(text, first)
  IN  IF cut.open # <<>> THEN TrimEnd(cut.open) ELSE cut.short

Calling(calls) ==
  IF calls = <<>> THEN <<>>
  ELSE << [text |-> <<>>, calls |-> calls, end |-> FALSE] >>

\* The context is looked at before every message.
StopSplitting ==
  /\ splitter = "loop" /\ cancelled
  /\ splitter' = "gone"
  /\ UNCHANGED <<provider, buffer, isFirst, ready, sentences, speaking, cancelled>>

\* A message: its text may complete sentences, its tool calls follow them.
HandleMessage ==
  /\ splitter = "loop" /\ ~cancelled
  /\ msgChan # <<>>
  /\ msgChan' = Tail(msgChan)
  /\ LET m == Head(msgChan)
         text == buffer \o m.text
         cuts == containsSentenceSeparator(m.text, isFirst)
         found == IF cuts THEN Cut(text, isFirst).sentences ELSE <<>>
     IN  /\ buffer' = IF cuts THEN Remaining(text, isFirst) ELSE text
         /\ isFirst' = (isFirst /\ ~cuts)
         /\ ready' = found \o Calling(m.calls)
  /\ splitter' = IF ready' = <<>> THEN "loop" ELSE "send"
  /\ UNCHANGED <<chunks, source, currentToolCall, passedOn, sentences, speaking,
                 cancelled>>

\* The channel of messages is closed: what is left is said as it is.
HandleEnd ==
  /\ splitter = "loop" /\ ~cancelled
  /\ msgChan = <<>> /\ source = "gone"
  /\ ready' = << [text |-> buffer, calls |-> <<>>, end |-> TRUE] >>
  /\ splitter' = "last"
  /\ UNCHANGED <<provider, buffer, isFirst, sentences, speaking, cancelled>>

\* A send waits for room, whether or not anybody still takes sentences.
SendSentence ==
  /\ splitter \in {"send", "last"}
  /\ Len(sentences) < SentenceCap
  /\ sentences' = Append(sentences, Head(ready))
  /\ ready' = Tail(ready)
  /\ splitter' = IF Len(ready) > 1 THEN splitter
                 ELSE IF splitter = "last" THEN "gone" ELSE "loop"
  /\ UNCHANGED <<provider, buffer, isFirst, speaking, cancelled>>

HandleLLMWithContextAndTools ==
  StopSplitting \/ HandleMessage \/ HandleEnd \/ SendSentence

----------------------------------------------------------------------------
(* The reply                                                               *)

\* A sentence is spoken; the one with the end mark ends the reply, or speaking
\* fails and it is left.
TakeSentence ==
  /\ reply = "take" /\ sentences # <<>>
  /\ sentences' = Tail(sentences)
  /\ said' = said \o Head(sentences).text
  /\ \/ reply' = IF Head(sentences).end THEN "ended" ELSE "take"
     \/ Head(sentences).text # <<>> /\ reply' = "left"
  /\ UNCHANGED <<provider, cutting, cancelled>>

\* The channel is closed without an end mark, or the context has ended.
LeaveReply ==
  /\ reply = "take"
  /\ cancelled \/ (sentences = <<>> /\ splitter = "gone")
  /\ reply' = "left"
  /\ UNCHANGED <<provider, cutting, sentences, said, cancelled>>

Cancel ==
  /\ reply = "take" /\ ~cancelled
  /\ cancelled' = TRUE
  /\ UNCHANGED <<provider, cutting, sentences, speaking>>

Next ==
  \/ EinoResponseWithTools
  \/ HandleLLMWithContextAndTools
  \/ TakeSentence \/ LeaveReply \/ Cancel

Spec == Init /\ [][Next]_vars

----------------------------------------------------------------------------
(* Properties                                                              *)

\* The pieces that are a sentence whatever stands before them.
IsWhole(piece) == piece.n >= MinLen /\ piece.sep = "end"

Whole(text) ==
  Fold([w \in Seq(Pieces) |-> [piece \in Pieces |->
          IF IsWhole(piece) THEN Append(w, piece) ELSE w]],
       <<>>, text)

\* However the model cuts its reply into chunks and whatever tool calls come in
\* between, the whole sentences it streams are spoken in its order and once, and
\* all of them when the reply reaches its end mark.  Shorter pieces have no such
\* promise: extractSmartSentences says them late or, when an open segment follows
\* in the same chunk, drops them.
SentencesInOrder ==
  /\ IsPrefix(Whole(said), Whole(passedOn))
  /\ reply = "ended" => Whole(said) = Whole(passedOn)

----------------------------------------------------------------------------
(* The inductive invariant                                                 *)

\* The whole sentences in a queue of messages
WholeOf(queue) ==
  Fold([w \in Seq(Pieces) |-> [m \in Messages \cup Responses |-> w \o Whole(m.text)]],
       <<>>, queue)

\* No whole sentence stays in the buffer; the others are said or on their way, in their
\* order, as long as somebody says them.
OnTheWay ==
  /\ \A i \in DOMAIN buffer : ~IsWhole(buffer[i])
  /\ reply = "take" =>
       Whole(passedOn) =
         Whole(said) \o (WholeOf(sentences) \o (WholeOf(ready) \o WholeOf(msgChan)))

Sending == splitter \in {"send", "last"} <=> ready # <<>>

\* The end mark is the last thing that is sent, when nothing more can come.
Ended ==
  /\ splitter = "last" => msgChan = <<>> /\ source = "gone" /\ Len(ready) = 1
  /\ \A i \in DOMAIN ready : ready[i].end => splitter = "last"
  /\ \A i \in DOMAIN sentences : sentences[i].end =>
       /\ i = Len(sentences)
       /\ splitter = "gone" /\ msgChan = <<>> /\ source = "gone"
  /\ reply = "ended" => source = "gone"

IInv == TypeOK /\ OnTheWay /\ Sending /\ Ended /\ SentencesInOrder
=============================================================================
