------------------------------- MODULE Speech -------------------------------
(***************************************************************************)
(* The way from a reply of the model to its audio: the stream of the reply *)
(* (LlmStream), the streams of the TTS providers (SpeechStream), and the   *)
(* connections of the xiaozhi provider (XiaozhiPool).  They share no       *)
(* state: a behaviour is one of the one or the other, so that one run      *)
(* checks, and one module proves, what the three promise.                  *)
(***************************************************************************)
EXTENDS XiaozhiPool, Sequences

CONSTANTS
  Aborted, Setups, Answers, MaxAudio,                      \* of SpeechStream
  Replies, ToolCalls, MinLen, MsgCap, SentenceCap,         \* of LlmStream
  None

VARIABLES
  which,
  provider, sockets, current, reader, reads, decoder, pipe, pieces, out,
  consumer, aborted,
  chunks, source, currentToolCall, msgChan, splitter, buffer, isFirst, ready,
  sentences, reply, said, ended, passedOn

xiaozhiVars == vars
speechVars == <<provider, sockets, current, reader, reads, decoder, pipe, pieces,
                out, consumer, aborted>>
replyVars == <<chunks, source, currentToolCall, msgChan, splitter, buffer, isFirst,
               ready, sentences, reply, said, ended, passedOn>>
allVars == <<which, xiaozhiVars, speechVars, replyVars>>

----------------------------------------------------------------------------
(* The parts                                                               *)

Audio == INSTANCE SpeechStream WITH
  conns <- sockets, source <- pieces, cancelled <- aborted

Reply == INSTANCE LlmStream WITH cancelled <- ended

\* A decoder pads what is left to one frame.
ASSUME AudioAssumption ==
  /\ Setups \subseteq [Streams -> Audio!Kinds]
  /\ Answers \subseteq Seq(Audio!Messages)
  /\ MaxAudio \in Nat /\ MaxFrames # 0
ASSUME ReplyAssumption ==
  /\ \A r \in Replies : r \in Seq(Reply!Chunks)
  /\ MinLen \in Nat /\ MsgCap \in Nat /\ SentenceCap \in Nat

----------------------------------------------------------------------------
(* The union                                                               *)

SpeechInit ==
  /\ which \in {"xiaozhi", "speech", "reply"}
  /\ Init /\ Audio!Init /\ Reply!Init

SpeechNext ==
  \/ which = "xiaozhi" /\ Next /\ UNCHANGED <<which, speechVars, replyVars>>
  \/ which = "speech" /\ Audio!Next /\ UNCHANGED <<which, xiaozhiVars, replyVars>>
  \/ which = "reply" /\ Reply!Next /\ UNCHANGED <<which, xiaozhiVars, speechVars>>

SpeechSpec == SpeechInit /\ [][SpeechNext]_allVars

----------------------------------------------------------------------------
(* Properties                                                              *)

\* Every variable of the three has a value of its type.
TypesOK == TypeOK /\ Audio!TypeOK /\ Reply!TypeOK

\* No sentence of a reply overtakes another (LlmStream).
SentencesInOrder == Reply!SentencesInOrder

Waiting(s) ==
  \/ which = "xiaozhi" /\ pc[s] = "get"
  \/ which = "speech" /\ Audio!Closing(s) /\ consumer[s] = "wait"

Over(s) ==
  \/ which = "xiaozhi" /\ (pc[s] = "done" \/ Abandoned(s))
  \/ which = "speech" /\ consumer[s] = "done"

\* StreamEnds of XiaozhiPool and SpeechEnds of SpeechStream in one formula: the stream of
\* a sentence ends, whatever the provider, the connection it works on and the other
\* streams do.
EveryStreamEnds == \A s \in Streams : Waiting(s) ~> Over(s)
=============================================================================
