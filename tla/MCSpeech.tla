------------------------------ MODULE MCSpeech ------------------------------
(* Speech for TLC.                                                         *)
EXTENDS Speech

CONSTANTS s1, s2, p1

MCStreams == {s1, s2}
MCProviderOf == [s \in MCStreams |-> p1]

\* One stream of each provider, and two that share the connection of doubao.
Alone(kind) == [s \in MCStreams |-> IF s = s1 THEN kind ELSE "none"]
MCSetups == {Alone("edge"), Alone("cosyvoice"), Alone("offline"),
             [s \in MCStreams |-> "doubao"]}

\* All of the audio, an error, or no answer at all.
MCAnswers == {<<"audio", "last">>, <<"bad">>, <<>>}

Piece(id, n, sep) == [id |-> id, n |-> n, sep |-> sep]
Text(text) == [text |-> text, call |-> None, starts |-> FALSE, complete |-> FALSE]
Name(call, complete) ==
  [text |-> <<>>, call |-> call, starts |-> TRUE, complete |-> complete]
Arguments(text, call) ==
  [text |-> text, call |-> call, starts |-> FALSE, complete |-> TRUE]

\* A comma first, short sentences, an open end in the middle of a chunk.
ShortSentences ==
  << Text(<<Piece(1, 2, "pause")>>),
     Text(<<Piece(2, 6, "end"), Piece(3, 2, "end"), Piece(4, 3, "none")>>),
     Text(<<Piece(5, 9, "end")>>),
     Text(<<Piece(6, 3, "none")>>) >>

\* A line break, after which no comma counts; a numbered line; and tool calls that come
\* whole, in parts and one after another.
CallsBetween ==
  << Text(<<Piece(1, 5, "break")>>),
     Text(<<Piece(2, 4, "pause"), Piece(3, 4, "line"), Piece(4, 2, "end")>>),
     Text(<<>>),
     Name("t1", TRUE), Name("t2", FALSE),
     Arguments(<<Piece(5, 7, "end")>>, "t2"), Arguments(<<>>, "t2"),
     Name("t3", TRUE),
     Text(<<Piece(6, 8, "end")>>) >>

MCReplies == {ShortSentences, CallsBetween}

\* What does not move is the same at the start.
MCInit ==
  /\ SpeechInit
  /\ which # "speech" => provider = Alone("edge")
  /\ which # "reply" => chunks = CallsBetween

MCSpec ==
  /\ MCInit /\ [][SpeechNext]_allVars
  /\ Fairness /\ Audio!Fairness
=============================================================================
