----------------------------- MODULE MCServices -----------------------------
(* Services for TLC.                                                       *)
EXTENDS Services

CONSTANTS
  s1, s2, b1,         \* streams of audio to recognise, and one recognised at once
  vad1, vad2, vad3,   \* goroutines that use a detector
  A, B                \* their sessions

MCStreams == {s1, s2}

\* Two goroutines of one session, one of another, and two detectors.
MCVadSessionOf == [g \in {vad1, vad2, vad3} |-> IF g = vad3 THEN B ELSE A]

\* Bound: of s2 and b1 only one is ever called.
OneOfTwo == pc'[s2] = "idle" \/ pc'[b1] = "idle"

MCNext == ServicesNext /\ OneOfTwo

MCSpec == ServicesInit /\ [][MCNext]_allVars /\ (which = "device" => Device!Fairness)
=============================================================================
