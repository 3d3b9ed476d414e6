---------------------------- MODULE MCChatQueue ----------------------------
(* Instances of ChatQueue for TLC: two producer goroutines against the one *)
(* consumer, a channel that is full after two items, two Clears.           *)
EXTENDS ChatQueue

CONSTANTS p1, p2

MCProducers == {p1, p2}
MCAllModes == {"try", "wait", "timed"}
MCWaitOnly == {"wait"}
============================================================================
