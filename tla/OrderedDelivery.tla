-------------------------- MODULE OrderedDelivery --------------------------
(***************************************************************************)
(* What the users of internal/util/queue.go rely on, without channels,     *)
(* locks or callers: items are numbered in the order in which the queue    *)
(* accepts them, the single consumer receives them in that order and at    *)
(* most once, and the only items it never receives are those that a Clear  *)
(* has cut off.                                                            *)
(***************************************************************************)
EXTENDS Naturals

VARIABLES
  accepted,   \* number of items accepted so far; item n is the n-th accepted
  cuts,       \* the values of accepted at which the queue was made or cleared
  delivered   \* the last item handed to the consumer, 0 before the first

vars == <<accepted, cuts, delivered>>

Init ==
  /\ accepted = 0
  /\ cuts = {0}
  /\ delivered = 0

\* A producer's item joins the queue behind everything accepted before.
Accept ==
  /\ accepted' = accepted + 1
  /\ UNCHANGED <<cuts, delivered>>

\* What is waiting now is given up.
Cut ==
  /\ cuts' = cuts \cup {accepted}
  /\ UNCHANGED <<accepted, delivered>>

\* The next item, or the first one accepted after a later cut.
Deliver ==
  \E n \in (delivered + 1) .. accepted :
    /\ n = delivered + 1 \/ n - 1 \in cuts
    /\ delivered' = n
    /\ UNCHANGED <<accepted, cuts>>

Next == Accept \/ Cut \/ Deliver

Spec == Init /\ [][Next]_vars
============================================================================
