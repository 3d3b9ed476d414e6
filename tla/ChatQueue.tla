----------------------------- MODULE ChatQueue -----------------------------
(***************************************************************************)
(* util.Queue (internal/util/queue.go): the queue between the goroutines   *)
(* of a chat session.  A Queue is a buffered Go channel behind a mutex;    *)
(* Clear replaces the channel and closes the old one.  Push and Pop take   *)
(* the channel under the mutex and use it after the unlock, so a Clear or  *)
(* a Close may come between the two: that gap is why each of them is two   *)
(* steps here.                                                             *)
(*                                                                         *)
(* Channels are numbered in the order in which they are created, items in  *)
(* the order in which a channel accepts them.  A queue of this program has *)
(* one consumer goroutine (processChatText, processLLMResponseQueue and    *)
(* processTTSQueue) and any number of producers.                           *)
(***************************************************************************)
EXTENDS Naturals, Sequences

CONSTANTS
  Producers,   \* goroutines that call Push
  Cap,         \* q.cap
  PopModes,    \* the kinds of timeout the consumer passes to Pop
  MaxItems,    \* bound: items accepted in a behaviour
  MaxChans     \* bound: channels created in a behaviour, Clear makes one

ASSUME CapAssumption == Cap \in Nat \ {0}
ASSUME ModesAssumption == PopModes \subseteq {"try", "wait", "timed"}
ASSUME BoundAssumption == MaxItems \in Nat /\ MaxChans \in Nat \ {0}

VARIABLES
  buf,       \* buf[c]: the items buffered in channel c
  shut,      \* the channels on which close() was called
  ch,        \* q.ch
  closed,    \* q.closed
  prod,      \* per producer: the step of its Push, and the channel it holds
  cons,      \* the step and the mode of the consumer's Pop, its channel
  ctxDone,   \* the ctx given to Pop is cancelled
  accepted,  \* history: number of items accepted
  from,      \* history: from[c] is the value of accepted when c was created
  delivered  \* history: the last item that Pop returned

queueVars == <<buf, shut, ch, closed>>
history == <<accepted, from, delivered>>
vars == <<queueVars, prod, cons, ctxDone, history>>

Chans == 1 .. MaxChans

PushSteps == {"idle", "send", "full", "panicked"}
PopSteps == {"idle"} \cup PopModes

TypeOK ==
  /\ buf \in [Chans -> Seq(1 .. MaxItems)]
  /\ shut \subseteq Chans
  /\ ch \in Chans
  /\ closed \in BOOLEAN
  /\ prod \in [Producers -> [step : PushSteps, ch : Chans]]
  /\ cons \in [step : PopSteps, ch : Chans]
  /\ ctxDone \in BOOLEAN
  /\ accepted \in 0 .. MaxItems
  /\ from \in [Chans -> 0 .. MaxItems]
  /\ delivered \in 0 .. MaxItems

Init ==
  /\ buf = [c \in Chans |-> <<>>]
  /\ shut = {}
  /\ ch = 1
  /\ closed = FALSE
  /\ prod = [p \in Producers |-> [step |-> "idle", ch |-> 1]]
  /\ cons = [step |-> "idle", ch |-> 1]
  /\ ctxDone = FALSE
  /\ accepted = 0
  /\ from = [c \in Chans |-> 0]
  /\ delivered = 0

----------------------------------------------------------------------------
(* Push                                                                    *)

\* The locked part of Push.  On a closed queue Push returns ErrQueueClosed
\* here and nothing changes.
PushBegin(p) ==
  /\ prod[p].step = "idle"
  /\ ~closed
  /\ prod' = [prod EXCEPT ![p] = [step |-> "send", ch |-> ch]]
  /\ UNCHANGED <<queueVars, cons, ctxDone, history>>

\* Push returns, successfully or not.
PushEnd(p) == prod' = [prod EXCEPT ![p].step = "idle"]

\* The send of either select: the channel has room.
PushSend(p) ==
  /\ prod[p].step \in {"send", "full"}
  /\ prod[p].ch \notin shut
  /\ Len(buf[prod[p].ch]) < Cap
  /\ accepted < MaxItems
  /\ buf' = [buf EXCEPT ![prod[p].ch] = Append(@, accepted + 1)]
  /\ accepted' = accepted + 1
  /\ PushEnd(p)
  /\ UNCHANGED <<shut, ch, closed, cons, ctxDone, from, delivered>>

\* The default branch of the first select.
PushFull(p) ==
  /\ prod[p].step = "send"
  /\ prod[p].ch \notin shut
  /\ Len(buf[prod[p].ch]) >= Cap
  /\ prod' = [prod EXCEPT ![p].step = "full"]
  /\ UNCHANGED <<queueVars, cons, ctxDone, history>>

\* Mutant: a Push that timed out reports success.
PushTimeoutAccepts(p) ==
  /\ prod[p].step = "full"
  /\ prod[p].ch \notin shut
  /\ accepted < MaxItems
  /\ accepted' = accepted + 1
  /\ PushEnd(p)
  /\ UNCHANGED <<queueVars, cons, ctxDone, from, delivered>>

\* Mutant: the timer only makes the Push try again.
PushTimeoutRetries(p) ==
  /\ prod[p].step = "full"
  /\ UNCHANGED vars

\* time.After(10s) fires in the second select: the item is dropped.
PushTimeout(p) ==
  /\ prod[p].step = "full"
  /\ prod[p].ch \notin shut
  /\ PushEnd(p)
  /\ UNCHANGED <<queueVars, cons, ctxDone, history>>

\* A send on a channel that Clear or Close has closed in the meantime
\* panics, also when the sender was already blocked in the second select.
PushPanic(p) ==
  /\ prod[p].step \in {"send", "full"}
  /\ prod[p].ch \in shut
  /\ prod' = [prod EXCEPT ![p].step = "panicked"]
  /\ UNCHANGED <<queueVars, cons, ctxDone, history>>

----------------------------------------------------------------------------
(* Pop                                                                     *)

\* The locked part of Pop.  mode tells the three kinds of timeout apart: "try"
\* is timeout < 0, "wait" is timeout = 0, "timed" is timeout > 0.  On a
\* closed queue it returns ErrQueueClosed and nothing changes.
PopBegin(mode) ==
  /\ cons.step = "idle"
  /\ ~closed
  /\ cons' = [step |-> mode, ch |-> ch]
  /\ UNCHANGED <<queueVars, prod, ctxDone, history>>

PopEnd == cons' = [cons EXCEPT !.step = "idle"]

Popping == cons.step \in PopModes

\* v, ok := <-ch with ok: also a closed channel hands out what it buffers.
PopItem ==
  /\ Popping
  /\ buf[cons.ch] # <<>>
  /\ delivered' = Head(buf[cons.ch])
  /\ buf' = [buf EXCEPT ![cons.ch] = Tail(@)]
  /\ PopEnd
  /\ UNCHANGED <<shut, ch, closed, prod, ctxDone, accepted, from>>

\* Mutant: a Pop on a closed channel tries again.
PopClosedRetries ==
  /\ Popping
  /\ buf[cons.ch] = <<>>
  /\ cons.ch \in shut
  /\ UNCHANGED vars

\* v, ok := <-ch without ok: ErrQueueClosed.
PopClosed ==
  /\ Popping
  /\ buf[cons.ch] = <<>>
  /\ cons.ch \in shut
  /\ PopEnd
  /\ UNCHANGED <<queueVars, prod, ctxDone, history>>

\* The non-blocking Pop finds nothing: ErrQueueEmpty.
PopEmpty ==
  /\ cons.step = "try"
  /\ buf[cons.ch] = <<>>
  /\ cons.ch \notin shut
  /\ PopEnd
  /\ UNCHANGED <<queueVars, prod, ctxDone, history>>

\* The timer of a timed Pop fires: ErrQueueTimeout.  When an item is there
\* too, select takes either.
PopTimeout ==
  /\ cons.step = "timed"
  /\ PopEnd
  /\ UNCHANGED <<queueVars, prod, ctxDone, history>>

\* <-ctx.Done() in a blocking or timed Pop, again in either order with an
\* item that is there.
PopCtxDone ==
  /\ cons.step \in {"wait", "timed"}
  /\ ctxDone
  /\ PopEnd
  /\ UNCHANGED <<queueVars, prod, ctxDone, history>>

CancelCtx ==
  /\ ~ctxDone
  /\ ctxDone' = TRUE
  /\ UNCHANGED <<queueVars, prod, cons, history>>

----------------------------------------------------------------------------
(* Clear and Close hold the mutex from their first to their last step.     *)

\* Mutant: the old channel is replaced and not closed.
ClearKeepsOpen ==
  /\ ~closed
  /\ ch < MaxChans
  /\ ch' = ch + 1
  /\ from' = [from EXCEPT ![ch + 1] = accepted]
  /\ UNCHANGED <<buf, shut, closed, prod, cons, ctxDone, accepted, delivered>>

Clear ==
  /\ ~closed
  /\ ch < MaxChans
  /\ ch' = ch + 1
  /\ shut' = shut \cup {ch}
  /\ from' = [from EXCEPT ![ch + 1] = accepted]
  /\ UNCHANGED <<buf, closed, prod, cons, ctxDone, accepted, delivered>>

\* Mutant: Close also forgets the channel.
CloseForgetsChannel ==
  /\ ~closed
  /\ closed' = TRUE
  /\ shut' = shut \cup {ch}
  /\ ch' = 0
  /\ UNCHANGED <<buf, prod, cons, ctxDone, history>>

Close ==
  /\ ~closed
  /\ closed' = TRUE
  /\ shut' = shut \cup {ch}
  /\ UNCHANGED <<buf, ch, prod, cons, ctxDone, history>>

----------------------------------------------------------------------------

Push(p) ==
  \/ PushBegin(p)
  \/ PushSend(p)
  \/ PushFull(p)
  \/ PushTimeout(p)
  \/ PushPanic(p)

PopReturn == PopItem \/ PopClosed \/ PopEmpty \/ PopTimeout \/ PopCtxDone

Next ==
  \/ \E p \in Producers : Push(p)
  \/ \E mode \in PopModes : PopBegin(mode)
  \/ PopReturn
  \/ CancelCtx
  \/ Clear
  \/ Close

Spec == Init /\ [][Next]_vars

\* The Go scheduler runs a goroutine that can go on, timers fire, the consumer
\* calls Pop again whenever it has returned, and a select that finds several of
\* its cases ready again and again takes each of them at some time.
Fairness ==
  /\ WF_vars(PopReturn)
  /\ WF_vars(\E mode \in PopModes : PopBegin(mode))
  /\ SF_vars(PopItem)
  /\ \A p \in Producers :
       WF_vars(PushSend(p) \/ PushFull(p) \/ PushTimeout(p) \/ PushPanic(p))

FairSpec == Spec /\ Fairness

----------------------------------------------------------------------------
(* Properties                                                              *)

\* The items of channel c up to this one are delivered or were never in c.
Handled(c) == IF delivered > from[c] THEN delivered ELSE from[c]

\* The items lo + 1 .. hi in the order of their acceptance.
Items(lo, hi) == [i \in 1 .. (hi - lo) |-> lo + i]

\* Whatever was accepted since the last Clear and is not yet delivered waits
\* in the current channel, in order and without a gap: no interleaving of
\* Push, Pop and Clear loses an accepted item into an abandoned channel or
\* lets one of a cleared channel stand before it.
NoAcceptedItemLost == buf[ch] = Items(Handled(ch), accepted)

\* The queue keeps the promise of OrderedDelivery: order, at most once, and
\* no item skipped except by Clear.
Ordered == INSTANCE OrderedDelivery WITH cuts <- {from[c] : c \in 1 .. ch}
DeliversInOrder == Ordered!Spec

\* "ensures all Pop calls return immediately" (Clear): a Pop that waits at a
\* channel which Clear has replaced, or at that of a closed queue, comes
\* back, also when no timer of its own would wake it.
ClearedPopReturns == (Popping /\ (cons.ch # ch \/ closed)) ~> ~Popping

\* "avoid deadlock" (Push): a Push that finds the channel full comes back,
\* by room, by the timer or by the panic of a closed channel.
BlockedPushReturns ==
  \A p \in Producers : (prod[p].step = "full") ~> (prod[p].step # "full")

\* While the consumer keeps calling Pop, no accepted item waits forever: it
\* is delivered, or a Clear removes it, or the queue or its user ends.
AcceptedItemIsHandled ==
  \A n \in 1 .. MaxItems :
    (accepted >= n) ~> (delivered >= n \/ from[ch] >= n \/ closed \/ ctxDone)

\* "a generic, thread-safe queue": no interleaving of its operations makes a
\* Push panic.  The code does not keep this: Clear and Close close a channel
\* that a Push has taken before.
PushNeverPanics == \A p \in Producers : prod[p].step # "panicked"
============================================================================
