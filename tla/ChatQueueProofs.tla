-------------------------- MODULE ChatQueueProofs --------------------------
(***************************************************************************)
(* Proofs about ChatQueue for any number of producers, any capacity and    *)
(* any number of Clears: its types, that it loses no accepted item, and    *)
(* that it implements OrderedDelivery.                                     *)
(***************************************************************************)
EXTENDS ChatQueue, SequenceTheorems, TLAPS

\* The items channel c ever accepted are from[c] + 1 .. End(c).
End(c) == IF c = ch THEN accepted ELSE from[c + 1]

\* The inductive invariant: which channels are closed, how the channels
\* divide the items among them, and that a Pop in progress holds a channel
\* that is not behind the last delivered item.
ChannelInv ==
  /\ shut = {c \in Chans : c < ch \/ (c = ch /\ closed)}
  /\ \A c \in Chans : c > ch => buf[c] = <<>>
  /\ \A c \in 1 .. ch : from[c] <= accepted
  /\ \A c, d \in 1 .. ch : c <= d => from[c] <= from[d]
  /\ from[1] = 0
  /\ delivered <= accepted
  /\ cons.ch <= ch
  /\ Popping => delivered <= End(cons.ch)
  /\ \A p \in Producers : prod[p].ch <= ch
  /\ \A c \in 1 .. ch :
       delivered <= End(c) => buf[c] = Items(Handled(c), End(c))

IInv == TypeOK /\ ChannelInv

\* Types: every variable of the queue keeps its type under every operation.
THEOREM TypeCorrect == Spec => []TypeOK
<1> USE CapAssumption, ModesAssumption, BoundAssumption DEF Chans
<1>1. Init => TypeOK
  <2> SUFFICES ASSUME Init PROVE TypeOK
    OBVIOUS
  <2>1. 1 \in Chans /\ 0 \in 0 .. MaxItems
    OBVIOUS
  <2>2. <<>> \in Seq(1 .. MaxItems)
    OBVIOUS
  <2>3. buf \in [Chans -> Seq(1 .. MaxItems)]
    BY <2>2 DEF Init
  <2>4. QED
    BY <2>1, <2>3 DEF Init, TypeOK, PushSteps, PopSteps
<1>2. TypeOK /\ [Next]_vars => TypeOK'
  <2> SUFFICES ASSUME TypeOK, [Next]_vars PROVE TypeOK'
    OBVIOUS
  <2> USE DEF TypeOK, PushSteps, PopSteps, queueVars, history
  <2>1. ASSUME NEW p \in Producers, PushBegin(p) PROVE TypeOK'
    BY <2>1 DEF PushBegin
  <2>2. ASSUME NEW p \in Producers, PushSend(p) PROVE TypeOK'
    <3>1. prod[p].ch \in Chans /\ accepted + 1 \in 1 .. MaxItems
      BY <2>2 DEF PushSend
    <3>2. buf' \in [Chans -> Seq(1 .. MaxItems)]
      BY <2>2, <3>1 DEF PushSend
    <3>3. prod' \in [Producers -> [step : PushSteps, ch : Chans]]
      BY <2>2 DEF PushSend, PushEnd
    <3>4. accepted' \in 0 .. MaxItems
      BY <2>2, <3>1 DEF PushSend
    <3>5. UNCHANGED <<shut, ch, closed, cons, ctxDone, from, delivered>>
      BY <2>2 DEF PushSend
    <3>6. QED
      BY <3>2, <3>3, <3>4, <3>5
  <2>3. ASSUME NEW p \in Producers, PushFull(p) PROVE TypeOK'
    BY <2>3 DEF PushFull
  <2>4. ASSUME NEW p \in Producers, PushTimeout(p) PROVE TypeOK'
    BY <2>4 DEF PushTimeout, PushEnd
  <2>5. ASSUME NEW p \in Producers, PushPanic(p) PROVE TypeOK'
    BY <2>5 DEF PushPanic
  <2>6. ASSUME NEW mode \in PopModes, PopBegin(mode) PROVE TypeOK'
    BY <2>6 DEF PopBegin
  <2>7. CASE PopItem
    <3>1. cons.ch \in Chans /\ buf[cons.ch] # <<>>
      BY <2>7 DEF PopItem
    <3>2. /\ Head(buf[cons.ch]) \in 1 .. MaxItems
          /\ Tail(buf[cons.ch]) \in Seq(1 .. MaxItems)
      <4>1. buf[cons.ch] \in Seq(1 .. MaxItems)
        BY <3>1
      <4>2. QED
        BY <3>1, <4>1
    <3>3. QED
      <4>1. buf' \in [Chans -> Seq(1 .. MaxItems)]
        BY <2>7, <3>1, <3>2 DEF PopItem
      <4>2. cons' \in [step : PopSteps, ch : Chans]
        BY <2>7 DEF PopItem, PopEnd
      <4>3. delivered' \in 0 .. MaxItems
        BY <2>7, <3>2 DEF PopItem
      <4>4. QED
        BY <2>7, <4>1, <4>2, <4>3 DEF PopItem
  <2>8. CASE PopClosed \/ PopEmpty \/ PopTimeout \/ PopCtxDone
    <3>1. cons' \in [step : PopSteps, ch : Chans]
      BY <2>8 DEF PopClosed, PopEmpty, PopTimeout, PopCtxDone, PopEnd
    <3>2. UNCHANGED <<buf, shut, ch, closed, prod, ctxDone, accepted, from, delivered>>
      BY <2>8 DEF PopClosed, PopEmpty, PopTimeout, PopCtxDone
    <3>3. QED
      BY <3>1, <3>2
  <2>9. CASE CancelCtx
    BY <2>9 DEF CancelCtx
  <2>10. CASE Clear
    <3>1. ch + 1 \in Chans /\ ch' \in Chans /\ shut' \subseteq Chans
      BY <2>10 DEF Clear
    <3>2. from' \in [Chans -> 0 .. MaxItems]
      BY <2>10, <3>1 DEF Clear
    <3>3. QED
      BY <2>10, <3>1, <3>2 DEF Clear
  <2>11. CASE Close
    BY <2>11 DEF Close
  <2>12. CASE UNCHANGED vars
    BY <2>12 DEF vars
  <2>13. QED
    BY <2>1, <2>2, <2>3, <2>4, <2>5, <2>6, <2>7, <2>8, <2>9, <2>10, <2>11,
       <2>12 DEF Next, Push, PopReturn
<1>3. QED
  BY <1>1, <1>2, PTL DEF Spec

----------------------------------------------------------------------------

\* Accepting one more item and delivering the first one, on intervals.
LEMMA AppendItems ==
  ASSUME NEW lo \in Nat, NEW hi \in Nat, lo <= hi
  PROVE  Append(Items(lo, hi), hi + 1) = Items(lo, hi + 1)
<1> DEFINE s == Items(lo, hi)
<1>1. s \in Seq(Nat) /\ Len(s) = hi - lo
  BY DEF Items
<1>2. \A i \in 1 .. (hi - lo) : s[i] = lo + i
  BY DEF Items
<1> HIDE DEF s
<1>3. Append(s, hi + 1) \in Seq(Nat) /\ Len(Append(s, hi + 1)) = hi + 1 - lo
  BY <1>1
<1>4. \A i \in 1 .. (hi + 1 - lo) : Append(s, hi + 1)[i] = lo + i
  BY <1>1, <1>2
<1>5. Append(s, hi + 1) = [i \in 1 .. (hi + 1 - lo) |-> lo + i]
  BY <1>3, <1>4
<1>6. QED
  BY <1>5 DEF Items, s

\* The items after the first of a run of consecutive items.
LEMMA TailItems ==
  ASSUME NEW lo \in Nat, NEW hi \in Nat, Items(lo, hi) # <<>>
  PROVE  /\ lo < hi
         /\ Head(Items(lo, hi)) = lo + 1
         /\ Tail(Items(lo, hi)) = Items(lo + 1, hi)
<1> DEFINE s == Items(lo, hi)
<1>1. lo < hi
  BY DEF Items
<1>2. s \in Seq(Nat) /\ Len(s) = hi - lo /\ \A i \in 1 .. (hi - lo) : s[i] = lo + i
  BY <1>1 DEF Items
<1> HIDE DEF s
<1>3. s # <<>> /\ Head(s) = lo + 1
  BY <1>1, <1>2
<1>4. Tail(s) \in Seq(Nat) /\ Len(Tail(s)) = hi - (lo + 1)
  BY <1>1, <1>2, <1>3
<1>5. \A i \in 1 .. (hi - (lo + 1)) : Tail(s)[i] = (lo + 1) + i
  <2> TAKE i \in 1 .. (hi - (lo + 1))
  <2>1. i + 1 \in 1 .. (hi - lo) /\ Tail(s)[i] = s[i + 1]
    BY <1>1, <1>2, <1>3, <1>4
  <2>2. s[i + 1] = lo + (i + 1)
    BY <1>2, <2>1
  <2>3. i \in Nat /\ lo + (i + 1) = (lo + 1) + i
    OBVIOUS
  <2>4. QED
    BY <2>1, <2>2, <2>3
<1>6. Tail(s) = Items(lo + 1, hi)
  <2> DEFINE t == Items(lo + 1, hi)
  <2>1. /\ t \in Seq(Nat) /\ Len(t) = hi - (lo + 1)
        /\ \A i \in 1 .. (hi - (lo + 1)) : t[i] = (lo + 1) + i
    BY <1>1 DEF Items
  <2> HIDE DEF t
  <2>2. \A i \in 1 .. Len(Tail(s)) : Tail(s)[i] = t[i]
    BY <1>4, <1>5, <2>1
  <2>3. QED
    BY <1>4, <2>1, <2>2, SeqEqual DEF t
<1>7. QED
  BY <1>1, <1>3, <1>6 DEF s

----------------------------------------------------------------------------
(* The channel invariant is inductive: one lemma per kind of step.         *)

\* A new queue has one empty channel.
LEMMA InitChannels == Init => ChannelInv
<1> SUFFICES ASSUME Init PROVE ChannelInv
  OBVIOUS
<1>1. 1 .. ch = {1} /\ End(1) = 0 /\ Handled(1) = 0
  BY BoundAssumption DEF Init, End, Handled, Chans
<1>2. Items(0, 0) = <<>>
  BY DEF Items
<1>3. shut = {c \in Chans : c < ch \/ (c = ch /\ closed)}
  BY DEF Init, Chans
<1>4. QED
  BY <1>1, <1>2, <1>3, BoundAssumption, ModesAssumption
     DEF Init, ChannelInv, Popping, Chans

\* A step that leaves the channels and the history alone and moves callers
\* only to channels that the invariant allows keeps the invariant.
LEMMA CallerStep ==
  ASSUME IInv, UNCHANGED <<queueVars, history>>,
         cons'.ch <= ch,
         Popping' => delivered <= End(cons'.ch),
         \A p \in Producers : prod'[p].ch <= ch
  PROVE  ChannelInv'
<1>1. \A c : End(c)' = End(c) /\ Handled(c)' = Handled(c)
  BY DEF End, Handled, queueVars, history
<1>2. QED
  BY <1>1 DEF IInv, ChannelInv, Popping, queueVars, history, Chans, Items

\* A Push can only send into the current channel, the one that is open, and
\* appends the item after all those accepted before.
LEMMA PushSendChannels ==
  ASSUME IInv, NEW p \in Producers, PushSend(p)
  PROVE  ChannelInv'
<1> USE DEF IInv
<1>1. /\ prod[p].ch = ch /\ ~closed /\ ch \in Chans
      /\ accepted \in Nat /\ delivered \in Nat /\ delivered <= accepted
      /\ from \in [Chans -> 0 .. MaxItems] /\ ch \in Nat
  BY BoundAssumption DEF PushSend, ChannelInv, TypeOK, Chans
<1>2. buf' = [buf EXCEPT ![ch] = Append(@, accepted + 1)] /\ accepted' = accepted + 1
  BY <1>1 DEF PushSend
<1>3. UNCHANGED <<shut, ch, closed, cons, from, delivered>>
  BY DEF PushSend
<1>4. \A c \in Chans : Handled(c)' = Handled(c)
  BY <1>3 DEF Handled
<1>5. \A c \in 1 .. ch : c # ch => End(c)' = End(c)
  BY <1>3 DEF End
<1>6. End(ch) = accepted /\ End(ch)' = accepted + 1
  BY <1>2, <1>3 DEF End
<1>7. buf'[ch] = Items(Handled(ch)', End(ch)')
  <2>1. Handled(ch) \in Nat /\ Handled(ch) <= accepted
    BY <1>1, BoundAssumption DEF Handled, ChannelInv, Chans
  <2>2. buf[ch] = Items(Handled(ch), accepted)
    BY <1>1, <1>6 DEF ChannelInv, Chans
  <2>3. buf'[ch] = Append(buf[ch], accepted + 1)
    BY <1>1, <1>2 DEF TypeOK
  <2>4. Append(Items(Handled(ch), accepted), accepted + 1) = Items(Handled(ch), accepted + 1)
    BY <1>1, <2>1, AppendItems
  <2>5. ch' = ch /\ Handled(ch)' = Handled(ch) /\ End(ch)' = accepted + 1
    BY <1>2, <1>3 DEF Handled, End
  <2>6. QED
    BY <2>2, <2>3, <2>4, <2>5
<1>8. (Popping => delivered <= End(cons.ch))'
  <2> SUFFICES ASSUME Popping PROVE (delivered <= End(cons.ch))'
    BY <1>3 DEF Popping
  <2>1. delivered <= End(cons.ch) /\ cons.ch \in 1 .. ch
    BY DEF ChannelInv, TypeOK, Chans
  <2>2. cons.ch' = cons.ch
    BY <1>3
  <2>3. CASE cons.ch = ch
    BY <1>1, <1>3, <1>6, <2>2, <2>3
  <2>4. CASE cons.ch # ch
    BY <1>3, <1>5, <2>1, <2>2, <2>4
  <2>5. QED
    BY <2>3, <2>4
<1>9. \A c \in 1 .. ch' :
        delivered' <= End(c)' => buf'[c] = Items(Handled(c)', End(c)')
  <2> SUFFICES ASSUME NEW c \in 1 .. ch, delivered <= End(c)'
               PROVE  buf'[c] = Items(Handled(c)', End(c)')
    BY <1>3
  <2>1. CASE c = ch
    BY <1>3, <1>7, <2>1
  <2>2. CASE c # ch
    <3>1. buf'[c] = buf[c]
      BY <1>1, <1>2, <2>2 DEF TypeOK, Chans
    <3>2. buf[c] = Items(Handled(c), End(c))
      BY <1>5, <2>2 DEF ChannelInv
    <3>3. c \in Chans
      BY <1>1, BoundAssumption DEF Chans
    <3>4. QED
      BY <1>4, <1>5, <2>2, <3>1, <3>2, <3>3
  <2>3. QED
    BY <2>1, <2>2
<1>10. \A q \in Producers : prod'[q].ch <= ch'
  BY <1>3 DEF PushSend, PushEnd, ChannelInv, TypeOK
<1>11. \A c \in Chans : c > ch' => buf'[c] = <<>>
  BY <1>1, <1>2, <1>3 DEF ChannelInv, TypeOK, Chans
<1>12. \A c \in 1 .. ch' : from'[c] <= accepted'
  <2>1. ASSUME NEW c \in 1 .. ch PROVE from[c] \in Nat /\ from[c] <= accepted
    BY <1>1, BoundAssumption DEF ChannelInv, Chans
  <2>2. QED
    BY <1>1, <1>2, <1>3, <2>1
<1>13. delivered' <= accepted'
  BY <1>1, <1>2, <1>3
<1>14. QED
  BY <1>3, <1>8, <1>9, <1>10, <1>11, <1>12, <1>13 DEF ChannelInv

\* The item a Pop takes is the first one of its channel that is neither
\* delivered nor older than the channel.
LEMMA PopItemTakesNext ==
  ASSUME IInv, PopItem
  PROVE  LET c == cons.ch IN
         /\ c \in 1 .. ch /\ c \in Chans
         /\ Handled(c) \in Nat /\ End(c) \in Nat /\ End(c) <= accepted
         /\ Handled(c) < End(c)
         /\ delivered' = Handled(c) + 1
         /\ buf' = [buf EXCEPT ![c] = Items(Handled(c) + 1, End(c))]
         /\ UNCHANGED <<shut, ch, closed, prod, accepted, from>>
         /\ cons' = [cons EXCEPT !.step = "idle"]
<1> USE DEF IInv
<1> DEFINE c == cons.ch
<1>1. c \in 1 .. ch /\ c \in Chans
  BY DEF ChannelInv, TypeOK, Chans
<1>2. Handled(c) \in Nat /\ End(c) \in Nat /\ End(c) <= accepted
  <2>1. from[c] \in Nat /\ delivered \in Nat /\ accepted \in Nat
    BY <1>1, BoundAssumption DEF TypeOK
  <2>2. CASE c = ch
    BY <2>1, <2>2 DEF Handled, End
  <2>3. CASE c # ch
    <3>1. c + 1 \in 1 .. ch /\ c + 1 \in Chans
      BY <1>1, <2>3, BoundAssumption DEF TypeOK, Chans
    <3>2. from[c + 1] <= accepted /\ from[c + 1] \in Nat
      BY <3>1, BoundAssumption DEF ChannelInv, TypeOK
    <3>3. QED
      BY <2>1, <2>3, <3>2 DEF Handled, End
  <2>4. QED
    BY <2>2, <2>3
<1>3. buf[c] = Items(Handled(c), End(c)) /\ buf[c] # <<>>
  BY <1>1 DEF ChannelInv, PopItem
<1>4. /\ Handled(c) < End(c)
      /\ Head(buf[c]) = Handled(c) + 1
      /\ Tail(buf[c]) = Items(Handled(c) + 1, End(c))
  BY <1>2, <1>3, TailItems
<1>5. QED
  BY <1>1, <1>2, <1>4 DEF PopItem, PopEnd

\* A Pop takes the first item of the oldest channel that still has one, and
\* the rest stays consecutive.
LEMMA PopItemChannels ==
  ASSUME IInv, PopItem
  PROVE  ChannelInv'
<1> USE DEF IInv
<1> DEFINE c == cons.ch  n == Handled(c) + 1
<1>1. /\ c \in 1 .. ch /\ c \in Chans
      /\ Handled(c) \in Nat /\ End(c) \in Nat /\ End(c) <= accepted
      /\ Handled(c) < End(c)
      /\ delivered' = n
      /\ buf' = [buf EXCEPT ![c] = Items(n, End(c))]
      /\ UNCHANGED <<shut, ch, closed, prod, accepted, from>>
      /\ cons' = [cons EXCEPT !.step = "idle"]
  BY PopItemTakesNext
<1>2. /\ ch \in Chans /\ ch \in Nat /\ accepted \in Nat /\ delivered \in Nat
      /\ from \in [Chans -> Nat] /\ delivered < n /\ from[c] < n /\ n <= End(c)
  BY <1>1, BoundAssumption DEF TypeOK, Chans, Handled
<1>3. \A d \in 1 .. ch : End(d)' = End(d)
  BY <1>1 DEF End
<1>4. ASSUME NEW d \in 1 .. ch, (delivered <= End(d))'
      PROVE  buf'[d] = Items(Handled(d)', End(d)')
  <2>1. d \in Chans /\ from[d] \in Nat
    BY <1>2, BoundAssumption DEF Chans
  <2>2. CASE d = c
    <3>1. Handled(c)' = n
      BY <1>1, <1>2 DEF Handled
    <3>2. buf'[c] = Items(n, End(c))
      BY <1>1 DEF TypeOK
    <3>3. Handled(d)' = n
      BY <1>1, <1>2, <2>2 DEF Handled
    <3>4. QED
      BY <1>3, <2>2, <3>2, <3>3
  <2>3. CASE d < c
    <3>1. End(d) = from[d + 1] /\ d + 1 \in 1 .. ch
      BY <1>1, <1>2, <2>1, <2>3, BoundAssumption DEF End, Chans
    <3>2. from[d + 1] <= from[c]
      BY <1>1, <2>3, <3>1 DEF ChannelInv, Chans
    <3>3. from[d + 1] \in Nat /\ from[c] \in Nat /\ n \in Nat
      <4>1. d + 1 \in Chans
        BY <1>2, <3>1, BoundAssumption DEF Chans
      <4>2. QED
        BY <1>1, <1>2, <4>1
    <3>4. n <= from[d + 1]
      BY <1>1, <1>3, <1>4, <3>1
    <3>5. QED
      BY <1>2, <3>2, <3>3, <3>4
  <2>4. CASE d > c
    <3>1. c # ch /\ c + 1 \in 1 .. ch /\ c + 1 <= d
      BY <1>1, <1>2, <2>4 DEF Chans
    <3>2. End(c) = from[c + 1]
      BY <3>1 DEF End
    <3>3. from[c + 1] <= from[d]
      BY <3>1 DEF ChannelInv
    <3>4. n <= from[d] /\ n \in Nat /\ delivered < from[d]
      BY <1>1, <1>2, <2>1, <3>1, <3>2, <3>3
    <3>5. Handled(d)' = from[d] /\ Handled(d) = from[d]
      BY <1>1, <1>2, <2>1, <3>4 DEF Handled
    <3>6. from[d] <= End(d)
      <4>1. CASE d = ch
        BY <1>2, <2>1, <4>1 DEF ChannelInv, End
      <4>2. CASE d # ch
        <5>1. d + 1 \in 1 .. ch
          BY <1>2, <4>2
        <5>2. QED
          BY <4>2, <5>1 DEF ChannelInv, End
      <4>3. QED
        BY <4>1, <4>2
    <3>7. End(d) \in Nat
      <4>1. CASE d = ch
        BY <1>2, <4>1 DEF End
      <4>2. CASE d # ch
        <5>1. d + 1 \in Chans
          BY <1>2, <2>1, <4>2, BoundAssumption DEF Chans
        <5>2. QED
          BY <1>2, <4>2, <5>1 DEF End
      <4>3. QED
        BY <4>1, <4>2
    <3>8. buf[d] = Items(from[d], End(d))
      BY <1>2, <2>1, <3>4, <3>5, <3>6, <3>7 DEF ChannelInv
    <3>9. buf'[d] = buf[d]
      BY <1>1, <2>1, <2>4 DEF TypeOK
    <3>10. QED
      BY <1>3, <3>5, <3>8, <3>9
  <2>5. QED
    BY <1>1, <1>2, <2>2, <2>3, <2>4 DEF Chans
<1>5. ~Popping' /\ cons'.ch = c
  BY <1>1, ModesAssumption DEF Popping, TypeOK
<1>6. \A d \in Chans : d > ch => buf'[d] = <<>>
  BY <1>1, <1>2 DEF ChannelInv, TypeOK, Chans
<1>7. delivered' <= accepted'
  BY <1>1, <1>2
<1>8. \A d \in 1 .. ch' : (delivered <= End(d) => buf[d] = Items(Handled(d), End(d)))'
  BY <1>1, <1>4
<1>9. QED
  BY <1>1, <1>5, <1>6, <1>7, <1>8 DEF ChannelInv

\* Clear starts an empty channel whose first item will be the next accepted.
LEMMA ClearChannels ==
  ASSUME IInv, Clear
  PROVE  ChannelInv'
<1> USE DEF IInv
<1>1. /\ ch \in Chans /\ ch + 1 \in Chans /\ ch' = ch + 1 /\ ch \in Nat
      /\ accepted \in Nat /\ delivered \in Nat /\ delivered <= accepted
      /\ from \in [Chans -> Nat] /\ from' = [from EXCEPT ![ch + 1] = accepted]
      /\ shut' = shut \cup {ch} /\ ~closed
      /\ UNCHANGED <<buf, closed, prod, cons, accepted, delivered>>
  <2>1. from \in [Chans -> Nat]
    BY BoundAssumption DEF TypeOK
  <2>2. ch \in Chans /\ ch \in Nat /\ ch + 1 \in Chans
    BY BoundAssumption DEF Clear, TypeOK, Chans
  <2>3. QED
    BY <2>1, <2>2, BoundAssumption DEF Clear, TypeOK, ChannelInv
<1>2. from'[ch + 1] = accepted /\ \A d \in 1 .. ch : from'[d] = from[d]
  BY <1>1 DEF Chans
<1>3. \A d \in 1 .. ch : Handled(d)' = Handled(d)
  BY <1>1, <1>2 DEF Handled
<1>4. \A d \in 1 .. ch : End(d)' = End(d)
  <2> TAKE d \in 1 .. ch
  <2>1. CASE d = ch
    BY <1>1, <1>2, <2>1 DEF End
  <2>2. CASE d # ch
    <3>1. d + 1 \in 1 .. ch
      BY <1>1, <2>2
    <3>2. QED
      BY <1>1, <1>2, <2>2, <3>1 DEF End
  <2>3. QED
    BY <2>1, <2>2
<1>5. (delivered <= End(ch) => buf[ch] = Items(Handled(ch), End(ch)))'
  <2>1. End(ch)' = accepted /\ Handled(ch)' = accepted
    BY <1>1, <1>2 DEF End, Handled
  <2>2. buf'[ch'] = <<>>
    BY <1>1 DEF ChannelInv
  <2>3. Items(accepted, accepted) = <<>>
    BY <1>1 DEF Items
  <2>4. QED
    BY <2>1, <2>2, <2>3
<1>6. \A d \in 1 .. ch' : (delivered <= End(d) => buf[d] = Items(Handled(d), End(d)))'
  <2> TAKE d \in 1 .. ch'
  <2>1. CASE d = ch'
    BY <1>5, <2>1
  <2>2. CASE d # ch'
    <3>1. d \in 1 .. ch
      BY <1>1, <2>2
    <3>2. QED
      BY <1>1, <1>3, <1>4, <3>1 DEF ChannelInv
  <2>3. QED
    BY <2>1, <2>2
<1>7. (Popping => delivered <= End(cons.ch))'
  BY <1>1, <1>4 DEF Popping, ChannelInv, TypeOK, Chans
<1>8. shut' = {d \in Chans : d < ch' \/ (d = ch' /\ closed')}
  BY <1>1 DEF ChannelInv, Chans
<1>9. \A d \in Chans : d > ch' => buf'[d] = <<>>
  BY <1>1 DEF ChannelInv, Chans
<1>10. \A d, e \in 1 .. ch' : d <= e => from'[d] <= from'[e]
  BY <1>1, <1>2 DEF ChannelInv, Chans
<1>11. (\A d \in 1 .. ch' : from'[d] <= accepted') /\ from'[1] = 0
  BY <1>1, <1>2 DEF ChannelInv, Chans
<1>12. cons'.ch <= ch' /\ \A p \in Producers : prod'[p].ch <= ch'
  BY <1>1 DEF ChannelInv, TypeOK, Chans
<1>13. QED
  BY <1>1, <1>6, <1>7, <1>8, <1>9, <1>10, <1>11, <1>12 DEF ChannelInv

\* Close touches no buffer.
LEMMA CloseChannels ==
  ASSUME IInv, Close
  PROVE  ChannelInv'
<1>1. \A c : End(c)' = End(c) /\ Handled(c)' = Handled(c)
  BY DEF End, Handled, Close, history
<1>2. shut' = {c \in Chans : c < ch' \/ (c = ch' /\ closed')}
  BY DEF IInv, ChannelInv, TypeOK, Close, Chans
<1>3. QED
  BY <1>1, <1>2 DEF IInv, ChannelInv, Popping, Close, history

\* Every step of Push, Pop, Clear and Close keeps the channels in order.
LEMMA StepChannels == IInv /\ [Next]_vars => ChannelInv'
<1> SUFFICES ASSUME IInv, [Next]_vars PROVE ChannelInv'
  OBVIOUS
<1>1. /\ ch \in Nat /\ cons.ch <= ch /\ \A p \in Producers : prod[p].ch <= ch
      /\ Popping => delivered <= End(cons.ch)
      /\ prod \in [Producers -> [step : PushSteps, ch : Chans]]
      /\ cons \in [step : PopSteps, ch : Chans]
  BY DEF IInv, ChannelInv, TypeOK, Chans
<1>2. ASSUME NEW p \in Producers, PushSend(p) PROVE ChannelInv'
  BY <1>2, PushSendChannels
<1>3. ASSUME NEW p \in Producers, PushBegin(p) \/ PushFull(p) \/ PushTimeout(p) \/ PushPanic(p)
      PROVE  ChannelInv'
  <2>1. UNCHANGED <<queueVars, cons, history>>
    BY <1>3 DEF PushBegin, PushFull, PushTimeout, PushPanic
  <2>2. \A q \in Producers : prod'[q].ch <= ch
    BY <1>1, <1>3 DEF PushBegin, PushFull, PushTimeout, PushPanic, PushEnd
  <2>3. QED
    BY <1>1, <2>1, <2>2, CallerStep DEF Popping
<1>4. ASSUME NEW mode \in PopModes, PopBegin(mode) PROVE ChannelInv'
  <2>1. UNCHANGED <<queueVars, history, prod>> /\ cons'.ch = ch
    BY <1>4 DEF PopBegin
  <2>2. delivered <= End(ch)
    BY DEF IInv, ChannelInv, End
  <2>3. QED
    BY <1>1, <2>1, <2>2, CallerStep
<1>5. CASE PopItem
  BY <1>5, PopItemChannels
<1>6. CASE PopClosed \/ PopEmpty \/ PopTimeout \/ PopCtxDone
  <2>1. UNCHANGED <<queueVars, history, prod>>
    BY <1>6 DEF PopClosed, PopEmpty, PopTimeout, PopCtxDone
  <2>2. cons'.ch = cons.ch /\ cons'.step = "idle"
    BY <1>1, <1>6 DEF PopClosed, PopEmpty, PopTimeout, PopCtxDone, PopEnd
  <2>3. QED
    BY <1>1, <2>1, <2>2, ModesAssumption, CallerStep DEF Popping
<1>7. CASE CancelCtx \/ UNCHANGED vars
  <2>1. UNCHANGED <<queueVars, history, prod, cons>>
    BY <1>7 DEF CancelCtx, vars
  <2>2. QED
    BY <1>1, <2>1, CallerStep DEF Popping
<1>8. CASE Clear
  BY <1>8, ClearChannels
<1>9. CASE Close
  BY <1>9, CloseChannels
<1>10. QED
  BY <1>2, <1>3, <1>4, <1>5, <1>6, <1>7, <1>8, <1>9 DEF Next, Push, PopReturn

\* The inductive invariant holds throughout.
LEMMA Invariant == Spec => []IInv
<1>1. Init => ChannelInv
  BY InitChannels
<1>2. TypeOK /\ ChannelInv /\ [Next]_vars => ChannelInv'
  BY StepChannels DEF IInv
<1>3. QED
  BY <1>1, <1>2, TypeCorrect, PTL DEF Spec, IInv

----------------------------------------------------------------------------
(* The results                                                             *)

\* Between two Clears the queue loses nothing: whatever Push accepted and
\* Pop has not returned waits, in order, in the channel that the next Push
\* and the next Pop will take.
THEOREM NothingLost == Spec => []NoAcceptedItemLost
<1>1. IInv => NoAcceptedItemLost
  <2> SUFFICES ASSUME IInv PROVE NoAcceptedItemLost
    OBVIOUS
  <2>1. ch \in 1 .. ch
    BY BoundAssumption DEF IInv, TypeOK, Chans
  <2>2. delivered <= End(ch) /\ End(ch) = accepted
    BY DEF IInv, ChannelInv, End
  <2>3. QED
    BY <2>1, <2>2 DEF IInv, ChannelInv, NoAcceptedItemLost
<1>2. QED
  BY <1>1, Invariant, PTL

\* util.Queue implements OrderedDelivery: the consumer sees every item at
\* most once, in the order of acceptance, and misses only what Clear cut off.
THEOREM ImplementsOrderedDelivery == Spec => DeliversInOrder
<1> DEFINE cutsOf == {from[c] : c \in 1 .. ch}
<1>1. Init => Ordered!Init
  <2> SUFFICES ASSUME Init PROVE Ordered!Init
    OBVIOUS
  <2>1. cutsOf = {0}
    BY BoundAssumption DEF Init, Chans
  <2>2. QED
    BY <2>1 DEF Init, Ordered!Init
<1>2. IInv /\ IInv' /\ [Next]_vars => [Ordered!Next]_(Ordered!vars)
  <2> SUFFICES ASSUME IInv, IInv', [Next]_vars
               PROVE  Ordered!Next \/ UNCHANGED <<accepted, cutsOf, delivered>>
    BY DEF Ordered!vars
  <2>1. ASSUME NEW p \in Producers, PushSend(p) PROVE Ordered!Next
    <3>1. accepted' = accepted + 1 /\ UNCHANGED <<ch, from, delivered>>
      BY <2>1 DEF PushSend
    <3>2. Ordered!Accept
      BY <3>1 DEF Ordered!Accept
    <3>3. QED
      BY <3>2 DEF Ordered!Next
  <2>2. CASE PopItem
    <3> DEFINE c == cons.ch  n == Handled(c) + 1
    <3>1. /\ c \in 1 .. ch /\ c \in Chans
          /\ Handled(c) \in Nat /\ End(c) \in Nat /\ End(c) <= accepted
          /\ Handled(c) < End(c)
          /\ delivered' = n
          /\ UNCHANGED <<ch, accepted, from>>
      BY <2>2, PopItemTakesNext
    <3>2. delivered \in Nat /\ accepted \in Nat /\ from[c] \in Nat
      BY <3>1, BoundAssumption DEF IInv, TypeOK
    <3>3. n \in (delivered + 1) .. accepted
      BY <3>1, <3>2 DEF Handled
    <3>4. n = delivered + 1 \/ n - 1 \in cutsOf
      BY <3>1, <3>2 DEF Handled
    <3>5. Ordered!Deliver
      BY <3>1, <3>3, <3>4 DEF Ordered!Deliver
    <3>6. QED
      BY <3>5 DEF Ordered!Next
  <2>3. CASE Clear
    <3>1. /\ ch \in Nat /\ ch + 1 \in Chans /\ ch' = ch + 1
          /\ from' = [from EXCEPT ![ch + 1] = accepted]
          /\ UNCHANGED <<accepted, delivered>>
      BY <2>3, BoundAssumption DEF Clear, IInv, TypeOK, Chans
    <3>2. from'[ch + 1] = accepted /\ \A d \in 1 .. ch : from'[d] = from[d]
      BY <3>1, BoundAssumption DEF IInv, TypeOK, Chans
    <3>3. 1 .. ch' = (1 .. ch) \cup {ch + 1}
      BY <3>1, BoundAssumption DEF Chans
    <3>4. cutsOf' = cutsOf \cup {accepted}
      BY <3>2, <3>3
    <3>5. Ordered!Cut
      BY <3>1, <3>4 DEF Ordered!Cut
    <3>6. QED
      BY <3>5 DEF Ordered!Next
  <2>4. ASSUME UNCHANGED <<ch, history>>
        PROVE  UNCHANGED <<accepted, cutsOf, delivered>>
    BY <2>4 DEF history
  <2>5. QED
    BY <2>1, <2>2, <2>3, <2>4
       DEF Next, Push, PopReturn, PushBegin, PushFull, PushTimeout, PushPanic,
           PopBegin, PopClosed, PopEmpty, PopTimeout, PopCtxDone, CancelCtx,
           Close, queueVars, vars
<1>3. QED
  BY <1>1, <1>2, Invariant, PTL DEF Spec, DeliversInOrder, Ordered!Spec
============================================================================
