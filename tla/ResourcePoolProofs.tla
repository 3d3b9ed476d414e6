------------------------- MODULE ResourcePoolProofs -------------------------
(***************************************************************************)
(* Proofs about ResourcePool for any number of users, any configuration    *)
(* and any number of resources.                                            *)
(***************************************************************************)
EXTENDS ResourcePool, SequenceTheorems, FiniteSetTheorems, FunctionTheorems,
        TLAPS

----------------------------------------------------------------------------
(* A channel of resources that are all different                           *)

Elements(s) == {s[i] : i \in 1 .. Len(s)}
Distinct(s) == \A i, j \in 1 .. Len(s) : s[i] = s[j] => i = j

\* The receive takes the first resource out of the channel.
LEMMA TailDistinct ==
  ASSUME NEW S, NEW s \in Seq(S), s # <<>>, Distinct(s)
  PROVE  /\ Distinct(Tail(s))
         /\ Elements(Tail(s)) = Elements(s) \ {Head(s)}
         /\ Head(s) \in Elements(s)
<1>1. /\ Len(s) \in Nat /\ Len(s) >= 1
      /\ Len(Tail(s)) = Len(s) - 1
      /\ \A i \in 1 .. Len(Tail(s)) : Tail(s)[i] = s[i + 1]
      /\ Head(s) = s[1]
  BY HeadTailProperties, LenProperties, EmptySeq
<1>2. Distinct(Tail(s))
  BY <1>1 DEF Distinct
<1>3. ASSUME NEW x \in Elements(Tail(s)) PROVE x \in Elements(s) \ {Head(s)}
  <2>1. PICK i \in 1 .. Len(Tail(s)) : x = Tail(s)[i]
    BY <1>3 DEF Elements
  <2>2. i + 1 \in 1 .. Len(s) /\ 1 \in 1 .. Len(s) /\ i + 1 # 1 /\ x = s[i + 1]
    BY <1>1, <2>1
  <2>3. QED
    BY <1>1, <2>2 DEF Elements, Distinct
<1>4. ASSUME NEW x \in Elements(s) \ {Head(s)} PROVE x \in Elements(Tail(s))
  <2>1. PICK i \in 1 .. Len(s) : x = s[i]
    BY <1>4 DEF Elements
  <2>2. i - 1 \in 1 .. Len(Tail(s)) /\ x = Tail(s)[i - 1]
    BY <1>1, <1>4, <2>1
  <2>3. QED
    BY <2>2 DEF Elements
<1>5. Head(s) \in Elements(s)
  BY <1>1 DEF Elements
<1>6. QED
  BY <1>2, <1>3, <1>4, <1>5

\* Release puts a resource into the channel that is not there yet.
LEMMA AppendDistinct ==
  ASSUME NEW S, NEW s \in Seq(S), NEW e \in S, Distinct(s), e \notin Elements(s)
  PROVE  /\ Distinct(Append(s, e))
         /\ Elements(Append(s, e)) = Elements(s) \cup {e}
<1>1. /\ Len(s) \in Nat
      /\ Len(Append(s, e)) = Len(s) + 1
      /\ \A i \in 1 .. Len(s) : Append(s, e)[i] = s[i]
      /\ Append(s, e)[Len(s) + 1] = e
  BY AppendProperties, LenProperties
<1>2. \A i \in 1 .. Len(s) + 1 : i \in 1 .. Len(s) \/ i = Len(s) + 1
  BY <1>1
<1>3. Distinct(Append(s, e))
  BY <1>1, <1>2 DEF Distinct, Elements
<1>4. ASSUME NEW x \in Elements(Append(s, e)) PROVE x \in Elements(s) \cup {e}
  BY <1>1, <1>2, <1>4 DEF Elements
<1>5. ASSUME NEW x \in Elements(s) \cup {e} PROVE x \in Elements(Append(s, e))
  <2>1. CASE x = e
    BY <1>1, <2>1 DEF Elements
  <2>2. CASE x \in Elements(s)
    <3>1. PICK i \in 1 .. Len(s) : x = s[i]
      BY <2>2 DEF Elements
    <3>2. i \in 1 .. Len(Append(s, e)) /\ x = Append(s, e)[i]
      BY <1>1, <3>1
    <3>3. QED
      BY <3>2 DEF Elements
  <2>3. QED
    BY <1>5, <2>1, <2>2
<1>6. QED
  BY <1>3, <1>4, <1>5

Prefix(s, k) == {s[i] : i \in 1 .. k}
Suffix(s, k) == SubSeq(s, k + 1, Len(s))

\* What is left of the channel when its first k resources are taken out.
LEMMA SuffixDistinct ==
  ASSUME NEW S, NEW s \in Seq(S), NEW k \in Nat, k <= Len(s), Distinct(s)
  PROVE  /\ Suffix(s, k) \in Seq(S)
         /\ Len(Suffix(s, k)) = Len(s) - k
         /\ Distinct(Suffix(s, k))
         /\ Elements(Suffix(s, k)) = Elements(s) \ Prefix(s, k)
         /\ Prefix(s, k) \subseteq Elements(s)
<1> DEFINE t == Suffix(s, k)
<1>1. Len(s) \in Nat /\ \A i \in 1 .. Len(s) : s[i] \in S
  BY LenProperties, ElementOfSeq
<1>2. \A i \in (k + 1) .. Len(s) : s[i] \in S
  BY <1>1
<1>3. /\ t \in Seq(S)
      /\ Len(t) = IF k + 1 <= Len(s) THEN Len(s) - (k + 1) + 1 ELSE 0
      /\ \A i \in 1 .. (Len(s) - (k + 1) + 1) : t[i] = s[(k + 1) + i - 1]
  BY <1>1, <1>2, SubSeqProperties DEF Suffix
<1> HIDE DEF t
<1>4. Len(t) = Len(s) - k /\ \A i \in 1 .. Len(t) : t[i] = s[k + i]
  <2>1. Len(t) = Len(s) - k
    BY <1>1, <1>3
  <2>2. ASSUME NEW i \in 1 .. Len(t) PROVE t[i] = s[k + i]
    <3>1. i \in 1 .. (Len(s) - (k + 1) + 1) /\ (k + 1) + i - 1 = k + i
      BY <1>1, <2>1, <2>2
    <3>2. QED
      BY <1>3, <3>1
  <2>3. QED
    BY <2>1, <2>2
<1>5. Distinct(t)
  BY <1>1, <1>4 DEF Distinct
<1>6. ASSUME NEW x \in Elements(t) PROVE x \in Elements(s) \ Prefix(s, k)
  <2>1. PICK i \in 1 .. Len(t) : x = t[i]
    BY <1>6 DEF Elements
  <2>2. k + i \in 1 .. Len(s) /\ x = s[k + i] /\ k + i \notin 1 .. k
    BY <1>1, <1>4, <2>1
  <2>3. ASSUME x \in Prefix(s, k) PROVE FALSE
    <3>1. PICK j \in 1 .. k : x = s[j]
      BY <2>3 DEF Prefix
    <3>2. j \in 1 .. Len(s)
      BY <1>1, <3>1
    <3>3. QED
      BY <2>2, <3>1, <3>2 DEF Distinct
  <2>4. QED
    BY <2>2, <2>3 DEF Elements
<1>7. ASSUME NEW x \in Elements(s) \ Prefix(s, k) PROVE x \in Elements(t)
  <2>1. PICK i \in 1 .. Len(s) : x = s[i]
    BY <1>7 DEF Elements
  <2>2. i \notin 1 .. k
    BY <1>7, <2>1 DEF Prefix
  <2>3. i - k \in 1 .. Len(t) /\ x = t[i - k]
    BY <1>1, <1>4, <2>1, <2>2
  <2>4. QED
    BY <2>3 DEF Elements
<1>8. Prefix(s, k) \subseteq Elements(s)
  BY <1>1 DEF Prefix, Elements
<1>9. QED
  BY <1>3, <1>4, <1>5, <1>6, <1>7, <1>8 DEF t

\* The clean-up takes k resources out and the next one to the back.
LEMMA RotateDistinct ==
  ASSUME NEW S, NEW s \in Seq(S), NEW k \in Nat, k < Len(s), Distinct(s)
  PROVE  LET t == Append(Suffix(s, k + 1), s[k + 1])
         IN  /\ t \in Seq(S)
             /\ Len(t) = Len(s) - k
             /\ Distinct(t)
             /\ Elements(t) = Elements(s) \ Prefix(s, k)
<1> DEFINE u == Suffix(s, k + 1)
           e == s[k + 1]
<1>1. Len(s) \in Nat /\ k + 1 \in 1 .. Len(s) /\ k + 1 \in Nat /\ k + 1 <= Len(s)
  BY LenProperties
<1>2. e \in S
  BY <1>1, ElementOfSeq
<1>3. /\ u \in Seq(S) /\ Len(u) = Len(s) - (k + 1) /\ Distinct(u)
      /\ Elements(u) = Elements(s) \ Prefix(s, k + 1)
  BY <1>1, SuffixDistinct
<1>4. Prefix(s, k + 1) = Prefix(s, k) \cup {e}
  <2>1. 1 .. (k + 1) = (1 .. k) \cup {k + 1}
    OBVIOUS
  <2>2. QED
    BY <2>1 DEF Prefix
<1>5. e \in Elements(s) /\ e \notin Prefix(s, k)
  <2>1. e \in Elements(s)
    BY <1>1 DEF Elements
  <2>2. ASSUME NEW j \in 1 .. k PROVE s[j] # e
    BY <1>1, <2>2 DEF Distinct
  <2>3. QED
    BY <2>1, <2>2 DEF Prefix
<1> HIDE DEF u, e
<1>6. e \notin Elements(u)
  BY <1>3, <1>4
<1>7. Append(u, e) \in Seq(S) /\ Len(Append(u, e)) = Len(u) + 1
  BY <1>2, <1>3, AppendProperties
<1>8. Distinct(Append(u, e)) /\ Elements(Append(u, e)) = Elements(u) \cup {e}
  BY <1>2, <1>3, <1>6, AppendDistinct
<1>9. Elements(u) \cup {e} = Elements(s) \ Prefix(s, k)
  BY <1>3, <1>4, <1>5
<1>10. Len(Append(u, e)) = Len(s) - k
  BY <1>1, <1>3, <1>7
<1>11. QED
  BY <1>7, <1>8, <1>9, <1>10 DEF u, e

\* The first k resources of the channel are k resources.
LEMMA PrefixCardinality ==
  ASSUME NEW S, NEW s \in Seq(S), NEW k \in Nat, k <= Len(s), Distinct(s)
  PROVE  IsFiniteSet(Prefix(s, k)) /\ Cardinality(Prefix(s, k)) = k
<1> DEFINE f == [i \in 1 .. k |-> s[i]]
<1>1. Len(s) \in Nat /\ \A i \in 1 .. k : i \in 1 .. Len(s)
  BY LenProperties
<1>2. f \in Bijection(1 .. k, Prefix(s, k))
  <2>1. f \in [1 .. k -> Prefix(s, k)]
    BY DEF Prefix
  <2>2. \A i, j \in 1 .. k : f[i] = f[j] => i = j
    BY <1>1 DEF Distinct
  <2>3. \A x \in Prefix(s, k) : \E i \in 1 .. k : f[i] = x
    BY DEF Prefix
  <2>4. QED
    BY <2>1, <2>2, <2>3, Fun_IsBij
<1>3. IsFiniteSet(1 .. k) /\ Cardinality(1 .. k) = k
  BY FS_Interval
<1>4. ExistsBijection(1 .. k, Prefix(s, k))
  BY <1>2 DEF ExistsBijection
<1>5. QED
  BY <1>3, <1>4, FS_Bijection

----------------------------------------------------------------------------
(* Types                                                                   *)

\* The pool that the constructor returns is well typed.
LEMMA TypeInit == Init => TypeOK
<1> SUFFICES ASSUME Init PROVE TypeOK
  OBVIOUS
<1> USE ConfigAssumption, BoundAssumption DEF Ids
<1>1. resources \subseteq Ids /\ created \in 0 .. MaxCreated
  BY DEF Init
<1>2. available \in Seq(Ids)
  <2>1. available = [i \in 1 .. MinSize |-> i] /\ MinSize \in Nat
    BY DEF Init
  <2>2. \A i \in 1 .. MinSize : i \in Ids
    OBVIOUS
  <2>3. QED
    BY <2>1, <2>2, IsASeq
<1>3. user \in [Users -> [step : Steps, res : 0 .. MaxCreated]]
  BY DEF Init, Nobody, Steps
<1>4. QED
  BY <1>1, <1>2, <1>3 DEF Init, TypeOK

\* Taking the first k resources out of the channel keeps its type.
LEMMA DropType ==
  ASSUME available \in Seq(Ids), NEW k \in Nat, k <= Len(available)
  PROVE  Drop(k) \in Seq(Ids)
<1>1. Len(available) \in Nat /\ \A i \in 1 .. Len(available) : available[i] \in Ids
  BY LenProperties, ElementOfSeq
<1>2. \A i \in (k + 1) .. Len(available) : available[i] \in Ids
  BY <1>1
<1>3. QED
  BY <1>1, <1>2, SubSeqProperties DEF Drop

\* The type of the channel after a clean-up
LEMMA RotateType ==
  ASSUME available \in Seq(Ids), NEW k \in 0 .. Len(available)
  PROVE  (IF k < Len(available) THEN Append(Drop(k + 1), available[k + 1]) ELSE <<>>)
           \in Seq(Ids)
<1>1. Len(available) \in Nat
  BY LenProperties
<1>2. CASE k < Len(available)
  <2>1. available[k + 1] \in Ids
    BY <1>1, <1>2, ElementOfSeq
  <2>2. Drop(k + 1) \in Seq(Ids)
    BY <1>1, <1>2, DropType
  <2>3. QED
    BY <1>2, <2>1, <2>2, AppendProperties
<1>3. CASE ~(k < Len(available))
  BY <1>3, EmptySeq
<1>4. QED
  BY <1>2, <1>3

\* The number of resources that Resize removes
LEMMA ResizeAmount ==
  ASSUME TypeOK, NEW n \in Sizes
  PROVE  /\ n \in Nat /\ Cardinality(resources) \in Nat
         /\ Excess(n) \in Nat
         /\ Removable(n) \in Nat /\ Removable(n) <= Len(available)
<1>1. resources \subseteq Ids /\ maxSize \in Nat /\ available \in Seq(Ids)
  BY DEF TypeOK
<1>2. Cardinality(resources) \in Nat
  <2>1. IsFiniteSet(Ids)
    BY BoundAssumption, FS_Interval DEF Ids
  <2>2. QED
    BY <1>1, <2>1, FS_Subset, FS_CardinalityType
<1>3. n \in Nat /\ Len(available) \in Nat
  BY <1>1, SizesAssumption, LenProperties
<1>4. Excess(n) \in Nat
  BY <1>2, <1>3 DEF Excess
<1>5. QED
  BY <1>2, <1>3, <1>4 DEF Removable

\* Every variable of the pool keeps its type under every operation.
LEMMA TypeStep == TypeOK /\ [Next]_vars => TypeOK'
<1> SUFFICES ASSUME TypeOK, [Next]_vars PROVE TypeOK'
  OBVIOUS
<1> USE ConfigAssumption, BoundAssumption DEF TypeOK, poolVars
<1> DEFINE UserType == [Users -> [step : Steps, res : 0 .. MaxCreated]]
<1>1. ASSUME NEW u \in Users, NEW step \in Steps, Goto(u, step) PROVE user' \in UserType
  BY <1>1 DEF Goto
<1>2. ASSUME NEW u \in Users, Return(u) PROVE user' \in UserType
  BY <1>2 DEF Return, Nobody, Steps
<1>3. ASSUME NEW u \in Users, NEW step \in Steps, NEW r \in 0 .. MaxCreated,
             user' = [user EXCEPT ![u] = [step |-> step, res |-> r]]
      PROVE  user' \in UserType
  BY <1>3
<1>4. /\ "select" \in Steps /\ "idle" \in Steps /\ "panicked" \in Steps
      /\ "create" \in Steps /\ "mark" \in Steps /\ "using" \in Steps
      /\ "again" \in Steps /\ "check" \in Steps
  BY DEF Steps
<1>5. ASSUME NEW u \in Users, NEW step \in Steps, Goto(u, step),
             UNCHANGED <<poolVars, closer, cleaner, spinning, careless>>
      PROVE  TypeOK'
  BY <1>1, <1>5
<1>6. ASSUME NEW u \in Users, Receive(u) PROVE TypeOK'
  <2>1. Head(available) \in Ids /\ available' \in Seq(Ids)
    BY <1>6, HeadTailProperties DEF Receive
  <2>2. user' \in UserType
    BY <1>3, <1>4, <1>6, <2>1 DEF Receive, Ids
  <2>3. QED
    BY <1>6, <2>1, <2>2 DEF Receive
<1>7. ASSUME NEW u \in Users, TryCreate(u) PROVE TypeOK'
  <2>1. CASE Goto(u, "select") /\ UNCHANGED <<created, resources, inUse>>
    <3>1. user' \in UserType
      BY <1>1, <1>4, <2>1
    <3>2. QED
      BY <1>7, <2>1, <3>1 DEF TryCreate
  <2>2. CASE /\ created < MaxCreated
             /\ created' = created + 1
             /\ resources' = resources \cup {created'}
             /\ inUse' = [inUse EXCEPT ![created'] = TRUE]
             /\ user' = [user EXCEPT ![u] = [step |-> "using", res |-> created']]
    <3>1. created' \in Ids /\ created' \in 0 .. MaxCreated
      BY <2>2 DEF Ids
    <3>2. user' \in UserType
      BY <1>3, <1>4, <2>2, <3>1
    <3>3. QED
      BY <1>7, <2>2, <3>1, <3>2 DEF TryCreate
  <2>3. QED
    BY <1>7, <2>1, <2>2 DEF TryCreate
<1>8. ASSUME NEW u \in Users, NEW step \in Steps, DestroyReceived(u, step) PROVE TypeOK'
  <2>1. user' \in UserType
    BY <1>3, <1>8 DEF DestroyReceived
  <2>2. QED
    BY <1>8, <2>1 DEF DestroyReceived
<1>9. ASSUME NEW u \in Users, Mark(u) PROVE TypeOK'
  BY <1>1, <1>4, <1>9 DEF Mark
<1>10. ASSUME NEW u \in Users, Acquire(u) PROVE TypeOK'
  <2>1. CASE AcquireBegin(u)
    BY <1>4, <1>5, <2>1 DEF AcquireBegin
  <2>2. CASE AcquireTimeout(u)
    BY <1>4, <1>5, <2>2 DEF AcquireTimeout
  <2>3. CASE ReceiveNil(u)
    BY <1>4, <1>5, <2>3 DEF ReceiveNil
  <2>4. CASE FindNone(u)
    BY <1>4, <1>5, <2>4 DEF FindNone
  <2>5. CASE CheckInvalid(u)
    BY <1>4, <1>8, <2>5 DEF CheckInvalid
  <2>6. CASE ResetFails(u)
    BY <1>4, <1>8, <2>6 DEF ResetFails
  <2>7. CASE CheckPassed(u)
    BY <1>4, <1>5, <2>7 DEF CheckPassed
  <2>8. QED
    BY <1>6, <1>7, <1>9, <1>10, <2>1, <2>2, <2>3, <2>4, <2>5, <2>6, <2>7 DEF Acquire
<1>11. ASSUME NEW u \in Users, Put(user[u].res), user' \in UserType, careless' \in BOOLEAN
       PROVE  TypeOK'
  <2>1. resources' \subseteq Ids
    BY <1>11 DEF Put
  <2>2. inUse' \in [Ids -> BOOLEAN]
    BY <1>11 DEF Put
  <2>3. available' \in Seq(Ids)
    <3>1. CASE UNCHANGED available
      BY <3>1
    <3>2. CASE ~Refused(user[u].res) /\ available' = Append(available, user[u].res)
      <4>1. user[u].res \in Ids
        BY <3>2 DEF Refused
      <4>2. QED
        BY <3>2, <4>1, AppendProperties
    <3>3. QED
      BY <1>11, <3>1, <3>2 DEF Put
  <2>4. QED
    BY <1>11, <2>1, <2>2, <2>3 DEF Put
<1>12. ASSUME NEW u \in Users, Release(u) PROVE TypeOK'
  BY <1>1, <1>2, <1>4, <1>11, <1>12 DEF Release
<1>13. ASSUME NEW u \in Users, ReleaseAgain(u) PROVE TypeOK'
  BY <1>2, <1>11, <1>13 DEF ReleaseAgain
<1>14. ASSUME NEW u \in Users, Forget(u) PROVE TypeOK'
  BY <1>2, <1>14 DEF Forget
<1>15. ASSUME NEW r \in Ids, Break(r) PROVE TypeOK'
  BY <1>15 DEF Break
<1>16. ASSUME NEW k \in 0 .. Len(available), Cleanup(k) PROVE TypeOK'
  BY <1>16, RotateType DEF Cleanup
<1>17. ASSUME NEW n \in Sizes, Resize(n) PROVE TypeOK'
  <2>1. available' \in Seq(Ids) /\ resources' \subseteq Ids
    BY <1>17, ResizeAmount, DropType DEF Resize
  <2>2. spinning' \in BOOLEAN
    BY <1>17 DEF Resize
  <2>3. maxSize' \in Nat \ {0}
    BY <1>17, SizesAssumption DEF Resize
  <2>4. QED
    BY <1>17, <2>1, <2>2, <2>3 DEF Resize
<1>18. CASE CleanerExit \/ CloseBegin \/ CloseCancel \/ UNCHANGED vars
  BY <1>18 DEF CleanerExit, CloseBegin, CloseCancel, vars
<1>19. CASE CloseFinish
  BY <1>19, EmptySeq DEF CloseFinish
<1>20. QED
  BY <1>10, <1>12, <1>13, <1>14, <1>15, <1>16, <1>17, <1>18, <1>19
     DEF Next, UserStep, Maintenance

\* Types: the pool's map, its channel and its users keep their types, however
\* often a user releases and however often the pool is resized.
THEOREM TypeCorrect == Spec => []TypeOK
BY TypeInit, TypeStep, PTL DEF Spec

----------------------------------------------------------------------------
(* The limits, whatever the users do                                       *)

\* u has received a resource and not yet marked it.
Pending(u) == user[u].step \in {"check", "mark"}

\* The inductive invariant.  A resource in transit between the channel and its
\* mark belongs to one Acquire only: it is in no channel, and no Release puts
\* it back because it is not marked as in use.
PoolInv ==
  /\ resources \subseteq 1 .. created
  /\ Distinct(available)
  /\ \A r \in Idle : r \in resources /\ ~inUse[r]
  /\ \A u \in Users : Pending(u) =>
       /\ user[u].res \in 1 .. created
       /\ ~inUse[user[u].res]
       /\ user[u].res \notin Idle
  /\ \A u, v \in Users : Pending(u) /\ Pending(v) /\ u # v => user[u].res # user[v].res
  /\ Len(available) <= Larger(MaxIdle, MinSize)
  /\ spinning \/ Cardinality(resources) <= maxSize

\* HeldIsAlive and NoSlotLost without the condition on the users
HeldAlive == closer # "closed" => \A u \in Users : Holds(u) => user[u].res \in resources
SlotsKept ==
  ~closed => \A r \in resources : r \in Idle \/ \E u \in Users : Holds(u) /\ user[u].res = r

\* The inductive invariant as long as no user has been careless.
HoldInv ==
  /\ \A u \in Users : user[u].step # "again"
  /\ \A u \in Users : Holds(u) => user[u].res \in 1 .. created
  /\ \A u \in Users : user[u].step = "using" /\ closer # "closed" => inUse[user[u].res]
  /\ closer = "closed" => available = <<>>
  /\ SoleUse
  /\ HeldAlive
  /\ SlotsKept

\* The sets and sequences of this module are those of ResourcePool.
LEMMA Names ==
  /\ Idle = Elements(available)
  /\ Idle' = Elements(available')
  /\ \A k : First(k) = Prefix(available, k) /\ Drop(k) = Suffix(available, k)
BY DEF Idle, Elements, First, Prefix, Drop, Suffix

\* What the pool manages is finite.
LEMMA Finite ==
  ASSUME TypeOK
  PROVE  IsFiniteSet(resources) /\ Cardinality(resources) \in Nat
<1>1. IsFiniteSet(Ids)
  BY BoundAssumption, FS_Interval DEF Ids
<1>2. QED
  BY <1>1, FS_Subset, FS_CardinalityType DEF TypeOK

\* The pool that the constructor returns is within its limits.
LEMMA PoolInit == Init => PoolInv
<1> SUFFICES ASSUME Init PROVE PoolInv
  OBVIOUS
<1> USE ConfigAssumption DEF Init
<1>1. Len(available) = MinSize
  OBVIOUS
<1>2. Distinct(available)
  BY DEF Distinct
<1>3. \A r \in Idle : r \in resources /\ ~inUse[r]
  <2>1. \A i \in 1 .. MinSize : available[i] = i
    OBVIOUS
  <2>2. 1 .. MinSize \subseteq Ids
    BY BoundAssumption DEF Ids
  <2>3. QED
    BY <1>1, <2>1, <2>2 DEF Idle
<1>4. \A u \in Users : ~Pending(u)
  BY DEF Pending, Nobody
<1>5. MinSize <= Larger(MaxIdle, MinSize)
  BY DEF Larger
<1>6. Cardinality(resources) = MinSize
  BY FS_Interval
<1>7. resources \subseteq 1 .. created /\ MinSize <= maxSize
  OBVIOUS
<1>8. Cardinality(resources) <= maxSize /\ Len(available) <= Larger(MaxIdle, MinSize)
  BY <1>1, <1>5, <1>6, <1>7
<1> HIDE DEF Init
<1>9. QED
  BY <1>2, <1>3, <1>4, <1>7, <1>8 DEF PoolInv

\* A step that leaves the pool alone and lets nobody receive
Bystander ==
  /\ UNCHANGED <<resources, inUse, available, maxSize, created, spinning>>
  /\ \A u \in Users : Pending(u)' => Pending(u) /\ user'[u].res = user[u].res

\* A step that leaves map, channel and marks alone keeps the limits.
LEMMA BystanderPool == PoolInv /\ Bystander => PoolInv'
<1> SUFFICES ASSUME PoolInv, Bystander PROVE PoolInv'
  OBVIOUS
<1>1. Idle' = Idle /\ Distinct(available)'
  BY DEF PoolInv, Bystander, Idle, Distinct
<1>2. (\A u, v \in Users : Pending(u) /\ Pending(v) /\ u # v => user[u].res # user[v].res)'
  BY DEF PoolInv, Bystander
<1>3. (\A u \in Users : Pending(u) =>
         user[u].res \in 1 .. created /\ ~inUse[user[u].res] /\ user[u].res \notin Idle)'
  BY <1>1 DEF PoolInv, Bystander
<1>4. QED
  BY <1>1, <1>2, <1>3 DEF PoolInv, Bystander

\* A step of u that leads to a step at which it does not hold a received
\* resource, or on from one to the other
LEMMA GotoBystander ==
  ASSUME TypeOK, NEW u \in Users, NEW step, Goto(u, step),
         step \in {"check", "mark"} => Pending(u),
         UNCHANGED <<resources, inUse, available, maxSize, created, spinning>>
  PROVE  Bystander
<1>1. \A v \in Users : user'[v].res = user[v].res
  BY DEF Goto, TypeOK
<1>2. \A v \in Users : v # u => user'[v] = user[v]
  BY DEF Goto, TypeOK
<1>3. user'[u].step = step
  BY DEF Goto, TypeOK
<1>4. \A v \in Users : Pending(v)' => Pending(v)
  BY <1>2, <1>3 DEF Pending
<1>5. QED
  BY <1>1, <1>4 DEF Bystander

\* Resources leave the map and the channel, and at most users let go of theirs.
Shrink ==
  /\ resources' \subseteq resources
  /\ UNCHANGED <<inUse, created>>
  /\ Distinct(available')
  /\ Idle' \subseteq Idle /\ Idle' \subseteq resources'
  /\ Len(available') <= Len(available)
  /\ spinning' \/ Cardinality(resources') <= maxSize'
  /\ \A u \in Users : Pending(u)' => Pending(u) /\ user'[u].res = user[u].res

\* A step that only takes resources out of map and channel keeps the limits.
LEMMA ShrinkPool ==
  ASSUME TypeOK, TypeOK', PoolInv, Shrink
  PROVE  PoolInv'
<1>1. Distinct(available)'
  BY DEF Shrink, Distinct
<1>2. (\A u, v \in Users : Pending(u) /\ Pending(v) /\ u # v => user[u].res # user[v].res)'
  BY DEF PoolInv, Shrink
<1>3. (\A u \in Users : Pending(u) =>
         user[u].res \in 1 .. created /\ ~inUse[user[u].res] /\ user[u].res \notin Idle)'
  BY DEF PoolInv, Shrink
<1>4. (\A r \in Idle : r \in resources /\ ~inUse[r])'
  BY DEF PoolInv, Shrink
<1>5. Len(available') <= Larger(MaxIdle, MinSize)
  <2>1. Len(available) \in Nat /\ Len(available') \in Nat
    BY LenProperties DEF TypeOK
  <2>2. Larger(MaxIdle, MinSize) \in Nat
    BY ConfigAssumption DEF Larger
  <2>3. QED
    BY <2>1, <2>2 DEF PoolInv, Shrink
<1>6. resources' \subseteq 1 .. created'
  BY DEF PoolInv, Shrink
<1>7. QED
  BY <1>1, <1>2, <1>3, <1>4, <1>5, <1>6 DEF PoolInv, Shrink

\* Fewer resources are within the same limit.
LEMMA FewerWithin ==
  ASSUME TypeOK, PoolInv, resources' \subseteq resources, UNCHANGED <<maxSize, spinning>>
  PROVE  spinning' \/ Cardinality(resources') <= maxSize'
<1>1. IsFiniteSet(resources) /\ Cardinality(resources) \in Nat
  BY Finite
<1>2. Cardinality(resources') <= Cardinality(resources) /\ Cardinality(resources') \in Nat
  BY <1>1, FS_Subset, FS_CardinalityType
<1>3. QED
  BY <1>1, <1>2 DEF PoolInv, TypeOK

\* The receive of Acquire only shortens the channel.
LEMMA ReceivePool ==
  ASSUME TypeOK, TypeOK', PoolInv, NEW u \in Users, Receive(u)
  PROVE  PoolInv'
<1> DEFINE r == Head(available)
<1>1. /\ r \in Ids /\ Len(available') = Len(available) - 1 /\ Len(available) \in Nat
  BY HeadTailProperties, LenProperties DEF Receive, TypeOK
<1>2. Distinct(available') /\ Idle' = Idle \ {r} /\ r \in Idle
  BY TailDistinct, Names DEF Receive, PoolInv, TypeOK
<1>3. r \in resources /\ ~inUse[r] /\ r \in 1 .. created
  BY <1>2 DEF PoolInv
<1>4. UNCHANGED <<resources, inUse, maxSize, created, spinning>>
  BY DEF Receive
<1>5. /\ user'[u] = [step |-> "check", res |-> r]
      /\ \A v \in Users : v # u => user'[v] = user[v]
  BY DEF Receive, TypeOK
<1> HIDE DEF r
<1>6. ASSUME NEW v \in Users, Pending(v)'
      PROVE  /\ user'[v].res \in 1 .. created
             /\ ~inUse[user'[v].res]
             /\ user'[v].res \notin Idle'
  <2>1. CASE v = u
    BY <1>2, <1>3, <1>5, <2>1
  <2>2. CASE v # u
    <3>1. Pending(v) /\ user'[v].res = user[v].res
      BY <1>5, <1>6, <2>2 DEF Pending
    <3>2. QED
      BY <1>2, <3>1 DEF PoolInv
  <2>3. QED
    BY <2>1, <2>2
<1>7. ASSUME NEW v \in Users, NEW w \in Users, Pending(v)', Pending(w)', v # w
      PROVE  user'[v].res # user'[w].res
  <2>1. \A x \in Users : x # u /\ Pending(x)' => Pending(x) /\ user'[x].res = user[x].res
    BY <1>5 DEF Pending
  <2>2. \A x \in Users : x # u /\ Pending(x)' => user'[x].res # r
    BY <1>2, <2>1 DEF PoolInv
  <2>3. CASE v = u \/ w = u
    BY <1>5, <1>7, <2>2, <2>3
  <2>4. CASE v # u /\ w # u
    BY <1>7, <2>1, <2>4 DEF PoolInv
  <2>5. QED
    BY <2>3, <2>4
<1>8. Len(available') <= Larger(MaxIdle, MinSize)
  <2>1. Larger(MaxIdle, MinSize) \in Nat
    BY ConfigAssumption DEF Larger
  <2>2. QED
    BY <1>1, <2>1 DEF PoolInv
<1>9. (\A x \in Idle : x \in resources /\ ~inUse[x])'
  BY <1>2, <1>4 DEF PoolInv
<1>10. Distinct(available)'
  BY <1>2 DEF Distinct
<1>11. (\A v \in Users : Pending(v) =>
          user[v].res \in 1 .. created /\ ~inUse[user[v].res] /\ user[v].res \notin Idle)'
  BY <1>4, <1>6
<1>12. (\A v, w \in Users : Pending(v) /\ Pending(w) /\ v # w => user[v].res # user[w].res)'
  BY <1>7
<1>13. resources' \subseteq 1 .. created' /\ (spinning' \/ Cardinality(resources') <= maxSize')
  BY <1>4 DEF PoolInv
<1>14. QED
  BY <1>8, <1>9, <1>10, <1>11, <1>12, <1>13 DEF PoolInv

\* tryCreateResource adds a resource only below the maximum, and not to the
\* channel.
LEMMA TryCreatePool ==
  ASSUME TypeOK, TypeOK', PoolInv, NEW u \in Users, TryCreate(u)
  PROVE  PoolInv'
<1>1. CASE Goto(u, "select") /\ UNCHANGED <<created, resources, inUse>>
  <2>1. UNCHANGED <<resources, inUse, available, maxSize, created, spinning>>
    BY <1>1 DEF TryCreate
  <2>2. QED
    BY <1>1, <2>1, GotoBystander, BystanderPool
<1>2. CASE /\ Cardinality(resources) < maxSize
           /\ created < MaxCreated
           /\ created' = created + 1
           /\ resources' = resources \cup {created'}
           /\ inUse' = [inUse EXCEPT ![created'] = TRUE]
           /\ user' = [user EXCEPT ![u] = [step |-> "using", res |-> created']]
  <2>1. UNCHANGED <<available, maxSize, spinning>> /\ Idle' = Idle /\ Distinct(available)'
    BY DEF TryCreate, Idle, PoolInv, Distinct
  <2>2. created \in Nat /\ created' \in Ids /\ created' \notin 1 .. created
    BY <1>2, BoundAssumption DEF TypeOK, Ids
  <2>3. ASSUME NEW r \in 1 .. created
        PROVE  r \in 1 .. created' /\ inUse'[r] = inUse[r]
    <3>1. r \in Nat /\ r \in 1 .. (created + 1) /\ r # created' /\ r \in Ids
      BY <1>2, <2>2, <2>3, BoundAssumption DEF Ids
    <3>2. inUse \in [Ids -> BOOLEAN]
      BY DEF TypeOK
    <3>3. QED
      BY <1>2, <3>1, <3>2
  <2>4. \A v \in Users : Pending(v)' => Pending(v) /\ user'[v].res = user[v].res
    BY <1>2 DEF TypeOK, Pending
  <2>5. (\A v \in Users : Pending(v) =>
           user[v].res \in 1 .. created /\ ~inUse[user[v].res] /\ user[v].res \notin Idle)'
    BY <2>1, <2>3, <2>4 DEF PoolInv
  <2>6. (\A v, w \in Users : Pending(v) /\ Pending(w) /\ v # w => user[v].res # user[w].res)'
    BY <2>4 DEF PoolInv
  <2>7. (\A r \in Idle : r \in resources /\ ~inUse[r])'
    BY <1>2, <2>1, <2>3 DEF PoolInv
  <2>8. resources' \subseteq 1 .. created'
    <3>1. created' \in 1 .. created'
      BY <1>2, <2>2
    <3>2. QED
      BY <1>2, <2>3, <3>1 DEF PoolInv
  <2>9. Cardinality(resources') <= maxSize'
    <3>1. IsFiniteSet(resources) /\ Cardinality(resources) \in Nat
      BY Finite
    <3>2. created' \notin resources
      BY <2>2 DEF PoolInv
    <3>3. Cardinality(resources') = Cardinality(resources) + 1
      BY <1>2, <3>1, <3>2, FS_AddElement
    <3>4. QED
      BY <1>2, <2>1, <3>1, <3>3 DEF TypeOK
  <2>10. Len(available') <= Larger(MaxIdle, MinSize)
    BY <2>1 DEF PoolInv
  <2>11. QED
    BY <2>1, <2>5, <2>6, <2>7, <2>8, <2>9, <2>10 DEF PoolInv
<1>3. QED
  BY <1>1, <1>2 DEF TryCreate

\* Marking a received resource does not mark one that is idle.
LEMMA MarkPool ==
  ASSUME TypeOK, TypeOK', PoolInv, NEW u \in Users, Mark(u)
  PROVE  PoolInv'
<1>1. UNCHANGED <<resources, available, maxSize, created, spinning>>
  BY DEF Mark
<1>2. Idle' = Idle /\ Distinct(available)'
  BY <1>1 DEF Idle, PoolInv, Distinct
<1>3. Pending(u) /\ user[u].res \in 1 .. created /\ user[u].res \notin Idle
  BY DEF Mark, At, Pending, PoolInv
<1>4. \A v \in Users : user'[v].res = user[v].res
  BY DEF Mark, Goto, TypeOK
<1>5. \A v \in Users : Pending(v)' => Pending(v) /\ v # u
  BY DEF Mark, Goto, TypeOK, Pending
<1>6. \A r \in Ids : r # user[u].res => inUse'[r] = inUse[r]
  BY DEF Mark, TypeOK
<1>7. 1 .. created \subseteq Ids
  BY BoundAssumption DEF TypeOK, Ids
<1>8. (\A v \in Users : Pending(v) =>
         user[v].res \in 1 .. created /\ ~inUse[user[v].res] /\ user[v].res \notin Idle)'
  <2> SUFFICES ASSUME NEW v \in Users, Pending(v)'
               PROVE  /\ user'[v].res \in 1 .. created'
                      /\ ~inUse'[user'[v].res]
                      /\ user'[v].res \notin Idle'
    OBVIOUS
  <2>1. Pending(v) /\ v # u /\ user'[v].res = user[v].res
    BY <1>4, <1>5
  <2>2. user[v].res # user[u].res /\ user[v].res \in Ids
    BY <1>3, <1>7, <2>1 DEF PoolInv
  <2>3. QED
    BY <1>1, <1>2, <1>6, <2>1, <2>2 DEF PoolInv
<1>9. (\A v, w \in Users : Pending(v) /\ Pending(w) /\ v # w => user[v].res # user[w].res)'
  BY <1>4, <1>5 DEF PoolInv
<1>10. (\A r \in Idle : r \in resources /\ ~inUse[r])'
  <2>1. Idle \subseteq Ids
    BY <1>7 DEF PoolInv
  <2>2. QED
    BY <1>1, <1>2, <1>3, <1>6, <2>1 DEF PoolInv
<1>11. QED
  BY <1>1, <1>2, <1>8, <1>9, <1>10 DEF PoolInv

\* Destroying a received resource leaves every idle one in the map.
LEMMA DestroyPool ==
  ASSUME TypeOK, TypeOK', PoolInv, NEW u \in Users, Pending(u),
         NEW step \in {"create", "select"}, DestroyReceived(u, step)
  PROVE  PoolInv'
<1>1. UNCHANGED <<inUse, available, maxSize, created, spinning>>
  BY DEF DestroyReceived
<1>2. Idle' = Idle /\ Distinct(available') /\ Len(available') <= Len(available)
  <2>1. Len(available) \in Nat
    BY LenProperties DEF TypeOK
  <2>2. QED
    BY <1>1, <2>1 DEF Idle, PoolInv
<1>3. resources' = resources \ {user[u].res} /\ Idle \subseteq resources'
  BY DEF DestroyReceived, PoolInv
<1>4. \A v \in Users : Pending(v)' => Pending(v) /\ user'[v].res = user[v].res
  BY DEF DestroyReceived, TypeOK, Pending
<1>5. Shrink
  BY <1>1, <1>2, <1>3, <1>4, FewerWithin DEF Shrink
<1>6. QED
  BY <1>5, ShrinkPool

\* A Release: u is no longer at a step where it holds a received resource.
LEMMA PutPool ==
  ASSUME TypeOK, TypeOK', PoolInv, NEW u \in Users, Put(user[u].res),
         \A v \in Users : Pending(v)' => Pending(v) /\ user'[v].res = user[v].res
  PROVE  PoolInv'
<1> DEFINE r == user[u].res
<1>1. UNCHANGED <<maxSize, created, spinning>>
  BY DEF Put
<1>2. CASE UNCHANGED <<resources, inUse, available>>
  BY <1>1, <1>2, BystanderPool DEF Bystander
<1>3. CASE /\ ~Refused(r) /\ Surplus(r)
           /\ resources' = resources \ {r}
           /\ UNCHANGED <<inUse, available>>
  <2>1. r \notin Idle
    BY <1>3 DEF Refused, PoolInv
  <2>2. Idle' = Idle /\ Distinct(available')
    BY <1>3 DEF Idle, PoolInv
  <2>3. Len(available') <= Len(available)
    BY <1>3, LenProperties DEF TypeOK
  <2>4. Shrink
    BY <1>1, <1>3, <2>1, <2>2, <2>3, FewerWithin DEF Shrink, PoolInv
  <2>5. QED
    BY <2>4, ShrinkPool
<1>4. CASE /\ ~Refused(r) /\ ~Surplus(r)
           /\ inUse' = [inUse EXCEPT ![r] = FALSE]
           /\ available' = Append(available, r)
           /\ UNCHANGED resources
  <2>1. r \in resources /\ inUse[r] /\ r \notin Idle /\ r \in Ids
    BY <1>4 DEF Refused, PoolInv, TypeOK
  <2>2. Distinct(available') /\ Idle' = Idle \cup {r}
    BY <1>4, <2>1, AppendDistinct, Names DEF TypeOK, PoolInv
  <2>3. Len(available') <= Larger(MaxIdle, MinSize)
    <3>1. Len(available') = Len(available) + 1 /\ Len(available) \in Nat
      BY <1>4, <2>1, AppendProperties, LenProperties DEF TypeOK
    <3>2. ~(Len(available) >= MaxIdle)
      BY <1>4 DEF Surplus
    <3>3. QED
      BY <3>1, <3>2, ConfigAssumption DEF Larger
  <2>4. \A x \in Ids : inUse'[x] = (IF x = r THEN FALSE ELSE inUse[x])
    BY <1>4, <2>1 DEF TypeOK
  <2>5. 1 .. created \subseteq Ids
    BY BoundAssumption DEF TypeOK, Ids
  <2>6. \A v \in Users : Pending(v) => user[v].res # r
    BY <2>1 DEF PoolInv
  <2>7. (\A x \in Idle : x \in resources /\ ~inUse[x])'
    <3>1. Idle \subseteq Ids
      BY <2>5 DEF PoolInv
    <3>2. QED
      BY <1>4, <2>1, <2>2, <2>4, <3>1 DEF PoolInv
  <2>8. (\A v \in Users : Pending(v) =>
           user[v].res \in 1 .. created /\ ~inUse[user[v].res] /\ user[v].res \notin Idle)'
    <3> SUFFICES ASSUME NEW v \in Users, Pending(v)'
                 PROVE  /\ user'[v].res \in 1 .. created'
                        /\ ~inUse'[user'[v].res]
                        /\ user'[v].res \notin Idle'
      OBVIOUS
    <3>1. Pending(v) /\ user'[v].res = user[v].res
      OBVIOUS
    <3>2. /\ user[v].res \in 1 .. created /\ ~inUse[user[v].res]
          /\ user[v].res \notin Idle /\ user[v].res # r
      BY <2>6, <3>1 DEF PoolInv
    <3> HIDE DEF r
    <3>3. QED
      BY <1>1, <2>2, <2>4, <2>5, <3>1, <3>2
  <2>9. (\A v, w \in Users : Pending(v) /\ Pending(w) /\ v # w => user[v].res # user[w].res)'
    BY DEF PoolInv
  <2>10. Distinct(available)'
    BY <2>2 DEF Distinct
  <2>11. resources' \subseteq 1 .. created' /\ (spinning' \/ Cardinality(resources') <= maxSize')
    BY <1>1, <1>4 DEF PoolInv
  <2>12. QED
    BY <2>3, <2>7, <2>8, <2>9, <2>10, <2>11 DEF PoolInv
<1>5. QED
  BY <1>2, <1>3, <1>4 DEF Put

\* The clean-up destroys a prefix of the channel and rotates the next resource.
LEMMA CleanupPool ==
  ASSUME TypeOK, TypeOK', PoolInv, NEW k \in 0 .. Len(available), Cleanup(k)
  PROVE  PoolInv'
<1>1. UNCHANGED <<inUse, maxSize, created, user, spinning>> /\ resources' = resources \ First(k)
  BY DEF Cleanup
<1>2. Len(available) \in Nat /\ available \in Seq(Ids) /\ Distinct(available) /\ k \in Nat
  BY LenProperties DEF TypeOK, PoolInv
<1>3. Distinct(available') /\ Idle' = Idle \ First(k) /\ Len(available') <= Len(available)
  <2>1. CASE k < Len(available)
    <3>1. available' = Append(Suffix(available, k + 1), available[k + 1])
      BY <2>1 DEF Cleanup, Drop, Suffix
    <3>2. /\ Len(available') = Len(available) - k
          /\ Distinct(available')
          /\ Elements(available') = Elements(available) \ Prefix(available, k)
      BY <1>2, <2>1, <3>1, RotateDistinct
    <3>3. QED
      BY <1>2, <3>2, Names
  <2>2. CASE k = Len(available)
    <3>1. available' = <<>>
      BY <1>2, <2>2 DEF Cleanup
    <3>2. Idle' = {} /\ Distinct(available') /\ Len(available') = 0
      BY <3>1 DEF Idle, Distinct
    <3>3. Idle \subseteq First(k)
      BY <2>2 DEF Idle, First
    <3>4. QED
      BY <1>2, <3>2, <3>3
  <2>3. QED
    BY <1>2, <2>1, <2>2
<1>4. Shrink
  BY <1>1, <1>3, FewerWithin DEF Shrink, PoolInv, Pending
<1>5. QED
  BY <1>4, ShrinkPool

\* Resize removes idle resources until the new maximum is met, or spins.
LEMMA ResizePool ==
  ASSUME TypeOK, TypeOK', PoolInv, NEW n \in Sizes, Resize(n)
  PROVE  PoolInv'
<1> DEFINE k == Removable(n)
<1>1. /\ k \in Nat /\ k <= Len(available) /\ Excess(n) \in Nat
      /\ resources' = resources \ First(k)
      /\ available' = Drop(k)
  BY ResizeAmount DEF Resize
<1>11. ASSUME ~spinning' PROVE k >= Excess(n)
  <2>1. ~(k < Excess(n))
    BY <1>11 DEF Resize
  <2>2. QED
    BY <1>1, <2>1
<1> HIDE DEF k
<1>2. UNCHANGED <<inUse, created, user>> /\ maxSize' = n /\ ~spinning
  BY DEF Resize, Unlocked
<1>3. /\ Distinct(available')
      /\ Idle' = Idle \ First(k)
      /\ Len(available') = Len(available) - k
      /\ First(k) \subseteq Idle
  <2>1. First(k) = Prefix(available, k) /\ Drop(k) = Suffix(available, k)
    BY Names
  <2>2. available \in Seq(Ids) /\ Distinct(available)
    BY DEF TypeOK, PoolInv
  <2>3. /\ Distinct(Suffix(available, k))
        /\ Len(Suffix(available, k)) = Len(available) - k
        /\ Elements(Suffix(available, k)) = Elements(available) \ Prefix(available, k)
        /\ Prefix(available, k) \subseteq Elements(available)
    BY <1>1, <2>2, SuffixDistinct
  <2>4. Idle = Elements(available) /\ Idle' = Elements(available')
    BY Names
  <2>5. QED
    BY <1>1, <2>1, <2>3, <2>4
<1>4. IsFiniteSet(First(k)) /\ Cardinality(First(k)) = k
  <2>1. available \in Seq(Ids) /\ Distinct(available) /\ First(k) = Prefix(available, k)
    BY Names DEF TypeOK, PoolInv
  <2>2. QED
    BY <1>1, <2>1, PrefixCardinality
<1>5. IsFiniteSet(resources) /\ Cardinality(resources) \in Nat
  BY Finite
<1>6. Cardinality(resources') = Cardinality(resources) - k
  <2>1. resources \cap First(k) = First(k)
    BY <1>3 DEF PoolInv
  <2>2. Cardinality(resources \ First(k))
          = Cardinality(resources) - Cardinality(resources \cap First(k))
    BY <1>5, FS_Difference
  <2>3. QED
    BY <1>1, <1>4, <2>1, <2>2
<1>7. ASSUME ~spinning' PROVE Cardinality(resources') <= maxSize'
  <2>1. n \in Nat /\ maxSize \in Nat /\ Cardinality(resources) <= maxSize
    BY <1>2, SizesAssumption DEF TypeOK, PoolInv
  <2>2. CASE n < maxSize
    <3>1. k >= Excess(n)
      BY <1>7, <1>11
    <3>2. Cardinality(resources) - k <= n
      BY <1>1, <1>5, <2>1, <2>2, <3>1 DEF Excess
    <3>3. QED
      BY <1>2, <1>6, <3>2
  <2>3. CASE ~(n < maxSize)
    BY <1>1, <1>2, <1>5, <1>6, <2>1, <2>3
  <2>4. QED
    BY <2>2, <2>3
<1>8. Len(available') <= Len(available)
  BY <1>1, <1>3, LenProperties DEF TypeOK
<1>9. Shrink
  <2>1. Idle' \subseteq Idle /\ Idle' \subseteq resources' /\ resources' \subseteq resources
    BY <1>1, <1>3 DEF PoolInv
  <2>2. \A u \in Users : Pending(u)' => Pending(u) /\ user'[u].res = user[u].res
    BY <1>2 DEF Pending
  <2>3. spinning' \/ Cardinality(resources') <= maxSize'
    BY <1>7
  <2>4. QED
    BY <1>2, <1>3, <1>8, <2>1, <2>2, <2>3 DEF Shrink
<1>10. QED
  BY <1>9, ShrinkPool

\* Every step keeps the limits of the pool.
LEMMA PoolStep == TypeOK /\ TypeOK' /\ PoolInv /\ [Next]_vars => PoolInv'
<1> SUFFICES ASSUME TypeOK, TypeOK', PoolInv, [Next]_vars PROVE PoolInv'
  OBVIOUS
<1> USE DEF poolVars
<1>1. ASSUME NEW u \in Users, Acquire(u) PROVE PoolInv'
  <2>1. CASE AcquireBegin(u)
    BY <2>1, GotoBystander, BystanderPool DEF AcquireBegin
  <2>2. CASE AcquireTimeout(u)
    BY <2>2, GotoBystander, BystanderPool DEF AcquireTimeout
  <2>3. CASE ReceiveNil(u)
    BY <2>3, GotoBystander, BystanderPool DEF ReceiveNil
  <2>4. CASE FindNone(u)
    BY <2>4, GotoBystander, BystanderPool DEF FindNone
  <2>5. CASE CheckPassed(u)
    BY <2>5, GotoBystander, BystanderPool DEF CheckPassed, At, Pending
  <2>6. CASE CheckInvalid(u)
    BY <2>6, DestroyPool DEF CheckInvalid, At, Pending
  <2>7. CASE ResetFails(u)
    BY <2>7, DestroyPool DEF ResetFails, At, Pending
  <2>8. QED
    BY <1>1, <2>1, <2>2, <2>3, <2>4, <2>5, <2>6, <2>7, ReceivePool, TryCreatePool,
       MarkPool DEF Acquire
<1>2. ASSUME NEW u \in Users, Return(u) \/ Goto(u, "again")
      PROVE  \A v \in Users : Pending(v)' => Pending(v) /\ user'[v].res = user[v].res
  <2>1. CASE Return(u)
    BY <2>1 DEF Return, Nobody, Pending, TypeOK
  <2>2. CASE Goto(u, "again")
    <3>1. \A v \in Users : user'[v].res = user[v].res
      BY <2>2 DEF Goto, TypeOK
    <3>2. user'[u].step = "again" /\ \A v \in Users : v # u => user'[v] = user[v]
      BY <2>2 DEF Goto, TypeOK
    <3>3. QED
      BY <3>1, <3>2 DEF Pending
  <2>3. QED
    BY <1>2, <2>1, <2>2
<1>3. ASSUME NEW u \in Users, Release(u) \/ ReleaseAgain(u) PROVE PoolInv'
  BY <1>2, <1>3, PutPool DEF Release, ReleaseAgain
<1>4. ASSUME NEW u \in Users, Forget(u) PROVE PoolInv'
  BY <1>2, <1>4, BystanderPool DEF Forget, Bystander
<1>5. CASE (\E r \in Ids : Break(r)) \/ CleanerExit \/ CloseBegin \/ CloseCancel \/ UNCHANGED vars
  <2>1. UNCHANGED <<resources, inUse, available, maxSize, created, spinning, user>>
    BY <1>5 DEF Break, CleanerExit, CloseBegin, CloseCancel, vars
  <2>2. QED
    BY <2>1, BystanderPool DEF Bystander, Pending
<1>6. CASE CloseFinish
  <2>1. Distinct(available') /\ Idle' = {} /\ Len(available') <= Len(available)
    <3>1. available' = <<>> /\ Len(available) \in Nat
      BY <1>6, LenProperties DEF CloseFinish, TypeOK
    <3>2. QED
      BY <3>1 DEF Idle, Distinct
  <2>2. Shrink
    BY <1>6, <2>1, FewerWithin DEF CloseFinish, Shrink, Pending
  <2>3. QED
    BY <2>2, ShrinkPool
<1>7. QED
  BY <1>1, <1>3, <1>4, <1>5, <1>6, CleanupPool, ResizePool DEF Next, UserStep, Maintenance

\* The pool keeps within its limits for every configuration, also when users
\* release a resource twice or never.
THEOREM Limits == Spec => []WithinLimits
<1>1. Init => TypeOK /\ PoolInv
  BY TypeInit, PoolInit
<1>2. TypeOK /\ PoolInv /\ [Next]_vars => TypeOK' /\ PoolInv'
  BY TypeStep, PoolStep
<1>3. PoolInv => WithinLimits
  BY DEF PoolInv, WithinLimits, Distinct
<1>4. QED
  BY <1>1, <1>2, <1>3, PTL DEF Spec

----------------------------------------------------------------------------
(* Exclusive use, for users that release once per Acquire                  *)

\* At the start nobody holds a resource and every one is idle.
LEMMA HoldInit == Init => HoldInv
<1> SUFFICES ASSUME Init PROVE HoldInv
  OBVIOUS
<1>1. \A u \in Users : user[u] = Nobody
  BY DEF Init
<1>2. \A u \in Users : ~Holds(u) /\ user[u].step = "idle"
  BY <1>1 DEF Holds, Nobody
<1>3. \A r \in resources : r \in Idle
  <2>1. \A i \in 1 .. MinSize : available[i] = i
    BY DEF Init
  <2>2. Len(available) = MinSize
    BY ConfigAssumption DEF Init
  <2>3. QED
    BY <2>1, <2>2 DEF Init, Idle
<1>4. QED
  BY <1>2, <1>3 DEF Init, HoldInv, SoleUse, HeldAlive, SlotsKept

\* A step that moves no resource
Onlooker ==
  /\ UNCHANGED <<resources, inUse, available, created>>
  /\ closer' = "closed" <=> closer = "closed"
  /\ closed => closed'
  /\ \A u \in Users :
       /\ Holds(u)' <=> Holds(u)
       /\ Holds(u) => user'[u].res = user[u].res
       /\ user'[u].step = "using" => user[u].step = "using"
       /\ user'[u].step # "again"

\* A step that changes neither who holds what nor the pool's structures.
LEMMA OnlookerHold == HoldInv /\ Onlooker => HoldInv'
<1> SUFFICES ASSUME HoldInv, Onlooker PROVE HoldInv'
  OBVIOUS
<1>1. Idle' = Idle
  BY DEF Onlooker, Idle
<1>2. SoleUse'
  BY <1>1 DEF HoldInv, Onlooker, SoleUse
<1>3. HeldAlive'
  BY DEF HoldInv, Onlooker, HeldAlive
<1>4. SlotsKept'
  BY <1>1 DEF HoldInv, Onlooker, SlotsKept
<1>5. (\A u \in Users : Holds(u) => user[u].res \in 1 .. created)'
  BY DEF HoldInv, Onlooker
<1>6. (\A u \in Users : user[u].step = "using" /\ closer # "closed" => inUse[user[u].res])'
  <2> SUFFICES ASSUME NEW u \in Users, user'[u].step = "using", closer' # "closed"
               PROVE  inUse'[user'[u].res]
    OBVIOUS
  <2>1. user[u].step = "using" /\ closer # "closed"
    BY DEF Onlooker
  <2>2. Holds(u)
    BY <2>1 DEF Holds
  <2>3. QED
    BY <2>1, <2>2 DEF HoldInv, Onlooker
<1>7. QED
  BY <1>2, <1>3, <1>4, <1>5, <1>6 DEF HoldInv, Onlooker

\* The steps of u between which it holds no resource, or the same one
LEMMA GotoOnlooker ==
  ASSUME TypeOK, HoldInv, NEW u \in Users, NEW step, Goto(u, step),
         \/ ~Holds(u) /\ step \in {"idle", "select", "create", "panicked"}
         \/ Holds(u) /\ step \in {"check", "mark"},
         UNCHANGED <<resources, inUse, available, created, closer>>
  PROVE  Onlooker
<1>1. \A v \in Users : user'[v].res = user[v].res
  BY DEF Goto, TypeOK
<1>2. \A v \in Users : v # u => user'[v] = user[v]
  BY DEF Goto, TypeOK
<1>3. user'[u].step = step
  BY DEF Goto, TypeOK
<1>4. \A v \in Users : (Holds(v)' <=> Holds(v)) /\ user'[v].step # "again"
  BY <1>2, <1>3 DEF Holds, HoldInv
<1>5. \A v \in Users : user'[v].step = "using" => user[v].step = "using"
  BY <1>2, <1>3
<1>6. QED
  BY <1>1, <1>4, <1>5 DEF Onlooker, closed

\* Idle resources are destroyed, and nothing else happens.
Weed ==
  /\ UNCHANGED <<inUse, created, user, closer>>
  /\ closer # "closed"
  /\ \E gone : /\ resources' = resources \ gone
              /\ Idle' = Idle \ gone
              /\ gone \subseteq Idle

\* A step that destroys idle resources takes them out of map and channel.
LEMMA WeedHold == HoldInv /\ Weed => HoldInv'
<1> SUFFICES ASSUME HoldInv, Weed PROVE HoldInv'
  OBVIOUS
<1>1. PICK gone : resources' = resources \ gone /\ Idle' = Idle \ gone /\ gone \subseteq Idle
  BY DEF Weed
<1>2. UNCHANGED <<inUse, created, user, closer>>
  BY DEF Weed
<1>3. \A u \in Users : (Holds(u)' <=> Holds(u)) /\ (Holds(u) => user[u].res \notin gone)
  BY <1>1, <1>2 DEF Holds, HoldInv, SoleUse
<1>4. SoleUse'
  BY <1>1, <1>2, <1>3 DEF HoldInv, SoleUse
<1>5. HeldAlive'
  BY <1>1, <1>2, <1>3 DEF HoldInv, HeldAlive
<1>6. SlotsKept'
  BY <1>1, <1>2, <1>3 DEF HoldInv, SlotsKept, closed
<1>7. QED
  BY <1>2, <1>3, <1>4, <1>5, <1>6 DEF HoldInv, Weed

\* The receive moves a resource from the channel into one user's hands.
LEMMA ReceiveHold ==
  ASSUME TypeOK, PoolInv, HoldInv, NEW u \in Users, Receive(u)
  PROVE  HoldInv'
<1> DEFINE r == Head(available)
<1>1. Idle' = Idle \ {r} /\ r \in Idle
  BY TailDistinct, Names DEF Receive, PoolInv, TypeOK
<1>2. r \in resources /\ r \in 1 .. created
  BY <1>1 DEF PoolInv
<1>3. UNCHANGED <<resources, inUse, created, closer>> /\ closer # "closed"
  BY DEF Receive, HoldInv
<1>4. /\ user'[u] = [step |-> "check", res |-> r]
      /\ \A v \in Users : v # u => user'[v] = user[v]
  BY DEF Receive, TypeOK
<1>5. ~Holds(u)
  BY DEF Receive, At, Holds
<1> HIDE DEF r
<1>6. /\ Holds(u)' /\ user'[u].res = r
      /\ \A v \in Users : v # u => (Holds(v)' <=> Holds(v)) /\ user'[v].res = user[v].res
  BY <1>4 DEF Holds
<1>7. \A v \in Users : Holds(v) => user[v].res # r
  BY <1>1 DEF HoldInv, SoleUse
<1>8. SoleUse'
  BY <1>1, <1>6, <1>7 DEF HoldInv, SoleUse
<1>9. HeldAlive'
  BY <1>2, <1>3, <1>6 DEF HoldInv, HeldAlive
<1>10. SlotsKept'
  BY <1>1, <1>3, <1>5, <1>6 DEF HoldInv, SlotsKept, closed
<1>11. (\A v \in Users : Holds(v) => user[v].res \in 1 .. created)'
  BY <1>2, <1>3, <1>6 DEF HoldInv
<1>12. (\A v \in Users : user[v].step = "using" /\ closer # "closed" => inUse[user[v].res])'
  BY <1>3, <1>4 DEF HoldInv
<1>13. \A v \in Users : user'[v].step # "again"
  BY <1>4 DEF HoldInv
<1>14. QED
  BY <1>3, <1>8, <1>9, <1>10, <1>11, <1>12, <1>13 DEF HoldInv

\* A created resource is new, so nobody else has it.
LEMMA TryCreateHold ==
  ASSUME TypeOK, PoolInv, HoldInv, NEW u \in Users, TryCreate(u)
  PROVE  HoldInv'
<1>1. ~Holds(u)
  BY DEF TryCreate, At, Holds
<1>2. CASE Goto(u, "select") /\ UNCHANGED <<created, resources, inUse>>
  BY <1>1, <1>2, GotoOnlooker, OnlookerHold DEF TryCreate
<1>3. CASE /\ created < MaxCreated
           /\ created' = created + 1
           /\ resources' = resources \cup {created'}
           /\ inUse' = [inUse EXCEPT ![created'] = TRUE]
           /\ user' = [user EXCEPT ![u] = [step |-> "using", res |-> created']]
  <2>1. UNCHANGED <<available, closer>> /\ Idle' = Idle
    BY DEF TryCreate, Idle
  <2>2. /\ created' \in Ids /\ created' \notin 1 .. created /\ created' \in 1 .. created'
        /\ 1 .. created \subseteq 1 .. created' /\ 1 .. created \subseteq Ids
    BY <1>3, BoundAssumption DEF TypeOK, Ids
  <2>3. /\ user'[u] = [step |-> "using", res |-> created']
        /\ \A v \in Users : v # u => user'[v] = user[v]
    BY <1>3 DEF TypeOK
  <2>4. /\ Holds(u)' /\ user'[u].res = created'
        /\ \A v \in Users : v # u => (Holds(v)' <=> Holds(v)) /\ user'[v].res = user[v].res
    BY <2>3 DEF Holds
  <2>5. created' \notin Idle /\ \A v \in Users : Holds(v) => user[v].res # created'
    BY <2>2 DEF PoolInv, HoldInv
  <2>6. /\ inUse'[created'] = TRUE
        /\ \A r \in 1 .. created : inUse'[r] = inUse[r]
    BY <1>3, <2>2 DEF TypeOK
  <2>7. SoleUse'
    BY <2>1, <2>4, <2>5 DEF HoldInv, SoleUse
  <2>8. HeldAlive'
    BY <1>3, <2>1, <2>4 DEF HoldInv, HeldAlive
  <2>9. SlotsKept'
    BY <1>1, <1>3, <2>1, <2>4 DEF HoldInv, SlotsKept, closed
  <2>10. (\A v \in Users : Holds(v) => user[v].res \in 1 .. created)'
    BY <2>2, <2>4 DEF HoldInv
  <2>11. (\A v \in Users : user[v].step = "using" /\ closer # "closed" => inUse[user[v].res])'
    <3> SUFFICES ASSUME NEW v \in Users, user'[v].step = "using", closer' # "closed"
                 PROVE  inUse'[user'[v].res]
      OBVIOUS
    <3>1. CASE v = u
      BY <2>4, <2>6, <3>1
    <3>2. CASE v # u
      <4>1. user[v].step = "using" /\ closer # "closed" /\ Holds(v)
        BY <2>1, <2>3, <3>2 DEF Holds
      <4>2. inUse[user[v].res] /\ user[v].res \in 1 .. created
        BY <4>1 DEF HoldInv
      <4>3. QED
        BY <2>4, <2>6, <3>2, <4>2
    <3>3. QED
      BY <3>1, <3>2
  <2>12. \A v \in Users : user'[v].step # "again"
    BY <2>3 DEF HoldInv
  <2>13. QED
    BY <2>1, <2>7, <2>8, <2>9, <2>10, <2>11, <2>12 DEF HoldInv
<1>4. QED
  BY <1>2, <1>3 DEF TryCreate

\* u lets go of its resource: the pool destroys it, takes it back as idle, or is
\* closed and leaves it alone.
LetGo(u) ==
  /\ Holds(u) /\ ~Holds(u)'
  /\ \A v \in Users : v # u => user'[v] = user[v]
  /\ user'[u].step # "again"
  /\ UNCHANGED <<created, closer>>
  /\ closer = "closed" => available' = available
  /\ \A r \in 1 .. created : r # user[u].res => inUse'[r] = inUse[r]
  /\ \/ resources' = resources \ {user[u].res} /\ Idle' = Idle
     \/ resources' = resources /\ Idle' = Idle \cup {user[u].res}
     \/ resources' = resources /\ Idle' = Idle /\ closed

\* A user that gives up a resource leaves the others as they were.
LEMMA LetGoHold ==
  ASSUME HoldInv, NEW u \in Users, LetGo(u)
  PROVE  HoldInv'
<1>1. \A v \in Users : v # u /\ Holds(v) => user[v].res # user[u].res
  BY DEF HoldInv, SoleUse, LetGo
<1>2. \A v \in Users : Holds(v)' => v # u /\ Holds(v) /\ user'[v].res = user[v].res
  BY DEF LetGo, Holds
<1>3. \A v \in Users : v # u => user'[v] = user[v] /\ (Holds(v)' <=> Holds(v))
  BY DEF LetGo, Holds
<1>4. SoleUse'
  BY <1>1, <1>2 DEF HoldInv, SoleUse, LetGo
<1>5. HeldAlive'
  BY <1>1, <1>2 DEF HoldInv, HeldAlive, LetGo
<1>6. SlotsKept'
  <2> SUFFICES ASSUME ~closed', NEW r \in resources'
               PROVE  r \in Idle' \/ \E v \in Users : Holds(v)' /\ user'[v].res = r
    BY DEF SlotsKept
  <2>1. ~closed /\ r \in resources
    BY DEF LetGo, closed
  <2>2. r \in Idle \/ \E v \in Users : Holds(v) /\ user[v].res = r
    BY <2>1 DEF HoldInv, SlotsKept
  <2>3. r \in Idle => r \in Idle'
    BY DEF LetGo
  <2>4. CASE r = user[u].res
    BY <2>1, <2>2, <2>4 DEF LetGo
  <2>5. CASE r # user[u].res
    BY <1>3, <2>2, <2>3, <2>5
  <2>6. QED
    BY <2>4, <2>5
<1>7. (\A v \in Users : Holds(v) => user[v].res \in 1 .. created)'
  BY <1>2 DEF HoldInv, LetGo
<1>8. (\A v \in Users : user[v].step = "using" /\ closer # "closed" => inUse[user[v].res])'
  <2> SUFFICES ASSUME NEW v \in Users, user'[v].step = "using", closer' # "closed"
               PROVE  inUse'[user'[v].res]
    OBVIOUS
  <2>1. Holds(v)'
    BY DEF Holds
  <2>2. v # u /\ Holds(v) /\ user'[v] = user[v] /\ closer # "closed"
    BY <1>2, <1>3, <2>1 DEF LetGo
  <2>3. inUse[user[v].res] /\ user[v].res \in 1 .. created /\ user[v].res # user[u].res
    BY <1>1, <2>2 DEF HoldInv
  <2>4. QED
    BY <2>2, <2>3 DEF LetGo
<1>9. \A v \in Users : user'[v].step # "again"
  BY <1>3 DEF HoldInv, LetGo
<1>10. closer' = "closed" => available' = <<>>
  BY DEF HoldInv, LetGo
<1>11. QED
  BY <1>4, <1>5, <1>6, <1>7, <1>8, <1>9, <1>10 DEF HoldInv

\* A received resource that is destroyed was in no other user's hands.
LEMMA DestroyHold ==
  ASSUME TypeOK, HoldInv, NEW u \in Users, At(u, "check"),
         NEW step \in {"create", "select"}, DestroyReceived(u, step)
  PROVE  HoldInv'
<1>1. user'[u].step = step /\ \A v \in Users : v # u => user'[v] = user[v]
  BY DEF DestroyReceived, TypeOK
<1>2. Holds(u) /\ ~Holds(u)'
  BY <1>1 DEF At, Holds
<1>3. Idle' = Idle
  BY DEF DestroyReceived, Idle
<1>4. LetGo(u)
  BY <1>1, <1>2, <1>3 DEF LetGo, DestroyReceived
<1>5. QED
  BY <1>4, LetGoHold

\* Marking concerns the resource of the user that marks it.
LEMMA MarkHold ==
  ASSUME TypeOK, HoldInv, NEW u \in Users, Mark(u)
  PROVE  HoldInv'
<1>1. UNCHANGED <<resources, available, created, closer>> /\ Idle' = Idle
  BY DEF Mark, Idle
<1>2. /\ user'[u].step = "using"
      /\ \A v \in Users : v # u => user'[v] = user[v]
      /\ \A v \in Users : user'[v].res = user[v].res
  BY DEF Mark, Goto, TypeOK
<1>3. Holds(u)
  BY DEF Mark, At, Holds
<1>4. \A v \in Users : Holds(v)' <=> Holds(v)
  BY <1>2, <1>3 DEF Holds
<1>5. SoleUse' /\ HeldAlive' /\ SlotsKept'
  BY <1>1, <1>2, <1>4 DEF HoldInv, SoleUse, HeldAlive, SlotsKept, closed
<1>6. ASSUME NEW r \in 1 .. created
      PROVE  /\ r = user[u].res => inUse'[r]
             /\ inUse[r] => inUse'[r]
  <2>1. r \in Ids
    BY BoundAssumption DEF TypeOK, Ids
  <2>2. inUse \in [Ids -> BOOLEAN] /\ inUse' = [inUse EXCEPT ![user[u].res] = TRUE]
    BY DEF Mark, TypeOK
  <2>3. QED
    BY <2>1, <2>2
<1>7. (\A v \in Users : user[v].step = "using" /\ closer # "closed" => inUse[user[v].res])'
  <2> SUFFICES ASSUME NEW v \in Users, user'[v].step = "using", closer' # "closed"
               PROVE  inUse'[user'[v].res]
    OBVIOUS
  <2>1. user[v].res \in 1 .. created
    BY <1>4 DEF Holds, HoldInv
  <2>2. CASE v = u
    BY <1>2, <1>6, <2>1, <2>2
  <2>3. CASE v # u
    <3>1. inUse[user[v].res]
      BY <1>1, <1>2, <2>3 DEF HoldInv
    <3>2. QED
      BY <1>2, <1>6, <2>1, <3>1
  <2>4. QED
    BY <2>2, <2>3
<1>8. (\A v \in Users : Holds(v) => user[v].res \in 1 .. created)'
  BY <1>1, <1>2, <1>4 DEF HoldInv
<1>9. \A v \in Users : user'[v].step # "again"
  BY <1>2 DEF HoldInv
<1>10. QED
  BY <1>1, <1>5, <1>7, <1>8, <1>9 DEF HoldInv

\* The one Release per Acquire puts back what the user alone has in its hands.
LEMMA ReleaseHold ==
  ASSUME TypeOK, PoolInv, HoldInv, ~careless', NEW u \in Users, Release(u)
  PROVE  HoldInv'
<1> DEFINE r == user[u].res
<1>1. Holds(u) /\ user[u].step = "using" /\ r \in 1 .. created /\ r \notin Idle
  BY DEF Release, At, Holds, HoldInv, SoleUse
<1>2. user' = [user EXCEPT ![u] = Nobody] /\ Put(r)
  BY DEF Release, Return
<1>3. user'[u] = Nobody /\ \A v \in Users : v # u => user'[v] = user[v]
  BY <1>2 DEF TypeOK
<1>4. ~Holds(u)' /\ user'[u].step # "again"
  BY <1>3 DEF Holds, Nobody
<1>5. UNCHANGED <<created, closer>>
  BY <1>2 DEF Put
<1>6. CASE Refused(r) /\ UNCHANGED <<resources, inUse, available>>
  <2>1. closed
    BY <1>1, <1>6 DEF Refused, HoldInv, HeldAlive, closed
  <2>2. Idle' = Idle
    BY <1>6 DEF Idle
  <2>3. LetGo(u)
    BY <1>1, <1>3, <1>4, <1>5, <1>6, <2>1, <2>2 DEF LetGo
  <2>4. QED
    BY <2>3, LetGoHold
<1>7. CASE resources' = resources \ {r} /\ UNCHANGED <<inUse, available>>
  <2>1. Idle' = Idle
    BY <1>7 DEF Idle
  <2>2. LetGo(u)
    BY <1>1, <1>3, <1>4, <1>5, <1>7, <2>1 DEF LetGo
  <2>3. QED
    BY <2>2, LetGoHold
<1>8. CASE /\ ~Refused(r)
           /\ inUse' = [inUse EXCEPT ![r] = FALSE]
           /\ available' = Append(available, r)
           /\ UNCHANGED resources
  <2>1. r \in Ids /\ closer # "closed"
    BY <1>8 DEF Refused, TypeOK, closed
  <2>2. Idle' = Idle \cup {r}
    BY <1>1, <1>8, <2>1, AppendDistinct, Names DEF TypeOK, PoolInv
  <2>3. \A x \in 1 .. created : x # r => inUse'[x] = inUse[x]
    BY <1>8, BoundAssumption DEF TypeOK, Ids
  <2>4. LetGo(u)
    BY <1>1, <1>3, <1>4, <1>5, <1>8, <2>1, <2>2, <2>3 DEF LetGo
  <2>5. QED
    BY <2>4, LetGoHold
<1>9. QED
  BY <1>2, <1>6, <1>7, <1>8 DEF Put

\* The clean-up meets idle resources only.
LEMMA CleanupHold ==
  ASSUME TypeOK, PoolInv, HoldInv, NEW k \in 0 .. Len(available), Cleanup(k)
  PROVE  HoldInv'
<1>1. Len(available) \in Nat /\ available \in Seq(Ids) /\ Distinct(available) /\ k \in Nat
  BY LenProperties DEF TypeOK, PoolInv
<1>2. Idle' = Idle \ First(k) /\ First(k) \subseteq Idle
  <2>1. First(k) \subseteq Idle
    BY <1>1 DEF First, Idle
  <2>2. CASE k < Len(available)
    <3>1. available' = Append(Suffix(available, k + 1), available[k + 1])
      BY <2>2 DEF Cleanup, Drop, Suffix
    <3>2. Elements(available') = Elements(available) \ Prefix(available, k)
      BY <1>1, <2>2, <3>1, RotateDistinct
    <3>3. QED
      BY <2>1, <3>2, Names
  <2>3. CASE k = Len(available)
    <3>1. available' = <<>>
      BY <1>1, <2>3 DEF Cleanup
    <3>2. Idle' = {} /\ Idle \subseteq First(k)
      BY <2>3, <3>1 DEF Idle, First
    <3>3. QED
      BY <2>1, <3>2
  <2>4. QED
    BY <1>1, <2>2, <2>3
<1>3. Weed
  BY <1>2 DEF Weed, Cleanup, closed
<1>4. QED
  BY <1>3, WeedHold

\* Resize meets idle resources only.
LEMMA ResizeHold ==
  ASSUME TypeOK, PoolInv, HoldInv, NEW n \in Sizes, Resize(n)
  PROVE  HoldInv'
<1> DEFINE k == Removable(n)
<1>1. /\ k \in Nat /\ k <= Len(available)
      /\ available \in Seq(Ids) /\ Distinct(available)
  BY ResizeAmount DEF TypeOK, PoolInv
<1>2. resources' = resources \ First(k) /\ available' = Drop(k)
  BY DEF Resize
<1> HIDE DEF k
<1>3. Drop(k) = Suffix(available, k) /\ First(k) = Prefix(available, k)
  BY Names
<1>4. Idle' = Idle \ First(k) /\ First(k) \subseteq Idle
  BY <1>1, <1>2, <1>3, SuffixDistinct, Names
<1>5. Weed
  BY <1>2, <1>4 DEF Weed, Resize, closed
<1>6. QED
  BY <1>5, WeedHold

\* Close destroys everything; from then on nothing is promised about holders.
LEMMA CloseFinishHold == TypeOK /\ HoldInv /\ CloseFinish => HoldInv'
<1> SUFFICES ASSUME TypeOK, HoldInv, CloseFinish PROVE HoldInv'
  OBVIOUS
<1>1. closer' = "closed" /\ available' = <<>> /\ UNCHANGED <<user, created>>
  BY DEF CloseFinish
<1>2. Idle' = {}
  BY <1>1 DEF Idle
<1>3. \A v \in Users : Holds(v)' <=> Holds(v)
  BY <1>1 DEF Holds
<1>4. SoleUse'
  BY <1>1, <1>2, <1>3 DEF HoldInv, SoleUse
<1>5. HeldAlive' /\ SlotsKept'
  BY <1>1 DEF HeldAlive, SlotsKept, closed
<1>6. QED
  BY <1>1, <1>3, <1>4, <1>5 DEF HoldInv

\* Every step that is not careless keeps the hold of the users.
LEMMA HoldStep ==
  ASSUME TypeOK, PoolInv, HoldInv, [Next]_vars, ~careless'
  PROVE  HoldInv'
<1> USE DEF poolVars
<1>1. ASSUME NEW u \in Users, Acquire(u) PROVE HoldInv'
  <2>1. CASE AcquireBegin(u)
    BY <2>1, GotoOnlooker, OnlookerHold DEF AcquireBegin, At, Holds
  <2>2. CASE AcquireTimeout(u)
    BY <2>2, GotoOnlooker, OnlookerHold DEF AcquireTimeout, At, Holds
  <2>3. CASE ReceiveNil(u)
    BY <2>3, GotoOnlooker, OnlookerHold DEF ReceiveNil, At, Holds
  <2>4. CASE FindNone(u)
    BY <2>4, GotoOnlooker, OnlookerHold DEF FindNone, At, Holds
  <2>5. CASE CheckPassed(u)
    BY <2>5, GotoOnlooker, OnlookerHold DEF CheckPassed, At, Holds
  <2>6. CASE CheckInvalid(u)
    BY <2>6, DestroyHold DEF CheckInvalid
  <2>7. CASE ResetFails(u)
    BY <2>7, DestroyHold DEF ResetFails
  <2>8. QED
    BY <1>1, <2>1, <2>2, <2>3, <2>4, <2>5, <2>6, <2>7, ReceiveHold, TryCreateHold,
       MarkHold DEF Acquire
<1>2. ASSUME NEW u \in Users, ReleaseAgain(u) \/ Forget(u) PROVE FALSE
  BY <1>2 DEF ReleaseAgain, Forget, At, HoldInv
<1>3. CASE (\E r \in Ids : Break(r)) \/ CleanerExit \/ CloseBegin \/ CloseCancel \/ UNCHANGED vars
  <2>1. UNCHANGED <<resources, inUse, available, created, user>>
    BY <1>3 DEF Break, CleanerExit, CloseBegin, CloseCancel, vars
  <2>2. (closer' = "closed" <=> closer = "closed") /\ (closed => closed')
    BY <1>3 DEF Break, CleanerExit, CloseBegin, CloseCancel, vars, closed
  <2>3. Onlooker
    BY <2>1, <2>2 DEF Onlooker, Holds, HoldInv
  <2>4. QED
    BY <2>3, OnlookerHold
<1>4. QED
  BY <1>1, <1>2, <1>3, ReleaseHold, CleanupHold, ResizeHold, CloseFinishHold
     DEF Next, UserStep, Maintenance

\* Carelessness stays on record.
LEMMA CarelessStays == TypeOK /\ careless /\ [Next]_vars => careless'
<1> SUFFICES ASSUME TypeOK, careless, [Next]_vars PROVE careless'
  OBVIOUS
<1>1. ASSUME NEW u \in Users, Acquire(u) PROVE careless'
  BY <1>1 DEF Acquire, AcquireBegin, AcquireTimeout, Receive, ReceiveNil, FindNone, TryCreate,
              CheckInvalid, ResetFails, DestroyReceived, CheckPassed, Mark
<1>2. ASSUME NEW u \in Users, Release(u) \/ ReleaseAgain(u) \/ Forget(u) PROVE careless'
  BY <1>2 DEF Release, ReleaseAgain, Forget
<1>3. CASE \E r \in Ids : Break(r)
  BY <1>3 DEF Break
<1>4. CASE Maintenance
  BY <1>4 DEF Maintenance, Cleanup, CleanerExit, Resize, CloseBegin, CloseCancel, CloseFinish
<1>5. CASE UNCHANGED vars
  BY <1>5 DEF vars
<1>6. QED
  BY <1>1, <1>2, <1>3, <1>4, <1>5 DEF Next, UserStep

\* The inductive invariant holds until a user has been careless.
LEMMA Invariant == Spec => [](TypeOK /\ PoolInv /\ (careless \/ HoldInv))
<1>1. Init => TypeOK /\ PoolInv /\ (careless \/ HoldInv)
  BY TypeInit, PoolInit, HoldInit
<1>2. TypeOK /\ PoolInv /\ (careless \/ HoldInv) /\ [Next]_vars
        => TypeOK' /\ PoolInv' /\ (careless' \/ HoldInv')
  <2> SUFFICES ASSUME TypeOK, PoolInv, careless \/ HoldInv, [Next]_vars
               PROVE  TypeOK' /\ PoolInv' /\ (careless' \/ HoldInv')
    OBVIOUS
  <2>1. TypeOK' /\ PoolInv'
    BY TypeStep, PoolStep
  <2>2. CASE careless
    BY <2>1, <2>2, CarelessStays
  <2>3. CASE HoldInv
    BY <2>1, <2>3, HoldStep
  <2>4. QED
    BY <2>2, <2>3
<1>3. QED
  BY <1>1, <1>2, PTL DEF Spec

\* As long as every Acquire is followed by one Release, no two users have the
\* same resource in their hands.
THEOREM Exclusive == Spec => []ExclusiveUse
<1>1. careless \/ HoldInv => ExclusiveUse
  BY DEF HoldInv, ExclusiveUse
<1>2. QED
  BY <1>1, Invariant, PTL

\* As long as every Acquire is followed by one Release, the pool destroys
\* nothing in a user's hands before it is closed.
THEOREM HeldAreAlive == Spec => []HeldIsAlive
<1>1. careless \/ HoldInv => HeldIsAlive
  BY DEF HoldInv, HeldAlive, HeldIsAlive
<1>2. QED
  BY <1>1, Invariant, PTL

\* As long as every Acquire is followed by one Release, the open pool loses none
\* of its slots.
THEOREM NothingLost == Spec => []NoSlotLost
<1>1. careless \/ HoldInv => NoSlotLost
  BY DEF HoldInv, SlotsKept, NoSlotLost
<1>2. QED
  BY <1>1, Invariant, PTL
=============================================================================
