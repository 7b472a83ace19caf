-------------------------- MODULE CircularArrayProofs --------------------------
(***************************************************************************)
(* Proofs about CircularArray, for every capacity, every set of values and *)
(* every finite set of consumers: the slots and the indices agree, no      *)
(* wake-up is lost, and the ring implements BoundedQueue.                  *)
(***************************************************************************)
EXTENDS CircularArray, FiniteSetTheorems, SequenceTheorems, TLAPS

-----------------------------------------------------------------------------
(* Arithmetic of the indices *)

\* The next index wraps around after Capacity (offer, poll, take).
LEMMA NextIndexIs ==
    ASSUME NEW i \in Indices
    PROVE  /\ NextIndex(i) = IF i = Capacity THEN 0 ELSE i + 1
           /\ NextIndex(i) \in Indices
BY CapacityAssumption, Z3 DEF NextIndex, Length, Indices

\* What getCount() computes from two indices.
LEMMA CountIs ==
    ASSUME NEW r \in Indices, NEW w \in Indices
    PROVE  /\ (w - r + Length) % Length
                = IF r <= w THEN w - r ELSE w - r + Length
           /\ (w - r + Length) % Length \in 0 .. Capacity
BY CapacityAssumption, Z3 DEF Length, Indices

\* Where the k-th object is when the oldest is at r.
LEMMA SlotIs ==
    ASSUME NEW r \in Indices, NEW k \in 1 .. Length
    PROVE  /\ (r + k - 1) % Length
                = IF r + k - 1 <= Capacity THEN r + k - 1 ELSE r + k - 1 - Length
           /\ (r + k - 1) % Length \in Indices
BY CapacityAssumption, Z3 DEF Length, Indices

\* Facts about the state: emptiness, fullness and the slots of distinct ranks.
LEMMA RingFacts ==
    ASSUME TypeOK
    PROVE  /\ GetCount \in 0 .. Capacity
           /\ Empty <=> GetCount = 0
           /\ Full <=> GetCount = Capacity
           /\ Slot(1) = readIndex
           /\ Slot(GetCount + 1) = writeIndex
           /\ \A k \in 1 .. Length : Slot(k) \in Indices
           /\ \A k, m \in 1 .. Length : Slot(k) = Slot(m) => k = m
<1> USE CapacityAssumption
<1>1. readIndex \in Indices /\ writeIndex \in Indices
  BY DEF TypeOK
<1>2. /\ GetCount = IF readIndex <= writeIndex
                    THEN writeIndex - readIndex ELSE writeIndex - readIndex + Length
      /\ GetCount \in 0 .. Capacity
  BY <1>1, CountIs DEF GetCount
<1>3. NextIndex(writeIndex) = IF writeIndex = Capacity THEN 0 ELSE writeIndex + 1
  BY <1>1, NextIndexIs
<1>4. \A k \in 1 .. Length :
        /\ Slot(k) = IF readIndex + k - 1 <= Capacity
                     THEN readIndex + k - 1 ELSE readIndex + k - 1 - Length
        /\ Slot(k) \in Indices
  BY <1>1, SlotIs DEF Slot
<1>5. 1 \in 1 .. Length /\ GetCount + 1 \in 1 .. Length
  BY <1>2 DEF Length
<1>6. Empty <=> GetCount = 0
  BY <1>1, <1>2 DEF Empty, Length, Indices
<1>7. Full <=> GetCount = Capacity
  BY <1>1, <1>2, <1>3 DEF Full, Length, Indices
<1>8. Slot(1) = readIndex
  BY <1>1, <1>4, <1>5 DEF Length, Indices
<1>9. Slot(GetCount + 1) = writeIndex
  <2>1. Slot(GetCount + 1) = IF readIndex + (GetCount + 1) - 1 <= Capacity
                     THEN readIndex + (GetCount + 1) - 1
                     ELSE readIndex + (GetCount + 1) - 1 - Length
    BY <1>4, <1>5
  <2> QED BY <1>1, <1>2, <2>1 DEF Length, Indices
<1>10. \A k, m \in 1 .. Length : Slot(k) = Slot(m) => k = m
  BY <1>1, <1>4 DEF Length, Indices
<1> QED BY <1>2, <1>4, <1>6, <1>7, <1>8, <1>9, <1>10

\* A put adds one rank and moves no other object.
LEMMA PutFacts ==
    ASSUME TypeOK, TypeOK', ~Full, NEW v, Put(v), readIndex' = readIndex
    PROVE  /\ GetCount' = GetCount + 1
           /\ \A k \in 1 .. Length : Slot(k)' = Slot(k)
<1> USE CapacityAssumption
<1>1. /\ readIndex \in Indices /\ writeIndex \in Indices
      /\ readIndex' \in Indices /\ writeIndex' \in Indices
  BY DEF TypeOK
<1>2. GetCount = IF readIndex <= writeIndex
                 THEN writeIndex - readIndex ELSE writeIndex - readIndex + Length
  BY <1>1, CountIs DEF GetCount
<1>3. GetCount' = IF readIndex' <= writeIndex'
                 THEN writeIndex' - readIndex' ELSE writeIndex' - readIndex' + Length
  BY <1>1, CountIs DEF GetCount, Length
<1>4. writeIndex' = IF writeIndex = Capacity THEN 0 ELSE writeIndex + 1
  BY <1>1, NextIndexIs DEF Put
<1>5. GetCount' = GetCount + 1
  BY <1>1, <1>2, <1>3, <1>4, NextIndexIs DEF Full, Length, Indices
<1> QED BY <1>5 DEF Slot, Length

\* A removal takes rank 1 away and moves the others down by one.
LEMMA RemoveFacts ==
    ASSUME TypeOK, TypeOK', ~Empty, NEW c \in Consumers, Remove(c)
    PROVE  /\ GetCount' = GetCount - 1
           /\ \A k \in 1 .. GetCount' : Slot(k)' = Slot(k + 1)
<1> USE CapacityAssumption
<1>1. /\ readIndex \in Indices /\ writeIndex \in Indices
      /\ readIndex' \in Indices /\ writeIndex' \in Indices
  BY DEF TypeOK
<1>2. /\ GetCount = IF readIndex <= writeIndex
                    THEN writeIndex - readIndex ELSE writeIndex - readIndex + Length
      /\ GetCount \in 0 .. Capacity
  BY <1>1, CountIs DEF GetCount
<1>3. GetCount' = IF readIndex' <= writeIndex'
                 THEN writeIndex' - readIndex' ELSE writeIndex' - readIndex' + Length
  BY <1>1, CountIs DEF GetCount, Length
<1>4. /\ readIndex' = IF readIndex = Capacity THEN 0 ELSE readIndex + 1
      /\ writeIndex' = writeIndex
  BY <1>1, NextIndexIs DEF Remove
<1>5. GetCount' = GetCount - 1
  BY <1>1, <1>2, <1>3, <1>4 DEF Empty, Length, Indices
<1>6. ASSUME NEW k \in 1 .. GetCount' PROVE Slot(k)' = Slot(k + 1)
  <2>1. k \in 1 .. Length /\ k + 1 \in 1 .. Length
    BY <1>2, <1>5 DEF Length
  <2>2. Slot(k)' = IF readIndex' + k - 1 <= Capacity
                   THEN readIndex' + k - 1 ELSE readIndex' + k - 1 - Length
    BY <1>1, <2>1, SlotIs DEF Slot, Length
  <2>3. Slot(k + 1) = IF readIndex + (k + 1) - 1 <= Capacity
                   THEN readIndex + (k + 1) - 1 ELSE readIndex + (k + 1) - 1 - Length
    BY <1>1, <2>1, SlotIs DEF Slot
  <2> QED BY <1>1, <1>4, <2>1, <2>2, <2>3 DEF Length, Indices
<1> QED BY <1>5, <1>6

-----------------------------------------------------------------------------
(* Types *)

\* The types hold initially and every method keeps them.
LEMMA TypeInductive ==
    /\ Init => TypeOK
    /\ TypeOK /\ [Next]_vars => TypeOK'
<1>1. Init => TypeOK
  <2> SUFFICES ASSUME Init PROVE TypeOK
    OBVIOUS
  <2>1. 0 \in Indices
    BY CapacityAssumption DEF Indices
  <2> QED BY <2>1 DEF Init, TypeOK, Where
<1>2. ASSUME TypeOK, [Next]_vars PROVE TypeOK'
  <2> USE <1>2
  <2>1. ASSUME NEW c \in Consumers, Remove(c) PROVE TypeOK'
    BY <2>1, NextIndexIs DEF TypeOK, Remove, Where
  <2>2. ASSUME NEW c \in Consumers, ReturnNull(c) PROVE TypeOK'
    BY <2>2 DEF TypeOK, ReturnNull, Where
  <2>3. ASSUME NEW c \in Consumers, NEW t \in SUBSET Consumers, Wait(c, t) PROVE TypeOK'
    BY <2>3 DEF TypeOK, Wait, Where
  <2>4. ASSUME NEW v \in Values, Offer(v) PROVE TypeOK'
    <3>1. CASE Full
      BY <2>4, <3>1 DEF TypeOK, Offer
    <3>2. CASE ~Full
      <4>1. pc' \in [Consumers -> Where]
        BY <2>4, <3>2 DEF Offer, Notify, WaitSet, TypeOK, Where
      <4> QED BY <2>4, <3>2, <4>1, NextIndexIs DEF Offer, Put, TypeOK
    <3> QED BY <3>1, <3>2
  <2>5. ASSUME NEW c \in Consumers,
               \/ Poll(c) \/ Take(c) \/ TakeTimeout(c) \/ Resume(c)
        PROVE  TypeOK'
    <3>1. timed \in SUBSET Consumers /\ timed \cup {c} \in SUBSET Consumers
      BY DEF TypeOK
    <3> QED BY <2>1, <2>2, <2>3, <2>5, <3>1 DEF Poll, Take, TakeTimeout, Resume
  <2>6. ASSUME NEW c \in Consumers, WakeUp(c) PROVE TypeOK'
    BY <2>6 DEF WakeUp, TypeOK, Where
  <2>7. ASSUME NEW c \in Consumers, Interrupt(c) PROVE TypeOK'
    BY <2>7 DEF Interrupt, TypeOK, Where
  <2>8. CASE UNCHANGED vars
    BY <2>8 DEF vars, TypeOK
  <2> QED BY <2>4, <2>5, <2>6, <2>7, <2>8 DEF Next
<1> QED BY <1>1, <1>2

\* Every state of the ring is well typed: the indices never leave the array.
THEOREM CircularArrayTypeOK == Spec => []TypeOK
BY TypeInductive, PTL DEF Spec

-----------------------------------------------------------------------------
(* What a step does to the ring *)

\* The ring is left alone, or takes an accepted offer, or loses an object.
RingStep ==
    \/ UNCHANGED <<array, readIndex, writeIndex>>
    \/ ~Full /\ readIndex' = readIndex /\ \E v \in Values : Put(v)
    \/ ~Empty /\ \E c \in Consumers : Remove(c)

\* Every method of the ring does one of the three.
LEMMA RingSteps ==
    ASSUME TypeOK, [Next]_vars
    PROVE  RingStep
BY DEF Next, vars, RingStep, Offer, Poll, Take, TakeTimeout, WakeUp, Resume,
       Interrupt, ReturnNull, Wait

\* The slots and the indices agree in every reachable state.
THEOREM CircularArraySlots == Spec => []SlotsMatchIndices
<1>1. Init => SlotsMatchIndices
  <2> SUFFICES ASSUME Init PROVE SlotsMatchIndices
    OBVIOUS
  <2>1. TypeOK
    BY TypeInductive
  <2>2. GetCount = 0
    BY <2>1, RingFacts DEF Init, Empty
  <2> QED BY <2>2 DEF Init, SlotsMatchIndices
<1>2. ASSUME TypeOK, SlotsMatchIndices, [Next]_vars, TypeOK' PROVE SlotsMatchIndices'
  <2> USE <1>2
  <2>1. CASE UNCHANGED <<array, readIndex, writeIndex>>
    BY <2>1 DEF SlotsMatchIndices, GetCount, Slot, Length, Indices
  <2>2. ASSUME ~Full, readIndex' = readIndex, NEW v \in Values, Put(v)
        PROVE  SlotsMatchIndices'
    <3>1. GetCount' = GetCount + 1 /\ \A k \in 1 .. Length : Slot(k)' = Slot(k)
      BY <2>2, PutFacts
    <3>2. /\ GetCount \in 0 .. Capacity /\ GetCount # Capacity
          /\ Slot(GetCount + 1) = writeIndex
          /\ \A k, m \in 1 .. Length : Slot(k) = Slot(m) => k = m
      BY <2>2, RingFacts
    <3>3. \A i \in Indices : array'[i] = IF i = writeIndex THEN v ELSE array[i]
      BY <2>2 DEF Put, TypeOK
    <3>4. v # Null
      BY NullAssumption
    <3>5. ASSUME NEW i \in Indices
          PROVE  (\E k \in 1 .. GetCount + 1 : i = Slot(k)) <=>
                 (i = writeIndex \/ \E k \in 1 .. GetCount : i = Slot(k))
      BY <3>2
    <3>6. \A k \in 1 .. GetCount + 1 : Slot(k)' = Slot(k)
      BY <3>1, <3>2, CapacityAssumption DEF Length
    <3>7. ASSUME NEW i \in Indices
          PROVE  array'[i] # Null <=> \E k \in 1 .. GetCount + 1 : i = Slot(k)
      BY <3>3, <3>4, <3>5 DEF SlotsMatchIndices
    <3>8. \A i \in Indices :
             array'[i] # Null <=> \E k \in 1 .. GetCount' : i = Slot(k)'
      BY <3>1, <3>6, <3>7
    <3> QED BY <3>8 DEF SlotsMatchIndices, Indices
  <2>3. ASSUME ~Empty, NEW c \in Consumers, Remove(c) PROVE SlotsMatchIndices'
    <3>1. /\ GetCount' = GetCount - 1
          /\ \A k \in 1 .. GetCount' : Slot(k)' = Slot(k + 1)
      BY <2>3, RemoveFacts
    <3>2. /\ GetCount \in 1 .. Capacity
          /\ Slot(1) = readIndex
          /\ \A k, m \in 1 .. Length : Slot(k) = Slot(m) => k = m
      BY <2>3, RingFacts
    <3>3. \A i \in Indices : array'[i] = IF i = readIndex THEN Null ELSE array[i]
      BY <2>3 DEF Remove, TypeOK
    <3>4. ASSUME NEW i \in Indices
          PROVE  (i # readIndex /\ \E k \in 1 .. GetCount : i = Slot(k)) <=>
                 \E k \in 1 .. GetCount - 1 : i = Slot(k + 1)
      <4>1. ASSUME i # readIndex, NEW k \in 1 .. GetCount, i = Slot(k)
            PROVE  \E m \in 1 .. GetCount - 1 : i = Slot(m + 1)
        <5>1. k # 1
          BY <3>2, <4>1
        <5>2. k - 1 \in 1 .. GetCount - 1 /\ (k - 1) + 1 = k
          BY <3>2, <5>1
        <5>3. i = Slot((k - 1) + 1)
          BY <4>1, <5>2
        <5> QED BY <5>2, <5>3
      <4>2. ASSUME NEW k \in 1 .. GetCount - 1, i = Slot(k + 1)
            PROVE  i # readIndex /\ \E m \in 1 .. GetCount : i = Slot(m)
        <5>1. k + 1 \in 1 .. GetCount /\ k + 1 \in 1 .. Length /\ 1 \in 1 .. Length
          BY <3>2, CapacityAssumption DEF Length
        <5>2. k + 1 # 1
          OBVIOUS
        <5>3. i # readIndex
          BY <3>2, <4>2, <5>1, <5>2
        <5> QED BY <4>2, <5>1, <5>3
      <4> QED BY <4>1, <4>2
    <3>5. \A i \in Indices :
             array'[i] # Null <=> \E k \in 1 .. GetCount - 1 : i = Slot(k + 1)
      BY <3>3, <3>4 DEF SlotsMatchIndices
    <3>6. \A i \in Indices :
             array'[i] # Null <=> \E k \in 1 .. GetCount' : i = Slot(k)'
      BY <3>1, <3>5
    <3> QED BY <3>6 DEF SlotsMatchIndices, Indices
  <2> QED BY <2>1, <2>2, <2>3, RingSteps DEF RingStep
<1> QED BY <1>1, <1>2, TypeInductive, PTL DEF Spec

-----------------------------------------------------------------------------
(* No wake-up is lost *)

\* The notified consumers are finitely many, in this state and the next.
LEMMA NotifiedFinite ==
    /\ IsFiniteSet(Notified) /\ Cardinality(Notified) \in Nat
    /\ IsFiniteSet(Notified') /\ Cardinality(Notified') \in Nat
<1>1. Notified \in SUBSET Consumers /\ Notified' \in SUBSET Consumers
  BY DEF Notified
<1>2. IsFiniteSet(Notified) /\ IsFiniteSet(Notified')
  BY <1>1, ConsumersAssumption, FS_Subset
<1> QED BY <1>2, FS_CardinalityType

\* A step that leaves the ring alone and its count at zero is harmless.
LEMMA EmptyIsHarmless ==
    ASSUME TypeOK, TypeOK', Empty, UNCHANGED <<readIndex, writeIndex>>
    PROVE  NoLostWakeUp'
<1>1. GetCount = 0
  BY RingFacts
<1>2. GetCount' = 0
  BY <1>1 DEF GetCount, Length
<1> QED BY <1>2, NotifiedFinite DEF NoLostWakeUp

\* A removal uses up at most one notified consumer for the object it takes.
LEMMA RemoveKeepsWakeUps ==
    ASSUME TypeOK, TypeOK', NoLostWakeUp, ~Empty, NEW c \in Consumers, Remove(c)
    PROVE  NoLostWakeUp'
<1>1. GetCount' = GetCount - 1
  BY RemoveFacts
<1>2. GetCount \in 0 .. Capacity
  BY RingFacts
<1>3. /\ WaitSet' \subseteq WaitSet
      /\ Notified' = Notified \ {c}
  BY DEF Remove, WaitSet, Notified, TypeOK
<1>4. Cardinality(Notified') >= Cardinality(Notified) - 1
  <2>1. Cardinality(Notified \ {c}) =
          IF c \in Notified THEN Cardinality(Notified) - 1 ELSE Cardinality(Notified)
    BY NotifiedFinite, FS_RemoveElement
  <2> QED BY <1>3, <2>1, NotifiedFinite
<1>5. ASSUME WaitSet' # {} PROVE GetCount' <= Cardinality(Notified')
  <2>1. GetCount <= Cardinality(Notified)
    BY <1>3, <1>5 DEF NoLostWakeUp
  <2> QED BY <1>1, <1>2, <1>4, <2>1, NotifiedFinite, CapacityAssumption
<1> QED BY <1>5 DEF NoLostWakeUp

\* While a consumer waits, every queued object has a notified consumer of its
\* own: the single notify() of offer() is enough for any number of consumers.
THEOREM CircularArrayNoLostWakeUp == Spec => []NoLostWakeUp
<1>1. Init => NoLostWakeUp
  BY DEF Init, NoLostWakeUp, WaitSet
<1>2. ASSUME TypeOK, NoLostWakeUp, [Next]_vars, TypeOK' PROVE NoLostWakeUp'
  <2> USE <1>2
  <2>1. ASSUME NEW v \in Values, Offer(v) PROVE NoLostWakeUp'
    <3>1. CASE Full
      <4>1. /\ WaitSet' = WaitSet /\ Notified' = Notified
            /\ GetCount' = GetCount
        BY <2>1, <3>1 DEF Offer, WaitSet, Notified, GetCount, Length
      <4> QED BY <4>1 DEF NoLostWakeUp
    <3>2. CASE ~Full /\ WaitSet = {}
      <4>1. WaitSet' = {}
        BY <2>1, <3>2 DEF Offer, Notify, WaitSet
      <4> QED BY <4>1 DEF NoLostWakeUp
    <3>3. CASE ~Full /\ WaitSet # {}
      <4>1. Put(v) /\ readIndex' = readIndex
        BY <2>1, <3>3 DEF Offer
      <4>2. GetCount' = GetCount + 1 /\ GetCount \in 0 .. Capacity
        BY <3>3, <4>1, PutFacts, RingFacts
      <4>3. PICK c \in WaitSet : pc' = [pc EXCEPT ![c] = "notified"]
        BY <2>1, <3>3 DEF Offer, Notify
      <4>4. Notified' = Notified \cup {c} /\ c \notin Notified
        BY <4>3 DEF Notified, WaitSet, TypeOK
      <4>5. Cardinality(Notified') = Cardinality(Notified) + 1
        BY <4>4, NotifiedFinite, FS_AddElement
      <4>6. GetCount <= Cardinality(Notified)
        BY <3>3 DEF NoLostWakeUp
      <4>7. GetCount' <= Cardinality(Notified')
        BY <4>2, <4>5, <4>6, NotifiedFinite, CapacityAssumption
      <4> QED BY <4>7 DEF NoLostWakeUp
    <3> QED BY <3>1, <3>2, <3>3
  <2>2. ASSUME NEW c \in Consumers, Empty, ReturnNull(c) PROVE NoLostWakeUp'
    BY <2>2, EmptyIsHarmless DEF ReturnNull
  <2>3. ASSUME NEW c \in Consumers, Empty, NEW t, Wait(c, t) PROVE NoLostWakeUp'
    BY <2>3, EmptyIsHarmless DEF Wait
  <2>4. ASSUME NEW c \in Consumers,
               \/ Poll(c) \/ Take(c) \/ TakeTimeout(c) \/ Resume(c)
        PROVE  NoLostWakeUp'
    BY <2>2, <2>3, <2>4, RemoveKeepsWakeUps DEF Poll, Take, TakeTimeout, Resume
  <2>5. ASSUME NEW c \in Consumers, WakeUp(c) \/ Interrupt(c) PROVE NoLostWakeUp'
    <3>1. /\ WaitSet' \subseteq WaitSet
          /\ Notified' = Notified
          /\ GetCount' = GetCount
      BY <2>5 DEF WakeUp, Interrupt, WaitSet, Notified, GetCount, Length, TypeOK
    <3> QED BY <3>1 DEF NoLostWakeUp
  <2>6. CASE UNCHANGED vars
    <3>1. /\ WaitSet' = WaitSet /\ Notified' = Notified
          /\ GetCount' = GetCount
      BY <2>6 DEF vars, WaitSet, Notified, GetCount, Length
    <3> QED BY <3>1 DEF NoLostWakeUp
  <2> QED BY <2>1, <2>4, <2>5, <2>6 DEF Next
<1> QED BY <1>1, <1>2, TypeInductive, PTL DEF Spec

-----------------------------------------------------------------------------
(* The ring implements the bounded queue *)

\* What Append does to a sequence given as a function.
LEMMA AppendIs ==
    ASSUME NEW S, NEW n \in Nat, NEW f \in [1 .. n -> S], NEW v \in S
    PROVE  Append(f, v) = [k \in 1 .. n + 1 |-> IF k <= n THEN f[k] ELSE v]
<1> DEFINE g == [k \in 1 .. n + 1 |-> IF k <= n THEN f[k] ELSE v]
<1>1. f \in Seq(S) /\ Len(f) = n
  OBVIOUS
<1>2. g \in [1 .. n + 1 -> S] /\ n + 1 \in Nat
  OBVIOUS
<1>3. g \in Seq(S) /\ Len(g) = n + 1
  <2> HIDE DEF g
  <2> QED BY <1>2
<1>4. /\ Append(f, v) \in Seq(S)
      /\ Len(Append(f, v)) = n + 1
      /\ \A k \in 1 .. n : Append(f, v)[k] = f[k]
      /\ Append(f, v)[n + 1] = v
  BY <1>1, AppendProperties
<1>5. \A k \in 1 .. n + 1 : Append(f, v)[k] = g[k]
  BY <1>4
<1>6. Append(f, v) = g
  <2> HIDE DEF g
  <2> QED BY <1>3, <1>4, <1>5, SeqEqual
<1> QED BY <1>6

\* What Head and Tail do to a sequence given as a function.
LEMMA TailIs ==
    ASSUME NEW S, NEW n \in Nat, n # 0, NEW f \in [1 .. n -> S]
    PROVE  /\ f # <<>>
           /\ Head(f) = f[1]
           /\ Tail(f) = [k \in 1 .. n - 1 |-> f[k + 1]]
<1> DEFINE g == [k \in 1 .. n - 1 |-> f[k + 1]]
<1>1. f \in Seq(S) /\ Len(f) = n
  OBVIOUS
<1>2. f # <<>>
  BY <1>1
<1>3. g \in [1 .. n - 1 -> S] /\ n - 1 \in Nat
  OBVIOUS
<1>4. g \in Seq(S) /\ Len(g) = n - 1
  <2> HIDE DEF g
  <2> QED BY <1>3
<1>5. /\ Head(f) = f[1]
      /\ Tail(f) \in Seq(S)
      /\ Len(Tail(f)) = n - 1
      /\ \A k \in 1 .. n - 1 : Tail(f)[k] = f[k + 1]
  BY <1>1, <1>2, HeadTailProperties
<1>6. \A k \in 1 .. n - 1 : Tail(f)[k] = g[k]
  BY <1>5
<1>7. Tail(f) = g
  <2> HIDE DEF g
  <2> QED BY <1>4, <1>5, <1>6, SeqEqual
<1> QED BY <1>2, <1>5, <1>7

\* The queue the ring stands for is a sequence of GetCount objects.
LEMMA QueueIsSeq ==
    ASSUME TypeOK
    PROVE  /\ queue \in [1 .. GetCount -> Values \cup {Null}]
           /\ GetCount \in Nat
           /\ Len(queue) = GetCount
           /\ queue = <<>> <=> Empty
<1>1. GetCount \in 0 .. Capacity /\ \A k \in 1 .. Length : Slot(k) \in Indices
  BY RingFacts
<1>2. \A k \in 1 .. GetCount : Slot(k) \in Indices
  BY <1>1, CapacityAssumption DEF Length
<1>3. queue \in [1 .. GetCount -> Values \cup {Null}]
  BY <1>2 DEF queue, TypeOK
<1>4. GetCount \in Nat
  BY <1>1
<1>5. queue \in Seq(Values \cup {Null}) /\ Len(queue) = GetCount
  BY <1>3, <1>4
<1>6. queue = <<>> <=> GetCount = 0
  BY <1>3, <1>4, <1>5
<1> QED BY <1>3, <1>4, <1>5, <1>6, RingFacts

\* CircularArray implements BoundedQueue: offers are refused exactly when
\* Capacity objects are queued, consumers get the objects in order, once each,
\* and null only from an empty queue.
THEOREM CircularArrayImplementsQueue == Spec => ImplementsQueue
<1>1. Init => Queue!Init
  <2> SUFFICES ASSUME Init PROVE Queue!Init
    OBVIOUS
  <2>1. TypeOK
    BY TypeInductive
  <2>2. queue = <<>>
    BY <2>1, QueueIsSeq DEF Init, Empty
  <2> QED BY <2>2 DEF Init, Queue!Init
<1>2. ASSUME TypeOK, TypeOK', [Next]_vars PROVE [Queue!Next]_Queue!vars
  <2> USE <1>2
  <2>1. ASSUME UNCHANGED <<array, readIndex, writeIndex>> PROVE queue' = queue
    BY <2>1 DEF queue, GetCount, Slot, Length
  <2>2. ASSUME NEW v \in Values, ~Full, readIndex' = readIndex, Put(v)
        PROVE  Len(queue) < Capacity /\ queue' = Append(queue, v)
    <3>1. /\ GetCount' = GetCount + 1
          /\ \A k \in 1 .. Length : Slot(k)' = Slot(k)
      BY <2>2, PutFacts
    <3>2. /\ GetCount \in 0 .. Capacity /\ GetCount # Capacity
          /\ Slot(GetCount + 1) = writeIndex
          /\ \A k \in 1 .. Length : Slot(k) \in Indices
          /\ \A k, m \in 1 .. Length : Slot(k) = Slot(m) => k = m
      BY <2>2, RingFacts
    <3>3. \A k \in 1 .. GetCount + 1 : k \in 1 .. Length /\ Slot(k)' = Slot(k)
      BY <3>1, <3>2, CapacityAssumption DEF Length
    <3>4. \A i \in Indices : array'[i] = IF i = writeIndex THEN v ELSE array[i]
      BY <2>2 DEF Put, TypeOK
    <3>5. ASSUME NEW k \in 1 .. GetCount + 1
          PROVE  array'[Slot(k)] = IF k <= GetCount THEN queue[k] ELSE v
      <4>1. CASE k = GetCount + 1
        BY <3>2, <3>3, <3>4, <4>1
      <4>2. CASE k # GetCount + 1
        <5>1. k \in 1 .. GetCount
          BY <3>2, <4>2
        <5>2. Slot(k) # writeIndex
          BY <3>2, <3>3, <4>2
        <5>3. array'[Slot(k)] = array[Slot(k)]
          BY <3>2, <3>3, <3>4, <5>2
        <5>4. queue[k] = array[Slot(k)]
          BY <5>1 DEF queue
        <5> QED BY <5>1, <5>3, <5>4, <3>2
      <4> QED BY <4>1, <4>2
    <3>6. queue' = [k \in 1 .. GetCount' |-> array'[Slot(k)']]
      BY DEF queue
    <3>7. queue' = [k \in 1 .. GetCount + 1 |-> IF k <= GetCount THEN queue[k] ELSE v]
      BY <3>1, <3>3, <3>5, <3>6
    <3>8. v \in Values \cup {Null}
      OBVIOUS
    <3>9. Append(queue, v) = [k \in 1 .. GetCount + 1 |-> IF k <= GetCount THEN queue[k] ELSE v]
      <4>1. queue \in [1 .. GetCount -> Values \cup {Null}] /\ GetCount \in Nat
        BY QueueIsSeq
      <4> DEFINE S == Values \cup {Null}
                 n == GetCount
                 f == queue
      <4>2. f \in [1 .. n -> S] /\ n \in Nat /\ v \in S
        BY <3>8, <4>1
      <4> HIDE DEF S, n, f
      <4>3. Append(f, v) = [k \in 1 .. n + 1 |-> IF k <= n THEN f[k] ELSE v]
        BY <4>2, AppendIs
      <4> QED BY <4>3 DEF n, f
    <3>10. Len(queue) < Capacity
      BY <3>2, QueueIsSeq, CapacityAssumption
    <3> QED BY <3>7, <3>9, <3>10
  <2>3. ASSUME NEW c \in Consumers, ~Empty, Remove(c)
        PROVE  queue # <<>> /\ array[readIndex] = Head(queue) /\ queue' = Tail(queue)
    <3>1. /\ GetCount' = GetCount - 1
          /\ \A k \in 1 .. GetCount' : Slot(k)' = Slot(k + 1)
      BY <2>3, RemoveFacts
    <3>2. /\ GetCount \in 1 .. Capacity
          /\ Slot(1) = readIndex
          /\ \A k \in 1 .. Length : Slot(k) \in Indices
          /\ \A k, m \in 1 .. Length : Slot(k) = Slot(m) => k = m
      BY <2>3, RingFacts
    <3>3. \A i \in Indices : array'[i] = IF i = readIndex THEN Null ELSE array[i]
      BY <2>3 DEF Remove, TypeOK
    <3>4. ASSUME NEW k \in 1 .. GetCount - 1
          PROVE  array'[Slot(k + 1)] = queue[k + 1]
      <4>1. k + 1 \in 1 .. Length /\ 1 \in 1 .. Length /\ k + 1 # 1 /\ k + 1 \in 1 .. GetCount
        BY <3>2, CapacityAssumption DEF Length
      <4>2. Slot(k + 1) # readIndex
        BY <3>2, <4>1
      <4>3. array'[Slot(k + 1)] = array[Slot(k + 1)]
        BY <3>2, <3>3, <4>1, <4>2
      <4> QED BY <4>1, <4>3 DEF queue
    <3>5. queue' = [k \in 1 .. GetCount' |-> array'[Slot(k)']]
      BY DEF queue
    <3>6. queue' = [k \in 1 .. GetCount - 1 |-> queue[k + 1]]
      BY <3>1, <3>4, <3>5
    <3>7. GetCount # 0
      BY <3>2
    <3>8. /\ queue # <<>> /\ Head(queue) = queue[1]
          /\ Tail(queue) = [k \in 1 .. GetCount - 1 |-> queue[k + 1]]
      <4>1. queue \in [1 .. GetCount -> Values \cup {Null}] /\ GetCount \in Nat
        BY QueueIsSeq
      <4> DEFINE S == Values \cup {Null}
                 n == GetCount
                 f == queue
      <4>2. f \in [1 .. n -> S] /\ n \in Nat /\ n # 0
        BY <3>7, <4>1
      <4> HIDE DEF S, n, f
      <4>3. f # <<>> /\ Head(f) = f[1] /\ Tail(f) = [k \in 1 .. n - 1 |-> f[k + 1]]
        BY <4>2, TailIs
      <4> QED BY <4>3 DEF n, f
    <3>9. queue[1] = array[readIndex]
      BY <3>2 DEF queue
    <3> QED BY <3>6, <3>8, <3>9
  <2>4. ASSUME NEW v \in Values, Offer(v) PROVE Queue!Next
    <3>1. CASE Full
      <4>1. queue' = queue
        BY <2>1, <2>4, <3>1 DEF Offer
      <4>2. Len(queue) = Capacity
        BY <3>1, RingFacts, QueueIsSeq
      <4> QED BY <2>4, <3>1, <4>1, <4>2 DEF Offer, Queue!Next, Queue!Refuse
    <3>2. CASE ~Full
      BY <2>2, <2>4, <3>2 DEF Offer, Queue!Next, Queue!Accept
    <3> QED BY <3>1, <3>2
  <2>5. ASSUME NEW c \in Consumers, ~Empty, Remove(c) PROVE Queue!Next
    BY <2>3, <2>5 DEF Remove, Queue!Next, Queue!Take
  <2>6. ASSUME NEW c \in Consumers, Empty, ReturnNull(c) PROVE Queue!Next
    <3>1. queue' = queue /\ queue = <<>>
      BY <2>1, <2>6, QueueIsSeq DEF ReturnNull
    <3> QED BY <2>6, <3>1 DEF ReturnNull, Queue!Next, Queue!FindEmpty
  <2>7. ASSUME UNCHANGED <<array, readIndex, writeIndex, inserted, result>>
        PROVE  UNCHANGED Queue!vars
    BY <2>1, <2>7 DEF Queue!vars
  <2>8. ASSUME NEW c \in Consumers,
               \/ Poll(c) \/ Take(c) \/ TakeTimeout(c) \/ WakeUp(c) \/ Resume(c)
               \/ Interrupt(c)
        PROVE  Queue!Next \/ UNCHANGED Queue!vars
    BY <2>5, <2>6, <2>7, <2>8
       DEF Poll, Take, TakeTimeout, WakeUp, Resume, Interrupt, Wait
  <2>9. CASE UNCHANGED vars
    BY <2>7, <2>9 DEF vars
  <2> QED BY <2>4, <2>8, <2>9 DEF Next
<1> QED BY <1>1, <1>2, TypeInductive, PTL DEF Spec, ImplementsQueue, Queue!Spec

=============================================================================
