------------------------- MODULE RequestManagerProofs -------------------------
(***************************************************************************)
(* Proofs about RequestManager, for every limit of the chip, every set of  *)
(* request kinds and any number of requests, answers, restarts and frames  *)
(* that do not fit.                                                        *)
(***************************************************************************)
EXTENDS RequestManager, FiniteSetTheorems, WellFoundedInduction, TLAPS

-----------------------------------------------------------------------------
(* Least and greatest numbers *)

\* A non-empty set of numbers has a least one.
LEMMA LeastNumber ==
    ASSUME NEW T, T \subseteq Nat, T # {}
    PROVE  \E m \in T : \A n \in T : m <= n
<1> DEFINE R == OpToRel(<, Nat)
<1>1. IsWellFoundedOn(R, Nat)
  BY NatLessThanWellFounded
<1>2. \A m, n \in Nat : <<m, n>> \in R <=> m < n
  BY DEF OpToRel
<1> HIDE DEF R
<1>3. PICK m \in T : \A n \in T : ~(<<n, m>> \in R)
  BY <1>1, WFMin
<1>4. ASSUME NEW n \in T PROVE m <= n
  <2>1. m \in Nat /\ n \in Nat
    OBVIOUS
  <2>2. ~(n < m)
    BY <1>2, <1>3, <2>1
  <2> QED BY <2>1, <2>2
<1> QED BY <1>4

-----------------------------------------------------------------------------
(* The inductive invariant *)

\* The ranks are bounded, so a list has a first and a last element.
RankInv == \E b \in Nat : \A r \in Id : rank[r] <= b

\* Nothing has happened yet to a request that was not made.
NewInv == \A r \in Id : r > issued => where[r] = "new" /\ calls[r] = 0

\* The cursors of tic point into the list that it walks through, while a
\* callback runs too: the element and its saved successor stay in the list.
CursorInv ==
    /\ phase = "age" /\ link # Head => link \in In(list)
    /\ phase = "callback" => /\ link \in In(list)
                             /\ pos # Head => pos \in In(list) /\ pos # link
                             /\ hasFailureCallback(kind[link]) => calls[link] = 1
    /\ phase = "look" /\ link # Head => link \in In("postponed")

\* The requests of the two lists.
Listed == In("postponed") \cup In("pending")

\* A request in a list has time left, but for the one that is timing out.
TimeInv == \A r \in Listed : timeToLive[r] > 0 \/ beingFailed(r)

\* No two pending requests have the same answer.
DoublonInv == \A r, s \in In("pending") : sameRequest(kind[r], kind[s]) => r = s

IInv ==
    /\ TypeOK /\ RankInv /\ NewInv /\ CursorInv /\ TimeInv /\ DoublonInv
    /\ WithinLimits /\ NoCallbackLostOrDoubled

-----------------------------------------------------------------------------
(* The order of the lists *)

\* A non-empty set of requests has one with the greatest rank.
LEMMA GreatestRank ==
    ASSUME TypeOK, RankInv, NEW S, S \subseteq Id, S # {}
    PROVE  \E r \in S : \A s \in S : rank[s] <= rank[r]
<1> DEFINE U == {n \in Nat : \A s \in S : rank[s] <= n}
<1>1. \A s \in S : rank[s] \in Nat
  BY DEF TypeOK
<1>2. U # {}
  BY DEF RankInv
<1>3. PICK m \in U : \A n \in U : m <= n
  BY <1>2, LeastNumber
<1>4. m \in Nat /\ \A s \in S : rank[s] <= m
  BY <1>3
<1>5. ASSUME \A s \in S : rank[s] # m PROVE FALSE
  <2>1. PICK s \in S : TRUE
    OBVIOUS
  <2>2. m - 1 \in Nat /\ \A t \in S : rank[t] <= m - 1
    BY <1>1, <1>4, <1>5, <2>1
  <2>3. m - 1 \in U
    BY <2>2
  <2> HIDE DEF U
  <2>4. m <= m - 1
    BY <1>3, <2>3
  <2> QED BY <1>4, <2>4
<1> QED BY <1>4, <1>5

\* list_add_tail puts its element behind all others.
LEMMA TailRankIs ==
    ASSUME TypeOK, RankInv
    PROVE  tailRank \in Nat /\ \A r \in Id : rank[r] < tailRank
<1> DEFINE M == {0} \cup {rank[r] : r \in Id}
           P(n) == \A r \in Id : rank[r] <= n
<1>1. \A r \in Id : rank[r] \in Nat
  BY DEF TypeOK
<1>2. \E n \in M : P(n)
  <2>1. CASE Id = {}
    BY <2>1
  <2>2. CASE Id # {}
    <3>1. PICK r \in Id : \A s \in Id : rank[s] <= rank[r]
      BY <2>2, GreatestRank
    <3> QED BY <3>1
  <2> QED BY <2>1, <2>2
<1>3. (CHOOSE n \in M : P(n)) \in M /\ P(CHOOSE n \in M : P(n))
  BY <1>2
<1>4. tailRank = 1 + CHOOSE n \in M : P(n)
  BY DEF tailRank
<1>5. PICK m \in Nat : tailRank = 1 + m /\ \A r \in Id : rank[r] <= m
  BY <1>1, <1>3, <1>4
<1> QED BY <1>1, <1>5

\* The first element of a list.
LEMMA FirstIs ==
    ASSUME TypeOK, NEW S, S \subseteq Id, S # {}
    PROVE  firstOf(S) \in S
<1> DEFINE T == {rank[r] : r \in S}
<1>1. T \subseteq Nat /\ T # {}
  BY DEF TypeOK
<1>2. PICK m \in T : \A n \in T : m <= n
  BY <1>1, LeastNumber
<1>3. \E r \in S : \A s \in S : rank[r] <= rank[s]
  BY <1>2
<1> QED BY <1>3 DEF firstOf

\* The last element of a list.
LEMMA LastIs ==
    ASSUME TypeOK, RankInv, NEW S, S \subseteq Id, S # {}
    PROVE  lastOf(S) \in S
BY GreatestRank DEF lastOf

\* A list is a set of requests that were made.
LEMMA InIs ==
    ASSUME TypeOK, NEW l
    PROVE  /\ In(l) \subseteq Id
           /\ \A r \in Id : r \in In(l) <=> r <= issued /\ where[r] = l
<1>1. MaxRequests \in Nat /\ issued \in 0..MaxRequests
  BY BoundsAssumption DEF TypeOK
<1>2. 1..issued = {r \in Id : r <= issued}
  BY <1>1 DEF Id
<1> QED BY <1>2 DEF In

\* The first element of a list, or its head.
LEMMA FirstOfList ==
    ASSUME TypeOK, NEW l
    PROVE  firstOf(In(l)) = Head \/ firstOf(In(l)) \in In(l)
BY InIs, FirstIs DEF firstOf

\* The successor of an element is another element of the list, or its head.
LEMMA AfterIs ==
    ASSUME TypeOK, NEW r \in Id, NEW l
    PROVE  \/ after(r, l) = Head
           \/ after(r, l) \in In(l) /\ after(r, l) # r
<1> DEFINE S == {s \in In(l) : rank[s] > rank[r]}
<1>1. S \subseteq Id /\ S \subseteq In(l)
  BY InIs
<1>2. r \notin S
  BY DEF TypeOK
<1>3. after(r, l) = firstOf(S)
  BY DEF after
<1> HIDE DEF S
<1>4. CASE S = {}
  BY <1>3, <1>4 DEF firstOf
<1>5. CASE S # {}
  BY <1>1, <1>2, <1>3, <1>5, FirstIs
<1> QED BY <1>4, <1>5

-----------------------------------------------------------------------------
(* Types *)

\* The bounds as numbers.
LEMMA BoundsAre ==
    /\ MAX_TOTAL_REQ \in Nat \ {0} /\ MAX_PER_NODE_REQ \in Nat \ {0}
    /\ MAX_PER_EP_REQ \in Nat \ {0}
    /\ zigbeeRequestTimeout \in Nat \ {0} /\ TransIds \in Nat \ {0}
    /\ MaxRequests \in Nat /\ MaxAnswers \in Nat /\ MaxTxFull \in Nat
    /\ MaxRestarts \in Nat
BY BoundsAssumption

\* The transaction identifiers wrap around.
LEMMA TransactionIdsAre ==
    ASSUME TypeOK, NEW k \in Kinds
    PROVE  /\ nextTransactionId(k) \in 0..(TransIds - 1)
           /\ transactionIdFor(k) \in 0..(TransIds - 1)
<1>1. g_zclTransactionId \in 0..(TransIds - 1) /\ TransIds \in Nat \ {0}
  BY BoundsAre DEF TypeOK
<1>2. (g_zclTransactionId + 1) % TransIds \in 0..(TransIds - 1)
  BY <1>1, Z3
<1> QED BY <1>1, <1>2 DEF nextTransactionId, transactionIdFor, takesTransactionId

\* The initial state.
LEMMA InitInv == Init => IInv
<1> SUFFICES ASSUME Init PROVE IInv
  OBVIOUS
<1>1. TypeOK
  <2>1. NoKind \in Kinds /\ (CHOOSE m \in Modes : TRUE) \in Modes
    BY BoundsAssumption DEF NoKind
  <2> QED BY <2>1, BoundsAre DEF Init, TypeOK, Head
<1>2. \A l : In(l) = {}
  BY DEF In, Init
<1>3. RankInv /\ NewInv
  BY DEF RankInv, NewInv, Init
<1>4. CursorInv /\ TimeInv /\ DoublonInv
  BY <1>2 DEF CursorInv, TimeInv, DoublonInv, Listed, Init
<1>5. WithinLimits
  BY <1>2, FS_EmptySet, BoundsAre DEF WithinLimits
<1>6. NoCallbackLostOrDoubled
  BY DEF NoCallbackLostOrDoubled, Init
<1> QED BY <1>1, <1>3, <1>4, <1>5, <1>6 DEF IInv

\* free keeps the types, and no rank grows.
LEMMA FreeTypes ==
    ASSUME TypeOK, RankInv, NEW S, free(S)
    PROVE  /\ where' \in [Id -> {"new", "postponed", "pending", "freed", "refused"}]
           /\ timeToLive' \in [Id -> 0..zigbeeRequestTimeout]
           /\ rank' \in [Id -> Nat]
           /\ RankInv'
<1>1. /\ where' \in [Id -> {"new", "postponed", "pending", "freed", "refused"}]
      /\ timeToLive' \in [Id -> 0..zigbeeRequestTimeout]
      /\ rank' \in [Id -> Nat]
  BY BoundsAre DEF free, TypeOK
<1>2. PICK b \in Nat : \A r \in Id : rank[r] <= b
  BY DEF RankInv
<1>3. \A r \in Id : rank'[r] <= b
  BY <1>2 DEF free
<1> QED BY <1>1, <1>3 DEF RankInv

\* An element added at the tail keeps the types.
LEMMA TailTypes ==
    ASSUME TypeOK, RankInv, NEW r \in Id, rank' = [rank EXCEPT ![r] = tailRank]
    PROVE  rank' \in [Id -> Nat] /\ RankInv'
<1>1. tailRank \in Nat /\ \A s \in Id : rank[s] < tailRank
  BY TailRankIs
<1>2. rank' \in [Id -> Nat] /\ \A s \in Id : rank'[s] <= tailRank
  BY <1>1 DEF TypeOK
<1> QED BY <1>1, <1>2 DEF RankInv

\* Every step keeps the types.
LEMMA TypeStep == ASSUME IInv, [Next]_vars PROVE TypeOK' /\ RankInv'
<1> USE BoundsAre
<1>1. TypeOK /\ RankInv /\ CursorInv /\ TimeInv
  BY DEF IInv
<1>2. ASSUME UNCHANGED rank PROVE RankInv'
  BY <1>1, <1>2 DEF RankInv
<1>3. ASSUME NEW k \in Kinds, NEW mode \in Modes, NEW fits \in BOOLEAN,
             sendRequest(k, mode, fits)
      PROVE  TypeOK' /\ RankInv'
  <2>1. issued + 1 \in Id /\ issued' \in 0..MaxRequests
    BY <1>1, <1>3 DEF sendRequest, TypeOK, Id
  <2>2. rank' \in [Id -> Nat] /\ RankInv'
    BY <1>1, <1>3, <2>1, TailTypes DEF sendRequest
  <2>3. misfits' \in 0..MaxTxFull
    BY <1>1, <1>3 DEF sendRequest, room, TypeOK
  <2>4. /\ transactionId' \in [Id -> 0..(TransIds - 1)]
        /\ g_zclTransactionId' \in 0..(TransIds - 1)
    <3>1. /\ nextTransactionId(k) \in 0..(TransIds - 1)
          /\ transactionIdFor(k) \in 0..(TransIds - 1) /\ 0 \in 0..(TransIds - 1)
      BY <1>1, TransactionIdsAre
    <3> QED BY <1>1, <1>3, <2>1, <3>1 DEF sendRequest, TypeOK
  <2>5. where' \in [Id -> {"new", "postponed", "pending", "freed", "refused"}]
    BY <1>1, <1>3 DEF sendRequest, TypeOK
  <2>6. /\ kind' \in [Id -> Kinds] /\ ttlMode' \in [Id -> Modes]
        /\ timeToLive' \in [Id -> 0..zigbeeRequestTimeout]
        /\ phase' \in {"idle", "age", "callback", "look", "crashed"}
        /\ sent' \subseteq Id
        /\ UNCHANGED <<list, link, pos, env, calls, dropped>>
    BY <1>1, <1>3, <2>1 DEF sendRequest, TypeOK
  <2> QED BY <1>1, <2>1, <2>2, <2>3, <2>4, <2>5, <2>6 DEF TypeOK, env
<1>4. CASE tic
  BY <1>1, <1>2, <1>4, FirstOfList, InIs DEF tic, TypeOK, contexts, env
<1>5. CASE age1s
  <2>1. link \in In(list) /\ link \in Id
    BY <1>1, <1>5, InIs DEF age1s, CursorInv
  <2>2. timeToLive[link] > 0
    BY <1>1, <1>5, <2>1, InIs DEF age1s, TimeInv, Listed, beingFailed, TypeOK
  <2>3. timeToLiveAfterTic(link) \in 0..zigbeeRequestTimeout
    BY <1>1, <2>1, <2>2 DEF timeToLiveAfterTic, TypeOK, START_AT_API
  <2>4. timeToLive' \in [Id -> 0..zigbeeRequestTimeout]
    BY <1>1, <1>5, <2>3 DEF age1s, TypeOK
  <2>5. link' \in Id \cup {Head} /\ pos' \in Id \cup {Head}
    BY <1>1, <1>5, <2>1, AfterIs, InIs DEF age1s, TypeOK
  <2>6. calls' \in [Id -> Nat]
    BY <1>1, <1>5, <2>1 DEF age1s, callbackOnFailure, TypeOK
  <2>7. phase' \in {"idle", "age", "callback", "look", "crashed"}
    BY <1>1, <1>5 DEF age1s, TypeOK
  <2> QED BY <1>1, <1>2, <1>5, <2>4, <2>5, <2>6, <2>7 DEF age1s, TypeOK, env
<1>6. CASE callbackReturns
  <2>1. free({link})
    BY <1>6 DEF callbackReturns
  <2> QED BY <1>1, <1>6, <2>1, FreeTypes DEF callbackReturns, TypeOK, env, Head
<1>7. CASE endOfList
  BY <1>1, <1>2, <1>7, FirstOfList, InIs DEF endOfList, TypeOK, contexts, env
<1>8. ASSUME NEW fits \in BOOLEAN, lookForPostponedReqToSend(fits)
      PROVE  TypeOK' /\ RankInv'
  <2>1. link \in In("postponed") /\ link \in Id /\ kind[link] \in Kinds
    BY <1>1, <1>8, InIs DEF lookForPostponedReqToSend, CursorInv, TypeOK
  <2>2. misfits' \in 0..MaxTxFull
    BY <1>1, <1>8 DEF lookForPostponedReqToSend, room, TypeOK
  <2>3. rank' \in [Id -> Nat] /\ RankInv'
    <3>1. CASE rank' = [rank EXCEPT ![link] = tailRank]
      BY <1>1, <2>1, <3>1, TailTypes
    <3>2. CASE UNCHANGED rank
      BY <1>1, <1>2, <3>2 DEF TypeOK
    <3> QED BY <1>8, <3>1, <3>2 DEF lookForPostponedReqToSend
  <2>4. /\ transactionId' \in [Id -> 0..(TransIds - 1)]
        /\ g_zclTransactionId' \in 0..(TransIds - 1)
    BY <1>1, <1>8, <2>1, TransactionIdsAre DEF lookForPostponedReqToSend, TypeOK
  <2>5. /\ where' \in [Id -> {"new", "postponed", "pending", "freed", "refused"}]
        /\ sent' \subseteq Id
    BY <1>1, <1>8, <2>1 DEF lookForPostponedReqToSend, TypeOK
  <2>6. link' \in Id \cup {Head}
    BY <1>1, <1>8, <2>1, AfterIs, InIs DEF lookForPostponedReqToSend
  <2> QED BY <1>1, <1>8, <2>2, <2>3, <2>4, <2>5, <2>6
          DEF lookForPostponedReqToSend, TypeOK, env
<1>9. CASE ticEnds
  BY <1>1, <1>2, <1>9 DEF ticEnds, TypeOK, contexts, env
<1>10. ASSUME NEW r \in Id, NEW success \in BOOLEAN, answer(r, success)
      PROVE  TypeOK' /\ RankInv'
  <2> DEFINE S == matching(kind[r], answerEp(kind[r], success))
  <2>1. answers' \in 0..MaxAnswers
    BY <1>1, <1>10 DEF answer, TypeOK
  <2>2. CASE S = {}
    BY <1>1, <1>2, <1>10, <2>1, <2>2 DEF answer, TypeOK, cursor
  <2>3. CASE S # {}
    <3>1. free({lastOf(S)}) /\ completes(S)
      BY <1>10, <2>3 DEF answer, removePending
    <3>2. calls' \in [Id -> Nat]
      <4>1. S \subseteq Id
        BY <1>1, InIs DEF matching
      <4>2. lastOf(S) \in Id
        BY <1>1, <2>3, <4>1, LastIs
      <4> QED BY <1>1, <3>1, <4>2 DEF completes, TypeOK
    <3> QED BY <1>1, <1>10, <2>1, <3>1, <3>2, FreeTypes DEF answer, TypeOK, cursor
  <2> QED BY <2>2, <2>3
<1>11. ASSUME NEW r \in Id, afDataConfirmFails(r) PROVE TypeOK' /\ RankInv'
  <2> DEFINE S == {s \in In("pending") : transactionId[s] = transactionId[r]}
  <2>1. confirmed' \subseteq Id
    BY <1>1, <1>11 DEF afDataConfirmFails, TypeOK
  <2>2. CASE S = {}
    BY <1>1, <1>2, <1>11, <2>1, <2>2 DEF afDataConfirmFails, TypeOK, cursor
  <2>3. CASE S # {}
    <3>1. free({lastOf(S)}) /\ callbackOnFailure(lastOf(S))
      BY <1>11, <2>3 DEF afDataConfirmFails, removePending
    <3>2. calls' \in [Id -> Nat]
      <4>1. S \subseteq Id
        BY <1>1, InIs
      <4>2. lastOf(S) \in Id
        BY <1>1, <2>3, <4>1, LastIs
      <4> QED BY <1>1, <3>1, <4>2 DEF callbackOnFailure, TypeOK
    <3> QED BY <1>1, <1>11, <2>1, <3>1, <3>2, FreeTypes DEF afDataConfirmFails, TypeOK, cursor
  <2> QED BY <2>2, <2>3
<1>12. CASE restart
  <2>1. free(In("postponed") \cup In("pending"))
    BY <1>12 DEF restart
  <2>2. dropped' \subseteq Id /\ restarts' \in 0..MaxRestarts
    BY <1>1, <1>12, InIs DEF restart, TypeOK
  <2> QED BY <1>1, <1>12, <2>1, <2>2, FreeTypes DEF restart, TypeOK, cursor
<1>13. CASE UNCHANGED vars
  BY <1>1, <1>2, <1>13 DEF vars, contexts, cursor, env, TypeOK
<1> QED BY <1>3, <1>4, <1>5, <1>6, <1>7, <1>8, <1>9, <1>10, <1>11, <1>12, <1>13
        DEF Next, Clock, processZDOMsgCbIncoming, processAfIncomingMsg

-----------------------------------------------------------------------------
(* What the steps do to the lists *)

\* A new request joins at most one list, the others stay where they are.
LEMMA SendLists ==
    ASSUME TypeOK, NEW k \in Kinds, NEW mode, NEW fits, sendRequest(k, mode, fits),
           NEW l
    PROVE  /\ issued + 1 \in Id /\ issued + 1 \notin In(l)
           /\ In(l)' = In(l) \cup {r \in {issued + 1} : where'[r] = l}
           /\ \A s \in Id : s # issued + 1 =>
                 /\ where'[s] = where[s] /\ kind'[s] = kind[s]
                 /\ timeToLive'[s] = timeToLive[s]
           /\ kind'[issued + 1] = k
           /\ timeToLive'[issued + 1] = zigbeeRequestTimeout
<1>1. issued \in Nat /\ issued + 1 \in Id /\ issued' = issued + 1
  BY BoundsAre DEF sendRequest, TypeOK, Id
<1>2. /\ \A s \in Id : s # issued + 1 =>
             /\ where'[s] = where[s] /\ kind'[s] = kind[s]
             /\ timeToLive'[s] = timeToLive[s]
      /\ kind'[issued + 1] = k
      /\ timeToLive'[issued + 1] = zigbeeRequestTimeout
  BY <1>1 DEF sendRequest, TypeOK
<1>3. issued + 1 \notin In(l)
  BY <1>1, InIs
<1>4. 1..(issued + 1) = (1..issued) \cup {issued + 1}
  BY <1>1
<1>5. \A s \in 1..issued : s \in Id /\ s # issued + 1
  BY <1>1, BoundsAre DEF TypeOK, Id
<1>6. \A s \in 1..issued : where'[s] = where[s]
  BY <1>2, <1>5
<1>7. In(l)' = {r \in 1..(issued + 1) : where'[r] = l}
  BY <1>1 DEF In
<1> QED BY <1>1, <1>2, <1>3, <1>4, <1>6, <1>7 DEF In

\* Freed contexts leave their lists.
LEMMA FreeLists ==
    ASSUME TypeOK, NEW S, free(S), issued' = issued,
           NEW l \in {"postponed", "pending"}
    PROVE  /\ In(l)' = In(l) \ S
           /\ \A s \in Id \ S : timeToLive'[s] = timeToLive[s] /\ where'[s] = where[s]
           /\ \A s \in Id \cap S : where'[s] = "freed"
<1>1. \A s \in 1..issued : s \in Id
  BY BoundsAre DEF TypeOK, Id
<1> QED BY <1>1 DEF In, free

\* A list does not change when the places of the requests do not.
LEMMA SameLists ==
    ASSUME UNCHANGED <<issued, where>>, NEW l
    PROVE  In(l)' = In(l)
BY DEF In

\* A postponed request is sent or stays.
LEMMA LookLists ==
    ASSUME TypeOK, NEW fits, lookForPostponedReqToSend(fits), link \in In("postponed")
    PROVE  \/ /\ readyToSendDoublonCheck(kind[link])
              /\ In("postponed")' = In("postponed") \ {link}
              /\ In("pending")' = In("pending") \cup {link}
              /\ link \notin In("pending") /\ link \in Id
              /\ where' = [where EXCEPT ![link] = "pending"]
           \/ UNCHANGED where /\ \A l : In(l)' = In(l)
<1>1. link \in Id /\ link \in 1..issued /\ where[link] = "postponed"
  BY InIs DEF In
<1>2. issued' = issued
  BY DEF lookForPostponedReqToSend
<1>3. CASE UNCHANGED where
  BY <1>2, <1>3, SameLists
<1>4. CASE ~UNCHANGED where
  <2>1. /\ readyToSendDoublonCheck(kind[link])
        /\ where' = [where EXCEPT ![link] = "pending"]
    BY <1>4 DEF lookForPostponedReqToSend
  <2>2. \A s \in 1..issued : s \in Id
    BY BoundsAre DEF TypeOK, Id
  <2>3. \A s \in 1..issued : where'[s] = IF s = link THEN "pending" ELSE where[s]
    BY <2>1, <2>2 DEF TypeOK
  <2> QED BY <1>1, <1>2, <2>1, <2>3 DEF In
<1> QED BY <1>3, <1>4

-----------------------------------------------------------------------------
(* The limits and the doublon test *)

\* The lists are finite.
LEMMA FiniteLists ==
    ASSUME TypeOK, NEW S, S \subseteq Id
    PROVE  IsFiniteSet(S) /\ Cardinality(S) \in Nat
<1>1. IsFiniteSet(Id)
  BY BoundsAre, FS_Interval DEF Id
<1>2. IsFiniteSet(S)
  BY <1>1, FS_Subset
<1> QED BY <1>2, FS_CardinalityType

\* A subset is not larger.
LEMMA SubsetSmaller ==
    ASSUME TypeOK, NEW S, NEW T, S \subseteq Id, T \subseteq S
    PROVE  /\ Cardinality(T) \in Nat /\ Cardinality(S) \in Nat
           /\ Cardinality(T) <= Cardinality(S)
<1>1. IsFiniteSet(S) /\ Cardinality(S) \in Nat /\ Cardinality(T) \in Nat
  BY FiniteLists
<1> QED BY <1>1, FS_Subset

\* One element more is one more at most.
LEMMA OneLarger ==
    ASSUME TypeOK, NEW S, NEW T, NEW x \in Id, S \subseteq Id, T \subseteq S \cup {x}
    PROVE  /\ Cardinality(T) \in Nat /\ Cardinality(S) \in Nat
           /\ Cardinality(T) <= Cardinality(S) + 1
<1>1. S \cup {x} \subseteq Id
  OBVIOUS
<1>2. Cardinality(T) <= Cardinality(S \cup {x}) /\ Cardinality(T) \in Nat
  BY <1>1, SubsetSmaller
<1>3. IsFiniteSet(S) /\ Cardinality(S) \in Nat
  BY FiniteLists
<1>4. Cardinality(S \cup {x}) = IF x \in S THEN Cardinality(S) ELSE Cardinality(S) + 1
  BY <1>3, FS_AddElement
<1> QED BY <1>2, <1>3, <1>4

\* When no request becomes pending the limits keep.
LEMMA NoMorePending ==
    ASSUME TypeOK, WithinLimits, DoublonInv,
           In("pending")' \subseteq In("pending"),
           \A r \in In("pending") : kind'[r] = kind[r]
    PROVE  WithinLimits' /\ DoublonInv'
<1>1. In("pending") \subseteq Id
  BY InIs
<1>2. Cardinality(In("pending")') <= MAX_TOTAL_REQ
  <2>1. Cardinality(In("pending")') <= Cardinality(In("pending"))
    BY <1>1, SubsetSmaller
  <2>2. Cardinality(In("pending")') \in Nat /\ Cardinality(In("pending")) \in Nat
    BY <1>1, SubsetSmaller
  <2> QED BY <2>1, <2>2, BoundsAre DEF WithinLimits
<1>3. ASSUME NEW r \in In("pending")'
      PROVE  /\ Cardinality({s \in In("pending")' : kind'[s].node = kind'[r].node})
                   <= MAX_PER_NODE_REQ
             /\ Cardinality({s \in {s \in In("pending")' : kind'[s].node = kind'[r].node} :
                               kind'[r].ep # 0 /\ kind'[s].ep = kind'[r].ep})
                   <= MAX_PER_EP_REQ
  <2> DEFINE N == {s \in In("pending")' : kind'[s].node = kind'[r].node}
             E == {s \in N : kind'[r].ep # 0 /\ kind'[s].ep = kind'[r].ep}
  <2>1. r \in In("pending") /\ kind'[r] = kind[r]
    OBVIOUS
  <2>2. N \subseteq onNode(kind[r].node) /\ E \subseteq onEp(kind[r].node, kind[r].ep)
    BY <2>1 DEF onNode, onEp
  <2>3. onNode(kind[r].node) \subseteq Id /\ onEp(kind[r].node, kind[r].ep) \subseteq Id
    BY <1>1 DEF onNode, onEp
  <2> HIDE DEF N, E
  <2>4. /\ Cardinality(N) <= Cardinality(onNode(kind[r].node))
        /\ Cardinality(N) \in Nat /\ Cardinality(onNode(kind[r].node)) \in Nat
    BY <2>2, <2>3, SubsetSmaller
  <2>5. /\ Cardinality(E) <= Cardinality(onEp(kind[r].node, kind[r].ep))
        /\ Cardinality(E) \in Nat /\ Cardinality(onEp(kind[r].node, kind[r].ep)) \in Nat
    BY <2>2, <2>3, SubsetSmaller
  <2>6. /\ Cardinality(onNode(kind[r].node)) <= MAX_PER_NODE_REQ
        /\ Cardinality(onEp(kind[r].node, kind[r].ep)) <= MAX_PER_EP_REQ
    BY <2>1 DEF WithinLimits
  <2>7. Cardinality(N) <= MAX_PER_NODE_REQ /\ Cardinality(E) <= MAX_PER_EP_REQ
    BY <2>4, <2>5, <2>6, BoundsAre
  <2> QED BY <2>7 DEF N, E
<1>4. WithinLimits'
  BY <1>2, <1>3 DEF WithinLimits, onNode, onEp
<1>5. DoublonInv'
  BY DEF DoublonInv
<1> QED BY <1>4, <1>5

\* A request that passes the tests of the manager becomes pending.
LEMMA OneMorePending ==
    ASSUME TypeOK, WithinLimits, DoublonInv, NEW x \in Id, NEW k,
           In("pending")' = In("pending") \cup {x},
           \A r \in In("pending") : kind'[r] = kind[r],
           kind'[x] = k, x \notin In("pending"),
           readyToSendDoublonCheck(k)
    PROVE  WithinLimits' /\ DoublonInv'
<1>1. In("pending") \subseteq Id
  BY InIs
<1>2. /\ ~ \E r \in In("pending") : sameRequest(k, kind[r])
      /\ Cardinality(In("pending")) < MAX_TOTAL_REQ
      /\ Cardinality(onNode(k.node)) < MAX_PER_NODE_REQ
      /\ Cardinality(onEp(k.node, k.ep)) < MAX_PER_EP_REQ
  BY DEF readyToSendDoublonCheck, readyToSend
<1>3. Cardinality(In("pending")') <= MAX_TOTAL_REQ
  <2>1. /\ Cardinality(In("pending")') <= Cardinality(In("pending")) + 1
        /\ Cardinality(In("pending")') \in Nat /\ Cardinality(In("pending")) \in Nat
    BY <1>1, OneLarger
  <2> QED BY <1>2, <2>1, BoundsAre
<1>4. ASSUME NEW r \in In("pending")'
      PROVE  /\ Cardinality({s \in In("pending")' : kind'[s].node = kind'[r].node})
                   <= MAX_PER_NODE_REQ
             /\ Cardinality({s \in {s \in In("pending")' : kind'[s].node = kind'[r].node} :
                               kind'[r].ep # 0 /\ kind'[s].ep = kind'[r].ep})
                   <= MAX_PER_EP_REQ
  <2> DEFINE node == kind'[r].node
             ep == kind'[r].ep
             N == {s \in In("pending")' : kind'[s].node = node}
             E == {s \in N : ep # 0 /\ kind'[s].ep = ep}
  <2>1. onNode(node) \subseteq Id /\ onEp(node, ep) \subseteq Id
    BY <1>1 DEF onNode, onEp
  <2>2. N \subseteq onNode(node) \cup {x} /\ E \subseteq onEp(node, ep) \cup {x}
    BY DEF onNode, onEp
  <2>3. node # k.node => N \subseteq onNode(node) /\ E \subseteq onEp(node, ep)
    BY DEF onNode, onEp
  <2>4. ep # k.ep => E \subseteq onEp(node, ep)
    BY DEF onNode, onEp
  <2>5. r # x => /\ Cardinality(onNode(node)) <= MAX_PER_NODE_REQ
                 /\ Cardinality(onEp(node, ep)) <= MAX_PER_EP_REQ
    BY DEF WithinLimits
  <2>6. r = x => node = k.node /\ ep = k.ep
    OBVIOUS
  <2> HIDE DEF node, ep, N, E
  <2>7. /\ Cardinality(N) \in Nat /\ Cardinality(onNode(node)) \in Nat
        /\ Cardinality(N) <= Cardinality(onNode(node)) + 1
    BY <2>1, <2>2, OneLarger
  <2>8. /\ Cardinality(E) \in Nat /\ Cardinality(onEp(node, ep)) \in Nat
        /\ Cardinality(E) <= Cardinality(onEp(node, ep)) + 1
    BY <2>1, <2>2, OneLarger
  <2>9. Cardinality(N) <= MAX_PER_NODE_REQ
    <3>1. CASE node = k.node
      BY <1>2, <2>7, <3>1, BoundsAre
    <3>2. CASE node # k.node
      <4>1. Cardinality(N) <= Cardinality(onNode(node))
        BY <2>1, <2>3, <3>2, SubsetSmaller
      <4> QED BY <2>5, <2>6, <2>7, <3>2, <4>1, BoundsAre
    <3> QED BY <3>1, <3>2
  <2>10. Cardinality(E) <= MAX_PER_EP_REQ
    <3>1. CASE node = k.node /\ ep = k.ep
      BY <1>2, <2>8, <3>1, BoundsAre
    <3>2. CASE ~(node = k.node /\ ep = k.ep)
      <4>1. Cardinality(E) <= Cardinality(onEp(node, ep))
        BY <2>1, <2>3, <2>4, <3>2, SubsetSmaller
      <4> QED BY <2>5, <2>6, <2>8, <3>2, <4>1, BoundsAre
    <3> QED BY <3>1, <3>2
  <2> QED BY <2>9, <2>10 DEF node, ep, N, E
<1>5. WithinLimits'
  BY <1>3, <1>4 DEF WithinLimits, onNode, onEp
<1>6. DoublonInv'
  BY <1>2 DEF DoublonInv, sameRequest
<1> QED BY <1>5, <1>6

\* Every step keeps the limits and the doublon test.
LEMMA LimitsStep == ASSUME IInv, [Next]_vars PROVE WithinLimits' /\ DoublonInv'
<1>1. TypeOK /\ RankInv /\ CursorInv /\ WithinLimits /\ DoublonInv
  BY DEF IInv
<1>2. ASSUME UNCHANGED <<issued, where, kind>> PROVE WithinLimits' /\ DoublonInv'
  <2>1. In("pending")' = In("pending")
    BY <1>2, SameLists
  <2> QED BY <1>1, <1>2, <2>1, NoMorePending
<1>3. ASSUME NEW S, free(S), UNCHANGED <<issued, kind>> PROVE WithinLimits' /\ DoublonInv'
  <2>1. In("pending")' \subseteq In("pending")
    BY <1>1, <1>3, FreeLists
  <2> QED BY <1>1, <1>3, <2>1, NoMorePending
<1>4. ASSUME NEW k \in Kinds, NEW mode \in Modes, NEW fits \in BOOLEAN,
             sendRequest(k, mode, fits)
      PROVE  WithinLimits' /\ DoublonInv'
  <2> DEFINE x == issued + 1
  <2>1. /\ x \in Id /\ x \notin In("pending") /\ kind'[x] = k
        /\ In("pending")' = In("pending") \cup {r \in {x} : where'[r] = "pending"}
        /\ \A s \in Id : s # x => kind'[s] = kind[s]
    BY <1>1, <1>4, SendLists
  <2>2. \A s \in In("pending") : kind'[s] = kind[s]
    BY <1>1, <2>1, InIs
  <2>3. CASE where'[x] = "pending"
    <3>1. readyToSendDoublonCheck(k)
      BY <1>1, <1>4, <2>1, <2>3 DEF sendRequest, TypeOK
    <3>2. In("pending")' = In("pending") \cup {x}
      BY <2>1, <2>3
    <3> QED BY <1>1, <2>1, <2>2, <3>1, <3>2, OneMorePending
  <2>4. CASE where'[x] # "pending"
    <3>1. In("pending")' = In("pending")
      BY <2>1, <2>4
    <3> QED BY <1>1, <2>2, <3>1, NoMorePending
  <2> QED BY <2>3, <2>4
<1>5. ASSUME NEW fits \in BOOLEAN, lookForPostponedReqToSend(fits)
      PROVE  WithinLimits' /\ DoublonInv'
  <2>1. link \in In("postponed") /\ kind' = kind
    BY <1>1, <1>5 DEF lookForPostponedReqToSend, CursorInv
  <2>2. CASE \A l : In(l)' = In(l)
    BY <1>1, <2>1, <2>2, NoMorePending
  <2>3. CASE /\ readyToSendDoublonCheck(kind[link])
             /\ In("pending")' = In("pending") \cup {link}
             /\ link \notin In("pending") /\ link \in Id
    BY <1>1, <2>1, <2>3, OneMorePending
  <2> QED BY <1>1, <1>5, <2>1, <2>2, <2>3, LookLists
<1>6. ASSUME NEW r \in Id, NEW success \in BOOLEAN, answer(r, success)
      PROVE  WithinLimits' /\ DoublonInv'
  BY <1>2, <1>3, <1>6 DEF answer, removePending
<1>7. ASSUME NEW r \in Id, afDataConfirmFails(r) PROVE WithinLimits' /\ DoublonInv'
  BY <1>2, <1>3, <1>7 DEF afDataConfirmFails, removePending
<1>8. CASE tic \/ age1s \/ endOfList \/ ticEnds \/ UNCHANGED vars
  BY <1>2, <1>8 DEF tic, age1s, endOfList, ticEnds, vars, contexts
<1>9. CASE callbackReturns \/ restart
  BY <1>3, <1>9 DEF callbackReturns, restart
<1> QED BY <1>4, <1>5, <1>6, <1>7, <1>8, <1>9
        DEF Next, Clock, processZDOMsgCbIncoming, processAfIncomingMsg

-----------------------------------------------------------------------------
(* The cursors and the time left *)

\* Every step keeps the cursors in their lists and the time of the others.
LEMMA CursorStep == ASSUME IInv, [Next]_vars PROVE NewInv' /\ CursorInv' /\ TimeInv'
<1>1. /\ TypeOK /\ RankInv /\ NewInv /\ CursorInv /\ TimeInv
      /\ list \in {"postponed", "pending"}
  BY DEF IInv, TypeOK
<1>2. \A l : In(l) \subseteq Id
  BY <1>1, InIs
<1>3. ASSUME NEW k \in Kinds, NEW mode \in Modes, NEW fits \in BOOLEAN,
             sendRequest(k, mode, fits)
      PROVE  NewInv' /\ CursorInv' /\ TimeInv'
  <2> DEFINE x == issued + 1
  <2>1. /\ x \in Id
        /\ \A s \in Id : s # x => /\ where'[s] = where[s] /\ kind'[s] = kind[s]
                                   /\ timeToLive'[s] = timeToLive[s]
        /\ timeToLive'[x] = zigbeeRequestTimeout
    BY <1>1, <1>3, SendLists
  <2>2. \A l : /\ x \notin In(l)
               /\ In(l)' = In(l) \cup {r \in {x} : where'[r] = l}
    BY <1>1, <1>3, SendLists
  <2>3. /\ UNCHANGED <<list, link, pos, calls>> /\ issued' = x
        /\ phase \in {"idle", "callback"}
        /\ phase' = phase \/ phase' = "crashed"
    <3>1. UNCHANGED <<list, link, pos, calls>>
      BY ONLY <1>3, SMTT(60) DEF sendRequest
    <3>2. issued' = x /\ phase \in {"idle", "callback"}
      BY ONLY <1>3, SMTT(60) DEF sendRequest
    <3>3. phase' = phase \/ phase' = "crashed"
      BY ONLY <1>3, SMTT(60) DEF sendRequest
    <3> QED BY ONLY <3>1, <3>2, <3>3
  <2>4. NewInv'
    <3>1. SUFFICES ASSUME NEW r \in Id, r > issued'
                   PROVE  where'[r] = "new" /\ calls'[r] = 0
      BY DEF NewInv
    <3>2. issued \in Int /\ r \in Int
      BY ONLY <1>1, <3>1, BoundsAre DEF TypeOK, Id
    <3>3. r > issued /\ r # x
      BY ONLY <2>3, <3>1, <3>2
    <3>4. where[r] = "new" /\ calls[r] = 0
      BY ONLY <1>1, <3>1, <3>3 DEF NewInv
    <3>5. where'[r] = where[r] /\ calls' = calls
      BY ONLY <2>1, <2>3, <3>1, <3>3
    <3> QED BY ONLY <3>4, <3>5
  <2>5. CursorInv'
    <3>1. ASSUME phase' = "callback"
          PROVE  /\ link \in In(list) /\ link # x
                 /\ pos # Head => pos \in In(list) /\ pos # link
                 /\ hasFailureCallback(kind[link]) => calls[link] = 1
      BY <1>1, <2>2, <2>3, <3>1 DEF CursorInv
    <3>2. In(list)' = In(list) \cup {r \in {x} : where'[r] = list}
      BY <2>2, <2>3, <1>1 DEF In
    <3>3. phase' = "callback" => kind'[link] = kind[link]
      BY <1>2, <2>1, <3>1
    <3> QED BY <2>3, <3>1, <3>2, <3>3 DEF CursorInv
  <2>6. TimeInv'
    <3>1. ASSUME NEW r \in Listed' PROVE timeToLive'[r] > 0 \/ beingFailed(r)'
      <4>1. CASE r = x
        BY <2>1, <4>1, BoundsAre
      <4>2. CASE r # x
        <5>1. r \in Listed /\ r \in Id
          BY <1>2, <2>2, <4>2 DEF Listed
        <5> QED BY <1>1, <2>1, <2>3, <4>2, <5>1 DEF TimeInv, beingFailed
      <4> QED BY <4>1, <4>2
    <3> QED BY <3>1 DEF TimeInv
  <2> QED BY <2>4, <2>5, <2>6
<1>4. ASSUME UNCHANGED <<issued, where, calls>> PROVE NewInv'
  BY <1>1, <1>4 DEF NewInv
<1>5. ASSUME UNCHANGED <<issued, where>>
      PROVE  (\A l : In(l)' = In(l)) /\ Listed' = Listed
  BY <1>5, SameLists DEF Listed
<1>6. CASE tic
  <2>1. CursorInv'
    <3>1. /\ phase' = "age" /\ list' = "postponed"
          /\ link' = firstOf(In("postponed")) /\ UNCHANGED <<issued, where>>
      BY <1>6 DEF tic, contexts
    <3>2. In(list)' = In("postponed")
      BY <3>1 DEF In
    <3> QED BY <1>1, <3>1, <3>2, FirstOfList DEF CursorInv
  <2>2. TimeInv'
    BY <1>1, <1>5, <1>6 DEF tic, contexts, TimeInv, beingFailed
  <2> QED BY <1>4, <1>6, <2>1, <2>2 DEF tic, contexts
<1>7. CASE age1s
  <2>1. /\ phase = "age" /\ link \in In(list) /\ link \in Id
        /\ UNCHANGED <<issued, where, list, kind>>
    BY <1>1, <1>2, <1>7 DEF age1s, CursorInv
  <2>2. \A r \in Id : r > issued => r # link
    BY <1>1, <2>1, InIs DEF TypeOK, Id
  <2>3. NewInv'
    BY <1>1, <1>7, <2>1, <2>2 DEF age1s, callbackOnFailure, NewInv, TypeOK
  <2>4. In(list)' = In(list) /\ Listed' = Listed
    BY <2>1, <1>5 DEF In
  <2>5. \/ after(link, list) = Head
        \/ after(link, list) \in In(list) /\ after(link, list) # link
    BY <1>1, <2>1, AfterIs
  <2>6. calls[link] = 0
    BY <2>1 DEF IInv, NoCallbackLostOrDoubled, beingFailed, In, TypeOK
  <2>7. timeToLive[link] > 0
    BY <1>1, <2>1 DEF TimeInv, Listed, beingFailed
  <2>8. \A r \in Id : timeToLive'[r] = IF r = link THEN timeToLiveAfterTic(link) ELSE timeToLive[r]
    BY <1>1, <1>7 DEF age1s, TypeOK
  <2>9. CASE timeToLiveAfterTic(link) <= 0
    <3>1. /\ phase' = "callback" /\ pos' = after(link, list)
          /\ callbackOnFailure(link) /\ UNCHANGED link
      BY <1>7, <2>9 DEF age1s
    <3>2. hasFailureCallback(kind'[link]) => calls'[link] = 1
      BY <1>1, <2>1, <2>6, <3>1 DEF callbackOnFailure, TypeOK
    <3>3. CursorInv'
      BY <2>1, <2>4, <2>5, <3>1, <3>2 DEF CursorInv
    <3>4. TimeInv'
      BY <1>1, <1>2, <2>1, <2>4, <2>8, <3>1 DEF TimeInv, beingFailed, Listed
    <3> QED BY <2>3, <3>3, <3>4
  <2>10. CASE ~(timeToLiveAfterTic(link) <= 0)
    <3>1. link' = after(link, list) /\ UNCHANGED <<phase, pos, calls>>
      BY <1>7, <2>10 DEF age1s
    <3>2. CursorInv'
      BY <2>1, <2>4, <2>5, <3>1 DEF CursorInv
    <3>3. timeToLiveAfterTic(link) > 0
      BY <1>1, <2>1, <2>10 DEF timeToLiveAfterTic, TypeOK
    <3>4. TimeInv'
      BY <1>1, <1>2, <2>1, <2>4, <2>8, <3>1, <3>3 DEF TimeInv, beingFailed, Listed
    <3> QED BY <2>3, <3>2, <3>4
  <2> QED BY <2>9, <2>10
<1>8. ASSUME NEW S, free(S), S \subseteq Listed, UNCHANGED <<issued, list>>,
             \A r \in Id : calls'[r] # calls[r] => r \in Listed
      PROVE  /\ NewInv'
             /\ In(list)' = In(list) \ S
             /\ Listed' = Listed \ S
             /\ \A s \in Id \ S : timeToLive'[s] = timeToLive[s]
  <2>1. /\ In("postponed")' = In("postponed") \ S
        /\ In("pending")' = In("pending") \ S
        /\ \A s \in Id \ S : timeToLive'[s] = timeToLive[s] /\ where'[s] = where[s]
    BY <1>1, <1>8, FreeLists
  <2>2. \A r \in Id : r > issued => r \notin Listed
    BY <1>1, InIs DEF Listed, TypeOK, Id
  <2>3. NewInv'
    BY <1>1, <1>8, <2>1, <2>2 DEF NewInv
  <2>4. In(list)' = In(list) \ S
    BY <1>1, <1>8, <2>1 DEF In
  <2> QED BY <2>1, <2>3, <2>4 DEF Listed
<1>9. CASE callbackReturns
  <2>1. /\ phase = "callback" /\ phase' = "age" /\ link' = pos
        /\ free({link}) /\ UNCHANGED <<issued, list, calls>>
        /\ link \in In(list) /\ link \in Listed
        /\ pos # Head => pos \in In(list) /\ pos # link
    BY <1>1, <1>9 DEF callbackReturns, CursorInv, Listed
  <2>2. /\ NewInv' /\ In(list)' = In(list) \ {link} /\ Listed' = Listed \ {link}
        /\ \A s \in Id \ {link} : timeToLive'[s] = timeToLive[s]
    BY <1>8, <2>1
  <2>3. CursorInv'
    BY <2>1, <2>2 DEF CursorInv
  <2>4. TimeInv'
    BY <1>1, <1>2, <2>1, <2>2 DEF TimeInv, beingFailed, Listed
  <2> QED BY <2>2, <2>3, <2>4
<1>10. CASE endOfList
  <2>1. /\ phase = "age" /\ UNCHANGED <<issued, where, calls, timeToLive, kind, pos>>
        /\ \/ phase' = "age" /\ list' = "pending" /\ link' = firstOf(In("pending"))
           \/ phase' = "look" /\ link' = firstOf(In("postponed"))
           \/ phase' = "idle"
    BY <1>10 DEF endOfList, contexts
  <2>2. /\ list' = "pending" => In(list)' = In("pending")
        /\ In("postponed")' = In("postponed")
    BY <2>1 DEF In
  <2>3. CursorInv'
    BY <1>1, <2>1, <2>2, FirstOfList DEF CursorInv
  <2>4. TimeInv'
    BY <1>1, <1>5, <2>1 DEF TimeInv, beingFailed
  <2> QED BY <1>4, <2>1, <2>3, <2>4
<1>11. ASSUME NEW fits \in BOOLEAN, lookForPostponedReqToSend(fits)
       PROVE  NewInv' /\ CursorInv' /\ TimeInv'
  <2>1. /\ phase = "look" /\ phase' = "look" /\ link \in In("postponed")
        /\ link' = after(link, "postponed")
        /\ UNCHANGED <<issued, calls, timeToLive>>
    BY <1>1, <1>11 DEF lookForPostponedReqToSend, CursorInv
  <2>2. link \in Id /\ link <= issued
    BY <1>1, <2>1, InIs
  <2>3. \/ link' = Head
        \/ link' \in In("postponed") /\ link' # link
    BY <1>1, <2>1, <2>2, AfterIs
  <2>4. /\ In("postponed") \ {link} \subseteq In("postponed")'
        /\ Listed' = Listed
        /\ \A r \in Id : r > issued => where'[r] = where[r]
    <3>1. CASE UNCHANGED where /\ \A l : In(l)' = In(l)
      BY <3>1 DEF Listed
    <3>2. CASE /\ In("postponed")' = In("postponed") \ {link}
               /\ In("pending")' = In("pending") \cup {link}
               /\ where' = [where EXCEPT ![link] = "pending"]
      BY <1>1, <2>1, <2>2, <3>2 DEF Listed, TypeOK, Id
    <3> QED BY <1>1, <1>11, <2>1, <3>1, <3>2, LookLists
  <2>5. NewInv'
    BY <1>1, <2>1, <2>4 DEF NewInv
  <2>6. CursorInv'
    BY <2>1, <2>3, <2>4 DEF CursorInv
  <2>7. TimeInv'
    BY <1>1, <2>1, <2>4 DEF TimeInv, beingFailed
  <2> QED BY <2>5, <2>6, <2>7
<1>12. ASSUME phase = "idle", phase' = "idle", TimeInv' PROVE CursorInv' /\ TimeInv'
  BY <1>12 DEF CursorInv
<1>13. CASE ticEnds
  <2>1. TimeInv'
    BY <1>1, <1>5, <1>13 DEF ticEnds, contexts, TimeInv, beingFailed
  <2>2. CursorInv'
    BY <1>13 DEF ticEnds, CursorInv
  <2> QED BY <1>4, <1>13, <2>1, <2>2 DEF ticEnds, contexts
<1>14. ASSUME phase = "idle", UNCHANGED <<issued, cursor>>, NEW S, S \subseteq Listed,
              free(S), \A r \in Id : calls'[r] # calls[r] => r \in Listed
       PROVE  NewInv' /\ CursorInv' /\ TimeInv'
  <2>1. phase' = "idle" /\ list' = list
    BY <1>14 DEF cursor
  <2>2. /\ NewInv' /\ Listed' = Listed \ S
        /\ \A s \in Id \ S : timeToLive'[s] = timeToLive[s]
    BY <1>8, <1>14, <2>1
  <2>3. TimeInv'
    BY <1>1, <1>2, <1>14, <2>2 DEF TimeInv, beingFailed, Listed
  <2> QED BY <1>12, <1>14, <2>1, <2>2, <2>3
<1>15. ASSUME phase = "idle", UNCHANGED <<issued, cursor, where, timeToLive, calls>>
       PROVE  NewInv' /\ CursorInv' /\ TimeInv'
  <2>1. phase' = "idle"
    BY <1>15 DEF cursor
  <2>2. TimeInv'
    BY <1>1, <1>5, <1>15 DEF TimeInv, beingFailed
  <2> QED BY <1>4, <1>12, <1>15, <2>1, <2>2
<1>16. ASSUME NEW S, S \subseteq In("pending"), S # {}
       PROVE  lastOf(S) \in Listed /\ lastOf(S) \in Id
  BY <1>1, <1>2, <1>16, LastIs DEF Listed
<1>17. ASSUME NEW r \in Id, NEW success \in BOOLEAN, answer(r, success)
      PROVE  NewInv' /\ CursorInv' /\ TimeInv'
  <2> DEFINE S == matching(kind[r], answerEp(kind[r], success))
  <2>1. phase = "idle" /\ UNCHANGED <<issued, cursor>>
    BY <1>17 DEF answer
  <2>2. CASE S = {}
    BY <1>15, <1>17, <2>1, <2>2 DEF answer
  <2>3. CASE S # {}
    <3>1. free({lastOf(S)}) /\ completes(S)
      BY <1>17, <2>3 DEF answer, removePending
    <3>2. lastOf(S) \in Listed /\ lastOf(S) \in Id
      BY <1>16, <2>3 DEF matching
    <3>3. \A s \in Id : calls'[s] # calls[s] => s \in Listed
      BY <1>1, <3>1, <3>2 DEF completes, TypeOK
    <3> QED BY <1>14, <2>1, <3>1, <3>2, <3>3
  <2> QED BY <2>2, <2>3
<1>18. ASSUME NEW r \in Id, afDataConfirmFails(r) PROVE NewInv' /\ CursorInv' /\ TimeInv'
  <2> DEFINE S == {s \in In("pending") : transactionId[s] = transactionId[r]}
  <2>1. phase = "idle" /\ UNCHANGED <<issued, cursor>>
    BY <1>18 DEF afDataConfirmFails
  <2>2. CASE S = {}
    BY <1>15, <1>18, <2>1, <2>2 DEF afDataConfirmFails
  <2>3. CASE S # {}
    <3>1. free({lastOf(S)}) /\ callbackOnFailure(lastOf(S))
      BY <1>18, <2>3 DEF afDataConfirmFails, removePending
    <3>2. lastOf(S) \in Listed /\ lastOf(S) \in Id
      BY <1>16, <2>3
    <3>3. \A s \in Id : calls'[s] # calls[s] => s \in Listed
      BY <1>1, <3>1, <3>2 DEF callbackOnFailure, TypeOK
    <3> QED BY <1>14, <2>1, <3>1, <3>2, <3>3
  <2> QED BY <2>2, <2>3
<1>19. CASE restart
  <2>1. phase = "idle" /\ UNCHANGED <<issued, cursor, calls>> /\ free(Listed)
    BY <1>19 DEF restart, Listed
  <2> QED BY <1>14, <2>1
<1>20. CASE UNCHANGED vars
  <2>1. UNCHANGED <<issued, where, calls, phase, list, link, pos, kind, timeToLive>>
    BY <1>20 DEF vars, contexts, cursor
  <2>2. CursorInv'
    BY <1>1, <2>1 DEF CursorInv, In
  <2>3. TimeInv'
    BY <1>1, <1>5, <2>1 DEF TimeInv, beingFailed
  <2> QED BY <1>4, <2>1, <2>2, <2>3
<1> QED BY <1>3, <1>6, <1>7, <1>9, <1>10, <1>11, <1>13, <1>17, <1>18, <1>19, <1>20
        DEF Next, Clock, processZDOMsgCbIncoming, processAfIncomingMsg

-----------------------------------------------------------------------------
(* The callbacks *)

\* What NoCallbackLostOrDoubled says of one request.
CalledOnce(r) ==
    /\ calls[r] <= 1
    /\ r \in Listed => (calls[r] = 0 \/ beingFailed(r))
    /\ where[r] = "freed" /\ r \notin dropped /\ kind[r].resp
         /\ hasFailureCallback(kind[r]) => calls[r] = 1

\* Every step calls back once those that it takes from a list.
LEMMA CallsStep == ASSUME IInv, [Next]_vars PROVE NoCallbackLostOrDoubled'
<1>1. /\ TypeOK /\ RankInv /\ NewInv /\ CursorInv
      /\ issued \in Nat /\ \A r \in 1..issued : r \in Id /\ CalledOnce(r)
  <2>1. /\ TypeOK /\ RankInv /\ NewInv /\ CursorInv /\ NoCallbackLostOrDoubled
    BY DEF IInv
  <2>2. issued \in Nat /\ \A r \in 1..issued : r \in Id
    BY <2>1, BoundsAre DEF TypeOK, Id
  <2> QED BY <2>1, <2>2 DEF NoCallbackLostOrDoubled, CalledOnce, Listed
<1>2. SUFFICES \A r \in 1..issued' : CalledOnce(r)'
  BY DEF NoCallbackLostOrDoubled, CalledOnce, Listed
<1>3. ASSUME NEW k \in Kinds, NEW mode \in Modes, NEW fits \in BOOLEAN,
             sendRequest(k, mode, fits), NEW r \in 1..issued'
      PROVE  CalledOnce(r)'
  <2> DEFINE x == issued + 1
  <2>1. /\ x \in Id /\ kind'[x] = k
        /\ \A s \in Id : s # x => where'[s] = where[s] /\ kind'[s] = kind[s]
    BY <1>1, <1>3, SendLists
  <2>2. \A l : In(l)' = In(l) \cup {s \in {x} : where'[s] = l}
    BY <1>1, <1>3, SendLists
  <2>3. /\ UNCHANGED <<link, calls, dropped>> /\ issued' = x
        /\ phase \in {"idle", "callback"} /\ phase' \in {phase, "crashed"}
    BY <1>3 DEF sendRequest
  <2>4. CASE r = x
    <3>1. calls'[x] = 0
      BY <1>1, <2>1, <2>3 DEF NewInv, TypeOK
    <3>2. where'[x] = "freed" => ~k.resp
      BY <1>1, <1>3, <2>1 DEF sendRequest, TypeOK
    <3> QED BY <2>1, <2>4, <3>1, <3>2 DEF CalledOnce
  <2>5. CASE r # x
    <3>1. r \in 1..issued /\ r \in Id /\ CalledOnce(r)
      BY <1>1, <2>3, <2>5
    <3>2. r \in Listed' => r \in Listed
      BY <2>2, <2>5 DEF Listed
    <3> QED BY <2>1, <2>3, <2>5, <3>1, <3>2 DEF CalledOnce, beingFailed
  <2> QED BY <2>4, <2>5
<1>4. ASSUME UNCHANGED <<issued, where, kind, calls, dropped, phase, link>>,
             NEW r \in 1..issued'
      PROVE  CalledOnce(r)'
  <2>1. Listed' = Listed
    BY <1>4, SameLists DEF Listed
  <2> QED BY <1>1, <1>4, <2>1 DEF CalledOnce, beingFailed
<1>5. ASSUME UNCHANGED <<issued, where, kind, calls, dropped>>,
             phase \in {"idle", "age", "look"}, NEW r \in 1..issued'
      PROVE  CalledOnce(r)'
  <2>1. Listed' = Listed
    BY <1>5, SameLists DEF Listed
  <2>2. ~beingFailed(r)
    BY <1>5 DEF beingFailed
  <2> QED BY <1>1, <1>5, <2>1, <2>2 DEF CalledOnce
<1>6. ASSUME age1s, NEW r \in 1..issued' PROVE CalledOnce(r)'
  <2>1. /\ phase = "age" /\ link \in In(list) /\ link \in Listed /\ link \in Id
        /\ UNCHANGED <<issued, where, kind, dropped>>
    BY <1>1, <1>6, InIs DEF age1s, CursorInv, Listed, TypeOK
  <2>2. CASE UNCHANGED calls
    BY <1>5, <1>6, <2>1, <2>2
  <2>3. CASE ~UNCHANGED calls
    <3>1. /\ phase' = "callback" /\ link' = link
          /\ calls' = [calls EXCEPT ![link] = @ + 1]
      BY <1>6, <2>3 DEF age1s, callbackOnFailure
    <3>2. Listed' = Listed
      BY <2>1, SameLists DEF Listed
    <3>3. r \in Id /\ CalledOnce(r) /\ ~beingFailed(r)
      BY <1>1, <2>1 DEF beingFailed
    <3>4. CASE r = link
      <4>1. calls[r] = 0 /\ calls'[r] = 1
        BY <1>1, <2>1, <3>1, <3>3, <3>4 DEF CalledOnce, TypeOK
      <4> QED BY <3>1, <3>4, <4>1 DEF CalledOnce, beingFailed
    <3>5. CASE r # link
      <4>1. calls'[r] = calls[r]
        BY <1>1, <3>1, <3>3, <3>5 DEF TypeOK
      <4> QED BY <2>1, <3>2, <3>3, <4>1 DEF CalledOnce
    <3> QED BY <3>4, <3>5
  <2> QED BY <2>2, <2>3
<1>7. ASSUME callbackReturns, NEW r \in 1..issued' PROVE CalledOnce(r)'
  <2>1. /\ phase = "callback" /\ free({link})
        /\ link \in In(list) /\ link \in Listed /\ link \in Id
        /\ hasFailureCallback(kind[link]) => calls[link] = 1
        /\ UNCHANGED <<issued, kind, calls, dropped>>
    BY <1>1, <1>7, InIs DEF callbackReturns, CursorInv, Listed, TypeOK
  <2>2. /\ Listed' = Listed \ {link}
        /\ \A s \in Id \ {link} : where'[s] = where[s]
    BY <1>1, <2>1, FreeLists DEF Listed
  <2>3. r \in Id /\ CalledOnce(r)
    BY <1>1, <2>1
  <2>4. CASE r = link
    BY <2>1, <2>2, <2>3, <2>4 DEF CalledOnce
  <2>5. CASE r # link
    <3>1. ~beingFailed(r)
      BY <2>5 DEF beingFailed
    <3> QED BY <2>1, <2>2, <2>3, <2>5, <3>1 DEF CalledOnce
  <2> QED BY <2>4, <2>5
<1>8. ASSUME NEW fits \in BOOLEAN, lookForPostponedReqToSend(fits), NEW r \in 1..issued'
      PROVE  CalledOnce(r)'
  <2>1. /\ phase = "look" /\ link \in In("postponed") /\ link \in Id
        /\ UNCHANGED <<issued, kind, calls, dropped>>
    BY <1>1, <1>8, InIs DEF lookForPostponedReqToSend, CursorInv
  <2>2. /\ Listed' = Listed
        /\ where'[r] = "freed" => where[r] = "freed"
    <3>1. CASE UNCHANGED where /\ \A l : In(l)' = In(l)
      BY <3>1 DEF Listed
    <3>2. CASE /\ In("postponed")' = In("postponed") \ {link}
               /\ In("pending")' = In("pending") \cup {link}
               /\ where' = [where EXCEPT ![link] = "pending"]
      BY <1>1, <2>1, <3>2 DEF Listed, TypeOK
    <3> QED BY <1>1, <1>8, <2>1, <3>1, <3>2, LookLists
  <2>3. CalledOnce(r) /\ ~beingFailed(r)
    BY <1>1, <2>1 DEF beingFailed
  <2> QED BY <2>1, <2>2, <2>3 DEF CalledOnce
<1>9. ASSUME phase = "idle", NEW x \in Listed, free({x}),
             UNCHANGED <<issued, kind, dropped>>,
             \/ calls' = [calls EXCEPT ![x] = @ + 1]
             \/ UNCHANGED calls /\ ~hasFailureCallback(kind[x]),
             NEW r \in 1..issued'
      PROVE  CalledOnce(r)'
  <2>1. x \in Id /\ x \in 1..issued
    BY <1>1, InIs DEF Listed, In
  <2>2. /\ Listed' = Listed \ {x}
        /\ \A s \in Id \ {x} : where'[s] = where[s]
    BY <1>1, <1>9, FreeLists DEF Listed
  <2>3. r \in Id /\ CalledOnce(r) /\ ~beingFailed(r)
    BY <1>1, <1>9 DEF beingFailed
  <2>4. CASE r = x
    <3>1. calls[r] = 0
      BY <1>9, <2>3, <2>4 DEF CalledOnce
    <3>2. calls'[r] = 1 \/ (calls'[r] = 0 /\ ~hasFailureCallback(kind[x]))
      BY <1>1, <1>9, <2>1, <2>4, <3>1 DEF TypeOK
    <3> QED BY <1>9, <2>2, <2>4, <3>2 DEF CalledOnce
  <2>5. CASE r # x
    <3>1. calls'[r] = calls[r]
      BY <1>1, <1>9, <2>3, <2>5 DEF TypeOK
    <3> QED BY <1>9, <2>2, <2>3, <2>5, <3>1 DEF CalledOnce
  <2> QED BY <2>4, <2>5
<1>10. ASSUME NEW q \in Id, NEW success \in BOOLEAN, answer(q, success),
              NEW r \in 1..issued'
       PROVE  CalledOnce(r)'
  <2> DEFINE S == matching(kind[q], answerEp(kind[q], success))
  <2>1. phase = "idle" /\ UNCHANGED <<issued, kind, dropped, phase, link>>
    BY <1>10 DEF answer, cursor
  <2>2. CASE S = {}
    BY <1>4, <1>10, <2>1, <2>2 DEF answer
  <2>3. CASE S # {}
    <3>1. free({lastOf(S)}) /\ calls' = [calls EXCEPT ![lastOf(S)] = @ + 1]
      BY <1>10, <2>3 DEF answer, removePending, completes
    <3>2. S \subseteq Id /\ S \subseteq Listed
      BY <1>1, InIs DEF matching, Listed
    <3>3. lastOf(S) \in Listed
      BY <1>1, <2>3, <3>2, LastIs
    <3> HIDE DEF S
    <3> QED BY <1>9, <2>1, <3>1, <3>3
  <2> QED BY <2>2, <2>3
<1>11. ASSUME NEW q \in Id, afDataConfirmFails(q), NEW r \in 1..issued' PROVE CalledOnce(r)'
  <2> DEFINE S == {s \in In("pending") : transactionId[s] = transactionId[q]}
  <2>1. phase = "idle" /\ UNCHANGED <<issued, kind, dropped, phase, link>>
    BY <1>11 DEF afDataConfirmFails, cursor
  <2>2. CASE S = {}
    BY <1>4, <1>11, <2>1, <2>2 DEF afDataConfirmFails
  <2>3. CASE S # {}
    <3>1. free({lastOf(S)}) /\ callbackOnFailure(lastOf(S))
      BY <1>11, <2>3 DEF afDataConfirmFails, removePending
    <3>2. S \subseteq Id /\ S \subseteq Listed
      BY <1>1, InIs DEF Listed
    <3>3. lastOf(S) \in Listed
      BY <1>1, <2>3, <3>2, LastIs
    <3> HIDE DEF S
    <3> QED BY <1>9, <2>1, <3>1, <3>3 DEF callbackOnFailure
  <2> QED BY <2>2, <2>3
<1>12. ASSUME restart, NEW r \in 1..issued' PROVE CalledOnce(r)'
  <2>1. /\ phase = "idle" /\ free(Listed) /\ dropped' = dropped \cup Listed
        /\ UNCHANGED <<issued, kind, calls>>
    BY <1>12 DEF restart, Listed
  <2>2. /\ Listed' = {}
        /\ \A s \in Id \ Listed : where'[s] = where[s]
    <3>1. /\ In("postponed")' = In("postponed") \ Listed
          /\ In("pending")' = In("pending") \ Listed
          /\ \A s \in Id \ Listed : where'[s] = where[s]
      BY <1>1, <2>1, FreeLists
    <3> QED BY <3>1 DEF Listed
  <2>3. r \in Id /\ CalledOnce(r)
    BY <1>1, <2>1
  <2> QED BY <2>1, <2>2, <2>3 DEF CalledOnce
<1>13. ASSUME tic \/ endOfList \/ ticEnds, NEW r \in 1..issued' PROVE CalledOnce(r)'
  BY <1>5, <1>13 DEF tic, endOfList, ticEnds, contexts
<1>14. ASSUME UNCHANGED vars, NEW r \in 1..issued' PROVE CalledOnce(r)'
  BY <1>4, <1>14 DEF vars, contexts, cursor
<1> QED BY <1>3, <1>6, <1>7, <1>8, <1>10, <1>11, <1>12, <1>13, <1>14
        DEF Next, Clock, processZDOMsgCbIncoming, processAfIncomingMsg

-----------------------------------------------------------------------------
(* The theorems *)

\* The inductive invariant holds of every reachable state.
LEMMA Invariance == Spec => []IInv
<1>1. IInv /\ [Next]_vars => IInv'
  BY TypeStep, LimitsStep, CursorStep, CallsStep DEF IInv
<1> QED BY <1>1, InitInv, PTL DEF Spec

\* The variables have their types: no time to live becomes negative, and the
\* cursors of tic stay on requests that exist.
THEOREM TypeCorrect == Spec => []TypeOK
<1>1. IInv => TypeOK
  BY DEF IInv
<1> QED BY <1>1, Invariance, PTL

\* The chip never has more requests than it can take, in all, per node and
\* per end point, whatever the limits are.
THEOREM LimitsRespected == Spec => []WithinLimits
<1>1. IInv => WithinLimits
  BY DEF IInv
<1> QED BY <1>1, Invariance, PTL

\* Each accepted request is called back exactly once, by its answer, by a
\* failure or by its time out, unless the port restarts under it.
THEOREM CalledBackOnce == Spec => []NoCallbackLostOrDoubled
<1>1. IInv => NoCallbackLostOrDoubled
  BY DEF IInv
<1> QED BY <1>1, Invariance, PTL

\* removePending, which takes the last context that matches, takes that of
\* the request which was answered, if the answer says which one that is.
THEOREM AnswersMatched == Spec => AnswersTheRightRequest
<1>1. ASSUME IInv, NEW r \in Id, where[r] = "pending", r \in 1..issued,
             NEW success \in BOOLEAN, identifies(r, success), answer(r, success)
      PROVE  where' = [where EXCEPT ![r] = "freed"]
  <2> DEFINE S == matching(kind[r], answerEp(kind[r], success))
  <2>1. TypeOK /\ DoublonInv /\ r \in In("pending")
    BY <1>1 DEF IInv, In
  <2>2. ASSUME NEW s \in S PROVE s = r
    <3>1. /\ s \in In("pending")
          /\ kind[s].type = kind[r].type /\ kind[s].node = kind[r].node
          /\ kind[s].what = kind[r].what
          /\ answerEp(kind[r], success) = 0 \/ answerEp(kind[r], success) = kind[s].ep
      BY <1>1 DEF matching
    <3>2. s \in Id /\ kind[s] \in Kinds /\ kind[r] \in Kinds
      BY <2>1, <3>1, InIs DEF TypeOK
    <3>3. CASE matching(kind[r], 0) = {r}
      BY <3>1, <3>3 DEF matching
    <3>4. CASE \/ answerEp(kind[r], success) # 0
               \/ ~kind[r].zcl /\ kind[r].type \notin EpRequests
      <4>1. kind[s].ep = kind[r].ep
        BY <3>1, <3>2, <3>4, KindsAssumption DEF answerEp
      <4> QED BY <2>1, <3>1, <4>1 DEF DoublonInv, sameRequest
    <3> QED BY <1>1, <3>3, <3>4 DEF identifies
  <2>3. r \in S
    BY <1>1, <2>1 DEF matching, answerEp
  <2>4. S = {r}
    BY <2>2, <2>3
  <2> HIDE DEF S
  <2>5. lastOf(S) = r
    BY <2>1, <2>4 DEF lastOf, TypeOK
  <2>6. free({r})
    BY <1>1, <2>3, <2>4, <2>5 DEF answer, removePending, S
  <2> QED BY <1>1, <2>1, <2>6 DEF free, TypeOK
<1>2. ASSUME IInv, NEW r \in Id, where[r] = "pending" PROVE r \in 1..issued
  <2>1. /\ TypeOK /\ ~(r > issued)
    BY <1>2 DEF IInv, NewInv
  <2> QED BY <2>1, BoundsAre DEF TypeOK, Id
<1>3. IInv /\ [Next]_vars =>
        [\A r \in Id, success \in BOOLEAN :
           /\ answers' # answers
           /\ where[r] = "pending"
           /\ identifies(r, success)
           /\ answer(r, success)
           => where' = [where EXCEPT ![r] = "freed"]]_vars
  BY <1>1, <1>2
<1> QED BY <1>3, Invariance, PTL DEF Spec, AnswersTheRightRequest

=============================================================================
