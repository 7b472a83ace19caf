--------------------------- MODULE ThreadPoolProofs ---------------------------
(***************************************************************************)
(* Proofs about ThreadPool, for any number of threads, senders and calls   *)
(* of send(), any size of the queues and any minimum and maximum of        *)
(* threads.                                                                *)
(***************************************************************************)
EXTENDS ThreadPool, FiniteSetTheorems, FunctionTheorems, TLAPS

-----------------------------------------------------------------------------
(* The inductive invariant *)

\* Threads are told to stop by destroy() only, and it closes the executor first.
ClosingInv ==
    /\ ~closed => end = {}
    /\ destroyer # "none" => closed

\* An interrupted thread leaves threadWaiting too high, never too low: a thread
\* that leaves the wait finds itself counted.
WaitingInv == Cardinality(InGetWait) <= threadWaiting

QueueInv == \A p \in Priorities : Len(queues[p]) <= QueueSize

\* A call of send() works on an exchange that was handed over, or on none.
SenderInv ==
    \A s \in Senders :
        IF sender[s].step = "idle" THEN sender[s].exchange = None
                                   ELSE sender[s].exchange \in 1 .. sent

TaskInv == \A t \in Threads : pc[t] = "running" => task[t] \in Exchanges

OutcomeInv == \A x \in Exchanges : x > sent => outcome[x] = "none"

ShapeInv == ClosingInv /\ QueueInv /\ SenderInv /\ TaskInv /\ OutcomeInv

CountInv ==
    /\ WaitingInv /\ RunnablesConserved /\ ThreadsCounted /\ WaitingCounted
    /\ NoSleepBesideWork

IInv == TypeOK /\ ShapeInv /\ CountInv /\ ProcessedOnce

-----------------------------------------------------------------------------
(* Counting threads and senders *)

\* The indicator function of the set V.
Ind(v, V) == IF v \in V THEN 1 ELSE 0

\* How many threads are in one of the states V, when f says where each one is.
NbIn(f, V) == Cardinality({t \in Threads : f[t] \in V})

NotDead  == ThreadStates \ {"dead"}
InWait   == {"waiting", "notified", "woken"}
WithTask == {"running", "put"}
Busy     == {"enqueue", "putBack"}

LEMMA BoundsAreNumbers ==
    /\ QueueSize \in Nat /\ MinThreads \in Nat /\ MaxThreads \in Nat
    /\ MaxSends \in Nat /\ MinThreads <= MaxThreads /\ QueueSize >= 2
    /\ PoolSize \in Nat
<1>1. /\ QueueSize \in Nat /\ MinThreads \in Nat /\ MaxThreads \in Nat
      /\ MaxSends \in Nat /\ MinThreads <= MaxThreads /\ QueueSize >= 2
  BY QueueSizeAssumption, ThreadsAssumption, MaxSendsAssumption
<1> QED BY <1>1 DEF PoolSize

\* A subset of a finite set that gains or loses one element.
LEMMA CardinalityChange ==
    ASSUME NEW S, IsFiniteSet(S), NEW A, NEW B, A \subseteq S, B \subseteq S,
           NEW x \in S, \A y \in S : y # x => (y \in A <=> y \in B)
    PROVE  /\ Cardinality(A) \in Nat /\ Cardinality(B) \in Nat
           /\ Cardinality(B) = Cardinality(A) + Ind(x, B) - Ind(x, A)
<1>1. IsFiniteSet(A) /\ IsFiniteSet(B)
  BY FS_Subset
<1>2. Cardinality(A) \in Nat /\ Cardinality(B) \in Nat
  BY <1>1, FS_CardinalityType
<1>3. CASE x \in A /\ x \in B
  <2>1. A = B
    BY <1>3
  <2> QED BY <1>2, <1>3, <2>1 DEF Ind
<1>4. CASE x \in A /\ x \notin B
  <2>1. B = A \ {x}
    BY <1>4
  <2>2. Cardinality(B) = Cardinality(A) - 1
    BY <1>1, <1>4, <2>1, FS_RemoveElement
  <2> QED BY <1>2, <1>4, <2>2 DEF Ind
<1>5. CASE x \notin A /\ x \in B
  <2>1. B = A \cup {x}
    BY <1>5
  <2>2. Cardinality(B) = Cardinality(A) + 1
    BY <1>1, <1>5, <2>1, FS_AddElement
  <2> QED BY <1>2, <1>5, <2>2 DEF Ind
<1>6. CASE x \notin A /\ x \notin B
  <2>1. A = B
    BY <1>6
  <2> QED BY <1>2, <1>6, <2>1 DEF Ind
<1> QED BY <1>3, <1>4, <1>5, <1>6

LEMMA NbInNat ==
    ASSUME NEW f, NEW V
    PROVE  NbIn(f, V) \in Nat
<1>1. IsFiniteSet({t \in Threads : f[t] \in V})
  BY ThreadsAssumption, FS_Subset
<1> QED BY <1>1, FS_CardinalityType DEF NbIn

\* One thread goes from a state to another.
LEMMA NbInChange ==
    ASSUME NEW f, NEW g, NEW t \in Threads, NEW V,
           \A u \in Threads : u # t => g[u] = f[u]
    PROVE  NbIn(g, V) = NbIn(f, V) + Ind(g[t], V) - Ind(f[t], V)
<1> DEFINE A == {u \in Threads : f[u] \in V}
           B == {u \in Threads : g[u] \in V}
<1>1. IsFiniteSet(Threads)
  BY ThreadsAssumption
<1>2. /\ t \in A <=> f[t] \in V
      /\ t \in B <=> g[t] \in V
      /\ \A u \in Threads : u # t => (u \in A <=> u \in B)
  OBVIOUS
<1>3. A \subseteq Threads /\ B \subseteq Threads
  OBVIOUS
<1>4. NbIn(f, V) = Cardinality(A) /\ NbIn(g, V) = Cardinality(B)
  BY DEF NbIn
<1> HIDE DEF A, B
<1>5. /\ Cardinality(A) \in Nat /\ Cardinality(B) \in Nat
      /\ Cardinality(B) = Cardinality(A) + Ind(t, B) - Ind(t, A)
  BY <1>1, <1>2, <1>3, CardinalityChange
<1> QED BY <1>2, <1>4, <1>5 DEF Ind

\* The sets of the model, as counts of the function pc.
LEMMA CountsArePc ==
    ASSUME TypeOK
    PROVE  /\ Cardinality(Alive) = NbIn(pc, NotDead)
           /\ Cardinality(WaitSet) = NbIn(pc, {"waiting"})
           /\ Cardinality(Notified) = NbIn(pc, {"notified"})
           /\ Cardinality(InGetWait) = NbIn(pc, InWait)
           /\ Cardinality(HasTask) = NbIn(pc, WithTask)
<1>1. Alive = {t \in Threads : pc[t] \in NotDead}
  BY DEF TypeOK, Alive, NotDead
<1>2. WaitSet = {t \in Threads : pc[t] \in {"waiting"}}
  BY DEF WaitSet
<1>3. Notified = {t \in Threads : pc[t] \in {"notified"}}
  BY DEF Notified
<1> QED BY <1>1, <1>2, <1>3 DEF NbIn, InGetWait, HasTask, InWait, WithTask

LEMMA CountsArePcNext ==
    ASSUME pc' \in [Threads -> ThreadStates]
    PROVE  /\ Cardinality(Alive)' = NbIn(pc', NotDead)
           /\ Cardinality(WaitSet)' = NbIn(pc', {"waiting"})
           /\ Cardinality(Notified)' = NbIn(pc', {"notified"})
           /\ Cardinality(InGetWait)' = NbIn(pc', InWait)
           /\ Cardinality(HasTask)' = NbIn(pc', WithTask)
<1>1. Alive' = {t \in Threads : pc'[t] \in NotDead}
  BY DEF Alive, NotDead
<1>2. WaitSet' = {t \in Threads : pc'[t] \in {"waiting"}}
  BY DEF WaitSet
<1>3. Notified' = {t \in Threads : pc'[t] \in {"notified"}}
  BY DEF Notified
<1> QED BY <1>1, <1>2, <1>3 DEF NbIn, InGetWait, HasTask, InWait, WithTask

\* No thread waits: there is nobody to notify.
LEMMA NobodyWaits ==
    ASSUME NEW f \in [Threads -> ThreadStates]
    PROVE  /\ NbIn(f, {"waiting"}) \in Nat
           /\ NbIn(f, {"waiting"}) = 0 <=> {t \in Threads : f[t] = "waiting"} = {}
<1> DEFINE W == {t \in Threads : f[t] = "waiting"}
<1>1. IsFiniteSet(W)
  BY ThreadsAssumption, FS_Subset
<1>2. {t \in Threads : f[t] \in {"waiting"}} = W
  OBVIOUS
<1>3. Cardinality(W) \in Nat /\ (Cardinality(W) = 0 <=> W = {})
  BY <1>1, FS_EmptySet, FS_CardinalityType
<1> QED BY <1>2, <1>3 DEF NbIn

\* How many calls of send() hold a task.
LEMMA SendingChange ==
    ASSUME TypeOK, NEW s \in Senders, NEW v, sender' = [sender EXCEPT ![s] = v],
           v.step \in Busy \cup {"idle"}
    PROVE  /\ Cardinality(Sending) \in Nat /\ Cardinality(Sending)' \in Nat
           /\ Cardinality(Sending)' = Cardinality(Sending)
                + Ind(v.step, Busy) - Ind(sender[s].step, Busy)
<1> DEFINE A == Sending
           B == Sending'
<1>1. /\ s \in A <=> sender[s].step \in Busy
      /\ s \in B <=> v.step \in Busy
      /\ \A u \in Senders : u # s => (u \in A <=> u \in B)
      /\ A \subseteq Senders /\ B \subseteq Senders
  BY DEF TypeOK, Sending, Busy
<1>2. Cardinality(Sending)' = Cardinality(B)
  OBVIOUS
<1> HIDE DEF A, B
<1>3. /\ Cardinality(A) \in Nat /\ Cardinality(B) \in Nat
      /\ Cardinality(B) = Cardinality(A) + Ind(s, B) - Ind(s, A)
  BY <1>1, SendersAssumption, CardinalityChange
<1>4. /\ Cardinality(B) = Cardinality(A)
                + Ind(v.step, Busy) - Ind(sender[s].step, Busy)
  BY <1>1, <1>3 DEF Ind
<1> QED BY <1>2, <1>3, <1>4 DEF A

\* FirstQueue is a queue with an exchange in it, if there is one.
LEMMA FirstQueueIs ==
    ASSUME TypeOK, ~NoneQueued
    PROVE  /\ FirstQueue \in Priorities
           /\ queues[FirstQueue] # <<>>
           /\ queues[FirstQueue] \in Seq(Exchanges)
           /\ Len(queues[FirstQueue]) >= 1
           /\ Head(queues[FirstQueue]) \in Exchanges
           /\ Tail(queues[FirstQueue]) \in Seq(Exchanges)
           /\ Len(Tail(queues[FirstQueue])) = Len(queues[FirstQueue]) - 1
<1> DEFINE P(p) == queues[p] # <<>> /\ \A r \in 0 .. p - 1 : queues[r] = <<>>
<1>1. \E p \in Priorities : P(p)
  <2>1. CASE queues[0] # <<>>
    BY <2>1 DEF Priorities
  <2>2. CASE queues[0] = <<>> /\ queues[1] # <<>>
    <3>1. 0 .. 1 - 1 = {0}
      OBVIOUS
    <3> QED BY <2>2, <3>1 DEF Priorities
  <2>3. CASE queues[0] = <<>> /\ queues[1] = <<>>
    <3>1. 0 .. 2 - 1 = {0, 1}
      OBVIOUS
    <3>2. queues[2] # <<>>
      BY <2>3 DEF NoneQueued, Priorities
    <3> QED BY <2>3, <3>1, <3>2 DEF Priorities
  <2> QED BY <2>1, <2>2, <2>3
<1>2. FirstQueue \in Priorities /\ queues[FirstQueue] # <<>>
  BY <1>1 DEF FirstQueue
<1>3. queues[FirstQueue] \in Seq(Exchanges)
  BY <1>2 DEF TypeOK
<1> QED BY <1>2, <1>3

\* What the queues hold.
LEMMA QueuedChange ==
    ASSUME TypeOK, NEW p \in Priorities, NEW q \in Seq(Exchanges),
           queues' = [queues EXCEPT ![p] = q]
    PROVE  /\ Queued \in Nat /\ Queued' \in Nat
           /\ Queued' = Queued + Len(q) - Len(queues[p])
<1>1. queues \in [Priorities -> Seq(Exchanges)] /\ Priorities = {0, 1, 2}
  BY DEF TypeOK, Priorities
<1>2. /\ Len(queues[0]) \in Nat /\ Len(queues[1]) \in Nat /\ Len(queues[2]) \in Nat
      /\ Len(q) \in Nat
  BY <1>1
<1>3. /\ queues'[p] = q
      /\ \A r \in Priorities : r # p => queues'[r] = queues[r]
  BY <1>1
<1>4. /\ Queued = Len(queues[0]) + Len(queues[1]) + Len(queues[2])
      /\ Queued' = Len(queues'[0]) + Len(queues'[1]) + Len(queues'[2])
  BY DEF Queued, CRITICAL, IMPORTANT, NORMAL
<1>5. CASE p = 0
  BY <1>1, <1>2, <1>3, <1>4, <1>5
<1>6. CASE p = 1
  BY <1>1, <1>2, <1>3, <1>4, <1>6
<1>7. CASE p = 2
  BY <1>1, <1>2, <1>3, <1>4, <1>7
<1> QED BY <1>1, <1>5, <1>6, <1>7

LEMMA QueuedIs ==
    ASSUME TypeOK
    PROVE  Queued \in Nat /\ (NoneQueued => Queued = 0)
<1>1. queues \in [Priorities -> Seq(Exchanges)] /\ Priorities = {0, 1, 2}
  BY DEF TypeOK, Priorities
<1>2. /\ Len(queues[0]) \in Nat /\ Len(queues[1]) \in Nat /\ Len(queues[2]) \in Nat
  BY <1>1
<1>3. Queued = Len(queues[0]) + Len(queues[1]) + Len(queues[2])
  BY DEF Queued, CRITICAL, IMPORTANT, NORMAL
<1>4. ASSUME NoneQueued PROVE Queued = 0
  <2>1. Len(queues[0]) = 0 /\ Len(queues[1]) = 0 /\ Len(queues[2]) = 0
    BY <1>1, <1>4 DEF NoneQueued
  <2> QED BY <1>3, <2>1
<1>5. Queued \in Nat
  BY <1>1, <1>2 DEF Queued, CRITICAL, IMPORTANT, NORMAL
<1> QED BY <1>4, <1>5

-----------------------------------------------------------------------------
(* Where an exchange is held *)

InSenders(f, x) == {s \in Senders : f[s].exchange = x}

Places(q, x) ==
    {pi \in Priorities \X (1 .. QueueSize) :
        pi[2] <= Len(q[pi[1]]) /\ q[pi[1]][pi[2]] = x}

InThreads(f, g, x) == {t \in Threads : f[t] = "running" /\ g[t] = x}

LEMMA HoldersAre ==
    ASSUME NEW x
    PROVE  /\ Holders(x) = Cardinality(InSenders(sender, x))
                + Cardinality(Places(queues, x)) + Cardinality(InThreads(pc, task, x))
           /\ Holders(x)' = Cardinality(InSenders(sender', x))
                + Cardinality(Places(queues', x)) + Cardinality(InThreads(pc', task', x))
BY DEF Holders, InSenders, Places, InThreads

LEMMA HeldFinite ==
    ASSUME NEW x, NEW f, NEW q, NEW g, NEW h
    PROVE  /\ IsFiniteSet(InSenders(f, x)) /\ Cardinality(InSenders(f, x)) \in Nat
           /\ IsFiniteSet(Places(q, x)) /\ Cardinality(Places(q, x)) \in Nat
           /\ IsFiniteSet(InThreads(g, h, x)) /\ Cardinality(InThreads(g, h, x)) \in Nat
<1>1. IsFiniteSet(Priorities \X (1 .. QueueSize))
  <2>1. 0 \in Int /\ 1 \in Int /\ 2 \in Int /\ QueueSize \in Int
    BY BoundsAreNumbers
  <2>2. IsFiniteSet(0 .. 2)
    BY <2>1, FS_Interval
  <2>3. IsFiniteSet(1 .. QueueSize)
    BY <2>1, FS_Interval
  <2> QED BY <2>2, <2>3, FS_Product DEF Priorities
<1>2. Places(q, x) \subseteq Priorities \X (1 .. QueueSize)
  BY DEF Places
<1>3. InSenders(f, x) \subseteq Senders /\ InThreads(g, h, x) \subseteq Threads
  BY DEF InSenders, InThreads
<1>4. /\ IsFiniteSet(InSenders(f, x))
      /\ IsFiniteSet(Places(q, x))
      /\ IsFiniteSet(InThreads(g, h, x))
  BY <1>1, <1>2, <1>3, SendersAssumption, ThreadsAssumption, FS_Subset
<1> QED BY <1>4, FS_CardinalityType

\* A call of send() takes up or lets go of an exchange.
LEMMA InSendersChange ==
    ASSUME TypeOK, NEW s \in Senders, NEW v, sender' = [sender EXCEPT ![s] = v], NEW x
    PROVE  Cardinality(InSenders(sender', x)) = Cardinality(InSenders(sender, x))
             + Ind(v.exchange, {x}) - Ind(sender[s].exchange, {x})
<1> DEFINE A == InSenders(sender, x)
           B == InSenders(sender', x)
<1>1. /\ s \in A <=> sender[s].exchange = x
      /\ s \in B <=> v.exchange = x
      /\ \A u \in Senders : u # s => (u \in A <=> u \in B)
      /\ A \subseteq Senders /\ B \subseteq Senders
  BY DEF TypeOK, InSenders
<1> HIDE DEF A, B
<1>2. /\ Cardinality(A) \in Nat /\ Cardinality(B) \in Nat
      /\ Cardinality(B) = Cardinality(A) + Ind(s, B) - Ind(s, A)
  BY <1>1, SendersAssumption, CardinalityChange
<1>3. Cardinality(B) = Cardinality(A) + Ind(v.exchange, {x}) - Ind(sender[s].exchange, {x})
  BY <1>1, <1>2 DEF Ind
<1> QED BY <1>3 DEF A, B

\* A thread changes its state or its exchange.
LEMMA InThreadsChange ==
    ASSUME NEW t \in Threads, NEW v, NEW y, NEW x, pc'[t] = v, task'[t] = y,
           \A u \in Threads : u # t => pc'[u] = pc[u] /\ task'[u] = task[u]
    PROVE  Cardinality(InThreads(pc', task', x)) = Cardinality(InThreads(pc, task, x))
             + Ind(<<v, y>>, {<<"running", x>>}) - Ind(<<pc[t], task[t]>>, {<<"running", x>>})
<1> DEFINE A == InThreads(pc, task, x)
           B == InThreads(pc', task', x)
<1>2. /\ t \in A <=> pc[t] = "running" /\ task[t] = x
      /\ t \in B <=> v = "running" /\ y = x
      /\ \A u \in Threads : u # t => (u \in A <=> u \in B)
      /\ A \subseteq Threads /\ B \subseteq Threads
  BY DEF InThreads
<1> HIDE DEF A, B
<1>3. /\ Cardinality(A) \in Nat /\ Cardinality(B) \in Nat
      /\ Cardinality(B) = Cardinality(A) + Ind(t, B) - Ind(t, A)
  BY <1>2, ThreadsAssumption, CardinalityChange
<1>4. Cardinality(B) = Cardinality(A)
        + Ind(<<v, y>>, {<<"running", x>>}) - Ind(<<pc[t], task[t]>>, {<<"running", x>>})
  BY <1>2, <1>3 DEF Ind
<1> QED BY <1>4 DEF A, B

\* An exchange is appended to a queue.
LEMMA PlacesAppend ==
    ASSUME TypeOK, NEW p \in Priorities, NEW y \in Exchanges, NEW x,
           Len(queues[p]) < QueueSize,
           queues' = [queues EXCEPT ![p] = Append(@, y)]
    PROVE  Cardinality(Places(queues', x)) = Cardinality(Places(queues, x)) + Ind(y, {x})
<1> DEFINE n == Len(queues[p]) + 1
           A == Places(queues, x)
           B == Places(queues', x)
<1>1. /\ queues[p] \in Seq(Exchanges)
      /\ queues'[p] = Append(queues[p], y)
      /\ \A r \in Priorities : r # p => queues'[r] = queues[r]
      /\ queues \in [Priorities -> Seq(Exchanges)]
  BY DEF TypeOK
<1>2. /\ Len(queues'[p]) = n
      /\ queues'[p][n] = y
      /\ \A i \in 1 .. n - 1 : queues'[p][i] = queues[p][i]
      /\ n \in 1 .. QueueSize
  BY <1>1, BoundsAreNumbers
<1>3. <<p, n>> \notin A
  BY <1>1, <1>2, BoundsAreNumbers DEF Places
<1>4. <<p, n>> \in B <=> y = x
  BY <1>2 DEF Places
<1>5. ASSUME NEW r \in Priorities, NEW i \in 1 .. QueueSize, <<r, i>> # <<p, n>>
      PROVE  <<r, i>> \in A <=> <<r, i>> \in B
  <2>0. QueueSize \in Nat
    BY BoundsAreNumbers
  <2>1. CASE r # p
    BY <1>1, <2>1 DEF Places
  <2>2. CASE r = p
    <3>1. i # n
      BY <1>5, <2>2
    <3>2. CASE i > n
      BY <1>1, <1>2, <2>0, <2>2, <3>2 DEF Places
    <3>3. CASE i < n
      <4>1. i \in 1 .. n - 1
        BY <1>2, <2>0, <3>3
      <4>2. queues'[p][i] = queues[p][i]
        BY <1>2, <4>1
      <4>3. i <= Len(queues[p]) /\ i <= Len(queues'[p])
        BY <1>1, <1>2, <2>0, <4>1
      <4> QED BY <2>2, <4>2, <4>3 DEF Places
    <3> QED BY <1>1, <1>2, <2>0, <3>1, <3>2, <3>3
  <2> QED BY <2>1, <2>2
<1>6. A \subseteq Priorities \X (1 .. QueueSize) /\ B \subseteq Priorities \X (1 .. QueueSize)
  BY DEF Places
<1>7. <<p, n>> \in Priorities \X (1 .. QueueSize)
  BY <1>2
<1>8. IsFiniteSet(A) /\ Cardinality(A) \in Nat
  BY HeldFinite
<1> HIDE DEF A, B, n
<1>9. CASE y = x
  <2>1. B = A \cup {<<p, n>>}
    BY <1>4, <1>5, <1>6, <1>7, <1>9
  <2>2. Cardinality(B) = Cardinality(A) + 1
    BY <1>3, <1>8, <2>1, FS_AddElement
  <2> QED BY <1>9, <2>2 DEF A, B, Ind
<1>10. CASE y # x
  <2>1. B = A
    BY <1>3, <1>4, <1>5, <1>6, <1>10
  <2> QED BY <1>8, <1>10, <2>1 DEF A, B, Ind
<1> QED BY <1>9, <1>10

\* The first exchange of a queue is taken.
LEMMA PlacesTail ==
    ASSUME TypeOK, QueueInv, NEW p \in Priorities, queues[p] # <<>>, NEW x,
           queues' = [queues EXCEPT ![p] = Tail(@)]
    PROVE  Cardinality(Places(queues', x)) =
             Cardinality(Places(queues, x)) - Ind(Head(queues[p]), {x})
<1> DEFINE A == Places(queues, x)
           B == Places(queues', x)
           C == A \ {<<p, 1>>}
           F(pi) == IF pi[1] = p THEN <<p, pi[2] - 1>> ELSE pi
           G(pi) == IF pi[1] = p THEN <<p, pi[2] + 1>> ELSE pi
           f == [pi \in C |-> F(pi)]
<1>0. QueueSize \in Nat
  BY BoundsAreNumbers
<1>1. /\ queues[p] \in Seq(Exchanges)
      /\ queues'[p] = Tail(queues[p])
      /\ \A r \in Priorities : r # p => queues'[r] = queues[r]
      /\ queues \in [Priorities -> Seq(Exchanges)]
      /\ Len(queues[p]) <= QueueSize
  BY DEF TypeOK, QueueInv
<1>2. /\ Len(queues[p]) \in Nat /\ Len(queues[p]) >= 1
      /\ Len(queues'[p]) = Len(queues[p]) - 1
      /\ \A i \in 1 .. Len(queues'[p]) : queues'[p][i] = queues[p][i + 1]
      /\ queues[p][1] = Head(queues[p])
  BY <1>1
<1>3. <<p, 1>> \in A <=> Head(queues[p]) = x
  BY <1>0, <1>1, <1>2 DEF Places
<1>4. ASSUME NEW pi \in C PROVE F(pi) \in B
  <2>1. PICK r \in Priorities, i \in 1 .. QueueSize : pi = <<r, i>>
    BY DEF Places
  <2>2. i <= Len(queues[r]) /\ queues[r][i] = x
    BY <2>1 DEF Places
  <2>3. CASE r # p
    BY <1>1, <2>1, <2>2, <2>3 DEF Places
  <2>4. CASE r = p
    <3>1. i # 1
      BY <2>1, <2>4
    <3>2. i - 1 \in 1 .. QueueSize /\ i - 1 \in 1 .. Len(queues'[p])
      BY <1>0, <1>2, <2>2, <2>4, <3>1
    <3>3. queues'[p][i - 1] = queues[p][i]
      BY <1>2, <3>2
    <3> QED BY <2>1, <2>2, <2>4, <3>2, <3>3 DEF Places
  <2> QED BY <2>3, <2>4
<1>5. ASSUME NEW pi \in B PROVE G(pi) \in C /\ F(G(pi)) = pi
  <2>1. PICK r \in Priorities, i \in 1 .. QueueSize : pi = <<r, i>>
    BY DEF Places
  <2>2. i <= Len(queues'[r]) /\ queues'[r][i] = x
    BY <2>1 DEF Places
  <2>3. CASE r # p
    BY <1>1, <2>1, <2>2, <2>3 DEF Places
  <2>4. CASE r = p
    <3>1. i + 1 \in 1 .. QueueSize /\ i \in 1 .. Len(queues'[p]) /\ i + 1 <= Len(queues[p])
      BY <1>0, <1>1, <1>2, <2>2, <2>4
    <3>2. queues'[p][i] = queues[p][i + 1]
      BY <1>2, <3>1
    <3>3. <<p, i + 1>> \in A
      BY <2>2, <2>4, <3>1, <3>2 DEF Places
    <3>4. G(pi) = <<p, i + 1>> /\ F(<<p, i + 1>>) = <<p, i>>
      BY <2>1, <2>4
    <3>5. i + 1 # 1
      OBVIOUS
    <3> QED BY <2>1, <2>4, <3>3, <3>4, <3>5
  <2> QED BY <2>3, <2>4
<1>6. ASSUME NEW a \in C, NEW b \in C, F(a) = F(b) PROVE a = b
  <2>1. PICK r \in Priorities, i \in 1 .. QueueSize : a = <<r, i>>
    BY DEF Places
  <2>2. PICK s \in Priorities, j \in 1 .. QueueSize : b = <<s, j>>
    BY DEF Places
  <2> QED BY <1>0, <1>6, <2>1, <2>2
<1>7. IsFiniteSet(A) /\ Cardinality(A) \in Nat
  BY HeldFinite
<1>8. f \in Bijection(C, B)
  <2> HIDE DEF A, B, C, F, G
  <2>1. f \in [C -> B]
    BY <1>4
  <2>2. \A a, b \in C : f[a] = f[b] => a = b
    BY <1>6
  <2>3. \A b \in B : \E a \in C : f[a] = b
    BY <1>5
  <2> QED BY <2>1, <2>2, <2>3, Fun_IsBij
<1> HIDE DEF A, B, F, G, f
<1>9. IsFiniteSet(C) /\ Cardinality(C) = Cardinality(A) - Ind(<<p, 1>>, A)
  <2>1. /\ IsFiniteSet(C)
        /\ Cardinality(C) = IF <<p, 1>> \in A THEN Cardinality(A) - 1 ELSE Cardinality(A)
    BY <1>7, FS_RemoveElement
  <2> HIDE DEF C
  <2> QED BY <1>7, <2>1 DEF Ind
<1>10. Cardinality(B) = Cardinality(C)
  <2> HIDE DEF C
  <2>1. ExistsBijection(C, B)
    BY <1>8 DEF ExistsBijection
  <2> QED BY <1>9, <2>1, FS_Bijection
<1>11. Ind(<<p, 1>>, A) = Ind(Head(queues[p]), {x})
  BY <1>3 DEF Ind
<1> QED BY <1>9, <1>10, <1>11 DEF A, B

-----------------------------------------------------------------------------
(* A step of one thread *)

LEMMA NbInNext ==
    ASSUME NEW t \in Threads, NEW V, \A u \in Threads : u # t => pc'[u] = pc[u]
    PROVE  NbIn(pc', V) = NbIn(pc, V) + Ind(pc'[t], V) - Ind(pc[t], V)
<1> DEFINE A == {u \in Threads : pc[u] \in V}
           B == {u \in Threads : pc'[u] \in V}
<1>1. /\ t \in A <=> pc[t] \in V
      /\ t \in B <=> pc'[t] \in V
      /\ \A u \in Threads : u # t => (u \in A <=> u \in B)
      /\ A \subseteq Threads /\ B \subseteq Threads
  OBVIOUS
<1>2. NbIn(pc, V) = Cardinality(A) /\ NbIn(pc', V) = Cardinality(B)
  BY DEF NbIn
<1> HIDE DEF A, B
<1>3. /\ Cardinality(A) \in Nat /\ Cardinality(B) \in Nat
      /\ Cardinality(B) = Cardinality(A) + Ind(t, B) - Ind(t, A)
  BY <1>1, ThreadsAssumption, CardinalityChange
<1> QED BY <1>1, <1>2, <1>3 DEF Ind

\* The thread t goes to state v.
Move(t, v) == pc' = [pc EXCEPT ![t] = v]

\* The counts when a thread goes from state a to state b.
Moved(a, b) ==
    /\ Cardinality(Alive) \in Nat /\ Cardinality(WaitSet) \in Nat
    /\ Cardinality(Notified) \in Nat /\ Cardinality(InGetWait) \in Nat
    /\ Cardinality(HasTask) \in Nat
    /\ Cardinality(Alive)' = Cardinality(Alive) + Ind(b, NotDead) - Ind(a, NotDead)
    /\ Cardinality(WaitSet)' =
         Cardinality(WaitSet) + Ind(b, {"waiting"}) - Ind(a, {"waiting"})
    /\ Cardinality(Notified)' =
         Cardinality(Notified) + Ind(b, {"notified"}) - Ind(a, {"notified"})
    /\ Cardinality(InGetWait)' = Cardinality(InGetWait) + Ind(b, InWait) - Ind(a, InWait)
    /\ Cardinality(HasTask)' = Cardinality(HasTask) + Ind(b, WithTask) - Ind(a, WithTask)

LEMMA MoveCounts ==
    ASSUME TypeOK, NEW t \in Threads, NEW v \in ThreadStates, Move(t, v)
    PROVE  pc' \in [Threads -> ThreadStates] /\ Moved(pc[t], v)
<1>1. pc \in [Threads -> ThreadStates]
  BY DEF TypeOK
<1>2. pc' \in [Threads -> ThreadStates]
  BY <1>1 DEF Move
<1>3. ASSUME NEW V
      PROVE  NbIn(pc', V) = NbIn(pc, V) + Ind(v, V) - Ind(pc[t], V)
  <2>1. pc'[t] = v /\ \A u \in Threads : u # t => pc'[u] = pc[u]
    BY <1>1 DEF Move
  <2>2. NbIn(pc', V) = NbIn(pc, V) + Ind(pc'[t], V) - Ind(pc[t], V)
    BY <2>1, NbInNext
  <2> QED BY <2>1, <2>2
<1> QED BY <1>2, <1>3, CountsArePc, CountsArePcNext, NbInNat DEF Moved

\* Threads that wait, as a set and as a number.
LEMMA WaitSetIs ==
    ASSUME TypeOK
    PROVE  /\ Cardinality(WaitSet) \in Nat
           /\ WaitSet # {} <=> Cardinality(WaitSet) # 0
<1>1. IsFiniteSet(WaitSet)
  BY ThreadsAssumption, FS_Subset DEF WaitSet
<1> QED BY <1>1, FS_EmptySet, FS_CardinalityType

LEMMA WaitSetIsNext ==
    /\ Cardinality(WaitSet)' \in Nat
    /\ (WaitSet # {})' <=> Cardinality(WaitSet)' # 0
<1>1. IsFiniteSet(WaitSet')
  BY ThreadsAssumption, FS_Subset DEF WaitSet
<1> QED BY <1>1, FS_EmptySet, FS_CardinalityType

\* A step of a thread that neither takes an exchange nor processes one.
LEMMA QuietStep ==
    ASSUME IInv, NEW t \in Threads, NEW v \in ThreadStates,
           Move(t, v), v # "running", pc[t] # "running",
           task' = [task EXCEPT ![t] = None] \/ task' = task,
           UNCHANGED <<queues, sender, sent, outcome, runs>>
    PROVE  QueueInv' /\ SenderInv' /\ TaskInv' /\ OutcomeInv' /\ ProcessedOnce'
<1>1. QueueInv' /\ SenderInv' /\ OutcomeInv'
  BY DEF IInv, ShapeInv, QueueInv, SenderInv, OutcomeInv
<1>2. TaskInv'
  BY DEF IInv, TypeOK, ShapeInv, TaskInv, Move
<1>3. ASSUME NEW x \in Exchanges PROVE Holders(x)' = Holders(x)
  <2>1. InThreads(pc', task', x) = InThreads(pc, task, x)
    BY DEF IInv, TypeOK, InThreads, Move
  <2>2. InSenders(sender', x) = InSenders(sender, x) /\ Places(queues', x) = Places(queues, x)
    BY DEF InSenders, Places
  <2> QED BY <2>1, <2>2, HoldersAre
<1>4. ProcessedOnce'
  BY <1>3 DEF IInv, ProcessedOnce
<1> QED BY <1>1, <1>2, <1>4

\* A thread takes the first exchange of the queue it serves first; the number
\* of waiting threads is the only other thing that may change.
LEMMA TakeTaskStep ==
    ASSUME IInv, NEW t \in Threads, ~NoneQueued, TakeTask(t), pc[t] # "running",
           UNCHANGED <<sender, sent, outcome, runs>>
    PROVE  /\ QueueInv' /\ SenderInv' /\ TaskInv' /\ OutcomeInv' /\ ProcessedOnce'
           /\ queues' \in [Priorities -> Seq(Exchanges)]
           /\ task' \in [Threads -> Exchanges \cup {None}]
           /\ Queued \in Nat /\ Queued' = Queued - 1 /\ Queued >= 1
<1> DEFINE p == FirstQueue
           y == Head(queues[p])
<1>0. TypeOK /\ QueueInv
  BY DEF IInv, ShapeInv
<1>1. /\ p \in Priorities
      /\ queues[p] # <<>>
      /\ Len(queues[p]) >= 1
      /\ y \in Exchanges
      /\ Tail(queues[p]) \in Seq(Exchanges)
      /\ Len(Tail(queues[p])) = Len(queues[p]) - 1
      /\ queues[p] \in Seq(Exchanges)
  BY <1>0, FirstQueueIs
<1>2. /\ queues' = [queues EXCEPT ![p] = Tail(queues[p])]
      /\ task' = [task EXCEPT ![t] = y]
      /\ pc' = [pc EXCEPT ![t] = "running"]
  BY DEF TakeTask
<1> HIDE DEF p, y
<1>3. /\ queues' \in [Priorities -> Seq(Exchanges)]
      /\ task' \in [Threads -> Exchanges \cup {None}]
  BY <1>0, <1>1, <1>2 DEF TypeOK
<1>4. QueueInv'
  BY <1>0, <1>1, <1>2, BoundsAreNumbers DEF TypeOK, QueueInv
<1>5. SenderInv' /\ OutcomeInv'
  BY DEF IInv, ShapeInv, SenderInv, OutcomeInv
<1>6. TaskInv'
  <2>1. \A u \in Threads : u # t => pc'[u] = pc[u] /\ task'[u] = task[u]
    BY <1>0, <1>2 DEF TypeOK
  <2>2. task'[t] = y
    BY <1>0, <1>2 DEF TypeOK
  <2> QED BY <1>1, <2>1, <2>2 DEF IInv, ShapeInv, TaskInv
<1>7. ASSUME NEW x \in Exchanges PROVE Holders(x)' = Holders(x)
  <2>1. Cardinality(InThreads(pc', task', x)) =
          Cardinality(InThreads(pc, task, x))
            + Ind(<<"running", y>>, {<<"running", x>>})
            - Ind(<<pc[t], task[t]>>, {<<"running", x>>})
    <3>1. /\ pc'[t] = "running" /\ task'[t] = y
          /\ \A u \in Threads : u # t => pc'[u] = pc[u] /\ task'[u] = task[u]
      BY <1>0, <1>2 DEF TypeOK
    <3> QED BY <3>1, InThreadsChange
  <2>2. Cardinality(Places(queues', x)) = Cardinality(Places(queues, x)) - Ind(y, {x})
    BY <1>0, <1>1, <1>2, PlacesTail DEF y
  <2>3. InSenders(sender', x) = InSenders(sender, x)
    BY DEF InSenders
  <2>4. /\ Cardinality(InThreads(pc, task, x)) \in Nat
        /\ Cardinality(Places(queues, x)) \in Nat
        /\ Cardinality(InSenders(sender, x)) \in Nat
    BY HeldFinite
  <2>5. CASE y = x
    BY <2>1, <2>2, <2>3, <2>4, <2>5, HoldersAre DEF Ind
  <2>6. CASE y # x
    BY <2>1, <2>2, <2>3, <2>4, <2>6, HoldersAre DEF Ind
  <2> QED BY <2>5, <2>6
<1>8. ProcessedOnce'
  BY <1>7 DEF IInv, ProcessedOnce
<1>9. /\ Queued \in Nat /\ Queued' \in Nat
      /\ Queued' = Queued + Len(Tail(queues[p])) - Len(queues[p])
  BY <1>0, <1>1, <1>2, QueuedChange
<1>10. Queued \in Nat /\ Queued' = Queued - 1 /\ Queued >= 1
  BY <1>1, <1>9
<1> QED BY <1>3, <1>4, <1>5, <1>6, <1>8, <1>10

-----------------------------------------------------------------------------
(* enqueueRunnable *)

\* At most one thread is started, and only below the maximum.
LEMMA StartThreadIs ==
    ASSUME TypeOK, NEW q \in StartThread
    PROVE  /\ q \in [Threads -> ThreadStates]
           /\ NbIn(q, NotDead) = NbIn(pc, NotDead) + (IF q = pc THEN 0 ELSE 1)
           /\ NbIn(q, {"waiting"}) = NbIn(pc, {"waiting"})
           /\ NbIn(q, {"notified"}) = NbIn(pc, {"notified"})
           /\ NbIn(q, InWait) = NbIn(pc, InWait)
           /\ NbIn(q, WithTask) = NbIn(pc, WithTask)
           /\ \A u \in Threads : q[u] = "running" <=> pc[u] = "running"
           /\ q # pc => threadCount < MaxThreads
<1>1. pc \in [Threads -> ThreadStates]
  BY DEF TypeOK
<1>2. CASE q = pc /\ ~(threadWaiting = 0 /\ threadCount < MaxThreads)
  <2>1. NbIn(q, NotDead) = NbIn(pc, NotDead) + (IF q = pc THEN 0 ELSE 1)
    BY <1>2, NbInNat
  <2> QED BY <1>1, <1>2, <2>1
<1>3. ASSUME NEW u \in Threads \ Alive, q = [pc EXCEPT ![u] = "loop"],
             threadCount < MaxThreads
      PROVE  /\ q \in [Threads -> ThreadStates]
             /\ NbIn(q, NotDead) = NbIn(pc, NotDead) + (IF q = pc THEN 0 ELSE 1)
             /\ NbIn(q, {"waiting"}) = NbIn(pc, {"waiting"})
             /\ NbIn(q, {"notified"}) = NbIn(pc, {"notified"})
             /\ NbIn(q, InWait) = NbIn(pc, InWait)
             /\ NbIn(q, WithTask) = NbIn(pc, WithTask)
             /\ \A w \in Threads : q[w] = "running" <=> pc[w] = "running"
  <2>1. pc[u] = "dead" /\ u \in Threads
    BY DEF Alive
  <2>2. "loop" \in ThreadStates
    BY DEF ThreadStates
  <2>3. q[u] = "loop" /\ q # pc
    BY <1>1, <1>3, <2>1
  <2>4. \A w \in Threads : q[w] = "running" <=> pc[w] = "running"
    BY <1>1, <1>3, <2>1
  <2>5. /\ NbIn(q, NotDead) =
             NbIn(pc, NotDead) + Ind("loop", NotDead) - Ind(pc[u], NotDead)
        /\ NbIn(q, {"waiting"}) =
             NbIn(pc, {"waiting"}) + Ind("loop", {"waiting"}) - Ind(pc[u], {"waiting"})
        /\ NbIn(q, {"notified"}) =
             NbIn(pc, {"notified"}) + Ind("loop", {"notified"}) - Ind(pc[u], {"notified"})
        /\ NbIn(q, InWait) = NbIn(pc, InWait) + Ind("loop", InWait) - Ind(pc[u], InWait)
        /\ NbIn(q, WithTask) =
             NbIn(pc, WithTask) + Ind("loop", WithTask) - Ind(pc[u], WithTask)
    <3>1. ASSUME NEW V
          PROVE  NbIn(q, V) = NbIn(pc, V) + Ind("loop", V) - Ind(pc[u], V)
      <4>1. \A w \in Threads : w # u => q[w] = pc[w]
        BY <1>1, <1>3
      <4>2. NbIn(q, V) = NbIn(pc, V) + Ind(q[u], V) - Ind(pc[u], V)
        BY <2>1, <4>1, NbInChange
      <4> QED BY <2>3, <4>2
    <3> QED BY <3>1
  <2>6. /\ NbIn(pc, NotDead) \in Nat /\ NbIn(pc, {"waiting"}) \in Nat
        /\ NbIn(pc, {"notified"}) \in Nat /\ NbIn(pc, InWait) \in Nat
        /\ NbIn(pc, WithTask) \in Nat
    BY NbInNat
  <2>7. /\ NbIn(q, NotDead) = NbIn(pc, NotDead) + (IF q = pc THEN 0 ELSE 1)
        /\ NbIn(q, {"waiting"}) = NbIn(pc, {"waiting"})
        /\ NbIn(q, {"notified"}) = NbIn(pc, {"notified"})
    BY <2>1, <2>3, <2>5, <2>6 DEF Ind, NotDead, ThreadStates
  <2>8. "loop" \notin InWait \cup WithTask /\ "dead" \notin InWait \cup WithTask
    BY DEF InWait, WithTask
  <2>9. /\ NbIn(q, InWait) = NbIn(pc, InWait)
        /\ NbIn(q, WithTask) = NbIn(pc, WithTask)
    BY <2>1, <2>5, <2>6, <2>8 DEF Ind
  <2>10. q \in [Threads -> ThreadStates]
    BY <1>1, <1>3, <2>2
  <2> QED BY <2>4, <2>7, <2>9, <2>10
<1>4. CASE threadWaiting = 0 /\ threadCount < MaxThreads
  <2>1. PICK u \in Threads \ Alive : q = [pc EXCEPT ![u] = "loop"]
    BY <1>4 DEF StartThread
  <2> QED BY <1>3, <1>4, <2>1
<1>5. CASE ~(threadWaiting = 0 /\ threadCount < MaxThreads)
  BY <1>2, <1>5 DEF StartThread
<1> QED BY <1>4, <1>5

\* A waiting thread is notified, if there is one.
LEMMA NotifyIs ==
    ASSUME NEW q \in [Threads -> ThreadStates], NEW r \in Notify(q)
    PROVE  /\ r \in [Threads -> ThreadStates]
           /\ NbIn(r, NotDead) = NbIn(q, NotDead)
           /\ NbIn(r, InWait) = NbIn(q, InWait)
           /\ NbIn(r, WithTask) = NbIn(q, WithTask)
           /\ \A u \in Threads : r[u] = "running" <=> q[u] = "running"
           /\ \/ NbIn(r, {"waiting"}) = 0
              \/ /\ NbIn(q, {"waiting"}) > 0
                 /\ NbIn(r, {"notified"}) = NbIn(q, {"notified"}) + 1
<1> DEFINE W == {t \in Threads : q[t] = "waiting"}
<1>1. CASE W = {}
  <2>1. r = q
    BY <1>1 DEF Notify
  <2> QED BY <1>1, <2>1, NobodyWaits
<1>2. CASE W # {}
  <2>1. PICK u \in W : r = [q EXCEPT ![u] = "notified"]
    BY <1>2 DEF Notify
  <2>2. q[u] = "waiting" /\ u \in Threads
    OBVIOUS
  <2>3. NbIn(q, {"waiting"}) \in Nat /\ NbIn(q, {"waiting"}) > 0
    BY <1>2, NobodyWaits
  <2>4. \A w \in Threads : r[w] = "running" <=> q[w] = "running"
    BY <2>1, <2>2
  <2> HIDE DEF W
  <2>5. "notified" \in ThreadStates
    BY DEF ThreadStates
  <2>6. /\ NbIn(r, NotDead) =
             NbIn(q, NotDead) + Ind("notified", NotDead) - Ind(q[u], NotDead)
        /\ NbIn(r, {"notified"}) =
             NbIn(q, {"notified"}) + Ind("notified", {"notified"}) - Ind(q[u], {"notified"})
        /\ NbIn(r, InWait) = NbIn(q, InWait) + Ind("notified", InWait) - Ind(q[u], InWait)
        /\ NbIn(r, WithTask) =
             NbIn(q, WithTask) + Ind("notified", WithTask) - Ind(q[u], WithTask)
    <3>1. ASSUME NEW V
          PROVE  NbIn(r, V) = NbIn(q, V) + Ind("notified", V) - Ind(q[u], V)
      <4>1. r[u] = "notified" /\ \A w \in Threads : w # u => r[w] = q[w]
        BY <2>1, <2>2
      <4>2. NbIn(r, V) = NbIn(q, V) + Ind(r[u], V) - Ind(q[u], V)
        BY <2>2, <4>1, NbInChange
      <4> QED BY <4>1, <4>2
    <3> QED BY <3>1
  <2>7. /\ NbIn(q, NotDead) \in Nat /\ NbIn(q, {"notified"}) \in Nat
        /\ NbIn(q, InWait) \in Nat /\ NbIn(q, WithTask) \in Nat
    BY NbInNat
  <2>8. /\ NbIn(r, NotDead) = NbIn(q, NotDead)
        /\ NbIn(r, InWait) = NbIn(q, InWait)
        /\ NbIn(r, WithTask) = NbIn(q, WithTask)
        /\ NbIn(r, {"notified"}) = NbIn(q, {"notified"}) + 1
    BY <2>2, <2>6, <2>7 DEF Ind, NotDead, ThreadStates, InWait, WithTask
  <2>9. r \in [Threads -> ThreadStates]
    BY <2>1, <2>5
  <2> QED BY <2>3, <2>4, <2>8, <2>9
<1> QED BY <1>1, <1>2

-----------------------------------------------------------------------------
(* The actions of a thread *)

LEMMA SendingIs ==
    Cardinality(Sending) \in Nat
<1>1. IsFiniteSet(Sending)
  BY SendersAssumption, FS_Subset DEF Sending
<1> QED BY <1>1, FS_CardinalityType

LEMMA GetRunnableInv ==
    ASSUME IInv, NEW t \in Threads, GetRunnable(t)
    PROVE  IInv'
<1>0. /\ TypeOK /\ ClosingInv
      /\ UNCHANGED <<runnableCount, threadCount, closed, end, sender, sent,
                     outcome, runs, destroyer>>
      /\ pc[t] = "loop"
  BY DEF IInv, ShapeInv, GetRunnable
<1>1. ClosingInv'
  BY <1>0 DEF ClosingInv
<1>2. Cardinality(Sending)' = Cardinality(Sending) /\ Cardinality(Sending) \in Nat
  BY <1>0, SendingIs DEF Sending
<1>4. CASE NoneQueued
  <2>0. "waiting" \in ThreadStates /\ None \in Exchanges \cup {None}
    BY DEF ThreadStates
  <2>1. /\ Move(t, "waiting")
        /\ threadWaiting' = threadWaiting + 1
        /\ UNCHANGED <<queues, task>>
    BY <1>4 DEF GetRunnable, EnterWait, Move
  <2>2. QueueInv' /\ SenderInv' /\ TaskInv' /\ OutcomeInv' /\ ProcessedOnce'
    BY <1>0, <2>0, <2>1, QuietStep
  <2>3. pc' \in [Threads -> ThreadStates] /\ Moved("loop", "waiting")
    BY <1>0, <2>0, <2>1, MoveCounts
  <2>4. /\ Cardinality(InGetWait) \in Nat /\ Cardinality(Alive) \in Nat
        /\ Cardinality(HasTask) \in Nat /\ Cardinality(Notified) \in Nat
        /\ Cardinality(Alive)' = Cardinality(Alive)
        /\ Cardinality(Notified)' = Cardinality(Notified)
        /\ Cardinality(InGetWait)' = Cardinality(InGetWait) + 1
        /\ Cardinality(HasTask)' = Cardinality(HasTask)
    BY <2>3 DEF Moved, Ind, NotDead, InWait, WithTask, ThreadStates
  <2>5. TypeOK'
    BY <1>0, <2>1, <2>3 DEF TypeOK
  <2>6. Queued' = 0 /\ Queued = 0
    BY <1>0, <1>4, <2>1, QueuedIs DEF Queued
  <2>7. threadWaiting \in Nat
    BY <1>0 DEF TypeOK
  <2>8. CountInv'
    BY <1>0, <1>2, <2>1, <2>4, <2>6, <2>7
    DEF IInv, CountInv, WaitingInv, RunnablesConserved, ThreadsCounted, WaitingCounted,
        NoSleepBesideWork
  <2> QED BY <1>1, <2>2, <2>5, <2>8 DEF IInv, ShapeInv
<1>5. CASE ~NoneQueued
  <2>0. "running" \in ThreadStates
    BY DEF ThreadStates
  <2>1. TakeTask(t) /\ threadWaiting' = threadWaiting
    BY <1>5 DEF GetRunnable
  <2>2. /\ QueueInv' /\ SenderInv' /\ TaskInv' /\ OutcomeInv' /\ ProcessedOnce'
        /\ queues' \in [Priorities -> Seq(Exchanges)]
        /\ task' \in [Threads -> Exchanges \cup {None}]
        /\ Queued \in Nat /\ Queued' = Queued - 1 /\ Queued >= 1
    BY <1>0, <1>5, <2>1, TakeTaskStep
  <2>3. Move(t, "running")
    BY <2>1 DEF TakeTask, Move
  <2>4. pc' \in [Threads -> ThreadStates] /\ Moved("loop", "running")
    BY <1>0, <2>0, <2>3, MoveCounts
  <2>5. /\ Cardinality(Alive) \in Nat /\ Cardinality(WaitSet) \in Nat
        /\ Cardinality(Notified) \in Nat /\ Cardinality(InGetWait) \in Nat
        /\ Cardinality(HasTask) \in Nat
        /\ Cardinality(Alive)' = Cardinality(Alive)
        /\ Cardinality(WaitSet)' = Cardinality(WaitSet)
        /\ Cardinality(Notified)' = Cardinality(Notified)
        /\ Cardinality(InGetWait)' = Cardinality(InGetWait)
        /\ Cardinality(HasTask)' = Cardinality(HasTask) + 1
    BY <2>4 DEF Moved, Ind, NotDead, InWait, WithTask, ThreadStates
  <2>6. TypeOK'
    BY <1>0, <2>1, <2>2, <2>4 DEF TypeOK
  <2>7. NoSleepBesideWork'
    BY <1>0, <2>2, <2>5, WaitSetIs, WaitSetIsNext DEF IInv, CountInv, NoSleepBesideWork
  <2>8. RunnablesConserved'
    <3>1. runnableCount \in Nat
      BY <1>0, BoundsAreNumbers DEF TypeOK
    <3> QED BY <1>0, <1>2, <2>2, <2>5, <3>1 DEF IInv, CountInv, RunnablesConserved
  <2>9. WaitingInv' /\ ThreadsCounted' /\ WaitingCounted'
    BY <1>0, <2>1, <2>5 DEF IInv, CountInv, WaitingInv, ThreadsCounted, WaitingCounted
  <2> QED BY <1>1, <2>2, <2>6, <2>7, <2>8, <2>9 DEF IInv, ShapeInv, CountInv
<1> QED BY <1>4, <1>5

LEMMA WakeUpInv ==
    ASSUME IInv, NEW t \in Threads, WakeUp(t)
    PROVE  IInv'
<1>0. /\ TypeOK /\ ClosingInv
      /\ UNCHANGED <<queues, runnableCount, threadCount, threadWaiting, closed,
                     task, end, sender, sent, outcome, runs, destroyer>>
      /\ pc[t] = "waiting" /\ Move(t, "woken") /\ "woken" \in ThreadStates
  BY DEF IInv, ShapeInv, WakeUp, Move, ThreadStates
<1>1. ClosingInv'
  BY <1>0 DEF ClosingInv
<1>2. QueueInv' /\ SenderInv' /\ TaskInv' /\ OutcomeInv' /\ ProcessedOnce'
  BY <1>0, QuietStep
<1>3. pc' \in [Threads -> ThreadStates] /\ Moved("waiting", "woken")
  BY <1>0, MoveCounts
<1>4. TypeOK'
  BY <1>0, <1>3 DEF TypeOK
<1>5. /\ Cardinality(Sending)' = Cardinality(Sending)
      /\ Queued' = Queued
  BY <1>0 DEF Sending, Queued
<1>6. /\ Cardinality(WaitSet) \in Nat
      /\ Cardinality(Alive)' = Cardinality(Alive)
      /\ Cardinality(WaitSet)' = Cardinality(WaitSet) - 1
      /\ Cardinality(Notified)' = Cardinality(Notified)
      /\ Cardinality(InGetWait)' = Cardinality(InGetWait)
      /\ Cardinality(HasTask)' = Cardinality(HasTask)
  BY <1>3 DEF Moved, Ind, NotDead, InWait, WithTask, ThreadStates
<1>7. NoSleepBesideWork'
  <2>1. WaitSet # {}
    BY <1>0 DEF WaitSet
  <2> QED BY <1>5, <1>6, <2>1 DEF IInv, CountInv, NoSleepBesideWork
<1>8. WaitingInv' /\ RunnablesConserved' /\ ThreadsCounted' /\ WaitingCounted'
  BY <1>0, <1>5, <1>6
  DEF IInv, CountInv, WaitingInv, RunnablesConserved, ThreadsCounted, WaitingCounted
<1> QED BY <1>1, <1>2, <1>4, <1>7, <1>8 DEF IInv, ShapeInv, CountInv

LEMMA ResumeInv ==
    ASSUME IInv, NEW t \in Threads, Resume(t)
    PROVE  IInv'
<1>0. /\ TypeOK /\ ClosingInv
      /\ UNCHANGED <<runnableCount, threadCount, closed, end, sender, sent,
                     outcome, runs, destroyer>>
      /\ pc[t] \in {"notified", "woken"}
  BY DEF IInv, ShapeInv, Resume
<1>1. ClosingInv'
  BY <1>0 DEF ClosingInv
<1>2. Cardinality(Sending)' = Cardinality(Sending) /\ Cardinality(Sending) \in Nat
  BY <1>0, SendingIs DEF Sending
<1>3. runnableCount \in Nat /\ threadWaiting \in Nat
  BY <1>0, BoundsAreNumbers DEF TypeOK
<1>4. CASE ~NoneQueued /\ TakeTask(t) /\ threadWaiting' = threadWaiting - 1
  <2>0. "running" \in ThreadStates /\ Move(t, "running")
    BY <1>4 DEF ThreadStates, TakeTask, Move
  <2>1. /\ QueueInv' /\ SenderInv' /\ TaskInv' /\ OutcomeInv' /\ ProcessedOnce'
        /\ queues' \in [Priorities -> Seq(Exchanges)]
        /\ task' \in [Threads -> Exchanges \cup {None}]
        /\ Queued \in Nat /\ Queued' = Queued - 1 /\ Queued >= 1
    BY <1>0, <1>4, TakeTaskStep
  <2>2. pc' \in [Threads -> ThreadStates] /\ Moved(pc[t], "running")
    BY <1>0, <2>0, MoveCounts
  <2>3. /\ Cardinality(Alive) \in Nat /\ Cardinality(WaitSet) \in Nat
        /\ Cardinality(Notified) \in Nat /\ Cardinality(InGetWait) \in Nat
        /\ Cardinality(HasTask) \in Nat
        /\ Cardinality(Alive)' = Cardinality(Alive)
        /\ Cardinality(WaitSet)' = Cardinality(WaitSet)
        /\ Cardinality(Notified)' >= Cardinality(Notified) - 1
        /\ Cardinality(Notified)' \in Int
        /\ Cardinality(InGetWait)' = Cardinality(InGetWait) - 1
        /\ Cardinality(HasTask)' = Cardinality(HasTask) + 1
        /\ Cardinality(InGetWait)' \in Nat
    <3>1. Cardinality(InGetWait)' \in Nat
      BY <2>2, CountsArePcNext, NbInNat
    <3> QED BY <1>0, <2>2, <3>1 DEF Moved, Ind, NotDead, InWait, WithTask, ThreadStates
  <2>4. threadWaiting - 1 \in Nat
    BY <1>3, <2>3 DEF IInv, CountInv, WaitingInv
  <2>5. TypeOK'
    BY <1>0, <1>4, <2>1, <2>2, <2>4 DEF TypeOK
  <2>6. NoSleepBesideWork'
    BY <1>0, <2>1, <2>3, WaitSetIs, WaitSetIsNext DEF IInv, CountInv, NoSleepBesideWork
  <2>7. RunnablesConserved'
    BY <1>0, <1>2, <1>3, <2>1, <2>3 DEF IInv, CountInv, RunnablesConserved
  <2>8. WaitingInv' /\ ThreadsCounted' /\ WaitingCounted'
    BY <1>0, <1>3, <1>4, <2>3
    DEF IInv, CountInv, WaitingInv, ThreadsCounted, WaitingCounted
  <2> QED BY <1>1, <2>1, <2>5, <2>6, <2>7, <2>8 DEF IInv, ShapeInv, CountInv
<1>5. ASSUME NoneQueued, NEW v \in {"waiting", "remove"}, Move(t, v),
             UNCHANGED <<queues, task>>,
             threadWaiting' = IF v = "waiting" THEN threadWaiting ELSE threadWaiting - 1
      PROVE  IInv'
  <2>0. v \in ThreadStates /\ v # "running" /\ pc[t] # "running"
    BY <1>0 DEF ThreadStates
  <2>1. QueueInv' /\ SenderInv' /\ TaskInv' /\ OutcomeInv' /\ ProcessedOnce'
    BY <1>0, <1>5, <2>0, QuietStep
  <2>2. pc' \in [Threads -> ThreadStates] /\ Moved(pc[t], v)
    BY <1>0, <1>5, <2>0, MoveCounts
  <2>3. /\ Cardinality(Alive)' = Cardinality(Alive)
        /\ Cardinality(HasTask)' = Cardinality(HasTask)
        /\ Cardinality(InGetWait) \in Nat
        /\ Cardinality(InGetWait)' = Cardinality(InGetWait) - (IF v = "waiting" THEN 0 ELSE 1)
    BY <1>0, <2>2 DEF Moved, Ind, NotDead, InWait, WithTask, ThreadStates
  <2>4. Cardinality(InGetWait)' \in Nat /\ Cardinality(Notified)' \in Nat
    BY <2>2, CountsArePcNext, NbInNat
  <2>5. threadWaiting' \in Nat
    BY <1>3, <1>5, <2>3, <2>4 DEF IInv, CountInv, WaitingInv
  <2>6. TypeOK'
    BY <1>0, <1>5, <2>2, <2>5 DEF TypeOK
  <2>7. Queued' = 0 /\ Queued = 0
    BY <1>0, <1>5, QueuedIs DEF Queued
  <2>8. NoSleepBesideWork'
    BY <2>4, <2>7 DEF NoSleepBesideWork
  <2>9. RunnablesConserved'
    BY <1>0, <1>2, <2>3, <2>7 DEF IInv, CountInv, RunnablesConserved
  <2>10. WaitingInv' /\ ThreadsCounted' /\ WaitingCounted'
    BY <1>0, <1>3, <1>5, <2>3
    DEF IInv, CountInv, WaitingInv, ThreadsCounted, WaitingCounted
  <2> QED BY <1>1, <2>1, <2>6, <2>8, <2>9, <2>10 DEF IInv, ShapeInv, CountInv
<1>6. CASE /\ NoneQueued
           /\ pc' = [pc EXCEPT ![t] = "waiting"]
           /\ UNCHANGED <<queues, task, threadWaiting>>
  BY <1>5, <1>6 DEF Move
<1>7. CASE /\ NoneQueued
           /\ pc' = [pc EXCEPT ![t] = "remove"]
           /\ threadWaiting' = threadWaiting - 1
           /\ UNCHANGED <<queues, task>>
  BY <1>5, <1>7 DEF Move
<1> QED BY <1>4, <1>6, <1>7 DEF Resume

LEMMA RunInv ==
    ASSUME IInv, NEW t \in Threads, Run(t)
    PROVE  IInv'
<1>0. /\ TypeOK /\ ClosingInv /\ TaskInv
      /\ UNCHANGED <<queues, runnableCount, threadCount, threadWaiting, closed,
                     task, end, sender, sent, outcome, destroyer>>
      /\ pc[t] = "running" /\ Move(t, "put") /\ "put" \in ThreadStates
      /\ runs' = [runs EXCEPT ![task[t]] = @ + 1]
  BY DEF IInv, ShapeInv, Run, Move, ThreadStates
<1>1. ClosingInv' /\ QueueInv' /\ SenderInv' /\ OutcomeInv'
  BY <1>0 DEF IInv, ShapeInv, ClosingInv, QueueInv, SenderInv, OutcomeInv
<1>2. pc' \in [Threads -> ThreadStates] /\ Moved("running", "put")
  BY <1>0, MoveCounts
<1>3. /\ pc'[t] = "put"
      /\ \A u \in Threads : u # t => pc'[u] = pc[u] /\ task'[u] = task[u]
      /\ task'[t] = task[t]
      /\ task[t] \in Exchanges
  BY <1>0 DEF TypeOK, TaskInv, Move
<1>4. TaskInv'
  BY <1>0, <1>3 DEF TaskInv
<1>5. runs \in [Exchanges -> Nat] /\ runs' \in [Exchanges -> Nat]
  BY <1>0, <1>3 DEF TypeOK
<1>6. TypeOK'
  BY <1>0, <1>2, <1>5 DEF TypeOK
<1>7. ASSUME NEW x \in Exchanges PROVE (Holders(x) + runs[x])' = Holders(x) + runs[x]
  <2>1. Cardinality(InThreads(pc', task', x)) =
          Cardinality(InThreads(pc, task, x))
            + Ind(<<"put", task[t]>>, {<<"running", x>>})
            - Ind(<<pc[t], task[t]>>, {<<"running", x>>})
    BY <1>3, InThreadsChange
  <2>2. /\ Places(queues', x) = Places(queues, x)
        /\ InSenders(sender', x) = InSenders(sender, x)
    BY <1>0 DEF InSenders, Places
  <2>3. /\ Cardinality(InThreads(pc, task, x)) \in Nat
        /\ Cardinality(Places(queues, x)) \in Nat
        /\ Cardinality(InSenders(sender, x)) \in Nat
    BY HeldFinite
  <2>4. CASE task[t] = x
    <3>1. runs'[x] = runs[x] + 1 /\ runs[x] \in Nat
      BY <1>0, <1>3, <1>5, <2>4
    <3>2. Cardinality(InThreads(pc', task', x)) = Cardinality(InThreads(pc, task, x)) - 1
      BY <1>0, <2>1, <2>3, <2>4 DEF Ind
    <3> QED BY <2>2, <2>3, <3>1, <3>2, HoldersAre
  <2>5. CASE task[t] # x
    <3>1. runs'[x] = runs[x] /\ runs[x] \in Nat
      BY <1>0, <1>3, <1>5, <2>5
    <3>2. Cardinality(InThreads(pc', task', x)) = Cardinality(InThreads(pc, task, x))
      BY <2>1, <2>3, <2>5 DEF Ind
    <3> QED BY <2>2, <2>3, <3>1, <3>2, HoldersAre
  <2> QED BY <2>4, <2>5
<1>8. ProcessedOnce'
  BY <1>0, <1>7 DEF IInv, ProcessedOnce
<1>9. /\ Cardinality(Sending)' = Cardinality(Sending)
      /\ Queued' = Queued
  BY <1>0 DEF Sending, Queued
<1>10. /\ Cardinality(Alive)' = Cardinality(Alive)
       /\ Cardinality(WaitSet)' = Cardinality(WaitSet)
       /\ Cardinality(Notified)' = Cardinality(Notified)
       /\ Cardinality(InGetWait)' = Cardinality(InGetWait)
       /\ Cardinality(HasTask)' = Cardinality(HasTask)
  BY <1>2 DEF Moved, Ind, NotDead, InWait, WithTask, ThreadStates
<1>11. NoSleepBesideWork'
  BY <1>0, <1>9, <1>10, WaitSetIs, WaitSetIsNext DEF IInv, CountInv, NoSleepBesideWork
<1>12. WaitingInv' /\ RunnablesConserved' /\ ThreadsCounted' /\ WaitingCounted'
  BY <1>0, <1>9, <1>10
  DEF IInv, CountInv, WaitingInv, RunnablesConserved, ThreadsCounted, WaitingCounted
<1> QED BY <1>1, <1>4, <1>6, <1>8, <1>11, <1>12 DEF IInv, ShapeInv, CountInv

LEMMA PutRunnableInv ==
    ASSUME IInv, NEW t \in Threads, PutRunnable(t)
    PROVE  IInv'
<1>0. /\ TypeOK /\ ClosingInv
      /\ UNCHANGED <<queues, threadCount, threadWaiting, closed, end, sender, sent,
                     outcome, runs, destroyer>>
      /\ pc[t] = "put" /\ Move(t, "loop") /\ "loop" \in ThreadStates
      /\ task' = [task EXCEPT ![t] = None]
      /\ runnableCount' = runnableCount + 1
  BY DEF IInv, ShapeInv, PutRunnable, Move, ThreadStates
<1>1. ClosingInv'
  BY <1>0 DEF ClosingInv
<1>2. QueueInv' /\ SenderInv' /\ TaskInv' /\ OutcomeInv' /\ ProcessedOnce'
  BY <1>0, QuietStep
<1>3. pc' \in [Threads -> ThreadStates] /\ Moved("put", "loop")
  BY <1>0, MoveCounts
<1>4. task' \in [Threads -> Exchanges \cup {None}]
  BY <1>0 DEF TypeOK
<1>5. /\ Cardinality(Sending)' = Cardinality(Sending) /\ Cardinality(Sending) \in Nat
      /\ Queued' = Queued /\ Queued \in Nat
  BY <1>0, SendingIs, QueuedIs DEF Sending, Queued
<1>6. /\ Cardinality(HasTask) \in Nat
      /\ Cardinality(Alive)' = Cardinality(Alive)
      /\ Cardinality(WaitSet)' = Cardinality(WaitSet)
      /\ Cardinality(Notified)' = Cardinality(Notified)
      /\ Cardinality(InGetWait)' = Cardinality(InGetWait)
      /\ Cardinality(HasTask)' = Cardinality(HasTask) - 1
  BY <1>3 DEF Moved, Ind, NotDead, InWait, WithTask, ThreadStates
<1>7. Cardinality(HasTask)' \in Nat
  BY <1>3, CountsArePcNext, NbInNat
<1>8. runnableCount \in Nat /\ PoolSize \in Nat
  BY <1>0, BoundsAreNumbers DEF TypeOK
<1>9. RunnablesConserved' /\ runnableCount' \in 0 .. PoolSize
  BY <1>0, <1>5, <1>6, <1>7, <1>8 DEF IInv, CountInv, RunnablesConserved
<1>10. TypeOK'
  BY <1>0, <1>3, <1>4, <1>9 DEF TypeOK
<1>11. NoSleepBesideWork'
  BY <1>0, <1>5, <1>6, WaitSetIs, WaitSetIsNext DEF IInv, CountInv, NoSleepBesideWork
<1>12. WaitingInv' /\ ThreadsCounted' /\ WaitingCounted'
  BY <1>0, <1>6 DEF IInv, CountInv, WaitingInv, ThreadsCounted, WaitingCounted
<1> QED BY <1>1, <1>2, <1>9, <1>10, <1>11, <1>12 DEF IInv, ShapeInv, CountInv

LEMMA RemoveThreadInv ==
    ASSUME IInv, NEW t \in Threads, RemoveThread(t)
    PROVE  IInv'
<1>0. /\ TypeOK /\ ClosingInv
      /\ UNCHANGED <<queues, runnableCount, threadWaiting, closed, task, end,
                     sender, sent, outcome, runs, destroyer>>
      /\ pc[t] = "remove"
  BY DEF IInv, ShapeInv, RemoveThread
<1>1. ClosingInv'
  BY <1>0 DEF ClosingInv
<1>2. /\ Cardinality(Sending)' = Cardinality(Sending)
      /\ Queued' = Queued
  BY <1>0 DEF Sending, Queued
<1>3. /\ MinThreads \in Nat /\ MaxThreads \in Nat /\ threadCount \in Nat
      /\ threadCount <= MaxThreads
  BY <1>0, BoundsAreNumbers DEF TypeOK
<1>4. ASSUME NEW v \in {"loop", "dead"}, Move(t, v),
             threadCount' \in Nat, threadCount' <= MaxThreads,
             ~closed => /\ threadCount' = threadCount - (IF v = "dead" THEN 1 ELSE 0)
                        /\ MinThreads <= threadCount'
      PROVE  IInv'
  <2>0. v \in ThreadStates /\ v # "running"
    BY DEF ThreadStates
  <2>1. QueueInv' /\ SenderInv' /\ TaskInv' /\ OutcomeInv' /\ ProcessedOnce'
    BY <1>0, <1>4, <2>0, QuietStep
  <2>2. pc' \in [Threads -> ThreadStates] /\ Moved("remove", v)
    BY <1>0, <1>4, <2>0, MoveCounts
  <2>3. TypeOK'
    BY <1>0, <1>3, <1>4, <2>2 DEF TypeOK
  <2>4. /\ Cardinality(Alive) \in Nat
        /\ Cardinality(Alive)' = Cardinality(Alive) - (IF v = "dead" THEN 1 ELSE 0)
        /\ Cardinality(WaitSet)' = Cardinality(WaitSet)
        /\ Cardinality(Notified)' = Cardinality(Notified)
        /\ Cardinality(InGetWait)' = Cardinality(InGetWait)
        /\ Cardinality(HasTask)' = Cardinality(HasTask)
    BY <2>2 DEF Moved, Ind, NotDead, InWait, WithTask, ThreadStates
  <2>5. ThreadsCounted'
    BY <1>0, <1>3, <1>4, <2>4 DEF IInv, CountInv, ThreadsCounted
  <2>6. NoSleepBesideWork'
    BY <1>0, <1>2, <2>4, WaitSetIs, WaitSetIsNext DEF IInv, CountInv, NoSleepBesideWork
  <2>7. WaitingInv' /\ RunnablesConserved' /\ WaitingCounted'
    BY <1>0, <1>2, <2>4 DEF IInv, CountInv, WaitingInv, RunnablesConserved, WaitingCounted
  <2> QED BY <1>1, <2>1, <2>3, <2>5, <2>6, <2>7 DEF IInv, ShapeInv, CountInv
<1>5. CASE ~closed /\ threadCount <= MinThreads
  <2>1. Move(t, "loop") /\ threadCount' = threadCount
    BY <1>5 DEF RemoveThread, Move
  <2>2. ~closed => MinThreads <= threadCount
    BY <1>3 DEF IInv, CountInv, ThreadsCounted
  <2> QED BY <1>3, <1>4, <2>1, <2>2
<1>6. CASE closed
  <2>1. Move(t, "dead") /\ threadCount' = threadCount
    BY <1>6 DEF RemoveThread, Move
  <2> QED BY <1>3, <1>4, <1>6, <2>1
<1>7. CASE ~closed /\ ~(threadCount <= MinThreads)
  <2>1. Move(t, "dead") /\ threadCount' = threadCount - 1
    BY <1>7 DEF RemoveThread, Move
  <2>2. threadCount' \in Nat /\ threadCount' <= MaxThreads /\ MinThreads <= threadCount'
    BY <1>3, <1>7, <2>1
  <2> QED BY <1>4, <2>1, <2>2
<1> QED BY <1>5, <1>6, <1>7

LEMMA EndThreadInv ==
    ASSUME IInv, NEW t \in Threads, EndThread(t)
    PROVE  IInv'
<1>0. /\ TypeOK /\ ClosingInv
      /\ UNCHANGED <<queues, runnableCount, threadCount, threadWaiting, closed,
                     task, end, sender, sent, outcome, runs, destroyer>>
      /\ t \in end
      /\ pc[t] \in {"loop", "waiting", "woken"}
      /\ Move(t, "dead") /\ "dead" \in ThreadStates
  BY DEF IInv, ShapeInv, EndThread, Move, ThreadStates
<1>1. ClosingInv' /\ closed
  BY <1>0 DEF ClosingInv
<1>2. QueueInv' /\ SenderInv' /\ TaskInv' /\ OutcomeInv' /\ ProcessedOnce'
  <2>1. pc[t] # "running"
    BY <1>0
  <2> QED BY <1>0, <2>1, QuietStep
<1>3. pc' \in [Threads -> ThreadStates] /\ Moved(pc[t], "dead")
  BY <1>0, MoveCounts
<1>4. TypeOK'
  BY <1>0, <1>3 DEF TypeOK
<1>5. /\ Cardinality(Sending)' = Cardinality(Sending)
      /\ Queued' = Queued
  BY <1>0 DEF Sending, Queued
<1>6. /\ Cardinality(WaitSet) \in Nat /\ Cardinality(InGetWait) \in Nat
      /\ Cardinality(WaitSet)' \in Int
      /\ Cardinality(WaitSet)' <= Cardinality(WaitSet)
      /\ Cardinality(Notified)' = Cardinality(Notified)
      /\ Cardinality(InGetWait)' \in Int
      /\ Cardinality(InGetWait)' <= Cardinality(InGetWait)
      /\ Cardinality(HasTask)' = Cardinality(HasTask)
  BY <1>0, <1>3 DEF Moved, Ind, NotDead, InWait, WithTask, ThreadStates
<1>7. NoSleepBesideWork'
  BY <1>0, <1>5, <1>6, WaitSetIs, WaitSetIsNext DEF IInv, CountInv, NoSleepBesideWork
<1>8. threadWaiting \in Nat
  BY <1>0 DEF TypeOK
<1>9. WaitingInv' /\ RunnablesConserved' /\ ThreadsCounted' /\ WaitingCounted'
  BY <1>0, <1>1, <1>5, <1>6, <1>8
  DEF IInv, CountInv, WaitingInv, RunnablesConserved, ThreadsCounted, WaitingCounted
<1> QED BY <1>1, <1>2, <1>4, <1>7, <1>9 DEF IInv, ShapeInv, CountInv

-----------------------------------------------------------------------------
(* The actions of a sender *)

\* What a step of a sender leaves alone, when no thread changes its state.
LEMMA ThreadsUnchanged ==
    ASSUME UNCHANGED <<pc, task>>
    PROVE  /\ Alive' = Alive /\ WaitSet' = WaitSet /\ Notified' = Notified
           /\ InGetWait' = InGetWait /\ HasTask' = HasTask
           /\ \A x : InThreads(pc', task', x) = InThreads(pc, task, x)
BY DEF Alive, WaitSet, Notified, InGetWait, HasTask, InThreads

\* The call of send() that s makes works on v from now on.
Take(s, v) == sender' = [sender EXCEPT ![s] = v]

LEMMA TakeCounts ==
    ASSUME TypeOK, NEW s \in Senders, NEW v, Take(s, v),
           v.step \in {"idle", "enqueue", "putBack"}
    PROVE  /\ Cardinality(Sending) \in Nat /\ Cardinality(Sending)' \in Nat
           /\ Cardinality(Sending)' =
                Cardinality(Sending) + Ind(v.step, Busy) - Ind(sender[s].step, Busy)
           /\ \A x : Cardinality(InSenders(sender', x)) = Cardinality(InSenders(sender, x))
                       + Ind(v.exchange, {x}) - Ind(sender[s].exchange, {x})
<1>1. sender' = [sender EXCEPT ![s] = v] /\ v.step \in Busy \cup {"idle"}
  BY DEF Take, Busy
<1>2. \A x : Cardinality(InSenders(sender', x)) = Cardinality(InSenders(sender, x))
               + Ind(v.exchange, {x}) - Ind(sender[s].exchange, {x})
  BY <1>1, InSendersChange
<1> QED BY <1>1, <1>2, SendingChange

LEMMA PeekInv ==
    ASSUME IInv, NEW s \in Senders, NEW p \in Priorities, Peek(s, p)
    PROVE  IInv'
<1>0. /\ TypeOK /\ ClosingInv /\ QueueInv /\ SenderInv /\ TaskInv /\ OutcomeInv
      /\ UNCHANGED <<queues, threadCount, threadWaiting, closed, pc, task, end,
                     runs, destroyer>>
      /\ sender[s] = Idle /\ sent < MaxSends /\ sent' = sent + 1
  BY DEF IInv, ShapeInv, Peek
<1>1. /\ sent \in Nat /\ MaxSends \in Nat /\ sent' \in 0 .. MaxSends
      /\ sent' \in Exchanges /\ runnableCount \in Nat /\ PoolSize \in Nat
      /\ runnableCount <= PoolSize
  BY <1>0, BoundsAreNumbers DEF TypeOK, Exchanges
<1>2. ClosingInv' /\ QueueInv' /\ TaskInv'
  BY <1>0 DEF ClosingInv, QueueInv, TaskInv
<1>3. /\ Alive' = Alive /\ WaitSet' = WaitSet /\ Notified' = Notified
      /\ InGetWait' = InGetWait /\ HasTask' = HasTask
      /\ \A x : InThreads(pc', task', x) = InThreads(pc, task, x)
  BY <1>0, ThreadsUnchanged
<1>4. /\ Queued' = Queued /\ Queued \in Nat
      /\ \A x : Places(queues', x) = Places(queues, x)
  BY <1>0, QueuedIs DEF Queued, Places
<1>5. WaitingInv' /\ ThreadsCounted' /\ WaitingCounted' /\ NoSleepBesideWork'
  BY <1>0, <1>3, <1>4
  DEF IInv, CountInv, WaitingInv, ThreadsCounted, WaitingCounted, NoSleepBesideWork
<1>6. Cardinality(HasTask) \in Nat
  BY <1>0, CountsArePc, NbInNat
<1>7. CASE runnableCount = 0
  <2>1. /\ outcome' = [outcome EXCEPT ![sent'] = "discarded"]
        /\ UNCHANGED <<sender, runnableCount>>
    BY <1>7 DEF Peek
  <2>2. /\ outcome'[sent'] = "discarded"
        /\ \A x \in Exchanges : x # sent' => outcome'[x] = outcome[x]
        /\ outcome' \in [Exchanges -> Outcomes]
    BY <1>0, <1>1, <2>1 DEF TypeOK, Outcomes
  <2>3. TypeOK'
    BY <1>0, <1>1, <2>1, <2>2 DEF TypeOK
  <2>4. OutcomeInv'
    BY <1>0, <1>1, <2>2 DEF OutcomeInv, Exchanges
  <2>5. SenderInv'
    <3>1. \A x : x \in 1 .. sent => x \in 1 .. sent'
      BY <1>0, <1>1
    <3> QED BY <1>0, <2>1, <3>1 DEF SenderInv
  <2>6. RunnablesConserved'
    BY <1>3, <1>4, <2>1 DEF IInv, CountInv, RunnablesConserved, Sending
  <2>7. ASSUME NEW x \in Exchanges
        PROVE  (Holders(x) + runs[x])' =
                 IF x <= sent' /\ outcome'[x] \in {"none", "accepted"} THEN 1 ELSE 0
    <3>1. Holders(x)' = Holders(x)
      <4>1. InSenders(sender', x) = InSenders(sender, x)
        BY <2>1 DEF InSenders
      <4> QED BY <1>3, <1>4, <4>1, HoldersAre
    <3>2. Holders(x) + runs[x] =
            IF x <= sent /\ outcome[x] \in {"none", "accepted"} THEN 1 ELSE 0
      BY DEF IInv, ProcessedOnce
    <3>3. CASE x = sent'
      <4>1. ~(x <= sent)
        BY <1>0, <1>1, <3>3
      <4>2. outcome'[x] \notin {"none", "accepted"}
        BY <2>2, <3>3
      <4> QED BY <1>0, <3>1, <3>2, <4>1, <4>2
    <3>4. CASE x # sent'
      <4>1. outcome'[x] = outcome[x]
        BY <2>2, <3>4
      <4>2. x <= sent' <=> x <= sent
        BY <1>0, <1>1, <3>4 DEF Exchanges
      <4> QED BY <1>0, <3>1, <3>2, <4>1, <4>2
    <3> QED BY <3>3, <3>4
  <2>8. ProcessedOnce'
    BY <2>7 DEF ProcessedOnce
  <2> QED BY <1>2, <1>5, <2>3, <2>4, <2>5, <2>6, <2>8 DEF IInv, ShapeInv, CountInv
<1>8. CASE runnableCount # 0
  <2> DEFINE v == [step |-> "enqueue", exchange |-> sent', priority |-> p]
  <2>1. /\ runnableCount' = runnableCount - 1
        /\ Take(s, v)
        /\ outcome' = outcome
    BY <1>8 DEF Peek, Take
  <2>2. /\ v.step = "enqueue" /\ v.exchange = sent'
        /\ v \in [step : {"idle", "enqueue", "putBack"},
                  exchange : Exchanges \cup {None}, priority : Priorities]
        /\ sender[s].step = "idle" /\ sender[s].exchange = None
    BY <1>0, <1>1 DEF Idle
  <2> HIDE DEF v
  <2>3. /\ sender' \in [Senders -> [step : {"idle", "enqueue", "putBack"},
                                    exchange : Exchanges \cup {None},
                                    priority : Priorities]]
        /\ sender'[s] = v
        /\ \A u \in Senders : u # s => sender'[u] = sender[u]
    BY <1>0, <2>1, <2>2 DEF TypeOK, Take
  <2>4. runnableCount' \in 0 .. PoolSize
    BY <1>1, <1>8, <2>1
  <2>5. TypeOK'
    BY <1>0, <1>1, <2>1, <2>3, <2>4 DEF TypeOK
  <2>6. OutcomeInv'
    BY <1>0, <1>1, <2>1 DEF OutcomeInv, Exchanges
  <2>7. SenderInv'
    <3>1. \A x : x \in 1 .. sent => x \in 1 .. sent'
      BY <1>0, <1>1
    <3>2. sent' \in 1 .. sent'
      BY <1>0, <1>1
    <3> QED BY <1>0, <2>2, <2>3, <3>1, <3>2 DEF SenderInv
  <2>8. /\ Cardinality(Sending) \in Nat /\ Cardinality(Sending)' \in Nat
        /\ Cardinality(Sending)' =
             Cardinality(Sending) + Ind(v.step, Busy) - Ind(sender[s].step, Busy)
        /\ \A x : Cardinality(InSenders(sender', x)) = Cardinality(InSenders(sender, x))
                    + Ind(v.exchange, {x}) - Ind(sender[s].exchange, {x})
    BY <1>0, <2>1, <2>2, TakeCounts
  <2>9. RunnablesConserved'
    <3>1. Cardinality(Sending)' = Cardinality(Sending) + 1
      BY <2>2, <2>8 DEF Ind, Busy
    <3> QED BY <1>1, <1>3, <1>4, <1>6, <2>1, <2>8, <3>1
        DEF IInv, CountInv, RunnablesConserved
  <2>10. ASSUME NEW x \in Exchanges
         PROVE  (Holders(x) + runs[x])' =
                  IF x <= sent' /\ outcome'[x] \in {"none", "accepted"} THEN 1 ELSE 0
    <3>1. /\ Cardinality(InThreads(pc, task, x)) \in Nat
          /\ Cardinality(Places(queues, x)) \in Nat
          /\ Cardinality(InSenders(sender, x)) \in Nat
      BY HeldFinite
    <3>2. x # None
      BY NoneAssumption, <1>1 DEF Exchanges
    <3>3. Holders(x) + runs[x] =
            IF x <= sent /\ outcome[x] \in {"none", "accepted"} THEN 1 ELSE 0
      BY DEF IInv, ProcessedOnce
    <3>4. runs[x] \in Nat /\ runs'[x] = runs[x] /\ outcome'[x] = outcome[x]
      BY <1>0, <2>1 DEF TypeOK
    <3>5. CASE x = sent'
      <4>1. ~(x <= sent) /\ x <= sent' /\ x > sent
        BY <1>0, <1>1, <3>5
      <4>2. outcome[x] = "none"
        BY <1>0, <4>1 DEF OutcomeInv
      <4>3. Cardinality(InSenders(sender', x)) = Cardinality(InSenders(sender, x)) + 1
        <5>1. Ind(v.exchange, {x}) = 1 /\ Ind(sender[s].exchange, {x}) = 0
          BY <2>2, <3>2, <3>5 DEF Ind
        <5> QED BY <2>8, <3>1, <5>1
      <4>4. Holders(x)' = Holders(x) + 1
        BY <1>3, <1>4, <3>1, <4>3, HoldersAre
      <4>5. Holders(x) \in Nat
        BY <3>1, HoldersAre
      <4> QED BY <3>3, <3>4, <4>1, <4>2, <4>4, <4>5
    <3>6. CASE x # sent'
      <4>1. x <= sent' <=> x <= sent
        BY <1>0, <1>1, <3>6 DEF Exchanges
      <4>2. Cardinality(InSenders(sender', x)) = Cardinality(InSenders(sender, x))
        <5>1. Ind(v.exchange, {x}) = 0 /\ Ind(sender[s].exchange, {x}) = 0
          BY <2>2, <3>2, <3>6 DEF Ind
        <5> QED BY <2>8, <3>1, <5>1
      <4>3. Holders(x)' = Holders(x)
        BY <1>3, <1>4, <3>1, <4>2, HoldersAre
      <4> QED BY <3>3, <3>4, <4>1, <4>3
    <3> QED BY <3>5, <3>6
  <2>11. ProcessedOnce'
    BY <2>10 DEF ProcessedOnce
  <2> QED BY <1>2, <1>5, <2>5, <2>6, <2>7, <2>9, <2>11 DEF IInv, ShapeInv, CountInv
<1> QED BY <1>7, <1>8

\* The exchange of a call of send() is with that call alone, and open.
LEMMA SenderHolds ==
    ASSUME IInv, NEW s \in Senders, sender[s].step # "idle"
    PROVE  LET x == sender[s].exchange
           IN /\ x \in Exchanges /\ x \in 1 .. sent
              /\ Holders(x) \in Nat /\ Holders(x) + runs[x] = 1
              /\ runs[x] \in Nat
              /\ outcome[x] \in {"none", "accepted"}
<1> DEFINE x == sender[s].exchange
<1>0. TypeOK /\ SenderInv /\ ProcessedOnce
  BY DEF IInv, ShapeInv
<1>1. x \in 1 .. sent
  BY <1>0 DEF SenderInv
<1>2. x \in Exchanges
  BY <1>0, <1>1, BoundsAreNumbers DEF TypeOK, Exchanges
<1> HIDE DEF x
<1>3. /\ Cardinality(InThreads(pc, task, x)) \in Nat
      /\ Cardinality(Places(queues, x)) \in Nat
      /\ Cardinality(InSenders(sender, x)) \in Nat
      /\ IsFiniteSet(InSenders(sender, x))
  BY HeldFinite
<1>4. Cardinality(InSenders(sender, x)) # 0
  <2>1. s \in InSenders(sender, x)
    BY DEF InSenders, x
  <2> QED BY <1>3, <2>1, FS_EmptySet
<1>5. Holders(x) \in Nat /\ Holders(x) > 0
  BY <1>3, <1>4, HoldersAre
<1>6. runs[x] \in Nat
  BY <1>0, <1>2 DEF TypeOK
<1>7. Holders(x) + runs[x] =
        IF x <= sent /\ outcome[x] \in {"none", "accepted"} THEN 1 ELSE 0
  BY <1>0, <1>2 DEF ProcessedOnce
<1>8. outcome[x] \in {"none", "accepted"} /\ Holders(x) + runs[x] = 1
  BY <1>5, <1>6, <1>7
<1> QED BY <1>1, <1>2, <1>5, <1>6, <1>8 DEF x

\* The threads after enqueueRunnable has started one, or not, and notified one,
\* or not.
LEMMA EnqueueThreads ==
    ASSUME IInv, ~closed, NEW q \in StartThread, pc' = q \/ pc' \in Notify(q),
           threadCount' = IF q = pc THEN threadCount ELSE threadCount + 1,
           UNCHANGED <<closed, threadWaiting, task>>
    PROVE  /\ pc' \in [Threads -> ThreadStates]
           /\ threadCount' \in 0 .. MaxThreads
           /\ WaitingInv' /\ ThreadsCounted' /\ WaitingCounted' /\ TaskInv'
           /\ Cardinality(HasTask)' = Cardinality(HasTask)
           /\ \A x : InThreads(pc', task', x) = InThreads(pc, task, x)
<1>0. TypeOK /\ TaskInv /\ WaitingInv /\ ThreadsCounted /\ WaitingCounted
  BY DEF IInv, ShapeInv, CountInv
<1>1. /\ q \in [Threads -> ThreadStates]
      /\ NbIn(q, NotDead) = NbIn(pc, NotDead) + (IF q = pc THEN 0 ELSE 1)
      /\ NbIn(q, InWait) = NbIn(pc, InWait)
      /\ NbIn(q, WithTask) = NbIn(pc, WithTask)
      /\ \A u \in Threads : q[u] = "running" <=> pc[u] = "running"
      /\ q # pc => threadCount < MaxThreads
  BY <1>0, StartThreadIs
<1>2. /\ pc' \in [Threads -> ThreadStates]
      /\ NbIn(pc', NotDead) = NbIn(q, NotDead)
      /\ NbIn(pc', InWait) = NbIn(q, InWait)
      /\ NbIn(pc', WithTask) = NbIn(q, WithTask)
      /\ \A u \in Threads : pc'[u] = "running" <=> q[u] = "running"
  <2>1. CASE pc' = q
    BY <1>1, <2>1
  <2>2. CASE pc' \in Notify(q)
    BY <1>1, <2>2, NotifyIs
  <2> QED BY <2>1, <2>2
<1>3. \A u \in Threads : pc'[u] = "running" <=> pc[u] = "running"
  BY <1>1, <1>2
<1>4. /\ Cardinality(Alive) = NbIn(pc, NotDead) /\ Cardinality(Alive)' = NbIn(pc', NotDead)
      /\ Cardinality(InGetWait) = NbIn(pc, InWait)
      /\ Cardinality(InGetWait)' = NbIn(pc', InWait)
      /\ Cardinality(HasTask) = NbIn(pc, WithTask)
      /\ Cardinality(HasTask)' = NbIn(pc', WithTask)
      /\ NbIn(pc, NotDead) \in Nat
  BY <1>0, <1>2, CountsArePc, CountsArePcNext, NbInNat
<1>5. /\ Cardinality(Alive)' = Cardinality(Alive) + (IF q = pc THEN 0 ELSE 1)
      /\ Cardinality(Alive) \in Nat
      /\ Cardinality(InGetWait)' = Cardinality(InGetWait)
      /\ Cardinality(HasTask)' = Cardinality(HasTask)
  BY <1>1, <1>2, <1>4
<1>6. /\ MinThreads \in Nat /\ MaxThreads \in Nat /\ threadCount \in Nat
      /\ threadCount <= MaxThreads
  BY <1>0, BoundsAreNumbers DEF TypeOK
<1>7. threadCount' \in 0 .. MaxThreads
  BY <1>1, <1>6
<1>8. ThreadsCounted'
  BY <1>0, <1>1, <1>5, <1>6 DEF ThreadsCounted
<1>9. WaitingInv' /\ WaitingCounted'
  BY <1>0, <1>5 DEF WaitingInv, WaitingCounted
<1>10. TaskInv'
  BY <1>0, <1>3 DEF TaskInv
<1>11. \A x : InThreads(pc', task', x) = InThreads(pc, task, x)
  BY <1>3 DEF InThreads
<1> QED BY <1>2, <1>5, <1>7, <1>8, <1>9, <1>10, <1>11

\* The wait set and the notified threads.
LEMMA StartedNotSleeping ==
    ASSUME IInv, NEW q \in StartThread, pc' = q, queues' = queues
    PROVE  NoSleepBesideWork'
<1>0. TypeOK /\ NoSleepBesideWork
  BY DEF IInv, CountInv
<1>1. /\ q \in [Threads -> ThreadStates]
      /\ NbIn(q, {"waiting"}) = NbIn(pc, {"waiting"})
      /\ NbIn(q, {"notified"}) = NbIn(pc, {"notified"})
  BY <1>0, StartThreadIs
<1>2. /\ Cardinality(WaitSet) = NbIn(pc, {"waiting"})
      /\ Cardinality(Notified) = NbIn(pc, {"notified"})
      /\ Cardinality(WaitSet)' = NbIn(pc', {"waiting"})
      /\ Cardinality(Notified)' = NbIn(pc', {"notified"})
  BY <1>0, <1>1, CountsArePc, CountsArePcNext
<1>3. Queued' = Queued
  BY DEF Queued
<1> QED BY <1>0, <1>1, <1>2, <1>3, WaitSetIs, WaitSetIsNext DEF NoSleepBesideWork

LEMMA NotifiedNotSleeping ==
    ASSUME IInv, NEW q \in StartThread, pc' \in Notify(q), Queued' = Queued + 1
    PROVE  NoSleepBesideWork'
<1>0. TypeOK /\ NoSleepBesideWork
  BY DEF IInv, CountInv
<1>1. /\ q \in [Threads -> ThreadStates]
      /\ NbIn(q, {"waiting"}) = NbIn(pc, {"waiting"})
      /\ NbIn(q, {"notified"}) = NbIn(pc, {"notified"})
  BY <1>0, StartThreadIs
<1>2. /\ pc' \in [Threads -> ThreadStates]
      /\ \/ NbIn(pc', {"waiting"}) = 0
         \/ /\ NbIn(q, {"waiting"}) > 0
            /\ NbIn(pc', {"notified"}) = NbIn(q, {"notified"}) + 1
  BY <1>1, NotifyIs
<1>3. /\ Cardinality(WaitSet) = NbIn(pc, {"waiting"})
      /\ Cardinality(Notified) = NbIn(pc, {"notified"})
      /\ Cardinality(WaitSet)' = NbIn(pc', {"waiting"})
      /\ Cardinality(Notified)' = NbIn(pc', {"notified"})
      /\ NbIn(pc, {"notified"}) \in Nat /\ NbIn(pc, {"waiting"}) \in Nat
  BY <1>0, <1>2, CountsArePc, CountsArePcNext, NbInNat
<1>4. CASE NbIn(pc', {"waiting"}) = 0
  <2>1. WaitSet' = {}
    BY <1>3, <1>4, WaitSetIsNext
  <2> QED BY <2>1 DEF NoSleepBesideWork
<1>5. CASE /\ NbIn(q, {"waiting"}) > 0
           /\ NbIn(pc', {"notified"}) = NbIn(q, {"notified"}) + 1
  <2>1. Cardinality(WaitSet) # 0
    BY <1>1, <1>3, <1>5
  <2>2. WaitSet # {}
    BY <1>0, <2>1, WaitSetIs
  <2>3. Queued \in Nat /\ Queued <= Cardinality(Notified)
    BY <1>0, <2>2, QueuedIs DEF NoSleepBesideWork
  <2>4. (Queued <= Cardinality(Notified))'
    BY <1>1, <1>3, <1>5, <2>3
  <2> QED BY <2>4 DEF NoSleepBesideWork
<1> QED BY <1>2, <1>4, <1>5

\* enqueueRunnable fails: the sender has still to give the task back.
LEMMA EnqueueFails ==
    ASSUME IInv, NEW s \in Senders, sender[s].step = "enqueue",
           sender' = [sender EXCEPT ![s].step = "putBack"],
           UNCHANGED <<queues, outcome, runnableCount, sent, runs>>,
           \A x : InThreads(pc', task', x) = InThreads(pc, task, x)
    PROVE  /\ sender' \in [Senders -> [step : {"idle", "enqueue", "putBack"},
                                       exchange : Exchanges \cup {None},
                                       priority : Priorities]]
           /\ Cardinality(Sending)' = Cardinality(Sending)
           /\ QueueInv' /\ SenderInv' /\ OutcomeInv' /\ ProcessedOnce'
<1> DEFINE v == [sender[s] EXCEPT !.step = "putBack"]
<1>0. TypeOK /\ SenderInv
  BY DEF IInv, ShapeInv
<1>1. Take(s, v)
  BY <1>0 DEF Take, TypeOK
<1>2. /\ v.step = "putBack" /\ v.exchange = sender[s].exchange
      /\ v \in [step : {"idle", "enqueue", "putBack"},
                exchange : Exchanges \cup {None}, priority : Priorities]
  BY <1>0 DEF TypeOK
<1> HIDE DEF v
<1>3. /\ sender' \in [Senders -> [step : {"idle", "enqueue", "putBack"},
                                  exchange : Exchanges \cup {None},
                                  priority : Priorities]]
      /\ sender'[s] = v
      /\ \A u \in Senders : u # s => sender'[u] = sender[u]
  BY <1>0, <1>1, <1>2 DEF TypeOK, Take
<1>4. /\ Cardinality(Sending) \in Nat
      /\ Cardinality(Sending)' =
           Cardinality(Sending) + Ind(v.step, Busy) - Ind(sender[s].step, Busy)
  BY <1>0, <1>1, <1>2, TakeCounts
<1>5. Cardinality(Sending)' = Cardinality(Sending)
  BY <1>2, <1>4 DEF Ind, Busy
<1>6. QueueInv' /\ OutcomeInv'
  BY DEF IInv, ShapeInv, QueueInv, OutcomeInv
<1>7. SenderInv'
  BY <1>0, <1>2, <1>3 DEF SenderInv
<1>8. ASSUME NEW x \in Exchanges PROVE Holders(x)' = Holders(x)
  <2>1. InSenders(sender', x) = InSenders(sender, x)
    BY <1>2, <1>3 DEF InSenders
  <2>2. Places(queues', x) = Places(queues, x)
    BY DEF Places
  <2>3. InThreads(pc', task', x) = InThreads(pc, task, x)
    OBVIOUS
  <2>4. /\ Holders(x) = Cardinality(InSenders(sender, x))
             + Cardinality(Places(queues, x)) + Cardinality(InThreads(pc, task, x))
        /\ Holders(x)' = Cardinality(InSenders(sender', x))
             + Cardinality(Places(queues', x)) + Cardinality(InThreads(pc', task', x))
    BY HoldersAre
  <2> QED BY <2>1, <2>2, <2>3, <2>4
<1>9. ProcessedOnce'
  BY <1>8 DEF IInv, ProcessedOnce
<1> QED BY <1>3, <1>5, <1>6, <1>7, <1>9

\* enqueueRunnable succeeds: the exchange goes from the sender to the queue.
LEMMA EnqueueSucceeds ==
    ASSUME IInv, NEW s \in Senders, sender[s].step = "enqueue",
           NEW x, x = sender[s].exchange, NEW p, p = sender[s].priority,
           Len(queues[p]) < QueueSize,
           queues' = [queues EXCEPT ![p] = Append(@, x)],
           outcome' = [outcome EXCEPT ![x] = "accepted"],
           sender' = [sender EXCEPT ![s] = Idle],
           UNCHANGED <<sent, runs>>,
           \A y : InThreads(pc', task', y) = InThreads(pc, task, y)
    PROVE  /\ sender' \in [Senders -> [step : {"idle", "enqueue", "putBack"},
                                       exchange : Exchanges \cup {None},
                                       priority : Priorities]]
           /\ queues' \in [Priorities -> Seq(Exchanges)]
           /\ outcome' \in [Exchanges -> Outcomes]
           /\ Cardinality(Sending) \in Nat
           /\ Cardinality(Sending)' = Cardinality(Sending) - 1
           /\ Queued \in Nat /\ Queued' = Queued + 1
           /\ QueueInv' /\ SenderInv' /\ OutcomeInv' /\ ProcessedOnce'
<1>0. TypeOK /\ SenderInv /\ QueueInv /\ OutcomeInv
  BY DEF IInv, ShapeInv
<1>1. /\ x \in Exchanges /\ x \in 1 .. sent /\ p \in Priorities
      /\ runs[x] \in Nat /\ outcome[x] \in {"none", "accepted"}
  <2>1. /\ sender[s].exchange \in Exchanges /\ sender[s].exchange \in 1 .. sent
        /\ runs[sender[s].exchange] \in Nat
        /\ outcome[sender[s].exchange] \in {"none", "accepted"}
    BY SenderHolds
  <2>2. sender[s].priority \in Priorities
    BY <1>0 DEF TypeOK
  <2> QED BY <2>1, <2>2
<1>2. /\ Take(s, Idle) /\ Idle.step = "idle" /\ Idle.exchange = None
      /\ Idle \in [step : {"idle", "enqueue", "putBack"},
                   exchange : Exchanges \cup {None}, priority : Priorities]
  BY DEF Take, Idle, NORMAL, Priorities
<1>3. /\ sender' \in [Senders -> [step : {"idle", "enqueue", "putBack"},
                                  exchange : Exchanges \cup {None},
                                  priority : Priorities]]
      /\ sender'[s] = Idle
      /\ \A u \in Senders : u # s => sender'[u] = sender[u]
  BY <1>0, <1>2 DEF TypeOK
<1>4. /\ Cardinality(Sending) \in Nat
      /\ Cardinality(Sending)' =
           Cardinality(Sending) + Ind(Idle.step, Busy) - Ind(sender[s].step, Busy)
      /\ \A y : Cardinality(InSenders(sender', y)) = Cardinality(InSenders(sender, y))
                  + Ind(Idle.exchange, {y}) - Ind(sender[s].exchange, {y})
  BY <1>0, <1>2, TakeCounts
<1>5. Cardinality(Sending)' = Cardinality(Sending) - 1
  BY <1>2, <1>4 DEF Ind, Busy
<1>6. /\ queues[p] \in Seq(Exchanges)
      /\ queues' = [queues EXCEPT ![p] = Append(queues[p], x)]
      /\ queues' \in [Priorities -> Seq(Exchanges)]
      /\ Append(queues[p], x) \in Seq(Exchanges)
      /\ Len(Append(queues[p], x)) = Len(queues[p]) + 1
      /\ Len(queues[p]) \in Nat
      /\ queues'[p] = Append(queues[p], x)
      /\ \A r \in Priorities : r # p => queues'[r] = queues[r]
  BY <1>0, <1>1 DEF TypeOK
<1>7. /\ Queued \in Nat /\ Queued' \in Nat
      /\ Queued' = Queued + Len(Append(queues[p], x)) - Len(queues[p])
  BY <1>0, <1>1, <1>6, QueuedChange
<1>8. Queued' = Queued + 1
  BY <1>6, <1>7
<1>9. QueueInv'
  <2>1. Len(queues'[p]) <= QueueSize
    BY <1>6, BoundsAreNumbers
  <2> QED BY <1>0, <1>6, <2>1 DEF QueueInv
<1>10. SenderInv'
  BY <1>0, <1>2, <1>3 DEF SenderInv
<1>11. /\ outcome' \in [Exchanges -> Outcomes]
       /\ outcome'[x] = "accepted"
       /\ \A y \in Exchanges : y # x => outcome'[y] = outcome[y]
  BY <1>0, <1>1 DEF TypeOK, Outcomes
<1>12. OutcomeInv'
  <2>1. ~(x > sent)
    BY <1>0, <1>1, BoundsAreNumbers DEF TypeOK
  <2> QED BY <1>0, <1>11, <2>1 DEF OutcomeInv
<1>13. ASSUME NEW y \in Exchanges
       PROVE  (Holders(y) + runs[y])' =
                IF y <= sent' /\ outcome'[y] \in {"none", "accepted"} THEN 1 ELSE 0
  <2>1. /\ Cardinality(InThreads(pc, task, y)) \in Nat
        /\ Cardinality(Places(queues, y)) \in Nat
        /\ Cardinality(InSenders(sender, y)) \in Nat
    BY HeldFinite
  <2>2. Cardinality(Places(queues', y)) = Cardinality(Places(queues, y)) + Ind(x, {y})
    BY <1>0, <1>1, PlacesAppend
  <2>3. Cardinality(InSenders(sender', y)) = Cardinality(InSenders(sender, y)) - Ind(x, {y})
    <3>1. y # None
      BY NoneAssumption, BoundsAreNumbers DEF Exchanges
    <3>2. Ind(Idle.exchange, {y}) = 0
      BY <1>2, <3>1 DEF Ind
    <3>3. Ind(sender[s].exchange, {y}) = Ind(x, {y}) /\ Ind(x, {y}) \in Int
      BY DEF Ind
    <3>4. Cardinality(InSenders(sender', y)) = Cardinality(InSenders(sender, y))
            + Ind(Idle.exchange, {y}) - Ind(sender[s].exchange, {y})
      BY <1>4
    <3> QED BY <2>1, <3>2, <3>3, <3>4
  <2>4. Holders(y)' = Holders(y)
    <3>1. Ind(x, {y}) \in Int
      BY DEF Ind
    <3>2. InThreads(pc', task', y) = InThreads(pc, task, y)
      OBVIOUS
    <3>3. /\ Holders(y) = Cardinality(InSenders(sender, y))
               + Cardinality(Places(queues, y)) + Cardinality(InThreads(pc, task, y))
          /\ Holders(y)' = Cardinality(InSenders(sender', y))
               + Cardinality(Places(queues', y)) + Cardinality(InThreads(pc', task', y))
      BY HoldersAre
    <3> QED BY <2>1, <2>2, <2>3, <3>1, <3>2, <3>3
  <2>5. Holders(y) + runs[y] =
          IF y <= sent /\ outcome[y] \in {"none", "accepted"} THEN 1 ELSE 0
    BY DEF IInv, ProcessedOnce
  <2>6. outcome'[y] \in {"none", "accepted"} <=> outcome[y] \in {"none", "accepted"}
    BY <1>1, <1>11
  <2> QED BY <2>4, <2>5, <2>6
<1>14. ProcessedOnce'
  BY <1>13 DEF ProcessedOnce
<1> QED BY <1>3, <1>4, <1>5, <1>6, <1>7, <1>8, <1>9, <1>10, <1>11, <1>12, <1>14

LEMMA EnqueueInv ==
    ASSUME IInv, NEW s \in Senders, Enqueue(s)
    PROVE  IInv'
<1> DEFINE x == sender[s].exchange
           p == sender[s].priority
<1>0. /\ TypeOK /\ ClosingInv /\ RunnablesConserved
      /\ UNCHANGED <<runnableCount, threadWaiting, closed, task, end, sent, runs,
                     destroyer>>
      /\ sender[s].step = "enqueue"
  BY DEF IInv, ShapeInv, CountInv, Enqueue
<1>1. ClosingInv'
  BY <1>0 DEF ClosingInv
<1>2. CASE closed
  <2>1. /\ sender' = [sender EXCEPT ![s].step = "putBack"]
        /\ UNCHANGED <<queues, threadCount, pc, outcome>>
    BY <1>2 DEF Enqueue
  <2>2. /\ Alive' = Alive /\ WaitSet' = WaitSet /\ Notified' = Notified
        /\ InGetWait' = InGetWait /\ HasTask' = HasTask
        /\ \A y : InThreads(pc', task', y) = InThreads(pc, task, y)
    BY <1>0, <2>1, ThreadsUnchanged
  <2>3. /\ sender' \in [Senders -> [step : {"idle", "enqueue", "putBack"},
                                    exchange : Exchanges \cup {None},
                                    priority : Priorities]]
        /\ Cardinality(Sending)' = Cardinality(Sending)
        /\ QueueInv' /\ SenderInv' /\ OutcomeInv' /\ ProcessedOnce'
    BY <1>0, <2>1, <2>2, EnqueueFails
  <2>4. TypeOK'
    BY <1>0, <2>1, <2>3 DEF TypeOK
  <2>5. TaskInv'
    BY <1>0, <2>1 DEF IInv, ShapeInv, TaskInv
  <2>6. Queued' = Queued
    BY <2>1 DEF Queued
  <2>7. CountInv'
    BY <1>0, <2>1, <2>2, <2>3, <2>6
    DEF IInv, CountInv, WaitingInv, RunnablesConserved, ThreadsCounted, WaitingCounted,
        NoSleepBesideWork
  <2> QED BY <1>1, <2>3, <2>4, <2>5, <2>7 DEF IInv, ShapeInv
<1>3. CASE ~closed
  <2>1. PICK q \in StartThread :
          /\ threadCount' = IF q = pc THEN threadCount ELSE threadCount + 1
          /\ IF Len(queues[p]) < QueueSize
             THEN /\ queues' = [queues EXCEPT ![p] = Append(@, x)]
                  /\ pc' \in Notify(q)
                  /\ outcome' = [outcome EXCEPT ![x] = "accepted"]
                  /\ sender' = [sender EXCEPT ![s] = Idle]
             ELSE /\ pc' = q
                  /\ sender' = [sender EXCEPT ![s].step = "putBack"]
                  /\ UNCHANGED <<queues, outcome>>
    BY <1>3 DEF Enqueue
  <2>2. pc' = q \/ pc' \in Notify(q)
    BY <2>1
  <2>3. /\ pc' \in [Threads -> ThreadStates]
        /\ threadCount' \in 0 .. MaxThreads
        /\ WaitingInv' /\ ThreadsCounted' /\ WaitingCounted' /\ TaskInv'
        /\ Cardinality(HasTask)' = Cardinality(HasTask)
        /\ \A y : InThreads(pc', task', y) = InThreads(pc, task, y)
    BY <1>0, <1>3, <2>1, <2>2, EnqueueThreads
  <2>4. CASE Len(queues[p]) < QueueSize
    <3>0. /\ queues' = [queues EXCEPT ![p] = Append(@, x)]
          /\ pc' \in Notify(q)
          /\ outcome' = [outcome EXCEPT ![x] = "accepted"]
          /\ sender' = [sender EXCEPT ![s] = Idle]
      BY <2>1, <2>4
    <3>1. /\ sender' \in [Senders -> [step : {"idle", "enqueue", "putBack"},
                                      exchange : Exchanges \cup {None},
                                      priority : Priorities]]
          /\ queues' \in [Priorities -> Seq(Exchanges)]
          /\ outcome' \in [Exchanges -> Outcomes]
          /\ Cardinality(Sending) \in Nat
          /\ Cardinality(Sending)' = Cardinality(Sending) - 1
          /\ Queued \in Nat /\ Queued' = Queued + 1
          /\ QueueInv' /\ SenderInv' /\ OutcomeInv' /\ ProcessedOnce'
      BY <1>0, <2>3, <2>4, <3>0, EnqueueSucceeds
    <3>2. TypeOK'
      BY <1>0, <2>3, <3>1 DEF TypeOK
    <3>3. NoSleepBesideWork'
      BY <3>0, <3>1, NotifiedNotSleeping
    <3>4. RunnablesConserved'
      <4>1. Cardinality(HasTask) \in Nat /\ runnableCount \in Nat
        BY <1>0, CountsArePc, NbInNat, BoundsAreNumbers DEF TypeOK
      <4> QED BY <1>0, <2>3, <3>1, <4>1 DEF RunnablesConserved
    <3> QED BY <1>1, <2>3, <3>1, <3>2, <3>3, <3>4 DEF IInv, ShapeInv, CountInv
  <2>5. CASE ~(Len(queues[p]) < QueueSize)
    <3>0. /\ pc' = q
          /\ sender' = [sender EXCEPT ![s].step = "putBack"]
          /\ UNCHANGED <<queues, outcome>>
      BY <2>1, <2>5
    <3>1. /\ sender' \in [Senders -> [step : {"idle", "enqueue", "putBack"},
                                      exchange : Exchanges \cup {None},
                                      priority : Priorities]]
          /\ Cardinality(Sending)' = Cardinality(Sending)
          /\ QueueInv' /\ SenderInv' /\ OutcomeInv' /\ ProcessedOnce'
      BY <1>0, <2>3, <3>0, EnqueueFails
    <3>2. TypeOK'
      BY <1>0, <2>3, <3>0, <3>1 DEF TypeOK
    <3>3. NoSleepBesideWork'
      BY <3>0, StartedNotSleeping
    <3>4. RunnablesConserved'
      <4>1. Queued' = Queued
        BY <3>0 DEF Queued
      <4> QED BY <1>0, <2>3, <3>1, <4>1 DEF RunnablesConserved
    <3> QED BY <1>1, <2>3, <3>1, <3>2, <3>3, <3>4 DEF IInv, ShapeInv, CountInv
  <2> QED BY <2>4, <2>5
<1> QED BY <1>2, <1>3

LEMMA PutBackInv ==
    ASSUME IInv, NEW s \in Senders, PutBack(s)
    PROVE  IInv'
<1> DEFINE x == sender[s].exchange
<1>0. /\ TypeOK /\ ClosingInv /\ QueueInv /\ SenderInv /\ TaskInv /\ OutcomeInv
      /\ RunnablesConserved
      /\ UNCHANGED <<queues, threadCount, threadWaiting, closed, pc, task, end,
                     sent, runs, destroyer>>
      /\ sender[s].step = "putBack"
      /\ runnableCount' = runnableCount + 1
      /\ outcome' = [outcome EXCEPT ![x] = "refused"]
  BY DEF IInv, ShapeInv, CountInv, PutBack
<1>1. /\ x \in Exchanges /\ x \in 1 .. sent
      /\ Holders(x) \in Nat /\ Holders(x) + runs[x] = 1 /\ runs[x] \in Nat
  BY <1>0, SenderHolds
<1>2. /\ Take(s, Idle) /\ Idle.step = "idle" /\ Idle.exchange = None
      /\ Idle \in [step : {"idle", "enqueue", "putBack"},
                   exchange : Exchanges \cup {None}, priority : Priorities]
  BY DEF PutBack, Take, Idle, NORMAL, Priorities
<1>3. /\ sender' \in [Senders -> [step : {"idle", "enqueue", "putBack"},
                                  exchange : Exchanges \cup {None},
                                  priority : Priorities]]
      /\ sender'[s] = Idle
      /\ \A u \in Senders : u # s => sender'[u] = sender[u]
  BY <1>0, <1>2 DEF TypeOK, Take
<1>4. /\ Cardinality(Sending) \in Nat /\ Cardinality(Sending)' \in Nat
      /\ Cardinality(Sending)' =
           Cardinality(Sending) + Ind(Idle.step, Busy) - Ind(sender[s].step, Busy)
      /\ \A y : Cardinality(InSenders(sender', y)) = Cardinality(InSenders(sender, y))
                  + Ind(Idle.exchange, {y}) - Ind(sender[s].exchange, {y})
  BY <1>0, <1>2, TakeCounts
<1>5. Cardinality(Sending)' = Cardinality(Sending) - 1
  BY <1>0, <1>2, <1>4 DEF Ind, Busy
<1>6. /\ Alive' = Alive /\ WaitSet' = WaitSet /\ Notified' = Notified
      /\ InGetWait' = InGetWait /\ HasTask' = HasTask
      /\ \A y : InThreads(pc', task', y) = InThreads(pc, task, y)
  BY <1>0, ThreadsUnchanged
<1>7. /\ Queued' = Queued /\ Queued \in Nat
      /\ \A y : Places(queues', y) = Places(queues, y)
  BY <1>0, QueuedIs DEF Queued, Places
<1>8. WaitingInv' /\ ThreadsCounted' /\ WaitingCounted' /\ NoSleepBesideWork'
  BY <1>0, <1>6, <1>7
  DEF IInv, CountInv, WaitingInv, ThreadsCounted, WaitingCounted, NoSleepBesideWork
<1>9. RunnablesConserved' /\ runnableCount' \in 0 .. PoolSize
  <2>1. Cardinality(HasTask) \in Nat /\ runnableCount \in Nat /\ PoolSize \in Nat
    BY <1>0, CountsArePc, NbInNat, BoundsAreNumbers DEF TypeOK
  <2> QED BY <1>0, <1>4, <1>5, <1>6, <1>7, <2>1 DEF RunnablesConserved
<1>10. /\ outcome' \in [Exchanges -> Outcomes]
       /\ outcome'[x] = "refused"
       /\ \A y \in Exchanges : y # x => outcome'[y] = outcome[y]
  BY <1>0, <1>1 DEF TypeOK, Outcomes
<1>11. TypeOK'
  BY <1>0, <1>3, <1>9, <1>10 DEF TypeOK
<1>12. ClosingInv' /\ QueueInv' /\ TaskInv'
  BY <1>0 DEF ClosingInv, QueueInv, TaskInv
<1>13. SenderInv'
  BY <1>0, <1>2, <1>3 DEF SenderInv
<1>14. OutcomeInv'
  <2>1. ~(x > sent)
    BY <1>0, <1>1, BoundsAreNumbers DEF TypeOK
  <2> HIDE DEF x
  <2> QED BY <1>0, <1>10, <2>1 DEF OutcomeInv
<1> HIDE DEF x
<1>15. ASSUME NEW y \in Exchanges
       PROVE  (Holders(y) + runs[y])' =
                IF y <= sent' /\ outcome'[y] \in {"none", "accepted"} THEN 1 ELSE 0
  <2>1. /\ Cardinality(InThreads(pc, task, y)) \in Nat
        /\ Cardinality(Places(queues, y)) \in Nat
        /\ Cardinality(InSenders(sender, y)) \in Nat
    BY HeldFinite
  <2>2. Cardinality(InSenders(sender', y)) = Cardinality(InSenders(sender, y)) - Ind(x, {y})
    <3>1. y # None
      BY NoneAssumption, BoundsAreNumbers DEF Exchanges
    <3>2. Ind(Idle.exchange, {y}) = 0
      BY <1>2, <3>1 DEF Ind
    <3> QED BY <1>4, <2>1, <3>2 DEF Ind, x
  <2>3. Holders(y)' = Holders(y) - Ind(x, {y})
    <3>1. Ind(x, {y}) \in Int
      BY DEF Ind
    <3>2. InThreads(pc', task', y) = InThreads(pc, task, y)
      BY <1>6
    <3>3. Places(queues', y) = Places(queues, y)
      BY <1>7
    <3> QED BY <2>1, <2>2, <3>1, <3>2, <3>3, HoldersAre
  <2>4. Holders(y) + runs[y] =
          IF y <= sent /\ outcome[y] \in {"none", "accepted"} THEN 1 ELSE 0
    BY DEF IInv, ProcessedOnce
  <2>5. Holders(y) \in Nat /\ runs[y] \in Nat /\ runs'[y] = runs[y] /\ sent' = sent
    BY <1>0, <2>1, HoldersAre DEF TypeOK
  <2>6. CASE y = x
    <3>1. outcome'[y] \notin {"none", "accepted"}
      BY <1>10, <2>6
    <3>2. Ind(x, {y}) = 1
      BY <2>6 DEF Ind
    <3> QED BY <1>1, <2>3, <2>5, <2>6, <3>1, <3>2
  <2>7. CASE y # x
    <3>1. outcome'[y] = outcome[y]
      BY <1>10, <2>7
    <3>2. Ind(x, {y}) = 0
      BY <2>7 DEF Ind
    <3> QED BY <2>3, <2>4, <2>5, <3>1, <3>2
  <2> QED BY <2>6, <2>7
<1>16. ProcessedOnce'
  BY <1>15 DEF ProcessedOnce
<1> QED BY <1>8, <1>9, <1>11, <1>12, <1>13, <1>14, <1>16 DEF IInv, ShapeInv, CountInv

-----------------------------------------------------------------------------
(* destroy() *)

\* Closing, telling a thread to stop, and the end of destroy() touch no
\* exchange and move no thread.
LEMMA DestroyInv ==
    ASSUME IInv, UNCHANGED <<queues, runnableCount, threadWaiting, pc, task, sender,
                             sent, outcome, runs>>,
           closed', threadCount' \in 0 .. MaxThreads, end' \subseteq Threads,
           destroyer' \in {"none", "stopping", "destroyed"}, closed' \in BOOLEAN
    PROVE  IInv'
<1>0. TypeOK
  BY DEF IInv
<1>1. TypeOK'
  BY <1>0 DEF TypeOK
<1>2. ShapeInv'
  BY DEF IInv, ShapeInv, ClosingInv, QueueInv, SenderInv, TaskInv, OutcomeInv
<1>3. /\ Alive' = Alive /\ WaitSet' = WaitSet /\ Notified' = Notified
      /\ InGetWait' = InGetWait /\ HasTask' = HasTask
      /\ \A x : InThreads(pc', task', x) = InThreads(pc, task, x)
  BY ThreadsUnchanged
<1>4. Queued' = Queued /\ Cardinality(Sending)' = Cardinality(Sending)
  BY DEF Queued, Sending
<1>5. CountInv'
  BY <1>3, <1>4
  DEF IInv, CountInv, WaitingInv, RunnablesConserved, ThreadsCounted, WaitingCounted,
      NoSleepBesideWork
<1>6. ProcessedOnce'
  <2>1. ASSUME NEW x \in Exchanges PROVE Holders(x)' = Holders(x)
    BY DEF Holders
  <2> QED BY <2>1 DEF IInv, ProcessedOnce
<1> QED BY <1>1, <1>2, <1>5, <1>6 DEF IInv

LEMMA CloseInv ==
    ASSUME IInv, Close
    PROVE  IInv'
<1>1. TypeOK
  BY DEF IInv
<1> QED BY <1>1, DestroyInv DEF Close, TypeOK

LEMMA StopThreadInv ==
    ASSUME IInv, NEW t \in Threads, StopThread(t)
    PROVE  IInv'
<1>1. TypeOK /\ ClosingInv
  BY DEF IInv, ShapeInv
<1>2. closed /\ closed' = closed
  BY <1>1 DEF StopThread, ClosingInv
<1> QED BY <1>1, <1>2, DestroyInv DEF StopThread, TypeOK

LEMMA DestroyedInv ==
    ASSUME IInv, Destroyed
    PROVE  IInv'
<1>1. TypeOK /\ ClosingInv
  BY DEF IInv, ShapeInv
<1>2. closed /\ closed' = closed
  BY <1>1 DEF Destroyed, ClosingInv
<1>3. 0 \in 0 .. MaxThreads
  BY BoundsAreNumbers
<1> QED BY <1>1, <1>2, <1>3, DestroyInv DEF Destroyed, TypeOK

-----------------------------------------------------------------------------
(* The invariant holds *)

LEMMA InitInv ==
    Init => IInv
<1> SUFFICES ASSUME Init PROVE IInv
  OBVIOUS
<1>0. /\ queues = [p \in Priorities |-> <<>>] /\ runnableCount = PoolSize
      /\ threadCount = MinThreads /\ threadWaiting = 0 /\ closed = FALSE
      /\ task = [t \in Threads |-> None] /\ end = {}
      /\ sender = [s \in Senders |-> Idle] /\ sent = 0
      /\ outcome = [x \in Exchanges |-> "none"] /\ runs = [x \in Exchanges |-> 0]
      /\ destroyer = "none"
  BY DEF Init
<1>1. PICK T \in SUBSET Threads :
        /\ Cardinality(T) = MinThreads
        /\ pc = [t \in Threads |-> IF t \in T THEN "loop" ELSE "dead"]
  BY DEF Init
<1>2. pc \in [Threads -> ThreadStates] /\ \A t \in Threads : pc[t] \in {"loop", "dead"}
  BY <1>1 DEF ThreadStates
<1>3. /\ Idle \in [step : {"idle", "enqueue", "putBack"},
                   exchange : Exchanges \cup {None}, priority : Priorities]
      /\ Idle.step = "idle" /\ Idle.exchange = None
  BY DEF Idle, NORMAL, Priorities
<1>4. TypeOK
  <2>1. <<>> \in Seq(Exchanges)
    OBVIOUS
  <2>2. queues \in [Priorities -> Seq(Exchanges)]
    BY <1>0, <2>1
  <2>3. runnableCount \in 0 .. PoolSize /\ threadCount \in 0 .. MaxThreads
    BY <1>0, BoundsAreNumbers
  <2>4. sent \in 0 .. MaxSends
    BY <1>0, BoundsAreNumbers
  <2>5. /\ task \in [Threads -> Exchanges \cup {None}]
        /\ sender \in [Senders -> [step : {"idle", "enqueue", "putBack"},
                                   exchange : Exchanges \cup {None},
                                   priority : Priorities]]
        /\ outcome \in [Exchanges -> Outcomes] /\ runs \in [Exchanges -> Nat]
    BY <1>0, <1>3 DEF Outcomes
  <2> QED BY <1>0, <1>2, <2>2, <2>3, <2>4, <2>5 DEF TypeOK
<1>5. ShapeInv
  <2>1. QueueInv
    BY <1>0, BoundsAreNumbers DEF QueueInv
  <2>2. ClosingInv /\ SenderInv /\ TaskInv /\ OutcomeInv
    BY <1>0, <1>2, <1>3 DEF ClosingInv, SenderInv, TaskInv, OutcomeInv
  <2> QED BY <2>1, <2>2 DEF ShapeInv
<1>6. /\ Alive = T /\ WaitSet = {} /\ Notified = {} /\ InGetWait = {} /\ HasTask = {}
      /\ Sending = {}
  <2>1. Alive = T
    BY <1>1 DEF Alive
  <2>2. WaitSet = {} /\ Notified = {} /\ InGetWait = {} /\ HasTask = {}
    BY <1>2 DEF WaitSet, Notified, InGetWait, HasTask
  <2>3. Sending = {}
    BY <1>0, <1>3 DEF Sending
  <2> QED BY <2>1, <2>2, <2>3
<1>7. NoneQueued
  BY <1>0 DEF NoneQueued
<1>8. Queued = 0
  BY <1>4, <1>7, QueuedIs
<1>9. Cardinality({}) = 0
  BY FS_EmptySet
<1>10. CountInv
  BY <1>0, <1>1, <1>6, <1>8, <1>9, BoundsAreNumbers
  DEF CountInv, WaitingInv, RunnablesConserved, ThreadsCounted, WaitingCounted,
      NoSleepBesideWork
<1>11. ASSUME NEW x \in Exchanges PROVE Holders(x) = 0
  <2>1. x # None
    BY NoneAssumption, BoundsAreNumbers DEF Exchanges
  <2>2. InSenders(sender, x) = {}
    BY <1>0, <1>3, <2>1 DEF InSenders
  <2>3. InThreads(pc, task, x) = {}
    BY <1>2 DEF InThreads
  <2>4. Places(queues, x) = {}
    <3>1. \A p \in Priorities : Len(queues[p]) = 0
      BY <1>0
    <3>2. ASSUME NEW pi \in Places(queues, x) PROVE FALSE
      <4>1. pi[1] \in Priorities /\ pi[2] \in 1 .. QueueSize /\ pi[2] <= Len(queues[pi[1]])
        BY DEF Places
      <4> QED BY <3>1, <4>1, BoundsAreNumbers
    <3> QED BY <3>2
  <2>5. Holders(x) = Cardinality(InSenders(sender, x))
             + Cardinality(Places(queues, x)) + Cardinality(InThreads(pc, task, x))
    BY HoldersAre
  <2> QED BY <1>9, <2>2, <2>3, <2>4, <2>5
<1>12. ProcessedOnce
  <2>1. ASSUME NEW x \in Exchanges PROVE ~(x <= sent) /\ runs[x] = 0
    BY <1>0, BoundsAreNumbers DEF Exchanges
  <2> QED BY <1>11, <2>1 DEF ProcessedOnce
<1> QED BY <1>4, <1>5, <1>10, <1>12 DEF IInv

LEMMA NextInv ==
    IInv /\ [Next]_vars => IInv'
<1> SUFFICES ASSUME IInv, [Next]_vars PROVE IInv'
  OBVIOUS
<1>1. CASE UNCHANGED vars
  <2>1. TypeOK' /\ ShapeInv'
    BY <1>1 DEF IInv, vars, TypeOK, ShapeInv, ClosingInv, QueueInv, SenderInv, TaskInv,
        OutcomeInv
  <2>2. /\ Alive' = Alive /\ WaitSet' = WaitSet /\ Notified' = Notified
        /\ InGetWait' = InGetWait /\ HasTask' = HasTask
        /\ Queued' = Queued /\ Sending' = Sending
    BY <1>1 DEF vars, Alive, WaitSet, Notified, InGetWait, HasTask, Queued, Sending
  <2>3. CountInv'
    BY <1>1, <2>2
    DEF vars, IInv, CountInv, WaitingInv, RunnablesConserved, ThreadsCounted,
        WaitingCounted, NoSleepBesideWork
  <2>4. ASSUME NEW x \in Exchanges PROVE Holders(x)' = Holders(x)
    BY <1>1 DEF vars, Holders
  <2>5. ProcessedOnce'
    BY <1>1, <2>4 DEF vars, IInv, ProcessedOnce
  <2> QED BY <2>1, <2>3, <2>5 DEF IInv
<1>2. CASE \E s \in Senders : SenderStep(s) \/ \E p \in Priorities : Peek(s, p)
  BY <1>2, PeekInv, EnqueueInv, PutBackInv DEF SenderStep
<1>3. CASE \E t \in Threads : ThreadStep(t) \/ WakeUp(t)
  BY <1>3, GetRunnableInv, ResumeInv, RunInv, PutRunnableInv, RemoveThreadInv,
     EndThreadInv, WakeUpInv DEF ThreadStep
<1>4. CASE Close
  BY <1>4, CloseInv
<1>5. CASE Destroy
  BY <1>5, StopThreadInv, DestroyedInv DEF Destroy
<1> QED BY <1>1, <1>2, <1>3, <1>4, <1>5 DEF Next

LEMMA Invariance ==
    Spec => []IInv
BY InitInv, NextInv, PTL DEF Spec

\* The variables have their types; in particular the number of free tasks stays
\* within the array of ThreadPoolExecutor and the number of threads within the
\* configured maximum, in every interleaving of senders, threads and destroy().
THEOREM TypeCorrect ==
    Spec => []TypeOK
<1>1. IInv => TypeOK
  BY DEF IInv
<1> QED BY <1>1, Invariance, PTL

\* peekRunnable and putRunnable lose no BackendRunnable and put none back
\* twice: every one is free, with a send(), queued or with a thread.
THEOREM TasksConserved ==
    Spec => []RunnablesConserved
<1>1. IInv => RunnablesConserved
  BY DEF IInv, CountInv
<1> QED BY <1>1, Invariance, PTL

\* Until destroy(), threadCount is the number of threads, between the minimum
\* and the maximum, whatever enqueueRunnable and removeThread do in between.
THEOREM ThreadCountExact ==
    Spec => []ThreadsCounted
<1>1. IInv => ThreadsCounted
  BY DEF IInv, CountInv
<1> QED BY <1>1, Invariance, PTL

\* Until destroy(), threadWaiting is the number of threads in getRunnable's
\* wait, so enqueueRunnable starts a thread only when none is there.
THEOREM WaitingCountExact ==
    Spec => []WaitingCounted
<1>1. IInv => WaitingCounted
  BY DEF IInv, CountInv
<1> QED BY <1>1, Invariance, PTL

\* An exchange that send() accepted is in exactly one place until BackendRunnable
\* has run, then in none: it is never lost and never processed twice.
THEOREM ExchangeProcessedOnce ==
    Spec => []ProcessedOnce
<1>1. IInv => ProcessedOnce
  BY DEF IInv
<1> QED BY <1>1, Invariance, PTL

\* The notify() of enqueueRunnable is never lost: while a thread waits, every
\* queued exchange has a notified thread on its way.
THEOREM NobodySleepsBesideWork ==
    Spec => []NoSleepBesideWork
<1>1. IInv => NoSleepBesideWork
  BY DEF IInv, CountInv
<1> QED BY <1>1, Invariance, PTL

=============================================================================
