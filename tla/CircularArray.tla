----------------------------- MODULE CircularArray -----------------------------
(***************************************************************************)
(* util/concurrent/CircularArray.java and ExternalCircularArray.java: a    *)
(* ring buffer between producers and consumers, the same code once with its *)
(* own monitor and once under the monitor of its owner (ThreadPoolExecutor).*)
(* The array has one slot more than the capacity, so that readIndex =       *)
(* writeIndex means empty only.                                             *)
(*                                                                         *)
(* Every method holds the monitor, so a call is one step up to wait(); the  *)
(* thread that comes back from wait() competes for the monitor again, and   *)
(* another consumer may have emptied the queue in between.  The clock of    *)
(* take(timeout) is abstracted: a timed wait may end at any time.           *)
(***************************************************************************)
EXTENDS Integers, FiniteSets

CONSTANTS Capacity, Values, Null, Consumers

\* The constructor refuses a capacity under 2.
ASSUME CapacityAssumption == Capacity \in Nat /\ Capacity >= 2
ASSUME NullAssumption == Null \notin Values
ASSUME ConsumersAssumption == IsFiniteSet(Consumers)

VARIABLES
    array, readIndex, writeIndex,
    inserted,   \* what the last offer returned
    result,     \* what each consumer's last call returned
    pc,         \* where each consumer is, see Where
    timed       \* the consumers whose call is take(timeout)

vars == <<array, readIndex, writeIndex, inserted, result, pc, timed>>

Length == Capacity + 1
Indices == 0 .. Capacity

\* out: in no call.  waiting: in the monitor's wait set.  notified, woken:
\* taken off the wait set by notify(), or by its time-out or spuriously, and
\* competing for the monitor.
Where == {"out", "waiting", "notified", "woken"}

WaitSet  == {c \in Consumers : pc[c] = "waiting"}
Notified == {c \in Consumers : pc[c] = "notified"}

-----------------------------------------------------------------------------
(* The ring *)

\* Mutant: the index does not wrap around.
MutantNextIndex(i) == i + 1

NextIndex(i) == (i + 1) % Length

Empty == readIndex = writeIndex

\* Mutant: full with a free slot left beside the one that is never used.
MutantFull == NextIndex(NextIndex(writeIndex)) = readIndex

Full == NextIndex(writeIndex) = readIndex

GetCount == (writeIndex - readIndex + Length) % Length

Put(v) ==
    /\ array' = [array EXCEPT ![writeIndex] = v]
    /\ writeIndex' = NextIndex(writeIndex)

\* Mutant: the slot keeps its reference.
MutantRemove(c) ==
    /\ result' = [result EXCEPT ![c] = array[readIndex]]
    /\ readIndex' = NextIndex(readIndex)
    /\ pc' = [pc EXCEPT ![c] = "out"]
    /\ timed' = timed \ {c}
    /\ UNCHANGED <<array, writeIndex, inserted>>

\* Consumer c takes the oldest object and returns.
Remove(c) ==
    /\ result' = [result EXCEPT ![c] = array[readIndex]]
    /\ array' = [array EXCEPT ![readIndex] = Null]
    /\ readIndex' = NextIndex(readIndex)
    /\ pc' = [pc EXCEPT ![c] = "out"]
    /\ timed' = timed \ {c}
    /\ UNCHANGED <<writeIndex, inserted>>

ReturnNull(c) ==
    /\ result' = [result EXCEPT ![c] = Null]
    /\ pc' = [pc EXCEPT ![c] = "out"]
    /\ timed' = timed \ {c}
    /\ UNCHANGED <<array, readIndex, writeIndex, inserted>>

Wait(c, t) ==
    /\ pc' = [pc EXCEPT ![c] = "waiting"]
    /\ timed' = t
    /\ UNCHANGED <<array, readIndex, writeIndex, inserted, result>>

\* Mutant: only the offer that finds the queue empty notifies.
MutantNotify ==
    IF WaitSet = {} \/ ~Empty
    THEN UNCHANGED pc
    ELSE \E c \in WaitSet : pc' = [pc EXCEPT ![c] = "notified"]

\* notify(): one thread of the wait set, any one, or none when it is empty.
Notify ==
    IF WaitSet = {}
    THEN UNCHANGED pc
    ELSE \E c \in WaitSet : pc' = [pc EXCEPT ![c] = "notified"]

-----------------------------------------------------------------------------
(* The methods *)

Offer(v) ==
    /\ UNCHANGED <<readIndex, result, timed>>
    /\ IF Full
       THEN inserted' = FALSE /\ UNCHANGED <<array, writeIndex, pc>>
       ELSE inserted' = TRUE /\ Put(v) /\ Notify

Poll(c) ==
    /\ pc[c] = "out"
    /\ IF Empty THEN ReturnNull(c) ELSE Remove(c)

\* take() and take(timeout) up to their return or their first wait().
Take(c) ==
    /\ pc[c] = "out"
    /\ IF Empty THEN Wait(c, timed) ELSE Remove(c)

TakeTimeout(c) ==
    /\ pc[c] = "out"
    /\ \/ Empty /\ Wait(c, timed \cup {c})
       \/ Empty /\ ReturnNull(c)              \* timeout <= 0
       \/ ~Empty /\ Remove(c)

\* The wait ends without a notification: time-out, or spurious.
WakeUp(c) ==
    /\ pc[c] = "waiting"
    /\ pc' = [pc EXCEPT ![c] = "woken"]
    /\ UNCHANGED <<array, readIndex, writeIndex, inserted, result, timed>>

\* The loop of take: c has the monitor back and looks at the queue again.
Resume(c) ==
    /\ pc[c] \in {"notified", "woken"}
    /\ \/ ~Empty /\ Remove(c)
       \/ Empty /\ Wait(c, timed)
       \/ Empty /\ c \in timed /\ ReturnNull(c)

\* InterruptedException leaves take; a notified thread returns normally from
\* wait() even when it is interrupted, so no notification is lost.
Interrupt(c) ==
    /\ pc[c] \in {"waiting", "woken"}
    /\ pc' = [pc EXCEPT ![c] = "out"]
    /\ timed' = timed \ {c}
    /\ UNCHANGED <<array, readIndex, writeIndex, inserted, result>>

-----------------------------------------------------------------------------
(* Specification *)

Init ==
    /\ array = [i \in Indices |-> Null]
    /\ readIndex = 0
    /\ writeIndex = 0
    /\ inserted = FALSE
    /\ result = [c \in Consumers |-> Null]
    /\ pc = [c \in Consumers |-> "out"]
    /\ timed = {}

Next ==
    \/ \E v \in Values : Offer(v)
    \/ \E c \in Consumers :
          Poll(c) \/ Take(c) \/ TakeTimeout(c) \/ WakeUp(c) \/ Resume(c) \/ Interrupt(c)

Spec == Init /\ [][Next]_vars

\* A thread that competes for the monitor gets it: no method keeps it.
Fairness == \A c \in Consumers : WF_vars(Resume(c))

FairSpec == Spec /\ Fairness

-----------------------------------------------------------------------------
(* Properties *)

\* Type invariant.
TypeOK ==
    /\ array \in [Indices -> Values \cup {Null}]
    /\ readIndex \in Indices
    /\ writeIndex \in Indices
    /\ inserted \in BOOLEAN
    /\ result \in [Consumers -> Values \cup {Null}]
    /\ pc \in [Consumers -> Where]
    /\ timed \subseteq Consumers

\* The slot of the k-th queued object, oldest first.
Slot(k) == (readIndex + k - 1) % Length

\* The array keeps a reference exactly in the slots between readIndex and
\* writeIndex: a queued object is never null (poll would report an empty queue)
\* and a taken one is not kept from the garbage collector.
SlotsMatchIndices ==
    \A i \in Indices :
        array[i] # Null <=> \E k \in 1 .. GetCount : i = Slot(k)

\* offer() calls notify(), never notifyAll(): while a consumer waits, every
\* queued object has a notified consumer of its own on its way, though others
\* barge in, time out or are interrupted.  Otherwise a consumer sleeps beside a
\* non-empty queue.
NoLostWakeUp == WaitSet # {} => GetCount <= Cardinality(Notified)

\* Consumers never wait for ever beside a queue that stays non-empty.
WaitersServed == []<>(WaitSet = {} \/ Empty)

\* The ring is a bounded queue.
queue == [k \in 1 .. GetCount |-> array[Slot(k)]]
Queue == INSTANCE BoundedQueue
ImplementsQueue == Queue!Spec

=============================================================================
