------------------------------ MODULE ThreadPool ------------------------------
(***************************************************************************)
(* The executor behind the backend's delivery channels:                    *)
(* backend/executor/ThreadPoolExecutor.java, with its threads              *)
(* (ThreadExecutor.java) and its recycled tasks (BackendRunnable.java).    *)
(* Senders hand exchanges over through three bounded queues, one per       *)
(* priority; threads take them, wait for work at most the expiration time, *)
(* and leave when there are more of them than the minimum.                 *)
(*                                                                         *)
(* getRunnable, removeThread and enqueueRunnable hold the executor's       *)
(* monitor, peekRunnable and putRunnable that of the task pool: each is    *)
(* one step (getRunnable one step per stretch between two waits), and      *)
(* everything interleaves between them.  The queues are                    *)
(* ExternalCircularArrays, which implement BoundedQueue.  An exchange      *)
(* stands for the BackendRunnable that carries it; the free ones are       *)
(* counted, as in the code.  The clock is abstracted: a wait, and with it  *)
(* the expiration time (positive), may end at any moment.                  *)
(***************************************************************************)
EXTENDS Integers, Sequences, FiniteSets

CONSTANTS
    QueueSize, MinThreads, MaxThreads,   \* the configuration
    Threads,    \* names of threads; a dead thread's name is used again
    Senders,    \* threads that call send()
    MaxSends,   \* bound: calls of send(); exchanges are numbered in that order
    None        \* no thread, no exchange

ASSUME QueueSizeAssumption == QueueSize \in Nat /\ QueueSize >= 2
ASSUME ThreadsAssumption ==
    /\ IsFiniteSet(Threads)
    /\ MinThreads \in Nat /\ MaxThreads \in Nat
    /\ MinThreads <= MaxThreads /\ MaxThreads <= Cardinality(Threads)
ASSUME SendersAssumption == IsFiniteSet(Senders)
ASSUME MaxSendsAssumption == MaxSends \in Nat
ASSUME NoneAssumption == None \notin Threads /\ None \notin Nat

VARIABLES
    queues,          \* the exchanges queued, per priority
    runnableCount,   \* free BackendRunnables
    threadCount, threadWaiting, closed,
    pc,              \* where each thread is, see ThreadStates
    task,            \* the exchange a thread has taken
    end,             \* the threads told to stop
    sender,          \* the exchange and priority each send() is working on
    sent,            \* calls of send() so far
    outcome,         \* how each call ended, see Outcomes
    runs,            \* how many times each exchange has been processed
    destroyer        \* what destroy() is doing

vars == <<queues, runnableCount, threadCount, threadWaiting, closed, pc, task,
          end, sender, sent, outcome, runs, destroyer>>

Priorities == 0 .. 2
CRITICAL == 0
IMPORTANT == 1
NORMAL == 2

Exchanges == 1 .. MaxSends
PoolSize  == 3 * QueueSize + MaxThreads

\* loop: at the head of ThreadExecutor.run.  waiting, notified, woken: in
\* wait(), or on the way back from it after a notify(), a time-out or a
\* spurious wake-up.  running, put: processing the exchange, giving the task
\* back.  remove: getRunnable returned null, removeThread not yet called.
ThreadStates == {"dead", "loop", "waiting", "notified", "woken",
                 "running", "put", "remove"}

\* refused: MessagingException.  discarded: send() returns, the exchange is
\* thrown away.
Outcomes == {"none", "accepted", "refused", "discarded"}

Alive      == {t \in Threads : pc[t] # "dead"}
WaitSet    == {t \in Threads : pc[t] = "waiting"}
Notified   == {t \in Threads : pc[t] = "notified"}
InGetWait  == {t \in Threads : pc[t] \in {"waiting", "notified", "woken"}}
HasTask    == {t \in Threads : pc[t] \in {"running", "put"}}
Sending    == {s \in Senders : sender[s].step # "idle"}
Queued     == Len(queues[CRITICAL]) + Len(queues[IMPORTANT]) + Len(queues[NORMAL])
NoneQueued == \A p \in Priorities : queues[p] = <<>>

Idle == [step |-> "idle", exchange |-> None, priority |-> NORMAL]

-----------------------------------------------------------------------------
(* send() *)

\* peekRunnable; with no free task the exchange is discarded, and only logged.
Peek(s, p) ==
    /\ sender[s] = Idle
    /\ sent < MaxSends
    /\ sent' = sent + 1
    /\ IF runnableCount = 0
       THEN /\ outcome' = [outcome EXCEPT ![sent'] = "discarded"]
            /\ UNCHANGED <<sender, runnableCount>>
       ELSE /\ runnableCount' = runnableCount - 1
            /\ sender' = [sender EXCEPT ![s] = [step |-> "enqueue",
                                                exchange |-> sent', priority |-> p]]
            /\ UNCHANGED outcome
    /\ UNCHANGED <<queues, threadCount, threadWaiting, closed, pc, task, end,
                   runs, destroyer>>

\* The pool's threads after enqueueRunnable has seen to it that one is there.
StartThread ==
    IF threadWaiting = 0 /\ threadCount < MaxThreads
    THEN {[pc EXCEPT ![t] = "loop"] : t \in Threads \ Alive}
    ELSE {pc}

\* Mutant: nobody is notified.
MutantNotify(q) == {q}

\* notify() on the wait set of the threads q.
Notify(q) ==
    LET waitSet == {t \in Threads : q[t] = "waiting"}
    IN IF waitSet = {} THEN {q} ELSE {[q EXCEPT ![t] = "notified"] : t \in waitSet}

Enqueue(s) ==
    LET x == sender[s].exchange
        p == sender[s].priority
    IN /\ sender[s].step = "enqueue"
       /\ \/ /\ ~closed
             /\ \E q \in StartThread :
                  /\ threadCount' = IF q = pc THEN threadCount ELSE threadCount + 1
                  /\ IF Len(queues[p]) < QueueSize
                     THEN /\ queues' = [queues EXCEPT ![p] = Append(@, x)]
                          /\ pc' \in Notify(q)
                          /\ outcome' = [outcome EXCEPT ![x] = "accepted"]
                          /\ sender' = [sender EXCEPT ![s] = Idle]
                     ELSE /\ pc' = q
                          /\ sender' = [sender EXCEPT ![s].step = "putBack"]
                          /\ UNCHANGED <<queues, outcome>>
          \/ /\ closed
             /\ sender' = [sender EXCEPT ![s].step = "putBack"]
             /\ UNCHANGED <<queues, threadCount, pc, outcome>>
       /\ UNCHANGED <<runnableCount, threadWaiting, closed, task, end, sent, runs,
                      destroyer>>

\* Mutant: the exception is thrown without putting the task back.
MutantPutBack(s) ==
    /\ sender[s].step = "putBack"
    /\ outcome' = [outcome EXCEPT ![sender[s].exchange] = "refused"]
    /\ sender' = [sender EXCEPT ![s] = Idle]
    /\ UNCHANGED <<queues, runnableCount, threadCount, threadWaiting, closed, pc,
                   task, end, sent, runs, destroyer>>

\* putRunnable and the MessagingException.
PutBack(s) ==
    /\ sender[s].step = "putBack"
    /\ runnableCount' = runnableCount + 1
    /\ outcome' = [outcome EXCEPT ![sender[s].exchange] = "refused"]
    /\ sender' = [sender EXCEPT ![s] = Idle]
    /\ UNCHANGED <<queues, threadCount, threadWaiting, closed, pc, task, end,
                   sent, runs, destroyer>>

-----------------------------------------------------------------------------
(* A thread *)

\* The priority getRunnable serves first.
FirstQueue == CHOOSE p \in Priorities :
                 queues[p] # <<>> /\ \A r \in 0 .. p - 1 : queues[r] = <<>>

\* Mutant: the task stays queued.
MutantTakeTask(t) ==
    /\ task' = [task EXCEPT ![t] = Head(queues[FirstQueue])]
    /\ pc' = [pc EXCEPT ![t] = "running"]
    /\ UNCHANGED queues

TakeTask(t) ==
    /\ queues' = [queues EXCEPT ![FirstQueue] = Tail(@)]
    /\ task' = [task EXCEPT ![t] = Head(queues[FirstQueue])]
    /\ pc' = [pc EXCEPT ![t] = "running"]

\* Mutant: the thread waits without being counted.
MutantEnterWait(t) ==
    /\ pc' = [pc EXCEPT ![t] = "waiting"]
    /\ UNCHANGED threadWaiting

EnterWait(t) ==
    /\ pc' = [pc EXCEPT ![t] = "waiting"]
    /\ threadWaiting' = threadWaiting + 1

\* getRunnable up to its return or its first wait.  ThreadExecutor reads end
\* without synchronisation and it is not volatile: a thread told to stop may
\* not see it here yet, and take a task or enter a wait that is interrupted.
GetRunnable(t) ==
    /\ pc[t] = "loop"
    /\ IF NoneQueued
       THEN EnterWait(t) /\ UNCHANGED <<queues, task>>
       ELSE TakeTask(t) /\ UNCHANGED threadWaiting
    /\ UNCHANGED <<runnableCount, threadCount, closed, end, sender, sent,
                   outcome, runs, destroyer>>

\* The wait times out, or ends spuriously.  (An interrupted one ends in
\* EndThread.)
WakeUp(t) ==
    /\ pc[t] = "waiting"
    /\ t \notin end
    /\ pc' = [pc EXCEPT ![t] = "woken"]
    /\ UNCHANGED <<queues, runnableCount, threadCount, threadWaiting, closed,
                   task, end, sender, sent, outcome, runs, destroyer>>

\* The rest of getRunnable's loop: poll again; without work, wait for what is
\* left of the expiration time (threadWaiting goes down and up again) or
\* return null.
Resume(t) ==
    /\ pc[t] \in {"notified", "woken"}
    /\ \/ /\ ~NoneQueued
          /\ TakeTask(t)
          /\ threadWaiting' = threadWaiting - 1
       \/ /\ NoneQueued
          /\ pc' = [pc EXCEPT ![t] = "waiting"]
          /\ UNCHANGED <<queues, task, threadWaiting>>
       \/ /\ NoneQueued
          /\ pc' = [pc EXCEPT ![t] = "remove"]
          /\ threadWaiting' = threadWaiting - 1
          /\ UNCHANGED <<queues, task>>
    /\ UNCHANGED <<runnableCount, threadCount, closed, end, sender, sent,
                   outcome, runs, destroyer>>

\* BackendRunnable.run: the endpoint processes the exchange; what it throws is
\* caught and logged.
Run(t) ==
    /\ pc[t] = "running"
    /\ pc' = [pc EXCEPT ![t] = "put"]
    /\ runs' = [runs EXCEPT ![task[t]] = @ + 1]
    /\ UNCHANGED <<queues, runnableCount, threadCount, threadWaiting, closed,
                   task, end, sender, sent, outcome, destroyer>>

PutRunnable(t) ==
    /\ pc[t] = "put"
    /\ pc' = [pc EXCEPT ![t] = "loop"]
    /\ task' = [task EXCEPT ![t] = None]
    /\ runnableCount' = runnableCount + 1
    /\ UNCHANGED <<queues, threadCount, threadWaiting, closed, end, sender, sent,
                   outcome, runs, destroyer>>

\* Mutant: the minimum is not looked at.
MutantRemoveThread(t) ==
    /\ pc[t] = "remove"
    /\ pc' = [pc EXCEPT ![t] = "dead"]
    /\ threadCount' = IF closed THEN threadCount ELSE threadCount - 1
    /\ UNCHANGED <<queues, runnableCount, threadWaiting, closed, task, end,
                   sender, sent, outcome, runs, destroyer>>

RemoveThread(t) ==
    /\ pc[t] = "remove"
    /\ IF ~closed /\ threadCount <= MinThreads
       THEN pc' = [pc EXCEPT ![t] = "loop"] /\ UNCHANGED threadCount
       ELSE /\ pc' = [pc EXCEPT ![t] = "dead"]
            /\ threadCount' = IF closed THEN threadCount ELSE threadCount - 1
    /\ UNCHANGED <<queues, runnableCount, threadWaiting, closed, task, end,
                   sender, sent, outcome, runs, destroyer>>

\* Mutant: a waiting thread is not interrupted.
MutantEndThread(t) ==
    /\ t \in end
    /\ pc[t] = "loop"
    /\ pc' = [pc EXCEPT ![t] = "dead"]
    /\ UNCHANGED <<queues, runnableCount, threadCount, threadWaiting, closed,
                   task, end, sender, sent, outcome, runs, destroyer>>

\* A thread told to stop: at the head of its loop it sees end; in wait() it is
\* interrupted, and leaves getRunnable without counting itself out of
\* threadWaiting.  One that was notified returns from wait() normally.
EndThread(t) ==
    /\ t \in end
    /\ pc[t] \in {"loop", "waiting", "woken"}
    /\ pc' = [pc EXCEPT ![t] = "dead"]
    /\ UNCHANGED <<queues, runnableCount, threadCount, threadWaiting, closed,
                   task, end, sender, sent, outcome, runs, destroyer>>

-----------------------------------------------------------------------------
(* destroy() *)

Close ==
    /\ destroyer = "none"
    /\ closed' = TRUE
    /\ destroyer' = "stopping"
    /\ UNCHANGED <<queues, runnableCount, threadCount, threadWaiting, pc, task,
                   end, sender, sent, outcome, runs>>

\* stopExecutor of one thread, once the previous one has been joined.
StopThread(t) ==
    /\ destroyer = "stopping"
    /\ end \cap Alive = {}
    /\ t \in Alive
    /\ end' = end \cup {t}
    /\ UNCHANGED <<queues, runnableCount, threadCount, threadWaiting, closed, pc,
                   task, sender, sent, outcome, runs, destroyer>>

\* The last thread is joined; what is still queued is dropped.
Destroyed ==
    /\ destroyer = "stopping"
    /\ Alive = {}
    /\ threadCount' = 0
    /\ destroyer' = "destroyed"
    /\ UNCHANGED <<queues, runnableCount, threadWaiting, closed, pc, task, end,
                   sender, sent, outcome, runs>>

-----------------------------------------------------------------------------
(* Specification *)

\* The constructor has started the minimum of threads.
Init ==
    /\ queues = [p \in Priorities |-> <<>>]
    /\ runnableCount = PoolSize
    /\ threadCount = MinThreads
    /\ threadWaiting = 0
    /\ closed = FALSE
    /\ \E T \in SUBSET Threads :
          /\ Cardinality(T) = MinThreads
          /\ pc = [t \in Threads |-> IF t \in T THEN "loop" ELSE "dead"]
    /\ task = [t \in Threads |-> None]
    /\ end = {}
    /\ sender = [s \in Senders |-> Idle]
    /\ sent = 0
    /\ outcome = [x \in Exchanges |-> "none"]
    /\ runs = [x \in Exchanges |-> 0]
    /\ destroyer = "none"

ThreadStep(t) ==
    \/ GetRunnable(t) \/ Resume(t) \/ Run(t) \/ PutRunnable(t)
    \/ RemoveThread(t) \/ EndThread(t)

SenderStep(s) == Enqueue(s) \/ PutBack(s)

Destroy == Destroyed \/ \E t \in Threads : StopThread(t)

Next ==
    \/ \E s \in Senders : SenderStep(s) \/ \E p \in Priorities : Peek(s, p)
    \/ \E t \in Threads : ThreadStep(t) \/ WakeUp(t)
    \/ Close
    \/ Destroy

Spec == Init /\ [][Next]_vars

\* Threads and senders run; an endpoint returns from process(); destroy() goes
\* on once called.  Nothing else is assumed: nobody has to send or to destroy,
\* and a wait need not time out.
Fairness ==
    /\ \A t \in Threads : WF_vars(ThreadStep(t))
    /\ \A s \in Senders : WF_vars(SenderStep(s))
    /\ WF_vars(Destroy)

FairSpec == Spec /\ Fairness

-----------------------------------------------------------------------------
(* Properties *)

\* Type invariant.
TypeOK ==
    /\ queues \in [Priorities -> Seq(Exchanges)]
    /\ runnableCount \in 0 .. PoolSize
    /\ threadCount \in 0 .. MaxThreads
    /\ threadWaiting \in Nat
    /\ closed \in BOOLEAN
    /\ pc \in [Threads -> ThreadStates]
    /\ task \in [Threads -> Exchanges \cup {None}]
    /\ end \subseteq Threads
    /\ sender \in [Senders -> [step : {"idle", "enqueue", "putBack"},
                               exchange : Exchanges \cup {None},
                               priority : Priorities]]
    /\ sent \in 0 .. MaxSends
    /\ outcome \in [Exchanges -> Outcomes]
    /\ runs \in [Exchanges -> Nat]
    /\ destroyer \in {"none", "stopping", "destroyed"}

\* No BackendRunnable is lost or put back twice (putRunnable would run over
\* the end of its array): each one is free, with a sender, queued, or with a
\* thread.
RunnablesConserved ==
    runnableCount + Cardinality(Sending) + Queued + Cardinality(HasTask) = PoolSize

\* threadCount is the number of threads there are, between the minimum and the
\* maximum, although threads expire while enqueueRunnable starts others.
ThreadsCounted ==
    ~closed => /\ threadCount = Cardinality(Alive)
               /\ threadCount \in MinThreads .. MaxThreads

\* threadWaiting, on which enqueueRunnable decides whether to start a thread,
\* counts the threads inside getRunnable's wait, those already notified too.
WaitingCounted == ~closed => threadWaiting = Cardinality(InGetWait)

\* Where an exchange that is not finished with is held, and how often.
Holders(x) ==
    Cardinality({s \in Senders : sender[s].exchange = x})
    + Cardinality({pi \in Priorities \X (1 .. QueueSize) :
                     pi[2] <= Len(queues[pi[1]]) /\ queues[pi[1]][pi[2]] = x})
    + Cardinality({t \in Threads : pc[t] = "running" /\ task[t] = x})

\* An accepted exchange is processed once: it is in one place until then, in
\* none afterwards.  One that was refused or discarded is never processed.
ProcessedOnce ==
    \A x \in Exchanges :
        Holders(x) + runs[x] =
            IF x <= sent /\ outcome[x] \in {"none", "accepted"} THEN 1 ELSE 0

\* No thread sleeps beside queued work: while one waits, every queued exchange,
\* of any priority, has a notified thread of its own on its way.
NoSleepBesideWork == WaitSet # {} => Queued <= Cardinality(Notified)

\* Every accepted exchange is processed, unless the executor is destroyed.  A
\* thread that has given up waiting and is about to leave does not count as
\* waiting any more, so this needs a minimum of one thread.
AcceptedIsProcessed ==
    \A x \in Exchanges :
        outcome[x] = "accepted" ~> (runs[x] = 1 \/ closed)

\* destroy() joins every thread and returns.
DestroyReturns == closed ~> (destroyer = "destroyed")

-----------------------------------------------------------------------------
(* What the code's own texts say, and the code does not do *)

\* "@throws MessagingException If any problem occurs during the transfer": an
\* exchange that is not transferred is reported to the sender.
DiscardReported == \A x \in Exchanges : outcome[x] # "discarded"

=============================================================================
