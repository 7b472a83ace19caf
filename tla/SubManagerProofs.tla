-------------------------- MODULE SubManagerProofs --------------------------
(***************************************************************************)
(* Proof that IInv is an inductive invariant of SubManager, for every      *)
(* number of retries, timers, requests and updates and every set of faults,*)
(* and the safety properties that follow from it.                          *)
(***************************************************************************)
EXTENDS SubManager, TLAPS

\* What the handlers guarantee of the manager c they pass on to retry() and
\* to the operations that send.
Ready(c, v) ==
    /\ c \in SubType
    /\ c.nbRetry \in -1 .. MaxRetry
    /\ c.state \in {"WAITING_NOTIFICATION"} \cup Pending \cup Ending
    /\ \A q \in c.requests : q.status = "OK"
    /\ \A p, q \in c.requests : p = q
    /\ c.requests = {} \/ c.state \in {"EXPIRING_PENDING_NOTIFY",
                                       "DELETING_PENDING_NOTIFY"}
    /\ c.state = "PENDING_NOTIFY_AND_NOTIFICATION" => c.nbRetry = -1
    /\ c.state = "WAITING_NOTIFICATION" => v = 0

\* What they get back: the invariant, an active manager still active, an
\* ended one still ended and without a new normal notification.
Result(c, d, f, v) ==
    /\ SubInv(d, f, v)
    /\ d.state \in Active <=> c.state \in Active
    /\ d.state # "NOT_CREATED"
    /\ c.state \notin Active => \A q \in d.requests \ c.requests : q.status # "OK"
    /\ \A q \in d.requests \ c.requests : q.status = "EXPIRED" => c.state \notin Active

USE DEF Waiting, Pending, Active, Ending, EndingWaitingRetry

\* The groups of states are states of SubManager.
LEMMA StatesKnown ==
    /\ {"NOT_CREATED", "DELETED"} \subseteq States
    /\ Active \subseteq States
    /\ Ending \subseteq States
    /\ EndingWaitingRetry \subseteq States
BY DEF States

\* Resetting the retry counter keeps the type.
LEMMA ResetType ==
    ASSUME NEW c \in SubType, NEW s \in States
    PROVE  [c EXCEPT !.state = s, !.nbRetry = 0] \in SubType
<1> DEFINE n == 0
<1>1. n \in Int
  OBVIOUS
<1> HIDE DEF n
<1>2. [c EXCEPT !.state = s, !.nbRetry = n] \in SubType
  BY <1>1 DEF SubType
<1> QED
  BY <1>2 DEF n

\* So does settling a version at the same time.
LEMMA ResetAndSettleType ==
    ASSUME NEW c \in SubType, NEW s \in States, NEW k \in Int
    PROVE  [c EXCEPT !.state = s, !.nbRetry = 0, !.settled = k] \in SubType
<1> DEFINE n == 0
<1>1. n \in Int
  OBVIOUS
<1> HIDE DEF n
<1>2. [c EXCEPT !.state = s, !.nbRetry = n, !.settled = k] \in SubType
  BY <1>1 DEF SubType
<1> QED
  BY <1>2 DEF n

-----------------------------------------------------------------------------

\* Deferring a ready manager leaves the invariant: the state that waits has
\* the timer just started (retry(), first branch).
LEMMA DeferInv ==
    ASSUME NEW c, NEW v \in Nat, Ready(c, v), c.nbRetry < MaxRetry, Defer(c)
    PROVE  Result(c, sub', fired', v)
<1>1. PICK t \in FreeTimers(c) :
        sub' = StartTimer([c EXCEPT !.state = RetryState(@), !.nbRetry = @ + 1], t)
  BY DEF Defer
<1>2. sub' \in SubType
  <2>1. RetryState(c.state) \in States
    BY DEF Ready, RetryState, States
  <2>2. /\ c.nbRetry + 1 \in Int
        /\ t \in TimerIds
    BY DEF Ready, FreeTimers
  <2> QED
    BY <1>1, <2>1, <2>2 DEF Ready, SubType, StartTimer
<1>3. /\ sub'.state = RetryState(c.state)
      /\ sub'.requests = c.requests
      /\ sub'.nbRetry = c.nbRetry + 1
      /\ sub'.expirationTimerId = c.expirationTimerId
      /\ t \in sub'.running
      /\ sub'.settled = c.settled
  BY <1>1 DEF Ready, SubType, StartTimer
<1>4. t # c.expirationTimerId
  BY DEF FreeTimers
<1>5. sub'.nbRetry \in -1 .. MaxRetry
  BY <1>3, MaxRetryAssumption DEF Ready
<1>6. RequestsByState(sub') /\ RequestsAlone(sub')
  BY <1>3 DEF Ready, RequestsByState, RequestsAlone, RetryState
<1>7. UpToDate(sub', v)
  BY <1>3 DEF Ready, UpToDate, RetryState
<1>8. (sub'.running \cup fired') \ {sub'.expirationTimerId} # {}
  BY <1>3, <1>4
<1>9. sub'.state # "PENDING_NOTIFY_AND_NOTIFICATION"
  BY <1>3 DEF Ready, RetryState
<1>10. /\ sub'.state \in Active <=> c.state \in Active
       /\ sub'.state # "NOT_CREATED"
       /\ sub'.requests \ c.requests = {}
  BY <1>3 DEF Ready, RetryState
<1> QED
  BY <1>2, <1>5, <1>6, <1>7, <1>8, <1>9, <1>10 DEF SubInv, Result

\* Sending leaves the invariant: the request added is the only one of its
\* kind (sendNotify without an exception).
LEMMA DeliverInv ==
    ASSUME NEW c, NEW status \in Status, version' \in Nat, Ready(c, version'),
           \/ c.state = "PENDING_NOTIFY" /\ status = "OK"
           \/ c.state \in Ending /\ status # "OK",
           Deliver(c, status)
    PROVE  Result(c, sub', fired', version')
<1>1. PICK i \in FreeRequestIds(c) :
        sub' = [c EXCEPT
                  !.requests = @ \cup {[id |-> i, status |-> status,
                                        version |-> version']},
                  !.expiredSends = IF status = "EXPIRED" THEN @ + 1 ELSE @]
  BY DEF Deliver
<1> DEFINE r == [id |-> i, status |-> status, version |-> version']
<1>2. r \in Request
  BY DEF Request, FreeRequestIds
<1>3. /\ sub'.requests = c.requests \cup {r}
      /\ sub'.state = c.state
      /\ sub'.nbRetry = c.nbRetry
      /\ sub'.settled = c.settled
  BY <1>1 DEF Ready, SubType
<1>4. sub' \in SubType
  <2>1. (IF status = "EXPIRED" THEN c.expiredSends + 1 ELSE c.expiredSends) \in Nat
    BY DEF Ready, SubType
  <2> QED
    BY <1>1, <1>2, <2>1 DEF Ready, SubType
<1>5. r.status = status /\ r.version = version'
  OBVIOUS
<1> HIDE DEF r
<1>6. RequestsByState(sub')
  BY <1>3, <1>5 DEF Ready, RequestsByState
<1>7. RequestsAlone(sub')
  BY <1>3, <1>5 DEF Ready, RequestsAlone
<1>8. UpToDate(sub', version')
  BY <1>3, <1>5 DEF Ready, UpToDate
<1>9. \A q \in sub'.requests \ c.requests : q.status = status
  BY <1>3, <1>5
<1> QED
  BY <1>3, <1>4, <1>6, <1>7, <1>8, <1>9 DEF Ready, SubInv, Result

\* Finding nothing to send settles the version (retrieveAndSendNotify, null).
LEMMA NoRepresentationInv ==
    ASSUME NEW c, version' \in Nat, Ready(c, version'), c.state \in Active,
           NoRepresentation(c)
    PROVE  Result(c, sub', fired', version')
<1>1. sub' = [c EXCEPT !.state = "WAITING_NOTIFICATION", !.settled = version']
  BY DEF NoRepresentation
<1>2. sub' \in SubType
  <2>1. c \in SubType /\ version' \in Int /\ "WAITING_NOTIFICATION" \in States
    BY StatesKnown DEF Ready
  <2> QED
    BY <1>1, <2>1 DEF SubType
<1>3. /\ sub'.state = "WAITING_NOTIFICATION"
      /\ sub'.requests = {}
      /\ c.requests = {}
      /\ sub'.nbRetry = c.nbRetry
      /\ sub'.settled = version'
  BY <1>1 DEF Ready, SubType
<1> QED
  BY <1>2, <1>3 DEF Ready, SubInv, Result, RequestsByState, RequestsAlone, UpToDate

\* Giving up leaves the invariant (retry(), second branch).
LEMMA GiveUpInv ==
    ASSUME NEW c, version' \in Nat, Ready(c, version'),
           c.nbRetry >= MaxRetry, GiveUp(c)
    PROVE  Result(c, sub', fired', version')
<1>1. c.state # "PENDING_NOTIFY_AND_NOTIFICATION"
  BY MaxRetryAssumption DEF Ready
<1>2. CASE c.state = "PENDING_NOTIFY"
  <2>1. sub' = [c EXCEPT !.state = "WAITING_NOTIFICATION", !.nbRetry = 0,
                         !.settled = version']
    BY <1>2 DEF GiveUp
  <2>2. sub' \in SubType
    <3>1. c \in SubType /\ version' \in Int /\ "WAITING_NOTIFICATION" \in States
      BY StatesKnown DEF Ready
    <3> QED
      BY <2>1, <3>1, ResetAndSettleType
  <2>3. /\ sub'.state = "WAITING_NOTIFICATION"
        /\ sub'.requests = {}
        /\ c.requests = {}
        /\ sub'.nbRetry = 0
        /\ sub'.settled = version'
    BY <1>2, <2>1 DEF Ready, SubType
  <2> QED
    BY <1>2, <2>2, <2>3, MaxRetryAssumption
    DEF SubInv, Result, RequestsByState, RequestsAlone, UpToDate
<1>3. CASE c.state \in Ending
  <2>1. PICK s \in {"EXPIRING", "DELETING", "DELETED"} :
           /\ sub' = [c EXCEPT !.state = s, !.nbRetry = 0]
           /\ s = "DELETED" => c.requests = {}
    BY <1>3 DEF GiveUp, Ready
  <2>2. sub' \in SubType
    <3>1. c \in SubType /\ s \in States
      BY StatesKnown DEF Ready
    <3> QED
      BY <2>1, <3>1, ResetType
  <2>3. /\ sub'.state \in {"EXPIRING", "DELETING", "DELETED"}
        /\ sub'.state = "DELETED" => c.requests = {}
        /\ sub'.requests = c.requests
        /\ sub'.nbRetry = 0
    BY <2>1 DEF Ready, SubType
  <2> QED
    BY <1>3, <2>2, <2>3, MaxRetryAssumption
    DEF Ready, SubInv, Result, RequestsByState, RequestsAlone, UpToDate
<1>4. CASE c.state = "WAITING_NOTIFICATION"
  <2>1. sub' = c
    BY <1>4 DEF GiveUp
  <2> QED
    BY <1>4, <2>1 DEF Ready, SubInv, Result, RequestsByState, RequestsAlone, UpToDate
<1> QED
  BY <1>1, <1>2, <1>3, <1>4 DEF Ready

\* retry() leaves the invariant.
LEMMA RetryInv ==
    ASSUME NEW c, version' \in Nat, Ready(c, version'), Retry(c)
    PROVE  Result(c, sub', fired', version')
<1>1. CASE c.nbRetry < MaxRetry
  BY <1>1, DeferInv DEF Retry
<1>2. CASE ~(c.nbRetry < MaxRetry)
  <2>1. c.nbRetry >= MaxRetry
    BY <1>2, MaxRetryAssumption DEF Ready
  <2> QED
    BY <1>2, <2>1, GiveUpInv DEF Retry
<1> QED
  BY <1>1, <1>2

\* sendNotify leaves the invariant.
LEMMA SendNotifyInv ==
    ASSUME NEW c, NEW status \in Status, version' \in Nat, Ready(c, version'),
           \/ c.state = "PENDING_NOTIFY" /\ status = "OK"
           \/ c.state \in Ending /\ status # "OK",
           SendNotify(c, status)
    PROVE  Result(c, sub', fired', version')
BY DeliverInv, RetryInv DEF SendNotify

\* sendErrorNotify leaves the invariant, its swallowed exception too.
LEMMA SendErrorNotifyInv ==
    ASSUME NEW c, NEW status \in Status \ {"OK"}, version' \in Nat,
           Ready(c, version'), c.state \in Ending, SendErrorNotify(c, status)
    PROVE  Result(c, sub', fired', version')
<1>1. CASE SendNotify(c, status)
  BY <1>1, SendNotifyInv
<1>2. CASE sub' = c
  BY <1>2 DEF Ready, SubInv, Result, RequestsByState, RequestsAlone, UpToDate
<1> QED
  BY <1>1, <1>2 DEF SendErrorNotify

\* retrieveAndSendNotify leaves the invariant.
LEMMA RetrieveInv ==
    ASSUME NEW c, version' \in Nat, Ready(c, version'),
           c.state \in {"WAITING_NOTIFICATION", "PENDING_NOTIFY"},
           RetrieveAndSendNotify(c)
    PROVE  Result(c, sub', fired', version')
<1>1. CASE SendNotify([c EXCEPT !.state = "PENDING_NOTIFY"], "OK")
  <2> DEFINE d == [c EXCEPT !.state = "PENDING_NOTIFY"]
  <2>1. d.state = "PENDING_NOTIFY" /\ d.requests = {} /\ c.requests = {}
    BY DEF Ready, SubType
  <2>2. Ready(d, version')
    BY <2>1, StatesKnown DEF Ready, SubType
  <2>3. SendNotify(d, "OK")
    BY <1>1
  <2> HIDE DEF d
  <2>4. Result(d, sub', fired', version')
    BY <2>1, <2>2, <2>3, SendNotifyInv DEF Status
  <2> QED
    BY <2>1, <2>4 DEF Result
<1>2. CASE NoRepresentation(c)
  BY <1>2, NoRepresentationInv
<1>3. CASE Retry(c)
  BY <1>3, RetryInv
<1> QED
  BY <1>1, <1>2, <1>3 DEF RetrieveAndSendNotify

-----------------------------------------------------------------------------

\* The part of the invariant that does not depend on the timers.
Core(c) ==
    /\ c \in SubType
    /\ c.nbRetry \in -1 .. MaxRetry
    /\ RequestsByState(c)
    /\ RequestsAlone(c)

\* Retrying the end of a subscription sends nothing by itself.
LEMMA RetrySendsNothing ==
    ASSUME NEW c, NEW v, Ready(c, v), c.state \in Ending, Retry(c)
    PROVE  sub'.requests = c.requests
<1>1. CASE Defer(c)
  BY <1>1 DEF Defer, StartTimer, Ready, SubType
<1>2. CASE GiveUp(c)
  BY <1>2 DEF GiveUp, Ready, SubType
<1> QED
  BY <1>1, <1>2 DEF Retry

\* A final notification adds only requests of its own status.
LEMMA SendErrorNotifyStatus ==
    ASSUME NEW c, NEW v, Ready(c, v), c.state \in Ending, NEW status,
           SendErrorNotify(c, status)
    PROVE  \A q \in sub'.requests : q.status \in {"OK", status}
<1>1. CASE Deliver(c, status)
  <2>1. PICK i \in FreeRequestIds(c) :
          sub'.requests = c.requests \cup {[id |-> i, status |-> status,
                                            version |-> version']}
    BY <1>1 DEF Deliver, Ready, SubType
  <2> QED
    BY <2>1 DEF Ready
<1>2. CASE Retry(c)
  BY <1>2, RetrySendsNothing DEF Ready
<1>3. CASE sub' = c
  BY <1>3 DEF Ready
<1> QED
  BY <1>1, <1>2, <1>3 DEF SendErrorNotify, SendNotify

\* Ending an active manager makes it ready to send its final notification,
\* the normal one it awaits still in flight.
LEMMA EndFromReady ==
    ASSUME NEW c, Core(c), c.state \in Active, NEW v,
           NEW pending \in {"EXPIRING_PENDING_NOTIFY", "DELETING_PENDING_NOTIFY"},
           NEW idle \in {"EXPIRING", "DELETING"}
    PROVE  LET d == EndFrom(c, pending, idle)
           IN  /\ Ready(d, v)
               /\ d.state \in Ending
               /\ d.requests = c.requests
<1> DEFINE d == EndFrom(c, pending, idle)
<1>1. c \in SubType /\ pending \in States /\ idle \in States
  BY StatesKnown DEF Core
<1>2. CASE c.state = "WAITING_NOTIFICATION"
  <2>1. d = [c EXCEPT !.state = idle]
    BY <1>2 DEF EndFrom
  <2>2. d \in SubType
    BY <1>1, <2>1 DEF SubType
  <2>3. d.state = idle /\ d.requests = c.requests /\ d.nbRetry = c.nbRetry
    BY <1>1, <2>1 DEF SubType
  <2> HIDE DEF d
  <2>4. c.requests = {}
    BY <1>2 DEF Core, RequestsByState
  <2>5. Ready(d, v)
    BY <2>2, <2>3, <2>4 DEF Ready, Core
  <2> QED
    BY <2>3, <2>5 DEF d
<1>3. CASE c.state \in Pending
  <2>1. d = [c EXCEPT !.state = pending, !.nbRetry = 0]
    BY <1>3 DEF EndFrom
  <2>2. d \in SubType
    <3>1. [c EXCEPT !.state = pending, !.nbRetry = 0] \in SubType
      BY ONLY <1>1, ResetType, Zenon
    <3> HIDE DEF d
    <3> QED BY ONLY <2>1, <3>1
  <2>3. d.state = pending /\ d.requests = c.requests /\ d.nbRetry = 0
    BY <1>1, <2>1 DEF SubType
  <2> HIDE DEF d
  <2>4. /\ \A q \in c.requests : q.status = "OK"
        /\ \A p, q \in c.requests : p = q
    BY <1>3 DEF Core, RequestsByState, RequestsAlone
  <2>5. Ready(d, v)
    BY <2>2, <2>3, <2>4, MaxRetryAssumption DEF Ready
  <2> QED
    BY <2>3, <2>5 DEF d
<1>4. CASE c.state \in Waiting
  <2> DEFINE e == [c EXCEPT !.state = idle, !.nbRetry = 0]
  <2>1. d = [e EXCEPT !.running = e.running \ {c.timerId}]
    BY <1>4 DEF EndFrom, CancelTimer
  <2>2. e \in SubType
    BY <1>1, ResetType
  <2>3. e.state = idle /\ e.requests = c.requests /\ e.nbRetry = 0
    BY <1>1 DEF SubType
  <2> HIDE DEF d, e
  <2>4. d \in SubType
    BY <2>1, <2>2 DEF SubType
  <2>5. d.state = idle /\ d.requests = c.requests /\ d.nbRetry = 0
    BY <2>1, <2>2, <2>3 DEF SubType
  <2>6. c.requests = {}
    BY <1>4 DEF Core, RequestsByState
  <2>7. Ready(d, v)
    BY <2>4, <2>5, <2>6, MaxRetryAssumption DEF Ready
  <2> QED
    BY <2>5, <2>7 DEF d
<1> QED
  BY <1>2, <1>3, <1>4

\* storage.delete and the EXPIRED notification leave the invariant, and the
\* contact is told only if the document has been deleted.
LEMMA DeleteAndNotifyInv ==
    ASSUME NEW c, NEW present \in BOOLEAN, version' \in Nat,
           Ready(c, version'), c.state \in Ending,
           DeleteAndNotifyExpired(c, present)
    PROVE  /\ Result(c, sub', fired', version')
           /\ stored' \in BOOLEAN
           /\ \A q \in sub'.requests : q.status = "EXPIRED" => ~stored'
<1>1. CASE stored' = FALSE /\ SendErrorNotify(c, "EXPIRED")
  BY <1>1, SendErrorNotifyInv DEF Status
<1>2. CASE stored' = present /\ Retry(c)
  <2>1. Result(c, sub', fired', version')
    BY <1>2, RetryInv
  <2>2. \A q \in sub'.requests : q.status = "OK"
    BY <1>2, RetrySendsNothing DEF Ready
  <2> QED
    BY <1>2, <2>1, <2>2
<1> QED
  BY <1>1, <1>2 DEF DeleteAndNotifyExpired

\* subscriptionExpired of an active manager: it leaves the SubsManager, ends,
\* and the contact is told only if the document has been deleted.
LEMMA ExpiredInv ==
    ASSUME NEW c, NEW present \in BOOLEAN, version' \in Nat,
           Core(c), c.state \in Active, SubscriptionExpired(c, present)
    PROVE  /\ SubInv(sub', fired', version')
           /\ sub'.state \notin Active \cup {"NOT_CREATED"}
           /\ registered' = FALSE
           /\ stored' \in BOOLEAN
           /\ \A q \in sub'.requests : q.status = "EXPIRED" => ~stored'
<1> DEFINE d == EndFrom(c, "EXPIRING_PENDING_NOTIFY", "EXPIRING")
<1>1. Ready(d, version') /\ d.state \in Ending
  BY EndFromReady
<1>2. registered' = FALSE /\ DeleteAndNotifyExpired(d, present)
  BY DEF SubscriptionExpired
<1> HIDE DEF d
<1>3. /\ Result(d, sub', fired', version')
      /\ stored' \in BOOLEAN
      /\ \A q \in sub'.requests : q.status = "EXPIRED" => ~stored'
  BY <1>1, <1>2, DeleteAndNotifyInv
<1> QED
  BY <1>1, <1>2, <1>3 DEF Result

\* subscriptionDeleted of an active manager.
LEMMA DeletedInv ==
    ASSUME NEW c, Core(c), c.state \in Active, NEW f, NEW v
    PROVE  LET d == SubscriptionDeleted(c)
           IN  /\ SubInv(d, f, v)
               /\ d.state \in {"DELETED", "DELETING"}
               /\ d.requests = c.requests
<1> DEFINE d == SubscriptionDeleted(c)
<1> DEFINE e == [c EXCEPT !.running = c.running \ {c.expirationTimerId}]
<1>1. c \in SubType /\ "DELETED" \in States /\ "DELETING" \in States
  BY StatesKnown DEF Core
<1>2. PICK s \in {"DELETED", "DELETING"} :
        /\ d = [e EXCEPT !.state = s]
           \/ d = [e EXCEPT !.state = s, !.running = e.running \ {c.timerId}]
        /\ s = "DELETED" => c.state \notin Pending
  <2>1. CASE c.state = "WAITING_NOTIFICATION"
    BY <2>1 DEF SubscriptionDeleted, CancelTimer
  <2>2. CASE c.state \in Pending
    BY <2>2 DEF SubscriptionDeleted, CancelTimer
  <2>3. CASE c.state \in Waiting
    <3>1. d = [[e EXCEPT !.state = "DELETED"] EXCEPT
                  !.running = [e EXCEPT !.state = "DELETED"].running \ {c.timerId}]
      BY <2>3 DEF SubscriptionDeleted, CancelTimer
    <3>2. [e EXCEPT !.state = "DELETED"].running = e.running
      BY <1>1 DEF SubType
    <3> QED
      BY <2>3, <3>1, <3>2
  <2> QED
    BY <2>1, <2>2, <2>3
<1>3. e \in SubType /\ e.requests = c.requests /\ e.nbRetry = c.nbRetry
  BY <1>1 DEF SubType
<1> HIDE DEF d, e
<1>4. /\ d \in SubType
      /\ d.requests = c.requests
      /\ d.nbRetry = c.nbRetry
      /\ d.state = s
  <2>1. s \in States
    BY <1>1
  <2>2. CASE d = [e EXCEPT !.state = s]
    BY <1>3, <2>1, <2>2 DEF SubType
  <2>3. CASE d = [e EXCEPT !.state = s, !.running = e.running \ {c.timerId}]
    BY <1>3, <2>1, <2>3 DEF SubType
  <2> QED
    BY <1>2, <2>2, <2>3
<1>5. c.state \notin Pending => c.requests = {}
  BY DEF Core, RequestsByState
<1>6. c.state \in Pending => \A p, q \in c.requests : p = q
  BY DEF Core, RequestsByState, RequestsAlone
<1>7. SubInv(d, f, v)
  BY <1>2, <1>4, <1>5, <1>6
  DEF SubInv, Core, RequestsByState, RequestsAlone, UpToDate
<1> QED
  BY <1>4, <1>7 DEF d

-----------------------------------------------------------------------------
(* One lemma per action.  FinalStep is the step of EndIsFinal.              *)

FinalStep ==
    sub.state \notin Active \cup {"NOT_CREATED"} =>
        /\ sub'.state \notin Active
        /\ \A q \in sub'.requests \ sub.requests : q.status # "OK"

\* What an action has to show.
LEMMA Close ==
    ASSUME version' \in Nat, fired' \subseteq TimerIds, registered' \in BOOLEAN,
           stored' \in BOOLEAN, resource' \in BOOLEAN, minimalTime' \in BOOLEAN,
           SubInv(sub', fired', version'),
           registered' <=> sub'.state \in Active,
           registered' => stored',
           \A q \in sub'.requests : q.status = "EXPIRED" => ~stored',
           sub'.state # "NOT_CREATED"
    PROVE  IInv'
<1>1. TypeOK'
  BY DEF TypeOK, SubInv
<1>2. \A q \in sub'.requests : q.status = "EXPIRED" => ~registered'
  BY DEF SubInv, RequestsByState
<1>3. ToldExpiredOnlyWhenGone'
  BY <1>2 DEF ToldExpiredOnlyWhenGone
<1>4. RegisteredIffActive'
  BY DEF RegisteredIffActive
<1> QED
  BY <1>1, <1>3, <1>4 DEF IInv

\* Setting the expiration timer touches nothing else.
LEMMA SetExpirationTimerFields ==
    ASSUME NEW c \in SubType, NEW t \in TimerIds \cup {NoTimer}
    PROVE  LET d == SetExpirationTimer(c, t)
           IN  /\ d \in SubType
               /\ d.state = c.state
               /\ d.nbRetry = c.nbRetry
               /\ d.requests = c.requests
               /\ d.settled = c.settled
               /\ d.expirationTimerId = t
               /\ d.running = (c.running \ {c.expirationTimerId}) \cup ({t} \ {NoTimer})
BY DEF SetExpirationTimer, SubType

\* SubCreateOp.postCommit.
LEMMA CreateInv ==
    ASSUME IInv, NEW when, Create(when)
    PROVE  IInv' /\ FinalStep
<1> DEFINE b == [sub EXCEPT !.state = "WAITING_NOTIFICATION"]
<1>1. PICK t \in ExpirationTimers(sub, when) :
        LET c == SetExpirationTimer(b, t)
        IN IF when = "past"
           THEN SubscriptionExpired(c, TRUE)
           ELSE registered' = TRUE /\ stored' = TRUE /\ RetrieveAndSendNotify(c)
  BY DEF Create
<1>2. /\ sub.state = "NOT_CREATED"
      /\ version = 0 /\ version' = 0
      /\ fired' = fired /\ resource' = resource
      /\ minimalTime' \in BOOLEAN
  BY DEF Create, IInv
<1>3. sub.requests = {}
  BY <1>2 DEF IInv, SubInv, RequestsByState
<1>4. /\ b \in SubType /\ b.state = "WAITING_NOTIFICATION"
      /\ b.requests = {} /\ b.nbRetry \in -1 .. MaxRetry
  <2>1. sub \in SubType /\ sub.nbRetry \in -1 .. MaxRetry
    BY DEF IInv, SubInv
  <2> QED
    BY <1>3, <2>1, StatesKnown DEF SubType
<1>5. t \in TimerIds \cup {NoTimer}
  BY DEF ExpirationTimers, FreeTimers
<1> DEFINE c == SetExpirationTimer(b, t)
<1> HIDE DEF b
<1>6. /\ c \in SubType /\ c.state = "WAITING_NOTIFICATION"
      /\ c.requests = {} /\ c.nbRetry \in -1 .. MaxRetry
  BY <1>4, <1>5, SetExpirationTimerFields
<1>7. FinalStep
  BY <1>2 DEF FinalStep
<1>8. CASE when = "past"
  <2>1. SubscriptionExpired(c, TRUE)
    BY <1>1, <1>8
  <2> HIDE DEF c
  <2>2. Core(c)
    BY <1>6 DEF Core, RequestsByState, RequestsAlone
  <2>3. /\ SubInv(sub', fired', version')
        /\ sub'.state \notin Active \cup {"NOT_CREATED"}
        /\ registered' = FALSE
        /\ stored' \in BOOLEAN
        /\ \A q \in sub'.requests : q.status = "EXPIRED" => ~stored'
    BY <1>2, <1>6, <2>1, <2>2, ExpiredInv
  <2> QED
    BY <1>2, <1>7, <2>3, Close DEF IInv, TypeOK
<1>9. CASE when # "past"
  <2>1. registered' = TRUE /\ stored' = TRUE /\ RetrieveAndSendNotify(c)
    BY <1>1, <1>9
  <2> HIDE DEF c
  <2>2. Ready(c, version')
    BY <1>2, <1>6 DEF Ready
  <2>3. Result(c, sub', fired', version')
    BY <1>2, <1>6, <2>1, <2>2, RetrieveInv
  <2>4. /\ SubInv(sub', fired', version')
        /\ sub'.state \in Active
        /\ \A q \in sub'.requests : q.status # "EXPIRED"
    BY <1>6, <2>3 DEF Result
  <2> QED
    BY <1>2, <1>7, <2>1, <2>4, Close DEF IInv, TypeOK
<1> QED
  BY <1>8, <1>9

\* SubUpdateOp.postCommit.
LEMMA UpdateInv ==
    ASSUME IInv, NEW when, Update(when)
    PROVE  IInv' /\ FinalStep
<1>1. PICK t \in ExpirationTimers(sub, when) :
        LET c == SetExpirationTimer(sub, t)
        IN IF when = "past"
           THEN SubscriptionExpired(c, stored)
           ELSE sub' = c /\ UNCHANGED <<registered, stored>>
  BY DEF Update
<1>2. /\ registered = TRUE /\ stored = TRUE /\ sub.state \in Active
      /\ version' = version /\ version \in Nat
      /\ fired' = fired /\ resource' = resource
      /\ minimalTime' \in BOOLEAN
  BY DEF Update, IInv, RegisteredIffActive, TypeOK
<1>3. t \in TimerIds \cup {NoTimer}
  BY DEF ExpirationTimers, FreeTimers
<1>4. sub \in SubType /\ SubInv(sub, fired, version)
  BY DEF IInv, SubInv
<1> DEFINE c == SetExpirationTimer(sub, t)
<1>5. /\ c \in SubType
      /\ c.state = sub.state
      /\ c.nbRetry = sub.nbRetry
      /\ c.requests = sub.requests
      /\ c.settled = sub.settled
      /\ c.expirationTimerId = t
      /\ c.running = (sub.running \ {sub.expirationTimerId}) \cup ({t} \ {NoTimer})
  BY <1>3, <1>4, SetExpirationTimerFields
<1>6. Core(c)
  BY <1>4, <1>5 DEF Core, SubInv, RequestsByState, RequestsAlone
<1>7. FinalStep
  BY <1>2 DEF FinalStep
<1>8. CASE when = "past"
  <2>1. SubscriptionExpired(c, stored)
    BY <1>1, <1>8
  <2> HIDE DEF c
  <2>2. /\ SubInv(sub', fired', version')
        /\ sub'.state \notin Active \cup {"NOT_CREATED"}
        /\ registered' = FALSE
        /\ stored' \in BOOLEAN
        /\ \A q \in sub'.requests : q.status = "EXPIRED" => ~stored'
    BY <1>2, <1>5, <1>6, <2>1, ExpiredInv
  <2> QED
    BY <1>2, <1>7, <2>2, Close DEF IInv, TypeOK
<1>9. CASE when # "past"
  <2>1. sub' = c /\ registered' = registered /\ stored' = stored
    BY <1>1, <1>9
  <2>2. c.state \in Waiting => (c.running \cup fired') \ {c.expirationTimerId} # {}
    <3>1. t \notin sub.running \cup fired
      BY <1>2, <1>4, NoTimerAssumption
      DEF ExpirationTimers, FreeTimers, IInv, TypeOK, SubType
    <3>2. sub.state \in Waiting =>
             (sub.running \cup fired) \ {sub.expirationTimerId} # {}
      BY <1>4 DEF SubInv
    <3> QED
      BY <1>2, <1>5, <3>1, <3>2
  <2> HIDE DEF c
  <2>3. SubInv(sub', fired', version')
    BY <1>2, <1>4, <1>5, <1>6, <2>1, <2>2 DEF SubInv, Core, UpToDate
  <2>4. \A q \in sub'.requests : q.status # "EXPIRED"
    BY <1>2, <1>4, <1>5, <2>1 DEF SubInv, RequestsByState
  <2> QED
    BY <1>2, <1>5, <1>7, <2>1, <2>3, <2>4, Close DEF IInv, TypeOK
<1> QED
  BY <1>8, <1>9

\* SubDeleteOp.
LEMMA DeleteInv ==
    ASSUME IInv, Delete
    PROVE  IInv' /\ FinalStep
<1>1. /\ stored' = FALSE /\ registered' = FALSE
      /\ sub' = IF registered THEN SubscriptionDeleted(sub) ELSE sub
      /\ fired' = fired /\ resource' = resource
      /\ version' = version /\ minimalTime' = minimalTime
  BY DEF Delete
<1>2. Core(sub) /\ SubInv(sub, fired, version)
  BY DEF IInv, SubInv, Core
<1>3. CASE registered
  <2>1. sub.state \in Active
    BY <1>3 DEF IInv, RegisteredIffActive
  <2>2. SubInv(sub', fired', version') /\ sub'.state \in {"DELETED", "DELETING"}
    BY <1>1, <1>2, <1>3, <2>1, DeletedInv
  <2> QED
    BY <1>1, <2>1, <2>2, Close DEF IInv, TypeOK, FinalStep
<1>4. CASE ~registered
  <2>1. sub.state \notin Active \cup {"NOT_CREATED"}
    BY <1>4 DEF IInv, RegisteredIffActive, Delete
  <2> QED
    BY <1>1, <1>2, <1>4, <2>1, Close DEF IInv, TypeOK, FinalStep
<1> QED
  BY <1>3, <1>4

\* SubsManager.resourceUpdated.
LEMMA ResourceUpdatedInv ==
    ASSUME IInv, ResourceUpdated
    PROVE  IInv' /\ FinalStep
<1>1. /\ registered = TRUE /\ stored = TRUE /\ sub.state \in Active
      /\ version' = version + 1 /\ version \in Nat
      /\ fired' = fired /\ registered' = registered /\ stored' = stored
      /\ resource' = resource /\ minimalTime' = minimalTime
  BY DEF ResourceUpdated, UpdatedWhilePending, IInv, RegisteredIffActive, TypeOK
<1>2. sub \in SubType /\ SubInv(sub, fired, version)
  BY DEF IInv, SubInv
<1>3. FinalStep
  BY <1>1 DEF FinalStep
<1>4. ASSUME SubInv(sub', fired', version'), sub'.state \in Active
      PROVE  IInv' /\ FinalStep
  <2>1. \A q \in sub'.requests : q.status # "EXPIRED"
    BY <1>4 DEF SubInv, RequestsByState
  <2> QED
    BY <1>1, <1>3, <1>4, <2>1, Close DEF IInv, TypeOK
<1>5. CASE sub.state = "WAITING_NOTIFICATION"
  <2>1. sub.requests = {}
    BY <1>2, <1>5 DEF SubInv, RequestsByState
  <2> DEFINE c == [sub EXCEPT !.state = "PENDING_NOTIFY"]
  <2>2. /\ c \in SubType /\ c.state = "PENDING_NOTIFY"
        /\ c.requests = {} /\ c.nbRetry = sub.nbRetry
    BY <1>2, <2>1, StatesKnown DEF SubType
  <2>3. Ready(c, version')
    BY <1>2, <2>2 DEF Ready, SubInv
  <2>4. CASE SendNotify(c, "OK")
    <3> HIDE DEF c
    <3>1. Result(c, sub', fired', version')
      BY <1>1, <2>2, <2>3, <2>4, SendNotifyInv DEF Status
    <3> QED
      BY <1>4, <2>2, <3>1 DEF Result
  <2>5. CASE sub' = c
    <3> HIDE DEF c
    <3>1. SubInv(sub', fired', version')
      BY <2>2, <2>3, <2>5
      DEF Ready, SubInv, RequestsByState, RequestsAlone, UpToDate
    <3> QED
      BY <1>4, <2>2, <2>5, <3>1
  <2>6. ASSUME NEW t \in FreeTimers(sub),
               sub' = StartTimer([sub EXCEPT !.state = "WAITING_MINT"], t)
        PROVE  IInv' /\ FinalStep
    <3>1. t \in TimerIds /\ t # sub.expirationTimerId
      BY DEF FreeTimers
    <3>2. /\ sub' \in SubType /\ sub'.state = "WAITING_MINT"
          /\ sub'.requests = {} /\ sub'.nbRetry = sub.nbRetry
          /\ t \in sub'.running
          /\ sub'.expirationTimerId = sub.expirationTimerId
      BY <1>2, <2>1, <2>6, <3>1, StatesKnown DEF SubType, StartTimer
    <3>3. SubInv(sub', fired', version')
      BY <1>2, <3>1, <3>2
      DEF SubInv, RequestsByState, RequestsAlone, UpToDate
    <3> QED
      BY <1>4, <3>2, <3>3
  <2> QED
    BY <1>5, <2>4, <2>5, <2>6 DEF ResourceUpdated, UpdatedWhilePending
<1>6. ASSUME NEW s \in Pending \cup {"WAITING_RETRY"}, NEW n, n = -1,
             sub' = [sub EXCEPT !.state = s, !.nbRetry = n],
             sub.state \in Pending <=> s = "PENDING_NOTIFY_AND_NOTIFICATION",
             sub.state \in Pending \cup {"WAITING_RETRY"},
             s # "PENDING_NOTIFY"
      PROVE  IInv' /\ FinalStep
  <2>1. n \in Int /\ s \in States
    BY <1>6, StatesKnown
  <2>2. /\ sub' \in SubType /\ sub'.state = s
        /\ sub'.requests = sub.requests /\ sub'.nbRetry = n
        /\ sub'.running = sub.running
        /\ sub'.expirationTimerId = sub.expirationTimerId
    BY <1>2, <1>6, <2>1 DEF SubType
  <2>3. n \in -1 .. MaxRetry
    BY <1>6, MaxRetryAssumption
  <2>4. SubInv(sub', fired', version')
    BY <1>1, <1>2, <1>6, <2>2, <2>3
    DEF SubInv, RequestsByState, RequestsAlone, UpToDate
  <2> QED
    BY <1>4, <1>6, <2>2, <2>4
<1>7. CASE sub.state \in Pending
  <2>1. sub' = [sub EXCEPT !.state = "PENDING_NOTIFY_AND_NOTIFICATION",
                           !.nbRetry = -1]
    BY <1>7 DEF ResourceUpdated, UpdatedWhilePending
  <2> QED
    BY <1>6, <1>7, <2>1
<1>8. CASE sub.state = "WAITING_MINT"
  <2>1. sub' = sub
    BY <1>8 DEF ResourceUpdated, UpdatedWhilePending
  <2>2. SubInv(sub', fired', version')
    BY <1>1, <1>2, <1>8, <2>1 DEF SubInv, UpToDate
  <2> QED
    BY <1>4, <1>8, <2>1, <2>2
<1>9. CASE sub.state = "WAITING_RETRY"
  <2>1. sub' = [sub EXCEPT !.nbRetry = -1]
    BY <1>9 DEF ResourceUpdated, UpdatedWhilePending
  <2> DEFINE n == -1
  <2>2. n \in Int /\ n \in -1 .. MaxRetry
    BY MaxRetryAssumption
  <2>3. sub' = [sub EXCEPT !.nbRetry = n]
    BY <2>1
  <2> HIDE DEF n
  <2>4. /\ sub' \in SubType /\ sub'.state = sub.state
        /\ sub'.requests = sub.requests /\ sub'.nbRetry = n
        /\ sub'.running = sub.running
        /\ sub'.expirationTimerId = sub.expirationTimerId
    BY <1>2, <2>2, <2>3 DEF SubType
  <2>5. SubInv(sub', fired', version')
    BY <1>1, <1>2, <1>9, <2>2, <2>4
    DEF SubInv, RequestsByState, RequestsAlone, UpToDate
  <2> QED
    BY <1>4, <1>9, <2>4, <2>5
<1> QED
  BY <1>1, <1>5, <1>7, <1>8, <1>9

\* SubsDeleteOp.postCommit.
LEMMA ResourceDeletedInv ==
    ASSUME IInv, ResourceDeleted
    PROVE  IInv' /\ FinalStep
<1>1. /\ sub.state # "NOT_CREATED"
      /\ stored' = FALSE /\ registered' = FALSE /\ resource' = FALSE
      /\ fired' = fired /\ version' = version /\ minimalTime' = minimalTime
      /\ version \in Nat
  BY DEF ResourceDeleted, IInv, TypeOK
<1>2. sub \in SubType /\ SubInv(sub, fired, version)
  BY DEF IInv, SubInv
<1>3. CASE registered
  <2>1. sub.state \in Active
    BY <1>3 DEF IInv, RegisteredIffActive
  <2> DEFINE c == CancelTimer(sub, sub.expirationTimerId)
  <2> DEFINE d == EndFrom(c, "DELETING_PENDING_NOTIFY", "DELETING")
  <2>2. SendErrorNotify(d, "DELETED")
    BY <1>3 DEF ResourceDeleted
  <2>3. /\ c \in SubType /\ c.state = sub.state
        /\ c.requests = sub.requests /\ c.nbRetry = sub.nbRetry
    BY <1>2 DEF SubType, CancelTimer
  <2> HIDE DEF c
  <2>4. Core(c)
    BY <1>2, <2>3 DEF SubInv, Core, RequestsByState, RequestsAlone
  <2>5. Ready(d, version') /\ d.state \in Ending
    BY <2>1, <2>3, <2>4, EndFromReady
  <2> HIDE DEF d
  <2>6. Result(d, sub', fired', version')
    BY <1>1, <2>2, <2>5, SendErrorNotifyInv DEF Status
  <2>7. SubInv(sub', fired', version') /\ sub'.state \notin Active \cup {"NOT_CREATED"}
    BY <2>5, <2>6 DEF Result
  <2> QED
    BY <1>1, <2>1, <2>7, Close DEF IInv, TypeOK, FinalStep
<1>4. CASE ~registered
  <2>1. sub' = sub /\ sub.state \notin Active
    BY <1>4 DEF ResourceDeleted, IInv, RegisteredIffActive
  <2> QED
    BY <1>1, <1>2, <2>1, Close DEF IInv, TypeOK, FinalStep
<1> QED
  BY <1>3, <1>4

\* A timer starts its task.
LEMMA TimerFiresInv ==
    ASSUME IInv, NEW t \in TimerIds, TimerFires(t)
    PROVE  IInv' /\ FinalStep
<1>1. /\ t \in sub.running
      /\ fired' = fired \cup {t}
      /\ sub' = [sub EXCEPT !.running = sub.running \ {t}]
      /\ registered' = registered /\ stored' = stored /\ resource' = resource
      /\ version' = version /\ minimalTime' = minimalTime
  BY DEF TimerFires
<1>2. sub \in SubType /\ SubInv(sub, fired, version)
  BY DEF IInv, SubInv
<1>3. /\ sub' \in SubType /\ sub'.state = sub.state
      /\ sub'.requests = sub.requests /\ sub'.nbRetry = sub.nbRetry
      /\ sub'.settled = sub.settled
      /\ sub'.running = sub.running \ {t}
      /\ sub'.expirationTimerId = sub.expirationTimerId
  BY <1>1, <1>2 DEF SubType
<1>4. sub'.running \cup fired' = sub.running \cup fired
  BY <1>1, <1>3
<1>5. SubInv(sub', fired', version')
  BY <1>1, <1>2, <1>3, <1>4
  DEF SubInv, RequestsByState, RequestsAlone, UpToDate
<1>6. TypeOK'
  BY <1>1, <1>5 DEF IInv, TypeOK, SubInv
<1> QED
  BY <1>1, <1>3, <1>5, <1>6
  DEF IInv, RegisteredIffActive, ToldExpiredOnlyWhenGone, FinalStep

-----------------------------------------------------------------------------
(* Confirms *)

\* c is sub once the confirm of q is received (its settled version aside).
Took(c, q) ==
    /\ c \in SubType
    /\ c.state = sub.state
    /\ c.nbRetry = sub.nbRetry
    /\ c.requests = sub.requests \ {q}
    /\ c.running = sub.running
    /\ c.expirationTimerId = sub.expirationTimerId

\* The states a request can be confirmed in, and what stays in flight.
LEMMA TookFacts ==
    ASSUME IInv, NEW q \in sub.requests, NEW c, Took(c, q)
    PROVE  /\ sub.state \in Pending \cup Ending \cup
                 {"EXPIRING_PENDING_NOTIFY_WAITING_RETRY",
                  "DELETING_PENDING_NOTIFY_WAITING_RETRY"}
           /\ sub.state \in Pending => q.status = "OK"
           /\ sub.state \in Pending \cup {"EXPIRING", "DELETING"} \cup
                 {"EXPIRING_PENDING_NOTIFY_WAITING_RETRY",
                  "DELETING_PENDING_NOTIFY_WAITING_RETRY"}
                 => c.requests = {}
           /\ \A p, r \in c.requests : p = r
           /\ q.status # "OK" => \A p \in c.requests : p.status = "OK"
           /\ Core(c)
<1>1. SubInv(sub, fired, version)
  BY DEF IInv
<1>2. /\ RequestsByState(sub) /\ RequestsAlone(sub)
      /\ sub.nbRetry \in -1 .. MaxRetry
  BY <1>1 DEF SubInv
<1>3. sub.state \in Pending \cup Ending \cup
         {"EXPIRING_PENDING_NOTIFY_WAITING_RETRY",
          "DELETING_PENDING_NOTIFY_WAITING_RETRY"}
  BY <1>2 DEF RequestsByState
<1>4. sub.state \notin Ending => \A p \in sub.requests : p.status = "OK"
  BY <1>2 DEF RequestsByState
<1>5. c.requests = sub.requests \ {q}
  BY DEF Took
<1>6. \A p, r \in c.requests : p = r
  BY <1>2, <1>5 DEF RequestsAlone
<1>7. q.status # "OK" => \A p \in c.requests : p.status = "OK"
  BY <1>2, <1>5 DEF RequestsAlone
<1>8. sub.state \notin {"EXPIRING_PENDING_NOTIFY", "DELETING_PENDING_NOTIFY"}
         => c.requests = {}
  BY <1>2, <1>3, <1>4, <1>5 DEF RequestsAlone
<1>9. RequestsByState(c) /\ RequestsAlone(c)
  BY <1>2, <1>5, <1>6 DEF Took, RequestsByState, RequestsAlone
<1> QED
  BY <1>2, <1>3, <1>4, <1>6, <1>7, <1>8, <1>9 DEF Took, Core

\* A confirm that only moves an ending manager one state forward.
LEMMA AdvanceInv ==
    ASSUME IInv, NEW q \in sub.requests, NEW c, Took(c, q), NEW n,
           sub.state \notin Pending,
           sub.state \in EndingWaitingRetry =>
              n \in {"EXPIRING_WAITING_RETRY", "DELETING_WAITING_RETRY"},
           sub.state \in {"EXPIRING_PENDING_NOTIFY", "DELETING_PENDING_NOTIFY"} =>
              n \in {"EXPIRING", "DELETING"},
           sub.state \in {"EXPIRING", "DELETING"} => n = "DELETED",
           sub' = [c EXCEPT !.state = n],
           UNCHANGED <<fired, registered, stored, resource, version, minimalTime>>
    PROVE  IInv' /\ FinalStep
<1>1. SubInv(sub, fired, version)
  BY DEF IInv
<1>2. /\ sub.state \in Ending \cup
              {"EXPIRING_PENDING_NOTIFY_WAITING_RETRY",
               "DELETING_PENDING_NOTIFY_WAITING_RETRY"}
      /\ sub.state \notin {"EXPIRING_PENDING_NOTIFY", "DELETING_PENDING_NOTIFY"}
            => c.requests = {}
      /\ \A p, r \in c.requests : p = r
      /\ Core(c)
  BY TookFacts
<1>3. n \in {"EXPIRING_WAITING_RETRY", "DELETING_WAITING_RETRY",
             "EXPIRING", "DELETING", "DELETED"}
  BY <1>2
<1>4. n \in States
  BY <1>3, StatesKnown
<1>5. /\ sub' \in SubType /\ sub'.state = n
      /\ sub'.requests = c.requests /\ sub'.nbRetry = c.nbRetry
      /\ sub'.running = c.running
      /\ sub'.expirationTimerId = c.expirationTimerId
  BY <1>4 DEF Took, SubType
<1>6. RequestsByState(sub') /\ RequestsAlone(sub')
  BY <1>2, <1>3, <1>5 DEF RequestsByState, RequestsAlone
<1>7. sub'.state \in EndingWaitingRetry =>
         (sub'.running \cup fired') \ {sub'.expirationTimerId} # {}
  BY <1>1, <1>2, <1>3, <1>5 DEF SubInv, Took
<1>8. SubInv(sub', fired', version')
  BY <1>2, <1>3, <1>5, <1>6, <1>7 DEF SubInv, Core, UpToDate
<1>9. registered = FALSE
  BY <1>2 DEF IInv, RegisteredIffActive, TypeOK
<1>10. \A p \in sub'.requests : p.status = "EXPIRED" => ~stored'
  BY <1>5 DEF IInv, ToldExpiredOnlyWhenGone, Took
<1>11. FinalStep
  BY <1>3, <1>5 DEF FinalStep, Took
<1> QED
  BY <1>3, <1>5, <1>8, <1>9, <1>10, <1>11, Close DEF IInv, TypeOK

\* doSuccessConfirm.
LEMMA SuccessInv ==
    ASSUME IInv, NEW q \in sub.requests, DoSuccessConfirm(q),
           UNCHANGED <<fired, resource, version, minimalTime>>
    PROVE  IInv' /\ FinalStep
<1> DEFINE r == Received(q)
<1> DEFINE k == IF q.status = "OK" THEN q.version ELSE r.settled
<1> DEFINE c == [r EXCEPT !.settled = k]
<1>1. sub \in SubType /\ SubInv(sub, fired, version) /\ version \in Nat
  BY DEF IInv, SubInv, TypeOK
<1>2. /\ r \in SubType /\ r.state = sub.state /\ r.nbRetry = sub.nbRetry
      /\ r.requests = sub.requests \ {q} /\ r.running = sub.running
      /\ r.expirationTimerId = sub.expirationTimerId
  BY <1>1 DEF SubType, Received
<1>3. k \in Int
  <2>1. q \in Request
    BY <1>1 DEF SubType
  <2>2. q.version \in Int
    BY <2>1 DEF Request
  <2> QED
    BY <1>2, <2>2 DEF SubType
<1>4. Took(c, q) /\ c.settled = k
  <2> HIDE DEF r, k
  <2> QED
    BY <1>2, <1>3 DEF Took, SubType
<1>5. /\ registered' = registered /\ stored' = stored
      /\ CASE c.state = "PENDING_NOTIFY" ->
                  sub' = [c EXCEPT !.state = "WAITING_NOTIFICATION", !.nbRetry = 0]
            [] c.state = "PENDING_NOTIFY_AND_NOTIFICATION" ->
                  IF minimalTime
                  THEN \E t \in FreeTimers(c) :
                         sub' = StartTimer([c EXCEPT !.state = "WAITING_MINT",
                                                     !.nbRetry = 0], t)
                  ELSE RetrieveAndSendNotify(
                          [c EXCEPT !.state = "PENDING_NOTIFY", !.nbRetry = 0])
            [] OTHER -> sub' = [c EXCEPT !.state = SuccessState(c.state)]
  BY DEF DoSuccessConfirm
<1>6. sub.state = "PENDING_NOTIFY" => k = version
  <2>1. sub.state = "PENDING_NOTIFY" => q.status = "OK" /\ q.version = version
    BY <1>1, <1>4, TookFacts DEF SubInv, UpToDate
  <2> QED
    BY <2>1
<1> HIDE DEF c, k, r
<1>7. /\ sub.state \in Pending => c.requests = {}
      /\ c.state = sub.state /\ c \in SubType
      /\ c.nbRetry \in -1 .. MaxRetry
  BY <1>4, TookFacts DEF Took, Core
<1>8. ASSUME sub.state \in Pending, SubInv(sub', fired', version'),
             sub'.state \in Active, \A p \in sub'.requests : p.status # "EXPIRED"
      PROVE  IInv' /\ FinalStep
  <2>1. registered = TRUE /\ stored = TRUE
    BY <1>8 DEF IInv, RegisteredIffActive, TypeOK
  <2>2. FinalStep
    BY <1>8 DEF FinalStep
  <2> QED
    BY <1>1, <1>5, <1>8, <2>1, <2>2, Close DEF IInv, TypeOK
<1>9. CASE sub.state = "PENDING_NOTIFY"
  <2>1. sub' = [c EXCEPT !.state = "WAITING_NOTIFICATION", !.nbRetry = 0]
    BY <1>5, <1>7, <1>9
  <2>2. sub' \in SubType
    BY <1>7, <2>1, ResetType, StatesKnown
  <2>3. /\ sub'.state = "WAITING_NOTIFICATION" /\ sub'.requests = {}
        /\ sub'.nbRetry = 0 /\ sub'.settled = version
    BY <1>4, <1>6, <1>7, <1>9, <2>1 DEF SubType
  <2>4. SubInv(sub', fired', version')
    BY <2>2, <2>3, MaxRetryAssumption
    DEF SubInv, RequestsByState, RequestsAlone, UpToDate
  <2> QED
    BY <1>8, <1>9, <2>3, <2>4
<1>10. CASE sub.state = "PENDING_NOTIFY_AND_NOTIFICATION" /\ minimalTime
  <2> DEFINE e == [c EXCEPT !.state = "WAITING_MINT", !.nbRetry = 0]
  <2>1. PICK t \in FreeTimers(c) : sub' = StartTimer(e, t)
    BY <1>5, <1>7, <1>10
  <2>2. t \in TimerIds /\ t # c.expirationTimerId
    BY DEF FreeTimers
  <2>3. e \in SubType
    BY <1>7, ResetType, StatesKnown
  <2>4. /\ e.state = "WAITING_MINT" /\ e.requests = {} /\ e.nbRetry = 0
        /\ e.expirationTimerId = c.expirationTimerId
    BY <1>7, <1>10 DEF SubType
  <2> HIDE DEF e
  <2>5. /\ sub' \in SubType /\ sub'.state = "WAITING_MINT" /\ sub'.requests = {}
        /\ sub'.nbRetry = 0 /\ t \in sub'.running
        /\ sub'.expirationTimerId = c.expirationTimerId
    BY <2>1, <2>2, <2>3, <2>4 DEF SubType, StartTimer
  <2>6. SubInv(sub', fired', version')
    BY <2>2, <2>5, MaxRetryAssumption
    DEF SubInv, RequestsByState, RequestsAlone, UpToDate
  <2> QED
    BY <1>8, <1>10, <2>5, <2>6
<1>11. CASE sub.state = "PENDING_NOTIFY_AND_NOTIFICATION" /\ ~minimalTime
  <2> DEFINE e == [c EXCEPT !.state = "PENDING_NOTIFY", !.nbRetry = 0]
  <2>1. RetrieveAndSendNotify(e)
    BY <1>5, <1>7, <1>11
  <2>2. e \in SubType
    BY <1>7, ResetType, StatesKnown
  <2>3. e.state = "PENDING_NOTIFY" /\ e.requests = {} /\ e.nbRetry = 0
    BY <1>7, <1>11 DEF SubType
  <2> HIDE DEF e
  <2>4. Ready(e, version')
    BY <2>2, <2>3, MaxRetryAssumption DEF Ready
  <2>5. Result(e, sub', fired', version')
    BY <1>1, <2>1, <2>3, <2>4, RetrieveInv
  <2> QED
    BY <1>8, <1>11, <2>3, <2>5 DEF Result
<1>12. CASE sub.state \notin Pending
  <2>1. sub' = [c EXCEPT !.state = SuccessState(sub.state)]
    BY <1>5, <1>7, <1>12
  <2>2. sub.state \in Ending \cup {"EXPIRING_PENDING_NOTIFY_WAITING_RETRY",
                                   "DELETING_PENDING_NOTIFY_WAITING_RETRY"}
    BY <1>4, <1>12, TookFacts
  <2> DEFINE n == SuccessState(sub.state)
  <2>3. /\ sub.state \in EndingWaitingRetry =>
              n \in {"EXPIRING_WAITING_RETRY", "DELETING_WAITING_RETRY"}
        /\ sub.state \in {"EXPIRING_PENDING_NOTIFY", "DELETING_PENDING_NOTIFY"} =>
              n \in {"EXPIRING", "DELETING"}
        /\ sub.state \in {"EXPIRING", "DELETING"} => n = "DELETED"
    BY <2>2 DEF SuccessState
  <2> HIDE DEF n
  <2> QED
    BY <1>4, <1>5, <1>12, <2>1, <2>3, AdvanceInv DEF n
<1> QED
  BY <1>9, <1>10, <1>11, <1>12

\* doUnsuccessConfirm.
LEMMA UnsuccessInv ==
    ASSUME IInv, NEW q \in sub.requests, NEW retryable \in BOOLEAN,
           DoUnsuccessConfirm(q, retryable),
           UNCHANGED <<fired, resource, version, minimalTime>>
    PROVE  IInv' /\ FinalStep
<1> DEFINE c == Received(q)
<1>1. sub \in SubType /\ SubInv(sub, fired, version) /\ version \in Nat
  BY DEF IInv, SubInv, TypeOK
<1>2. Took(c, q)
  BY <1>1 DEF SubType, Received, Took
<1>3. /\ sub.state \in Pending => c.requests = {}
      /\ sub.state \in {"EXPIRING", "DELETING"} => c.requests = {}
      /\ \A p, r \in c.requests : p = r
      /\ q.status # "OK" => \A p \in c.requests : p.status = "OK"
      /\ Core(c) /\ c.state = sub.state /\ c.nbRetry = sub.nbRetry
      /\ c.requests \subseteq sub.requests
  BY <1>2, TookFacts DEF Took
<1>4. CASE sub.state \in Pending /\ Retry(c) /\ UNCHANGED <<registered, stored>>
  <2>1. Ready(c, version')
    BY <1>1, <1>3, <1>4 DEF Ready, Core, SubInv
  <2> HIDE DEF c
  <2>2. Result(c, sub', fired', version')
    BY <1>1, <1>4, <2>1, RetryInv
  <2>3. registered = TRUE /\ stored = TRUE
    BY <1>4 DEF IInv, RegisteredIffActive, TypeOK
  <2>4. /\ SubInv(sub', fired', version') /\ sub'.state \in Active
        /\ \A p \in sub'.requests : p.status # "EXPIRED"
    BY <1>3, <1>4, <2>2 DEF Result
  <2> QED
    BY <1>1, <1>4, <2>3, <2>4, Close DEF IInv, TypeOK, FinalStep
<1>5. CASE /\ sub.state \in Pending /\ registered' = FALSE /\ stored' = FALSE
           /\ sub' = SubscriptionDeleted(c)
  <2> HIDE DEF c
  <2>1. SubInv(sub', fired', version') /\ sub'.state \in {"DELETED", "DELETING"}
    BY <1>3, <1>5, DeletedInv
  <2> QED
    BY <1>1, <1>5, <2>1, Close DEF IInv, TypeOK, FinalStep
<1>6. CASE /\ sub.state \in Ending /\ q.status # "OK"
           /\ Retry(c) /\ UNCHANGED <<registered, stored>>
  <2>1. Ready(c, version')
    BY <1>3, <1>6 DEF Ready, Core
  <2> HIDE DEF c
  <2>2. Result(c, sub', fired', version') /\ sub'.requests = c.requests
    BY <1>1, <1>3, <1>6, <2>1, RetryInv, RetrySendsNothing
  <2>3. registered = FALSE
    BY <1>6 DEF IInv, RegisteredIffActive, TypeOK
  <2>4. /\ SubInv(sub', fired', version')
        /\ sub'.state \notin Active \cup {"NOT_CREATED"}
        /\ \A p \in sub'.requests : p.status = "OK"
    BY <1>3, <1>6, <2>2 DEF Result
  <2>5. FinalStep
    BY <1>3, <2>2, <2>4 DEF FinalStep
  <2> QED
    BY <1>1, <1>6, <2>3, <2>4, <2>5, Close DEF IInv, TypeOK
<1>7. CASE /\ sub.state \notin Pending /\ UNCHANGED <<registered, stored>>
           /\ sub' = [c EXCEPT !.state = UnsuccessState(c.state)]
  <2>1. sub.state \in Ending \cup {"EXPIRING_PENDING_NOTIFY_WAITING_RETRY",
                                   "DELETING_PENDING_NOTIFY_WAITING_RETRY"}
    BY <1>2, <1>7, TookFacts
  <2> DEFINE n == UnsuccessState(sub.state)
  <2>2. /\ sub.state \in EndingWaitingRetry =>
              n \in {"EXPIRING_WAITING_RETRY", "DELETING_WAITING_RETRY"}
        /\ sub.state \in {"EXPIRING_PENDING_NOTIFY", "DELETING_PENDING_NOTIFY"} =>
              n \in {"EXPIRING", "DELETING"}
        /\ sub.state \in {"EXPIRING", "DELETING"} => n = "DELETED"
    BY <2>1 DEF UnsuccessState
  <2>3. sub' = [c EXCEPT !.state = n]
    BY <1>3, <1>7
  <2> HIDE DEF n, c
  <2> QED
    BY <1>2, <1>7, <2>2, <2>3, AdvanceInv
<1> QED
  BY <1>3, <1>4, <1>5, <1>6, <1>7 DEF DoUnsuccessConfirm

\* Any confirm.
LEMMA ConfirmInv ==
    ASSUME IInv, NEW i, Confirm(i)
    PROVE  IInv' /\ FinalStep
BY SuccessInv, UnsuccessInv DEF Confirm

-----------------------------------------------------------------------------
(* Timeouts *)

\* timeout().
LEMMA TimeoutInv ==
    ASSUME IInv, NEW t, Timeout(t)
    PROVE  IInv' /\ FinalStep
<1>1. /\ t \in fired /\ fired' = fired \ {t} /\ fired \subseteq TimerIds
      /\ resource' = resource /\ minimalTime' = minimalTime
      /\ version' = version /\ version \in Nat
  BY DEF Timeout, IInv, TypeOK
<1>2. sub \in SubType /\ SubInv(sub, fired, version) /\ Core(sub)
  BY DEF IInv, SubInv, Core
<1>3. stored \in BOOLEAN /\ registered \in BOOLEAN
  BY DEF IInv, TypeOK
\* In a state that does not wait, consuming a timer changes nothing.
<1>4. ASSUME UNCHANGED <<sub, registered, stored>>,
             sub.state \notin Waiting \cup EndingWaitingRetry
      PROVE  IInv' /\ FinalStep
  <2>1. SubInv(sub', fired', version')
    BY <1>1, <1>2, <1>4 DEF SubInv
  <2>2. TypeOK'
    BY <1>1, <1>4, <2>1 DEF IInv, TypeOK
  <2> QED
    BY <1>1, <1>4, <2>1, <2>2
    DEF IInv, RegisteredIffActive, ToldExpiredOnlyWhenGone, FinalStep
\* The expiration timer, in a state that still waits for another one.
<1>5. ASSUME UNCHANGED <<sub, registered, stored>>, t = sub.expirationTimerId
      PROVE  IInv' /\ FinalStep
  <2>1. (sub.running \cup fired') \ {sub.expirationTimerId}
           = (sub.running \cup fired) \ {sub.expirationTimerId}
    BY <1>1, <1>5
  <2>2. SubInv(sub', fired', version')
    BY <1>1, <1>2, <1>5, <2>1 DEF SubInv
  <2>3. TypeOK'
    BY <1>1, <1>5, <2>2 DEF IInv, TypeOK
  <2> QED
    BY <1>1, <1>5, <2>2, <2>3
    DEF IInv, RegisteredIffActive, ToldExpiredOnlyWhenGone, FinalStep
<1>6. CASE t = sub.expirationTimerId /\ sub.state \in Active
  <2>1. SubscriptionExpired(sub, stored)
    BY <1>6 DEF Timeout
  <2>2. /\ SubInv(sub', fired', version')
        /\ sub'.state \notin Active \cup {"NOT_CREATED"}
        /\ registered' = FALSE
        /\ stored' \in BOOLEAN
        /\ \A q \in sub'.requests : q.status = "EXPIRED" => ~stored'
    BY <1>1, <1>2, <1>3, <1>6, <2>1, ExpiredInv
  <2> QED
    BY <1>1, <1>6, <2>2, Close DEF IInv, TypeOK, FinalStep
<1>7. CASE t = sub.expirationTimerId /\ sub.state \notin Active
  <2>1. sub' = sub /\ registered' = registered /\ stored' = stored
    BY <1>7 DEF Timeout, SubscriptionExpired
  <2> QED
    BY <1>5, <1>7, <2>1
<1>8. CASE t # sub.expirationTimerId /\ sub.state \in Waiting
  <2> DEFINE c == [sub EXCEPT !.state = "PENDING_NOTIFY"]
  <2>1. /\ RetrieveAndSendNotify(c)
        /\ registered' = registered /\ stored' = stored
    BY <1>8 DEF Timeout
  <2>2. sub.requests = {}
    BY <1>2, <1>8 DEF Core, RequestsByState
  <2>3. /\ c \in SubType /\ c.state = "PENDING_NOTIFY"
        /\ c.requests = {} /\ c.nbRetry = sub.nbRetry
    BY <1>2, <2>2, StatesKnown DEF SubType
  <2> HIDE DEF c
  <2>4. Ready(c, version')
    BY <1>2, <2>3 DEF Ready, Core
  <2>5. Result(c, sub', fired', version')
    BY <1>1, <2>1, <2>3, <2>4, RetrieveInv
  <2>6. /\ SubInv(sub', fired', version') /\ sub'.state \in Active
        /\ \A q \in sub'.requests : q.status # "EXPIRED"
    BY <2>3, <2>5 DEF Result
  <2>7. registered = TRUE /\ stored = TRUE
    BY <1>3, <1>8 DEF IInv, RegisteredIffActive
  <2> QED
    BY <1>1, <1>8, <2>1, <2>6, <2>7, Close DEF IInv, TypeOK, FinalStep
\* The retry of an ending manager that has left its waiting state for s.
<1>9. ASSUME NEW s \in Ending,
             sub.state \in EndingWaitingRetry,
             sub.requests # {} =>
                 s \in {"EXPIRING_PENDING_NOTIFY", "DELETING_PENDING_NOTIFY"}
      PROVE  LET c == [sub EXCEPT !.state = s]
             IN  /\ Ready(c, version')
                 /\ c.state = s
                 /\ c.requests = sub.requests
  <2> DEFINE c == [sub EXCEPT !.state = s]
  <2>1. /\ c \in SubType /\ c.state = s
        /\ c.requests = sub.requests /\ c.nbRetry = sub.nbRetry
    BY <1>2, StatesKnown DEF SubType
  <2> HIDE DEF c
  <2>2. /\ \A q \in sub.requests : q.status = "OK"
        /\ \A p, q \in sub.requests : p = q
    BY <1>2, <1>9 DEF Core, RequestsByState, RequestsAlone
  <2>3. Ready(c, version')
    BY <1>2, <1>9, <2>1, <2>2 DEF Ready, Core
  <2> QED
    BY <2>1, <2>3 DEF c
<1>10. /\ sub.state \in {"EXPIRING_WAITING_RETRY", "DELETING_WAITING_RETRY"}
             => sub.requests = {}
       /\ sub.state \in EndingWaitingRetry => \A q \in sub.requests : q.status = "OK"
  BY <1>2 DEF Core, RequestsByState
<1>11. ASSUME NEW c, c.state \in Ending, c.requests = sub.requests,
              sub.state \in EndingWaitingRetry,
              Result(c, sub', fired', version'), registered' = registered,
              stored' \in BOOLEAN,
              \A q \in sub'.requests : q.status = "EXPIRED" => ~stored'
       PROVE  IInv' /\ FinalStep
  <2>1. registered = FALSE
    BY <1>3, <1>11 DEF IInv, RegisteredIffActive
  <2>2. /\ SubInv(sub', fired', version')
        /\ sub'.state \notin Active \cup {"NOT_CREATED"}
        /\ \A q \in sub'.requests \ sub.requests : q.status # "OK"
    BY <1>11 DEF Result
  <2> QED
    BY <1>1, <1>11, <2>1, <2>2, Close DEF IInv, TypeOK, FinalStep
<1>12. CASE /\ t # sub.expirationTimerId
            /\ sub.state = "EXPIRING_PENDING_NOTIFY_WAITING_RETRY"
  <2> DEFINE c == [sub EXCEPT !.state = "EXPIRING_PENDING_NOTIFY"]
  <2>1. DeleteAndNotifyExpired(c, stored) /\ registered' = registered
    BY <1>12 DEF Timeout
  <2>2. /\ Ready(c, version') /\ c.state = "EXPIRING_PENDING_NOTIFY"
        /\ c.requests = sub.requests
    BY <1>9, <1>12
  <2> HIDE DEF c
  <2>3. /\ Result(c, sub', fired', version')
        /\ stored' \in BOOLEAN
        /\ \A q \in sub'.requests : q.status = "EXPIRED" => ~stored'
    BY <1>1, <1>3, <2>1, <2>2, DeleteAndNotifyInv
  <2> QED
    BY <1>11, <1>12, <2>1, <2>2, <2>3
<1>13. CASE /\ t # sub.expirationTimerId
            /\ sub.state = "EXPIRING_WAITING_RETRY"
  <2> DEFINE c == [sub EXCEPT !.state = "EXPIRING"]
  <2>1. DeleteAndNotifyExpired(c, stored) /\ registered' = registered
    BY <1>13 DEF Timeout
  <2>2. /\ Ready(c, version') /\ c.state = "EXPIRING"
        /\ c.requests = sub.requests
    BY <1>9, <1>10, <1>13
  <2> HIDE DEF c
  <2>3. /\ Result(c, sub', fired', version')
        /\ stored' \in BOOLEAN
        /\ \A q \in sub'.requests : q.status = "EXPIRED" => ~stored'
    BY <1>1, <1>3, <2>1, <2>2, DeleteAndNotifyInv
  <2> QED
    BY <1>11, <1>13, <2>1, <2>2, <2>3
<1>14. CASE /\ t # sub.expirationTimerId
            /\ sub.state = "DELETING_PENDING_NOTIFY_WAITING_RETRY"
  <2> DEFINE c == [sub EXCEPT !.state = "DELETING_PENDING_NOTIFY"]
  <2>1. /\ SendErrorNotify(c, "DELETED")
        /\ registered' = registered /\ stored' = stored
    BY <1>14 DEF Timeout
  <2>2. /\ Ready(c, version') /\ c.state = "DELETING_PENDING_NOTIFY"
        /\ c.requests = sub.requests
    BY <1>9, <1>14
  <2> HIDE DEF c
  <2>3. Result(c, sub', fired', version')
    BY <1>1, <2>1, <2>2, SendErrorNotifyInv DEF Status
  <2>4. \A q \in sub'.requests : q.status \in {"OK", "DELETED"}
    BY <2>1, <2>2, SendErrorNotifyStatus
  <2> QED
    BY <1>3, <1>11, <1>14, <2>1, <2>2, <2>3, <2>4
<1>15. CASE /\ t # sub.expirationTimerId
            /\ sub.state = "DELETING_WAITING_RETRY"
  <2> DEFINE c == [sub EXCEPT !.state = "DELETING"]
  <2>1. /\ SendErrorNotify(c, "DELETED")
        /\ registered' = registered /\ stored' = stored
    BY <1>15 DEF Timeout
  <2>2. /\ Ready(c, version') /\ c.state = "DELETING"
        /\ c.requests = sub.requests
    BY <1>9, <1>10, <1>15
  <2> HIDE DEF c
  <2>3. Result(c, sub', fired', version')
    BY <1>1, <2>1, <2>2, SendErrorNotifyInv DEF Status
  <2>4. \A q \in sub'.requests : q.status \in {"OK", "DELETED"}
    BY <2>1, <2>2, SendErrorNotifyStatus
  <2> QED
    BY <1>3, <1>11, <1>15, <2>1, <2>2, <2>3, <2>4
<1>16. CASE /\ t # sub.expirationTimerId
            /\ sub.state \notin Waiting \cup EndingWaitingRetry
  <2>1. sub' = sub /\ stored' = stored /\ registered' = registered
    BY <1>16 DEF Timeout
  <2> QED
    BY <1>4, <1>16, <2>1
<1> QED
  BY <1>6, <1>7, <1>8, <1>12, <1>13, <1>14, <1>15, <1>16

-----------------------------------------------------------------------------
(* Theorems *)

\* The initial state satisfies the invariant.
LEMMA InitInv == Init => IInv
<1> SUFFICES ASSUME Init PROVE IInv
  OBVIOUS
<1>1. /\ sub \in SubType /\ sub.state = "NOT_CREATED"
      /\ sub.requests = {} /\ sub.nbRetry = 0
  BY StatesKnown DEF Init, SubType
<1>2. SubInv(sub, fired, version)
  BY <1>1, MaxRetryAssumption
  DEF SubInv, RequestsByState, RequestsAlone, UpToDate
<1>3. TypeOK
  BY <1>2 DEF Init, TypeOK, SubInv
<1> QED
  BY <1>1, <1>2, <1>3
  DEF Init, IInv, RegisteredIffActive, ToldExpiredOnlyWhenGone

\* Every step preserves it, and is a step of EndIsFinal.
LEMMA NextInv == IInv /\ [Next]_vars => IInv' /\ (FinalStep \/ UNCHANGED vars)
<1> SUFFICES ASSUME IInv, [Next]_vars
             PROVE  IInv' /\ (FinalStep \/ UNCHANGED vars)
  OBVIOUS
<1>1. ASSUME NEW when \in Expirations, Create(when)
      PROVE  IInv' /\ FinalStep
  BY <1>1, CreateInv
<1>2. ASSUME NEW when \in Expirations, Update(when)
      PROVE  IInv' /\ FinalStep
  BY <1>2, UpdateInv
<1>3. CASE Delete
  BY <1>3, DeleteInv
<1>4. CASE ResourceUpdated
  BY <1>4, ResourceUpdatedInv
<1>5. CASE ResourceDeleted
  BY <1>5, ResourceDeletedInv
<1>6. ASSUME NEW i \in RequestIds, Confirm(i)
      PROVE  IInv' /\ FinalStep
  BY <1>6, ConfirmInv
<1>7. ASSUME NEW t \in TimerIds, TimerFires(t)
      PROVE  IInv' /\ FinalStep
  BY <1>7, TimerFiresInv
<1>8. ASSUME NEW t \in TimerIds, Timeout(t)
      PROVE  IInv' /\ FinalStep
  BY <1>8, TimeoutInv
<1>9. CASE UNCHANGED vars
  BY <1>9 DEF vars, IInv, TypeOK, SubInv, RegisteredIffActive,
              ToldExpiredOnlyWhenGone, RequestsByState, RequestsAlone, UpToDate
<1> QED
  BY <1>1, <1>2, <1>3, <1>4, <1>5, <1>6, <1>7, <1>8, <1>9 DEF Next

\* IInv is an invariant of the specification.
THEOREM SubManagerInductive == Spec => []IInv
<1>1. IInv /\ [Next]_vars => IInv'
  BY NextInv
<1> QED
  BY InitInv, <1>1, PTL DEF Spec

\* Type correctness of the subscription manager; in particular the retry
\* counter of retry() stays within -1 .. MaxRetry.
THEOREM SubManagerTypeOK == Spec => []TypeOK
<1>1. IInv => TypeOK
  BY DEF IInv
<1> QED
  BY <1>1, SubManagerInductive, PTL

\* The SubsManager holds exactly the active managers, each with its document.
THEOREM SubManagerRegistered == Spec => []RegisteredIffActive
<1>1. IInv => RegisteredIffActive
  BY DEF IInv
<1> QED
  BY <1>1, SubManagerInductive, PTL

\* At most one normal and one final notification are in flight.
THEOREM SubManagerOneNotify == Spec => []OneNotifyAtATime
<1>1. IInv => OneNotifyAtATime
  BY DEF IInv, SubInv, RequestsAlone, OneNotifyAtATime
<1> QED
  BY <1>1, SubManagerInductive, PTL

\* A waiting manager has a timer that will wake it up.
THEOREM SubManagerWaitingHasTimer == Spec => []WaitingHasTimer
<1>1. IInv => WaitingHasTimer
  BY DEF IInv, SubInv, WaitingHasTimer
<1> QED
  BY <1>1, SubManagerInductive, PTL

\* No confirm reaches a manager that is DELETED.
THEOREM SubManagerDeletedIsQuiet == Spec => []DeletedIsQuiet
<1>1. IInv => DeletedIsQuiet
  BY DEF IInv, SubInv, RequestsByState, DeletedIsQuiet
<1> QED
  BY <1>1, SubManagerInductive, PTL

\* No update is lost: back to WAITING_NOTIFICATION means it is settled.
THEOREM SubManagerNoLostUpdate == Spec => []NoLostUpdate
<1>1. IInv => NoLostUpdate
  BY DEF IInv, SubInv, UpToDate, NoLostUpdate
<1> QED
  BY <1>1, SubManagerInductive, PTL

\* The contact is told of the expiration only once the document is gone.
THEOREM SubManagerToldExpired == Spec => []ToldExpiredOnlyWhenGone
<1>1. IInv => ToldExpiredOnlyWhenGone
  BY DEF IInv
<1> QED
  BY <1>1, SubManagerInductive, PTL

\* A manager that has begun to end never becomes active again and never sends
\* a normal notification again.
THEOREM SubManagerEndIsFinal == Spec => EndIsFinal
<1>1. IInv /\ [Next]_vars =>
        [sub.state \notin Active \cup {"NOT_CREATED"} =>
           /\ sub'.state \notin Active
           /\ \A q \in sub'.requests \ sub.requests : q.status # "OK"]_vars
  BY NextInv DEF FinalStep
<1> QED
  BY <1>1, SubManagerInductive, PTL DEF Spec, EndIsFinal

=============================================================================
