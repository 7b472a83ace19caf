------------------------------ MODULE SubManager ------------------------------
(***************************************************************************)
(* One <subscription> of the SCL: scl/mem/SubManager.java, with the        *)
(* transient operations that create, update and delete it (SubCreateOp,    *)
(* SubUpdateOp, SubDeleteOp, SubsDeleteOp) and the entries of SubsManager  *)
(* that reach it.  The manager notifies a remote contact of every change   *)
(* of the subscribed resource, one notification at a time, retries failed  *)
(* notifications on a timer, and tells the contact when the subscription   *)
(* expires or the resource disappears.                                     *)
(*                                                                         *)
(* Every handler runs under the monitor of SclManagerImpl, so a handler is *)
(* one action.  What interleaves is what happens between handlers: confirms*)
(* of requests in flight, timers, API requests.  A timer whose task has    *)
(* started waits for the monitor in fired; cancelTimer no longer reaches   *)
(* it, so it is delivered to a manager that cancelled it.                  *)
(***************************************************************************)
EXTENDS Integers

CONSTANTS
    MaxRetry,    \* the literal 3 of retry()
    TimerIds,    \* ids of servlet timers; bounds the timers alive at once
    RequestIds,  \* ids of NOTIFY requests; bounds the requests in flight
    NoTimer,     \* the null timer id
    Faults,      \* the exceptions the environment may raise
    MaxVersion   \* bound: updates of the subscribed resource

AllFaults == {"send",      \* sendNotify: IOException, XoException, M2MException
              "retrieve",  \* getResponseRepresentation throws
              "storage",   \* the storage refuses a deletion
              "xo",        \* sendErrorNotify: XoException, only logged
              "encode"}    \* SubsManager.resourceUpdated cannot encode

ASSUME MaxRetryAssumption == MaxRetry \in Nat \ {0}
ASSUME NoTimerAssumption == NoTimer \notin TimerIds
ASSUME FaultsAssumption == Faults \subseteq AllFaults
ASSUME MaxVersionAssumption == MaxVersion \in Nat

VARIABLES
    sub,          \* the SubManager object, its timers and its requests
    fired,        \* timers whose task has started and waits for the monitor
    registered,   \* the SubManager is in its SubsManager's map
    stored,       \* the <subscription> document is in the storage
    resource,     \* the subscribed resource exists
    version,      \* updates of the resource that match the filter
    minimalTime   \* minimalTimeBetweenNotifications > 0

vars == <<sub, fired, registered, stored, resource, version, minimalTime>>

-----------------------------------------------------------------------------
(* States *)

Waiting == {"WAITING_MINT", "WAITING_RETRY"}
Pending == {"PENDING_NOTIFY", "PENDING_NOTIFY_AND_NOTIFICATION"}
Active  == {"WAITING_NOTIFICATION"} \cup Pending \cup Waiting
Ending  == {"EXPIRING_PENDING_NOTIFY", "DELETING_PENDING_NOTIFY",
            "EXPIRING", "DELETING"}
EndingWaitingRetry ==
    {"EXPIRING_PENDING_NOTIFY_WAITING_RETRY",
     "DELETING_PENDING_NOTIFY_WAITING_RETRY",
     "EXPIRING_WAITING_RETRY", "DELETING_WAITING_RETRY"}
States  == {"NOT_CREATED", "DELETED"} \cup Active \cup Ending
               \cup EndingWaitingRetry

\* NOT_CREATED stands for the time before SubCreateOp builds the object.
Status  == {"OK", "EXPIRED", "DELETED"}
Request == [id : RequestIds, status : Status, version : Nat]

SubType ==
    [state : States,
     nbRetry : Int,
     timerId : TimerIds \cup {NoTimer},
     expirationTimerId : TimerIds \cup {NoTimer},
     running : SUBSET TimerIds,       \* started, not fired, not cancelled
     requests : SUBSET Request,       \* sent, confirm not yet delivered
     settled : Int,                   \* last version confirmed or given up
     expiredSends : Nat]              \* EXPIRED notifications sent

-----------------------------------------------------------------------------
(* Timers and requests.  c is the manager in the middle of a handler.       *)

\* Ids of no timer that is alive (the one being handled is not) and that the
\* manager does not take for its expiration timer.
FreeTimers(c) == TimerIds \ (c.running \cup fired' \cup {c.expirationTimerId})

StartTimer(c, t) == [c EXCEPT !.timerId = t, !.running = @ \cup {t}]

CancelTimer(c, t) == [c EXCEPT !.running = @ \ {t}]

FreeRequestIds(c) == RequestIds \ {q.id : q \in c.requests}

\* request.send(10000L): the request carries the state of the resource now.
Deliver(c, status) ==
    \E i \in FreeRequestIds(c) :
        sub' = [c EXCEPT
                  !.requests = @ \cup {[id |-> i, status |-> status,
                                        version |-> version']},
                  !.expiredSends = IF status = "EXPIRED" THEN @ + 1 ELSE @]

\* getResponseRepresentation returns null: nothing matches the filter.
NoRepresentation(c) ==
    sub' = [c EXCEPT !.state = "WAITING_NOTIFICATION", !.settled = version']

-----------------------------------------------------------------------------
(* retry() *)

\* Mutant: a retry while ending waits in the state of an active manager.
MutantRetryState(s) == IF s \in Pending \cup Ending THEN "WAITING_RETRY" ELSE s

\* The state in which a failed sending waits for its retry; retry() leaves
\* every other state alone.
RetryState(s) ==
    CASE s \in Pending                  -> "WAITING_RETRY"
      [] s = "EXPIRING_PENDING_NOTIFY"  -> "EXPIRING_PENDING_NOTIFY_WAITING_RETRY"
      [] s = "DELETING_PENDING_NOTIFY"  -> "DELETING_PENDING_NOTIFY_WAITING_RETRY"
      [] s = "EXPIRING"                 -> "EXPIRING_WAITING_RETRY"
      [] s = "DELETING"                 -> "DELETING_WAITING_RETRY"
      [] OTHER                          -> s

Defer(c) ==
    \E t \in FreeTimers(c) :
        sub' = StartTimer([c EXCEPT !.state = RetryState(@), !.nbRetry = @ + 1], t)

\* "Omit this notification".  From PENDING_NOTIFY_AND_NOTIFICATION the code
\* retrieves the newer representation and starts over with nbRetry = 0.
GiveUp(c) ==
    CASE c.state = "PENDING_NOTIFY" ->
            sub' = [c EXCEPT !.state = "WAITING_NOTIFICATION", !.nbRetry = 0,
                             !.settled = version']
      [] c.state = "PENDING_NOTIFY_AND_NOTIFICATION" ->
            LET d == [c EXCEPT !.state = "PENDING_NOTIFY", !.nbRetry = 0]
            IN \/ Deliver(d, "OK")
               \/ NoRepresentation(d)
               \/ {"send", "retrieve"} \cap Faults # {} /\ Defer(d)
      [] c.state = "EXPIRING_PENDING_NOTIFY" ->
            sub' = [c EXCEPT !.state = "EXPIRING", !.nbRetry = 0]
      [] c.state = "DELETING_PENDING_NOTIFY" ->
            sub' = [c EXCEPT !.state = "DELETING", !.nbRetry = 0]
      [] c.state \in {"EXPIRING", "DELETING"} ->
            sub' = [c EXCEPT !.state = "DELETED", !.nbRetry = 0]
      [] OTHER -> sub' = c

\* Mutant: one retry too many.
MutantRetry(c) == IF c.nbRetry <= MaxRetry THEN Defer(c) ELSE GiveUp(c)

Retry(c) == IF c.nbRetry < MaxRetry THEN Defer(c) ELSE GiveUp(c)

-----------------------------------------------------------------------------
(* Sending notifications *)

SendNotify(c, status) ==
    \/ Deliver(c, status)
    \/ "send" \in Faults /\ Retry(c)

SendErrorNotify(c, status) ==
    \/ SendNotify(c, status)
    \/ "xo" \in Faults /\ sub' = c

RetrieveAndSendNotify(c) ==
    \/ SendNotify([c EXCEPT !.state = "PENDING_NOTIFY"], "OK")
    \/ NoRepresentation(c)
    \/ "retrieve" \in Faults /\ Retry(c)

-----------------------------------------------------------------------------
(* Expiration and deletion *)

\* Mutant: the contact is told although the deletion has failed.
MutantDeleteAndNotifyExpired(c, present) ==
    /\ \/ present /\ stored' = FALSE
       \/ (~present \/ "storage" \in Faults) /\ stored' = present
    /\ SendErrorNotify(c, "EXPIRED")

\* storage.delete(path), which also throws when there is no such document
\* (present is FALSE), then the EXPIRED notification; a StorageException goes
\* to retry().
DeleteAndNotifyExpired(c, present) ==
    \/ present /\ stored' = FALSE /\ SendErrorNotify(c, "EXPIRED")
    \/ (~present \/ "storage" \in Faults) /\ stored' = present /\ Retry(c)

\* Mutant: the notification in flight is forgotten.
MutantEndFrom(c, pending, idle) ==
    IF c.state \in Waiting
    THEN CancelTimer([c EXCEPT !.state = idle, !.nbRetry = 0], c.timerId)
    ELSE [c EXCEPT !.state = idle, !.nbRetry = 0]

\* The state an active manager ends in, its retry timer cancelled.
EndFrom(c, pending, idle) ==
    CASE c.state = "WAITING_NOTIFICATION" -> [c EXCEPT !.state = idle]
      [] c.state \in Pending -> [c EXCEPT !.state = pending, !.nbRetry = 0]
      [] c.state \in Waiting ->
            CancelTimer([c EXCEPT !.state = idle, !.nbRetry = 0], c.timerId)

\* Mutant: the manager stays in the SubsManager's map.
MutantSubscriptionExpired(c, present) ==
    /\ UNCHANGED registered
    /\ IF c.state \in Active
       THEN DeleteAndNotifyExpired(
               EndFrom(c, "EXPIRING_PENDING_NOTIFY", "EXPIRING"), present)
       ELSE sub' = c /\ UNCHANGED stored

SubscriptionExpired(c, present) ==
    IF c.state \in Active
    THEN /\ registered' = FALSE
         /\ DeleteAndNotifyExpired(
               EndFrom(c, "EXPIRING_PENDING_NOTIFY", "EXPIRING"), present)
    ELSE sub' = c /\ UNCHANGED <<registered, stored>>

\* Mutant: the confirm of the notification in flight is not awaited.
MutantSubscriptionDeleted(c) ==
    IF c.state \in Active
    THEN CancelTimer(CancelTimer([c EXCEPT !.state = "DELETED"], c.expirationTimerId),
                     c.timerId)
    ELSE c

SubscriptionDeleted(c) ==
    LET d == CancelTimer(c, c.expirationTimerId)
    IN CASE c.state = "WAITING_NOTIFICATION" -> [d EXCEPT !.state = "DELETED"]
         [] c.state \in Pending -> [d EXCEPT !.state = "DELETING"]
         [] c.state \in Waiting ->
               CancelTimer([d EXCEPT !.state = "DELETED"], c.timerId)
         [] OTHER -> c

\* startExpirationTimer cancels the old timer; it starts a new one (a fresh
\* id) when the expirationTime the manager now holds is in the future.
ExpirationTimers(c, when) ==
    IF when = "future" THEN FreeTimers(c) \ {c.timerId} ELSE {NoTimer}

\* Mutant: the other timer is cancelled.
MutantSetExpirationTimer(c, t) ==
    [c EXCEPT !.expirationTimerId = t,
              !.running = (@ \ {c.timerId}) \cup ({t} \ {NoTimer})]

SetExpirationTimer(c, t) ==
    [c EXCEPT !.expirationTimerId = t,
              !.running = (@ \ {c.expirationTimerId}) \cup ({t} \ {NoTimer})]

-----------------------------------------------------------------------------
(* API requests on the subscription and on the subscribed resource *)

\* SubCreateOp.postCommit, the transaction having committed.
Create(when) ==
    /\ sub.state = "NOT_CREATED"
    /\ minimalTime' \in BOOLEAN
    /\ UNCHANGED <<fired, resource, version>>
    /\ \E t \in ExpirationTimers(sub, when) :
         LET c == SetExpirationTimer(
                     [sub EXCEPT !.state = "WAITING_NOTIFICATION"], t)
         IN IF when = "past"
            THEN SubscriptionExpired(c, TRUE)
            ELSE registered' = TRUE /\ stored' = TRUE /\ RetrieveAndSendNotify(c)

\* SubUpdateOp.postCommit.  When the SubsManager no longer has the manager,
\* postCommit throws on the null reference and changes nothing here.
Update(when) ==
    /\ registered
    /\ minimalTime' \in BOOLEAN
    /\ UNCHANGED <<fired, resource, version>>
    /\ \E t \in ExpirationTimers(sub, when) :
         LET c == SetExpirationTimer(sub, t)
         IN IF when = "past"
            THEN SubscriptionExpired(c, stored)
            ELSE sub' = c /\ UNCHANGED <<registered, stored>>

\* SubDeleteOp: prepare takes the manager out of the SubsManager, the commit
\* deletes the document, postCommit calls subscriptionDeleted (and throws on
\* the null reference when prepare found no manager).
Delete ==
    /\ stored
    /\ stored' = FALSE
    /\ registered' = FALSE
    /\ sub' = IF registered THEN SubscriptionDeleted(sub) ELSE sub
    /\ UNCHANGED <<fired, resource, version, minimalTime>>

\* Mutant: the update is not remembered.
MutantForgetsUpdate(c) == [c EXCEPT !.nbRetry = -1]

\* resourceUpdated while a notification is in flight.
UpdatedWhilePending(c) ==
    [c EXCEPT !.state = "PENDING_NOTIFY_AND_NOTIFICATION", !.nbRetry = -1]

\* SubsManager.resourceUpdated for a resource that matches the filter: the
\* manager's resourceUpdated decides, SubsManager encodes and sends.  The
\* clock is abstracted: whether the minimal time has passed is free.
ResourceUpdated ==
    /\ registered
    /\ version < MaxVersion
    /\ version' = version + 1
    /\ UNCHANGED <<fired, registered, stored, resource, minimalTime>>
    /\ \/ /\ sub.state = "WAITING_NOTIFICATION"
          /\ LET c == [sub EXCEPT !.state = "PENDING_NOTIFY"]
             IN \/ SendNotify(c, "OK")
                \/ "encode" \in Faults /\ sub' = c
       \/ /\ sub.state = "WAITING_NOTIFICATION"
          /\ \E t \in FreeTimers(sub) :
                sub' = StartTimer([sub EXCEPT !.state = "WAITING_MINT"], t)
       \/ /\ sub.state \in Pending
          /\ sub' = UpdatedWhilePending(sub)
       \/ sub.state = "WAITING_MINT" /\ sub' = sub
       \/ sub.state = "WAITING_RETRY" /\ sub' = [sub EXCEPT !.nbRetry = -1]

\* SubsDeleteOp.postCommit: the transaction has deleted the resource and the
\* documents of its subscriptions; the SubsManager tells its managers and goes.
ResourceDeleted ==
    /\ sub.state # "NOT_CREATED"
    /\ resource
    /\ resource' = FALSE
    /\ registered' = FALSE
    /\ stored' = FALSE
    /\ UNCHANGED <<fired, version, minimalTime>>
    /\ IF registered
       THEN SendErrorNotify(
               EndFrom(CancelTimer(sub, sub.expirationTimerId),
                       "DELETING_PENDING_NOTIFY", "DELETING"), "DELETED")
       ELSE sub' = sub

-----------------------------------------------------------------------------
(* Confirms *)

\* Mutant: a confirm while ending takes the manager nowhere.
MutantSuccessState(s) == IF s \in {"EXPIRING", "DELETING"} THEN "DELETED" ELSE s

\* doSuccessConfirm in the states that only step forward.
SuccessState(s) ==
    CASE s = "EXPIRING_PENDING_NOTIFY_WAITING_RETRY" -> "EXPIRING_WAITING_RETRY"
      [] s = "DELETING_PENDING_NOTIFY_WAITING_RETRY" -> "DELETING_WAITING_RETRY"
      [] s = "EXPIRING_PENDING_NOTIFY"               -> "EXPIRING"
      [] s = "DELETING_PENDING_NOTIFY"               -> "DELETING"
      [] s \in {"EXPIRING", "DELETING"}              -> "DELETED"
      [] OTHER                                       -> s

\* doUnsuccessConfirm in the ending states when it does not retry.
UnsuccessState(s) ==
    CASE s = "EXPIRING_PENDING_NOTIFY_WAITING_RETRY" -> "DELETING_WAITING_RETRY"
      [] s = "DELETING_PENDING_NOTIFY_WAITING_RETRY" -> "DELETING_WAITING_RETRY"
      [] s = "EXPIRING_PENDING_NOTIFY"               -> "EXPIRING"
      [] s = "DELETING_PENDING_NOTIFY"               -> "DELETING"
      [] s \in {"EXPIRING", "DELETING"}              -> "DELETED"
      [] OTHER                                       -> s

\* The manager once the confirm of q has been taken off the network.
Received(q) == [sub EXCEPT !.requests = @ \ {q}]

DoSuccessConfirm(q) ==
    LET c == [Received(q) EXCEPT
                !.settled = IF q.status = "OK" THEN q.version ELSE @]
    IN /\ CASE c.state = "PENDING_NOTIFY" ->
                  sub' = [c EXCEPT !.state = "WAITING_NOTIFICATION", !.nbRetry = 0]
            [] c.state = "PENDING_NOTIFY_AND_NOTIFICATION" ->
                  IF minimalTime
                  THEN \E t \in FreeTimers(c) :
                         sub' = StartTimer([c EXCEPT !.state = "WAITING_MINT",
                                                     !.nbRetry = 0], t)
                  ELSE RetrieveAndSendNotify(
                          [c EXCEPT !.state = "PENDING_NOTIFY", !.nbRetry = 0])
            [] OTHER -> sub' = [c EXCEPT !.state = SuccessState(@)]
       /\ UNCHANGED <<registered, stored>>

\* retryable: the confirm's status is 500, 501, 502, 503 or 504.  Another
\* status on a normal notification deletes the subscription: SubDeleteOp in a
\* transaction of its own, whose failure is rolled back and retried.
DoUnsuccessConfirm(q, retryable) ==
    LET c == Received(q)
    IN IF c.state \in Pending
       THEN IF retryable
            THEN Retry(c) /\ UNCHANGED <<registered, stored>>
            ELSE \/ /\ registered' = FALSE
                    /\ stored' = FALSE
                    /\ sub' = SubscriptionDeleted(c)
                 \/ /\ "storage" \in Faults
                    /\ Retry(c)
                    /\ UNCHANGED <<registered, stored>>
       ELSE /\ IF c.state \in Ending /\ q.status # "OK" /\ retryable
               THEN Retry(c)
               ELSE sub' = [c EXCEPT !.state = UnsuccessState(@)]
            /\ UNCHANGED <<registered, stored>>

\* A request has exactly one confirm: an answer, or the 10 s time-out.
Confirm(i) ==
    /\ UNCHANGED <<fired, resource, version, minimalTime>>
    /\ \E q \in sub.requests :
         /\ q.id = i
         /\ \/ DoSuccessConfirm(q)
            \/ \E retryable \in BOOLEAN : DoUnsuccessConfirm(q, retryable)

-----------------------------------------------------------------------------
(* Timers *)

\* ServletTimerImpl.run starts; it then waits for SclManagerImpl's monitor.
TimerFires(t) ==
    /\ t \in sub.running
    /\ fired' = fired \cup {t}
    /\ sub' = [sub EXCEPT !.running = @ \ {t}]
    /\ UNCHANGED <<registered, stored, resource, version, minimalTime>>

\* timeout(timerId): any timer but the current expiration timer counts as the
\* retry timer.
Timeout(t) ==
    /\ t \in fired
    /\ fired' = fired \ {t}
    /\ UNCHANGED <<resource, version, minimalTime>>
    /\ IF t = sub.expirationTimerId
       THEN SubscriptionExpired(sub, stored)
       ELSE /\ UNCHANGED registered
            /\ CASE sub.state \in Waiting ->
                      /\ UNCHANGED stored
                      /\ RetrieveAndSendNotify([sub EXCEPT !.state = "PENDING_NOTIFY"])
                 [] sub.state = "EXPIRING_PENDING_NOTIFY_WAITING_RETRY" ->
                      DeleteAndNotifyExpired(
                         [sub EXCEPT !.state = "EXPIRING_PENDING_NOTIFY"], stored)
                 [] sub.state = "EXPIRING_WAITING_RETRY" ->
                      DeleteAndNotifyExpired(
                         [sub EXCEPT !.state = "EXPIRING"], stored)
                 [] sub.state = "DELETING_PENDING_NOTIFY_WAITING_RETRY" ->
                      /\ UNCHANGED stored
                      /\ SendErrorNotify(
                            [sub EXCEPT !.state = "DELETING_PENDING_NOTIFY"], "DELETED")
                 [] sub.state = "DELETING_WAITING_RETRY" ->
                      /\ UNCHANGED stored
                      /\ SendErrorNotify([sub EXCEPT !.state = "DELETING"], "DELETED")
                 [] OTHER -> UNCHANGED <<sub, stored>>

-----------------------------------------------------------------------------
(* Specification *)

Init ==
    /\ sub = [state |-> "NOT_CREATED", nbRetry |-> 0, timerId |-> NoTimer,
              expirationTimerId |-> NoTimer, running |-> {}, requests |-> {},
              settled |-> -1, expiredSends |-> 0]
    /\ fired = {}
    /\ registered = FALSE
    /\ stored = FALSE
    /\ resource = TRUE
    /\ version = 0
    /\ minimalTime = FALSE

Expirations == {"none", "future", "past"}

Next ==
    \/ \E when \in Expirations : Create(when) \/ Update(when)
    \/ Delete
    \/ ResourceUpdated
    \/ ResourceDeleted
    \/ \E i \in RequestIds : Confirm(i)
    \/ \E t \in TimerIds : TimerFires(t) \/ Timeout(t)

Spec == Init /\ [][Next]_vars

\* Timers run on the timer thread, and every request gets its confirm (an
\* answer or the 10 s time-out of request.send).  API requests are not fair.
Fairness ==
    /\ \A i \in RequestIds : WF_vars(Confirm(i))
    /\ \A t \in TimerIds : WF_vars(TimerFires(t)) /\ WF_vars(Timeout(t))

FairSpec == Spec /\ Fairness

-----------------------------------------------------------------------------
(* Properties *)

\* Type invariant.
TypeOK ==
    /\ sub \in SubType
    /\ sub.nbRetry \in -1 .. MaxRetry
    /\ fired \subseteq TimerIds
    /\ registered \in BOOLEAN
    /\ stored \in BOOLEAN
    /\ resource \in BOOLEAN
    /\ version \in Nat
    /\ minimalTime \in BOOLEAN

\* A SubsManager holds exactly the managers that can still be told of an
\* update: no ended manager stays in the map (it would be notified for ever),
\* no active one is missing (it would go silent), and an active one has its
\* document in the storage.
RegisteredIffActive ==
    /\ registered <=> sub.state \in Active
    /\ registered => stored

\* The contact never has two notifications of the resource in flight, nor two
\* final ones, and a final one is alone once the normal one is out of the way
\* (EXPIRING, DELETING), whatever order confirms and timers arrive in.
OneNotifyAtATime ==
    /\ \A p, q \in sub.requests :
          (p.status = "OK") = (q.status = "OK") => p = q
    /\ sub.state \in {"EXPIRING", "DELETING"} =>
          \A p, q \in sub.requests : p = q

\* A manager that waits (minimal time, or any retry) has a timer other than
\* the expiration timer that will reach it, although timeouts may be stale and
\* timerId overwritten or cancelled: otherwise it would wait for ever.
WaitingHasTimer ==
    sub.state \in Waiting \cup EndingWaitingRetry =>
        (sub.running \cup fired) \ {sub.expirationTimerId} # {}

\* A finished manager expects no confirm: none can be delivered to it.
DeletedIsQuiet == sub.state = "DELETED" => sub.requests = {}

\* No update is lost: a manager back to WAITING_NOTIFICATION has had its last
\* update confirmed by the contact, or has explicitly given it up (too many
\* retries, no representation to send).
NoLostUpdate ==
    sub.state = "WAITING_NOTIFICATION" /\ version > 0 => sub.settled = version

\* The contact is told that the subscription has expired only when its
\* document is gone from the storage and the SubsManager has dropped it.
ToldExpiredOnlyWhenGone ==
    \A q \in sub.requests : q.status = "EXPIRED" => ~stored /\ ~registered

\* The end is final: a manager that has left the active states never comes
\* back, and never sends a normal notification again.
EndIsFinal ==
    [][sub.state \notin Active \cup {"NOT_CREATED"} =>
         /\ sub'.state \notin Active
         /\ \A q \in sub'.requests \ sub.requests : q.status # "OK"]_vars

\* Every update is settled, by a confirm or by giving it up, unless the
\* subscription ends first.
UpdateSettled ==
    \A v \in 1 .. MaxVersion :
        (registered /\ version >= v) ~> (~registered \/ sub.settled >= v)

\* A manager that has begun to end finishes: its final notification is
\* confirmed or given up, and nothing is left in flight.  (It may then rest in
\* EXPIRING or DELETING when it ended without a final notification.)
EndReached ==
    (sub.state \in Ending \cup EndingWaitingRetry)
        ~> (sub.state \in {"EXPIRING", "DELETING", "DELETED"} /\ sub.requests = {})

-----------------------------------------------------------------------------
(* The inductive invariant.  SubInv speaks of the manager c alone, given the *)
(* timers f that have fired and the version v of the resource, so that it    *)
(* can be stated of sub and of sub'.                                         *)

\* Which requests may be in flight in which state: normal ones only while the
\* code awaits one, final ones only once they have been sent.
RequestsByState(c) ==
    \A q \in c.requests :
        c.state \in Ending \cup
            (IF q.status = "OK"
             THEN Pending \cup {"EXPIRING_PENDING_NOTIFY_WAITING_RETRY",
                                "DELETING_PENDING_NOTIFY_WAITING_RETRY"}
             ELSE {})

RequestsAlone(c) ==
    /\ \A p, q \in c.requests : (p.status = "OK") = (q.status = "OK") => p = q
    /\ c.state \in {"EXPIRING", "DELETING"} => \A p, q \in c.requests : p = q

\* The notification a PENDING_NOTIFY manager awaits carries the last version.
UpToDate(c, v) ==
    /\ c.state = "PENDING_NOTIFY" => \A q \in c.requests : q.version = v
    /\ c.state = "WAITING_NOTIFICATION" /\ v > 0 => c.settled = v

SubInv(c, f, v) ==
    /\ c \in SubType
    /\ c.nbRetry \in -1 .. MaxRetry
    /\ RequestsByState(c)
    /\ RequestsAlone(c)
    /\ UpToDate(c, v)
    /\ c.state \in Waiting \cup EndingWaitingRetry =>
          (c.running \cup f) \ {c.expirationTimerId} # {}
    /\ c.state = "PENDING_NOTIFY_AND_NOTIFICATION" => c.nbRetry = -1

IInv ==
    /\ TypeOK
    /\ SubInv(sub, fired, version)
    /\ RegisteredIffActive
    /\ ToldExpiredOnlyWhenGone
    /\ sub.state = "NOT_CREATED" => version = 0 /\ ~stored

-----------------------------------------------------------------------------
(* What the code's own texts say, and the code does not do *)

\* "Subscribed resource has been deleted" is only said when it has been.
DeletedIsTrue ==
    \A q \in sub.requests : q.status = "DELETED" => ~resource

\* "Too much retries attempted to replay event on <subscription>": the code
\* gives up an expiration only after sending its notification again.
ExpirationReplayed ==
    [][sub.state = "EXPIRING_WAITING_RETRY" /\ sub'.state = "DELETED"
          => sub'.expiredSends > 1]_vars

\* timeout() answers the retry timer with a retry; that it could find nothing
\* to do is an error there ("Received a timeout in state").  So the timer that
\* retry() has started is never ignored while nothing is in flight and the
\* state of the resource was neither notified nor given up: no other timer or
\* confirm would ever make up for it.
RetryTimerHeeded ==
    [][\A t \in TimerIds :
         /\ Timeout(t)
         /\ t = sub.timerId /\ t # sub.expirationTimerId
         /\ sub.state \in Active /\ sub.requests = {} /\ sub.settled < version
         => sub' # sub]_vars

=============================================================================
