---------------------------- MODULE RequestManager ----------------------------
(***************************************************************************)
(* The requests of one ZigBee port (drivers/AZAP/lib): request_manager.c   *)
(* and request_context.c, with their callers sendRequest and               *)
(* parseAndProcessAfDataConfirm (port_context.c), the answer handlers of   *)
(* azap_api_impl.c and azapClockSc (azap_api.c).                           *)
(*                                                                         *)
(* The two lists are the sets of requests with where[r] = "postponed" and  *)
(* where[r] = "pending"; list_add_tail gives its element a rank above the  *)
(* others', so a list is read in the order of the ranks.  Requests are     *)
(* numbered in the order of the API calls, the number stands for the       *)
(* issuer's context.                                                       *)
(*                                                                         *)
(* One thread runs everything.  A second's tic is cut into one step per    *)
(* list element because the failure callback of a timed out request runs   *)
(* the client's code in the middle of it, and the client may issue new     *)
(* requests from there.  The answer handlers take the context out of its   *)
(* list before they call the client, so what the client does then is the   *)
(* same as what it does right after.                                       *)
(*                                                                         *)
(* The dongle, the ZigBee network and the clients are external: answers    *)
(* are lost, late or duplicated and may report a failure, as may an        *)
(* AF_DATA_CONFIRM; a frame may not fit in the transmit buffer, now or     *)
(* ever, and the port may restart.                                         *)
(***************************************************************************)
EXTENDS Integers, FiniteSets

CONSTANTS
    MAX_TOTAL_REQ,     \* MAX_CC2531_SIMULTANEOUS_TOTAL_REQ (10)
    MAX_PER_NODE_REQ,  \* MAX_CC2531_SIMULTANEOUS_PER_NODE_REQ (3)
    MAX_PER_EP_REQ,    \* MAX_CC2531_SIMULTANEOUS_PER_EP_REQ (1)
    zigbeeRequestTimeout,  \* seconds (20)
    TransIds,          \* the number of transaction identifiers (256)
    Kinds,             \* the requests clients make, see KindsAssumption
    Modes,             \* the TTL modes they ask for
    MaxRequests,       \* bound: the number of API calls
    MaxAnswers,        \* bound: the number of answers received
    MaxTxFull,         \* bound: how often a frame does not fit in tx
    MaxRestarts        \* bound: how often the port restarts

\* The requests whose calls of sendZdo pass an end point, the others pass 0.
EpRequests == {"AZAP_ZDO_SIMPLE_DESC_REQ", "AZAP_ZDO_BIND_REQ", "AZAP_ZDO_UNBIND_REQ"}

\* What becomes of the payload: a frame can be made of it, it is too long for
\* the frame ("long": MAX_ZNP_PAYLOAD_SIZE with the AF header or the frame's),
\* or too long for the ZCL header already ("huge").
Sizes == {"fits", "long", "huge"}

\* what: the cluster and the command of the expected answer, 0 for ZDO.  A
\* type is either sent with sendZdo or with sendZcl; the payloads of ZDO
\* requests are arrays of a few bytes.
ASSUME KindsAssumption ==
    /\ \A k \in Kinds :
          /\ DOMAIN k = {"type", "zcl", "node", "ep", "what", "resp", "size"}
          /\ k.size \in Sizes
          /\ ~k.zcl => k.size = "fits"
          /\ k.zcl \in BOOLEAN /\ k.resp \in BOOLEAN
          /\ k.node \in Nat /\ k.ep \in Nat
          /\ ~k.zcl /\ k.type \notin EpRequests => k.ep = 0
    /\ \A k, j \in Kinds : k.type = j.type => k.zcl = j.zcl

ASSUME BoundsAssumption ==
    /\ {MAX_TOTAL_REQ, MAX_PER_NODE_REQ, MAX_PER_EP_REQ, zigbeeRequestTimeout,
        TransIds} \subseteq Nat \ {0}
    /\ {MaxRequests, MaxAnswers, MaxTxFull, MaxRestarts} \subseteq Nat
    /\ Modes \subseteq {0, 1} /\ Modes # {} /\ Kinds # {}

Id == 1..MaxRequests
Head == 0              \* the list head, where an iteration ends
START_AT_API == 0      \* of AZAP_REQ_TTL_MGMT_MODE, START_AT_ZB_SEND is 1

VARIABLES
    issued,          \* the number of API calls so far
    kind, ttlMode,   \* of each request, as given to the API
    where,           \* "new", "postponed", "pending", "freed" or "refused"
    rank,            \* the order of list_add_tail
    timeToLive, transactionId,
    g_zclTransactionId,
    phase,           \* "idle", "age", "callback", "look" or "crashed"
    list,            \* the list tic is ageing
    link, pos,       \* its cursor and the saved successor
    misfits,         \* external: the frames that did not fit in tx so far
    sent,            \* external: the requests the dongle has got
    confirmed,       \* external: those with an AF_DATA_CONFIRM failure
    answers,         \* external: the number of answers so far
    restarts,        \* external: the number of restarts so far
    calls,           \* history: the callbacks made for each request
    dropped          \* history: the requests freed by a restart

contexts == <<kind, ttlMode, where, rank, timeToLive, transactionId>>
cursor == <<phase, list, link, pos>>
env == <<confirmed, answers, restarts>>
vars == <<issued, contexts, g_zclTransactionId, cursor, misfits, env, sent, calls, dropped>>

In(l) == {r \in 1..issued : where[r] = l}

\* The rank list_add_tail gives.
tailRank == 1 + CHOOSE n \in {0} \cup {rank[r] : r \in Id} : \A r \in Id : rank[r] <= n

\* A set of contexts is taken out of its list and freed.
free(S) ==
    /\ where' = [r \in Id |-> IF r \in S THEN "freed" ELSE where[r]]
    /\ timeToLive' = [r \in Id |-> IF r \in S THEN 0 ELSE timeToLive[r]]
    /\ rank' = [r \in Id |-> IF r \in S THEN 0 ELSE rank[r]]

-----------------------------------------------------------------------------
(* The limits of the CC2531 *)

onNode(node) == {r \in In("pending") : kind[r].node = node}

\* End point 0 is no end point: requests without one are not counted.
onEp(node, ep) == {r \in onNode(node) : ep # 0 /\ kind[r].ep = ep}

readyToSend(node, ep) ==
    /\ Cardinality(In("pending")) < MAX_TOTAL_REQ
    /\ Cardinality(onNode(node)) < MAX_PER_NODE_REQ
    /\ Cardinality(onEp(node, ep)) < MAX_PER_EP_REQ

sameRequest(k, j) ==
    k.type = j.type /\ k.node = j.node /\ k.what = j.what /\ k.ep = j.ep

\* The doublon test forgotten.
readyWithoutDoublonCheck(k) == readyToSend(k.node, k.ep)

readyToSendDoublonCheck(k) ==
    /\ ~ \E r \in In("pending") : sameRequest(k, kind[r])
    /\ readyToSend(k.node, k.ep)

-----------------------------------------------------------------------------
(* sendRequest of the manager: the frame goes to the transmit buffer.  A   *)
(* ZCL command takes the next transaction identifier even when it does not *)
(* fit, unless its payload is too long for the ZCL header; a ZDO request   *)
(* keeps identifier 0.                                                     *)

takesTransactionId(k) == k.zcl /\ k.size # "huge"

nextTransactionId(k) ==
    IF takesTransactionId(k) THEN (g_zclTransactionId + 1) % TransIds
                             ELSE g_zclTransactionId

transactionIdFor(k) == IF takesTransactionId(k) THEN g_zclTransactionId ELSE 0

\* Whether the frame is written, when the limits let it be written at all: a
\* payload that is too long never is, a frame only when put finds room in the
\* transmit buffer, which the TTY drains at its own pace.
room(k, fits, ready) ==
    \/ fits /\ (ready => k.size = "fits") /\ UNCHANGED misfits
    \/ ~fits /\ ready /\ k.size # "fits" /\ UNCHANGED misfits
    \/ ~fits /\ ready /\ k.size = "fits" /\ misfits < MaxTxFull /\ misfits' = misfits + 1

\* sendRequest of the port, through sendZdo and sendZcl: the API call of a
\* client for a request of kind k.  It is sent at once when the limits allow
\* it, otherwise postponed.  A request that cannot be written is refused;
\* without an expected answer its temporary context is read after its free
\* and the NULL that removePending returns is dereferenced.
sendRequest(k, mode, fits) ==
    LET r == issued + 1
        ready == readyToSendDoublonCheck(k)
    IN /\ phase \in {"idle", "callback"}
       /\ issued < MaxRequests
       /\ room(k, fits, ready)
       /\ issued' = r
       /\ kind' = [kind EXCEPT ![r] = k]
       /\ ttlMode' = [ttlMode EXCEPT ![r] = mode]
       /\ timeToLive' = [timeToLive EXCEPT ![r] = zigbeeRequestTimeout]
       /\ rank' = [rank EXCEPT ![r] = tailRank]
       /\ where' = [where EXCEPT ![r] =
                      CASE ~ready            -> "postponed"
                        [] ready /\ ~fits    -> "refused"
                        [] OTHER             -> IF k.resp THEN "pending" ELSE "freed"]
       /\ transactionId' = [transactionId EXCEPT ![r] = IF ready THEN transactionIdFor(k) ELSE 0]
       /\ g_zclTransactionId' = IF ready THEN nextTransactionId(k) ELSE g_zclTransactionId
       /\ sent' = IF ready /\ fits THEN sent \cup {r} ELSE sent
       /\ phase' = IF ready /\ ~fits /\ ~k.resp THEN "crashed" ELSE phase
       /\ UNCHANGED <<list, link, pos, env, calls, dropped>>

-----------------------------------------------------------------------------
(* tic, once a second *)

\* The elements of l in list order.
firstOf(S) == IF S = {} THEN Head
              ELSE CHOOSE r \in S : \A s \in S : rank[r] <= rank[s]
lastOf(S) == CHOOSE r \in S : \A s \in S : rank[s] <= rank[r]
after(r, l) == firstOf({s \in In(l) : rank[s] > rank[r]})

\* Ageing the postponed requests comes first.
tic ==
    /\ phase = "idle"
    /\ phase' = "age" /\ list' = "postponed" /\ link' = firstOf(In("postponed"))
    /\ UNCHANGED <<issued, misfits, contexts, g_zclTransactionId, pos, env, sent, calls, dropped>>

\* requestSent read the wrong way round.
timeToLiveWrongWay(r) ==
    IF list = "postponed" \/ START_AT_API = timeToLive[r]
    THEN timeToLive[r] - 1 ELSE timeToLive[r]

\* requestContext_t_tic.  The mode is compared with the time to live itself.
timeToLiveAfterTic(r) ==
    IF list = "pending" \/ START_AT_API = timeToLive[r]
    THEN timeToLive[r] - 1 ELSE timeToLive[r]

\* callbackOnFailure has nothing to call for an outgoing command or report.
hasFailureCallback(k) ==
    k.type \notin {"AZAP_ZCL_OUTGOING_CMD", "AZAP_ZCL_OUTGOING_EXT_CMD", "AZAP_ZCL_REPORT_CMD"}

callbackOnFailure(r) ==
    calls' = IF hasFailureCallback(kind[r]) THEN [calls EXCEPT ![r] = @ + 1] ELSE calls

\* One element of the loop of age1sAndLookForTimedOutReq: its successor is
\* already known, the callback is called while the element is in its list.
age1s ==
    /\ phase = "age" /\ link # Head
    /\ timeToLive' = [timeToLive EXCEPT ![link] = timeToLiveAfterTic(link)]
    /\ IF timeToLiveAfterTic(link) <= 0
       THEN /\ phase' = "callback" /\ pos' = after(link, list)
            /\ callbackOnFailure(link)
            /\ UNCHANGED link
       ELSE /\ link' = after(link, list)
            /\ UNCHANGED <<phase, pos, calls>>
    /\ UNCHANGED <<issued, misfits, kind, ttlMode, where, rank, transactionId,
                   g_zclTransactionId, list, env, sent, dropped>>

\* The timed out request is freed without leaving its list.
callbackReturnsNoDelete ==
    /\ phase = "callback"
    /\ phase' = "age" /\ link' = pos /\ pos' = Head
    /\ UNCHANGED <<where, rank, timeToLive>>
    /\ UNCHANGED <<issued, misfits, kind, ttlMode, transactionId,
                   g_zclTransactionId, list, env, sent, calls, dropped>>

\* The callback returns: list_del, free, and on to the saved successor.
callbackReturns ==
    /\ phase = "callback"
    /\ phase' = "age" /\ link' = pos /\ pos' = Head
    /\ free({link})
    /\ UNCHANGED <<issued, misfits, kind, ttlMode, transactionId,
                   g_zclTransactionId, list, env, sent, calls, dropped>>

\* The end of a list: the pending requests are aged next, then the postponed
\* ones are looked at, unless node 0 or the dongle is at its limit.
endOfList ==
    /\ phase = "age" /\ link = Head
    /\ IF list = "postponed"
       THEN list' = "pending" /\ link' = firstOf(In("pending")) /\ UNCHANGED phase
       ELSE IF readyToSend(0, 0)
            THEN phase' = "look" /\ link' = firstOf(In("postponed")) /\ UNCHANGED list
            ELSE phase' = "idle" /\ UNCHANGED <<list, link>>
    /\ UNCHANGED <<issued, misfits, contexts, g_zclTransactionId, pos, env, sent, calls, dropped>>

\* The limits were checked once for the whole loop.
lookWithoutCheck(fits) ==
    /\ phase = "look" /\ link # Head
    /\ room(kind[link], fits, TRUE) /\ fits
    /\ where' = [where EXCEPT ![link] = "pending"]
    /\ rank' = [rank EXCEPT ![link] = tailRank]
    /\ sent' = sent \cup {link}
    /\ transactionId' = [transactionId EXCEPT ![link] = transactionIdFor(kind[link])]
    /\ g_zclTransactionId' = nextTransactionId(kind[link])
    /\ link' = after(link, "postponed")
    /\ UNCHANGED <<issued, kind, ttlMode, timeToLive, phase, list, pos, env, calls, dropped>>

\* One element of the loop of lookForPostponedReqToSend.
lookForPostponedReqToSend(fits) ==
    /\ phase = "look" /\ link # Head
    /\ LET k == kind[link]
           ready == readyToSendDoublonCheck(k)
       IN /\ room(k, fits, ready)
          /\ IF ready /\ fits
             THEN /\ where' = [where EXCEPT ![link] = "pending"]
                  /\ rank' = [rank EXCEPT ![link] = tailRank]
                  /\ sent' = sent \cup {link}
             ELSE UNCHANGED <<where, rank, sent>>
          /\ IF ready
             THEN /\ transactionId' = [transactionId EXCEPT ![link] = transactionIdFor(k)]
                  /\ g_zclTransactionId' = nextTransactionId(k)
             ELSE UNCHANGED <<transactionId, g_zclTransactionId>>
    /\ link' = after(link, "postponed")
    /\ UNCHANGED <<issued, kind, ttlMode, timeToLive, phase, list, pos, env, calls, dropped>>

ticEnds ==
    /\ phase = "look" /\ link = Head
    /\ phase' = "idle"
    /\ UNCHANGED <<issued, misfits, contexts, g_zclTransactionId, list, link, pos, env, sent,
                   calls, dropped>>

-----------------------------------------------------------------------------
(* What the dongle sends *)

\* The end point an answer to a request of kind k is matched with: only ZCL
\* answers and a successful Simple_Desc_rsp carry one (of a failure the status
\* alone is parsed), the others match any.
answerEp(k, success) ==
    IF k.zcl \/ (k.type = "AZAP_ZDO_SIMPLE_DESC_REQ" /\ success) THEN k.ep ELSE 0

matching(k, ep) ==
    {r \in In("pending") : /\ kind[r].type = k.type /\ kind[r].node = k.node
                           /\ kind[r].what = k.what
                           /\ ep = 0 \/ ep = kind[r].ep}

\* The context is looked up and stays in the list.
removePendingNoDelete(S) == UNCHANGED <<where, rank, timeToLive>>

\* The last of the requests that match leaves the list.
removePending(S) == free({lastOf(S)})

completes(S) == calls' = [calls EXCEPT ![lastOf(S)] = @ + 1]

\* An answer to the request r, a success or a failure, possibly long after its
\* time out.  Without a context the client is called with none.
answer(r, success) ==
    LET S == matching(kind[r], answerEp(kind[r], success))
    IN /\ phase = "idle"
       /\ r \in sent /\ answers < MaxAnswers
       /\ answers' = answers + 1
       /\ IF S = {} THEN UNCHANGED <<where, rank, timeToLive, calls>>
                    ELSE removePending(S) /\ completes(S)
       /\ UNCHANGED <<issued, misfits, kind, ttlMode, transactionId,
                      g_zclTransactionId, cursor, confirmed, restarts,
                      sent, dropped>>

\* ZDO_MSG_CB_INCOMING, and AF_INCOMING_MSG for a ZCL command; a message with
\* a wrong length or for an unknown end point is dropped, a lost answer.
processZDOMsgCbIncoming(r, success) == ~kind[r].zcl /\ answer(r, success)
processAfIncomingMsg(r, success) == kind[r].zcl /\ answer(r, success)

\* AF_DATA_CONFIRM with a failure: the last pending request with the
\* transaction identifier fails, ZDO requests (identifier 0) included.
afDataConfirmFails(r) ==
    LET S == {s \in In("pending") : transactionId[s] = transactionId[r]}
    IN /\ phase = "idle"
       /\ r \in sent \ confirmed /\ kind[r].zcl
       /\ confirmed' = confirmed \cup {r}
       /\ IF S = {} THEN UNCHANGED <<where, rank, timeToLive, calls>>
                    ELSE removePending(S) /\ callbackOnFailure(lastOf(S))
       /\ UNCHANGED <<issued, misfits, kind, ttlMode, transactionId,
                      g_zclTransactionId, cursor, answers, restarts,
                      sent, dropped>>

-----------------------------------------------------------------------------
(* The port *)

\* processRxMsg after the loss of the TTY: stopZnp frees every context, no
\* callback is made; startZnp makes a new manager and new buffers.
restart ==
    LET S == In("postponed") \cup In("pending")
    IN /\ phase = "idle"
       /\ restarts < MaxRestarts
       /\ restarts' = restarts + 1
       /\ free(S)
       /\ dropped' = dropped \cup S
       /\ UNCHANGED <<issued, misfits, kind, ttlMode, transactionId,
                      g_zclTransactionId, cursor, confirmed, answers, sent, calls>>

-----------------------------------------------------------------------------

NoKind == CHOOSE k \in Kinds : TRUE

Init ==
    /\ issued = 0
    /\ kind = [r \in Id |-> NoKind] /\ ttlMode = [r \in Id |-> CHOOSE m \in Modes : TRUE]
    /\ where = [r \in Id |-> "new"]
    /\ rank = [r \in Id |-> 0]
    /\ timeToLive = [r \in Id |-> 0] /\ transactionId = [r \in Id |-> 0]
    /\ g_zclTransactionId = 0
    /\ phase = "idle" /\ list = "postponed" /\ link = Head /\ pos = Head
    /\ misfits = 0 /\ sent = {} /\ confirmed = {}
    /\ answers = 0 /\ restarts = 0
    /\ calls = [r \in Id |-> 0] /\ dropped = {}

Clock ==
    \/ tic \/ age1s \/ callbackReturns \/ endOfList
    \/ \E fits \in BOOLEAN : lookForPostponedReqToSend(fits)
    \/ ticEnds

Next ==
    \/ \E k \in Kinds, mode \in Modes, fits \in BOOLEAN : sendRequest(k, mode, fits)
    \/ Clock
    \/ \E r \in Id, success \in BOOLEAN :
          processZDOMsgCbIncoming(r, success) \/ processAfIncomingMsg(r, success)
    \/ \E r \in Id : afDataConfirmFails(r)
    \/ restart

\* The main loop calls azapClockSc every second.  Nothing else is owed: no
\* answer, no confirm, no client.
Fairness == WF_vars(Clock)

Spec == Init /\ [][Next]_vars
FairSpec == Spec /\ Fairness

-----------------------------------------------------------------------------
(* Properties *)

TypeOK ==
    /\ issued \in 0..MaxRequests
    /\ kind \in [Id -> Kinds] /\ ttlMode \in [Id -> Modes]
    /\ where \in [Id -> {"new", "postponed", "pending", "freed", "refused"}]
    /\ rank \in [Id -> Nat]
    /\ timeToLive \in [Id -> 0..zigbeeRequestTimeout]
    /\ transactionId \in [Id -> 0..(TransIds - 1)]
    /\ g_zclTransactionId \in 0..(TransIds - 1)
    /\ phase \in {"idle", "age", "callback", "look", "crashed"}
    /\ list \in {"postponed", "pending"}
    /\ link \in Id \cup {Head} /\ pos \in Id \cup {Head}
    /\ misfits \in 0..MaxTxFull
    /\ sent \subseteq Id /\ confirmed \subseteq Id /\ dropped \subseteq Id
    /\ answers \in 0..MaxAnswers /\ restarts \in 0..MaxRestarts
    /\ calls \in [Id -> Nat]

\* What the chip is asked to do at once stays within its limits, whichever
\* path a request took: the API call, a callback in the middle of a tic or
\* the list of postponed requests.
WithinLimits ==
    /\ Cardinality(In("pending")) <= MAX_TOTAL_REQ
    /\ \A r \in In("pending") :
          /\ Cardinality(onNode(kind[r].node)) <= MAX_PER_NODE_REQ
          /\ Cardinality(onEp(kind[r].node, kind[r].ep)) <= MAX_PER_EP_REQ

\* The request whose failure callback is running is in its list still, and
\* stays there when the callback does not return.
beingFailed(r) == phase \in {"callback", "crashed"} /\ r = link

\* No request is lost and no client is called twice: a request the API
\* accepted is in a list, or it was called back exactly once (an answer, a
\* failure or a time out), or the port restarted under it.  An outgoing
\* command has no failure callback and may end in silence.
NoCallbackLostOrDoubled ==
    \A r \in 1..issued :
        /\ calls[r] <= 1
        /\ r \in In("postponed") \cup In("pending") => (calls[r] = 0 \/ beingFailed(r))
        /\ where[r] = "freed" /\ r \notin dropped /\ kind[r].resp
             /\ hasFailureCallback(kind[r]) => calls[r] = 1

\* Whether an answer to the pending request r says which request it answers:
\* it names the end point, or its type has none, or nothing else it could be
\* meant for is pending.
identifies(r, success) ==
    \/ answerEp(kind[r], success) # 0
    \/ ~kind[r].zcl /\ kind[r].type \notin EpRequests
    \/ matching(kind[r], 0) = {r}

\* An answer to a request that is pending completes that request and no
\* other, whatever else is pending, provided that it says which one it answers:
\* this is what the doublon test is for.  The proviso leaves out bind and
\* unbind requests for two end points of a node, a Simple_Desc_rsp that
\* reports a failure, and ZCL answers of end point 0, beside another request
\* of the same type to the same node: those complete the last one.
AnswersTheRightRequest ==
    [][\A r \in Id, success \in BOOLEAN :
         /\ answers' # answers
         /\ where[r] = "pending"
         /\ identifies(r, success)
         /\ answer(r, success)
         => where' = [where EXCEPT ![r] = "freed"]]_vars

\* Every request a client made and a frame can be made of is off the manager's
\* hands in the end, though no answer ever comes, whatever the callbacks issue,
\* whichever frames found the transmit buffer full and whatever waits there for
\* ever because its payload is too long: time and again none is outstanding.
EveryRequestEnds ==
    []<>(\/ \A r \in In("postponed") \cup In("pending") : kind[r].size # "fits"
         \/ phase = "crashed")

\* AZAP_REQ_TTL_START_AT_API: "the TTL starts decreasing as soon as the
\* request is handled at the API layer" (azap_types.h), so a request with
\* that mode has lost time when a tic has aged the list it waits in.
TtlStartsAtApi ==
    [][\A r \in Id :
         /\ age1s /\ link = r
         /\ ttlMode[r] = START_AT_API
         => timeToLive'[r] < timeToLive[r]]_vars

=============================================================================
