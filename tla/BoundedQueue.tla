----------------------------- MODULE BoundedQueue -----------------------------
(***************************************************************************)
(* What CircularArray and ExternalCircularArray (gscl/util) promise to the *)
(* executors that use them: a bounded first-in first-out queue.  An offer  *)
(* is refused exactly when Capacity objects are queued, every accepted     *)
(* object is returned once, in order, and a consumer comes back with null  *)
(* only when the queue is empty.  There are no indices, slots, wait sets   *)
(* or notifications here: CircularArray.tla has them and implements this.  *)
(***************************************************************************)
EXTENDS Naturals, Sequences

CONSTANTS Capacity,   \* the constructor's argument
          Values,     \* the objects offered
          Null,       \* null
          Consumers   \* the threads that take and poll

VARIABLES queue,      \* the queued objects, oldest first
          inserted,   \* what the last offer returned
          result      \* what each consumer's last call returned

vars == <<queue, inserted, result>>

Init ==
    /\ queue = <<>>
    /\ inserted = FALSE
    /\ result = [c \in Consumers |-> Null]

Accept(v) ==
    /\ Len(queue) < Capacity
    /\ queue' = Append(queue, v)
    /\ inserted' = TRUE
    /\ UNCHANGED result

Refuse ==
    /\ Len(queue) = Capacity
    /\ inserted' = FALSE
    /\ UNCHANGED <<queue, result>>

Take(c) ==
    /\ queue # <<>>
    /\ result' = [result EXCEPT ![c] = Head(queue)]
    /\ queue' = Tail(queue)
    /\ UNCHANGED inserted

FindEmpty(c) ==
    /\ queue = <<>>
    /\ result' = [result EXCEPT ![c] = Null]
    /\ UNCHANGED <<queue, inserted>>

Next ==
    \/ \E v \in Values : Accept(v)
    \/ Refuse
    \/ \E c \in Consumers : Take(c) \/ FindEmpty(c)

Spec == Init /\ [][Next]_vars

=============================================================================
