------------------------------ MODULE Requests ------------------------------
(***************************************************************************)
(* The request handlers of the API, as far as the administration of lists  *)
(* and accounts needs them: a handler serves one request at a time, in a   *)
(* session of its own, and ends it with an answer.  The modules that       *)
(* extend this one say what a request is and what its steps do.            *)
(***************************************************************************)
EXTENDS Naturals

CONSTANTS
    Handlers,       \* threads of the web server that serve requests
    MaxRequests     \* bound: how many requests are made

ASSUME MaxRequestsAssumption == MaxRequests \in Nat

VARIABLES
    request,        \* of each handler: its request; the field `at` is the step to come
    made            \* how many requests have been made

Idle == [op |-> "none", at |-> "idle", answer |-> "none"]

RequestsInit ==
    /\ request = [h \in Handlers |-> Idle]
    /\ made = 0

\* h has nothing to do: no request yet, or the last one is answered.
Free(h) == request[h].at \in {"idle", "answered"}

At(h, ops, step) == request[h].op \in ops /\ request[h].at = step

Accept(h, r) ==
    /\ Free(h)
    /\ made < MaxRequests
    /\ made' = made + 1
    /\ request' = [request EXCEPT ![h] = r]

Move(h, r) ==
    /\ request' = [request EXCEPT ![h] = r]
    /\ UNCHANGED made

\* Its session is closed, and with it all the handler knew is gone.
Answered(a)  == [Idle EXCEPT !.at = "answered", !.answer = a]
Answer(h, a) == Move(h, Answered(a))

(* An error on the way to the server or in it, a deadlock victim included: *)
(* the session rolls back what it has not committed.                       *)
RequestFails(h, ops) ==
    /\ request[h].op \in ops
    /\ request[h].at \notin {"idle", "answered"}
    /\ Answer(h, "outage")
=============================================================================
