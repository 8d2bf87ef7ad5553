-------------------------- MODULE KVCacheTaskTracker --------------------------
(***************************************************************************)
(* KVCacheTaskTracker (mooncake_connector.py): the book-keeping object     *)
(* that both the sending thread of a prefill rank and the receiving thread *)
(* of a decode rank own.  Every method but add_req_to_process takes        *)
(* done_task_lock, so each is one atomic operator here.                    *)
(*                                                                         *)
(* delayed_free_requests is an OrderedDict: a sequence of records          *)
(* [req, start] in insertion order, no request twice.                      *)
(***************************************************************************)
EXTENDS Integers, Sequences

CONSTANTS
    Requests,               \* request ids
    ABORT_REQUEST_TIMEOUT   \* VLLM_MOONCAKE_ABORT_REQUEST_TIMEOUT

ASSUME TimeoutAssumption == ABORT_REQUEST_TIMEOUT \in Nat

VARIABLES
    finished_requests,
    delayed_free_requests,
    reqs_to_process

trackerVars == <<finished_requests, delayed_free_requests, reqs_to_process>>

TrackerInit ==
    /\ finished_requests = {}
    /\ delayed_free_requests = <<>>
    /\ reqs_to_process = {}

TrackerTypeOK ==
    /\ finished_requests \subseteq Requests
    /\ delayed_free_requests \in Seq([req : Requests, start : Nat])
    /\ reqs_to_process \subseteq Requests

Delayed == {delayed_free_requests[i].req : i \in 1..Len(delayed_free_requests)}

-----------------------------------------------------------------------------
(* The dictionary operations of delayed_free_requests. *)

\* delayed_free_requests.pop(r, None)
Without(r) ==
    IF r \in Delayed
    THEN LET i == CHOOSE j \in 1..Len(delayed_free_requests) :
                      delayed_free_requests[j].req = r
         IN  [j \in 1..(Len(delayed_free_requests) - 1) |->
                 delayed_free_requests[IF j < i THEN j ELSE j + 1]]
    ELSE delayed_free_requests

\* delayed_free_requests[r] = t keeps the position of a key that is present
With(r, t) ==
    IF r \in Delayed
    THEN [j \in 1..Len(delayed_free_requests) |->
             IF delayed_free_requests[j].req = r
             THEN [req |-> r, start |-> t] ELSE delayed_free_requests[j]]
    ELSE Append(delayed_free_requests, [req |-> r, start |-> t])

-----------------------------------------------------------------------------
(* The methods. *)

\* for every request of the batch
add_req_to_process(R) ==
    /\ reqs_to_process' = reqs_to_process \cup R
    /\ UNCHANGED <<finished_requests, delayed_free_requests>>

not_transferred_is_dropped(r) ==
    /\ reqs_to_process' = reqs_to_process \ {r}
    /\ UNCHANGED <<finished_requests, delayed_free_requests>>

add_not_transfer_request(r) ==
    /\ finished_requests' = finished_requests \cup {r}
    /\ reqs_to_process' = reqs_to_process \ {r}
    /\ UNCHANGED delayed_free_requests

update_done_task_count(r) ==
    IF r \in reqs_to_process
    THEN /\ finished_requests' = finished_requests \cup {r}
         /\ reqs_to_process' = reqs_to_process \ {r}
         /\ delayed_free_requests' = Without(r)
    ELSE UNCHANGED trackerVars

add_delayed_request(r, t) ==
    /\ delayed_free_requests' =
           IF r \in reqs_to_process THEN With(r, t) ELSE delayed_free_requests
    /\ UNCHANGED <<finished_requests, reqs_to_process>>

\* _retrieve_expired_requests looks at the oldest entry first and stops at
\* the first one that has not expired.
IsExpired(i, t) ==
    t - delayed_free_requests[i].start > ABORT_REQUEST_TIMEOUT

NumExpiredOnePerCall(t) ==
    IF delayed_free_requests # <<>> /\ IsExpired(1, t) THEN 1 ELSE 0

NumExpired(t) ==
    CHOOSE n \in 0..Len(delayed_free_requests) :
        /\ \A i \in 1..n : IsExpired(i, t)
        /\ n < Len(delayed_free_requests) => ~IsExpired(n + 1, t)

retrieve_expired_requests(t) ==
    {delayed_free_requests[i].req : i \in 1..NumExpired(t)}

\* What get_and_clear_finished_requests returns ...
finished_or_expired(t) ==
    finished_requests \cup retrieve_expired_requests(t)

expired_still_tracked(t) ==
    /\ finished_requests' = {}
    /\ delayed_free_requests' =
           SubSeq(delayed_free_requests, NumExpired(t) + 1,
                  Len(delayed_free_requests))
    /\ UNCHANGED reqs_to_process

\* ... and what it leaves behind.
get_and_clear_finished_requests(t) ==
    /\ finished_requests' = {}
    /\ reqs_to_process' = reqs_to_process \ retrieve_expired_requests(t)
    /\ delayed_free_requests' =
           SubSeq(delayed_free_requests, NumExpired(t) + 1,
                  Len(delayed_free_requests))
=============================================================================
