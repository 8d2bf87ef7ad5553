------------------------- MODULE KVCacheSendingThread -------------------------
(***************************************************************************)
(* The prefill (P) side of MooncakeConnector (mooncake_connector.py): the  *)
(* scheduler's connector, one worker rank, and that rank's                 *)
(* KVCacheSendingThread, which listens for the DONE_RECVING_MSG of the     *)
(* decode ranks.  The decode ranks that read from this rank are modelled   *)
(* by what they do to it: a read that begins once the prefill's response   *)
(* is out and ends with a DONE, which may be lost or late, or come again   *)
(* if nobody pulls from this rank.                                         *)
(***************************************************************************)
EXTENDS KVCacheTaskTracker, FiniteSets

CONSTANTS
    Readers,        \* by cp, request -> the decode tasks that read this rank
    SendNum,        \* request -> remote_port_send_num[handshake_port]["num"]
    RemoteRank,     \* requests whose _prefill_get_remote_rank has this rank
    MaxMetas,       \* scheduler outputs in flight (two with async scheduling)
    MaxTime         \* bound of the clock

ASSUME RankAssumption == RemoteRank \subseteq Requests
\* A decode rank reads from the ranks that both sides compute from the request
\* id, and without context parallelism no two read from the same rank.
ASSUME ReadersAssumption ==
    \A r \in Requests :
        /\ \A d, e \in Readers[FALSE][r] : d = e
        /\ r \notin RemoteRank => Readers[FALSE][r] = {}
ASSUME SendNumAssumption == SendNum \in [Requests -> Nat]
\* With it, remote_port_send_num counts the pulls from this rank over all decode
\* ranks; a rank that nobody pulls from is signalled by at most one.
ASSUME PortSendNumAssumption ==
    \A r \in Requests :
        /\ IsFiniteSet(Readers[TRUE][r])
        /\ \/ Cardinality(Readers[TRUE][r]) <= SendNum[r]
           \/ Cardinality(Readers[TRUE][r]) <= 1
ASSUME BoundsAssumption == MaxTime \in Nat /\ MaxMetas \in Nat

VARIABLES
    \* the rank's configuration: pcp_size * dcp_size > 1
    cp,
    \* time.time()
    now,
    \* the scheduler: status of each request, and what the next metadata holds
    status, reqs_in_batch, reqs_need_send,
    \* metadata on its way to the worker, and what start_load_kv has left to do
    metas, to_send,
    \* the listener (0: the key is absent)
    port_send_num,
    \* the decode side: tasks that read, DONEs on the wire, DONEs handled
    reading, wire, handled,
    \* how often get_finished has returned the request, and which had expired
    reports, expired

schedVars == <<status, reqs_in_batch, reqs_need_send>>
workerVars == <<metas, to_send>>
decodeVars == <<reading, wire, handled>>
reportVars == <<reports, expired>>
vars == <<cp, trackerVars, now, schedVars, workerVars, port_send_num, decodeVars,
          reportVars>>

Dones == UNION {{[req |-> r, task |-> d] : d \in Readers[cp][r]} : r \in Requests}
\* _reqs_need_send[request_id] = time.time()
EntryFromDeadline(r, t) == [req |-> r, start |-> t - ABORT_REQUEST_TIMEOUT]
Entry(r, t) == [req |-> r, start |-> t]

Init ==
    /\ TrackerInit
    /\ cp \in BOOLEAN
    /\ now = 0
    /\ status = [r \in Requests |-> "waiting"]
    /\ reqs_in_batch = {} /\ reqs_need_send = <<>>
    /\ metas = <<>> /\ to_send = <<>>
    /\ port_send_num = [r \in Requests |-> 0]
    /\ reading = {} /\ wire = {} /\ handled = {}
    /\ reports = [r \in Requests |-> 0] /\ expired = {}

-----------------------------------------------------------------------------
(* The scheduler. *)

\* A waiting request gets its blocks.
update_state_after_alloc(r) ==
    /\ status[r] = "waiting"
    /\ status' = [status EXCEPT ![r] = "running"]
    /\ reqs_in_batch' = reqs_in_batch \cup {r}
    /\ UNCHANGED <<cp, trackerVars, now, reqs_need_send, workerVars, port_send_num,
                   decodeVars, reportVars>>

\* A running request loses its blocks and waits again.
preempt(r) ==
    /\ status[r] = "running"
    /\ r \notin reqs_in_batch
    /\ status' = [status EXCEPT ![r] = "waiting"]
    /\ UNCHANGED <<cp, trackerVars, now, reqs_in_batch, reqs_need_send, workerVars,
                   port_send_num, decodeVars, reportVars>>

build_connector_meta ==
    /\ reqs_in_batch # {} \/ reqs_need_send # <<>>
    /\ Len(metas) < MaxMetas
    /\ metas' = Append(metas, [in_batch |-> reqs_in_batch,
                               to_send |-> reqs_need_send])
    /\ reqs_in_batch' = {} /\ reqs_need_send' = <<>>
    /\ UNCHANGED <<cp, trackerVars, now, status, to_send, port_send_num, decodeVars,
                   reportVars>>

\* The worker has run the prefill of r: it has had the metadata that names it.
Prefilled(r) ==
    /\ status[r] = "running"
    /\ r \notin reqs_in_batch
    /\ \A i \in 1..Len(metas) : r \notin metas[i].in_batch

\* The request ended with FINISHED_LENGTH_CAPPED and has blocks to send.  The
\* last conjunct bounds the clock: every timeout can still elapse.
request_finished(r) ==
    /\ Prefilled(r)
    /\ now + ABORT_REQUEST_TIMEOUT < MaxTime
    /\ status' = [status EXCEPT ![r] = "finished"]
    /\ reqs_need_send' = Append(reqs_need_send, Entry(r, now))
    /\ UNCHANGED <<cp, trackerVars, now, reqs_in_batch, workerVars, port_send_num,
                   decodeVars, reportVars>>

\* It ended in any other way (stopped, no blocks, or aborted at any time between
\* two schedules): request_finished returns False and the blocks are freed at
\* once.
request_finished_early(r) ==
    /\ status[r] \in {"waiting", "running"}
    /\ r \notin reqs_in_batch
    /\ status' = [status EXCEPT ![r] = "freed"]
    /\ UNCHANGED <<cp, trackerVars, now, reqs_in_batch, reqs_need_send, workerVars,
                   port_send_num, decodeVars, reportVars>>

-----------------------------------------------------------------------------
(* The worker's main thread. *)

\* start_load_kv: the batch is tracked at once, the requests to send are
\* handled one by one, each under the lock of the tracker.
start_load_kv ==
    /\ to_send = <<>> /\ metas # <<>>
    /\ add_req_to_process(Head(metas).in_batch)
    /\ to_send' = Head(metas).to_send
    /\ metas' = Tail(metas)
    /\ UNCHANGED <<cp, now, schedVars, port_send_num, decodeVars, reportVars>>

sends(r) == cp \/ r \in RemoteRank

send_next ==
    /\ to_send # <<>>
    /\ LET e == Head(to_send) IN
       IF sends(e.req)
       THEN add_delayed_request(e.req, e.start)
       ELSE add_not_transfer_request(e.req)
    /\ to_send' = Tail(to_send)
    /\ UNCHANGED <<cp, now, schedVars, metas, port_send_num, decodeVars, reportVars>>

get_finished ==
    /\ to_send = <<>>
    /\ finished_or_expired(now) # {}
    /\ get_and_clear_finished_requests(now)
    /\ reports' = [r \in Requests |->
           IF r \in finished_or_expired(now) THEN reports[r] + 1 ELSE reports[r]]
    /\ expired' = expired \cup retrieve_expired_requests(now)
    /\ UNCHANGED <<cp, now, schedVars, workerVars, port_send_num, decodeVars>>

-----------------------------------------------------------------------------
(* The listener: a DONE_RECVING_MSG in run_busy_loop. *)

enough_dones_one_short(r) == port_send_num[r] + 2 >= SendNum[r]
enough_dones(r) == port_send_num[r] + 1 >= SendNum[r]

done_recving(m) ==
    LET r == m.req IN
    /\ m \in wire
    /\ wire' = wire \ {m}
    /\ handled' = handled \cup {m}
    /\ IF cp /\ ~enough_dones(r)
       THEN /\ port_send_num' = [port_send_num EXCEPT ![r] = @ + 1]
            /\ UNCHANGED trackerVars
       ELSE /\ port_send_num' = [port_send_num EXCEPT ![r] = 0]
            /\ update_done_task_count(r)
    /\ UNCHANGED <<cp, now, schedVars, workerVars, reading, reportVars>>

-----------------------------------------------------------------------------
(* The decode ranks (KVCacheRecvingThread) and time. *)

begin_read(m) ==
    /\ status[m.req] = "finished"
    /\ m \notin reading \cup wire \cup handled
    /\ reading' = reading \cup {m}
    /\ UNCHANGED <<cp, trackerVars, now, schedVars, workerVars, port_send_num, wire,
                   handled, reportVars>>

\* _send_done_recv_signal, once the read is over
send_done(m) ==
    /\ m \in reading
    /\ reading' = reading \ {m}
    /\ wire' = wire \cup {m}
    /\ UNCHANGED <<cp, trackerVars, now, schedVars, workerVars, port_send_num,
                   handled, reportVars>>

\* The DONE to a port that nobody pulls from is sent again: the task that ends a
\* request on D forgets in proc_not_transfer_request that it was sent.
send_done_again(m) ==
    /\ cp /\ SendNum[m.req] = 0
    /\ m \in handled
    /\ wire' = wire \cup {m}
    /\ UNCHANGED <<cp, trackerVars, now, schedVars, workerVars, port_send_num,
                   reading, handled, reportVars>>

Tick ==
    /\ now < MaxTime
    /\ now' = now + 1
    /\ UNCHANGED <<cp, trackerVars, schedVars, workerVars, port_send_num, decodeVars,
                   reportVars>>

Next ==
    \/ \E r \in Requests :
           \/ update_state_after_alloc(r) \/ preempt(r)
           \/ request_finished(r) \/ request_finished_early(r)
    \/ build_connector_meta \/ start_load_kv \/ send_next \/ get_finished
    \/ \E m \in Dones :
           \/ done_recving(m) \/ begin_read(m)
           \/ send_done(m) \/ send_done_again(m)
    \/ Tick

Spec == Init /\ [][Next]_vars

\* The engine steps on and time passes.  Nothing is assumed of the decode ranks
\* and of the wire: a reader may crash and a DONE may be lost.
FairSpec ==
    /\ Spec
    /\ WF_vars(build_connector_meta) /\ WF_vars(start_load_kv)
    /\ WF_vars(send_next) /\ SF_vars(get_finished) /\ WF_vars(Tick)

-----------------------------------------------------------------------------
(* Properties. *)

Entries == [req : Requests, start : Nat]

\* Every variable has the type its Python counterpart has.
TypeOK ==
    /\ TrackerTypeOK
    /\ cp \in BOOLEAN
    /\ now \in 0..MaxTime
    /\ status \in [Requests -> {"waiting", "running", "finished", "freed"}]
    /\ reqs_in_batch \subseteq Requests
    /\ reqs_need_send \in Seq(Entries)
    /\ metas \in Seq([in_batch : SUBSET Requests, to_send : Seq(Entries)])
    /\ to_send \in Seq(Entries)
    /\ port_send_num \in [Requests -> Nat]
    /\ reading \subseteq Dones /\ wire \subseteq Dones /\ handled \subseteq Dones
    /\ reports \in [Requests -> Nat]
    /\ expired \subseteq Requests

\* The rank reports a request as sent at most once: the engine frees the blocks
\* after one report per worker, so a second one would stand in for a worker
\* that still sends.  A DONE may come before add_delayed_request, after it, or
\* after the expiry.
ReportedAtMostOnce == \A r \in Requests : reports[r] <= 1

\* While a decode task reads, the rank has not given the blocks up, unless the
\* request has expired (port_send_num against the DONEs of several readers).
BlocksHeldWhileRead ==
    \A m \in reading :
        m.req \in expired \/ (reports[m.req] = 0 /\ m.req \notin finished_requests)

\* get_finished leaves no expired request behind: the entries are in the order
\* of their start times, so stopping at the first that is not due is enough.
NoExpiredLeft ==
    [][get_finished =>
          \A i \in 1..Len(delayed_free_requests') :
              now - delayed_free_requests'[i].start <= ABORT_REQUEST_TIMEOUT]_vars

\* Every finished request is reported, even if its readers crash or their DONEs
\* are lost.
EveryRequestFreed ==
    \A r \in Requests : status[r] = "finished" ~> reports[r] > 0

-----------------------------------------------------------------------------
(* The inductive invariant behind the safety properties. *)

\* Along a sequence of entries no request comes twice and no time decreases;
\* and the same from one sequence to a later one.
Later(e, f) == e.start <= f.start /\ e.req # f.req
Ordered(s) == \A i, j \in 1..Len(s) : i < j => Later(s[i], s[j])
Precedes(s, t) ==
    \A i \in 1..Len(s), j \in 1..Len(t) : Later(s[i], t[j])

\* An entry passes from _reqs_need_send through the metadata and start_load_kv
\* to delayed_free_requests, and overtakes none on its way.
EntryOrder ==
    /\ Ordered(delayed_free_requests) /\ Ordered(to_send) /\ Ordered(reqs_need_send)
    /\ Precedes(delayed_free_requests, to_send)
    /\ Precedes(delayed_free_requests, reqs_need_send)
    /\ Precedes(to_send, reqs_need_send)
    /\ \A k \in 1..Len(metas) :
           /\ Ordered(metas[k].to_send)
           /\ Precedes(delayed_free_requests, metas[k].to_send)
           /\ Precedes(to_send, metas[k].to_send)
           /\ Precedes(metas[k].to_send, reqs_need_send)
           /\ \A l \in 1..Len(metas) :
                  k < l => Precedes(metas[k].to_send, metas[l].to_send)

\* get_finished has not returned r and is not about to.
Unreported(r) == reports[r] = 0 /\ r \notin finished_requests

\* An entry is of the past and of a finished request.  One that will not be
\* sent from this rank is not reported before the worker comes to it.
EntryOK(e) ==
    /\ e.start <= now
    /\ status[e.req] = "finished"
    /\ sends(e.req) \/ Unreported(e.req)

AllOK(s) == \A i \in 1..Len(s) : EntryOK(s[i])

EntriesOK ==
    /\ AllOK(delayed_free_requests) /\ AllOK(to_send) /\ AllOK(reqs_need_send)
    /\ \A k \in 1..Len(metas) : AllOK(metas[k].to_send)
    /\ \A r \in Delayed : sends(r)

\* The worker has put a request in reqs_to_process before it finishes, and never
\* does so again.
BatchOK ==
    \A r \in Requests :
        status[r] = "finished" =>
            /\ r \notin reqs_in_batch
            /\ \A k \in 1..Len(metas) : r \notin metas[k].in_batch

\* A request is reported from delayed_free_requests or from reqs_to_process, and
\* leaves both for good.
ReportOK ==
    /\ Delayed \subseteq reqs_to_process
    /\ \A r \in Requests :
           \/ Unreported(r)
           \/ /\ status[r] = "finished" /\ r \notin reqs_to_process
              /\ reports[r] = (IF r \in finished_requests THEN 0 ELSE 1)

\* A decode task reads a finished request, and once.  A DONE that comes again
\* is the only one of its request.
ReadersOK ==
    /\ \A m \in reading \cup wire \cup handled : status[m.req] = "finished"
    /\ reading \cap wire = {} /\ reading \cap handled = {}
    /\ \A m \in wire \cap handled : Readers[cp][m.req] = {m.task}

HandledOf(r) == {d \in Readers[cp][r] : [req |-> r, task |-> d] \in handled}

\* port_send_num counts the DONEs of a request until the last has come, and
\* nothing but the last, or the timeout, gives its blocks up.
DonesOK ==
    \A r \in Requests :
        \/ HandledOf(r) = Readers[cp][r]
        \/ /\ r \in expired \/ Unreported(r)
           /\ cp => port_send_num[r] = Cardinality(HandledOf(r))

Inductive ==
    /\ TypeOK
    /\ EntryOrder
    /\ EntriesOK
    /\ BatchOK
    /\ ReportOK
    /\ ReadersOK
    /\ DonesOK
=============================================================================
