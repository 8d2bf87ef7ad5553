------------------------- MODULE KVCacheRecvingThread -------------------------
(***************************************************************************)
(* The decode (D) side of MooncakeConnector on one worker rank             *)
(* (mooncake_connector.py): the model runner's thread calls start_load_kv, *)
(* get_finished and get_block_ids_with_load_errors; the thread proper      *)
(* dispatches the tasks of its request_queue to one queue per remote peer; *)
(* the executor's threads run _handle_peer_requests, at most one per peer. *)
(*                                                                         *)
(* A request is split by _get_kv_split_metadata into shards, and a shard   *)
(* is pulled from tp_num_need_pulls remote ports: one task per pull, in    *)
(* the order of start_load_kv's two loops.  A task is [req, idx].  The     *)
(* model has one KV cache group (no hybrid model).                         *)
(***************************************************************************)
EXTENDS KVCacheTaskTracker, FiniteSets

CONSTANTS
    Peers,          \* (remote_host, remote_handshake_port) keys
    Workers,        \* the threads of the executor
    RemotePorts,    \* request -> sequence of peers, one per task
    LocalBlocks,    \* request -> sequence of sets of logical block ids (KV
                    \*   cache group 0), one per shard
    SignalRequests, \* requests with a remote_port_send_num, on the rank whose
                    \*   handshake port is side_channel_port; {} on the others
    TP_NUM_NEED_PULLS,
    BLOCK_SIZE_SCALE,           \* kernel blocks per logical block
    ENABLE_KV_NZ,
    MAX_REQUESTS_PER_PEER_HANDLER,
    NoTask, NoPeer              \* the locals of a thread that holds no task

ASSUME PullsAssumption == TP_NUM_NEED_PULLS \in Nat \ {0}
ASSUME BatchAssumption == MAX_REQUESTS_PER_PEER_HANDLER \in Nat \ {0}
ASSUME ScaleAssumption == BLOCK_SIZE_SCALE \in Nat \ {0}
ASSUME PortsAssumption ==
    /\ RemotePorts \in [Requests -> Seq(Peers)]
    /\ \A r \in Requests : Len(RemotePorts[r]) > 0
\* every task has a shard
ASSUME BlocksAssumption ==
    /\ LocalBlocks \in [Requests -> Seq(SUBSET Nat)]
    /\ \A r \in Requests : \A i \in 1..Len(RemotePorts[r]) :
           (i - 1) \div TP_NUM_NEED_PULLS + 1 \in 1..Len(LocalBlocks[r])
ASSUME NzAssumption == ENABLE_KV_NZ \in BOOLEAN
ASSUME SignalAssumption == SignalRequests \subseteq Requests

NumTasks(r) == Len(RemotePorts[r])
TasksOf(r) == {[req |-> r, idx |-> i] : i \in 1..NumTasks(r)}
Tasks == UNION {TasksOf(r) : r \in Requests}

ASSUME NoTaskAssumption == NoTask \notin Tasks /\ NoPeer \notin Peers

peer_key(t) == RemotePorts[t.req][t.idx]
all_task_done(t) == t.idx = NumTasks(t.req)

Shard(t) == (t.idx - 1) \div TP_NUM_NEED_PULLS
ShardTasks(t) == {u \in TasksOf(t.req) : Shard(u) = Shard(t)}
is_group_transfer_end(t) == t.idx % TP_NUM_NEED_PULLS = 0

\* _get_kernel_block_ids: the task carries kernel block ids.
expand_block_ids(B) ==
    {b * BLOCK_SIZE_SCALE + o : b \in B, o \in 0..(BLOCK_SIZE_SCALE - 1)}
logical_block_ids(t) == LocalBlocks[t.req][Shard(t) + 1]
local_block_ids(t) == expand_block_ids(logical_block_ids(t))

VARIABLES
    \* the model runner's thread
    main_pc, batch, loading,
    \* the dispatching thread
    request_queue, disp_pc, disp_task,
    \* per-peer queues and the executor (peer_request_queues_lock)
    peer_request_queues, active_peer_request_handlers, executor_queue,
    \* the executor's threads
    worker_pc, worker_peer, worker_task, requests_handled,
    \* request_task_counts_lock (0: the key is absent)
    request_task_counts, finished_request_markers,
    \* failed_recv_requests_lock
    failed_recv_requests, invalid_block_ids,
    \* proc_not_transfer_request_lock
    proc_not_transfer_request,
    \* what the scheduler has been told
    reported, reported_invalid,
    \* history of every task: where it is, how its read ended, its signals
    stage, pulled, failed, reformatted, done_sent, free_rounds

mainVars == <<main_pc, batch, loading>>
dispVars == <<disp_pc, disp_task>>
peerVars == <<peer_request_queues, active_peer_request_handlers>>
workerVars == <<worker_pc, worker_peer, worker_task, requests_handled>>
countVars == <<request_task_counts, finished_request_markers>>
failVars == <<failed_recv_requests, invalid_block_ids>>
reportVars == <<reported, reported_invalid>>
historyVars == <<stage, pulled, failed, reformatted, done_sent, free_rounds>>

vars == <<trackerVars, mainVars, request_queue, dispVars, peerVars,
          executor_queue, workerVars, countVars, failVars,
          proc_not_transfer_request, reportVars, historyVars>>

Init ==
    /\ TrackerInit
    /\ main_pc = "idle" /\ batch = {} /\ loading = NoTask
    /\ request_queue = <<>>
    /\ disp_pc = "get" /\ disp_task = NoTask
    /\ peer_request_queues = [p \in Peers |-> <<>>]
    /\ active_peer_request_handlers = {}
    /\ executor_queue = <<>>
    /\ worker_pc = [w \in Workers |-> "idle"]
    /\ worker_peer = [w \in Workers |-> NoPeer]
    /\ worker_task = [w \in Workers |-> NoTask]
    /\ requests_handled = [w \in Workers |-> 0]
    /\ request_task_counts = [r \in Requests |-> 0]
    /\ finished_request_markers = {}
    /\ failed_recv_requests = {} /\ invalid_block_ids = {}
    /\ proc_not_transfer_request = [r \in Requests |-> "absent"]
    /\ reported = {} /\ reported_invalid = {}
    /\ stage = [t \in Tasks |-> "none"]
    /\ pulled = {} /\ failed = {} /\ reformatted = {} /\ done_sent = {}
    /\ free_rounds = [r \in Requests |-> 0]

-----------------------------------------------------------------------------
(* The model runner's thread. *)

\* start_load_kv: every request of the batch is tracked, then the tasks of one
\* request after the other are put in the queue.
FirstTask(r) == [req |-> r, idx |-> 1]

start_load_kv(B) ==
    /\ main_pc = "idle"
    /\ \A r \in B : stage[FirstTask(r)] = "none"
    /\ add_req_to_process(B)
    /\ \E r \in B : loading' = FirstTask(r) /\ batch' = B \ {r}
    /\ main_pc' = "loading"
    /\ UNCHANGED <<request_queue, dispVars, peerVars, executor_queue, workerVars,
                   countVars, failVars, proc_not_transfer_request, reportVars,
                   historyVars>>

add_request ==
    /\ main_pc = "loading"
    /\ request_queue' = Append(request_queue, loading)
    /\ stage' = [stage EXCEPT ![loading] = "queued"]
    /\ \/ /\ ~all_task_done(loading)
          /\ loading' = [loading EXCEPT !.idx = @ + 1]
          /\ UNCHANGED <<main_pc, batch>>
       \/ /\ all_task_done(loading)
          /\ \E r \in batch : loading' = FirstTask(r) /\ batch' = batch \ {r}
          /\ UNCHANGED main_pc
       \/ /\ all_task_done(loading) /\ batch = {}
          /\ main_pc' = "idle" /\ loading' = NoTask
          /\ UNCHANGED batch
    /\ UNCHANGED <<trackerVars, dispVars, peerVars, executor_queue, workerVars,
                   countVars, failVars, proc_not_transfer_request, reportVars,
                   pulled, failed, reformatted, done_sent, free_rounds>>

\* The model runner asks for the finished requests first and for the load
\* errors next; both go to the scheduler in one output.
get_finished ==
    /\ main_pc = "idle"
    /\ get_and_clear_finished_requests(0)
    /\ reported' = reported \cup finished_or_expired(0)
    /\ main_pc' = "errors"
    /\ UNCHANGED <<batch, loading, request_queue, dispVars, peerVars,
                   executor_queue, workerVars, countVars, failVars,
                   proc_not_transfer_request, reported_invalid, historyVars>>

get_and_clear_invalid_block_ids ==
    /\ main_pc = "errors"
    /\ reported_invalid' = reported_invalid \cup invalid_block_ids
    /\ invalid_block_ids' = {}
    /\ main_pc' = "idle"
    /\ UNCHANGED <<trackerVars, batch, loading, request_queue, dispVars,
                   peerVars, executor_queue, workerVars, countVars,
                   failed_recv_requests, proc_not_transfer_request, reported,
                   historyVars>>

-----------------------------------------------------------------------------
(* The dispatching thread: run and _submit_request. *)

\* request_queue.get and _mark_request_task_submitted
mark_request_task_submitted ==
    /\ disp_pc = "get"
    /\ request_queue # <<>>
    /\ LET t == Head(request_queue) IN
       /\ disp_task' = t
       /\ request_task_counts' = [request_task_counts EXCEPT ![t.req] = @ + 1]
       /\ finished_request_markers' =
              finished_request_markers \cup
                  (IF all_task_done(t) THEN {t.req} ELSE {})
       /\ stage' = [stage EXCEPT ![t] = "submitted"]
    /\ request_queue' = Tail(request_queue)
    /\ disp_pc' = "append"
    /\ UNCHANGED <<trackerVars, mainVars, peerVars, executor_queue, workerVars,
                   failVars, proc_not_transfer_request, reportVars,
                   pulled, failed, reformatted, done_sent, free_rounds>>

should_start_worker_always(p) == TRUE
should_start_worker(p) == p \notin active_peer_request_handlers

append_peer_request ==
    /\ disp_pc = "append"
    /\ LET p == peer_key(disp_task) IN
       /\ peer_request_queues' =
              [peer_request_queues EXCEPT ![p] = Append(@, disp_task)]
       /\ active_peer_request_handlers' = active_peer_request_handlers \cup {p}
       /\ IF should_start_worker(p)
          THEN disp_pc' = "submit" /\ UNCHANGED disp_task
          ELSE disp_pc' = "get" /\ disp_task' = NoTask
    /\ UNCHANGED <<trackerVars, mainVars, request_queue, executor_queue,
                   workerVars, countVars, failVars, proc_not_transfer_request,
                   reportVars, historyVars>>

submit_peer_handler ==
    /\ disp_pc = "submit"
    /\ executor_queue' = Append(executor_queue, peer_key(disp_task))
    /\ disp_pc' = "get" /\ disp_task' = NoTask
    /\ UNCHANGED <<trackerVars, mainVars, request_queue, peerVars, workerVars,
                   countVars, failVars, proc_not_transfer_request, reportVars,
                   historyVars>>

-----------------------------------------------------------------------------
(* A thread of the executor: _handle_peer_requests and _handle_request. *)

Goto(w, pc) == worker_pc' = [worker_pc EXCEPT ![w] = pc]

\* The thread forgets its locals and goes back to the executor.
Leave(w) ==
    /\ Goto(w, "idle")
    /\ worker_peer' = [worker_peer EXCEPT ![w] = NoPeer]
    /\ requests_handled' = [requests_handled EXCEPT ![w] = 0]

start_handler(w) ==
    /\ worker_pc[w] = "idle"
    /\ executor_queue # <<>>
    /\ Goto(w, "loop")
    /\ worker_peer' = [worker_peer EXCEPT ![w] = Head(executor_queue)]
    /\ executor_queue' = Tail(executor_queue)
    /\ UNCHANGED <<trackerVars, mainVars, request_queue, dispVars, peerVars,
                   worker_task, requests_handled, countVars, failVars,
                   proc_not_transfer_request, reportVars, historyVars>>

batch_goes_on(w) == requests_handled[w] < MAX_REQUESTS_PER_PEER_HANDLER

\* One turn of the loop, under peer_request_queues_lock: take the oldest
\* request of the peer, or retire when there is none.
pop_peer_request(w) ==
    LET p == worker_peer[w] IN
    /\ worker_pc[w] = "loop"
    /\ batch_goes_on(w)
    /\ IF peer_request_queues[p] = <<>>
       THEN /\ active_peer_request_handlers' = active_peer_request_handlers \ {p}
            /\ Leave(w)
            /\ UNCHANGED <<peer_request_queues, worker_task>>
       ELSE /\ peer_request_queues' = [peer_request_queues EXCEPT ![p] = Tail(@)]
            /\ worker_task' =
                   [worker_task EXCEPT ![w] = Head(peer_request_queues[p])]
            /\ requests_handled' = [requests_handled EXCEPT ![w] = @ + 1]
            /\ Goto(w, "check")
            /\ UNCHANGED <<active_peer_request_handlers, worker_peer>>
    /\ UNCHANGED <<trackerVars, mainVars, request_queue, dispVars,
                   executor_queue, countVars, failVars,
                   proc_not_transfer_request, reportVars, historyVars>>

should_resubmit(p) == peer_request_queues[p] # <<>>

\* After a full batch the handler retires if the peer has nothing left, and
\* otherwise gives its thread up and queues itself again.
end_batch(w) ==
    LET p == worker_peer[w] IN
    /\ worker_pc[w] = "loop"
    /\ ~batch_goes_on(w)
    /\ IF should_resubmit(p)
       THEN /\ Goto(w, "resubmit")
            /\ UNCHANGED <<active_peer_request_handlers, worker_peer,
                           requests_handled>>
       ELSE /\ active_peer_request_handlers' = active_peer_request_handlers \ {p}
            /\ Leave(w)
    /\ UNCHANGED <<trackerVars, mainVars, request_queue, dispVars,
                   peer_request_queues, executor_queue, worker_task, countVars,
                   failVars, proc_not_transfer_request, reportVars, historyVars>>

resubmit_keeps_thread(w) ==
    /\ worker_pc[w] = "resubmit"
    /\ Goto(w, "loop")
    /\ requests_handled' = [requests_handled EXCEPT ![w] = 0]
    /\ UNCHANGED <<trackerVars, mainVars, request_queue, dispVars, peerVars,
                   executor_queue, worker_peer, worker_task, countVars, failVars,
                   proc_not_transfer_request, reportVars, historyVars>>

resubmit_handler(w) ==
    /\ worker_pc[w] = "resubmit"
    /\ executor_queue' = Append(executor_queue, worker_peer[w])
    /\ Leave(w)
    /\ UNCHANGED <<trackerVars, mainVars, request_queue, dispVars, peerVars,
                   worker_task, countVars, failVars, proc_not_transfer_request,
                   reportVars, historyVars>>

mark_first_failure_only(t) ==
    /\ failed_recv_requests' = failed_recv_requests \cup {t.req}
    /\ invalid_block_ids' = invalid_block_ids \cup
           (IF t.req \in failed_recv_requests THEN {} ELSE local_block_ids(t))

mark_whole_request_failed(t) ==
    /\ failed_recv_requests' = failed_recv_requests \cup {t.req}
    /\ invalid_block_ids' =
           invalid_block_ids \cup UNION {local_block_ids(u) : u \in TasksOf(t.req)}

\* _mark_failed_recv_request: the block ids of KV cache group 0
mark_failed_recv_request(t) ==
    /\ failed_recv_requests' = failed_recv_requests \cup {t.req}
    /\ invalid_block_ids' = invalid_block_ids \cup local_block_ids(t)

check_failed_unmarked(w) ==
    /\ worker_pc[w] = "check"
    /\ Goto(w, IF worker_task[w].req \in failed_recv_requests
               THEN "task_done" ELSE "transfer")
    /\ UNCHANGED <<trackerVars, mainVars, request_queue, dispVars, peerVars,
                   executor_queue, worker_peer, worker_task, requests_handled,
                   countVars, failVars, proc_not_transfer_request, reportVars,
                   historyVars>>

\* _is_failed_recv_request: once one task of the request failed, the others
\* are not read.
check_failed(w) ==
    LET t == worker_task[w] IN
    /\ worker_pc[w] = "check"
    /\ IF t.req \in failed_recv_requests
       THEN /\ mark_failed_recv_request(t)
            /\ failed' = failed \cup {t}
            /\ Goto(w, "task_done")
       ELSE /\ Goto(w, "transfer")
            /\ UNCHANGED <<failVars, failed>>
    /\ UNCHANGED <<trackerVars, mainVars, request_queue, dispVars, peerVars,
                   executor_queue, worker_peer, worker_task, requests_handled,
                   countVars, proc_not_transfer_request, reportVars,
                   stage, pulled, reformatted, done_sent, free_rounds>>

\* What the two steps of _transfer_kv_cache_all_groups leave alone.
TransferFrame ==
    UNCHANGED <<trackerVars, mainVars, request_queue, dispVars, peerVars,
                executor_queue, worker_peer, worker_task, requests_handled,
                countVars, proc_not_transfer_request, reportVars,
                stage, done_sent, free_rounds>>

\* The read succeeds (or there is nothing to read: full prefix cache hit).
\* The last pull of a group goes on to reformat the group's blocks.
transfer_kv_cache(w) ==
    LET t == worker_task[w] IN
    /\ worker_pc[w] = "transfer"
    /\ pulled' = pulled \cup {t}
    /\ Goto(w, IF /\ local_block_ids(t) # {}
                  /\ TP_NUM_NEED_PULLS > 1 \/ ENABLE_KV_NZ
                  /\ is_group_transfer_end(t)
               THEN "reformat" ELSE "task_done")
    /\ UNCHANGED <<failVars, failed, reformatted>>
    /\ TransferFrame

reformat_kv_cache(w) ==
    /\ worker_pc[w] = "reformat"
    /\ reformatted' = reformatted \cup {worker_task[w]}
    /\ Goto(w, "task_done")
    /\ UNCHANGED <<failVars, pulled, failed>>
    /\ TransferFrame

\* No metadata from the peer, another engine behind the port, a negative
\* return code of the transfer engine, an error in the reformatting.
transfer_fails(w) ==
    LET t == worker_task[w] IN
    /\ worker_pc[w] \in {"transfer", "reformat"}
    /\ local_block_ids(t) # {}
    /\ mark_failed_recv_request(t)
    /\ failed' = failed \cup {t}
    /\ Goto(w, "task_done")
    /\ UNCHANGED <<pulled, reformatted>>
    /\ TransferFrame

finished_by_last_task(t) == all_task_done(t)

\* What _mark_request_task_done returns: this was the last pending task of a
\* request whose tasks have all been submitted.
finished_by(t) ==
    \/ request_task_counts[t.req] = 0 /\ all_task_done(t)
    \/ request_task_counts[t.req] = 1 /\ t.req \in finished_request_markers

mark_request_task_done(w) ==
    LET t == worker_task[w]
        r == t.req
    IN
    /\ worker_pc[w] = "task_done"
    /\ request_task_counts' =
           [request_task_counts EXCEPT ![r] = IF @ = 0 THEN 0 ELSE @ - 1]
    /\ finished_request_markers' =
           finished_request_markers \
               (IF request_task_counts[r] = 1 THEN {r} ELSE {})
    /\ Goto(w, IF finished_by(t) THEN "finish" ELSE "free")
    /\ stage' = [stage EXCEPT ![t] = "ended"]
    /\ UNCHANGED <<trackerVars, mainVars, request_queue, dispVars, peerVars,
                   executor_queue, worker_peer, worker_task, requests_handled,
                   failVars, proc_not_transfer_request, reportVars,
                   pulled, failed, reformatted, done_sent, free_rounds>>

finish_request(w) ==
    /\ worker_pc[w] = "finish"
    /\ update_done_task_count(worker_task[w].req)
    /\ Goto(w, "cleanup")
    /\ UNCHANGED <<mainVars, request_queue, dispVars, peerVars, executor_queue,
                   worker_peer, worker_task, requests_handled, countVars,
                   failVars, proc_not_transfer_request, reportVars, historyVars>>

failure_kept(r) == UNCHANGED failed_recv_requests
clear_failed_recv_request(r) ==
    failed_recv_requests' = failed_recv_requests \ {r}

\* proc_not_transfer_request.pop and _clear_failed_recv_request
clear_request(w) ==
    LET r == worker_task[w].req IN
    /\ worker_pc[w] = "cleanup"
    /\ proc_not_transfer_request' =
           [proc_not_transfer_request EXCEPT ![r] = "absent"]
    /\ clear_failed_recv_request(r)
    /\ Goto(w, "free")
    /\ UNCHANGED <<trackerVars, mainVars, request_queue, dispVars, peerVars,
                   executor_queue, worker_peer, worker_task, requests_handled,
                   countVars, invalid_block_ids, reportVars, historyVars>>

\* _send_done_signal_to_free_remote_port: one round of signals to the remote
\* ports nobody reads, unless the flag says that it was sent.  The task that ends
\* the request comes here from clear_request, so it always sends a round, and the
\* flag it sets stays.
send_done_signal_to_free_remote_port(w) ==
    LET r == worker_task[w].req IN
    /\ worker_pc[w] = "free"
    /\ IF r \in SignalRequests
       THEN /\ proc_not_transfer_request' =
                   [proc_not_transfer_request EXCEPT ![r] = "sent"]
            /\ free_rounds' = [free_rounds EXCEPT ![r] =
                   IF proc_not_transfer_request[r] = "sent" THEN @ ELSE @ + 1]
       ELSE UNCHANGED <<proc_not_transfer_request, free_rounds>>
    /\ Goto(w, "done")
    /\ UNCHANGED <<trackerVars, mainVars, request_queue, dispVars, peerVars,
                   executor_queue, worker_peer, worker_task, requests_handled,
                   countVars, failVars, reportVars,
                   stage, pulled, failed, reformatted, done_sent>>

done_unless_failed(t) == done_sent' = done_sent \cup ({t} \ failed)
signal_done(t) == done_sent' = done_sent \cup {t}

\* _send_done_recv_signal: whatever became of the transfer, and at most once
\* (an error on the socket is swallowed).
send_done_recv_signal(w) ==
    /\ worker_pc[w] = "done"
    /\ signal_done(worker_task[w])
    /\ worker_task' = [worker_task EXCEPT ![w] = NoTask]
    /\ Goto(w, "loop")
    /\ UNCHANGED <<trackerVars, mainVars, request_queue, dispVars, peerVars,
                   executor_queue, worker_peer, requests_handled, countVars,
                   failVars, proc_not_transfer_request, reportVars,
                   stage, pulled, failed, reformatted, free_rounds>>

-----------------------------------------------------------------------------
MainStep ==
    \/ \E B \in SUBSET Requests : start_load_kv(B)
    \/ add_request
    \/ get_finished
    \/ get_and_clear_invalid_block_ids

DispatchStep ==
    \/ mark_request_task_submitted
    \/ append_peer_request
    \/ submit_peer_handler

WorkerStep(w) ==
    \/ start_handler(w)
    \/ pop_peer_request(w)
    \/ end_batch(w)
    \/ resubmit_handler(w)
    \/ check_failed(w)
    \/ transfer_kv_cache(w)
    \/ reformat_kv_cache(w)
    \/ transfer_fails(w)
    \/ mark_request_task_done(w)
    \/ finish_request(w)
    \/ clear_request(w)
    \/ send_done_signal_to_free_remote_port(w)
    \/ send_done_recv_signal(w)

Next ==
    \/ MainStep
    \/ DispatchStep
    \/ \E w \in Workers : WorkerStep(w)

Spec == Init /\ [][Next]_vars

\* The engine calls get_finished and asks for the load errors in every step,
\* whether or not it also starts loads; a loop over the tasks of a request, the
\* dispatching thread and the executor's threads run on; every transfer returns
\* (ASCEND_TRANSFER_TIMEOUT), and so does every signal (bounded retries).
Fairness ==
    /\ WF_vars(add_request)
    /\ SF_vars(get_finished)
    /\ WF_vars(get_and_clear_invalid_block_ids)
    /\ WF_vars(DispatchStep)
    /\ \A w \in Workers : WF_vars(WorkerStep(w))

FairSpec == Spec /\ Fairness

-----------------------------------------------------------------------------
(* Properties. *)

WorkerPCs == {"idle", "loop", "resubmit", "check", "transfer", "reformat",
              "task_done", "finish", "cleanup", "free", "done"}

\* Every variable has the type its Python counterpart has.
TypeOK ==
    /\ TrackerTypeOK
    /\ main_pc \in {"idle", "loading", "errors"}
    /\ batch \subseteq Requests
    /\ loading \in Tasks \cup {NoTask}
    /\ request_queue \in Seq(Tasks)
    /\ disp_pc \in {"get", "append", "submit"}
    /\ disp_task \in Tasks \cup {NoTask}
    /\ peer_request_queues \in [Peers -> Seq(Tasks)]
    /\ active_peer_request_handlers \subseteq Peers
    /\ executor_queue \in Seq(Peers)
    /\ worker_pc \in [Workers -> WorkerPCs]
    /\ worker_peer \in [Workers -> Peers \cup {NoPeer}]
    /\ worker_task \in [Workers -> Tasks \cup {NoTask}]
    /\ requests_handled \in [Workers -> 0..MAX_REQUESTS_PER_PEER_HANDLER]
    /\ request_task_counts \in [Requests -> Nat]
    /\ finished_request_markers \subseteq Requests
    /\ failed_recv_requests \subseteq Requests
    /\ invalid_block_ids \subseteq Nat
    /\ proc_not_transfer_request \in [Requests -> {"absent", "sent"}]
    /\ reported \subseteq Requests
    /\ reported_invalid \subseteq Nat
    /\ stage \in [Tasks -> {"none", "queued", "submitted", "ended"}]
    /\ pulled \subseteq Tasks
    /\ failed \subseteq Tasks
    /\ reformatted \subseteq Tasks
    /\ done_sent \subseteq Tasks
    /\ free_rounds \in [Requests -> Nat]

\* The threads that are in the middle of task t.
Handling(w, t) == worker_task[w] = t

\* A request that the tracker or the model runner reports as received has had
\* every one of its tasks read or failed, and no thread is still about to write
\* into its blocks (request_task_counts and finished_request_markers, against
\* tasks of one request that run on several peers while others are still being
\* put into the queue).
LoadedBeforeReported ==
    \A r \in finished_requests \cup reported :
        \A t \in TasksOf(r) :
            /\ t \in pulled \cup failed
            /\ \A w \in Workers :
                   Handling(w, t) =>
                       worker_pc[w] \notin {"check", "transfer", "reformat"}

\* A task waiting in a peer's queue has exactly one handler that will come to
\* it: one in the executor's queue, or in a thread, or about to be submitted.
\* The handler retires and the dispatcher starts one under the same lock, so
\* neither a stranded queue nor two handlers of one peer (test
\* test_submit_request_serializes_same_peer_fifo) can happen.
QueuedHandlers(p) == {i \in 1..Len(executor_queue) : executor_queue[i] = p}
RunningHandlers(p) == {w \in Workers : worker_peer[w] = p}
ComingHandlers(p) == {x \in {0} : disp_pc = "submit" /\ peer_key(disp_task) = p}

OneHandlerPerPeer ==
    \A p \in Peers :
        /\ Cardinality(QueuedHandlers(p)) + Cardinality(RunningHandlers(p))
              + Cardinality(ComingHandlers(p))
           = IF p \in active_peer_request_handlers THEN 1 ELSE 0
        /\ peer_request_queues[p] # <<>> => p \in active_peer_request_handlers

\* When the scheduler has the output that says a request is received, it also
\* has, in this output or an earlier one, the ids of all the blocks whose load
\* failed: a failed load never looks like a good one.
FailureReported ==
    main_pc # "errors" =>
        \A t \in failed : t.req \in reported =>
            local_block_ids(t) \subseteq reported_invalid

\* The block ids reported as load errors are blocks of loads that failed
\* ("Get and clear block ids that failed to load").
InvalidBlocksFailed ==
    reported_invalid \subseteq UNION {logical_block_ids(t) : t \in failed}

\* "The final-pull flag is used by the receiver to decide when group
\* reformatting can run": the blocks of a group are reformatted only when all
\* the pulls that fill them have ended.
ReformatAfterAllPulls ==
    \A t \in reformatted : ShardTasks(t) \subseteq pulled \cup failed

\* Of a request whose tasks have all been signalled no count and no marker is
\* left, no failure mark that would make a later request skip its load, and no
\* entry in reqs_to_process.  (Its entry in proc_not_transfer_request is left:
\* the task that ends the request pops it and then makes it again when it sends
\* a second round of DONEs to the ports nobody reads.)
MarksCleared ==
    \A r \in Requests : TasksOf(r) \subseteq done_sent =>
        /\ request_task_counts[r] = 0
        /\ r \notin finished_request_markers
        /\ r \notin failed_recv_requests
        /\ r \notin reqs_to_process

\* Every load that was started is eventually reported to the scheduler, failed
\* or not.
EveryLoadReported ==
    \A r \in Requests : stage[FirstTask(r)] = "queued" ~> r \in reported

\* "Always send the done signal to the remote host to ensure proper resource
\* cleanup": every task that enters the queue is signalled, failed or not.
DoneAlwaysSent == \A t \in Tasks : stage[t] = "queued" ~> t \in done_sent

-----------------------------------------------------------------------------
(* The inductive invariant behind TypeOK and the safety properties above. *)

BeforeDone == {"check", "transfer", "reformat", "task_done"}
Busy == BeforeDone \cup {"finish", "cleanup", "free", "done"}
AfterDone == Busy \ BeforeDone

AllEnded(r) == \A t \in TasksOf(r) : stage[t] = "ended"
Submitted(r) == {t \in TasksOf(r) : stage[t] = "submitted"}

\* A thread holds a task exactly where its code uses one.  On a decode rank no
\* request is ever delayed.
LocalsOK ==
    /\ delayed_free_requests = <<>>
    /\ main_pc = "loading" => loading \in Tasks
    /\ main_pc # "loading" => batch = {}
    /\ disp_pc # "get" => disp_task \in Tasks
    /\ \A w \in Workers :
           /\ worker_pc[w] # "idle" => worker_peer[w] \in Peers
           /\ worker_pc[w] \in Busy => worker_task[w] \in Tasks

\* start_load_kv has queued the tasks of a request up to the one it is at.
LoadOrder ==
    /\ \A t, u \in Tasks :
           t.req = u.req /\ t.idx < u.idx /\ stage[t] = "none" => stage[u] = "none"
    /\ main_pc = "loading" =>
           /\ stage[loading] = "none"
           /\ \A t \in TasksOf(loading.req) :
                  t.idx < loading.idx => stage[t] # "none"
           /\ loading.req \notin batch
    /\ \A r \in batch : \A t \in TasksOf(r) : stage[t] = "none"
    /\ \A t, u \in Tasks :
           /\ t.req = u.req
           /\ main_pc = "loading" => t.req # loading.req
           /\ stage[t] = "none"
           => stage[u] = "none"

\* request_queue holds the queued tasks, each once, those of one request in
\* their order.
QueueOrder ==
    /\ \A i \in 1..Len(request_queue) : stage[request_queue[i]] = "queued"
    /\ \A t \in Tasks : stage[t] = "queued" =>
           \E i \in 1..Len(request_queue) : request_queue[i] = t
    /\ \A i, j \in 1..Len(request_queue) : i < j =>
           \/ request_queue[i].req # request_queue[j].req
           \/ request_queue[i].idx < request_queue[j].idx

\* A submitted task is in one place: with the dispatcher, in the queue of its
\* peer, or with one thread.
InPeerQueue(t) ==
    \E i \in 1..Len(peer_request_queues[peer_key(t)]) :
        peer_request_queues[peer_key(t)][i] = t

QueuedAtPeer ==
    \A p \in Peers : \A i \in 1..Len(peer_request_queues[p]) :
        /\ peer_key(peer_request_queues[p][i]) = p
        /\ stage[peer_request_queues[p][i]] = "submitted"

QueuedOnce ==
    \A p \in Peers : \A i, j \in 1..Len(peer_request_queues[p]) :
        peer_request_queues[p][i] = peer_request_queues[p][j] => i = j

DispatchedApart ==
    disp_pc = "append" => stage[disp_task] = "submitted" /\ ~InPeerQueue(disp_task)

HandledApart ==
    \A w \in Workers : worker_pc[w] \in BeforeDone =>
        /\ stage[worker_task[w]] = "submitted"
        /\ ~InPeerQueue(worker_task[w])
        /\ disp_pc = "append" => worker_task[w] # disp_task

HandledOnce ==
    \A v, w \in Workers :
        /\ worker_pc[v] \in BeforeDone /\ worker_pc[w] \in BeforeDone
        /\ worker_task[v] = worker_task[w]
        => v = w

OnePlace ==
    /\ QueuedAtPeer
    /\ QueuedOnce
    /\ DispatchedApart
    /\ HandledApart
    /\ HandledOnce

\* request_task_counts counts the submitted tasks, and a marker says that all
\* the tasks have been submitted: the last one is submitted last.
CountsOK ==
    \A r \in Requests :
        /\ request_task_counts[r] = Cardinality(Submitted(r))
        /\ r \in finished_request_markers =>
               \A t \in TasksOf(r) : stage[t] \in {"submitted", "ended"}

\* A task that has ended was read or has failed, and a request is finished
\* only when all its tasks have ended.
EndedOK ==
    /\ \A t \in Tasks : stage[t] = "ended" => t \in pulled \cup failed
    /\ \A w \in Workers :
           /\ worker_pc[w] \in {"reformat", "task_done"} =>
                  worker_task[w] \in pulled \cup failed
           /\ worker_pc[w] = "finish" => AllEnded(worker_task[w].req)
    /\ \A r \in finished_requests \cup reported : AllEnded(r)

\* The tasks of a request are submitted in their order, and the marker is set
\* from the submission of the last one to the end of the one that ends last.
MarkersOK ==
    /\ \A t, u \in Tasks :
           t.req = u.req /\ t.idx < u.idx /\ stage[u] \in {"submitted", "ended"}
           => stage[t] \in {"submitted", "ended"}
    /\ \A r \in Requests :
           /\ AllEnded(r) => r \notin finished_request_markers
           /\ /\ \A t \in TasksOf(r) : stage[t] \in {"submitted", "ended"}
              /\ ~AllEnded(r)
              => r \in finished_request_markers

\* A thread that has ended its task still owes the peer the signal, and no
\* other thread has the task.
SignalsOK ==
    /\ \A t \in done_sent : stage[t] = "ended"
    /\ \A w \in Workers : worker_pc[w] \in AfterDone =>
           stage[worker_task[w]] = "ended" /\ worker_task[w] \notin done_sent
    /\ \A v, w \in Workers :
           /\ worker_pc[v] \in AfterDone /\ worker_pc[w] \in AfterDone
           /\ worker_task[v] = worker_task[w]
           => v = w

\* Of a request all of whose tasks have ended, the tracker and the failure mark
\* forget only when the thread that ended the last one gets there.
ClosingOK ==
    \A r \in Requests : AllEnded(r) =>
        /\ r \in reqs_to_process =>
               \E w \in Workers : worker_pc[w] = "finish" /\ worker_task[w].req = r
        /\ r \in failed_recv_requests =>
               \E w \in Workers : /\ worker_pc[w] \in {"finish", "cleanup"}
                                 /\ worker_task[w].req = r

\* A request is tracked, then finished, then reported.
TrackedOK ==
    /\ reqs_to_process \cap (finished_requests \cup reported) = {}
    /\ finished_requests \cap reported = {}

\* The ids waiting for the scheduler and those it has are the ids of the tasks
\* that failed, and a request that was reported has none waiting.
FailuresOK ==
    /\ invalid_block_ids \cup reported_invalid
           = UNION {local_block_ids(t) : t \in failed}
    /\ main_pc # "errors" =>
           \A t \in failed : t.req \in reported =>
               local_block_ids(t) \subseteq reported_invalid

\* active_peer_request_handlers are the peers with a handler: one to be
\* submitted, one in the executor's queue or one in a thread.
HandlersOK ==
    /\ \A w \in Workers : worker_pc[w] = "idle" => worker_peer[w] = NoPeer
    /\ \A i, j \in 1..Len(executor_queue) :
           executor_queue[i] = executor_queue[j] => i = j
    /\ \A v, w \in Workers :
           worker_peer[v] = worker_peer[w] /\ worker_peer[v] # NoPeer => v = w
    /\ \A i \in 1..Len(executor_queue) : \A w \in Workers :
           worker_peer[w] # executor_queue[i]
    /\ disp_pc = "submit" =>
           /\ \A i \in 1..Len(executor_queue) :
                  executor_queue[i] # peer_key(disp_task)
           /\ \A w \in Workers : worker_peer[w] # peer_key(disp_task)
    /\ \A p \in Peers : p \in active_peer_request_handlers <=>
           \/ disp_pc = "submit" /\ peer_key(disp_task) = p
           \/ \E i \in 1..Len(executor_queue) : executor_queue[i] = p
           \/ \E w \in Workers : worker_peer[w] = p
    /\ \A p \in Peers :
           peer_request_queues[p] # <<>> => p \in active_peer_request_handlers

\* The threads, the queues and the counts of the receiving thread agree on
\* where each task is, which is what makes _mark_request_task_done right.
Inductive ==
    /\ TypeOK
    /\ LocalsOK
    /\ LoadOrder
    /\ QueueOrder
    /\ OnePlace
    /\ CountsOK
    /\ EndedOK
    /\ MarkersOK
    /\ SignalsOK
    /\ ClosingOK
    /\ TrackedOK
    /\ FailuresOK
    /\ HandlersOK
=============================================================================
