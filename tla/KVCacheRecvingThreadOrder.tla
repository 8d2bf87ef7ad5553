--------------------- MODULE KVCacheRecvingThreadOrder ----------------------
(***************************************************************************)
(* KVCacheRecvingThread is type correct, for every number of requests,     *)
(* peers, tasks and executor threads; its LoadOrder and QueueOrder: the    *)
(* tasks of a request reach the dispatcher in the order start_load_kv      *)
(* gives them; and its OnePlace and EndedOK: a submitted task is with the  *)
(* dispatcher, in the queue of its peer or with one thread; a step ends a  *)
(* task only when it was read or has failed, and announces a request only  *)
(* when all its tasks have ended.                                          *)
(***************************************************************************)
EXTENDS KVCacheRecvingThread, TLAPS

-----------------------------------------------------------------------------
(* The constants. *)

\* A task is the pair of its request and its position, and its peer exists.
LEMMA TaskFacts ==
    ASSUME NEW t \in Tasks
    PROVE  /\ t.req \in Requests
           /\ NumTasks(t.req) \in Nat \ {0}
           /\ t.idx \in 1..NumTasks(t.req)
           /\ t = [req |-> t.req, idx |-> t.idx]
           /\ t \in TasksOf(t.req)
           /\ peer_key(t) \in Peers
BY PortsAssumption DEF Tasks, TasksOf, NumTasks, peer_key

\* The tasks of a request: the first one and the last one are among them.
LEMMA RequestFacts ==
    ASSUME NEW r \in Requests
    PROVE  /\ NumTasks(r) \in Nat \ {0}
           /\ FirstTask(r) \in TasksOf(r)
           /\ [req |-> r, idx |-> NumTasks(r)] \in TasksOf(r)
           /\ \A t \in TasksOf(r) : t \in Tasks /\ t.req = r /\ t.idx \in 1..NumTasks(r)
           /\ \A i \in 1..NumTasks(r) : [req |-> r, idx |-> i] \in TasksOf(r)
BY PortsAssumption DEF Tasks, TasksOf, NumTasks, FirstTask

\* The block ids of a task are natural numbers: _expand_block_ids.
LEMMA BlockFacts ==
    ASSUME NEW t \in Tasks
    PROVE  local_block_ids(t) \subseteq Nat
<1>1. Shard(t) + 1 \in 1..Len(LocalBlocks[t.req])
  BY Zenon, TaskFacts, BlocksAssumption DEF Shard, NumTasks
<1>2. logical_block_ids(t) \subseteq Nat
  BY <1>1, TaskFacts, BlocksAssumption DEF logical_block_ids
<1> QED
  BY <1>2, ScaleAssumption DEF local_block_ids, expand_block_ids

\* On a decode rank, where no request is delayed, none expires.
LEMMA NoneExpired ==
    ASSUME delayed_free_requests = <<>>, NEW t \in Nat
    PROVE  /\ NumExpired(t) = 0
           /\ retrieve_expired_requests(t) = {}
           /\ finished_or_expired(t) = finished_requests
<1>1. NumExpired(t) = 0
  BY DEF NumExpired
<1> QED
  BY <1>1 DEF retrieve_expired_requests, finished_or_expired

-----------------------------------------------------------------------------
(* Types. *)

\* The initial state is well typed, and no thread holds a task.
LEMMA InitTypes == Init => TypeOK /\ LocalsOK
<1> SUFFICES ASSUME Init PROVE TypeOK /\ LocalsOK
  BY Zenon
<1>1. TypeOK
  BY BatchAssumption DEF Init, TrackerInit, TypeOK, TrackerTypeOK, WorkerPCs
<1>2. LocalsOK
  BY Zenon DEF Init, TrackerInit, LocalsOK, Busy, BeforeDone
<1> QED
  BY Zenon, <1>1, <1>2

\* Every step of the model runner's thread keeps the types: start_load_kv,
\* add_request, get_finished and get_and_clear_invalid_block_ids.
LEMMA MainTypes ==
    ASSUME TypeOK, LocalsOK, MainStep
    PROVE  TypeOK' /\ LocalsOK'
<1> USE DEF trackerVars, mainVars, dispVars, peerVars, workerVars, countVars,
            failVars, reportVars, historyVars
<1>1. ASSUME NEW B \in SUBSET Requests, start_load_kv(B) PROVE TypeOK' /\ LocalsOK'
  <2>1. PICK r \in B : loading' = FirstTask(r) /\ batch' = B \ {r}
    BY Zenon, <1>1 DEF start_load_kv
  <2>2. FirstTask(r) \in Tasks
    BY ZenonT(30), <2>1, RequestFacts
  <2>3. TypeOK'
    BY ZenonT(30), <1>1, <2>1, <2>2
       DEF start_load_kv, add_req_to_process, TypeOK, TrackerTypeOK
  <2>4. LocalsOK'
    BY Zenon, <1>1, <2>1, <2>2 DEF start_load_kv, add_req_to_process, LocalsOK
  <2> QED
    BY Zenon, <2>3, <2>4
<1>2. CASE add_request
  <2>1. loading \in Tasks
    BY Zenon, <1>2 DEF add_request, LocalsOK
  <2>2. ~all_task_done(loading) => [loading EXCEPT !.idx = @ + 1] \in Tasks
    <3>1. SUFFICES ASSUME loading.idx # NumTasks(loading.req)
                   PROVE  [loading EXCEPT !.idx = @ + 1] \in Tasks
      BY Zenon DEF all_task_done
    <3>2. loading.idx + 1 \in 1..NumTasks(loading.req)
      BY <2>1, <3>1, TaskFacts
    <3>3. [loading EXCEPT !.idx = @ + 1]
             = [req |-> loading.req, idx |-> loading.idx + 1]
      BY <2>1, TaskFacts
    <3>4. loading.req \in Requests
      BY Zenon, <2>1, TaskFacts
    <3>5. [req |-> loading.req, idx |-> loading.idx + 1] \in Tasks
      BY <3>2, <3>4 DEF Tasks, TasksOf
    <3> QED
      BY Zenon, <3>3, <3>5
  <2>3. /\ loading' \in Tasks \cup {NoTask}
        /\ main_pc' = "loading" => loading' \in Tasks
        /\ main_pc' \in {"loading", "idle"}
        /\ batch' \subseteq batch
        /\ main_pc' # "loading" => batch' = {}
    <3>1. CASE ~all_task_done(loading)
      BY Zenon, <1>2, <2>2, <3>1 DEF add_request
    <3>2. CASE \E r \in batch : loading' = FirstTask(r) /\ batch' = batch \ {r}
                               /\ main_pc' = main_pc
      <4>1. PICK r \in batch : loading' = FirstTask(r) /\ batch' = batch \ {r}
        BY Zenon, <3>2
      <4>2. FirstTask(r) \in Tasks
        BY ZenonT(30), RequestFacts DEF TypeOK
      <4> QED
        BY Zenon, <1>2, <3>2, <4>1, <4>2 DEF add_request
    <3>3. CASE batch = {} /\ main_pc' = "idle" /\ loading' = NoTask /\ batch' = batch
      BY Zenon, <3>3
    <3> QED
      BY Zenon, <1>2, <3>1, <3>2, <3>3 DEF add_request
  <2>4. TypeOK'
    BY <1>2, <2>1, <2>3 DEF add_request, TypeOK, TrackerTypeOK
  <2>5. LocalsOK'
    BY Zenon, <1>2, <2>3 DEF add_request, LocalsOK
  <2> QED
    BY Zenon, <2>4, <2>5
<1>3. CASE get_finished
  <2>1. finished_or_expired(0) = finished_requests /\ NumExpired(0) = 0
    BY Zenon, NoneExpired DEF LocalsOK
  <2>2. delayed_free_requests' = <<>>
    BY <1>3, <2>1 DEF get_finished, get_and_clear_finished_requests, LocalsOK
  <2>a. TrackerTypeOK'
    <3>1. finished_requests' \subseteq Requests /\ reqs_to_process' \subseteq Requests
      BY Zenon, <1>3 DEF get_finished, get_and_clear_finished_requests, TypeOK,
                  TrackerTypeOK
    <3>2. delayed_free_requests' \in Seq([req : Requests, start : Nat])
      BY <2>2
    <3> QED
      BY Zenon, <3>1, <3>2 DEF TrackerTypeOK
  <2>b. reported' \subseteq Requests
    BY Zenon, <1>3, <2>1 DEF get_finished, TypeOK, TrackerTypeOK
  <2>3. TypeOK'
    BY Zenon, <1>3, <2>a, <2>b DEF get_finished, TypeOK
  <2>4. LocalsOK'
    BY Zenon, <1>3, <2>2 DEF get_finished, LocalsOK
  <2> QED
    BY Zenon, <2>3, <2>4
<1>4. CASE get_and_clear_invalid_block_ids
  <2>1. TypeOK'
    BY Zenon, <1>4 DEF get_and_clear_invalid_block_ids, TypeOK, TrackerTypeOK
  <2>2. LocalsOK'
    BY Zenon, <1>4 DEF get_and_clear_invalid_block_ids, LocalsOK
  <2> QED
    BY Zenon, <2>1, <2>2
<1> QED
  BY Zenon, <1>1, <1>2, <1>3, <1>4 DEF MainStep

\* Every step of the dispatching thread keeps the types.
LEMMA DispatchTypes ==
    ASSUME TypeOK, LocalsOK, DispatchStep
    PROVE  TypeOK' /\ LocalsOK'
<1> USE DEF trackerVars, mainVars, dispVars, peerVars, workerVars, countVars,
            failVars, reportVars, historyVars
<1>1. CASE mark_request_task_submitted
  <2> DEFINE t == Head(request_queue)
  <2>1. t \in Tasks /\ Tail(request_queue) \in Seq(Tasks)
    BY <1>1 DEF mark_request_task_submitted, TypeOK
  <2>2. t.req \in Requests
    BY Zenon, <2>1, TaskFacts
  <2>a. /\ request_task_counts' \in [Requests -> Nat]
        /\ finished_request_markers' \subseteq Requests
        /\ stage' \in [Tasks -> {"none", "queued", "submitted", "ended"}]
        /\ disp_task' \in Tasks /\ request_queue' \in Seq(Tasks)
    BY <1>1, <2>1, <2>2 DEF mark_request_task_submitted, TypeOK
  <2>3. TypeOK'
    BY ZenonT(30), <1>1, <2>a DEF mark_request_task_submitted, TypeOK, TrackerTypeOK
  <2>4. LocalsOK'
    BY Zenon, <1>1, <2>1 DEF mark_request_task_submitted, LocalsOK
  <2> QED
    BY Zenon, <2>3, <2>4
<1>2. CASE append_peer_request
  <2>1. disp_task \in Tasks /\ peer_key(disp_task) \in Peers
    BY Zenon, <1>2, TaskFacts DEF append_peer_request, LocalsOK
  <2>2. TypeOK'
    BY SMTT(30), <1>2, <2>1 DEF append_peer_request, TypeOK, TrackerTypeOK
  <2>3. LocalsOK'
    BY Zenon, <1>2, <2>1 DEF append_peer_request, LocalsOK
  <2> QED
    BY Zenon, <2>2, <2>3
<1>3. CASE submit_peer_handler
  <2>1. peer_key(disp_task) \in Peers
    BY Zenon, <1>3, TaskFacts DEF submit_peer_handler, LocalsOK
  <2>2. TypeOK'
    BY <1>3, <2>1 DEF submit_peer_handler, TypeOK, TrackerTypeOK
  <2>3. LocalsOK'
    BY Zenon, <1>3 DEF submit_peer_handler, LocalsOK
  <2> QED
    BY Zenon, <2>2, <2>3
<1> QED
  BY Zenon, <1>1, <1>2, <1>3 DEF DispatchStep

\* A thread that goes back to the executor forgets its peer and its count.
LEMMA LeaveTypes ==
    ASSUME TypeOK, NEW w \in Workers, Leave(w)
    PROVE  /\ worker_pc' \in [Workers -> WorkerPCs]
           /\ worker_peer' \in [Workers -> Peers \cup {NoPeer}]
           /\ requests_handled' \in [Workers -> 0..MAX_REQUESTS_PER_PEER_HANDLER]
<1>1. worker_pc' \in [Workers -> WorkerPCs]
  BY Zenon DEF Leave, Goto, TypeOK, WorkerPCs
<1>2. worker_peer' \in [Workers -> Peers \cup {NoPeer}]
  BY Zenon DEF Leave, TypeOK
<1>3. 0 \in 0..MAX_REQUESTS_PER_PEER_HANDLER
  BY BatchAssumption
<1>4. requests_handled' \in [Workers -> 0..MAX_REQUESTS_PER_PEER_HANDLER]
  BY Zenon, <1>3 DEF Leave, TypeOK
<1> QED
  BY Zenon, <1>1, <1>2, <1>4

\* Every step of a thread of the executor keeps the types.
LEMMA WorkerTypes ==
    ASSUME TypeOK, LocalsOK, NEW w \in Workers, WorkerStep(w)
    PROVE  TypeOK' /\ LocalsOK'
<1> USE DEF trackerVars, mainVars, dispVars, peerVars, workerVars, countVars,
            failVars, reportVars, historyVars, Goto, Leave, WorkerPCs, Busy,
            BeforeDone
<1> DEFINE t == worker_task[w]
<1>0. worker_pc[w] \in Busy => t \in Tasks /\ t.req \in Requests
  BY Zenon, TaskFacts DEF LocalsOK
<1>a. worker_pc[w] # "idle" => worker_peer[w] \in Peers
  BY Zenon DEF LocalsOK
<1>1. CASE start_handler(w)
  <2>1. Head(executor_queue) \in Peers /\ Tail(executor_queue) \in Seq(Peers)
    BY <1>1 DEF start_handler, TypeOK
  <2>2. TypeOK'
    BY ZenonT(30), <1>1, <2>1 DEF start_handler, TypeOK, TrackerTypeOK
  <2>3. LocalsOK'
    BY Zenon, <1>1, <2>1 DEF start_handler, LocalsOK, TypeOK
  <2> QED
    BY Zenon, <2>2, <2>3
<1>2. CASE pop_peer_request(w)
  <2>1. worker_peer[w] \in Peers
    BY Zenon, <1>2 DEF pop_peer_request, LocalsOK
  <2>2. CASE peer_request_queues[worker_peer[w]] = <<>>
    <3>a. /\ active_peer_request_handlers' \subseteq Peers
          /\ worker_pc' \in [Workers -> WorkerPCs]
          /\ worker_peer' \in [Workers -> Peers \cup {NoPeer}]
          /\ requests_handled' \in [Workers -> 0..MAX_REQUESTS_PER_PEER_HANDLER]
      <4>1. /\ Leave(w)
            /\ active_peer_request_handlers' =
                   active_peer_request_handlers \ {worker_peer[w]}
        BY Zenon, <1>2, <2>2 DEF pop_peer_request
      <4>2. active_peer_request_handlers' \subseteq Peers
        BY Zenon, <4>1 DEF TypeOK
      <4> QED
        BY ZenonT(30), <4>1, <4>2, LeaveTypes
    <3>b. UNCHANGED <<trackerVars, mainVars, request_queue, dispVars,
                      peer_request_queues, executor_queue, worker_task, countVars,
                      failVars, proc_not_transfer_request, reportVars, historyVars>>
      BY Zenon, <1>2, <2>2 DEF pop_peer_request
    <3>1. TypeOK'
      BY ZenonT(30), <3>a, <3>b DEF TypeOK, TrackerTypeOK
    <3>2. LocalsOK'
      BY <1>2, <2>1, <2>2 DEF pop_peer_request, LocalsOK, TypeOK
    <3> QED
      BY Zenon, <3>1, <3>2
  <2>3. CASE peer_request_queues[worker_peer[w]] # <<>>
    <3>1. /\ Head(peer_request_queues[worker_peer[w]]) \in Tasks
          /\ Tail(peer_request_queues[worker_peer[w]]) \in Seq(Tasks)
      BY <2>1, <2>3 DEF TypeOK
    <3>2. requests_handled[w] + 1 \in 0..MAX_REQUESTS_PER_PEER_HANDLER
      BY <1>2, BatchAssumption DEF pop_peer_request, batch_goes_on, TypeOK
    <3>a. /\ peer_request_queues' \in [Peers -> Seq(Tasks)]
          /\ worker_task' \in [Workers -> Tasks \cup {NoTask}]
          /\ worker_pc' \in [Workers -> WorkerPCs]
      <4>1. /\ worker_task' = [worker_task EXCEPT ![w] =
                                   Head(peer_request_queues[worker_peer[w]])]
            /\ worker_pc' = [worker_pc EXCEPT ![w] = "check"]
            /\ peer_request_queues' = [peer_request_queues EXCEPT ![worker_peer[w]] =
                                           Tail(peer_request_queues[worker_peer[w]])]
        BY Zenon, <1>2, <2>3 DEF pop_peer_request
      <4>2. peer_request_queues' \in [Peers -> Seq(Tasks)]
        BY Zenon, <3>1, <4>1 DEF TypeOK
      <4>3. worker_task' \in [Workers -> Tasks \cup {NoTask}]
        BY Zenon, <3>1, <4>1 DEF TypeOK
      <4>4. worker_pc' \in [Workers -> WorkerPCs]
        BY Zenon, <4>1 DEF TypeOK
      <4> QED
        BY Zenon, <4>2, <4>3, <4>4
    <3>b. requests_handled' \in [Workers -> 0..MAX_REQUESTS_PER_PEER_HANDLER]
      BY Zenon, <1>2, <2>3, <3>2 DEF pop_peer_request, TypeOK
    <3>3. TypeOK'
      BY ZenonT(30), <1>2, <2>3, <3>a, <3>b
         DEF pop_peer_request, TypeOK, TrackerTypeOK
    <3>4. LocalsOK'
      BY <1>2, <2>1, <2>3, <3>1 DEF pop_peer_request, LocalsOK, TypeOK
    <3> QED
      BY Zenon, <3>3, <3>4
  <2> QED
    BY Zenon, <2>2, <2>3
<1>3. CASE end_batch(w)
  <2>a. /\ active_peer_request_handlers' \subseteq Peers
        /\ worker_pc' \in [Workers -> WorkerPCs]
        /\ worker_peer' \in [Workers -> Peers \cup {NoPeer}]
        /\ requests_handled' \in [Workers -> 0..MAX_REQUESTS_PER_PEER_HANDLER]
    <3>1. CASE should_resubmit(worker_peer[w])
      <4>1. /\ Goto(w, "resubmit")
            /\ UNCHANGED <<active_peer_request_handlers, worker_peer,
                           requests_handled>>
        BY Zenon, <1>3, <3>1 DEF end_batch
      <4> QED
        BY Zenon, <4>1 DEF TypeOK
    <3>2. CASE ~should_resubmit(worker_peer[w])
      <4>1. /\ Leave(w)
            /\ active_peer_request_handlers' =
                   active_peer_request_handlers \ {worker_peer[w]}
        BY Zenon, <1>3, <3>2 DEF end_batch
      <4>2. active_peer_request_handlers' \subseteq Peers
        BY Zenon, <4>1 DEF TypeOK
      <4> QED
        BY ZenonT(30), <4>1, <4>2, LeaveTypes
    <3> QED
      BY Zenon, <3>1, <3>2
  <2>b. UNCHANGED <<trackerVars, mainVars, request_queue, dispVars,
                    peer_request_queues, executor_queue, worker_task, countVars,
                    failVars, proc_not_transfer_request, reportVars, historyVars>>
    BY Zenon, <1>3 DEF end_batch
  <2>1. TypeOK'
    BY Zenon, <2>a, <2>b DEF TypeOK, TrackerTypeOK
  <2>2. LocalsOK'
    BY <1>0, <1>3 DEF end_batch, LocalsOK, TypeOK
  <2> QED
    BY Zenon, <2>1, <2>2
<1>4. CASE resubmit_handler(w)
  <2>a. Leave(w) /\ executor_queue' = Append(executor_queue, worker_peer[w])
    BY Zenon, <1>4 DEF resubmit_handler
  <2>b. executor_queue' \in Seq(Peers)
    <3>1. executor_queue \in Seq(Peers) /\ worker_peer[w] \in Peers
      BY Zenon, <1>0, <1>4 DEF resubmit_handler, TypeOK, LocalsOK
    <3> QED
      BY <2>a, <3>1
  <2>1. TypeOK'
    BY ZenonT(30), <1>4, <2>a, <2>b, LeaveTypes
       DEF resubmit_handler, TypeOK, TrackerTypeOK
  <2>2. LocalsOK'
    BY Zenon, <1>0, <1>4 DEF resubmit_handler, LocalsOK, TypeOK
  <2> QED
    BY Zenon, <2>1, <2>2
<1>5. CASE check_failed(w)
  <2>1. TypeOK'
    BY ZenonT(30), <1>0, <1>5, BlockFacts
       DEF check_failed, TypeOK, TrackerTypeOK, mark_failed_recv_request
  <2>2. LocalsOK'
    BY Zenon, <1>0, <1>5 DEF check_failed, LocalsOK, TypeOK, mark_failed_recv_request
  <2> QED
    BY Zenon, <2>1, <2>2
<1>6. CASE transfer_kv_cache(w)
  <2>1. TypeOK'
    BY ZenonT(30), <1>0, <1>6
       DEF transfer_kv_cache, TypeOK, TrackerTypeOK, TransferFrame
  <2>2. LocalsOK'
    BY Zenon, <1>0, <1>6 DEF transfer_kv_cache, LocalsOK, TypeOK, TransferFrame
  <2> QED
    BY Zenon, <2>1, <2>2
<1>7. CASE reformat_kv_cache(w)
  <2>1. TypeOK'
    BY SMTT(30), <1>0, <1>7
       DEF reformat_kv_cache, TypeOK, TrackerTypeOK, TransferFrame
  <2>2. LocalsOK'
    BY Zenon, <1>0, <1>7 DEF reformat_kv_cache, LocalsOK, TypeOK, TransferFrame
  <2> QED
    BY Zenon, <2>1, <2>2
<1>8. CASE transfer_fails(w)
  <2>1. TypeOK'
    BY ZenonT(30), <1>0, <1>8, BlockFacts
       DEF transfer_fails, TypeOK, TrackerTypeOK, TransferFrame, mark_failed_recv_request
  <2>2. LocalsOK'
    BY Zenon, <1>0, <1>8
       DEF transfer_fails, LocalsOK, TypeOK, TransferFrame, mark_failed_recv_request
  <2> QED
    BY Zenon, <2>1, <2>2
<1>9. CASE mark_request_task_done(w)
  <2>1. TypeOK'
    BY SMTT(30), <1>0, <1>9 DEF mark_request_task_done, TypeOK, TrackerTypeOK
  <2>2. LocalsOK'
    BY SMTT(30), <1>0, <1>9 DEF mark_request_task_done, LocalsOK, TypeOK
  <2> QED
    BY Zenon, <2>1, <2>2
<1>10. CASE finish_request(w)
  <2>1. delayed_free_requests' = <<>>
    BY <1>10 DEF finish_request, update_done_task_count, LocalsOK, Without, Delayed
  <2>2. TrackerTypeOK'
    BY <1>0, <1>10, <2>1
    DEF finish_request, update_done_task_count, TypeOK, TrackerTypeOK
  <2>3. TypeOK'
    BY Zenon, <1>10, <2>2 DEF finish_request, TypeOK
  <2>4. LocalsOK'
    BY SMTT(30), <1>0, <1>10, <2>1 DEF finish_request, LocalsOK, TypeOK
  <2> QED
    BY Zenon, <2>3, <2>4
<1>11. CASE clear_request(w)
  <2>1. TypeOK'
    BY ZenonT(30), <1>0, <1>11
       DEF clear_request, TypeOK, TrackerTypeOK, clear_failed_recv_request
  <2>2. LocalsOK'
    BY Zenon, <1>0, <1>11 DEF clear_request, LocalsOK, TypeOK, clear_failed_recv_request
  <2> QED
    BY Zenon, <2>1, <2>2
<1>12. CASE send_done_signal_to_free_remote_port(w)
  <2>a. /\ proc_not_transfer_request' \in [Requests -> {"absent", "sent"}]
        /\ free_rounds' \in [Requests -> Nat]
    <3>1. t.req \in Requests
      BY Zenon, <1>0, <1>12 DEF send_done_signal_to_free_remote_port
    <3>2. CASE t.req \in SignalRequests
      <4>1. /\ proc_not_transfer_request' =
                   [proc_not_transfer_request EXCEPT ![t.req] = "sent"]
            /\ free_rounds' = [free_rounds EXCEPT ![t.req] =
                   IF proc_not_transfer_request[t.req] = "sent"
                   THEN free_rounds[t.req] ELSE free_rounds[t.req] + 1]
        BY Zenon, <1>12, <3>2 DEF send_done_signal_to_free_remote_port
      <4> QED
        BY <3>1, <4>1 DEF TypeOK
    <3>3. CASE t.req \notin SignalRequests
      <4>1. UNCHANGED <<proc_not_transfer_request, free_rounds>>
        BY Zenon, <1>12, <3>3 DEF send_done_signal_to_free_remote_port
      <4> QED
        BY Zenon, <4>1 DEF TypeOK
    <3> QED
      BY Zenon, <3>2, <3>3
  <2>b. worker_pc' \in [Workers -> WorkerPCs]
    BY Zenon, <1>12 DEF send_done_signal_to_free_remote_port, TypeOK
  <2>c. UNCHANGED <<trackerVars, mainVars, request_queue, dispVars, peerVars,
                    executor_queue, worker_peer, worker_task, requests_handled,
                    countVars, failVars, reportVars,
                    stage, pulled, failed, reformatted, done_sent>>
    BY SMTT(30), <1>12 DEF send_done_signal_to_free_remote_port
  <2>1. TypeOK'
    BY ZenonT(30), <2>a, <2>b, <2>c DEF TypeOK, TrackerTypeOK
  <2>2. LocalsOK'
    BY SMTT(30), <1>0, <1>12
       DEF send_done_signal_to_free_remote_port, LocalsOK, TypeOK
  <2> QED
    BY Zenon, <2>1, <2>2
<1>13. CASE send_done_recv_signal(w)
  <2>1. TypeOK'
    BY Zenon, <1>0, <1>13 DEF send_done_recv_signal, TypeOK, TrackerTypeOK, signal_done
  <2>2. LocalsOK'
    BY Zenon, <1>0, <1>13 DEF send_done_recv_signal, LocalsOK, TypeOK, signal_done
  <2> QED
    BY Zenon, <2>1, <2>2
<1> QED
  BY Zenon, <1>1, <1>2, <1>3, <1>4, <1>5, <1>6, <1>7, <1>8, <1>9, <1>10, <1>11, <1>12, <1>13
  DEF WorkerStep

\* Every step keeps the types.
LEMMA NextTypes == TypeOK /\ LocalsOK /\ [Next]_vars => TypeOK' /\ LocalsOK'
<1> SUFFICES ASSUME TypeOK, LocalsOK, [Next]_vars PROVE TypeOK' /\ LocalsOK'
  BY Zenon
<1>1. CASE UNCHANGED vars
  <2> USE <1>1 DEF vars, trackerVars, mainVars, dispVars, peerVars, workerVars,
                   countVars, failVars, reportVars, historyVars
  <2>1. TypeOK'
    BY SMTT(30) DEF TypeOK, TrackerTypeOK
  <2>2. LocalsOK'
    BY ZenonT(30) DEF LocalsOK
  <2> QED
    BY SMTT(30), <2>1, <2>2
<1> QED
  BY Zenon, <1>1, MainTypes, DispatchTypes, WorkerTypes DEF Next

\* The variables of the receiving thread keep their types in every behaviour,
\* whatever the interleaving of the model runner, the dispatcher and the
\* executor's threads.
THEOREM TypeCorrect == Spec => []TypeOK
<1>1. TypeOK /\ LocalsOK /\ [Next]_vars => (TypeOK /\ LocalsOK)'
  BY Zenon, NextTypes
<1> QED
  BY <1>1, InitTypes, PTL DEF Spec

-----------------------------------------------------------------------------
(* How a step changes the stage of a task. *)

\* The dispatching thread takes one queued task and submits it, or changes no
\* stage at all.
LEMMA DispatchStage ==
    ASSUME TypeOK, LocalsOK, QueueOrder, DispatchStep
    PROVE  /\ UNCHANGED mainVars
           /\ \/ UNCHANGED <<stage, request_queue>>
              \/ /\ mark_request_task_submitted
                 /\ Head(request_queue) \in Tasks
                 /\ stage[Head(request_queue)] = "queued"
                 /\ stage' = [stage EXCEPT ![Head(request_queue)] = "submitted"]
<1>1. CASE mark_request_task_submitted
  <2>1. /\ request_queue \in Seq(Tasks) /\ request_queue # <<>>
        /\ Head(request_queue) = request_queue[1] /\ 1 \in 1..Len(request_queue)
    BY <1>1 DEF mark_request_task_submitted, TypeOK
  <2>2. Head(request_queue) \in Tasks /\ stage[Head(request_queue)] = "queued"
    BY <2>1 DEF QueueOrder
  <2> QED
    BY Zenon, <1>1, <2>2 DEF mark_request_task_submitted
<1>2. CASE append_peer_request
  BY Zenon, <1>2 DEF append_peer_request, historyVars
<1>3. CASE submit_peer_handler
  BY Zenon, <1>3 DEF submit_peer_handler, historyVars
<1> QED
  BY Zenon, <1>1, <1>2, <1>3 DEF DispatchStep

\* A thread of the executor ends the task it holds in _mark_request_task_done,
\* or changes no stage at all.
LEMMA WorkerStage ==
    ASSUME TypeOK, LocalsOK, OnePlace, NEW w \in Workers, WorkerStep(w)
    PROVE  /\ UNCHANGED <<mainVars, dispVars, request_queue>>
           /\ \/ UNCHANGED stage
              \/ /\ mark_request_task_done(w)
                 /\ worker_task[w] \in Tasks
                 /\ stage[worker_task[w]] = "submitted"
                 /\ stage' = [stage EXCEPT ![worker_task[w]] = "ended"]
<1>1. CASE mark_request_task_done(w)
  <2>1. worker_pc[w] \in BeforeDone /\ worker_pc[w] \in Busy
    BY SMTT(30), <1>1 DEF mark_request_task_done, BeforeDone, Busy
  <2> QED
    BY Zenon, <1>1, <2>1 DEF mark_request_task_done, LocalsOK, OnePlace, HandledApart
<1>2. CASE ~mark_request_task_done(w)
  BY ZenonT(30), <1>2 DEF WorkerStep, start_handler, pop_peer_request, end_batch,
              resubmit_handler, check_failed, transfer_kv_cache,
              reformat_kv_cache, transfer_fails, finish_request, clear_request,
              send_done_signal_to_free_remote_port, send_done_recv_signal,
              TransferFrame, historyVars
<1> QED
  BY Zenon, <1>1, <1>2

\* add_request submits nothing and ends nothing.
LEMMA AddStage ==
    ASSUME TypeOK, LocalsOK, LoadOrder, MainStep
    PROVE  /\ \A t \in Tasks : stage[t] = "submitted" <=> stage'[t] = "submitted"
           /\ \A t \in Tasks : stage[t] = "ended" <=> stage'[t] = "ended"
           /\ UNCHANGED <<request_task_counts, finished_request_markers, disp_pc,
                          disp_task, peer_request_queues, worker_pc, worker_task,
                          pulled, failed>>
<1>1. CASE add_request
  <2>1. loading \in Tasks /\ stage[loading] = "none"
    BY Zenon, <1>1 DEF add_request, LocalsOK, LoadOrder
  <2>2. \A t \in Tasks : stage'[t] = IF t = loading THEN "queued" ELSE stage[t]
    BY Zenon, <1>1, <2>1 DEF add_request, TypeOK
  <2> QED
    BY <1>1, <2>1, <2>2 DEF add_request, dispVars, peerVars, workerVars, countVars
<1>2. CASE ~add_request
  BY Zenon, <1>2
     DEF MainStep, start_load_kv, get_finished, get_and_clear_invalid_block_ids,
              dispVars, peerVars, workerVars, countVars, historyVars
<1> QED
  BY Zenon, <1>1, <1>2

-----------------------------------------------------------------------------
(* LoadOrder. *)

\* The order of a load only depends on which tasks have not been queued yet.
LEMMA LoadOrderStable ==
    ASSUME TypeOK, LocalsOK, LoadOrder, UNCHANGED mainVars,
           \A t \in Tasks : stage'[t] = "none" <=> stage[t] = "none"
    PROVE  LoadOrder'
<1> USE DEF mainVars
<1>1. main_pc = "loading" =>
          loading \in Tasks /\ \A t \in TasksOf(loading.req) : t \in Tasks
  BY ZenonT(30), TaskFacts, RequestFacts DEF LocalsOK
<1>2. \A r \in batch : \A t \in TasksOf(r) : t \in Tasks
  BY ZenonT(30), RequestFacts DEF TypeOK
<1>3. (\A t, u \in Tasks :
           t.req = u.req /\ t.idx < u.idx /\ stage[t] = "none" => stage[u] = "none")'
  BY Zenon DEF LoadOrder
<1>4. (main_pc = "loading" =>
           /\ stage[loading] = "none"
           /\ \A t \in TasksOf(loading.req) :
                  t.idx < loading.idx => stage[t] # "none"
           /\ loading.req \notin batch)'
  BY Zenon, <1>1 DEF LoadOrder
<1>5. (\A r \in batch : \A t \in TasksOf(r) : stage[t] = "none")'
  BY Zenon, <1>2 DEF LoadOrder
<1>6. (\A t, u \in Tasks :
           /\ t.req = u.req
           /\ main_pc = "loading" => t.req # loading.req
           /\ stage[t] = "none"
           => stage[u] = "none")'
  BY Zenon DEF LoadOrder
<1> QED
  BY Zenon, <1>3, <1>4, <1>5, <1>6 DEF LoadOrder

\* add_request queues the task that is next, and goes on in order.
LEMMA AddLoadOrder ==
    ASSUME TypeOK, LocalsOK, LoadOrder, add_request
    PROVE  LoadOrder'
<1> DEFINE l == loading
<1>1. /\ l \in Tasks /\ l.req \in Requests /\ l.idx \in 1..NumTasks(l.req)
      /\ stage[l] = "none" /\ l.req \notin batch
      /\ NumTasks(l.req) \in Nat
  BY Zenon, TaskFacts DEF add_request, LocalsOK, LoadOrder
<1>2. stage' = [stage EXCEPT ![l] = "queued"]
  BY Zenon DEF add_request
<1>3. \A t \in Tasks : stage'[t] = IF t = l THEN "queued" ELSE stage[t]
  BY Zenon, <1>1, <1>2 DEF TypeOK
<1>4. \A t \in Tasks : t.req = l.req /\ t.idx < l.idx => stage[t] # "none"
  BY Zenon, TaskFacts DEF add_request, LoadOrder
<1>5. \A t \in Tasks : t.req = l.req /\ t.idx = l.idx => t = l
  BY Zenon, <1>1, TaskFacts
<1>6. \A t \in Tasks : t.idx \in Nat
  BY TaskFacts
<1>7. (\A t, u \in Tasks :
           t.req = u.req /\ t.idx < u.idx /\ stage[t] = "none" => stage[u] = "none")'
  BY Zenon, <1>1, <1>3, <1>4, <1>6 DEF LoadOrder
<1>8. ASSUME NEW r \in batch, NEW t \in TasksOf(r)
      PROVE  t \in Tasks /\ t # l /\ t.req = r
  <2>1. r \in Requests /\ r # l.req
    BY Zenon, <1>1 DEF TypeOK
  <2>2. t \in Tasks /\ t.req = r
    BY ZenonT(30), <2>1, RequestFacts
  <2> QED
    BY Zenon, <2>1, <2>2
<1>9. batch' \subseteq batch
  BY Zenon DEF add_request
<1>10. (\A r \in batch : \A t \in TasksOf(r) : stage[t] = "none")'
  BY <1>3, <1>8, <1>9 DEF LoadOrder
<1>11. CASE ~all_task_done(l)
  <2>1. main_pc' = "loading" /\ batch' = batch
        /\ loading' = [l EXCEPT !.idx = @ + 1]
    BY Zenon, <1>11 DEF add_request
  <2>2. loading' = [req |-> l.req, idx |-> l.idx + 1]
    BY <1>1, <2>1, TaskFacts
  <2>3. loading' \in Tasks
    BY Zenon, <2>1, MainTypes DEF MainStep, LocalsOK
  <2>4. stage'[loading'] = "none"
    BY <1>1, <1>3, <1>6, <2>2, <2>3 DEF LoadOrder
  <2>5. \A t \in TasksOf(l.req) : t.idx < l.idx + 1 => stage'[t] # "none"
    <3> SUFFICES ASSUME NEW t \in TasksOf(l.req), t.idx < l.idx + 1
                 PROVE  stage'[t] # "none"
      BY Zenon
    <3>1. t \in Tasks /\ t.req = l.req
      BY ZenonT(30), <1>1, RequestFacts
    <3>2. t.idx < l.idx \/ t.idx = l.idx
      BY <1>1, <1>6, <3>1
    <3> QED
      BY Zenon, <1>3, <1>4, <1>5, <3>1, <3>2
  <2>6. (\A t, u \in Tasks :
           /\ t.req = u.req
           /\ main_pc = "loading" => t.req # loading.req
           /\ stage[t] = "none"
           => stage[u] = "none")'
    <3>1. loading'.req = l.req
      BY Zenon, <2>2
    <3>2. \A t, u \in Tasks :
              t.req = u.req /\ t.req # l.req /\ stage[t] = "none" => stage[u] = "none"
      BY Zenon DEF LoadOrder
    <3>3. \A t, u \in Tasks :
              t.req = u.req /\ t.req # l.req /\ stage'[t] = "none"
              => stage'[u] = "none"
      BY Zenon, <1>3, <3>2
    <3> QED
      BY Zenon, <2>1, <3>1, <3>3
  <2> QED
    BY <1>1, <1>7, <1>10, <2>1, <2>2, <2>4, <2>5, <2>6 DEF LoadOrder
<1>12. CASE all_task_done(l)
  <2>1. \A t \in Tasks : t.req = l.req => stage'[t] # "none"
    <3> SUFFICES ASSUME NEW t \in Tasks, t.req = l.req
                 PROVE  stage'[t] # "none"
      BY Zenon
    <3>1. t.idx \in 1..NumTasks(l.req) /\ l.idx = NumTasks(l.req)
      BY Zenon, <1>12, TaskFacts DEF all_task_done
    <3>2. t.idx < l.idx \/ t.idx = l.idx
      BY <1>1, <3>1
    <3> QED
      BY Zenon, <1>3, <1>4, <1>5, <3>2
  <2>2. \A t, u \in Tasks : t.req = u.req /\ stage'[t] = "none" => stage'[u] = "none"
    BY Zenon, <1>1, <1>3, <2>1 DEF LoadOrder, add_request
  <2>3. CASE \E r \in batch : loading' = FirstTask(r) /\ batch' = batch \ {r}
    <3>1. PICK r \in batch : loading' = FirstTask(r) /\ batch' = batch \ {r}
      BY Zenon, <2>3
    <3>2. /\ r \in Requests /\ FirstTask(r) \in TasksOf(r)
          /\ FirstTask(r).req = r /\ FirstTask(r).idx = 1
      BY ZenonT(30), RequestFacts DEF TypeOK, FirstTask
    <3>3. stage'[loading'] = "none"
      BY <1>3, <1>8, <3>1, <3>2 DEF LoadOrder
    <3>4. ASSUME NEW t \in TasksOf(r) PROVE ~(t.idx < 1)
      <4>1. NumTasks(r) \in Nat /\ t.idx \in 1..NumTasks(r)
        BY ZenonT(30), <3>2, RequestFacts
      <4> QED
        BY <4>1
    <3> QED
      BY Zenon, <1>7, <1>10, <2>2, <3>1, <3>2, <3>3, <3>4 DEF LoadOrder
  <2>4. CASE main_pc' = "idle"
    BY Zenon, <1>7, <1>10, <2>2, <2>4 DEF LoadOrder
  <2> QED
    BY Zenon, <1>12, <2>3, <2>4 DEF add_request
<1> QED
  BY Zenon, <1>11, <1>12

\* start_load_kv starts requests none of whose tasks has been queued.
LEMMA StartLoadOrder ==
    ASSUME TypeOK, LocalsOK, LoadOrder, NEW B \in SUBSET Requests, start_load_kv(B)
    PROVE  LoadOrder'
<1>1. PICK r \in B : loading' = FirstTask(r) /\ batch' = B \ {r}
  BY Zenon DEF start_load_kv
<1>2. stage' = stage /\ main_pc = "idle" /\ main_pc' = "loading"
  BY Zenon DEF start_load_kv, historyVars
<1>3. \A t, u \in Tasks : t.req = u.req /\ stage[t] = "none" => stage[u] = "none"
  BY Zenon, <1>2 DEF LoadOrder
<1>4. ASSUME NEW q \in B, NEW t \in TasksOf(q) PROVE stage[t] = "none"
  <2>1. FirstTask(q) \in Tasks /\ t \in Tasks /\ FirstTask(q).req = t.req
    BY ZenonT(30), RequestFacts
  <2>2. stage[FirstTask(q)] = "none"
    BY Zenon DEF start_load_kv
  <2> QED
    BY Zenon, <1>3, <2>1, <2>2
<1>5. FirstTask(r) \in TasksOf(r) /\ FirstTask(r).req = r /\ FirstTask(r).idx = 1
  BY ZenonT(30), RequestFacts DEF FirstTask
<1>6. ASSUME NEW t \in TasksOf(r) PROVE ~(t.idx < 1)
  <2>1. NumTasks(r) \in Nat /\ t.idx \in 1..NumTasks(r)
    BY ZenonT(30), RequestFacts
  <2> QED
    BY <2>1
<1> QED
  BY Zenon, <1>1, <1>2, <1>3, <1>4, <1>5, <1>6 DEF LoadOrder

\* LoadOrder is kept by every step.
LEMMA LoadOrderStep ==
    ASSUME TypeOK, LocalsOK, LoadOrder, QueueOrder, OnePlace, [Next]_vars
    PROVE  LoadOrder'
<1>1. CASE UNCHANGED vars
  BY Zenon, <1>1, LoadOrderStable DEF vars, mainVars, historyVars
<1>2. CASE MainStep
  <2>1. CASE get_finished \/ get_and_clear_invalid_block_ids
    <3>1. /\ stage' = stage /\ batch' = batch /\ loading' = loading
          /\ main_pc # "loading" /\ main_pc' # "loading"
      BY Zenon, <2>1 DEF get_finished, get_and_clear_invalid_block_ids, historyVars
    <3> QED
      BY Zenon, <3>1 DEF LoadOrder
  <2> QED
    BY Zenon, <1>2, <2>1, StartLoadOrder, AddLoadOrder DEF MainStep
<1>3. CASE DispatchStep
  <2>1. \A t \in Tasks : stage'[t] = "none" <=> stage[t] = "none"
    BY Zenon, <1>3, DispatchStage DEF TypeOK
  <2> QED
    BY Zenon, <1>3, <2>1, DispatchStage, LoadOrderStable
<1>4. ASSUME NEW w \in Workers, WorkerStep(w) PROVE LoadOrder'
  <2>1. \A t \in Tasks : stage'[t] = "none" <=> stage[t] = "none"
    BY ZenonT(30), <1>4, WorkerStage DEF TypeOK
  <2> QED
    BY Zenon, <1>4, <2>1, WorkerStage, LoadOrderStable
<1> QED
  BY Zenon, <1>1, <1>2, <1>3, <1>4 DEF Next

-----------------------------------------------------------------------------
(* QueueOrder. *)

\* The queue is in order as long as the same tasks are queued.
LEMMA QueueOrderStable ==
    ASSUME TypeOK, QueueOrder, UNCHANGED request_queue,
           \A t \in Tasks : stage'[t] = "queued" <=> stage[t] = "queued"
    PROVE  QueueOrder'
<1>1. \A i \in 1..Len(request_queue) : request_queue[i] \in Tasks
  BY DEF TypeOK
<1> QED
  BY SMTT(30), <1>1 DEF QueueOrder

\* add_request puts the next task behind the earlier ones of its request.
LEMMA AddQueueOrder ==
    ASSUME TypeOK, LocalsOK, LoadOrder, QueueOrder, add_request
    PROVE  QueueOrder'
<1> DEFINE l == loading
           q == request_queue
           n == Len(request_queue)
<1>1. l \in Tasks /\ stage[l] = "none" /\ l.idx \in Nat
  BY TaskFacts DEF add_request, LocalsOK, LoadOrder
<1>2. \A t \in Tasks : stage'[t] = IF t = l THEN "queued" ELSE stage[t]
  BY Zenon, <1>1 DEF add_request, TypeOK
<1>3. /\ q \in Seq(Tasks) /\ n \in Nat /\ request_queue' = Append(q, l)
      /\ Len(request_queue') = n + 1
      /\ \A i \in 1..n : request_queue'[i] = q[i] /\ q[i] \in Tasks
      /\ request_queue'[n + 1] = l
  BY <1>1 DEF add_request, TypeOK
<1>4. \A i \in 1..n : stage[q[i]] = "queued" /\ q[i] # l
  BY Zenon, <1>1 DEF QueueOrder
<1>5. \A i \in 1..(n + 1) : stage'[request_queue'[i]] = "queued"
  BY <1>1, <1>2, <1>3, <1>4
<1>6. ASSUME NEW t \in Tasks, stage'[t] = "queued"
      PROVE  \E i \in 1..(n + 1) : request_queue'[i] = t
  <2>1. CASE t = l
    BY <1>3, <2>1
  <2>2. CASE t # l
    <3>1. PICK i \in 1..n : q[i] = t
      BY Zenon, <1>2, <1>6, <2>2 DEF QueueOrder
    <3> QED
      BY <1>3, <3>1
  <2> QED
    BY Zenon, <2>1, <2>2
<1>7. ASSUME NEW i \in 1..n, q[i].req = l.req PROVE q[i].idx < l.idx
  <2>1. q[i] \in Tasks /\ stage[q[i]] = "queued" /\ q[i].idx \in Nat
    BY <1>3, <1>4, TaskFacts
  <2>2. q[i].idx # l.idx
    BY Zenon, <1>1, <1>4, <1>7, <2>1, TaskFacts
  <2>3. ~(l.idx < q[i].idx)
    BY Zenon, <1>1, <1>7, <2>1 DEF LoadOrder
  <2> QED
    BY <1>1, <2>1, <2>2, <2>3
<1>8. ASSUME NEW i \in 1..(n + 1), NEW j \in 1..(n + 1), i < j
      PROVE  \/ request_queue'[i].req # request_queue'[j].req
             \/ request_queue'[i].idx < request_queue'[j].idx
  <2>1. i \in 1..n /\ (j \in 1..n \/ j = n + 1)
    BY <1>3, <1>8
  <2> QED
    BY <1>3, <1>7, <1>8, <2>1 DEF QueueOrder
<1> QED
  BY ZenonT(30), <1>3, <1>5, <1>6, <1>8 DEF QueueOrder

\* request_queue.get takes the head; the rest stays in order.
LEMMA SubmitQueueOrder ==
    ASSUME TypeOK, LocalsOK, QueueOrder, mark_request_task_submitted
    PROVE  QueueOrder'
<1> DEFINE q == request_queue
           n == Len(request_queue)
           h == Head(request_queue)
<1>1. /\ q \in Seq(Tasks) /\ n \in Nat /\ n > 0 /\ h = q[1]
      /\ request_queue' = Tail(q) /\ Len(request_queue') = n - 1
      /\ \A i \in 1..(n - 1) : request_queue'[i] = q[i + 1]
      /\ \A i \in 1..n : q[i] \in Tasks
  BY DEF mark_request_task_submitted, TypeOK
<1>2. \A t \in Tasks : stage'[t] = IF t = h THEN "submitted" ELSE stage[t]
  BY Zenon, <1>1 DEF mark_request_task_submitted, TypeOK
<1>3. ASSUME NEW i \in 1..n, i # 1 PROVE q[i] # h
  <2>1. 1 \in 1..n /\ 1 < i
    BY <1>1, <1>3
  <2>2. q[1].req # q[i].req \/ q[1].idx < q[i].idx
    BY Zenon, <2>1 DEF QueueOrder
  <2>3. q[1].idx \in Nat
    BY <1>1, <2>1, TaskFacts
  <2> QED
    BY <1>1, <2>2, <2>3
<1>4. \A i \in 1..(n - 1) : i + 1 \in 1..n /\ i + 1 # 1
  BY <1>1
<1>5. \A i \in 1..(n - 1) : stage'[request_queue'[i]] = "queued"
  BY <1>1, <1>2, <1>3, <1>4 DEF QueueOrder
<1>6. ASSUME NEW t \in Tasks, stage'[t] = "queued"
      PROVE  \E i \in 1..(n - 1) : request_queue'[i] = t
  <2>1. t # h /\ stage[t] = "queued"
    BY Zenon, <1>2, <1>6
  <2>2. PICK j \in 1..n : q[j] = t
    BY Zenon, <2>1 DEF QueueOrder
  <2>3. j # 1 /\ j - 1 \in 1..(n - 1) /\ (j - 1) + 1 = j
    BY <1>1, <2>1, <2>2
  <2>4. request_queue'[j - 1] = q[j]
    BY Zenon, <1>1, <2>3
  <2> QED
    BY Zenon, <2>2, <2>3, <2>4
<1>7. ASSUME NEW i \in 1..(n - 1), NEW j \in 1..(n - 1), i < j
      PROVE  \/ request_queue'[i].req # request_queue'[j].req
             \/ request_queue'[i].idx < request_queue'[j].idx
  <2>1. i + 1 < j + 1
    BY <1>7
  <2> QED
    BY <1>1, <1>4, <2>1 DEF QueueOrder
<1> QED
  BY Zenon, <1>1, <1>5, <1>6, <1>7 DEF QueueOrder

\* QueueOrder is kept by every step.
LEMMA QueueOrderStep ==
    ASSUME TypeOK, LocalsOK, LoadOrder, QueueOrder, OnePlace, [Next]_vars
    PROVE  QueueOrder'
<1>1. CASE UNCHANGED vars
  BY Zenon, <1>1, QueueOrderStable DEF vars, historyVars
<1>2. CASE MainStep
  <2>1. CASE add_request
    BY Zenon, <2>1, AddQueueOrder
  <2>2. CASE ~add_request
    <3>1. UNCHANGED <<stage, request_queue>>
      BY Zenon, <1>2, <2>2 DEF MainStep, start_load_kv, get_finished,
                        get_and_clear_invalid_block_ids, historyVars
    <3> QED
      BY Zenon, <3>1, QueueOrderStable
  <2> QED
    BY Zenon, <2>1, <2>2
<1>3. CASE DispatchStep
  <2>1. CASE UNCHANGED <<stage, request_queue>>
    BY Zenon, <2>1, QueueOrderStable
  <2> QED
    BY Zenon, <1>3, <2>1, DispatchStage, SubmitQueueOrder
<1>4. ASSUME NEW w \in Workers, WorkerStep(w) PROVE QueueOrder'
  <2>1. \A t \in Tasks : stage'[t] = "queued" <=> stage[t] = "queued"
    BY ZenonT(30), <1>4, WorkerStage DEF TypeOK
  <2> QED
    BY Zenon, <1>4, <2>1, WorkerStage, QueueOrderStable
<1> QED
  BY Zenon, <1>1, <1>2, <1>3, <1>4 DEF Next

-----------------------------------------------------------------------------
(* OnePlace. *)

\* OnePlace holds as long as the submitted tasks stay where they are.
LEMMA OnePlaceStable ==
    ASSUME TypeOK, LocalsOK, OnePlace, UNCHANGED peer_request_queues,
           disp_pc' = "append" => disp_pc = "append" /\ disp_task' = disp_task,
           \A w \in Workers : worker_pc'[w] \in BeforeDone =>
               worker_pc[w] \in BeforeDone /\ worker_task'[w] = worker_task[w],
           \A t \in Tasks : stage[t] = "submitted" => stage'[t] = "submitted"
    PROVE  OnePlace'
<1>1. \A p \in Peers : \A i \in 1..Len(peer_request_queues[p]) :
          peer_request_queues[p][i] \in Tasks
  BY DEF TypeOK
<1>2. disp_pc = "append" => disp_task \in Tasks
  BY Zenon DEF LocalsOK
<1>3. \A w \in Workers : worker_pc[w] \in BeforeDone => worker_task[w] \in Tasks
  BY Zenon DEF LocalsOK, Busy
<1>4. \A t : InPeerQueue(t)' <=> InPeerQueue(t)
  BY Zenon DEF InPeerQueue
<1>5. disp_pc' = "append" =>
          stage'[disp_task'] = "submitted" /\ ~InPeerQueue(disp_task)'
  BY Zenon, <1>2, <1>4 DEF OnePlace, DispatchedApart, InPeerQueue
<1>6. ASSUME NEW w \in Workers, worker_pc'[w] \in BeforeDone
      PROVE  /\ stage'[worker_task'[w]] = "submitted"
             /\ ~InPeerQueue(worker_task[w])'
             /\ disp_pc' = "append" => worker_task'[w] # disp_task'
  BY <1>3, <1>6 DEF OnePlace, HandledApart, InPeerQueue
<1>7. QueuedAtPeer'
  BY Zenon, <1>1 DEF OnePlace, QueuedAtPeer
<1>8. QueuedOnce'
  BY Zenon DEF OnePlace, QueuedOnce
<1>9. DispatchedApart'
  BY Zenon, <1>5 DEF DispatchedApart, InPeerQueue
<1>10. HandledApart'
  BY Zenon, <1>6 DEF HandledApart, InPeerQueue
<1>11. HandledOnce'
  BY Zenon DEF OnePlace, HandledOnce
<1> QED
  BY Zenon, <1>7, <1>8, <1>9, <1>10, <1>11 DEF OnePlace

\* The dispatcher takes a task that was queued, so that nobody had it.
LEMMA SubmitOnePlace ==
    ASSUME TypeOK, LocalsOK, QueueOrder, OnePlace, mark_request_task_submitted
    PROVE  OnePlace'
<1> DEFINE h == Head(request_queue)
<1>1. /\ h \in Tasks /\ stage[h] = "queued" /\ peer_key(h) \in Peers
      /\ \A t \in Tasks : stage'[t] = IF t = h THEN "submitted" ELSE stage[t]
  <2>1. h \in Tasks /\ stage[h] = "queued"
    <3>1. request_queue \in Seq(Tasks) /\ request_queue # <<>>
      BY Zenon DEF mark_request_task_submitted, TypeOK
    <3>2. h = request_queue[1] /\ 1 \in 1..Len(request_queue)
      BY <3>1
    <3> QED
      BY <3>1, <3>2 DEF QueueOrder
  <2> QED
    BY Zenon, <2>1, TaskFacts DEF mark_request_task_submitted, TypeOK
<1>2. /\ disp_pc = "get" /\ disp_pc' = "append" /\ disp_task' = h
      /\ UNCHANGED <<peer_request_queues, worker_pc, worker_task>>
  BY Zenon DEF mark_request_task_submitted, peerVars, workerVars
<1>3. \A p \in Peers : \A i \in 1..Len(peer_request_queues[p]) :
          /\ peer_request_queues[p][i] \in Tasks
          /\ stage[peer_request_queues[p][i]] = "submitted"
          /\ peer_request_queues[p][i] # h
  <2> SUFFICES ASSUME NEW p \in Peers, NEW i \in 1..Len(peer_request_queues[p])
               PROVE  /\ peer_request_queues[p][i] \in Tasks
                      /\ stage[peer_request_queues[p][i]] = "submitted"
                      /\ peer_request_queues[p][i] # h
    BY Zenon
  <2>1. peer_request_queues[p] \in Seq(Tasks)
    BY Zenon DEF TypeOK
  <2>2. stage[peer_request_queues[p][i]] = "submitted"
    BY Zenon DEF OnePlace, QueuedAtPeer
  <2>3. peer_request_queues[p][i] \in Tasks
    BY <2>1
  <2> HIDE DEF h
  <2> QED
    BY Zenon, <1>1, <2>2, <2>3
<1>4. \A w \in Workers : worker_pc[w] \in BeforeDone =>
          worker_task[w] \in Tasks /\ worker_task[w] # h
  BY Zenon, <1>1 DEF LocalsOK, OnePlace, HandledApart, Busy
<1>5. \A t : InPeerQueue(t)' <=> InPeerQueue(t)
  BY Zenon, <1>2 DEF InPeerQueue
<1>6. ~InPeerQueue(h)
  BY Zenon, <1>1, <1>3 DEF InPeerQueue
<1>7. ~InPeerQueue(disp_task)'
  BY Zenon, <1>2, <1>6 DEF InPeerQueue
<1>8. ASSUME NEW w \in Workers, worker_pc'[w] \in BeforeDone
      PROVE  /\ stage'[worker_task'[w]] = "submitted"
             /\ ~InPeerQueue(worker_task[w])'
             /\ worker_task'[w] # disp_task'
  BY Zenon, <1>1, <1>2, <1>4, <1>8 DEF OnePlace, HandledApart, InPeerQueue
<1>9. QueuedAtPeer'
  BY Zenon, <1>1, <1>2, <1>3 DEF OnePlace, QueuedAtPeer
<1>10. QueuedOnce'
  BY Zenon, <1>2 DEF OnePlace, QueuedOnce
<1>11. DispatchedApart'
  BY Zenon, <1>1, <1>2, <1>7 DEF DispatchedApart
<1>12. HandledApart'
  BY Zenon, <1>8 DEF HandledApart
<1>13. HandledOnce'
  BY Zenon, <1>2 DEF OnePlace, HandledOnce
<1> QED
  BY Zenon, <1>9, <1>10, <1>11, <1>12, <1>13 DEF OnePlace

\* The dispatcher hands its task to the queue of the task's peer.
LEMMA AppendOnePlace ==
    ASSUME TypeOK, LocalsOK, OnePlace, append_peer_request
    PROVE  OnePlace'
<1> DEFINE d == disp_task
           k == peer_key(disp_task)
           Q == peer_request_queues
           n == Len(peer_request_queues[k])
<1>1. /\ d \in Tasks /\ k \in Peers /\ stage[d] = "submitted" /\ ~InPeerQueue(d)
      /\ disp_pc' # "append" /\ stage' = stage
      /\ UNCHANGED <<worker_pc, worker_task>>
      /\ peer_request_queues' = [Q EXCEPT ![k] = Append(Q[k], d)]
  BY Zenon, TaskFacts
     DEF append_peer_request, LocalsOK, OnePlace, DispatchedApart, workerVars, historyVars
<1>2. /\ Q[k] \in Seq(Tasks) /\ n \in Nat
      /\ peer_request_queues'[k] = Append(Q[k], d)
      /\ Len(peer_request_queues'[k]) = n + 1
      /\ \A i \in 1..n : peer_request_queues'[k][i] = Q[k][i]
      /\ peer_request_queues'[k][n + 1] = d
      /\ \A p \in Peers : p # k => peer_request_queues'[p] = Q[p]
  BY <1>1 DEF TypeOK
<1>3. \A i \in 1..n : Q[k][i] # d
  BY Zenon, <1>1 DEF InPeerQueue
<1>4. ASSUME NEW p \in Peers, NEW i \in 1..Len(peer_request_queues'[p])
      PROVE  /\ peer_key(peer_request_queues'[p][i]) = p
             /\ stage[peer_request_queues'[p][i]] = "submitted"
  <2>1. CASE p # k
    BY <1>2, <1>4, <2>1 DEF OnePlace, QueuedAtPeer
  <2>2. CASE p = k /\ i \in 1..n
    <3>1. peer_request_queues'[p][i] = Q[p][i] /\ i \in 1..Len(Q[p])
      BY Zenon, <1>2, <2>2
    <3> QED
      BY Zenon, <3>1 DEF OnePlace, QueuedAtPeer
  <2>3. CASE p = k /\ i = n + 1
    BY Zenon, <1>1, <1>2, <2>3
  <2> QED
    BY <1>2, <1>4, <2>1, <2>2, <2>3
<1>5. ASSUME NEW p \in Peers, NEW i \in 1..Len(peer_request_queues'[p]),
             NEW j \in 1..Len(peer_request_queues'[p]),
             peer_request_queues'[p][i] = peer_request_queues'[p][j]
      PROVE  i = j
  <2>1. CASE p # k
    BY Zenon, <1>2, <1>5, <2>1 DEF OnePlace, QueuedOnce
  <2>2. CASE p = k
    <3>1. (i \in 1..n \/ i = n + 1) /\ (j \in 1..n \/ j = n + 1)
      BY <1>2, <2>2
    <3> QED
      BY <1>1, <1>2, <1>3, <1>5, <2>2, <3>1 DEF OnePlace, QueuedOnce
  <2> QED
    BY Zenon, <2>1, <2>2
<1>6. ASSUME NEW w \in Workers, worker_pc[w] \in BeforeDone
      PROVE  ~InPeerQueue(worker_task[w])'
  <2> DEFINE t == worker_task[w]
  <2>1. /\ t \in Tasks /\ peer_key(t) \in Peers /\ t # d
        /\ ~InPeerQueue(t)
    BY Zenon, <1>6, TaskFacts
       DEF LocalsOK, OnePlace, HandledApart, Busy, append_peer_request
  <2>2. CASE peer_key(t) # k
    BY <1>1, <1>2, <2>1, <2>2 DEF InPeerQueue
  <2>3. CASE peer_key(t) = k
    <3>1. \A i \in 1..n : Q[k][i] # t
      BY Zenon, <2>1, <2>3 DEF InPeerQueue
    <3>2. \A i \in 1..(n + 1) : i \in 1..n \/ i = n + 1
      BY <1>2
    <3>3. \A i \in 1..(n + 1) : peer_request_queues'[k][i] # t
      BY Zenon, <1>2, <2>1, <3>1, <3>2
    <3> QED
      BY Zenon, <1>1, <1>2, <2>3, <3>3 DEF InPeerQueue
  <2> QED
    BY Zenon, <2>2, <2>3
<1>7. QueuedAtPeer'
  BY Zenon, <1>1, <1>4 DEF QueuedAtPeer
<1>8. QueuedOnce'
  BY Zenon, <1>5 DEF QueuedOnce
<1>9. DispatchedApart'
  BY Zenon, <1>1 DEF DispatchedApart
<1>10. HandledApart'
  BY Zenon, <1>1, <1>6 DEF OnePlace, HandledApart
<1>11. HandledOnce'
  BY Zenon, <1>1 DEF OnePlace, HandledOnce
<1> QED
  BY Zenon, <1>7, <1>8, <1>9, <1>10, <1>11 DEF OnePlace

\* A thread takes the head of its peer's queue, which was nowhere else.
LEMMA PopOnePlace ==
    ASSUME TypeOK, LocalsOK, OnePlace, NEW w \in Workers, pop_peer_request(w),
           peer_request_queues[worker_peer[w]] # <<>>
    PROVE  OnePlace'
<1> DEFINE p == worker_peer[w]
           Q == peer_request_queues
           h == Head(peer_request_queues[worker_peer[w]])
           n == Len(peer_request_queues[worker_peer[w]])
           StillQueued(x) == \E i \in 1..Len(peer_request_queues'[peer_key(x)]) :
                                peer_request_queues'[peer_key(x)][i] = x
<1>1. /\ p \in Peers
      /\ worker_pc[w] = "loop" /\ worker_pc' = [worker_pc EXCEPT ![w] = "check"]
      /\ worker_task' = [worker_task EXCEPT ![w] = h]
      /\ peer_request_queues' = [Q EXCEPT ![p] = Tail(Q[p])]
      /\ UNCHANGED <<stage, disp_pc, disp_task>>
  BY Zenon DEF pop_peer_request, LocalsOK, Goto, dispVars, historyVars
<1>2. /\ Q[p] \in Seq(Tasks) /\ n \in Nat /\ n > 0 /\ h = Q[p][1] /\ h \in Tasks
      /\ 1 \in 1..n
      /\ peer_request_queues'[p] = Tail(Q[p])
      /\ Len(peer_request_queues'[p]) = n - 1
      /\ \A i \in 1..(n - 1) :
             peer_request_queues'[p][i] = Q[p][i + 1] /\ i + 1 \in 1..n /\ i + 1 # 1
      /\ \A r \in Peers : r # p => peer_request_queues'[r] = Q[r]
  BY <1>1 DEF TypeOK
<1>3. /\ worker_pc'[w] = "check" /\ worker_task'[w] = h
      /\ \A v \in Workers : v # w =>
             worker_pc'[v] = worker_pc[v] /\ worker_task'[v] = worker_task[v]
  BY Zenon, <1>1 DEF TypeOK
<1>4. stage[h] = "submitted" /\ peer_key(h) = p /\ InPeerQueue(h)
  <2>1. stage[Q[p][1]] = "submitted" /\ peer_key(Q[p][1]) = p
    BY Zenon, <1>1, <1>2 DEF OnePlace, QueuedAtPeer
  <2>2. stage[h] = "submitted" /\ peer_key(h) = p
    BY Zenon, <1>2, <2>1
  <2>3. InPeerQueue(h)
    BY Zenon, <1>2, <2>2 DEF InPeerQueue
  <2> QED
    BY Zenon, <2>2, <2>3
<1>5. ASSUME NEW r \in Peers, NEW i \in 1..Len(peer_request_queues'[r])
      PROVE  /\ \E j \in 1..Len(Q[r]) : peer_request_queues'[r][i] = Q[r][j]
             /\ peer_key(peer_request_queues'[r][i]) = r
             /\ stage[peer_request_queues'[r][i]] = "submitted"
  <2>1. CASE r # p
    BY <1>2, <1>5, <2>1 DEF OnePlace, QueuedAtPeer
  <2>2. CASE r = p
    BY <1>1, <1>2, <1>5, <2>2 DEF OnePlace, QueuedAtPeer
  <2> QED
    BY Zenon, <2>1, <2>2
<1>6. ASSUME NEW r \in Peers, NEW i \in 1..Len(peer_request_queues'[r]),
             NEW j \in 1..Len(peer_request_queues'[r]),
             peer_request_queues'[r][i] = peer_request_queues'[r][j]
      PROVE  i = j
  <2>1. CASE r # p
    BY ZenonT(30), <1>2, <1>6, <2>1 DEF OnePlace, QueuedOnce
  <2>2. CASE r = p
    <3>1. i \in 1..(n - 1) /\ j \in 1..(n - 1)
      BY ZenonT(30), <1>2, <2>2
    <3>2. Q[p][i + 1] = Q[p][j + 1] /\ i + 1 \in 1..n /\ j + 1 \in 1..n
      BY ZenonT(30), <1>2, <1>6, <2>2, <3>1
    <3>3. i + 1 = j + 1
      BY Zenon, <1>1, <3>2 DEF OnePlace, QueuedOnce
    <3> QED
      BY <3>1, <3>3
  <2> QED
    BY Zenon, <2>1, <2>2
<1>7. ASSUME NEW t \in Tasks, ~InPeerQueue(t)
      PROVE  ~StillQueued(t) /\ t # h
  BY SMTT(30), <1>4, <1>5, <1>7, TaskFacts DEF InPeerQueue
<1>8. ~StillQueued(h)
  <2>1. \A i \in 1..(n - 1) : Q[p][i + 1] # h
    BY <1>1, <1>2 DEF OnePlace, QueuedOnce
  <2>2. \A i \in 1..(n - 1) : peer_request_queues'[p][i] # h
    BY Zenon, <1>2, <2>1
  <2> QED
    BY ZenonT(30), <1>2, <1>4, <2>2
<1>9. disp_pc = "append" =>
          disp_task \in Tasks /\ ~StillQueued(disp_task) /\ disp_task # h
  BY Zenon, <1>7 DEF LocalsOK, OnePlace, DispatchedApart
<1>10. ASSUME NEW v \in Workers, v # w, worker_pc[v] \in BeforeDone
       PROVE  /\ worker_task[v] # h /\ stage[worker_task[v]] = "submitted"
              /\ ~StillQueued(worker_task[v])
              /\ disp_pc = "append" => worker_task[v] # disp_task
  BY Zenon, <1>7, <1>10 DEF LocalsOK, OnePlace, HandledApart, HandledOnce, Busy
<1>11. ASSUME NEW v \in Workers, worker_pc'[v] \in BeforeDone
       PROVE  /\ stage'[worker_task'[v]] = "submitted"
              /\ ~InPeerQueue(worker_task[v])'
              /\ disp_pc' = "append" => worker_task'[v] # disp_task'
  <2>1. InPeerQueue(worker_task[v])' <=> StillQueued(worker_task'[v])
    BY Zenon DEF InPeerQueue
  <2>2. ~StillQueued(worker_task'[v])
    <3> HIDE DEF StillQueued, h
    <3> QED
      BY Zenon, <1>3, <1>8, <1>10, <1>11
  <2>3. /\ stage'[worker_task'[v]] = "submitted"
        /\ disp_pc' = "append" => worker_task'[v] # disp_task'
    <3> HIDE DEF StillQueued, h
    <3> QED
      BY Zenon, <1>1, <1>3, <1>4, <1>9, <1>10, <1>11
  <2> QED
    BY Zenon, <2>1, <2>2, <2>3
<1>12. ASSUME NEW u \in Workers, NEW v \in Workers, worker_pc'[u] \in BeforeDone,
              worker_pc'[v] \in BeforeDone, worker_task'[u] = worker_task'[v]
       PROVE  u = v
  BY <1>3, <1>10, <1>12 DEF OnePlace, HandledOnce
<1>13. disp_pc' = "append" => ~InPeerQueue(disp_task)' /\ stage'[disp_task'] = "submitted"
  BY Zenon, <1>1, <1>9 DEF OnePlace, DispatchedApart, InPeerQueue
<1>14. QueuedAtPeer'
  BY ZenonT(30), <1>1, <1>5 DEF QueuedAtPeer
<1>15. QueuedOnce'
  BY Zenon, <1>6 DEF QueuedOnce
<1>16. DispatchedApart'
  BY Zenon, <1>13 DEF DispatchedApart
<1>17. HandledApart'
  BY Zenon, <1>11 DEF HandledApart
<1>18. HandledOnce'
  BY Zenon, <1>12 DEF HandledOnce
<1> QED
  BY Zenon, <1>14, <1>15, <1>16, <1>17, <1>18 DEF OnePlace

\* The task that ends was with this thread and nowhere else.
LEMMA DoneOnePlace ==
    ASSUME TypeOK, LocalsOK, OnePlace, NEW w \in Workers, mark_request_task_done(w)
    PROVE  OnePlace'
<1> DEFINE t == worker_task[w]
<1>1. /\ worker_pc[w] = "task_done" /\ t \in Tasks /\ ~InPeerQueue(t)
      /\ peer_key(t) \in Peers
      /\ disp_pc = "append" => disp_task # t /\ disp_task \in Tasks
  BY Zenon, TaskFacts
     DEF mark_request_task_done, LocalsOK, OnePlace, HandledApart, BeforeDone, Busy
<1>2. /\ UNCHANGED <<disp_pc, disp_task, peer_request_queues, worker_task>>
      /\ \A u \in Tasks : u # t => stage'[u] = stage[u]
      /\ worker_pc'[w] \notin BeforeDone
      /\ \A v \in Workers : v # w => worker_pc'[v] = worker_pc[v]
  BY Zenon, <1>1 DEF mark_request_task_done, Goto, dispVars, peerVars, TypeOK, BeforeDone
<1>3. \A p \in Peers : \A i \in 1..Len(peer_request_queues[p]) :
          peer_request_queues[p][i] \in Tasks /\ peer_request_queues[p][i] # t
  BY SMTT(30), <1>1 DEF TypeOK, OnePlace, QueuedAtPeer, InPeerQueue
<1>4. \A v \in Workers : worker_pc'[v] \in BeforeDone =>
          worker_task[v] \in Tasks /\ worker_task[v] # t /\ worker_pc[v] \in BeforeDone
  <2> SUFFICES ASSUME NEW v \in Workers, worker_pc'[v] \in BeforeDone
               PROVE  /\ worker_task[v] \in Tasks /\ worker_task[v] # t
                      /\ worker_pc[v] \in BeforeDone
    BY Zenon
  <2>1. v # w /\ worker_pc[v] \in BeforeDone /\ worker_pc[w] \in BeforeDone
    BY Zenon, <1>1, <1>2 DEF BeforeDone
  <2> QED
    BY Zenon, <2>1 DEF OnePlace, HandledApart, HandledOnce, LocalsOK, Busy
<1>5. \A u : InPeerQueue(u)' <=> InPeerQueue(u)
  BY Zenon, <1>2 DEF InPeerQueue
<1>6. disp_pc' = "append" =>
          stage'[disp_task'] = "submitted" /\ ~InPeerQueue(disp_task)'
  BY Zenon, <1>1, <1>2 DEF OnePlace, DispatchedApart, InPeerQueue
<1>7. ASSUME NEW v \in Workers, worker_pc'[v] \in BeforeDone
      PROVE  /\ stage'[worker_task'[v]] = "submitted"
             /\ ~InPeerQueue(worker_task[v])'
             /\ disp_pc' = "append" => worker_task'[v] # disp_task'
  BY Zenon, <1>2, <1>4, <1>7 DEF OnePlace, HandledApart, InPeerQueue
<1>8. QueuedAtPeer'
  BY <1>2, <1>3 DEF OnePlace, QueuedAtPeer
<1>9. QueuedOnce'
  BY Zenon, <1>2 DEF OnePlace, QueuedOnce
<1>10. DispatchedApart'
  BY Zenon, <1>6 DEF DispatchedApart
<1>11. HandledApart'
  BY Zenon, <1>7 DEF HandledApart
<1>12. HandledOnce'
  BY Zenon, <1>2, <1>4 DEF OnePlace, HandledOnce
<1> QED
  BY Zenon, <1>8, <1>9, <1>10, <1>11, <1>12 DEF OnePlace

\* OnePlace is kept by every step.
LEMMA OnePlaceStep ==
    ASSUME TypeOK, LocalsOK, LoadOrder, QueueOrder, OnePlace, [Next]_vars
    PROVE  OnePlace'
<1>1. CASE UNCHANGED vars
  BY ZenonT(30), <1>1, OnePlaceStable
     DEF vars, dispVars, peerVars, workerVars, historyVars
<1>2. CASE MainStep
  BY Zenon, <1>2, AddStage, OnePlaceStable
<1>3. CASE submit_peer_handler
  <2>1. /\ disp_pc' # "append"
        /\ UNCHANGED <<stage, peer_request_queues, worker_pc, worker_task>>
    BY Zenon, <1>3 DEF submit_peer_handler, peerVars, workerVars, historyVars
  <2> QED
    BY Zenon, <2>1, OnePlaceStable
<1>4. ASSUME NEW w \in Workers, WorkerStep(w), ~mark_request_task_done(w),
             ~(pop_peer_request(w) /\ peer_request_queues[worker_peer[w]] # <<>>)
      PROVE  OnePlace'
  <2>1. UNCHANGED <<disp_pc, disp_task, stage>>
    BY SMTT(30), <1>4, WorkerStage DEF dispVars
  <2>2. /\ UNCHANGED peer_request_queues
        /\ \A v \in Workers : v # w => worker_pc'[v] = worker_pc[v]
        /\ \A v \in Workers : v # w => worker_task'[v] = worker_task[v]
        /\ worker_pc'[w] \in BeforeDone =>
               worker_pc[w] \in BeforeDone /\ worker_task'[w] = worker_task[w]
    <3>1. CASE start_handler(w) \/ end_batch(w) \/ resubmit_handler(w)
      BY ZenonT(30), <3>1 DEF start_handler, end_batch, resubmit_handler, Goto, Leave,
                  peerVars, TypeOK, BeforeDone
    <3>2. CASE pop_peer_request(w)
      BY ZenonT(30), <1>4, <3>2 DEF pop_peer_request, Goto, Leave, TypeOK, BeforeDone
    <3>3. CASE check_failed(w) \/ transfer_kv_cache(w) \/ reformat_kv_cache(w)
               \/ transfer_fails(w)
      BY ZenonT(30), <3>3 DEF check_failed, transfer_kv_cache, reformat_kv_cache,
                  transfer_fails, TransferFrame, Goto, peerVars, TypeOK, BeforeDone
    <3>4. CASE \/ finish_request(w) \/ clear_request(w)
               \/ send_done_signal_to_free_remote_port(w) \/ send_done_recv_signal(w)
      BY SMTT(30), <3>4
         DEF finish_request, clear_request, send_done_signal_to_free_remote_port,
                  send_done_recv_signal, Goto, peerVars, TypeOK, BeforeDone
    <3> QED
      BY ZenonT(30), <1>4, <3>1, <3>2, <3>3, <3>4 DEF WorkerStep
  <2>3. \A v \in Workers : worker_pc'[v] \in BeforeDone =>
            worker_pc[v] \in BeforeDone /\ worker_task'[v] = worker_task[v]
    BY Zenon, <2>2
  <2> QED
    BY Zenon, <2>1, <2>2, <2>3, OnePlaceStable
<1> QED
  BY SMTT(30), <1>1, <1>2, <1>3, <1>4, SubmitOnePlace, AppendOnePlace, PopOnePlace, DoneOnePlace
  DEF Next, DispatchStep

-----------------------------------------------------------------------------
(* EndedOK. *)

\* EndedOK in terms of what a step may do: an ended task stays ended, a read
\* or failed task stays so, and nobody new finishes a request.
LEMMA EndedStable ==
    ASSUME TypeOK, LocalsOK, EndedOK,
           \A t \in Tasks : stage[t] = "ended" <=> stage'[t] = "ended",
           pulled \subseteq pulled', failed \subseteq failed',
           \A w \in Workers :
               worker_pc'[w] \in {"reformat", "task_done"} =>
                   \/ worker_task'[w] \in pulled' \cup failed'
                   \/ /\ worker_pc[w] \in {"reformat", "task_done"}
                      /\ worker_task'[w] = worker_task[w],
           \A w \in Workers :
               worker_pc'[w] = "finish" =>
                   worker_pc[w] = "finish" /\ worker_task'[w] = worker_task[w],
           \A r \in finished_requests' \cup reported' : r \in Requests /\ AllEnded(r)
    PROVE  EndedOK'
<1>1. \A r \in Requests : AllEnded(r) => \A t \in TasksOf(r) : stage'[t] = "ended"
  BY ZenonT(30), RequestFacts DEF AllEnded
<1>2. (\A t \in Tasks : stage[t] = "ended" => t \in pulled \cup failed)'
  BY Zenon DEF EndedOK
<1>3. ASSUME NEW w \in Workers
      PROVE  /\ worker_pc'[w] \in {"reformat", "task_done"} =>
                    worker_task'[w] \in pulled' \cup failed'
             /\ worker_pc'[w] = "finish" =>
                    \A t \in TasksOf(worker_task'[w].req) : stage'[t] = "ended"
  <2>1. worker_pc'[w] \in {"reformat", "task_done"} =>
            worker_task'[w] \in pulled' \cup failed'
    BY Zenon DEF EndedOK
  <2>2. ASSUME worker_pc'[w] = "finish"
        PROVE  \A t \in TasksOf(worker_task'[w].req) : stage'[t] = "ended"
    <3>1. /\ worker_pc[w] = "finish" /\ worker_task'[w] = worker_task[w]
          /\ worker_task[w] \in Tasks
      BY Zenon, <2>2 DEF LocalsOK, Busy
    <3>2. worker_task[w].req \in Requests /\ AllEnded(worker_task[w].req)
      BY Zenon, <3>1, TaskFacts DEF EndedOK
    <3> QED
      BY Zenon, <1>1, <3>1, <3>2
  <2> QED
    BY Zenon, <2>1, <2>2
<1>4. \A r \in finished_requests' \cup reported' :
          \A t \in TasksOf(r) : stage'[t] = "ended"
  BY Zenon, <1>1
<1>5. (\A w \in Workers :
           /\ worker_pc[w] \in {"reformat", "task_done"} =>
                  worker_task[w] \in pulled \cup failed
           /\ worker_pc[w] = "finish" => AllEnded(worker_task[w].req))'
  BY Zenon, <1>3 DEF AllEnded
<1>6. (\A r \in finished_requests \cup reported : AllEnded(r))'
  BY Zenon, <1>4 DEF AllEnded
<1> QED
  BY Zenon, <1>2, <1>5, <1>6 DEF EndedOK

\* The finished and the reported requests of a state all have ended.
LEMMA Announced ==
    ASSUME TypeOK, EndedOK, NEW r \in finished_requests \cup reported
    PROVE  r \in Requests /\ AllEnded(r)
BY Zenon DEF TypeOK, TrackerTypeOK, EndedOK

\* The model runner reports what the tracker says is finished.
LEMMA MainEnded ==
    ASSUME TypeOK, LocalsOK, LoadOrder, EndedOK, MainStep
    PROVE  EndedOK'
<1>1. finished_requests' \cup reported' \subseteq finished_requests \cup reported
  <2>1. CASE get_finished
    <3>1. finished_or_expired(0) = finished_requests
      BY Zenon, NoneExpired DEF LocalsOK
    <3> QED
      BY Zenon, <2>1, <3>1 DEF get_finished, get_and_clear_finished_requests
  <2>2. CASE ~get_finished
    BY Zenon, <2>2 DEF MainStep, start_load_kv, add_request, add_req_to_process,
                get_and_clear_invalid_block_ids, trackerVars, reportVars
  <2> QED
    BY Zenon, <2>1, <2>2
<1>2. \A r \in finished_requests' \cup reported' : r \in Requests /\ AllEnded(r)
  BY Zenon, <1>1, Announced
<1> QED
  BY Zenon, <1>2, AddStage, EndedStable

\* The dispatching thread ends nothing.
LEMMA DispatchEnded ==
    ASSUME TypeOK, LocalsOK, QueueOrder, EndedOK, DispatchStep
    PROVE  EndedOK'
<1>1. \A t \in Tasks : stage[t] = "ended" <=> stage'[t] = "ended"
  BY ZenonT(30), DispatchStage DEF TypeOK
<1>2. UNCHANGED <<finished_requests, reported, pulled, failed, worker_pc, worker_task>>
  BY ZenonT(30) DEF DispatchStep, mark_request_task_submitted, append_peer_request,
         submit_peer_handler, trackerVars, workerVars, reportVars, historyVars
<1> QED
  BY Zenon, <1>1, <1>2, Announced, EndedStable

\* The task that a thread ends was read or has failed; when this finishes its
\* request, no other task of the request may be left.
LEMMA DoneEnded ==
    ASSUME TypeOK, LocalsOK, OnePlace, EndedOK, NEW w \in Workers,
           mark_request_task_done(w),
           finished_by(worker_task[w]) =>
               \A u \in TasksOf(worker_task[w].req) :
                   u # worker_task[w] => stage[u] = "ended"
    PROVE  EndedOK'
<1> DEFINE t == worker_task[w]
<1>1. /\ t \in Tasks /\ t.req \in Requests
      /\ \A u \in Tasks : stage'[u] = IF u = t THEN "ended" ELSE stage[u]
  <2>1. t \in Tasks
    <3>1. worker_pc[w] = "task_done"
      BY Zenon DEF mark_request_task_done
    <3> QED
      BY Zenon, <3>1 DEF LocalsOK, Busy, BeforeDone
  <2>2. \A u \in Tasks : stage'[u] = IF u = t THEN "ended" ELSE stage[u]
    BY Zenon, <2>1 DEF mark_request_task_done, TypeOK
  <2> QED
    BY Zenon, <2>1, <2>2, TaskFacts
<1>2. /\ worker_pc[w] = "task_done" /\ worker_pc'[w] \in {"finish", "free"}
      /\ worker_pc'[w] = "finish" => finished_by(t)
      /\ \A v \in Workers : v # w => worker_pc'[v] = worker_pc[v]
      /\ UNCHANGED <<worker_task, pulled, failed, finished_requests, reported>>
  BY ZenonT(30) DEF mark_request_task_done, Goto, TypeOK, trackerVars, reportVars
<1>3. t \in pulled \cup failed
  <2>1. worker_pc[w] \in {"reformat", "task_done"}
    BY Zenon, <1>2
  <2> QED
    BY Zenon, <2>1 DEF EndedOK
<1>4. ASSUME NEW r \in Requests, AllEnded(r) PROVE AllEnded(r)'
  BY ZenonT(30), <1>1, <1>4, RequestFacts DEF AllEnded
<1>5. (\A u \in Tasks : stage[u] = "ended" => u \in pulled \cup failed)'
  BY Zenon, <1>1, <1>2, <1>3 DEF EndedOK
<1>6. ASSUME NEW v \in Workers
      PROVE  /\ worker_pc'[v] \in {"reformat", "task_done"} =>
                    worker_task'[v] \in pulled' \cup failed'
             /\ worker_pc'[v] = "finish" => AllEnded(worker_task[v].req)'
  <2>1. CASE v = w
    <3>1. ASSUME worker_pc'[w] = "finish"
          PROVE  \A u \in TasksOf(t.req) : stage'[u] = "ended"
      BY ZenonT(30), <1>1, <1>2, <3>1, RequestFacts
    <3>2. worker_pc'[w] \notin {"reformat", "task_done"}
      <4>1. worker_pc'[w] \in {"finish", "free"}
        BY Zenon, <1>2
      <4> QED
        BY Zenon, <4>1
    <3>3. worker_pc'[w] = "finish" => AllEnded(worker_task[w].req)'
      BY Zenon, <1>2, <3>1 DEF AllEnded
    <3> QED
      BY Zenon, <2>1, <3>2, <3>3
  <2>2. CASE v # w
    <3>1. worker_pc[v] = "finish" => worker_task[v].req \in Requests
      BY Zenon, TaskFacts DEF LocalsOK, Busy
    <3>2. worker_pc[v] = "finish" =>
              \A u \in TasksOf(worker_task[v].req) : stage'[u] = "ended"
      BY ZenonT(30), <1>1, <3>1, RequestFacts DEF EndedOK, AllEnded
    <3> QED
      BY Zenon, <1>2, <2>2, <3>2 DEF EndedOK, AllEnded
  <2> QED
    BY Zenon, <2>1, <2>2
<1>7. (\A r \in finished_requests \cup reported : AllEnded(r))'
  BY Zenon, <1>2, <1>4, Announced
<1> QED
  BY Zenon, <1>5, <1>6, <1>7 DEF EndedOK

\* A thread of the executor tells the tracker only that a request is finished,
\* and the scheduler nothing.
LEMMA WorkerTracker ==
    ASSUME NEW w \in Workers, WorkerStep(w)
    PROVE  /\ UNCHANGED <<reported, reported_invalid>>
           /\ ~finish_request(w) => UNCHANGED trackerVars
<1>1. CASE \/ start_handler(w) \/ pop_peer_request(w) \/ end_batch(w)
           \/ resubmit_handler(w)
  BY SMTT(30), <1>1 DEF start_handler, pop_peer_request, end_batch, resubmit_handler,
              reportVars
<1>2. CASE check_failed(w) \/ transfer_kv_cache(w) \/ reformat_kv_cache(w)
           \/ transfer_fails(w)
  BY ZenonT(30), <1>2 DEF check_failed, transfer_kv_cache, reformat_kv_cache,
              transfer_fails, TransferFrame, reportVars
<1>3. CASE \/ mark_request_task_done(w) \/ clear_request(w)
           \/ send_done_signal_to_free_remote_port(w) \/ send_done_recv_signal(w)
  BY SMTT(30), <1>3 DEF mark_request_task_done, clear_request,
              send_done_signal_to_free_remote_port, send_done_recv_signal, reportVars
<1>4. CASE finish_request(w)
  BY Zenon, <1>4 DEF finish_request, reportVars
<1> QED
  BY ZenonT(30), <1>1, <1>2, <1>3, <1>4 DEF WorkerStep

\* Every other step of a thread of the executor.
LEMMA WorkerEnded ==
    ASSUME TypeOK, LocalsOK, OnePlace, EndedOK, NEW w \in Workers, WorkerStep(w),
           ~mark_request_task_done(w)
    PROVE  EndedOK'
<1>1. UNCHANGED stage
  BY SMTT(30), WorkerStage
<1>2. /\ pulled \subseteq pulled' /\ failed \subseteq failed'
      /\ \A v \in Workers : v # w =>
             worker_pc'[v] = worker_pc[v] /\ worker_task'[v] = worker_task[v]
      /\ worker_pc'[w] \in {"reformat", "task_done"} =>
             worker_task'[w] \in pulled' \cup failed'
      /\ worker_pc'[w] # "finish"
  <2>1. CASE \/ start_handler(w) \/ pop_peer_request(w) \/ end_batch(w)
             \/ resubmit_handler(w)
    BY ZenonT(30), <2>1
       DEF start_handler, pop_peer_request, end_batch, resubmit_handler,
                Goto, Leave, TypeOK, historyVars
  <2>2. CASE check_failed(w) \/ transfer_kv_cache(w) \/ transfer_fails(w)
    BY ZenonT(30), <2>2
       DEF check_failed, transfer_kv_cache, transfer_fails, TransferFrame,
                Goto, TypeOK
  <2>3. CASE reformat_kv_cache(w)
    BY ZenonT(30), <2>3 DEF reformat_kv_cache, TransferFrame, Goto, TypeOK, EndedOK
  <2>4. CASE \/ finish_request(w) \/ clear_request(w)
             \/ send_done_signal_to_free_remote_port(w) \/ send_done_recv_signal(w)
    BY <2>4 DEF finish_request, clear_request, send_done_signal_to_free_remote_port,
                send_done_recv_signal, Goto, TypeOK, historyVars
  <2> QED
    BY ZenonT(30), <2>1, <2>2, <2>3, <2>4 DEF WorkerStep
<1>3. \A r \in finished_requests' \cup reported' : r \in Requests /\ AllEnded(r)
  <2>1. CASE finish_request(w)
    <3>1. worker_task[w].req \in Requests /\ AllEnded(worker_task[w].req)
      BY SMTT(30), <2>1, TaskFacts DEF finish_request, LocalsOK, EndedOK, Busy
    <3>2. /\ finished_requests' \subseteq finished_requests \cup {worker_task[w].req}
          /\ reported' = reported
      BY Zenon, <2>1 DEF finish_request, update_done_task_count, trackerVars, reportVars
    <3> QED
      BY Zenon, <3>1, <3>2, Announced
  <2>2. CASE ~finish_request(w)
    <3>1. UNCHANGED <<finished_requests, reported>>
      BY Zenon, <2>2, WorkerTracker DEF trackerVars
    <3> QED
      BY Zenon, <3>1, Announced
  <2> QED
    BY Zenon, <2>1, <2>2
<1>4. /\ \A v \in Workers :
             worker_pc'[v] \in {"reformat", "task_done"} =>
                 \/ worker_task'[v] \in pulled' \cup failed'
                 \/ /\ worker_pc[v] \in {"reformat", "task_done"}
                    /\ worker_task'[v] = worker_task[v]
      /\ \A v \in Workers : worker_pc'[v] = "finish" =>
             worker_pc[v] = "finish" /\ worker_task'[v] = worker_task[v]
  BY Zenon, <1>2
<1> QED
  BY Zenon, <1>1, <1>2, <1>3, <1>4, EndedStable

=============================================================================
