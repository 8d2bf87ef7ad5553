-------------------- MODULE KVCacheRecvingThreadHandlers --------------------
(***************************************************************************)
(* TrackedOK, FailuresOK, SignalsOK and HandlersOK of                      *)
(* KVCacheRecvingThread: what the threads of the executor tell the         *)
(* scheduler and the remote peers, and that a peer has one handler.        *)
(***************************************************************************)
EXTENDS KVCacheRecvingThreadOrder

-----------------------------------------------------------------------------
(* TrackedOK. *)

\* A request that is loaded anew has neither finished nor been reported.
LEMMA StartTracked ==
    ASSUME TypeOK, EndedOK, TrackedOK, NEW B \in SUBSET Requests, start_load_kv(B)
    PROVE  TrackedOK'
<1>1. ASSUME NEW r \in B PROVE r \notin finished_requests \cup reported
  <2>1. FirstTask(r) \in TasksOf(r)
    BY ZenonT(30), RequestFacts
  <2>2. stage[FirstTask(r)] = "none"
    BY Zenon DEF start_load_kv
  <2> QED
    BY Zenon, <2>1, <2>2, Announced DEF AllEnded
<1>2. /\ reqs_to_process' = reqs_to_process \cup B
      /\ UNCHANGED <<finished_requests, reported>>
  BY Zenon DEF start_load_kv, add_req_to_process, reportVars
<1> QED
  BY Zenon, <1>1, <1>2 DEF TrackedOK

\* update_done_task_count moves a request from the tracked to the finished ones,
\* get_finished from there to the reported ones.
LEMMA TrackedStep ==
    ASSUME TypeOK, LocalsOK, EndedOK, TrackedOK, [Next]_vars
    PROVE  TrackedOK'
<1>1. CASE UNCHANGED <<trackerVars, reported>>
  BY Zenon, <1>1 DEF TrackedOK, trackerVars
<1>2. CASE MainStep
  <2>1. CASE get_finished
    <3>1. /\ finished_or_expired(0) = finished_requests
          /\ retrieve_expired_requests(0) = {}
      BY Zenon, NoneExpired DEF LocalsOK
    <3>2. /\ finished_requests' = {} /\ reqs_to_process' = reqs_to_process
          /\ reported' = reported \cup finished_requests
      BY Zenon, <2>1, <3>1 DEF get_finished, get_and_clear_finished_requests
    <3> QED
      BY Zenon, <3>2 DEF TrackedOK
  <2>2. CASE add_request \/ get_and_clear_invalid_block_ids
    BY Zenon, <1>1, <2>2 DEF add_request, get_and_clear_invalid_block_ids, reportVars
  <2> QED
    BY Zenon, <1>2, <2>1, <2>2, StartTracked DEF MainStep
<1>3. CASE DispatchStep
  BY Zenon, <1>1, <1>3 DEF DispatchStep, mark_request_task_submitted, append_peer_request,
         submit_peer_handler, reportVars
<1>4. ASSUME NEW w \in Workers, WorkerStep(w) PROVE TrackedOK'
  <2>1. CASE finish_request(w)
    <3> DEFINE r == worker_task[w].req
    <3>1. reported' = reported
      BY Zenon, <1>4, WorkerTracker
    <3>2. \/ UNCHANGED trackerVars
          \/ /\ r \in reqs_to_process
             /\ finished_requests' = finished_requests \cup {r}
             /\ reqs_to_process' = reqs_to_process \ {r}
      BY Zenon, <2>1 DEF finish_request, update_done_task_count
    <3> HIDE DEF r
    <3> QED
      BY Zenon, <1>1, <3>1, <3>2 DEF TrackedOK
  <2> QED
    BY Zenon, <1>1, <1>4, <2>1, WorkerTracker
<1> QED
  BY Zenon, <1>1, <1>2, <1>3, <1>4 DEF Next, vars, reportVars

-----------------------------------------------------------------------------
(* FailuresOK. *)

\* The ids of one more failed task.
LEMMA OneMoreFailed ==
    ASSUME NEW F, NEW t
    PROVE  UNION {local_block_ids(u) : u \in F \cup {t}}
               = (UNION {local_block_ids(u) : u \in F}) \cup local_block_ids(t)
BY Zenon

\* _mark_failed_recv_request under a thread that is still to end its task: the
\* request of the task cannot have been reported.
LEMMA FailFailures ==
    ASSUME TypeOK, LocalsOK, OnePlace, EndedOK, FailuresOK, NEW w \in Workers,
           worker_pc[w] \in BeforeDone, mark_failed_recv_request(worker_task[w]),
           failed' = failed \cup {worker_task[w]},
           UNCHANGED <<main_pc, reported, reported_invalid>>
    PROVE  FailuresOK'
<1> DEFINE t == worker_task[w]
<1>1. t \in Tasks /\ stage[t] = "submitted" /\ t \in TasksOf(t.req)
  BY Zenon, TaskFacts DEF LocalsOK, OnePlace, HandledApart, Busy
<1>2. t.req \notin reported
  BY Zenon, <1>1, Announced DEF AllEnded
<1>3. invalid_block_ids' = invalid_block_ids \cup local_block_ids(t)
  BY Zenon DEF mark_failed_recv_request
<1> HIDE DEF t
<1>4. (invalid_block_ids \cup reported_invalid
           = UNION {local_block_ids(u) : u \in failed})'
  <2>1. invalid_block_ids' \cup reported_invalid'
            = (UNION {local_block_ids(u) : u \in failed}) \cup local_block_ids(t)
    BY Zenon, <1>3 DEF FailuresOK
  <2>2. UNION {local_block_ids(u) : u \in failed \cup {t}}
            = (UNION {local_block_ids(u) : u \in failed}) \cup local_block_ids(t)
    BY Zenon, OneMoreFailed
  <2>3. failed' = failed \cup {t}
    BY Zenon DEF t
  <2> QED
    BY Zenon, <2>1, <2>2, <2>3
<1>5. (main_pc # "errors" =>
           \A u \in failed : u.req \in reported =>
               local_block_ids(u) \subseteq reported_invalid)'
  <2>1. failed' = failed \cup {t}
    BY Zenon DEF t
  <2> QED
    BY Zenon, <1>2, <2>1 DEF FailuresOK
<1> QED
  BY Zenon, <1>4, <1>5 DEF FailuresOK

\* Every failure is handed on, and none is made up.
LEMMA FailuresStep ==
    ASSUME TypeOK, LocalsOK, OnePlace, EndedOK, FailuresOK, [Next]_vars
    PROVE  FailuresOK'
<1>1. CASE UNCHANGED <<invalid_block_ids, reported_invalid, failed, reported, main_pc>>
  BY Zenon, <1>1 DEF FailuresOK
<1>2. CASE MainStep
  <2>1. CASE get_finished
    BY Zenon, <2>1 DEF get_finished, FailuresOK, failVars, historyVars
  <2>2. CASE get_and_clear_invalid_block_ids
    <3>1. /\ reported_invalid' = reported_invalid \cup invalid_block_ids
          /\ invalid_block_ids' = {} /\ UNCHANGED <<failed, reported>>
      BY Zenon, <2>2 DEF get_and_clear_invalid_block_ids, historyVars
    <3>2. \A t \in failed : local_block_ids(t) \subseteq reported_invalid'
      BY Zenon, <3>1 DEF FailuresOK
    <3> QED
      BY Zenon, <3>1, <3>2 DEF FailuresOK
  <2>3. CASE add_request \/ \E B \in SUBSET Requests : start_load_kv(B)
    <3>1. /\ UNCHANGED <<invalid_block_ids, reported_invalid, failed, reported>>
          /\ main_pc # "errors" /\ main_pc' # "errors"
      BY Zenon, <2>3 DEF add_request, start_load_kv, failVars, reportVars, historyVars
    <3> QED
      BY Zenon, <3>1 DEF FailuresOK
  <2> QED
    BY Zenon, <1>2, <2>1, <2>2, <2>3 DEF MainStep
<1>3. CASE DispatchStep
  BY Zenon, <1>1, <1>3 DEF DispatchStep, mark_request_task_submitted, append_peer_request,
         submit_peer_handler, mainVars, failVars, reportVars, historyVars
<1>4. ASSUME NEW w \in Workers, WorkerStep(w) PROVE FailuresOK'
  <2>1. UNCHANGED <<main_pc, reported, reported_invalid>>
    BY SMTT(30), <1>4, WorkerStage, WorkerTracker DEF mainVars
  <2>2. CASE \/ /\ worker_pc[w] \in BeforeDone
                /\ mark_failed_recv_request(worker_task[w])
                /\ failed' = failed \cup {worker_task[w]}
             \/ UNCHANGED <<invalid_block_ids, failed>>
    BY Zenon, <1>1, <2>1, <2>2, FailFailures
  <2>3. CASE check_failed(w) \/ transfer_fails(w)
    BY Zenon, <2>2, <2>3 DEF check_failed, transfer_fails, BeforeDone, failVars
  <2>4. CASE transfer_kv_cache(w) \/ reformat_kv_cache(w)
    BY Zenon, <2>2, <2>4 DEF transfer_kv_cache, reformat_kv_cache, failVars
  <2>5. CASE \/ start_handler(w) \/ pop_peer_request(w) \/ end_batch(w)
             \/ resubmit_handler(w) \/ mark_request_task_done(w)
             \/ finish_request(w) \/ clear_request(w)
             \/ send_done_signal_to_free_remote_port(w) \/ send_done_recv_signal(w)
    BY ZenonT(30), <2>2, <2>5 DEF start_handler, pop_peer_request, end_batch,
       resubmit_handler, mark_request_task_done, finish_request, clear_request,
       send_done_signal_to_free_remote_port, send_done_recv_signal, failVars, historyVars
  <2> QED
    BY Zenon, <1>4, <2>3, <2>4, <2>5 DEF WorkerStep
<1> QED
  BY Zenon, <1>1, <1>2, <1>3, <1>4 DEF Next, vars, mainVars, failVars, reportVars, historyVars

-----------------------------------------------------------------------------
(* SignalsOK. *)

\* No task ends, none is signalled and no thread gets a task to signal.
LEMMA SignalsStable ==
    ASSUME TypeOK, LocalsOK, SignalsOK, UNCHANGED done_sent,
           \A t \in Tasks : stage[t] = "ended" => stage'[t] = "ended",
           \A w \in Workers : worker_pc'[w] \in AfterDone =>
               worker_pc[w] \in AfterDone /\ worker_task'[w] = worker_task[w]
    PROVE  SignalsOK'
<1>1. \A w \in Workers : worker_pc[w] \in AfterDone => worker_task[w] \in Tasks
  BY Zenon DEF LocalsOK, AfterDone
<1>2. \A t \in done_sent : t \in Tasks
  BY Zenon DEF TypeOK
<1> QED
  BY Zenon, <1>1, <1>2 DEF SignalsOK

\* The task that a thread marks as done has not been signalled, and no other
\* thread has it.
LEMMA DoneSignals ==
    ASSUME TypeOK, LocalsOK, OnePlace, SignalsOK, NEW w \in Workers,
           mark_request_task_done(w)
    PROVE  SignalsOK'
<1> DEFINE t == worker_task[w]
<1>1. t \in Tasks /\ stage[t] = "submitted"
  BY Zenon DEF mark_request_task_done, LocalsOK, OnePlace, HandledApart, BeforeDone, Busy
<1>2. /\ \A u \in Tasks : stage'[u] = IF u = t THEN "ended" ELSE stage[u]
      /\ \A v \in Workers : v # w => worker_pc'[v] = worker_pc[v]
      /\ UNCHANGED <<done_sent, worker_task>>
  BY Zenon, <1>1 DEF mark_request_task_done, Goto, TypeOK
<1>3. t \notin done_sent
  BY Zenon, <1>1 DEF SignalsOK
<1>4. \A v \in Workers : worker_pc[v] \in AfterDone => worker_task[v] \in Tasks
  BY Zenon DEF LocalsOK, AfterDone
<1>5. \A v \in Workers : v # w /\ worker_pc'[v] \in AfterDone =>
          worker_pc[v] \in AfterDone /\ worker_task[v] # t
  BY Zenon, <1>1, <1>2 DEF SignalsOK
<1>6. done_sent \subseteq Tasks
  BY Zenon DEF TypeOK
<1> HIDE DEF t
<1>7. \A u \in done_sent' : stage'[u] = "ended"
  BY Zenon, <1>2, <1>6 DEF SignalsOK
<1>8. \A v \in Workers : worker_pc'[v] \in AfterDone =>
          stage'[worker_task'[v]] = "ended" /\ worker_task'[v] \notin done_sent'
  BY Zenon, <1>1, <1>2, <1>3, <1>4, <1>5 DEF SignalsOK, t
<1>9. \A u, v \in Workers :
          /\ worker_pc'[u] \in AfterDone /\ worker_pc'[v] \in AfterDone
          /\ worker_task'[u] = worker_task'[v]
          => u = v
  BY Zenon, <1>2, <1>5 DEF SignalsOK, t
<1> QED
  BY Zenon, <1>7, <1>8, <1>9 DEF SignalsOK

\* _send_done_recv_signal: the thread gives the task up with the signal.
LEMMA SendSignals ==
    ASSUME TypeOK, LocalsOK, SignalsOK, NEW w \in Workers, send_done_recv_signal(w)
    PROVE  SignalsOK'
<1> DEFINE t == worker_task[w]
<1>1. worker_pc[w] \in AfterDone /\ stage[t] = "ended"
  BY Zenon DEF send_done_recv_signal, SignalsOK, AfterDone, Busy, BeforeDone
<1>2. /\ worker_pc'[w] \notin AfterDone
      /\ \A v \in Workers : v # w =>
             worker_pc'[v] = worker_pc[v] /\ worker_task'[v] = worker_task[v]
      /\ done_sent' = done_sent \cup {t} /\ stage' = stage
  BY Zenon DEF send_done_recv_signal, signal_done, Goto, TypeOK, AfterDone, Busy
<1>3. \A v \in Workers : worker_pc'[v] \in AfterDone =>
          /\ v # w /\ worker_pc[v] \in AfterDone /\ worker_task'[v] = worker_task[v]
          /\ worker_task[v] # t
  BY Zenon, <1>1, <1>2 DEF SignalsOK
<1> HIDE DEF t
<1> QED
  BY Zenon, <1>1, <1>2, <1>3 DEF SignalsOK

\* A signal is sent for a task that has ended, by the one thread that has it.
LEMMA SignalsStep ==
    ASSUME TypeOK, LocalsOK, LoadOrder, QueueOrder, OnePlace, SignalsOK, [Next]_vars
    PROVE  SignalsOK'
<1>1. CASE UNCHANGED vars
  BY Zenon, <1>1, SignalsStable DEF vars, workerVars, historyVars
<1>2. CASE MainStep
  <2>1. UNCHANGED done_sent
    BY Zenon, <1>2 DEF MainStep, start_load_kv, add_request, get_finished,
                get_and_clear_invalid_block_ids, historyVars
  <2> QED
    BY Zenon, <1>2, <2>1, AddStage, SignalsStable
<1>3. CASE DispatchStep
  <2>1. \A t \in Tasks : stage[t] = "ended" => stage'[t] = "ended"
    BY Zenon, <1>3, DispatchStage DEF TypeOK
  <2>2. UNCHANGED <<done_sent, worker_pc, worker_task>>
    BY Zenon, <1>3 DEF DispatchStep, mark_request_task_submitted, append_peer_request,
           submit_peer_handler, workerVars, historyVars
  <2> QED
    BY Zenon, <2>1, <2>2, SignalsStable
<1>4. ASSUME NEW w \in Workers, WorkerStep(w), ~mark_request_task_done(w),
             ~send_done_recv_signal(w)
      PROVE  SignalsOK'
  <2>1. UNCHANGED stage
    BY SMTT(30), <1>4, WorkerStage
  <2>2. /\ UNCHANGED done_sent
        /\ \A v \in Workers : v # w =>
               worker_pc'[v] = worker_pc[v] /\ worker_task'[v] = worker_task[v]
        /\ worker_pc'[w] \in AfterDone =>
               worker_pc[w] \in AfterDone /\ worker_task'[w] = worker_task[w]
    <3> USE DEF Goto, TypeOK, AfterDone, Busy, BeforeDone
    <3>1. CASE start_handler(w) \/ end_batch(w) \/ resubmit_handler(w)
      BY <3>1 DEF start_handler, end_batch, resubmit_handler, Leave, historyVars
    <3>2. CASE pop_peer_request(w)
      BY ZenonT(30), <3>2 DEF pop_peer_request, Leave, historyVars
    <3>3. CASE check_failed(w) \/ transfer_kv_cache(w) \/ reformat_kv_cache(w)
               \/ transfer_fails(w)
      BY ZenonT(30), <3>3 DEF check_failed, transfer_kv_cache, reformat_kv_cache,
                  transfer_fails, TransferFrame
    <3>4. CASE \/ finish_request(w) \/ clear_request(w)
               \/ send_done_signal_to_free_remote_port(w)
      BY SMTT(30), <3>4 DEF finish_request, clear_request,
                  send_done_signal_to_free_remote_port, historyVars
    <3> QED
      BY ZenonT(30), <1>4, <3>1, <3>2, <3>3, <3>4 DEF WorkerStep
  <2>3. \A v \in Workers : worker_pc'[v] \in AfterDone =>
            worker_pc[v] \in AfterDone /\ worker_task'[v] = worker_task[v]
    BY Zenon, <2>2
  <2> QED
    BY Zenon, <2>1, <2>2, <2>3, SignalsStable
<1> QED
  BY SMTT(30), <1>1, <1>2, <1>3, <1>4, DoneSignals, SendSignals DEF Next

-----------------------------------------------------------------------------
(* HandlersOK. *)

\* No handler comes or goes, and no queue gets its first task.
LEMMA HandlersStable ==
    ASSUME HandlersOK,
           UNCHANGED <<executor_queue, worker_peer, active_peer_request_handlers>>,
           \A p \in Peers : peer_request_queues[p] = <<>> =>
                                peer_request_queues'[p] = <<>>,
           disp_pc' = "submit" <=> disp_pc = "submit",
           disp_pc = "submit" => disp_task' = disp_task,
           \A w \in Workers : worker_pc'[w] = "idle" => worker_pc[w] = "idle"
    PROVE  HandlersOK'
<1>1. disp_pc = "submit" => peer_key(disp_task)' = peer_key(disp_task)
  BY Zenon DEF peer_key
<1>2. (\A w \in Workers : worker_pc[w] = "idle" => worker_peer[w] = NoPeer)'
  BY Zenon DEF HandlersOK
<1>3. (disp_pc = "submit" =>
           /\ \A i \in 1..Len(executor_queue) :
                  executor_queue[i] # peer_key(disp_task)
           /\ \A w \in Workers : worker_peer[w] # peer_key(disp_task))'
  BY Zenon, <1>1 DEF HandlersOK
<1>4. (\A p \in Peers : p \in active_peer_request_handlers <=>
           \/ disp_pc = "submit" /\ peer_key(disp_task) = p
           \/ \E i \in 1..Len(executor_queue) : executor_queue[i] = p
           \/ \E w \in Workers : worker_peer[w] = p)'
  BY Zenon, <1>1 DEF HandlersOK
<1>5. (\A p \in Peers :
           peer_request_queues[p] # <<>> => p \in active_peer_request_handlers)'
  BY Zenon DEF HandlersOK
<1> QED
  BY <1>2, <1>3, <1>4, <1>5 DEF HandlersOK

\* _append_peer_request: the peer of the task becomes active, and the dispatcher
\* goes on to submit a handler exactly when the peer had none.
LEMMA AppendHandlers ==
    ASSUME TypeOK, LocalsOK, HandlersOK, append_peer_request
    PROVE  HandlersOK'
<1> DEFINE k == peer_key(disp_task)
<1>1. disp_task \in Tasks /\ k \in Peers /\ k # NoPeer
  BY Zenon, TaskFacts, NoTaskAssumption DEF append_peer_request, LocalsOK
<1>2. /\ disp_pc = "append"
      /\ active_peer_request_handlers' = active_peer_request_handlers \cup {k}
      /\ UNCHANGED <<executor_queue, worker_pc, worker_peer>>
      /\ IF k \in active_peer_request_handlers THEN disp_pc' = "get"
         ELSE disp_pc' = "submit" /\ disp_task' = disp_task
      /\ \A p \in Peers : p # k => peer_request_queues'[p] = peer_request_queues[p]
  BY Zenon, <1>1 DEF append_peer_request, should_start_worker, workerVars, TypeOK
<1>3. disp_pc' = "submit" =>
          /\ k \notin active_peer_request_handlers
          /\ peer_key(disp_task)' = k
  BY Zenon, <1>2 DEF peer_key
<1> HIDE DEF k
<1>4. (\A w \in Workers : worker_pc[w] = "idle" => worker_peer[w] = NoPeer)'
  BY Zenon, <1>2 DEF HandlersOK
<1>5. (disp_pc = "submit" =>
           /\ \A i \in 1..Len(executor_queue) :
                  executor_queue[i] # peer_key(disp_task)
           /\ \A w \in Workers : worker_peer[w] # peer_key(disp_task))'
  BY Zenon, <1>1, <1>2, <1>3 DEF HandlersOK
<1>6. (\A p \in Peers : p \in active_peer_request_handlers <=>
           \/ disp_pc = "submit" /\ peer_key(disp_task) = p
           \/ \E i \in 1..Len(executor_queue) : executor_queue[i] = p
           \/ \E w \in Workers : worker_peer[w] = p)'
  BY Zenon, <1>1, <1>2, <1>3 DEF HandlersOK
<1>7. (\A p \in Peers :
           peer_request_queues[p] # <<>> => p \in active_peer_request_handlers)'
  BY Zenon, <1>2 DEF HandlersOK
<1> QED
  BY <1>2, <1>4, <1>5, <1>6, <1>7 DEF HandlersOK

\* A handler is put into the executor's queue, by the dispatcher or by the
\* thread that gives it up after a full batch.
LEMMA QueueHandlers ==
    ASSUME TypeOK, LocalsOK, HandlersOK, NEW k \in Peers,
           executor_queue' = Append(executor_queue, k),
           UNCHANGED <<active_peer_request_handlers, peer_request_queues>>,
           \A i \in 1..Len(executor_queue) : executor_queue[i] # k,
           \A v \in Workers : worker_peer'[v] # k,
           \A v \in Workers : worker_peer'[v] \in {worker_peer[v], NoPeer},
           \A v \in Workers : worker_peer[v] \in Peers /\ worker_peer[v] # k =>
               worker_peer'[v] = worker_peer[v],
           \A v \in Workers : worker_pc'[v] = "idle" => worker_peer'[v] = NoPeer,
           disp_pc' = "submit" =>
               disp_pc = "submit" /\ disp_task' = disp_task /\ peer_key(disp_task) # k,
           disp_pc = "submit" /\ peer_key(disp_task) # k => disp_pc' = "submit",
           k \in active_peer_request_handlers
    PROVE  HandlersOK'
<1> DEFINE n == Len(executor_queue)
<1>1. /\ executor_queue \in Seq(Peers) /\ n \in Nat
      /\ Len(executor_queue') = n + 1
      /\ \A i \in 1..n : executor_queue'[i] = executor_queue[i] /\ executor_queue[i] \in Peers
      /\ executor_queue'[n + 1] = k
      /\ \A i \in 1..(n + 1) : i \in 1..n \/ i = n + 1
      /\ 1..n \subseteq 1..(n + 1) /\ n + 1 \in 1..(n + 1)
  BY DEF TypeOK
<1>2. disp_pc' = "submit" => peer_key(disp_task)' = peer_key(disp_task)
  BY Zenon DEF peer_key
<1>3. NoPeer \notin Peers
  BY Zenon, NoTaskAssumption
<1> HIDE DEF n
<1>4. (\A i, j \in 1..Len(executor_queue) :
           executor_queue[i] = executor_queue[j] => i = j)'
  BY <1>1 DEF HandlersOK, n
<1>5. (\A v, w \in Workers :
           worker_peer[v] = worker_peer[w] /\ worker_peer[v] # NoPeer => v = w)'
  BY DEF HandlersOK
<1>6. (\A i \in 1..Len(executor_queue) : \A w \in Workers :
           worker_peer[w] # executor_queue[i])'
  BY <1>1, <1>3 DEF HandlersOK, n
<1>7. (disp_pc = "submit" =>
           /\ \A i \in 1..Len(executor_queue) :
                  executor_queue[i] # peer_key(disp_task)
           /\ \A w \in Workers : worker_peer[w] # peer_key(disp_task))'
  <2> SUFFICES ASSUME disp_pc' = "submit"
               PROVE  /\ \A i \in 1..(n + 1) : executor_queue'[i] # peer_key(disp_task)
                      /\ \A w \in Workers : worker_peer'[w] # peer_key(disp_task)
    BY Zenon, <1>1, <1>2
  <2>1. peer_key(disp_task) # k
    BY Zenon
  <2>2. \A i \in 1..n : executor_queue[i] # peer_key(disp_task)
    BY Zenon DEF HandlersOK, n
  <2>3. peer_key(disp_task) \in Peers
    BY Zenon, TaskFacts DEF LocalsOK
  <2> QED
    BY ZenonT(30), <1>1, <1>3, <2>1, <2>2, <2>3 DEF HandlersOK
<1>8. ASSUME NEW p \in Peers
      PROVE  p \in active_peer_request_handlers' <=>
                 \/ disp_pc' = "submit" /\ peer_key(disp_task)' = p
                 \/ \E i \in 1..(n + 1) : executor_queue'[i] = p
                 \/ \E w \in Workers : worker_peer'[w] = p
  <2>1. CASE p = k
    BY Zenon, <1>1, <2>1
  <2>2. CASE p # k
    <3>1. (disp_pc' = "submit" /\ peer_key(disp_task)' = p)
              <=> (disp_pc = "submit" /\ peer_key(disp_task) = p)
      BY Zenon, <1>2, <2>2
    <3>2. (\E i \in 1..(n + 1) : executor_queue'[i] = p)
              <=> (\E i \in 1..n : executor_queue[i] = p)
      BY Zenon, <1>1, <2>2
    <3>3. (\E w \in Workers : worker_peer'[w] = p)
              <=> (\E w \in Workers : worker_peer[w] = p)
      BY Zenon, <1>3, <2>2
    <3> QED
      BY Zenon, <3>1, <3>2, <3>3 DEF HandlersOK, n
  <2> QED
    BY Zenon, <2>1, <2>2
<1>9. (\A p \in Peers : p \in active_peer_request_handlers <=>
           \/ disp_pc = "submit" /\ peer_key(disp_task) = p
           \/ \E i \in 1..Len(executor_queue) : executor_queue[i] = p
           \/ \E w \in Workers : worker_peer[w] = p)'
  BY Zenon, <1>1, <1>8
<1> QED
  BY Zenon, <1>4, <1>5, <1>6, <1>7, <1>9 DEF HandlersOK

\* A thread takes the handler at the head of the executor's queue.
LEMMA StartHandlers ==
    ASSUME TypeOK, LocalsOK, HandlersOK, NEW w \in Workers, start_handler(w)
    PROVE  HandlersOK'
<1> DEFINE k == Head(executor_queue)
           n == Len(executor_queue)
<1>1. /\ executor_queue \in Seq(Peers) /\ n \in Nat /\ n > 0
      /\ k = executor_queue[1] /\ 1 \in 1..n /\ k \in Peers
      /\ Len(executor_queue') = n - 1
      /\ \A i \in 1..(n - 1) : executor_queue'[i] = executor_queue[i + 1] /\ i + 1 \in 1..n
      /\ \A i \in 1..n : i = 1 \/ (i - 1 \in 1..(n - 1) /\ (i - 1) + 1 = i)
      /\ \A i \in 1..(n - 1) : i + 1 # 1
      /\ \A i, j \in 1..(n - 1) : i + 1 = j + 1 => i = j
  BY DEF start_handler, TypeOK
<1>2. /\ worker_pc[w] = "idle" /\ worker_peer[w] = NoPeer
      /\ worker_peer'[w] = k /\ worker_pc'[w] = "loop"
      /\ \A v \in Workers : v # w =>
             worker_peer'[v] = worker_peer[v] /\ worker_pc'[v] = worker_pc[v]
      /\ UNCHANGED <<disp_pc, disp_task, active_peer_request_handlers,
                     peer_request_queues>>
  BY Zenon DEF start_handler, Goto, dispVars, peerVars, TypeOK, HandlersOK
<1>3. /\ k # NoPeer /\ \A v \in Workers : worker_peer[v] # k
      /\ \A i \in 1..(n - 1) : executor_queue'[i] # k
  BY <1>1, NoTaskAssumption DEF HandlersOK
<1>4. disp_pc = "submit" => peer_key(disp_task) # k
  BY Zenon, <1>1 DEF HandlersOK
<1>5. peer_key(disp_task)' = peer_key(disp_task)
  BY Zenon, <1>2 DEF peer_key
<1> HIDE DEF k, n
<1>6. (\A v \in Workers : worker_pc[v] = "idle" => worker_peer[v] = NoPeer)'
  BY Zenon, <1>2 DEF HandlersOK
<1>7. (\A i, j \in 1..Len(executor_queue) :
           executor_queue[i] = executor_queue[j] => i = j)'
  BY <1>1 DEF HandlersOK, n
<1>8. (\A u, v \in Workers :
           worker_peer[u] = worker_peer[v] /\ worker_peer[u] # NoPeer => u = v)'
  BY <1>2, <1>3 DEF HandlersOK
<1>9. (\A i \in 1..Len(executor_queue) : \A v \in Workers :
           worker_peer[v] # executor_queue[i])'
  BY <1>1, <1>2, <1>3 DEF HandlersOK, n
<1>10. (disp_pc = "submit" =>
           /\ \A i \in 1..Len(executor_queue) :
                  executor_queue[i] # peer_key(disp_task)
           /\ \A v \in Workers : worker_peer[v] # peer_key(disp_task))'
  BY <1>1, <1>2, <1>4, <1>5 DEF HandlersOK, n
<1>11. ASSUME NEW p \in Peers
       PROVE  p \in active_peer_request_handlers' <=>
                 \/ disp_pc' = "submit" /\ peer_key(disp_task)' = p
                 \/ \E i \in 1..(n - 1) : executor_queue'[i] = p
                 \/ \E v \in Workers : worker_peer'[v] = p
  <2>1. CASE p = k
    BY Zenon, <1>1, <1>2, <2>1 DEF HandlersOK, n
  <2>2. CASE p # k
    <3>1. (\E i \in 1..(n - 1) : executor_queue'[i] = p)
              <=> (\E i \in 1..n : executor_queue[i] = p)
      BY <1>1, <2>2
    <3>2. (\E v \in Workers : worker_peer'[v] = p)
              <=> (\E v \in Workers : worker_peer[v] = p)
      BY Zenon, <1>2, <2>2, NoTaskAssumption
    <3> QED
      BY Zenon, <1>2, <1>5, <3>1, <3>2 DEF HandlersOK, n
  <2> QED
    BY Zenon, <2>1, <2>2
<1>12. (\A p \in Peers : p \in active_peer_request_handlers <=>
           \/ disp_pc = "submit" /\ peer_key(disp_task) = p
           \/ \E i \in 1..Len(executor_queue) : executor_queue[i] = p
           \/ \E v \in Workers : worker_peer[v] = p)'
  BY Zenon, <1>1, <1>11
<1>13. (\A p \in Peers :
           peer_request_queues[p] # <<>> => p \in active_peer_request_handlers)'
  BY Zenon, <1>2 DEF HandlersOK
<1> QED
  BY Zenon, <1>6, <1>7, <1>8, <1>9, <1>10, <1>12, <1>13 DEF HandlersOK

\* The handler of a peer whose queue is empty retires, under the lock.
LEMMA RetireHandlers ==
    ASSUME TypeOK, LocalsOK, HandlersOK, NEW w \in Workers, worker_pc[w] = "loop",
           peer_request_queues[worker_peer[w]] = <<>>, Leave(w),
           active_peer_request_handlers' =
               active_peer_request_handlers \ {worker_peer[w]},
           UNCHANGED <<peer_request_queues, executor_queue, disp_pc, disp_task>>
    PROVE  HandlersOK'
<1> DEFINE k == worker_peer[w]
<1>1. /\ k \in Peers /\ k # NoPeer /\ worker_peer'[w] = NoPeer
      /\ \A v \in Workers : v # w =>
             /\ worker_peer'[v] = worker_peer[v] /\ worker_pc'[v] = worker_pc[v]
             /\ worker_peer[v] # k
  <2>1. k \in Peers /\ k # NoPeer
    BY Zenon, NoTaskAssumption DEF LocalsOK
  <2> QED
    BY <2>1 DEF Leave, Goto, TypeOK, HandlersOK
<1>2. /\ \A i \in 1..Len(executor_queue) : executor_queue[i] # k
      /\ disp_pc = "submit" => peer_key(disp_task) # k
  BY <1>1 DEF HandlersOK
<1>3. peer_key(disp_task)' = peer_key(disp_task)
  BY Zenon DEF peer_key
<1>4. \A i \in 1..Len(executor_queue) : executor_queue[i] \in Peers
  BY DEF TypeOK
<1>5. disp_pc = "submit" => peer_key(disp_task) \in Peers
  BY Zenon, TaskFacts DEF LocalsOK
<1>6. (\A v \in Workers : worker_pc[v] = "idle" => worker_peer[v] = NoPeer)'
  BY <1>1 DEF HandlersOK
<1>7. (\A u, v \in Workers :
           worker_peer[u] = worker_peer[v] /\ worker_peer[u] # NoPeer => u = v)'
  BY <1>1 DEF HandlersOK
<1>8. (\A i \in 1..Len(executor_queue) : \A v \in Workers :
           worker_peer[v] # executor_queue[i])'
  BY <1>1, <1>4, NoTaskAssumption DEF HandlersOK
<1>9. (disp_pc = "submit" =>
           /\ \A i \in 1..Len(executor_queue) :
                  executor_queue[i] # peer_key(disp_task)
           /\ \A v \in Workers : worker_peer[v] # peer_key(disp_task))'
  BY <1>1, <1>3, <1>5, NoTaskAssumption DEF HandlersOK
<1>10. (\A p \in Peers : p \in active_peer_request_handlers <=>
           \/ disp_pc = "submit" /\ peer_key(disp_task) = p
           \/ \E i \in 1..Len(executor_queue) : executor_queue[i] = p
           \/ \E v \in Workers : worker_peer[v] = p)'
  <2> SUFFICES ASSUME NEW p \in Peers
               PROVE  p \in active_peer_request_handlers' <=>
                          \/ disp_pc = "submit" /\ peer_key(disp_task) = p
                          \/ \E i \in 1..Len(executor_queue) : executor_queue[i] = p
                          \/ \E v \in Workers : worker_peer'[v] = p
    BY Zenon, <1>3
  <2>1. CASE p = k
    BY Zenon, <1>1, <1>2, <2>1
  <2>2. CASE p # k
    <3>1. (\E v \in Workers : worker_peer'[v] = p)
              <=> (\E v \in Workers : worker_peer[v] = p)
      BY Zenon, <1>1, <2>2, NoTaskAssumption
    <3> QED
      BY Zenon, <2>2, <3>1 DEF HandlersOK
  <2> QED
    BY Zenon, <2>1, <2>2
<1>11. (\A p \in Peers :
           peer_request_queues[p] # <<>> => p \in active_peer_request_handlers)'
  BY Zenon DEF HandlersOK
<1> QED
  BY <1>6, <1>7, <1>8, <1>9, <1>10, <1>11 DEF HandlersOK

\* The dispatcher submits the handler that the peer did not have.
LEMMA SubmitHandlers ==
    ASSUME TypeOK, LocalsOK, HandlersOK, submit_peer_handler
    PROVE  HandlersOK'
<1> DEFINE k == peer_key(disp_task)
<1>1. k \in Peers
  BY Zenon, TaskFacts DEF submit_peer_handler, LocalsOK
<1>2. /\ disp_pc = "submit" /\ disp_pc' = "get"
      /\ executor_queue' = Append(executor_queue, k)
      /\ UNCHANGED <<active_peer_request_handlers, peer_request_queues, worker_pc,
                     worker_peer>>
  BY Zenon DEF submit_peer_handler, peerVars, workerVars
<1>3. /\ \A i \in 1..Len(executor_queue) : executor_queue[i] # k
      /\ \A v \in Workers : worker_peer[v] # k
      /\ k \in active_peer_request_handlers
      /\ \A v \in Workers : worker_pc[v] = "idle" => worker_peer[v] = NoPeer
  BY Zenon, <1>1, <1>2 DEF HandlersOK
<1> QED
  BY Zenon, <1>1, <1>2, <1>3, QueueHandlers

\* The handler that has done a full batch queues itself again.
LEMMA ResubmitHandlers ==
    ASSUME TypeOK, LocalsOK, HandlersOK, NEW w \in Workers, resubmit_handler(w)
    PROVE  HandlersOK'
<1> DEFINE k == worker_peer[w]
<1>1. k \in Peers /\ k # NoPeer
  BY Zenon, NoTaskAssumption DEF resubmit_handler, LocalsOK
<1>2. /\ executor_queue' = Append(executor_queue, k)
      /\ worker_peer'[w] = NoPeer
      /\ \A v \in Workers : v # w =>
             worker_peer'[v] = worker_peer[v] /\ worker_pc'[v] = worker_pc[v]
      /\ UNCHANGED <<disp_pc, disp_task, active_peer_request_handlers,
                     peer_request_queues>>
  BY Zenon DEF resubmit_handler, Leave, Goto, TypeOK, dispVars, peerVars
<1>3. /\ \A i \in 1..Len(executor_queue) : executor_queue[i] # k
      /\ \A v \in Workers : v # w => worker_peer[v] # k
      /\ k \in active_peer_request_handlers
      /\ \A v \in Workers : worker_pc[v] = "idle" => worker_peer[v] = NoPeer
      /\ disp_pc = "submit" => peer_key(disp_task) # k
  BY Zenon, <1>1 DEF HandlersOK
<1>4. /\ \A v \in Workers : worker_peer'[v] # k
      /\ \A v \in Workers : worker_peer'[v] \in {worker_peer[v], NoPeer}
      /\ \A v \in Workers : worker_peer[v] # k => worker_peer'[v] = worker_peer[v]
      /\ \A v \in Workers : worker_pc'[v] = "idle" => worker_peer'[v] = NoPeer
  BY Zenon, <1>1, <1>2, <1>3
<1> QED
  BY Zenon, <1>1, <1>2, <1>3, <1>4, QueueHandlers

\* HandlersOK is kept by every step.
LEMMA HandlersStep ==
    ASSUME TypeOK, LocalsOK, HandlersOK, [Next]_vars
    PROVE  HandlersOK'
<1>1. CASE UNCHANGED vars
  BY Zenon, <1>1, HandlersStable DEF vars, dispVars, peerVars, workerVars
<1>2. CASE MainStep
  <2>1. UNCHANGED <<dispVars, peerVars, executor_queue, workerVars>>
    BY Zenon, <1>2 DEF MainStep, start_load_kv, add_request, get_finished,
                get_and_clear_invalid_block_ids
  <2> QED
    BY Zenon, <2>1, HandlersStable DEF dispVars, peerVars, workerVars
<1>3. CASE mark_request_task_submitted
  BY Zenon, <1>3, HandlersStable DEF mark_request_task_submitted, peerVars, workerVars
<1>4. ASSUME NEW w \in Workers, WorkerStep(w) PROVE HandlersOK'
  <2>1. CASE pop_peer_request(w)
    <3> DEFINE p == worker_peer[w]
    <3>1. CASE peer_request_queues[p] = <<>>
      BY Zenon, <2>1, <3>1, RetireHandlers DEF pop_peer_request, dispVars
    <3>2. CASE peer_request_queues[p] # <<>>
      <4>1. p \in Peers
        BY Zenon, <2>1 DEF pop_peer_request, LocalsOK
      <4>2. \A q \in Peers : peer_request_queues[q] = <<>> =>
                                 peer_request_queues'[q] = <<>>
        BY <2>1, <3>2, <4>1 DEF pop_peer_request, TypeOK
      <4>3. \A v \in Workers : worker_pc'[v] = "idle" => worker_pc[v] = "idle"
        BY Zenon, <2>1, <3>2 DEF pop_peer_request, Goto, TypeOK
      <4>4. UNCHANGED <<executor_queue, worker_peer, active_peer_request_handlers,
                        disp_pc, disp_task>>
        BY Zenon, <2>1, <3>2 DEF pop_peer_request, dispVars
      <4> QED
        BY Zenon, <4>2, <4>3, <4>4, HandlersStable
    <3> QED
      BY Zenon, <3>1, <3>2
  <2>2. CASE end_batch(w)
    <3>1. CASE should_resubmit(worker_peer[w])
      <4>1. /\ UNCHANGED <<executor_queue, worker_peer, active_peer_request_handlers,
                           disp_pc, disp_task, peer_request_queues>>
            /\ \A v \in Workers : worker_pc'[v] = "idle" => worker_pc[v] = "idle"
        BY Zenon, <2>2, <3>1 DEF end_batch, Goto, TypeOK, dispVars
      <4> QED
        BY Zenon, <4>1, HandlersStable
    <3>2. CASE ~should_resubmit(worker_peer[w])
      BY Zenon, <2>2, <3>2, RetireHandlers DEF end_batch, should_resubmit, dispVars
    <3> QED
      BY Zenon, <3>1, <3>2
  <2>3. CASE UNCHANGED <<executor_queue, worker_peer, peerVars, dispVars>> /\
             \A v \in Workers : worker_pc'[v] = "idle" => worker_pc[v] = "idle"
    BY ZenonT(30), <2>3, HandlersStable DEF peerVars, dispVars
  <2>4. CASE check_failed(w) \/ transfer_kv_cache(w) \/ reformat_kv_cache(w)
             \/ transfer_fails(w)
    BY ZenonT(30), <2>3, <2>4 DEF check_failed, transfer_kv_cache, reformat_kv_cache,
                transfer_fails, TransferFrame, Goto, TypeOK
  <2>5. CASE mark_request_task_done(w)
    BY Zenon, <2>3, <2>5 DEF mark_request_task_done, Goto, TypeOK
  <2>6. CASE finish_request(w) \/ clear_request(w)
    BY Zenon, <2>3, <2>6 DEF finish_request, clear_request, Goto, TypeOK
  <2>7. CASE send_done_signal_to_free_remote_port(w) \/ send_done_recv_signal(w)
    BY Zenon, <2>3, <2>7 DEF send_done_signal_to_free_remote_port, send_done_recv_signal,
                Goto, TypeOK
  <2> QED
    BY Zenon, <1>4, <2>1, <2>2, <2>4, <2>5, <2>6, <2>7, StartHandlers, ResubmitHandlers DEF WorkerStep
<1> QED
  BY Zenon, <1>1, <1>2, <1>3, <1>4, AppendHandlers, SubmitHandlers DEF Next, DispatchStep
=============================================================================
