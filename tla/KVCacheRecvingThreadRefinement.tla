------------------- MODULE KVCacheRecvingThreadRefinement -------------------
(***************************************************************************)
(* KVCacheRecvingThread implements LoadContract, for every number of       *)
(* requests, peers, tasks and executor threads: the initial states map to  *)
(* initial states, and every step to a step of the contract or a stutter.  *)
(***************************************************************************)
EXTENDS KVCacheRecvingThreadProofs, KVCacheRecvingThreadContract

-----------------------------------------------------------------------------
(* The refinement of LoadContract. *)

\* What LoadContract sees changes only when a task ends or fails, when a load
\* begins and when the scheduler is told something.
LEMMA Unseen ==
    ASSUME \A t \in Tasks : stage[t] = "ended" <=> stage'[t] = "ended",
           \A t \in Tasks : stage[t] = "ended" => (t \in pulled <=> t \in pulled'),
           UNCHANGED <<failed, reported, reported_invalid>>,
           main_pc' = "errors" <=> main_pc = "errors",
           \A r \in Requests : Begun(r)' <=> Begun(r)
    PROVE  UNCHANGED Contract!vars
<1>1. \A r \in Requests : AllEnded(r)' <=> AllEnded(r)
  BY ZenonT(30), RequestFacts DEF AllEnded
<1>2. Load' = Load
  BY Zenon, <1>1 DEF Load, LoadOf
<1>3. Lost' = Lost
  BY Zenon DEF Lost
<1>4. Written' = Written
  BY Zenon DEF Written, Filling
<1> QED
  BY Zenon, <1>2, <1>3, <1>4 DEF Contract!vars

\* start_load_kv begins the loads of the batch.
LEMMA StartBegins ==
    ASSUME Inductive, NEW B \in SUBSET Requests, start_load_kv(B)
    PROVE  Contract!Begin(B)
<1>1. /\ main_pc = "idle" /\ main_pc' = "loading" /\ batch = {}
      /\ UNCHANGED <<stage, pulled, failed, reported, reported_invalid>>
      /\ \A r \in B : stage[FirstTask(r)] = "none"
  BY Zenon DEF start_load_kv, Inductive, LocalsOK, historyVars, reportVars
<1>2. PICK q \in B : loading' = FirstTask(q) /\ batch' = B \ {q}
  BY Zenon DEF start_load_kv
<1>3. FirstTask(q).req = q
  BY Zenon DEF FirstTask
<1>4. \A r \in Requests : AllEnded(r)' <=> AllEnded(r)
  BY Zenon, <1>1 DEF AllEnded
<1>5. ASSUME NEW r \in B
      PROVE  r \in Requests /\ ~AllEnded(r) /\ r \notin reported /\ ~Begun(r) /\ Begun(r)'
  <2>1. FirstTask(r) \in TasksOf(r)
    BY ZenonT(30), RequestFacts
  <2>2. ~AllEnded(r) /\ r \notin reported
    BY Zenon, <1>1, <2>1, Announced DEF AllEnded, Inductive
  <2> QED
    BY Zenon, <1>1, <1>2, <1>3, <2>2 DEF Begun
<1>6. ASSUME NEW r \in Requests, r \notin B
      PROVE  Begun(r)' <=> Begun(r)
  BY Zenon, <1>1, <1>2, <1>3, <1>6 DEF Begun
<1>7. \A r \in B : Load[r] = "idle"
  BY Zenon, <1>5 DEF Load, LoadOf
<1>8. Load' = [r \in Requests |-> IF r \in B THEN "loading" ELSE Load[r]]
  BY Zenon, <1>1, <1>4, <1>5, <1>6 DEF Load, LoadOf
<1>9. Lost' = Lost /\ Written' = Written
  BY Zenon, <1>1 DEF Lost, Written
<1> QED
  BY Zenon, <1>1, <1>7, <1>8, <1>9 DEF Contract!Begin

\* add_request goes on with what start_load_kv has begun.
LEMMA AddUnseen ==
    ASSUME Inductive, add_request
    PROVE  UNCHANGED Contract!vars
<1>1. /\ loading \in Tasks /\ main_pc = "loading" /\ main_pc' # "errors"
      /\ stage[loading] = "none" /\ loading.idx \in Nat \ {0}
      /\ \A t \in Tasks : stage'[t] = IF t = loading THEN "queued" ELSE stage[t]
      /\ UNCHANGED <<pulled, failed, reported, reported_invalid>>
  <2>1. loading \in Tasks
    BY Zenon DEF add_request, Inductive, LocalsOK
  <2>2. main_pc = "loading" /\ stage[loading] = "none"
    BY Zenon DEF add_request, Inductive, LoadOrder
  <2>3. main_pc' # "errors"
    BY ZenonT(30), <2>2 DEF add_request
  <2>4. loading.idx \in Nat \ {0}
    <3>1. loading.idx \in 1..NumTasks(loading.req) /\ NumTasks(loading.req) \in Nat
      BY Zenon, <2>1, TaskFacts
    <3> QED
      BY <3>1
  <2>5. \A t \in Tasks : stage'[t] = IF t = loading THEN "queued" ELSE stage[t]
    BY Zenon, <2>1 DEF add_request, Inductive, TypeOK
  <2>6. UNCHANGED <<pulled, failed, reported, reported_invalid>>
    BY Zenon DEF add_request, reportVars
  <2> QED
    BY Zenon, <2>1, <2>2, <2>3, <2>4, <2>5, <2>6
<1>2. ASSUME NEW r \in Requests PROVE Begun(r)' <=> Begun(r)
  <2>1. FirstTask(r) \in Tasks /\ FirstTask(r).req = r /\ FirstTask(r).idx = 1
    BY ZenonT(30), RequestFacts DEF FirstTask
  <2>2. loading.req = r => stage'[FirstTask(r)] # "none"
    <3> SUFFICES ASSUME loading.req = r, FirstTask(r) # loading
                 PROVE  stage[FirstTask(r)] # "none"
      BY Zenon, <1>1, <2>1
    <3>1. 1 < loading.idx
      BY <1>1, <2>1, TaskFacts
    <3>2. FirstTask(r) \in TasksOf(loading.req)
      BY Zenon, <2>1, TaskFacts
    <3> QED
      BY Zenon, <1>1, <2>1, <3>1, <3>2 DEF Inductive, LoadOrder
  <2>3. /\ batch' \subseteq batch
        /\ \A q \in batch : q \in batch' \/ (main_pc' = "loading" /\ loading' = FirstTask(q))
        /\ main_pc' = "loading" =>
               loading'.req = loading.req \/ \E q \in batch : loading' = FirstTask(q)
    <3>1. CASE ~all_task_done(loading)
      <4>1. UNCHANGED <<main_pc, batch>> /\ loading' = [loading EXCEPT !.idx = @ + 1]
        BY Zenon, <3>1 DEF add_request
      <4>2. loading = [req |-> loading.req, idx |-> loading.idx]
        BY Zenon, <1>1, TaskFacts
      <4> QED
        BY Zenon, <4>1, <4>2
    <3>2. CASE all_task_done(loading)
      BY Zenon, <1>1, <3>2 DEF add_request
    <3> QED
      BY Zenon, <3>1, <3>2
  <2>4. \A q \in batch : FirstTask(q).req = q
    BY Zenon DEF FirstTask
  <2> QED
    BY <1>1, <2>1, <2>2, <2>3, <2>4 DEF Begun
<1>3. /\ \A t \in Tasks : stage[t] = "ended" <=> stage'[t] = "ended"
      /\ main_pc' = "errors" <=> main_pc = "errors"
  BY Zenon, <1>1
<1> QED
  BY ZenonT(30), <1>1, <1>2, <1>3, Unseen

\* get_finished reports loads that have ended and were not reported before.
LEMMA FinishedReports ==
    ASSUME Inductive, get_finished
    PROVE  Contract!Report(finished_requests)
<1>1. finished_or_expired(0) = finished_requests
  BY Zenon, NoneExpired DEF Inductive, LocalsOK
<1>2. /\ main_pc = "idle" /\ main_pc' = "errors"
      /\ reported' = reported \cup finished_requests
      /\ UNCHANGED <<batch, loading, stage, pulled, failed, reported_invalid>>
  BY Zenon, <1>1 DEF get_finished, historyVars
<1>3. \A r \in Requests : (AllEnded(r)' <=> AllEnded(r)) /\ (Begun(r)' <=> Begun(r))
  BY Zenon, <1>2 DEF AllEnded, Begun
<1>4. \A r \in finished_requests : r \in Requests /\ AllEnded(r) /\ r \notin reported
  BY Zenon, Announced DEF Inductive, TrackedOK
<1>5. \A r \in finished_requests : Load[r] = "ended"
  BY Zenon, <1>4 DEF Load, LoadOf
<1>6. Load' = [r \in Requests |-> IF r \in finished_requests THEN "reported" ELSE Load[r]]
  BY Zenon, <1>2, <1>3 DEF Load, LoadOf
<1>7. Lost' = Lost /\ Written' = Written
  BY Zenon, <1>2 DEF Lost, Written
<1> QED
  BY Zenon, <1>2, <1>5, <1>6, <1>7 DEF Contract!Report

\* get_and_clear_invalid_block_ids tells of every block lost so far.
LEMMA ErrorsTell ==
    ASSUME BLOCK_SIZE_SCALE = 1, Inductive, get_and_clear_invalid_block_ids
    PROVE  Contract!Tell
<1>1. /\ main_pc = "errors" /\ main_pc' = "idle"
      /\ reported_invalid' = reported_invalid \cup invalid_block_ids
      /\ UNCHANGED <<batch, loading, stage, pulled, failed, reported>>
  BY Zenon DEF get_and_clear_invalid_block_ids, historyVars
<1>2. reported_invalid' = Lost
  <2>1. \A t \in failed : local_block_ids(t) = logical_block_ids(t)
    BY Zenon, SameIds DEF Inductive, TypeOK
  <2> QED
    BY Zenon, <1>1, <2>1 DEF Inductive, FailuresOK, Lost
<1>3. \A r \in Requests : (AllEnded(r)' <=> AllEnded(r)) /\ (Begun(r)' <=> Begun(r))
  BY Zenon, <1>1 DEF AllEnded, Begun
<1>4. Load' = Load
  BY Zenon, <1>1, <1>3 DEF Load, LoadOf
<1>5. Lost' = Lost /\ Written' = Written
  BY Zenon, <1>1 DEF Lost, Written
<1> QED
  BY Zenon, <1>1, <1>2, <1>4, <1>5 DEF Contract!Tell

\* A block that was written has lost none of its pulls.
LEMMA WrittenNotLost ==
    ASSUME failed' \subseteq Tasks
    PROVE  Written' \cap Lost' = {}
BY Zenon DEF Written, Lost, Filling

\* The load of a task that is under way has begun and has not ended.
LEMMA UnderWay ==
    ASSUME Inductive, NEW t \in Tasks, stage[t] = "submitted"
    PROVE  t.req \in Requests /\ ~AllEnded(t.req) /\ Load[t.req] = "loading"
<1>1. t.req \in Requests /\ ~AllEnded(t.req)
  BY Zenon, TaskFacts, NotAllEnded
<1>2. t.req \notin reported
  BY Zenon, <1>1, Announced DEF Inductive
<1>3. Begun(t.req)
  <2>1. FirstTask(t.req) \in Tasks
    BY ZenonT(30), <1>1, RequestFacts
  <2>5. FirstTask(t.req).req = t.req /\ FirstTask(t.req).idx = 1
    BY Zenon DEF FirstTask
  <2>2. t.idx \in Nat /\ (t.idx = 1 \/ 1 < t.idx)
    BY TaskFacts
  <2>3. t.idx = 1 => t = FirstTask(t.req)
    BY Zenon, TaskFacts DEF FirstTask
  <2>4. stage[FirstTask(t.req)] # "none"
    BY Zenon, <2>1, <2>5, <2>2, <2>3 DEF Inductive, LoadOrder
  <2> QED
    BY Zenon, <2>4 DEF Begun
<1> QED
  BY Zenon, <1>1, <1>2, <1>3 DEF Load, LoadOf

\* The blocks of a task that fails are lost to its request's load.
LEMMA FailProgress ==
    ASSUME Inductive, NEW w \in Workers, worker_pc[w] \in BeforeDone,
           failed' = failed \cup {worker_task[w]},
           UNCHANGED <<mainVars, stage, pulled, reported, reported_invalid>>
    PROVE  Contract!Progress(worker_task[w].req) /\ worker_task[w].req \in Requests
<1> DEFINE t == worker_task[w]
           r == worker_task[w].req
<1>1. t \in Tasks /\ stage[t] = "submitted" /\ t \in TasksOf(r)
  BY Zenon, TaskFacts DEF Inductive, LocalsOK, OnePlace, HandledApart, Busy
<1>2. r \in Requests /\ Load[r] = "loading"
  BY Zenon, <1>1, UnderWay
<1>3. Load' = Load
  BY Zenon DEF Load, LoadOf, AllEnded, Begun, mainVars
<1>4. Written' = Written
  <2>1. \A b : t \in Filling(b) => b \notin Written /\ b \notin Written'
    BY Zenon, <1>1 DEF Written, Filling
  <2> QED
    BY Zenon, <2>1 DEF Written
<1>5. Lost' = Lost \cup logical_block_ids(t)
  BY Zenon DEF Lost
<1>6. logical_block_ids(t) \subseteq BlocksOf(r)
  BY Zenon, <1>1 DEF BlocksOf
<1>7. Written' \cap Lost' = {}
  BY Zenon, <1>1, WrittenNotLost DEF Inductive, TypeOK
<1>8. (main_pc = "errors") <=> (main_pc' = "errors")
  BY Zenon DEF mainVars
<1> HIDE DEF t, r
<1>9. Contract!Progress(r)
  BY ZenonT(30), <1>2, <1>3, <1>4, <1>5, <1>6, <1>7, <1>8 DEF Contract!Progress
<1> QED
  BY Zenon, <1>2, <1>9 DEF r

\* _mark_request_task_done may complete blocks of its request, and the load ends
\* with the last task, when no block is left.
LEMMA DoneProgress ==
    ASSUME BlocksApart, Inductive, Inductive', NEW w \in Workers,
           mark_request_task_done(w)
    PROVE  Contract!Progress(worker_task[w].req) /\ worker_task[w].req \in Requests
<1>0. PICK t \in Tasks : t = worker_task[w]
  BY Zenon, DoneFacts DEF Inductive
<1> DEFINE r == t.req
<1>1. /\ stage[t] = "submitted" /\ t \in TasksOf(r)
      /\ \A u \in Tasks : stage'[u] = IF u = t THEN "ended" ELSE stage[u]
  BY Zenon, <1>0, DoneFacts DEF Inductive, Submitted
<1>2. UNCHANGED <<mainVars, pulled, failed, reported, reported_invalid>>
  BY Zenon DEF mark_request_task_done, reportVars
<1>3. r \in Requests /\ Load[r] = "loading" /\ ~AllEnded(r)
  BY Zenon, <1>1, UnderWay
<1> SUFFICES Contract!Progress(r)
  BY Zenon, <1>0, <1>3
<1> HIDE DEF r
<1>4. \A q \in Requests : \A u \in TasksOf(q) : u \in Tasks /\ u.req = q
  BY ZenonT(30), RequestFacts
<1>5. \A q \in Requests : q # r => (AllEnded(q)' <=> AllEnded(q))
  BY Zenon, <1>1, <1>4 DEF AllEnded, r
<1>6. \A q \in Requests : Begun(q)' <=> Begun(q)
  <2>1. \A q \in Requests : FirstTask(q) \in Tasks
    BY ZenonT(30), RequestFacts
  <2> QED
    BY Zenon, <1>1, <1>2, <2>1 DEF Begun, mainVars
<1>7. r \notin reported /\ Begun(r)
  <2>1. LoadOf(r) = "loading"
    BY Zenon, <1>3 DEF Load
  <2> QED
    BY Zenon, <2>1 DEF LoadOf
<1>a. /\ Written \subseteq Written' /\ Lost' = Lost
      /\ Written' \ Written \subseteq BlocksOf(r)
      /\ Written' \cap Lost' = {}
      /\ (main_pc = "errors") <=> (main_pc' = "errors")
  <2>1. Lost' = Lost
    BY Zenon, <1>2 DEF Lost
  <2>2. Written \subseteq Written'
    BY Zenon, <1>1, <1>2 DEF Written, Filling
  <2>3. \A b : t \in Filling(b) => b \in BlocksOf(r)
    BY Zenon, <1>1 DEF Filling, BlocksOf
  <2>4. Written' \ Written \subseteq BlocksOf(r)
    BY Zenon, <1>1, <1>2, <2>3 DEF Written, Filling
  <2>5. Written' \cap Lost' = {}
    BY Zenon, <1>2, WrittenNotLost DEF Inductive, TypeOK
  <2> QED
    BY Zenon, <1>2, <2>1, <2>2, <2>4, <2>5 DEF mainVars
<1>8. CASE AllEnded(r)'
  <2>1. Load' = [Load EXCEPT ![r] = "ended"]
    <3>1. \A q \in Requests : LoadOf(q)' = IF q = r THEN "ended" ELSE LoadOf(q)
      BY Zenon, <1>2, <1>5, <1>6, <1>7, <1>8 DEF LoadOf
    <3> QED
      BY Zenon, <3>1 DEF Load
  <2>2. BlocksOf(r) \subseteq Written' \cup Lost'
    <3> SUFFICES ASSUME NEW b \in BlocksOf(r), b \notin Lost'
                 PROVE  b \in Written'
      BY Zenon
    <3>1. \A u \in Filling(b) : u \in TasksOf(r)
      <4> SUFFICES ASSUME NEW u \in Filling(b) PROVE u \in TasksOf(r)
        BY Zenon
      <4>1. u \in Tasks /\ u.req \in Requests /\ u \in TasksOf(u.req)
        BY Zenon, TaskFacts DEF Filling
      <4>2. b \in BlocksOf(u.req)
        BY Zenon, <4>1 DEF Filling, BlocksOf
      <4> QED
        BY Zenon, <1>3, <4>1, <4>2 DEF BlocksApart
    <3>2. \A u \in Filling(b) : u \in Tasks /\ stage'[u] = "ended"
      BY Zenon, <1>4, <1>3, <1>8, <3>1 DEF AllEnded
    <3>3. \A u \in Filling(b) : u \in pulled' \cup failed'
      BY Zenon, <3>2 DEF Inductive, EndedOK
    <3>4. \A u \in Filling(b) : u \notin failed'
      BY Zenon DEF Lost, Filling
    <3> QED
      BY Zenon, <1>3, <3>2, <3>3, <3>4 DEF Written
  <2> QED
    BY Zenon, <1>2, <1>3, <1>a, <2>1, <2>2 DEF Contract!Progress
<1>9. CASE ~AllEnded(r)'
  <2>1. Load' = Load
    <3>1. \A q \in Requests : LoadOf(q)' = LoadOf(q)
      BY Zenon, <1>2, <1>3, <1>5, <1>6, <1>7, <1>9 DEF LoadOf
    <3> QED
      BY Zenon, <3>1 DEF Load
  <2> QED
    BY Zenon, <1>2, <1>3, <1>a, <2>1 DEF Contract!Progress
<1> QED
  BY Zenon, <1>8, <1>9

\* Whatever a thread of the executor does is progress of the load it works on,
\* or nothing that the scheduler can see.
LEMMA WorkerProgress ==
    ASSUME BlocksApart, Inductive, Inductive', NEW w \in Workers, WorkerStep(w)
    PROVE  (\E r \in Requests : Contract!Progress(r)) \/ UNCHANGED Contract!vars
<1>1. /\ UNCHANGED mainVars
      /\ UNCHANGED <<reported, reported_invalid>>
  BY Zenon, WorkerStage, WorkerTracker DEF Inductive
<1>2. CASE mark_request_task_done(w)
  BY Zenon, <1>2, DoneProgress
<1>3. CASE ~mark_request_task_done(w)
  <2>1. UNCHANGED stage
    BY Zenon, <1>3, WorkerCounts DEF Inductive
  <2>2. \/ /\ worker_pc[w] \in BeforeDone
           /\ failed' = failed \cup {worker_task[w]} /\ pulled' = pulled
        \/ /\ worker_pc[w] \in BeforeDone
           /\ failed' = failed /\ pulled' = pulled \cup {worker_task[w]}
        \/ UNCHANGED <<failed, pulled>>
    <3>1. CASE check_failed(w) \/ transfer_fails(w)
      BY Zenon, <3>1 DEF check_failed, transfer_fails, BeforeDone
    <3>2. CASE transfer_kv_cache(w) \/ reformat_kv_cache(w)
      BY Zenon, <3>2 DEF transfer_kv_cache, reformat_kv_cache, BeforeDone
    <3>3. CASE \/ start_handler(w) \/ pop_peer_request(w) \/ end_batch(w)
               \/ resubmit_handler(w) \/ finish_request(w) \/ clear_request(w)
               \/ send_done_signal_to_free_remote_port(w) \/ send_done_recv_signal(w)
      BY ZenonT(30), <3>3 DEF start_handler, pop_peer_request, end_batch,
         resubmit_handler, finish_request, clear_request,
         send_done_signal_to_free_remote_port, send_done_recv_signal, historyVars
    <3> QED
      BY Zenon, <1>3, <3>1, <3>2, <3>3 DEF WorkerStep
  <2>3. CASE worker_pc[w] \in BeforeDone
             /\ failed' = failed \cup {worker_task[w]} /\ pulled' = pulled
    BY Zenon, <1>1, <2>1, <2>3, FailProgress
  <2>4. CASE \/ worker_pc[w] \in BeforeDone
                /\ failed' = failed /\ pulled' = pulled \cup {worker_task[w]}
             \/ UNCHANGED <<failed, pulled>>
    <3>1. worker_pc[w] \in BeforeDone => stage[worker_task[w]] = "submitted"
      BY Zenon DEF Inductive, OnePlace, HandledApart
    <3>2. \A t \in Tasks : stage[t] = "ended" => (t \in pulled <=> t \in pulled')
      BY Zenon, <2>4, <3>1
    <3>3. \A r \in Requests : Begun(r)' <=> Begun(r)
      BY Zenon, <1>1, <2>1 DEF Begun, mainVars
    <3> QED
      BY ZenonT(30), <1>1, <2>1, <2>4, <3>2, <3>3, Unseen DEF mainVars
  <2> QED
    BY Zenon, <2>2, <2>3, <2>4
<1> QED
  BY Zenon, <1>2, <1>3

\* The dispatching thread is invisible.
LEMMA DispatchUnseen ==
    ASSUME Inductive, DispatchStep
    PROVE  UNCHANGED Contract!vars
<1>1. UNCHANGED mainVars
  BY Zenon, DispatchStage DEF Inductive
<1>2. \A t \in Tasks : /\ stage[t] = "ended" <=> stage'[t] = "ended"
                       /\ stage[t] = "none" <=> stage'[t] = "none"
  BY Zenon, DispatchStage DEF Inductive, TypeOK
<1>3. UNCHANGED <<pulled, failed, reported, reported_invalid>>
  BY Zenon DEF DispatchStep, mark_request_task_submitted, append_peer_request,
         submit_peer_handler, reportVars, historyVars
<1>4. \A r \in Requests : FirstTask(r) \in Tasks
  BY ZenonT(30), RequestFacts
<1>5. \A r \in Requests : Begun(r)' <=> Begun(r)
  BY Zenon, <1>1, <1>2, <1>4 DEF Begun, mainVars
<1> QED
  BY Zenon, <1>1, <1>2, <1>3, <1>5, Unseen DEF mainVars

\* Before the first batch nothing is loading, written or lost.
LEMMA InitContract == Init => Contract!Init
<1> SUFFICES ASSUME Init PROVE Contract!Init
  BY Zenon
<1>1. \A r \in Requests : ~AllEnded(r) /\ ~Begun(r) /\ r \notin reported
  <2> SUFFICES ASSUME NEW r \in Requests
               PROVE  ~AllEnded(r) /\ ~Begun(r) /\ r \notin reported
    BY Zenon
  <2>1. FirstTask(r) \in TasksOf(r) /\ FirstTask(r) \in Tasks
    BY ZenonT(30), RequestFacts
  <2>2. stage[FirstTask(r)] = "none"
    BY Zenon, <2>1 DEF Init
  <2> QED
    BY Zenon, <2>1, <2>2 DEF Init, AllEnded, Begun
<1>2. Load = [r \in Requests |-> "idle"]
  BY Zenon, <1>1 DEF Load, LoadOf
<1>3. Lost = {}
  BY Zenon DEF Init, Lost
<1>4. Written = {}
  <2> SUFFICES ASSUME NEW b \in Written PROVE FALSE
    BY Zenon
  <2>1. PICK r \in Requests : b \in BlocksOf(r)
    BY Zenon DEF Written
  <2>2. PICK t \in TasksOf(r) : b \in logical_block_ids(t)
    BY Zenon, <2>1 DEF BlocksOf
  <2>3. t \in Tasks
    BY ZenonT(30), RequestFacts
  <2>4. t \in Filling(b)
    BY Zenon, <2>2, <2>3 DEF Filling
  <2> QED
    BY Zenon, <2>4 DEF Written, Init
<1> QED
  BY Zenon, <1>2, <1>3, <1>4 DEF Init, Contract!Init

\* Every step of the receiving thread is a step of LoadContract, or changes
\* nothing that it sees.
LEMMA NextContract ==
    ASSUME BLOCK_SIZE_SCALE = 1, BlocksApart, Inductive, Inductive', [Next]_vars
    PROVE  [Contract!Next]_(Contract!vars)
<1>1. CASE UNCHANGED vars
  BY Zenon, <1>1, Unseen
  DEF vars, mainVars, reportVars, historyVars, Begun
<1>2. CASE MainStep
  <2>1. finished_requests \in SUBSET Requests
    BY Zenon DEF Inductive, TypeOK, TrackerTypeOK
  <2>2. (\E B \in SUBSET Requests : start_load_kv(B)) => Contract!Next
    BY Zenon, StartBegins DEF Contract!Next
  <2>3. get_finished => Contract!Next
    BY Zenon, <2>1, FinishedReports DEF Contract!Next
  <2>4. get_and_clear_invalid_block_ids => Contract!Next
    BY Zenon, ErrorsTell DEF Contract!Next
  <2> QED
    BY Zenon, <1>2, <2>2, <2>3, <2>4, AddUnseen DEF MainStep
<1>3. ASSUME NEW w \in Workers, WorkerStep(w)
      PROVE  Contract!Next \/ UNCHANGED Contract!vars
  BY Zenon, <1>3, WorkerProgress DEF Contract!Next
<1> QED
  BY Zenon, <1>1, <1>2, <1>3, DispatchUnseen DEF Next

\* The receiving thread does to the scheduler and the blocks only what
\* LoadContract allows, for every number of requests, tasks, peers and threads,
\* where kernel blocks and logical blocks are the same (the reported ids are
\* kernel block ids) and no two loads fill the same block.
THEOREM Refinement ==
    ASSUME BLOCK_SIZE_SCALE = 1, BlocksApart
    PROVE  Spec => ImplementsContract
<1>1. Inductive /\ Inductive' /\ [Next]_vars => [Contract!Next]_(Contract!vars)
  BY Zenon, NextContract
<1> QED
  BY <1>1, InitContract, Invariance, PTL DEF Spec, ImplementsContract, Contract!Spec
=============================================================================
