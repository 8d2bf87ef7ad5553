--------------------- MODULE KVCacheRecvingThreadProofs ---------------------
(***************************************************************************)
(* CountsOK, MarkersOK and ClosingOK of KVCacheRecvingThread: a step of    *)
(* the receiving thread keeps request_task_counts equal to the number of   *)
(* tasks under way, and the thread that ends the last task of a request    *)
(* knows that it does.  Then the inductive invariant and the theorems that *)
(* follow from it, for every number of requests, peers, tasks and executor *)
(* threads.                                                                *)
(***************************************************************************)
EXTENDS KVCacheRecvingThreadHandlers, FiniteSetTheorems

-----------------------------------------------------------------------------
\* A request has finitely many tasks.
LEMMA FinitelyMany ==
    ASSUME NEW r \in Requests, NEW S \in SUBSET TasksOf(r)
    PROVE  IsFiniteSet(S)
<1> DEFINE n == NumTasks(r)
           f == [i \in 1..n |-> [req |-> r, idx |-> i]]
<1>1. n \in Nat
  BY ZenonT(30), RequestFacts
<1>2. IsFiniteSet(1..n)
  BY <1>1, FS_Interval
<1>3. f \in Surjection(1..n, TasksOf(r))
  BY Zenon DEF Surjection, TasksOf
<1>4. IsFiniteSet(TasksOf(r))
  BY Zenon, <1>2, <1>3, FS_Surjection
<1> QED
  BY Zenon, <1>4, FS_Subset

\* In the initial state nothing is submitted and nothing is counted.
LEMMA InitCounts ==
    ASSUME Init
    PROVE  CountsOK
<1> SUFFICES ASSUME NEW r \in Requests
             PROVE  /\ request_task_counts[r] = Cardinality(Submitted(r))
                    /\ r \notin finished_request_markers
  BY ZenonT(30) DEF CountsOK
<1>1. \A t \in TasksOf(r) : t \in Tasks
  BY ZenonT(30), RequestFacts
<1>2. Submitted(r) = {}
  BY Zenon, <1>1 DEF Init, Submitted
<1> QED
  BY Zenon, <1>2, FS_EmptySet DEF Init

\* The counts are right as long as no task is submitted or ends.
LEMMA CountsStable ==
    ASSUME CountsOK, UNCHANGED countVars,
           \A t \in Tasks : stage[t] = "submitted" <=> stage'[t] = "submitted",
           \A t \in Tasks : stage[t] = "ended" => stage'[t] = "ended"
    PROVE  CountsOK'
<1> SUFFICES ASSUME NEW r \in Requests
             PROVE  /\ request_task_counts'[r] = Cardinality(Submitted(r))'
                    /\ r \in finished_request_markers' =>
                           \A t \in TasksOf(r) : stage'[t] \in {"submitted", "ended"}
  BY Zenon DEF CountsOK
<1>1. \A t \in TasksOf(r) : t \in Tasks
  BY ZenonT(30), RequestFacts
<1>2. Submitted(r)' = Submitted(r)
  BY Zenon, <1>1 DEF Submitted
<1> QED
  BY Zenon, <1>1, <1>2 DEF CountsOK, countVars

\* The dispatcher takes the tasks of a request in their order: those before the
\* one it takes have been submitted.
LEMMA HeadIsNext ==
    ASSUME TypeOK, LocalsOK, LoadOrder, QueueOrder, mark_request_task_submitted,
           NEW t \in Tasks, t.req = Head(request_queue).req,
           t.idx < Head(request_queue).idx
    PROVE  stage[t] \in {"submitted", "ended"}
<1> DEFINE q == request_queue
           h == Head(request_queue)
<1>1. /\ q \in Seq(Tasks) /\ 1 \in 1..Len(q) /\ h = q[1] /\ h \in Tasks
  BY DEF mark_request_task_submitted, TypeOK
<1>2. stage[h] = "queued" /\ h.idx \in Nat /\ t.idx \in Nat
  BY <1>1, TaskFacts DEF QueueOrder
<1>3. stage[t] # "none"
  BY Zenon, <1>1, <1>2 DEF LoadOrder
<1>4. stage[t] # "queued"
  <2> SUFFICES ASSUME stage[t] = "queued" PROVE FALSE
    BY Zenon
  <2>1. PICK j \in 1..Len(q) : q[j] = t
    BY Zenon DEF QueueOrder
  <2>2. 1 < j
    BY <1>1, <1>2, <2>1
  <2>3. h.idx < t.idx
    BY Zenon, <1>1, <2>1, <2>2 DEF QueueOrder
  <2> QED
    BY <1>2, <2>3
<1> QED
  BY Zenon, <1>3, <1>4 DEF TypeOK

\* One more task of its request is submitted; when it is the last one, all the
\* others have been submitted before it.
LEMMA SubmitCounts ==
    ASSUME TypeOK, LocalsOK, LoadOrder, QueueOrder, CountsOK,
           mark_request_task_submitted
    PROVE  CountsOK'
<1> DEFINE q == request_queue
           h == Head(request_queue)
<1>1. /\ q \in Seq(Tasks) /\ 1 \in 1..Len(q) /\ h = q[1] /\ h \in Tasks
      /\ h.req \in Requests /\ stage[h] = "queued" /\ h.idx \in Nat
  <2>1. q \in Seq(Tasks) /\ 1 \in 1..Len(q) /\ h = q[1] /\ h \in Tasks
    BY DEF mark_request_task_submitted, TypeOK
  <2> QED
    BY <2>1, TaskFacts DEF QueueOrder
<1>2. /\ \A t \in Tasks : stage'[t] = IF t = h THEN "submitted" ELSE stage[t]
      /\ \A r \in Requests : request_task_counts'[r] =
             IF r = h.req THEN request_task_counts[r] + 1 ELSE request_task_counts[r]
      /\ finished_request_markers' = finished_request_markers \cup
             (IF all_task_done(h) THEN {h.req} ELSE {})
  BY Zenon, <1>1 DEF mark_request_task_submitted, TypeOK
<1>3. ASSUME NEW r \in Requests
      PROVE  request_task_counts'[r] = Cardinality(Submitted(r))'
  <2>1. \A t \in TasksOf(r) : t \in Tasks /\ t.req = r
    BY ZenonT(30), RequestFacts
  <2>2. CASE r # h.req
    <3>1. Submitted(r)' = Submitted(r)
      BY Zenon, <1>2, <2>1, <2>2 DEF Submitted
    <3> QED
      BY Zenon, <1>2, <2>2, <3>1 DEF CountsOK
  <2>3. CASE r = h.req
    <3>1. h \in TasksOf(r) /\ h \notin Submitted(r)
      BY Zenon, <1>1, <2>3, TaskFacts DEF Submitted
    <3>2. Submitted(r)' = Submitted(r) \cup {h}
      <4> HIDE DEF h
      <4> QED
        BY <1>2, <2>1, <3>1 DEF Submitted
    <3>3. IsFiniteSet(Submitted(r))
      BY Zenon, FinitelyMany DEF Submitted
    <3>4. Cardinality(Submitted(r) \cup {h}) = Cardinality(Submitted(r)) + 1
      BY ZenonT(30), <3>1, <3>3, FS_AddElement
    <3> QED
      BY Zenon, <1>2, <2>3, <3>2, <3>4 DEF CountsOK
  <2> QED
    BY Zenon, <2>2, <2>3
<1>4. ASSUME NEW r \in Requests, r \in finished_request_markers', NEW t \in TasksOf(r)
      PROVE  stage'[t] \in {"submitted", "ended"}
  <2>1. t \in Tasks /\ t.req = r /\ t.idx \in 1..NumTasks(r) /\ NumTasks(r) \in Nat
    BY ZenonT(30), RequestFacts
  <2>2. CASE r \in finished_request_markers
    BY Zenon, <1>2, <2>1, <2>2 DEF CountsOK
  <2>3. CASE r = h.req /\ all_task_done(h) /\ t # h
    <3>1. t.idx < h.idx
      <4>1. h.idx = NumTasks(r)
        BY Zenon, <2>3 DEF all_task_done
      <4>2. t = [req |-> t.req, idx |-> t.idx] /\ h = [req |-> h.req, idx |-> h.idx]
        BY Zenon, <1>1, <2>1, TaskFacts
      <4>3. t.idx # h.idx
        BY Zenon, <2>1, <2>3, <4>2
      <4> HIDE DEF h
      <4> QED
        BY <2>1, <4>1, <4>3
    <3>2. stage[t] \in {"submitted", "ended"}
      BY Zenon, <2>1, <2>3, <3>1, HeadIsNext
    <3> QED
      BY Zenon, <1>2, <2>1, <2>3, <3>2
  <2>4. CASE t = h
    BY Zenon, <1>2, <2>1, <2>4
  <2> QED
    BY Zenon, <1>2, <1>4, <2>2, <2>3, <2>4
<1> QED
  BY Zenon, <1>3, <1>4 DEF CountsOK

\* The task that a thread marks as done is counted; if it is the one that
\* finishes its request, all the others have ended.
LEMMA DoneFacts ==
    ASSUME TypeOK, LocalsOK, OnePlace, CountsOK, NEW w \in Workers,
           mark_request_task_done(w)
    PROVE  LET t == worker_task[w]
               r == t.req
           IN  /\ t \in Tasks /\ r \in Requests /\ t \in TasksOf(r)
               /\ \A u \in Tasks : stage'[u] = IF u = t THEN "ended" ELSE stage[u]
               /\ IsFiniteSet(Submitted(r)) /\ t \in Submitted(r)
               /\ request_task_counts[r] \in Nat \ {0}
               /\ finished_by(t) =>
                      \A u \in TasksOf(r) : u # t => stage[u] = "ended"
<1> DEFINE t == worker_task[w]
           r == t.req
<1>1. t \in Tasks /\ stage[t] = "submitted"
  BY Zenon DEF mark_request_task_done, LocalsOK, OnePlace, HandledApart, BeforeDone, Busy
<1>2. r \in Requests /\ t \in TasksOf(r) /\ t \in Submitted(r)
  BY Zenon, <1>1, TaskFacts DEF Submitted
<1>3. IsFiniteSet(Submitted(r))
  BY Zenon, <1>2, FinitelyMany DEF Submitted
<1>4. request_task_counts[r] \in Nat \ {0}
  <2>1. Cardinality(Submitted(r)) \in Nat /\ Cardinality(Submitted(r)) # 0
    BY Zenon, <1>2, <1>3, FS_CardinalityType, FS_EmptySet
  <2> QED
    BY Zenon, <1>2, <2>1 DEF CountsOK
<1>5. ASSUME finished_by(t), NEW u \in TasksOf(r), u # t
      PROVE  stage[u] = "ended"
  <2>1. Cardinality(Submitted(r)) = 1 /\ r \in finished_request_markers
    BY Zenon, <1>2, <1>4, <1>5 DEF finished_by, CountsOK
  <2>2. PICK x : Submitted(r) = {x}
    BY ZenonT(30), <1>3, <2>1, FS_Singleton
  <2>3. u \notin Submitted(r)
    BY Zenon, <1>2, <1>5, <2>2
  <2>4. stage[u] \in {"submitted", "ended"}
    BY Zenon, <1>2, <2>1 DEF CountsOK
  <2> QED
    BY Zenon, <2>3, <2>4 DEF Submitted
<1>6. \A u \in Tasks : stage'[u] = IF u = t THEN "ended" ELSE stage[u]
  BY Zenon, <1>1 DEF mark_request_task_done, TypeOK
<1> QED
  BY ZenonT(30), <1>1, <1>2, <1>3, <1>4, <1>5, <1>6

\* One task less of its request is submitted.
LEMMA DoneCounts ==
    ASSUME TypeOK, LocalsOK, OnePlace, CountsOK, NEW w \in Workers,
           mark_request_task_done(w)
    PROVE  CountsOK'
<1> DEFINE t == worker_task[w]
           n == request_task_counts[worker_task[w].req]
<1>1. /\ t \in Tasks /\ t.req \in Requests /\ t \in TasksOf(t.req)
      /\ \A u \in Tasks : stage'[u] = IF u = t THEN "ended" ELSE stage[u]
      /\ IsFiniteSet(Submitted(t.req)) /\ t \in Submitted(t.req)
      /\ n \in Nat \ {0}
  BY Zenon, DoneFacts
<1>2. /\ \A r \in Requests : request_task_counts'[r] =
             IF r = t.req THEN n - 1 ELSE request_task_counts[r]
      /\ finished_request_markers' \subseteq finished_request_markers
  BY Zenon, <1>1 DEF mark_request_task_done, TypeOK
<1>3. ASSUME NEW r \in Requests
      PROVE  request_task_counts'[r] = Cardinality(Submitted(r))'
  <2>1. \A u \in TasksOf(r) : u \in Tasks /\ u.req = r
    BY ZenonT(30), RequestFacts
  <2>2. CASE r # t.req
    <3>1. Submitted(r)' = Submitted(r)
      BY Zenon, <1>1, <2>1, <2>2 DEF Submitted
    <3> QED
      BY Zenon, <1>2, <2>2, <3>1 DEF CountsOK
  <2>3. CASE r = t.req
    <3>1. Submitted(r)' = Submitted(r) \ {t}
      <4> HIDE DEF t
      <4> QED
        BY Zenon, <1>1, <2>1, <2>3 DEF Submitted
    <3>2. Cardinality(Submitted(r) \ {t}) = Cardinality(Submitted(r)) - 1
      BY ZenonT(30), <1>1, <2>3, FS_RemoveElement
    <3> QED
      BY Zenon, <1>2, <2>3, <3>1, <3>2 DEF CountsOK
  <2> QED
    BY Zenon, <2>2, <2>3
<1>4. ASSUME NEW r \in Requests, r \in finished_request_markers', NEW u \in TasksOf(r)
      PROVE  stage'[u] \in {"submitted", "ended"}
  <2>1. u \in Tasks
    BY ZenonT(30), RequestFacts
  <2> QED
    BY Zenon, <1>1, <1>2, <1>4, <2>1 DEF CountsOK
<1> QED
  BY Zenon, <1>3, <1>4 DEF CountsOK

\* Only _mark_request_task_done touches the counts in a thread of the executor.
LEMMA WorkerCounts ==
    ASSUME TypeOK, LocalsOK, OnePlace, NEW w \in Workers, WorkerStep(w),
           ~mark_request_task_done(w)
    PROVE  UNCHANGED <<stage, countVars>>
<1>1. UNCHANGED stage
  BY SMTT(30), WorkerStage
<1>2. UNCHANGED countVars
  BY ZenonT(30) DEF WorkerStep, start_handler, pop_peer_request, end_batch,
              resubmit_handler, check_failed, transfer_kv_cache,
              reformat_kv_cache, transfer_fails, finish_request, clear_request,
              send_done_signal_to_free_remote_port, send_done_recv_signal,
              TransferFrame
<1> QED
  BY Zenon, <1>1, <1>2

\* CountsOK is kept by every step.
LEMMA CountsStep ==
    ASSUME TypeOK, LocalsOK, LoadOrder, QueueOrder, OnePlace, CountsOK, [Next]_vars
    PROVE  CountsOK'
<1>1. CASE UNCHANGED vars
  BY Zenon, <1>1, CountsStable DEF vars, countVars, historyVars
<1>2. CASE MainStep
  BY Zenon, <1>2, AddStage, CountsStable DEF countVars
<1>3. CASE append_peer_request \/ submit_peer_handler
  <2>1. UNCHANGED <<countVars, stage>>
    BY Zenon, <1>3 DEF append_peer_request, submit_peer_handler, historyVars
  <2> QED
    BY Zenon, <2>1, CountsStable
<1>4. ASSUME NEW w \in Workers, WorkerStep(w), ~mark_request_task_done(w)
      PROVE  CountsOK'
  <2>1. UNCHANGED <<stage, countVars>>
    BY Zenon, <1>4, WorkerCounts
  <2> QED
    BY Zenon, <2>1, CountsStable
<1> QED
  BY Zenon, <1>1, <1>2, <1>3, <1>4, SubmitCounts, DoneCounts DEF Next, DispatchStep

-----------------------------------------------------------------------------
(* MarkersOK. *)

\* No task is submitted or ends, and the markers stay.
LEMMA MarkersStable ==
    ASSUME TypeOK, MarkersOK, UNCHANGED finished_request_markers,
           \A t \in Tasks : stage[t] = "submitted" <=> stage'[t] = "submitted",
           \A t \in Tasks : stage[t] = "ended" <=> stage'[t] = "ended"
    PROVE  MarkersOK'
<1>1. \A r \in Requests : AllEnded(r)' <=> AllEnded(r)
  BY ZenonT(30), RequestFacts DEF AllEnded
<1>2. \A r \in Requests : \A t \in TasksOf(r) : t \in Tasks
  BY ZenonT(30), RequestFacts
<1>3. (\A t, u \in Tasks :
           t.req = u.req /\ t.idx < u.idx /\ stage[u] \in {"submitted", "ended"}
           => stage[t] \in {"submitted", "ended"})'
  BY Zenon DEF MarkersOK
<1>4. ASSUME NEW r \in Requests
      PROVE  /\ AllEnded(r)' => r \notin finished_request_markers'
             /\ /\ \A t \in TasksOf(r) : stage'[t] \in {"submitted", "ended"}
                /\ ~AllEnded(r)'
                => r \in finished_request_markers'
  BY Zenon, <1>1, <1>2 DEF MarkersOK
<1> QED
  BY Zenon, <1>3, <1>4 DEF MarkersOK

\* The marker is set when the last task of a request is submitted.
LEMMA SubmitMarkers ==
    ASSUME TypeOK, LocalsOK, LoadOrder, QueueOrder, MarkersOK,
           mark_request_task_submitted
    PROVE  MarkersOK'
<1> DEFINE h == Head(request_queue)
<1>1. /\ h \in Tasks /\ h.req \in Requests /\ h \in TasksOf(h.req)
      /\ stage[h] = "queued" /\ h.idx \in 1..NumTasks(h.req)
      /\ NumTasks(h.req) \in Nat
  <2>1. h = request_queue[1] /\ 1 \in 1..Len(request_queue) /\ h \in Tasks
    BY DEF mark_request_task_submitted, TypeOK
  <2> QED
    BY Zenon, <2>1, TaskFacts DEF QueueOrder
<1>2. /\ \A t \in Tasks : stage'[t] = IF t = h THEN "submitted" ELSE stage[t]
      /\ finished_request_markers' = finished_request_markers \cup
             (IF all_task_done(h) THEN {h.req} ELSE {})
  BY Zenon, <1>1 DEF mark_request_task_submitted, TypeOK
<1>3. \A t \in Tasks : t.req = h.req /\ t.idx < h.idx =>
          stage[t] \in {"submitted", "ended"}
  BY Zenon, HeadIsNext
<1>4. \A t \in Tasks : t.idx \in Nat
  BY TaskFacts
<1> HIDE DEF h
<1>5. (\A t, u \in Tasks :
           t.req = u.req /\ t.idx < u.idx /\ stage[u] \in {"submitted", "ended"}
           => stage[t] \in {"submitted", "ended"})'
  BY Zenon, <1>1, <1>2, <1>3 DEF MarkersOK
<1>6. ASSUME NEW r \in Requests
      PROVE  /\ AllEnded(r)' => r \notin finished_request_markers'
             /\ /\ \A t \in TasksOf(r) : stage'[t] \in {"submitted", "ended"}
                /\ ~AllEnded(r)'
                => r \in finished_request_markers'
  <2>1. \A t \in TasksOf(r) : t \in Tasks /\ t.req = r
    BY ZenonT(30), RequestFacts
  <2>2. CASE r # h.req
    <3>1. \A t \in TasksOf(r) : stage'[t] = stage[t]
      BY Zenon, <1>2, <2>1, <2>2
    <3>2. AllEnded(r)' <=> AllEnded(r)
      BY Zenon, <3>1 DEF AllEnded
    <3> QED
      BY Zenon, <1>2, <2>2, <3>1, <3>2 DEF MarkersOK
  <2>3. CASE r = h.req
    <3>1. ~AllEnded(r)'
      BY Zenon, <1>1, <1>2, <2>3 DEF AllEnded
    <3>2. ASSUME \A t \in TasksOf(r) : stage'[t] \in {"submitted", "ended"}
          PROVE  all_task_done(h)
      <4> DEFINE l == [req |-> r, idx |-> NumTasks(r)]
      <4>1. SUFFICES ASSUME h.idx # NumTasks(r) PROVE FALSE
        BY Zenon, <2>3 DEF all_task_done
      <4>2. l \in TasksOf(r)
        BY ZenonT(30), RequestFacts
      <4>3. l \in Tasks /\ l.req = h.req /\ h.idx < l.idx /\ l # h
        BY <1>1, <2>1, <2>3, <4>1, <4>2
      <4>4. stage[l] \in {"submitted", "ended"}
        BY Zenon, <1>2, <3>2, <4>2, <4>3
      <4> HIDE DEF l
      <4> QED
        BY Zenon, <1>1, <4>3, <4>4 DEF MarkersOK
    <3> QED
      BY Zenon, <1>2, <2>3, <3>1, <3>2
  <2> QED
    BY Zenon, <2>2, <2>3
<1> QED
  BY Zenon, <1>5, <1>6 DEF MarkersOK

\* _mark_request_task_done with a count of one ends the last task under way,
\* and with a higher count leaves others.
LEMMA LastOfRequest ==
    ASSUME TypeOK, LocalsOK, OnePlace, CountsOK, NEW w \in Workers,
           mark_request_task_done(w)
    PROVE  LET t == worker_task[w] IN
           /\ request_task_counts[t.req] = 1 <=>
                  \A u \in TasksOf(t.req) : u # t => stage[u] # "submitted"
<1> DEFINE t == worker_task[w]
<1>1. /\ t.req \in Requests /\ IsFiniteSet(Submitted(t.req)) /\ t \in Submitted(t.req)
      /\ request_task_counts[t.req] = Cardinality(Submitted(t.req))
  BY Zenon, DoneFacts DEF CountsOK
<1> HIDE DEF t
<1>2. ASSUME Cardinality(Submitted(t.req)) = 1, NEW u \in TasksOf(t.req), u # t
      PROVE  stage[u] # "submitted"
  <2>1. PICK x : Submitted(t.req) = {x}
    BY ZenonT(30), <1>1, <1>2, FS_Singleton
  <2> QED
    BY Zenon, <1>1, <1>2, <2>1 DEF Submitted
<1>3. ASSUME \A u \in TasksOf(t.req) : u # t => stage[u] # "submitted"
      PROVE  Cardinality(Submitted(t.req)) = 1
  <2>1. Submitted(t.req) = {t}
    BY Zenon, <1>1, <1>3 DEF Submitted
  <2> QED
    BY ZenonT(30), <2>1, FS_Singleton
<1> QED
  BY Zenon, <1>1, <1>2, <1>3 DEF t

\* The marker goes with the last task.
LEMMA DoneMarkers ==
    ASSUME TypeOK, LocalsOK, OnePlace, CountsOK, MarkersOK, NEW w \in Workers,
           mark_request_task_done(w)
    PROVE  MarkersOK'
<1> DEFINE t == worker_task[w]
           n == request_task_counts[worker_task[w].req]
<1>1. /\ t \in Tasks /\ t.req \in Requests /\ t \in TasksOf(t.req)
      /\ stage[t] = "submitted"
      /\ \A u \in Tasks : stage'[u] = IF u = t THEN "ended" ELSE stage[u]
  BY Zenon, DoneFacts DEF Submitted
<1>2. finished_request_markers' =
          finished_request_markers \ (IF n = 1 THEN {t.req} ELSE {})
  BY Zenon DEF mark_request_task_done
<1>3. n = 1 <=> \A u \in TasksOf(t.req) : u # t => stage[u] # "submitted"
  BY Zenon, LastOfRequest
<1> HIDE DEF t, n
<1>4. (\A x, u \in Tasks :
           x.req = u.req /\ x.idx < u.idx /\ stage[u] \in {"submitted", "ended"}
           => stage[x] \in {"submitted", "ended"})'
  BY Zenon, <1>1 DEF MarkersOK
<1>5. ASSUME NEW r \in Requests
      PROVE  /\ AllEnded(r)' => r \notin finished_request_markers'
             /\ /\ \A u \in TasksOf(r) : stage'[u] \in {"submitted", "ended"}
                /\ ~AllEnded(r)'
                => r \in finished_request_markers'
  <2>1. \A u \in TasksOf(r) : u \in Tasks /\ u.req = r
    BY ZenonT(30), RequestFacts
  <2>2. CASE r # t.req
    <3>1. \A u \in TasksOf(r) : stage'[u] = stage[u]
      BY Zenon, <1>1, <2>1, <2>2
    <3>2. AllEnded(r)' <=> AllEnded(r)
      BY Zenon, <3>1 DEF AllEnded
    <3> QED
      BY Zenon, <1>2, <2>2, <3>1, <3>2 DEF MarkersOK
  <2>3. CASE r = t.req
    <3>1. ASSUME AllEnded(r)' PROVE n = 1
      BY Zenon, <1>1, <1>3, <2>1, <2>3, <3>1 DEF AllEnded
    <3>2. ASSUME \A u \in TasksOf(r) : stage'[u] \in {"submitted", "ended"},
                 ~AllEnded(r)'
          PROVE  n # 1 /\ r \in finished_request_markers
      <4>1. n # 1
        BY Zenon, <1>1, <1>3, <2>1, <2>3, <3>2 DEF AllEnded
      <4>2. /\ ~AllEnded(r)
            /\ \A u \in TasksOf(r) : stage[u] \in {"submitted", "ended"}
        BY Zenon, <1>1, <2>1, <2>3, <3>2 DEF AllEnded
      <4> QED
        BY Zenon, <4>1, <4>2 DEF MarkersOK
    <3> QED
      BY Zenon, <1>2, <2>3, <3>1, <3>2
  <2> QED
    BY Zenon, <2>2, <2>3
<1> QED
  BY Zenon, <1>4, <1>5 DEF MarkersOK

\* MarkersOK is kept by every step.
LEMMA MarkersStep ==
    ASSUME TypeOK, LocalsOK, LoadOrder, QueueOrder, OnePlace, CountsOK, MarkersOK,
           [Next]_vars
    PROVE  MarkersOK'
<1>1. CASE UNCHANGED <<countVars, stage>>
  BY Zenon, <1>1, MarkersStable DEF countVars
<1>2. CASE MainStep
  BY Zenon, <1>2, AddStage, MarkersStable
<1>3. CASE append_peer_request \/ submit_peer_handler
  BY Zenon, <1>1, <1>3 DEF append_peer_request, submit_peer_handler, historyVars
<1>4. ASSUME NEW w \in Workers, WorkerStep(w), ~mark_request_task_done(w)
      PROVE  MarkersOK'
  BY Zenon, <1>1, <1>4, WorkerCounts
<1> QED
  BY Zenon, <1>1, <1>2, <1>3, <1>4, SubmitMarkers, DoneMarkers
  DEF Next, DispatchStep, vars, historyVars

-----------------------------------------------------------------------------
\* EndedOK is kept by every step.
LEMMA EndedStep ==
    ASSUME TypeOK, LocalsOK, LoadOrder, QueueOrder, OnePlace, CountsOK, EndedOK,
           [Next]_vars
    PROVE  EndedOK'
<1>1. CASE UNCHANGED vars
  <2>1. UNCHANGED <<finished_requests, reported, stage, pulled, failed, worker_pc,
                    worker_task>>
    BY Zenon, <1>1 DEF vars, trackerVars, workerVars, reportVars, historyVars
  <2> QED
    BY Zenon, <2>1, Announced, EndedStable
<1>2. ASSUME NEW w \in Workers, mark_request_task_done(w) PROVE EndedOK'
  BY Zenon, <1>2, DoneFacts, DoneEnded
<1> QED
  BY ZenonT(30), <1>1, <1>2, MainEnded, DispatchEnded, WorkerEnded DEF Next

-----------------------------------------------------------------------------
(* ClosingOK. *)

\* No task ends, nothing is added to what is remembered of a request that has
\* ended, and the threads that are to forget it stay where they are.
LEMMA ClosingStable ==
    ASSUME TypeOK, ClosingOK,
           \A t \in Tasks : stage[t] = "ended" <=> stage'[t] = "ended",
           \A r \in Requests : AllEnded(r) =>
               /\ r \in reqs_to_process' => r \in reqs_to_process
               /\ r \in failed_recv_requests' => r \in failed_recv_requests,
           \A w \in Workers : worker_pc[w] \in {"finish", "cleanup"} =>
               worker_pc'[w] = worker_pc[w] /\ worker_task'[w] = worker_task[w]
    PROVE  ClosingOK'
<1>1. \A r \in Requests : AllEnded(r)' => AllEnded(r)
  BY ZenonT(30), RequestFacts DEF AllEnded
<1> QED
  BY <1>1 DEF ClosingOK

\* A request has not ended when it is started, nor while one of its tasks is
\* with a thread that may fail.
LEMMA NotAllEnded ==
    ASSUME NEW t \in Tasks, stage[t] # "ended"
    PROVE  ~AllEnded(t.req)
BY Zenon, TaskFacts DEF AllEnded

\* The thread that ends the last task of a request goes on to finish it.
LEMMA DoneClosing ==
    ASSUME TypeOK, LocalsOK, OnePlace, CountsOK, MarkersOK, ClosingOK,
           NEW w \in Workers, mark_request_task_done(w)
    PROVE  ClosingOK'
<1> DEFINE t == worker_task[w]
<1>1. /\ t \in Tasks /\ t.req \in Requests /\ t \in TasksOf(t.req)
      /\ stage[t] = "submitted"
      /\ \A u \in Tasks : stage'[u] = IF u = t THEN "ended" ELSE stage[u]
  BY Zenon, DoneFacts DEF Submitted
<1>2. /\ worker_pc[w] = "task_done"
      /\ finished_by(t) => worker_pc'[w] = "finish"
      /\ \A v \in Workers : v # w => worker_pc'[v] = worker_pc[v]
      /\ UNCHANGED <<worker_task, reqs_to_process, failed_recv_requests>>
  BY Zenon DEF mark_request_task_done, Goto, TypeOK, trackerVars, failVars
<1> SUFFICES ASSUME NEW r \in Requests, AllEnded(r)'
             PROVE  /\ r \in reqs_to_process' =>
                           \E v \in Workers :
                               worker_pc'[v] = "finish" /\ worker_task'[v].req = r
                    /\ r \in failed_recv_requests' =>
                           \E v \in Workers :
                               /\ worker_pc'[v] \in {"finish", "cleanup"}
                               /\ worker_task'[v].req = r
  BY Zenon DEF ClosingOK
<1>3. \A u \in TasksOf(r) : u \in Tasks /\ u.req = r
  BY ZenonT(30), RequestFacts
<1>4. \A u \in TasksOf(r) : u # t => stage[u] = "ended"
  BY Zenon, <1>1, <1>3 DEF AllEnded
<1>5. CASE r = t.req
  <2>1. request_task_counts[r] = 1
    BY Zenon, <1>4, <1>5, LastOfRequest
  <2>2. r \in finished_request_markers
    <3>1. /\ \A u \in TasksOf(r) : stage[u] \in {"submitted", "ended"}
          /\ ~AllEnded(r)
      BY Zenon, <1>1, <1>4, <1>5 DEF AllEnded
    <3> QED
      BY Zenon, <3>1 DEF MarkersOK
  <2>3. worker_pc'[w] = "finish" /\ worker_task'[w].req = r
    BY Zenon, <1>2, <1>5, <2>1, <2>2 DEF finished_by
  <2> QED
    BY Zenon, <2>3
<1>6. CASE r # t.req
  <2>1. AllEnded(r)
    BY Zenon, <1>3, <1>4, <1>6 DEF AllEnded
  <2>2. \A v \in Workers : worker_pc[v] \in {"finish", "cleanup"} =>
            worker_pc'[v] = worker_pc[v] /\ worker_task'[v] = worker_task[v]
    BY Zenon, <1>2
  <2> QED
    BY <1>2, <2>1, <2>2 DEF ClosingOK
<1> QED
  BY Zenon, <1>5, <1>6

\* The tracker forgets the request in update_done_task_count, the failure mark
\* in _clear_failed_recv_request.
LEMMA ForgetClosing ==
    ASSUME TypeOK, LocalsOK, ClosingOK, NEW w \in Workers,
           finish_request(w) \/ clear_request(w)
    PROVE  ClosingOK'
<1> DEFINE q == worker_task[w].req
<1>1. /\ stage' = stage
      /\ \A v \in Workers : v # w => worker_pc'[v] = worker_pc[v]
      /\ worker_task' = worker_task
  BY Zenon DEF finish_request, clear_request, Goto, TypeOK, historyVars
<1>2. \A r \in Requests : AllEnded(r)' <=> AllEnded(r)
  BY Zenon, <1>1 DEF AllEnded
<1>3. CASE finish_request(w)
  <2>1. /\ worker_pc'[w] = "cleanup"
        /\ reqs_to_process' \subseteq reqs_to_process /\ q \notin reqs_to_process'
        /\ failed_recv_requests' = failed_recv_requests
    BY Zenon, <1>3 DEF finish_request, update_done_task_count, Goto, TypeOK, failVars,
                trackerVars
  <2> HIDE DEF q
  <2> QED
    BY <1>1, <1>2, <1>3, <2>1 DEF ClosingOK, q
<1>4. CASE clear_request(w)
  <2>1. /\ worker_pc[w] = "cleanup"
        /\ reqs_to_process' = reqs_to_process
        /\ failed_recv_requests' = failed_recv_requests \ {q}
    BY Zenon, <1>4 DEF clear_request, clear_failed_recv_request, trackerVars
  <2> HIDE DEF q
  <2> QED
    BY <1>1, <1>2, <2>1 DEF ClosingOK, q
<1> QED
  BY Zenon, <1>3, <1>4

\* ClosingOK is kept by every step.
LEMMA ClosingStep ==
    ASSUME TypeOK, LocalsOK, LoadOrder, QueueOrder, OnePlace, CountsOK, MarkersOK,
           ClosingOK, [Next]_vars
    PROVE  ClosingOK'
<1>1. CASE UNCHANGED <<stage, reqs_to_process, failed_recv_requests, worker_pc,
                       worker_task>>
  BY Zenon, <1>1, ClosingStable
<1>2. CASE MainStep
  <2>1. ASSUME NEW B \in SUBSET Requests, start_load_kv(B),
               NEW r \in B, AllEnded(r)
        PROVE  FALSE
    <3>1. FirstTask(r) \in TasksOf(r) /\ stage[FirstTask(r)] = "none"
      BY ZenonT(30), <2>1, RequestFacts DEF start_load_kv
    <3> QED
      BY Zenon, <2>1, <3>1 DEF AllEnded
  <2>2. \A r \in Requests : AllEnded(r) =>
            /\ r \in reqs_to_process' => r \in reqs_to_process
            /\ r \in failed_recv_requests' => r \in failed_recv_requests
    <3>1. CASE \E B \in SUBSET Requests : start_load_kv(B)
      BY Zenon, <2>1, <3>1 DEF start_load_kv, add_req_to_process, failVars
    <3>2. CASE add_request \/ get_finished \/ get_and_clear_invalid_block_ids
      BY Zenon, <3>2 DEF add_request, get_finished, get_and_clear_invalid_block_ids,
             get_and_clear_finished_requests, trackerVars, failVars
    <3> QED
      BY Zenon, <1>2, <3>1, <3>2 DEF MainStep
  <2> QED
    BY Zenon, <1>2, <2>2, AddStage, ClosingStable
<1>3. CASE DispatchStep
  <2>1. \A t \in Tasks : stage[t] = "ended" <=> stage'[t] = "ended"
    BY Zenon, <1>3, DispatchStage DEF TypeOK
  <2>2. UNCHANGED <<reqs_to_process, failed_recv_requests, worker_pc, worker_task>>
    BY Zenon, <1>3 DEF DispatchStep, mark_request_task_submitted, append_peer_request,
           submit_peer_handler, trackerVars, failVars, workerVars
  <2> QED
    BY Zenon, <2>1, <2>2, ClosingStable
<1>4. ASSUME NEW w \in Workers, WorkerStep(w), ~mark_request_task_done(w),
             ~finish_request(w), ~clear_request(w)
      PROVE  ClosingOK'
  <2>1. UNCHANGED <<stage, reqs_to_process>>
    BY Zenon, <1>4, WorkerCounts, WorkerTracker DEF trackerVars
  <2>2. /\ worker_pc[w] \notin {"finish", "cleanup"}
        /\ \A v \in Workers : v # w =>
               worker_pc'[v] = worker_pc[v] /\ worker_task'[v] = worker_task[v]
        /\ \/ failed_recv_requests' = failed_recv_requests
           \/ /\ worker_pc[w] \in BeforeDone
              /\ failed_recv_requests' = failed_recv_requests \cup {worker_task[w].req}
    <3> USE DEF Goto, TypeOK
    <3>1. CASE start_handler(w) \/ end_batch(w) \/ resubmit_handler(w)
      BY Zenon, <3>1 DEF start_handler, end_batch, resubmit_handler, Leave, failVars
    <3>2. CASE pop_peer_request(w)
      BY ZenonT(30), <3>2 DEF pop_peer_request, Leave, failVars
    <3>3. CASE check_failed(w) \/ transfer_fails(w)
      BY ZenonT(30), <3>3 DEF check_failed, transfer_fails, TransferFrame,
                  mark_failed_recv_request, failVars, BeforeDone
    <3>4. CASE \/ transfer_kv_cache(w) \/ reformat_kv_cache(w)
               \/ send_done_signal_to_free_remote_port(w)
               \/ send_done_recv_signal(w)
      BY SMTT(30), <3>4 DEF transfer_kv_cache, reformat_kv_cache, TransferFrame,
                  send_done_signal_to_free_remote_port, send_done_recv_signal, failVars
    <3> QED
      BY ZenonT(30), <1>4, <3>1, <3>2, <3>3, <3>4 DEF WorkerStep
  <2>3. ASSUME worker_pc[w] \in BeforeDone
        PROVE  ~AllEnded(worker_task[w].req)
    <3>1. worker_task[w] \in Tasks /\ stage[worker_task[w]] # "ended"
      BY Zenon, <2>3 DEF LocalsOK, OnePlace, HandledApart, Busy
    <3> QED
      BY Zenon, <3>1, NotAllEnded
  <2>4. \A r \in Requests : AllEnded(r) =>
            (r \in failed_recv_requests' => r \in failed_recv_requests)
    BY Zenon, <2>2, <2>3
  <2>5. \A v \in Workers : worker_pc[v] \in {"finish", "cleanup"} =>
            worker_pc'[v] = worker_pc[v] /\ worker_task'[v] = worker_task[v]
    BY Zenon, <2>2
  <2> QED
    BY Zenon, <2>1, <2>4, <2>5, ClosingStable
<1> QED
  BY Zenon, <1>1, <1>2, <1>3, <1>4, DoneClosing, ForgetClosing
  DEF Next, vars, trackerVars, failVars, workerVars, historyVars

-----------------------------------------------------------------------------
(* The invariant. *)

\* In the initial state no task has been queued.
LEMMA InitInductive == Init => Inductive
<1> SUFFICES ASSUME Init PROVE Inductive
  BY Zenon
<1>1. \A t \in Tasks : stage[t] = "none"
  BY Zenon DEF Init
<1>2. \A r \in Requests : \A t \in TasksOf(r) : t \in Tasks
  BY ZenonT(30), RequestFacts
<1>3. LoadOrder
  BY SMTT(30), <1>1, <1>2 DEF Init, LoadOrder
<1>4. QueueOrder
  <2>1. 1..Len(request_queue) = {}
    BY DEF Init
  <2>2. QED
    BY Zenon, <1>1, <2>1 DEF QueueOrder
<1>5. OnePlace
  <2>1. \A p \in Peers : 1..Len(peer_request_queues[p]) = {}
    BY DEF Init
  <2>2. QueuedAtPeer /\ QueuedOnce
    BY Zenon, <2>1 DEF QueuedAtPeer, QueuedOnce
  <2>3. DispatchedApart
    BY Zenon DEF Init, DispatchedApart
  <2>4. \A w \in Workers : worker_pc[w] \notin BeforeDone
    BY Zenon DEF Init, BeforeDone
  <2>5. HandledApart /\ HandledOnce
    BY Zenon, <2>4 DEF HandledApart, HandledOnce
  <2> QED
    BY Zenon, <2>2, <2>3, <2>5 DEF OnePlace
<1>6. CountsOK
  BY Zenon, InitCounts
<1>7. EndedOK
  BY Zenon, <1>1 DEF Init, TrackerInit, EndedOK
<1>8. MarkersOK /\ ClosingOK
  <2>1. \A r \in Requests :
            ~AllEnded(r) /\ \E t \in TasksOf(r) : stage[t] \notin {"submitted", "ended"}
    <3> SUFFICES ASSUME NEW r \in Requests
                 PROVE  \E t \in TasksOf(r) : stage[t] = "none"
      BY Zenon DEF AllEnded
    <3>1. FirstTask(r) \in TasksOf(r)
      BY ZenonT(30), RequestFacts
    <3> QED
      BY Zenon, <1>1, <1>2, <3>1
  <2> QED
    BY Zenon, <1>1, <2>1 DEF MarkersOK, ClosingOK
<1>9. SignalsOK
  BY Zenon DEF Init, SignalsOK, AfterDone, Busy
<1>10. TrackedOK /\ FailuresOK
  BY Zenon DEF Init, TrackerInit, TrackedOK, FailuresOK
<1>11. HandlersOK
  <2>1. \A p \in Peers : p # NoPeer
    BY Zenon, NoTaskAssumption
  <2>2. 1..Len(executor_queue) = {}
    BY DEF Init
  <2> QED
    BY Zenon, <2>1, <2>2 DEF Init, HandlersOK
<1> QED
  BY Zenon, <1>3, <1>4, <1>5, <1>6, <1>7, <1>8, <1>9, <1>10, <1>11, InitTypes DEF Inductive

\* Every step keeps the invariant.
LEMMA NextInductive == Inductive /\ [Next]_vars => Inductive'
<1> SUFFICES ASSUME Inductive, [Next]_vars PROVE Inductive'
  BY Zenon
<1>1. /\ TypeOK /\ LocalsOK /\ LoadOrder /\ QueueOrder /\ OnePlace
      /\ CountsOK /\ EndedOK /\ MarkersOK /\ SignalsOK /\ ClosingOK /\ TrackedOK
      /\ FailuresOK /\ HandlersOK
  BY Zenon DEF Inductive
<1>2. TypeOK' /\ LocalsOK'
  BY Zenon, <1>1, NextTypes
<1>3. LoadOrder' /\ QueueOrder' /\ OnePlace'
  BY Zenon, <1>1, LoadOrderStep, QueueOrderStep, OnePlaceStep
<1>4. CountsOK' /\ EndedOK'
  BY Zenon, <1>1, CountsStep, EndedStep
<1>5. MarkersOK' /\ SignalsOK' /\ ClosingOK'
  BY Zenon, <1>1, MarkersStep, SignalsStep, ClosingStep
<1>6. TrackedOK' /\ FailuresOK' /\ HandlersOK'
  BY Zenon, <1>1, TrackedStep, FailuresStep, HandlersStep
<1> QED
  BY Zenon, <1>2, <1>3, <1>4, <1>5, <1>6 DEF Inductive

\* In every state of every behaviour the queues, the threads and the counts of
\* the receiving thread agree on where each task is: no task is lost between
\* request_queue, the peers' queues and the threads, none is with two of them,
\* and request_task_counts is the number of tasks that are under way.
THEOREM Invariance == Spec => []Inductive
BY InitInductive, NextInductive, PTL DEF Spec

\* What the invariant says of a request that is announced as received.
LEMMA InductiveLoaded == Inductive => LoadedBeforeReported
<1> SUFFICES ASSUME Inductive,
                    NEW r \in finished_requests \cup reported, NEW t \in TasksOf(r)
             PROVE  /\ t \in pulled \cup failed
                    /\ \A w \in Workers :
                           Handling(w, t) =>
                               worker_pc[w] \notin {"check", "transfer", "reformat"}
  BY Zenon DEF LoadedBeforeReported
<1>1. r \in Requests /\ AllEnded(r)
  BY Zenon, Announced DEF Inductive
<1>2. t \in Tasks /\ stage[t] = "ended"
  BY ZenonT(30), <1>1, RequestFacts DEF AllEnded
<1>3. t \in pulled \cup failed
  BY Zenon, <1>2 DEF Inductive, EndedOK
<1>4. ASSUME NEW w \in Workers, Handling(w, t)
      PROVE  worker_pc[w] \notin {"check", "transfer", "reformat"}
  BY Zenon, <1>2, <1>4 DEF Inductive, OnePlace, HandledApart, BeforeDone, Handling
<1> QED
  BY Zenon, <1>3, <1>4

\* The receiving thread announces a request only when each of its tasks was read
\* or has failed and no thread can write into its blocks any more, for every
\* number of requests, tasks, peers and threads.
THEOREM LoadedBeforeReportedHolds == Spec => []LoadedBeforeReported
BY Invariance, InductiveLoaded, PTL

\* A request is reported after its failures: nothing is added to the failed
\* tasks of a request that was reported, and what failed before is handed on in
\* the same output (_mark_failed_recv_request, get_block_ids_with_load_errors).
THEOREM FailureReportedHolds == Spec => []FailureReported
<1>1. Inductive => FailureReported
  BY Zenon DEF Inductive, FailuresOK, FailureReported
<1> QED
  BY <1>1, Invariance, PTL

\* With one kernel block per logical block, _get_kernel_block_ids changes no id.
LEMMA SameIds ==
    ASSUME BLOCK_SIZE_SCALE = 1, NEW t \in Tasks
    PROVE  local_block_ids(t) = logical_block_ids(t)
<1>1. Shard(t) + 1 \in 1..Len(LocalBlocks[t.req])
  BY Zenon, TaskFacts, BlocksAssumption DEF Shard, NumTasks
<1>2. logical_block_ids(t) \subseteq Nat
  BY <1>1, TaskFacts, BlocksAssumption DEF logical_block_ids
<1> QED
  BY <1>2 DEF local_block_ids, expand_block_ids

\* Where kernel blocks and logical blocks are the same, only blocks whose load
\* has failed are reported as load errors (get_block_ids_with_load_errors).
THEOREM InvalidBlocksFailedHolds ==
    ASSUME BLOCK_SIZE_SCALE = 1
    PROVE  Spec => []InvalidBlocksFailed
<1>1. Inductive => InvalidBlocksFailed
  <2> SUFFICES ASSUME Inductive PROVE InvalidBlocksFailed
    BY Zenon
  <2>1. \A t \in failed : t \in Tasks
    BY Zenon DEF Inductive, TypeOK
  <2>2. \A t \in failed : local_block_ids(t) = logical_block_ids(t)
    BY Zenon, <2>1, SameIds
  <2> QED
    BY Zenon, <2>2 DEF Inductive, FailuresOK, InvalidBlocksFailed
<1> QED
  BY <1>1, Invariance, PTL

\* When the last signal of a request is sent, the thread that ended its last
\* task has been through update_done_task_count and _clear_failed_recv_request,
\* so that no count, marker, failure mark or tracker entry of the request is left.
THEOREM MarksClearedHolds == Spec => []MarksCleared
<1>1. ASSUME Inductive, NEW r \in Requests, TasksOf(r) \subseteq done_sent
      PROVE  /\ request_task_counts[r] = 0
             /\ r \notin finished_request_markers
             /\ r \notin failed_recv_requests
             /\ r \notin reqs_to_process
  <2>1. AllEnded(r)
    BY Zenon, <1>1 DEF Inductive, SignalsOK, AllEnded
  <2>2. request_task_counts[r] = 0
    <3>1. Submitted(r) = {}
      BY Zenon, <2>1 DEF Submitted, AllEnded
    <3> QED
      BY Zenon, <1>1, <3>1, FS_EmptySet DEF Inductive, CountsOK
  <2>3. r \notin finished_request_markers
    BY Zenon, <1>1, <2>1 DEF Inductive, MarkersOK
  <2>4. ASSUME NEW w \in Workers, worker_pc[w] \in {"finish", "cleanup"},
               worker_task[w].req = r
        PROVE  FALSE
    <3>1. worker_pc[w] \in AfterDone /\ worker_task[w] \in Tasks
      BY Zenon, <1>1, <2>4 DEF Inductive, LocalsOK, AfterDone, Busy, BeforeDone
    <3>2. worker_task[w] \in TasksOf(r)
      BY Zenon, <2>4, <3>1, TaskFacts
    <3> QED
      BY Zenon, <1>1, <3>1, <3>2 DEF Inductive, SignalsOK
  <2> QED
    BY Zenon, <1>1, <2>1, <2>2, <2>3, <2>4 DEF Inductive, ClosingOK
<1>2. Inductive => MarksCleared
  BY Zenon, <1>1 DEF MarksCleared
<1> QED
  BY <1>2, Invariance, PTL

\* A set without two elements is empty or has one.
LEMMA AtMostOne ==
    ASSUME NEW S, \A x, y \in S : x = y
    PROVE  S = {} \/ \E x : S = {x}
<1>1. SUFFICES ASSUME S # {} PROVE \E x : S = {x}
  BY Zenon
<1>2. PICK x \in S : TRUE
  BY Zenon, <1>1
<1>3. S = {x}
  BY Zenon, <1>2
<1> QED
  BY Zenon, <1>3

\* A peer has at most one handler, and has one when it is active.
LEMMA HandlerSets ==
    ASSUME Inductive, NEW p \in Peers
    PROVE  \E c \in {0, 1} : \E q \in {0, 1} : \E r \in {0, 1} :
               /\ Cardinality(ComingHandlers(p)) = c
               /\ Cardinality(QueuedHandlers(p)) = q
               /\ Cardinality(RunningHandlers(p)) = r
               /\ q + r + c = IF p \in active_peer_request_handlers THEN 1 ELSE 0
<1> DEFINE C == ComingHandlers(p)
           Q == QueuedHandlers(p)
           R == RunningHandlers(p)
<1>1. p # NoPeer
  BY Zenon, NoTaskAssumption
<1>2. /\ C = {} \/ C = {0}
      /\ Q = {} \/ \E i : Q = {i}
      /\ R = {} \/ \E w : R = {w}
  <2>1. C = {} \/ C = {0}
    BY Zenon DEF ComingHandlers
  <2>2. \A i, j \in Q : i = j
    BY DEF Inductive, HandlersOK, QueuedHandlers
  <2>3. \A v, w \in R : v = w
    BY Zenon, <1>1 DEF Inductive, HandlersOK, RunningHandlers
  <2> HIDE DEF C, Q, R
  <2> QED
    BY Zenon, <2>1, <2>2, <2>3, AtMostOne
<1>3. /\ C # {} => Q = {} /\ R = {}
      /\ Q # {} => R = {}
  BY DEF Inductive, HandlersOK, ComingHandlers, QueuedHandlers, RunningHandlers
<1>4. p \in active_peer_request_handlers <=> C # {} \/ Q # {} \/ R # {}
  BY Zenon DEF Inductive, HandlersOK, ComingHandlers, QueuedHandlers, RunningHandlers
<1> HIDE DEF C, Q, R
<1>5. /\ C = {} => Cardinality(C) = 0
      /\ C # {} => Cardinality(C) = 1
      /\ Q = {} => Cardinality(Q) = 0
      /\ Q # {} => Cardinality(Q) = 1
      /\ R = {} => Cardinality(R) = 0
      /\ R # {} => Cardinality(R) = 1
  BY Zenon, <1>2, FS_EmptySet, FS_Singleton
<1> QED
  BY <1>3, <1>4, <1>5 DEF C, Q, R

\* A peer with work waiting has one handler and no peer has two: the handler
\* retires and the dispatcher starts one under peer_request_queues_lock.
THEOREM OneHandlerPerPeerHolds == Spec => []OneHandlerPerPeer
<1>1. Inductive => OneHandlerPerPeer
  <2> SUFFICES ASSUME Inductive, NEW p \in Peers
               PROVE  /\ Cardinality(QueuedHandlers(p)) + Cardinality(RunningHandlers(p))
                            + Cardinality(ComingHandlers(p))
                         = IF p \in active_peer_request_handlers THEN 1 ELSE 0
                      /\ peer_request_queues[p] # <<>> =>
                             p \in active_peer_request_handlers
    BY Zenon DEF OneHandlerPerPeer
  <2>1. peer_request_queues[p] # <<>> => p \in active_peer_request_handlers
    BY Zenon DEF Inductive, HandlersOK
  <2> QED
    BY Zenon, <2>1, HandlerSets
<1> QED
  BY <1>1, Invariance, PTL

=============================================================================
