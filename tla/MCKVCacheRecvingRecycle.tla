------------------------ MODULE MCKVCacheRecvingRecycle ------------------------
(***************************************************************************)
(* KVCacheRecvingThread under an endless load.  The id of a request that   *)
(* the thread has done with is used for a new request, so that the queue   *)
(* of a peer need never run empty.                                         *)
(***************************************************************************)
EXTENDS KVCacheRecvingThread, TLC

CONSTANTS r1, r2, r3, p1, p2

\* r1 and r2 keep p1 busy, the second shard of r3 waits for p2.
MCRemotePorts == (r1 :> <<p1>>) @@ (r2 :> <<p1>>) @@ (r3 :> <<p1, p2>>)
MCLocalBlocks == (r1 :> <<{1}>>) @@ (r2 :> <<{2}>>) @@ (r3 :> <<{3}, {4}>>)

\* A new request under the id of an old one: only the history forgets.
Recycle(r) ==
    /\ r \in reported
    /\ main_pc = "idle"
    /\ TasksOf(r) \subseteq done_sent
    /\ reported' = reported \ {r}
    /\ reported_invalid' = reported_invalid \ UNION {local_block_ids(t) : t \in TasksOf(r)}
    /\ stage' = [t \in Tasks |-> IF t.req = r THEN "none" ELSE stage[t]]
    /\ pulled' = pulled \ TasksOf(r)
    /\ failed' = failed \ TasksOf(r)
    /\ reformatted' = reformatted \ TasksOf(r)
    /\ done_sent' = done_sent \ TasksOf(r)
    /\ free_rounds' = [free_rounds EXCEPT ![r] = 0]
    /\ UNCHANGED <<trackerVars, mainVars, request_queue, dispVars, peerVars,
                   executor_queue, workerVars, countVars, failVars,
                   proc_not_transfer_request>>

EndlessSpec ==
    Init /\ [][Next \/ \E r \in Requests : Recycle(r)]_vars /\ Fairness
=============================================================================
