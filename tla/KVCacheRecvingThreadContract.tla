--------------------- MODULE KVCacheRecvingThreadContract ---------------------
(***************************************************************************)
(* KVCacheRecvingThread implements LoadContract.  A load is loading from   *)
(* the batch that names it until the last of its tasks has ended.  A block *)
(* is written when every pull that fills it has ended well, and lost as    *)
(* soon as one of them has failed.                                         *)
(***************************************************************************)
EXTENDS KVCacheRecvingThread

Begun(r) ==
    \/ stage[FirstTask(r)] # "none"
    \/ r \in batch
    \/ main_pc = "loading" /\ loading.req = r

LoadOf(r) ==
    IF r \in reported THEN "reported"
    ELSE IF AllEnded(r) THEN "ended"
    ELSE IF Begun(r) THEN "loading" ELSE "idle"

BlocksOf(r) == UNION {logical_block_ids(t) : t \in TasksOf(r)}
Filling(b) == {t \in Tasks : b \in logical_block_ids(t)}

Load == [r \in Requests |-> LoadOf(r)]
Written ==
    {b \in UNION {BlocksOf(r) : r \in Requests} :
        \A t \in Filling(b) : stage[t] = "ended" /\ t \in pulled \ failed}
Lost == UNION {logical_block_ids(t) : t \in failed}

Contract == INSTANCE LoadContract WITH
    Blocks <- [r \in Requests |-> BlocksOf(r)],
    load <- Load, written <- Written, lost <- Lost,
    told <- reported_invalid, telling <- (main_pc = "errors")

\* The scheduler gives every request blocks of its own.
BlocksApart ==
    \A r, q \in Requests : r # q => BlocksOf(r) \cap BlocksOf(q) = {}

\* The receiving thread, with its queues, handlers and counts, does to the
\* scheduler and the blocks only what LoadContract allows: no block changes
\* after its load has ended, no load ends before each of its blocks is filled or
\* lost, no request is reported before its load has ended, and the ids that
\* come with a report are those of blocks lost, all of that request's included
\* (start_load_kv, _handle_request, get_finished).
ImplementsContract == Contract!Spec
=============================================================================
