----------------------------- MODULE LoadContract -----------------------------
(***************************************************************************)
(* What the decode side of MooncakeConnector promises the scheduler, in    *)
(* terms of requests and blocks only: no tasks, peers, queues or threads.  *)
(* A load that has begun fills its blocks or loses them, ends when each is *)
(* one or the other, is reported once it has ended, and every output that  *)
(* reports it comes with the ids of the blocks it lost.                    *)
(***************************************************************************)
CONSTANTS
    Requests,
    Blocks          \* request -> the ids of the blocks its load fills

VARIABLES
    load,           \* request -> idle, loading, ended, reported
    written,        \* blocks that hold what was to be loaded
    lost,           \* blocks whose load has failed
    told,           \* ids the scheduler has been given as load errors
    telling         \* an output reports requests and still lacks the ids

vars == <<load, written, lost, told, telling>>

Init ==
    /\ load = [r \in Requests |-> "idle"]
    /\ written = {} /\ lost = {} /\ told = {}
    /\ telling = FALSE

\* start_load_kv: the requests of a batch are begun together.
Begin(B) ==
    /\ ~telling
    /\ \A r \in B : load[r] = "idle"
    /\ load' = [r \in Requests |-> IF r \in B THEN "loading" ELSE load[r]]
    /\ UNCHANGED <<written, lost, told, telling>>

\* Some blocks of a load that has not ended are written or lost, never both,
\* and the load may end if none is left.
Progress(r) ==
    /\ load[r] = "loading"
    /\ written \subseteq written' /\ lost \subseteq lost'
    /\ (written' \ written) \cup (lost' \ lost) \subseteq Blocks[r]
    /\ written' \cap lost' \cap Blocks[r] = {}
    /\ \/ load' = load
       \/ /\ Blocks[r] \subseteq written' \cup lost'
          /\ load' = [load EXCEPT ![r] = "ended"]
    /\ UNCHANGED <<told, telling>>

\* get_finished
Report(R) ==
    /\ ~telling
    /\ \A r \in R : load[r] = "ended"
    /\ load' = [r \in Requests |-> IF r \in R THEN "reported" ELSE load[r]]
    /\ telling' = TRUE
    /\ UNCHANGED <<written, lost, told>>

\* get_block_ids_with_load_errors: only lost blocks, and all those of the
\* requests reported so far.
Tell ==
    /\ telling
    /\ told \subseteq told' /\ told' \subseteq lost
    /\ \A r \in Requests : load[r] = "reported" => lost \cap Blocks[r] \subseteq told'
    /\ telling' = FALSE
    /\ UNCHANGED <<load, written, lost>>

Next ==
    \/ \E B \in SUBSET Requests : Begin(B) \/ Report(B)
    \/ \E r \in Requests : Progress(r)
    \/ Tell

Spec == Init /\ [][Next]_vars
=============================================================================
