------------------------ MODULE MCKVCacheSendingThread ------------------------
(* TLC instance of KVCacheSendingThread. *)
EXTENDS KVCacheSendingThread, TLC

CONSTANTS r1, r2, d1, d2

\* Context parallel: two decode ranks read r1 from this rank; nobody reads r2,
\* for which one decode rank only signals that the port is free.  Otherwise one
\* decode rank reads r1, and r2 is read elsewhere.
MCReaders ==
    [cp_ \in BOOLEAN |->
        IF cp_ THEN (r1 :> {d1, d2}) @@ (r2 :> {d1})
        ELSE (r1 :> {d1}) @@ (r2 :> {})]

MCSendNum == (r1 :> 2) @@ (r2 :> 0)
=============================================================================
