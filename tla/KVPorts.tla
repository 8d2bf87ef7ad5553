------------------------------ MODULE KVPorts ------------------------------
(* Which prefill worker holds the part of the KV cache a decode worker      *)
(* needs under context parallelism: a worker has some heads and one share   *)
(* of the blocks, and is known by its port (given here as an offset from    *)
(* the first port of its side).                                             *)
EXTENDS Integers, Sequences, SequencesExt, FiniteSetsExt

CONSTANTS P, D,              \* the two sides: [tp, pcp, dcp]
          num_kv_head,       \* KV heads of the model; 1 for MLA
          r_blk              \* blocks of P in a block of D

cp_size(side) == side.pcp * side.dcp

(* The asserts of the code, and what vLLM requires of dcp: a head is spread *)
(* over dcp ranks that would else hold copies of it.                        *)
Supported ==
  /\ \A side \in {P, D} :
       IF num_kv_head >= side.tp
       THEN num_kv_head % side.tp = 0 /\ side.dcp = 1
       ELSE side.tp % num_kv_head = 0 /\ (side.tp \div num_kv_head) % side.dcp = 0
  /\ P.tp >= D.tp
  /\ cp_size(P) % cp_size(D) = 0
  /\ cp_size(D) > 1 => (cp_size(P) \div cp_size(D)) % r_blk = 0

-----------------------------------------------------------------------------
kv_head_groups(side) ==
  IF num_kv_head >= side.tp
  THEN LET n == num_kv_head \div side.tp
       IN [t \in 1 .. side.tp |-> (t - 1) * n .. (t - 1) * n + n - 1]
  ELSE [h \in 1 .. num_kv_head |-> {h - 1}]

(* Workers that hold a head group, and copies of each share among them.     *)
group_span(side) == side.tp \div Len(kv_head_groups(side))
dcp_repeat_num(side) == group_span(side) \div side.dcp

(* The ports of head group g in repetition i, by CP rank.                   *)
cp_group(side, g, i) ==
  [n \in 1 .. cp_size(side) |->
     ((n - 1) % side.dcp) + side.tp * ((n - 1) \div side.dcp)
       + side.dcp * (i - 1) + group_span(side) * (g - 1)]

(* The head groups of P that are part of head group g of D, in order.       *)
PGroups(g) ==
  SelectSeq([q \in 1 .. Len(kv_head_groups(P)) |-> q],
            LAMBDA q : kv_head_groups(P)[q] \subseteq kv_head_groups(D)[g])

(* The entry of local_remote_block_port_mappings for the worker of D at CP  *)
(* rank d_idx of head group g, repetition i: for each of P's head groups    *)
(* the ports to pull from. select_cp_groups_id deals the repetitions of P   *)
(* in turn to those of D.                                                   *)
port_mapping_first_only(g, i, d_idx) ==
  [h \in 1 .. Len(PGroups(g)) |->
     LET p_cp_group == cp_group(P, PGroups(g)[h], 1)
     IN FlattenSeq([n \in 1 .. cp_size(P) |->
          IF ((n - 1) \div r_blk) % cp_size(D) = d_idx
          THEN <<p_cp_group[n]>> ELSE <<>>])]

port_mapping(g, i, d_idx) ==
  [h \in 1 .. Len(PGroups(g)) |->
     LET p_cp_group == cp_group(P, PGroups(g)[h], ((i - 1) % dcp_repeat_num(P)) + 1)
     IN FlattenSeq([n \in 1 .. cp_size(P) |->
          IF ((n - 1) \div r_blk) % cp_size(D) = d_idx
          THEN <<p_cp_group[n]>> ELSE <<>>])]

(* The CP ranks of those ports: shard_cp_ranks before the last is moved.    *)
shard_cp_ranks(d_idx) ==
  SelectSeq([n \in 1 .. cp_size(P) |-> n - 1],
            LAMBDA cp : (cp \div r_blk) % cp_size(D) = d_idx)

Entries == {<<g, i, d>> : g \in 1 .. Len(kv_head_groups(D)),
                          i \in 1 .. dcp_repeat_num(D), d \in 0 .. cp_size(D) - 1}

remote_port_send_num(port) ==
  MapThenSumSet(LAMBDA e :
    Len(SelectSeq(FlattenSeq(port_mapping(e[1], e[2], e[3])),
                  LAMBDA remote_port : remote_port = port)), Entries)

-----------------------------------------------------------------------------
(* What vLLM puts on the worker at a port. *)
HeldHeads(side, port) ==
  LET t == port % side.tp
  IN IF num_kv_head >= side.tp
     THEN kv_head_groups(side)[t + 1] ELSE {t \div (side.tp \div num_kv_head)}

HeldShare(side, port) ==
  (port \div side.tp) * side.dcp + ((port % side.tp) % side.dcp)

(* Every decode worker finds itself in the table once, and the table sends  *)
(* it, for every share that it takes over and every group of its heads, to  *)
(* a prefill worker that has that share of those heads; together these are  *)
(* its heads in their order (get_local_remote_block_port_mappings).         *)
PortsHoldTheirShares ==
  /\ \A port \in 0 .. D.tp * D.pcp - 1 :
       \E e \in Entries : \A f \in Entries :
         (cp_group(D, f[1], f[2])[f[3] + 1] = port) = (f = e)
  /\ \A e \in Entries :
       LET mapping == port_mapping(e[1], e[2], e[3])
           worker == cp_group(D, e[1], e[2])[e[3] + 1]
           shares == shard_cp_ranks(e[3])
       IN /\ HeldShare(D, worker) = e[3]
          /\ HeldHeads(D, worker)
               = UNION {kv_head_groups(P)[q] : q \in ToSet(PGroups(e[1]))}
          /\ \A h \in 1 .. Len(mapping) :
               /\ Len(mapping[h]) = Len(shares)
               /\ \A n \in 1 .. Len(shares) :
                    /\ HeldShare(P, mapping[h][n]) = shares[n]
                    /\ HeldHeads(P, mapping[h][n]) = kv_head_groups(P)[PGroups(e[1])[h]]

(* The pulls of all decode workers, and with them the DONEs a prefill       *)
(* worker is told to wait for, are spread over the workers that hold the    *)
(* same share of the same heads: none has two more than another             *)
(* (select_cp_groups_id, get_remote_port_send_num).                         *)
DonesSpread ==
  \A g \in 1 .. Len(kv_head_groups(P)) : \A n \in 1 .. cp_size(P) :
    \A i, j \in 1 .. dcp_repeat_num(P) :
      remote_port_send_num(cp_group(P, g, i)[n])
        <= remote_port_send_num(cp_group(P, g, j)[n]) + 1
=============================================================================
