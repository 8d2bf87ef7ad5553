--------------------- MODULE KVCacheSendingThreadProofs ---------------------
(***************************************************************************)
(* The prefill side reports every request at most once, gives no block up  *)
(* that is being read before its timeout, and leaves no expired request    *)
(* behind: for every set of requests and readers, every timeout and every  *)
(* number of scheduler outputs in flight.  The first half is about the     *)
(* entries of the requests to send, which keep their order and their       *)
(* deadlines on the way to delayed_free_requests.                          *)
(***************************************************************************)
EXTENDS KVCacheSendingThread, WellFoundedInduction, FiniteSetTheorems, TLAPS

-----------------------------------------------------------------------------
(* Sequences of entries. *)

Metas == [in_batch : SUBSET Requests, to_send : Seq(Entries)]

\* s holds nothing that t does not hold.
Within(s, t) == \A j \in 1..Len(s) : \E i \in 1..Len(t) : s[j] = t[i]

\* What holds of the entries of a sequence holds of a part of it.
LEMMA WithinFacts ==
    ASSUME NEW s, NEW t, NEW u, Within(s, t)
    PROVE  /\ Precedes(t, u) => Precedes(s, u)
           /\ Precedes(u, t) => Precedes(u, s)
           /\ AllOK(t) => AllOK(s)
BY Zenon DEF Within, Precedes, AllOK

\* The empty sequence is before and after any other.
LEMMA EmptyFacts ==
    /\ Ordered(<<>>) /\ AllOK(<<>>)
    /\ \A s : Precedes(s, <<>>) /\ Precedes(<<>>, s)
BY DEF Ordered, Precedes, AllOK

\* The first entry of an ordered sequence, and the others.
LEMMA TailFacts ==
    ASSUME NEW s \in Seq(Entries), s # <<>>
    PROVE  /\ Head(s) \in Entries
           /\ Tail(s) \in Seq(Entries)
           /\ Within(Tail(s), s)
           /\ Within(<<Head(s)>>, s)
           /\ Ordered(s) => Ordered(Tail(s)) /\ Precedes(<<Head(s)>>, Tail(s))
<1>1. /\ Len(s) \in Nat \ {0} /\ Head(s) = s[1] /\ Len(Tail(s)) = Len(s) - 1
      /\ \A i \in 1..Len(Tail(s)) : Tail(s)[i] = s[i + 1]
      /\ Head(s) \in Entries /\ Tail(s) \in Seq(Entries)
  OBVIOUS
<1>2. Within(Tail(s), s) /\ Within(<<Head(s)>>, s)
  BY <1>1 DEF Within
<1>3. Ordered(s) => Ordered(Tail(s))
  BY <1>1 DEF Ordered
<1>4. Ordered(s) => Precedes(<<Head(s)>>, Tail(s))
  BY <1>1 DEF Ordered, Precedes
<1> QED BY Zenon, <1>1, <1>2, <1>3, <1>4

\* An entry put at the end of an ordered sequence.
LEMMA AppendFacts ==
    ASSUME NEW s \in Seq(Entries), NEW e \in Entries, NEW u \in Seq(Entries)
    PROVE  /\ Append(s, e) \in Seq(Entries)
           /\ Ordered(s) /\ Precedes(s, <<e>>) => Ordered(Append(s, e))
           /\ Precedes(s, u) /\ Precedes(<<e>>, u) => Precedes(Append(s, e), u)
           /\ Precedes(u, s) /\ Precedes(u, <<e>>) => Precedes(u, Append(s, e))
           /\ AllOK(s) /\ EntryOK(e) => AllOK(Append(s, e))
<1>1. /\ Len(s) \in Nat /\ Len(Append(s, e)) = Len(s) + 1
      /\ \A i \in 1..Len(s) : Append(s, e)[i] = s[i]
      /\ Append(s, e)[Len(s) + 1] = e
      /\ Append(s, e) \in Seq(Entries)
  OBVIOUS
<1>2. /\ Len(<<e>>) = 1 /\ <<e>>[1] = e
  BY Zenon
<1>3. Ordered(s) /\ Precedes(s, <<e>>) => Ordered(Append(s, e))
  BY <1>1, <1>2 DEF Ordered, Precedes
<1>4. Precedes(s, u) /\ Precedes(<<e>>, u) => Precedes(Append(s, e), u)
  BY <1>1, <1>2 DEF Precedes
<1>5. Precedes(u, s) /\ Precedes(u, <<e>>) => Precedes(u, Append(s, e))
  BY <1>1, <1>2 DEF Precedes
<1>6. AllOK(s) /\ EntryOK(e) => AllOK(Append(s, e))
  BY <1>1 DEF AllOK
<1> QED BY Zenon, <1>1, <1>3, <1>4, <1>5, <1>6

\* What is left of an ordered sequence when its first n entries are dropped.
LEMMA DropFacts ==
    ASSUME NEW s \in Seq(Entries), NEW n \in 0..Len(s)
    PROVE  LET d == SubSeq(s, n + 1, Len(s))
           IN  /\ d \in Seq(Entries)
               /\ Len(d) = Len(s) - n
               /\ \A i \in 1..Len(d) : d[i] = s[i + n]
               /\ Within(d, s)
               /\ Ordered(s) => Ordered(d)
<1> DEFINE d == SubSeq(s, n + 1, Len(s))
<1>1. /\ Len(s) \in Nat /\ d \in Seq(Entries) /\ Len(d) = Len(s) - n
      /\ \A i \in 1..Len(d) : d[i] = s[i + n]
  OBVIOUS
<1> HIDE DEF d
<1>2. Within(d, s)
  BY <1>1 DEF Within
<1>3. Ordered(s) => Ordered(d)
  BY <1>1 DEF Ordered
<1> QED BY Zenon, <1>1, <1>2, <1>3 DEF d

-----------------------------------------------------------------------------
(* The tracker. *)

\* A set of natural numbers has a least element.
LEMMA LeastNat ==
    ASSUME NEW T \in SUBSET Nat, T # {}
    PROVE  \E m \in T : \A k \in T : m <= k
<1> DEFINE Less == {p \in Nat \X Nat : p[1] < p[2]}
<1>1. IsWellFoundedOn(Less, Nat)
  BY NatLessThanWellFounded, Zenon DEF OpToRel
<1> HIDE DEF Less
<1>2. PICK m \in T : \A k \in T : ~(<<k, m>> \in Less)
  BY <1>1, WFMin, Zenon
<1>3. \A k \in T : k < m => <<k, m>> \in Less
  BY Zenon DEF Less
<1>4. ASSUME NEW k \in T PROVE m <= k
  <2>1. k \in Nat /\ m \in Nat /\ ~(k < m)
    BY <1>2, <1>3, Zenon
  <2> QED BY <2>1
<1> QED BY Zenon, <1>4

\* _retrieve_expired_requests stops where it says it does.
LEMMA ExpiredFacts ==
    ASSUME delayed_free_requests \in Seq(Entries), NEW t \in Nat
    PROVE  /\ NumExpired(t) \in 0..Len(delayed_free_requests)
           /\ \A i \in 1..NumExpired(t) : IsExpired(i, t)
           /\ NumExpired(t) < Len(delayed_free_requests)
                 => ~IsExpired(NumExpired(t) + 1, t)
<1> DEFINE L == Len(delayed_free_requests)
           T == {n \in 0..L : n < L => ~IsExpired(n + 1, t)}
<1>1. L \in Nat
  OBVIOUS
<1> HIDE DEF L
<1>2. T \in SUBSET Nat /\ L \in T
  BY <1>1
<1>3. PICK m \in T : \A k \in T : m <= k
  <2>1. T # {}
    BY Zenon, <1>2
  <2> HIDE DEF T
  <2> QED BY <1>2, <2>1, LeastNat, Zenon
<1>4. ASSUME NEW i \in 1..m PROVE IsExpired(i, t)
  <2>1. i - 1 \in 0..L /\ i - 1 < m /\ i - 1 < L /\ (i - 1) + 1 = i
    BY <1>1
  <2>2. i - 1 \notin T
    <3>1. i - 1 \in T => m <= i - 1
      BY <1>3, Zenon
    <3> QED BY <3>1, <2>1, <1>1
  <2> QED BY Zenon, <2>1, <2>2
<1>5. \E n \in 0..L : (\A i \in 1..n : IsExpired(i, t)) /\ (n < L => ~IsExpired(n + 1, t))
  BY Zenon, <1>3, <1>4
<1> QED BY <1>5, Zenon DEF NumExpired, L

\* delayed_free_requests.pop(r, None): the other entries stay, in their order.
LEMMA WithoutFacts ==
    ASSUME NEW r, delayed_free_requests \in Seq(Entries), Ordered(delayed_free_requests)
    PROVE  /\ Without(r) \in Seq(Entries)
           /\ Ordered(Without(r))
           /\ Within(Without(r), delayed_free_requests)
           /\ \A j \in 1..Len(Without(r)) : Without(r)[j].req # r
<1> DEFINE s == delayed_free_requests
<1>1. CASE r \notin Delayed
  BY Zenon, <1>1 DEF Without, Within, Delayed
<1>2. CASE r \in Delayed
  <2> DEFINE i == CHOOSE j \in 1..Len(s) : s[j].req = r
             w == [j \in 1..(Len(s) - 1) |-> s[IF j < i THEN j ELSE j + 1]]
  <2>1. i \in 1..Len(s) /\ s[i].req = r
    BY Zenon, <1>2 DEF Delayed
  <2>2. Without(r) = w
    BY <1>2, Zenon DEF Without
  <2> HIDE DEF i
  <2>3. /\ Len(s) \in Nat \ {0} /\ w \in Seq(Entries) /\ Len(w) = Len(s) - 1
        /\ \A j \in 1..Len(w) : w[j] = s[IF j < i THEN j ELSE j + 1]
    BY <2>1
  <2> HIDE DEF w
  <2>4. Within(w, s)
    BY <2>1, <2>3 DEF Within
  <2>5. Ordered(w)
    <3> SUFFICES ASSUME NEW a \in 1..Len(w), NEW b \in 1..Len(w), a < b
                 PROVE  Later(w[a], w[b])
      BY Zenon DEF Ordered
    <3>1. \E x, y \in 1..Len(s) : x < y /\ w[a] = s[x] /\ w[b] = s[y]
      <4> DEFINE x == IF a < i THEN a ELSE a + 1
                 y == IF b < i THEN b ELSE b + 1
      <4>1. x \in 1..Len(s) /\ y \in 1..Len(s) /\ x < y
        BY <2>1, <2>3
      <4>2. w[a] = s[x] /\ w[b] = s[y]
        BY Zenon, <2>3
      <4> HIDE DEF x, y
      <4> QED BY Zenon, <4>1, <4>2
    <3> QED BY Zenon, <3>1 DEF Ordered
  <2>6. \A j \in 1..Len(w) : w[j].req # r
    BY <2>1, <2>3 DEF Ordered, Later
  <2> QED BY Zenon, <2>2, <2>3, <2>4, <2>5, <2>6
<1> QED BY Zenon, <1>1, <1>2

\* What get_finished takes out and what it leaves.
LEMMA ClearFacts ==
    ASSUME delayed_free_requests \in Seq(Entries), Ordered(delayed_free_requests),
           NEW t \in Nat, get_and_clear_finished_requests(t)
    PROVE  /\ retrieve_expired_requests(t) \subseteq Delayed
           /\ delayed_free_requests' \in Seq(Entries)
           /\ Within(delayed_free_requests', delayed_free_requests)
           /\ Ordered(delayed_free_requests')
           /\ Delayed' \subseteq Delayed \ retrieve_expired_requests(t)
           /\ \A i \in 1..Len(delayed_free_requests') :
                  t - delayed_free_requests'[i].start <= ABORT_REQUEST_TIMEOUT
<1> DEFINE s == delayed_free_requests
           n == NumExpired(t)
<1>1. /\ n \in 0..Len(s)
      /\ n < Len(s) => ~IsExpired(n + 1, t)
  BY Zenon, ExpiredFacts
<1>2. delayed_free_requests' = SubSeq(s, n + 1, Len(s))
  BY Zenon DEF get_and_clear_finished_requests
<1>3. retrieve_expired_requests(t) = {s[i].req : i \in 1..n}
  BY Zenon DEF retrieve_expired_requests
<1> HIDE DEF n
<1>4. /\ delayed_free_requests' \in Seq(Entries)
      /\ Len(delayed_free_requests') = Len(s) - n
      /\ \A i \in 1..Len(delayed_free_requests') : delayed_free_requests'[i] = s[i + n]
      /\ Within(delayed_free_requests', s)
      /\ Ordered(delayed_free_requests')
  BY <1>1, <1>2, DropFacts, Zenon
<1>5. /\ Len(s) \in Nat
      /\ \A i \in 1..Len(s) : s[i].start \in Nat
  <2>1. \A e \in Entries : e.start \in Nat
    BY Zenon DEF Entries
  <2> QED BY <2>1
<1>6. retrieve_expired_requests(t) \subseteq Delayed
  BY <1>1, <1>3, <1>5 DEF Delayed
<1>7. ASSUME NEW r \in Delayed'
      PROVE  r \in Delayed /\ r \notin retrieve_expired_requests(t)
  <2>1. PICK i \in 1..Len(delayed_free_requests') : r = delayed_free_requests'[i].req
    BY Zenon DEF Delayed
  <2>2. i + n \in 1..Len(s) /\ r = s[i + n].req /\ \A j \in 1..n : j \in 1..Len(s) /\ j < i + n
    BY <2>1, <1>1, <1>4, <1>5
  <2>3. r \in Delayed
    BY Zenon, <2>2 DEF Delayed
  <2>4. \A j \in 1..n : s[j].req # r
    BY Zenon, <2>2 DEF Ordered, Later
  <2> QED BY Zenon, <2>3, <2>4, <1>3
<1>9. ASSUME NEW i \in 1..Len(delayed_free_requests')
      PROVE  t - delayed_free_requests'[i].start <= ABORT_REQUEST_TIMEOUT
  <2>1. /\ n + 1 \in 1..Len(s) /\ i + n \in 1..Len(s) /\ n + 1 <= i + n /\ n < Len(s)
        /\ delayed_free_requests'[i] = s[i + n]
    BY <1>1, <1>4, <1>5
  <2>2. s[n + 1].start <= s[i + n].start
    BY <2>1, <1>1, <1>5 DEF Ordered, Later
  <2>3. ~(t - s[n + 1].start > ABORT_REQUEST_TIMEOUT)
    BY Zenon, <1>1, <2>1 DEF IsExpired
  <2>4. s[n + 1].start \in Nat /\ s[i + n].start \in Nat
    BY Zenon, <2>1, <1>5
  <2>5. \A a, b \in Nat : a <= b /\ ~(t - a > ABORT_REQUEST_TIMEOUT)
            => t - b <= ABORT_REQUEST_TIMEOUT
    BY TimeoutAssumption
  <2> QED BY Zenon, <2>1, <2>2, <2>3, <2>4, <2>5
<1> QED BY Zenon, <1>4, <1>6, <1>7, <1>9

\* What a DONE that counts does to the tracker.
LEMMA UpdateFacts ==
    ASSUME delayed_free_requests \in Seq(Entries), Ordered(delayed_free_requests),
           NEW r, update_done_task_count(r)
    PROVE  /\ delayed_free_requests' \in Seq(Entries)
           /\ Within(delayed_free_requests', delayed_free_requests)
           /\ Ordered(delayed_free_requests')
           /\ Delayed' \subseteq Delayed
           /\ r \in reqs_to_process =>
                 /\ finished_requests' = finished_requests \cup {r}
                 /\ reqs_to_process' = reqs_to_process \ {r}
                 /\ r \notin Delayed'
           /\ r \notin reqs_to_process =>
                 UNCHANGED <<finished_requests, reqs_to_process>>
<1>1. CASE r \in reqs_to_process
  <2>1. /\ finished_requests' = finished_requests \cup {r}
        /\ reqs_to_process' = reqs_to_process \ {r}
        /\ delayed_free_requests' = Without(r)
    BY Zenon, <1>1 DEF update_done_task_count
  <2>2. /\ delayed_free_requests' \in Seq(Entries)
        /\ Within(delayed_free_requests', delayed_free_requests)
        /\ Ordered(delayed_free_requests')
        /\ \A j \in 1..Len(delayed_free_requests') : delayed_free_requests'[j].req # r
    BY <2>1, WithoutFacts, Zenon
  <2>3. Delayed' \subseteq Delayed /\ r \notin Delayed'
    BY Zenon, <2>2 DEF Within, Delayed
  <2> QED BY Zenon, <1>1, <2>1, <2>2, <2>3
<1>2. CASE r \notin reqs_to_process
  <2>1. UNCHANGED <<finished_requests, delayed_free_requests, reqs_to_process>>
    BY Zenon, <1>2 DEF update_done_task_count, trackerVars
  <2>2. Delayed' = Delayed
    BY Zenon, <2>1 DEF Delayed
  <2> QED BY Zenon, <1>2, <2>1, <2>2 DEF Within
<1> QED BY Zenon, <1>1, <1>2

\* An entry that is sent is tracked behind those before it.
LEMMA AddDelayedFacts ==
    ASSUME delayed_free_requests \in Seq(Entries), NEW e \in Entries,
           Precedes(delayed_free_requests, <<e>>), add_delayed_request(e.req, e.start)
    PROVE  /\ UNCHANGED <<finished_requests, reqs_to_process>>
           /\ e.req \in reqs_to_process =>
                 /\ delayed_free_requests' = Append(delayed_free_requests, e)
                 /\ Delayed' = Delayed \cup {e.req}
           /\ e.req \notin reqs_to_process => UNCHANGED delayed_free_requests
<1>1. e.req \notin Delayed
  BY DEF Precedes, Later, Delayed
<1>2. e = [req |-> e.req, start |-> e.start]
  BY Zenon DEF Entries
<1>3. e.req \in reqs_to_process => delayed_free_requests' = Append(delayed_free_requests, e)
  BY Zenon, <1>1, <1>2 DEF add_delayed_request, With
<1>4. e.req \in reqs_to_process => Delayed' = Delayed \cup {e.req}
  BY <1>3 DEF Delayed
<1> QED BY Zenon, <1>3, <1>4 DEF add_delayed_request

-----------------------------------------------------------------------------
(* Types. *)

\* TypeOK with the types of the sequences named.
LEMMA TypeFacts ==
    TypeOK <=>
    /\ finished_requests \subseteq Requests
    /\ delayed_free_requests \in Seq(Entries)
    /\ reqs_to_process \subseteq Requests
    /\ cp \in BOOLEAN
    /\ now \in 0..MaxTime
    /\ status \in [Requests -> {"waiting", "running", "finished", "freed"}]
    /\ reqs_in_batch \subseteq Requests
    /\ reqs_need_send \in Seq(Entries)
    /\ metas \in Seq(Metas)
    /\ to_send \in Seq(Entries)
    /\ port_send_num \in [Requests -> Nat]
    /\ reading \subseteq Dones /\ wire \subseteq Dones /\ handled \subseteq Dones
    /\ reports \in [Requests -> Nat]
    /\ expired \subseteq Requests
BY Zenon DEF TypeOK, TrackerTypeOK, Entries, Metas

\* Everything that is queued is an entry of a request.
LEMMA EntryFacts ==
    /\ \A e \in Entries : e.req \in Requests /\ e.start \in Nat
    /\ \A r \in Requests, t \in Nat :
           /\ Entry(r, t) \in Entries
           /\ Entry(r, t).req = r /\ Entry(r, t).start = t
    /\ \A s \in Seq(Metas), k \in Nat :
           k \in 1..Len(s) => s[k].in_batch \subseteq Requests /\ s[k].to_send \in Seq(Entries)
    /\ \A m \in Dones : m.req \in Requests
<1>1. /\ \A e \in Entries : e.req \in Requests /\ e.start \in Nat
      /\ \A r \in Requests, t \in Nat :
             /\ Entry(r, t) \in Entries
             /\ Entry(r, t).req = r /\ Entry(r, t).start = t
  BY Zenon DEF Entries, Entry
<1>2. \A m \in Metas : m.in_batch \subseteq Requests /\ m.to_send \in Seq(Entries)
  BY Zenon DEF Metas
<1>3. \A m \in Dones : m.req \in Requests
  BY DEF Dones
<1> QED BY <1>1, <1>2, <1>3

\* Before the first scheduler step every variable has its type.
LEMMA InitTypes == Init => TypeOK
<1> SUFFICES ASSUME Init PROVE TypeOK
  BY Zenon
<1>1. /\ <<>> \in Seq(Entries) /\ <<>> \in Seq(Metas)
      /\ 0 \in 0..MaxTime
  BY BoundsAssumption
<1> QED BY Zenon, <1>1, TypeFacts DEF Init, TrackerInit

\* Every step of the program keeps the types.
LEMMA NextTypes ==
    ASSUME TypeOK, Ordered(delayed_free_requests),
           Precedes(delayed_free_requests, to_send), [Next]_vars
    PROVE  TypeOK'
<1>t. /\ finished_requests \subseteq Requests
      /\ delayed_free_requests \in Seq(Entries)
      /\ reqs_to_process \subseteq Requests
      /\ cp \in BOOLEAN
      /\ now \in 0..MaxTime
      /\ status \in [Requests -> {"waiting", "running", "finished", "freed"}]
      /\ reqs_in_batch \subseteq Requests
      /\ reqs_need_send \in Seq(Entries)
      /\ metas \in Seq(Metas)
      /\ to_send \in Seq(Entries)
      /\ port_send_num \in [Requests -> Nat]
      /\ reading \subseteq Dones /\ wire \subseteq Dones /\ handled \subseteq Dones
      /\ reports \in [Requests -> Nat]
      /\ expired \subseteq Requests
  BY Zenon, TypeFacts
<1> DEFINE Goal ==
      /\ finished_requests' \subseteq Requests
      /\ delayed_free_requests' \in Seq(Entries)
      /\ reqs_to_process' \subseteq Requests
      /\ cp' \in BOOLEAN
      /\ now' \in 0..MaxTime
      /\ status' \in [Requests -> {"waiting", "running", "finished", "freed"}]
      /\ reqs_in_batch' \subseteq Requests
      /\ reqs_need_send' \in Seq(Entries)
      /\ metas' \in Seq(Metas)
      /\ to_send' \in Seq(Entries)
      /\ port_send_num' \in [Requests -> Nat]
      /\ reading' \subseteq Dones /\ wire' \subseteq Dones /\ handled' \subseteq Dones
      /\ reports' \in [Requests -> Nat]
      /\ expired' \subseteq Requests
<1>g. ASSUME Goal, cp' = cp PROVE TypeOK'
  <2>1. Dones' = Dones
    BY <1>g DEF Dones
  <2> QED BY <1>g, <2>1, Zenon DEF TypeOK, TrackerTypeOK, Entries, Metas
<1>1. ASSUME NEW r \in Requests, update_state_after_alloc(r) PROVE Goal /\ cp' = cp
  BY Zenon, <1>1, <1>t DEF update_state_after_alloc, trackerVars, workerVars, decodeVars, reportVars
<1>2. ASSUME NEW r \in Requests, preempt(r) PROVE Goal /\ cp' = cp
  BY Zenon, <1>2, <1>t DEF preempt, trackerVars, workerVars, decodeVars, reportVars
<1>3. ASSUME NEW r \in Requests, request_finished(r) PROVE Goal /\ cp' = cp
  <2>1. Entry(r, now) \in Entries
    <3>1. now \in Nat
      BY <1>t, BoundsAssumption
    <3> QED BY <3>1, EntryFacts, Zenon
  <2> QED BY <1>3, <1>t, <2>1 DEF request_finished, trackerVars, workerVars, decodeVars, reportVars
<1>4. ASSUME NEW r \in Requests, request_finished_early(r) PROVE Goal /\ cp' = cp
  BY Zenon, <1>4, <1>t DEF request_finished_early, trackerVars, workerVars, decodeVars, reportVars
<1>5. ASSUME build_connector_meta PROVE Goal /\ cp' = cp
  <2>1. [in_batch |-> reqs_in_batch, to_send |-> reqs_need_send] \in Metas
    BY Zenon, <1>t DEF Metas
  <2> QED BY <1>5, <1>t, <2>1
      DEF build_connector_meta, trackerVars, workerVars, decodeVars, reportVars
<1>6. ASSUME start_load_kv PROVE Goal /\ cp' = cp
  <2>1. /\ Head(metas) \in Metas /\ Tail(metas) \in Seq(Metas)
    BY <1>6, <1>t DEF start_load_kv
  <2>2. Head(metas).in_batch \subseteq Requests /\ Head(metas).to_send \in Seq(Entries)
    BY Zenon, <2>1 DEF Metas
  <2> QED BY Zenon, <1>6, <1>t, <2>1, <2>2
      DEF start_load_kv, add_req_to_process, schedVars, decodeVars, reportVars
<1>7. ASSUME send_next PROVE Goal /\ cp' = cp
  <2> DEFINE e == Head(to_send)
  <2>1. /\ e \in Entries /\ Tail(to_send) \in Seq(Entries) /\ to_send' = Tail(to_send)
        /\ Within(<<e>>, to_send) /\ e.req \in Requests
    BY Zenon, <1>7, <1>t, TailFacts, EntryFacts DEF send_next
  <2>2. /\ finished_requests' \subseteq Requests
        /\ delayed_free_requests' \in Seq(Entries)
        /\ reqs_to_process' \subseteq Requests
    <3>1. CASE sends(e.req)
      <4>1. Precedes(delayed_free_requests, <<e>>)
        BY Zenon, <2>1, WithinFacts
      <4>2. add_delayed_request(e.req, e.start)
        BY Zenon, <1>7, <3>1 DEF send_next
      <4> HIDE DEF e
      <4>3. Append(delayed_free_requests, e) \in Seq(Entries)
        BY <1>t, <2>1
      <4> QED BY <1>t, <2>1, <4>1, <4>2, <4>3, AddDelayedFacts, Zenon
    <3>2. CASE ~sends(e.req)
      <4>1. add_not_transfer_request(e.req)
        BY Zenon, <1>7, <3>2 DEF send_next
      <4> QED BY Zenon, <1>t, <2>1, <4>1 DEF add_not_transfer_request
    <3> QED BY Zenon, <3>1, <3>2
  <2> QED BY Zenon, <1>7, <1>t, <2>1, <2>2 DEF send_next, schedVars, decodeVars, reportVars
<1>8. ASSUME get_finished PROVE Goal /\ cp' = cp
  <2>1. /\ get_and_clear_finished_requests(now) /\ now \in Nat
        /\ Delayed \subseteq Requests
    BY <1>8, <1>t, EntryFacts, BoundsAssumption DEF get_finished, Delayed
  <2>2. /\ retrieve_expired_requests(now) \subseteq Delayed
        /\ delayed_free_requests' \in Seq(Entries)
    BY Zenon, <2>1, <1>t, ClearFacts
  <2>3. /\ finished_requests' = {} /\ reqs_to_process' \subseteq reqs_to_process
    BY Zenon, <2>1 DEF get_and_clear_finished_requests
  <2>4. reports' \in [Requests -> Nat]
    BY <1>8, <1>t DEF get_finished
  <2> QED BY Zenon, <1>8, <1>t, <2>1, <2>2, <2>3, <2>4
      DEF get_finished, schedVars, workerVars, decodeVars
<1>9. ASSUME NEW m \in Dones, done_recving(m) PROVE Goal /\ cp' = cp
  <2>1. m.req \in Requests
    BY Zenon, EntryFacts
  <2>2. /\ finished_requests' \subseteq Requests
        /\ delayed_free_requests' \in Seq(Entries)
        /\ reqs_to_process' \subseteq Requests
        /\ port_send_num' \in [Requests -> Nat]
    <3>1. CASE cp /\ ~enough_dones(m.req)
      BY <3>1, <1>9, <1>t, <2>1 DEF done_recving, trackerVars
    <3>2. CASE ~(cp /\ ~enough_dones(m.req))
      <4>1. update_done_task_count(m.req) /\ port_send_num' = [port_send_num EXCEPT ![m.req] = 0]
        BY Zenon, <3>2, <1>9 DEF done_recving
      <4>2. port_send_num' \in [Requests -> Nat]
        BY <4>1, <1>t, Zenon
      <4>3. /\ delayed_free_requests' \in Seq(Entries)
            /\ finished_requests' \subseteq finished_requests \cup {m.req}
            /\ reqs_to_process' \subseteq reqs_to_process
        BY Zenon, <4>1, <1>t, UpdateFacts
      <4> QED BY Zenon, <4>2, <4>3, <1>t, <2>1
    <3> QED BY Zenon, <3>1, <3>2
  <2> QED BY Zenon, <1>9, <1>t, <2>2 DEF done_recving, schedVars, workerVars, reportVars
<1>10. ASSUME NEW m \in Dones, begin_read(m) PROVE Goal /\ cp' = cp
  BY Zenon, <1>10, <1>t DEF begin_read, trackerVars, schedVars, workerVars, reportVars
<1>11. ASSUME NEW m \in Dones, send_done(m) PROVE Goal /\ cp' = cp
  BY Zenon, <1>11, <1>t DEF send_done, trackerVars, schedVars, workerVars, reportVars
<1>12. ASSUME NEW m \in Dones, send_done_again(m) PROVE Goal /\ cp' = cp
  BY Zenon, <1>12, <1>t DEF send_done_again, trackerVars, schedVars, workerVars, reportVars
<1>13. ASSUME Tick PROVE Goal /\ cp' = cp
  BY <1>13, <1>t, BoundsAssumption
    DEF Tick, trackerVars, schedVars, workerVars, decodeVars, reportVars
<1>14. ASSUME UNCHANGED vars PROVE Goal /\ cp' = cp
  BY Zenon, <1>14, <1>t DEF vars, trackerVars, schedVars, workerVars, decodeVars, reportVars
<1> HIDE DEF Goal
<1> QED
  BY Zenon, <1>g, <1>1, <1>2, <1>3, <1>4, <1>5, <1>6, <1>7, <1>8, <1>9, <1>10, <1>11,
    <1>12, <1>13, <1>14
    DEF Next

-----------------------------------------------------------------------------
(* Entries keep their order. *)

\* No request has been sent to the worker yet, so nothing is out of order.
LEMMA InitOrder == Init => EntryOrder
BY EmptyFacts DEF Init, TrackerInit, EntryOrder

\* Everything queued is before an entry made now for a request that runs.
LEMMA NewEntryIsLast ==
    ASSUME NEW s \in Seq(Entries), NEW r \in Requests, now \in Nat,
           AllOK(s), status[r] # "finished"
    PROVE  Precedes(s, <<Entry(r, now)>>)
<1>1. /\ <<Entry(r, now)>>[1].req = r /\ <<Entry(r, now)>>[1].start = now
      /\ Len(<<Entry(r, now)>>) = 1
  BY Zenon, EntryFacts
<1>2. \A i \in 1..Len(s) : s[i].start <= now /\ s[i].req # r
  BY Zenon DEF AllOK, EntryOK
<1> QED BY <1>1, <1>2 DEF Precedes, Later

\* No step of the program lets an entry overtake another.
LEMMA NextOrder ==
    ASSUME TypeOK, EntryOrder, EntriesOK, [Next]_vars
    PROVE  EntryOrder'
<1>t. /\ delayed_free_requests \in Seq(Entries) /\ to_send \in Seq(Entries)
      /\ reqs_need_send \in Seq(Entries) /\ metas \in Seq(Metas)
      /\ status \in [Requests -> {"waiting", "running", "finished", "freed"}]
      /\ now \in Nat
  BY TypeFacts, BoundsAssumption
<1>m. \A k \in 1..Len(metas) : metas[k].to_send \in Seq(Entries)
  BY <1>t, EntryFacts
<1>o. /\ Ordered(delayed_free_requests) /\ Ordered(to_send) /\ Ordered(reqs_need_send)
      /\ Precedes(delayed_free_requests, to_send)
      /\ Precedes(delayed_free_requests, reqs_need_send)
      /\ Precedes(to_send, reqs_need_send)
      /\ \A k \in 1..Len(metas) :
             /\ Ordered(metas[k].to_send)
             /\ Precedes(delayed_free_requests, metas[k].to_send)
             /\ Precedes(to_send, metas[k].to_send)
             /\ Precedes(metas[k].to_send, reqs_need_send)
             /\ \A l \in 1..Len(metas) :
                    k < l => Precedes(metas[k].to_send, metas[l].to_send)
  BY Zenon DEF EntryOrder
\* The three ways in which the sequences change.
<1>d. ASSUME UNCHANGED <<to_send, reqs_need_send, metas>>,
             Within(delayed_free_requests', delayed_free_requests),
             Ordered(delayed_free_requests')
      PROVE  EntryOrder'
  BY <1>d, <1>o, WithinFacts, Zenon DEF EntryOrder
<1>u. ASSUME UNCHANGED <<delayed_free_requests, to_send, reqs_need_send, metas>>
      PROVE  EntryOrder'
  BY <1>u, <1>o, Zenon DEF EntryOrder
<1>3. ASSUME NEW r \in Requests, request_finished(r) PROVE EntryOrder'
  <2> DEFINE e == Entry(r, now)
  <2>1. /\ reqs_need_send' = Append(reqs_need_send, e)
        /\ UNCHANGED <<delayed_free_requests, to_send, metas>>
        /\ status[r] # "finished"
    BY Zenon, <1>3, <1>t DEF request_finished, Prefilled, trackerVars, workerVars
  <2>2. e \in Entries
    BY Zenon, <1>t, EntryFacts
  <2>3. /\ Precedes(delayed_free_requests, <<e>>) /\ Precedes(to_send, <<e>>)
        /\ Precedes(reqs_need_send, <<e>>)
        /\ \A k \in 1..Len(metas) : Precedes(metas[k].to_send, <<e>>)
    BY Zenon, <2>1, <1>t, <1>m, NewEntryIsLast DEF EntriesOK
  <2> HIDE DEF e
  <2>4. /\ Ordered(reqs_need_send')
        /\ Precedes(delayed_free_requests, reqs_need_send')
        /\ Precedes(to_send, reqs_need_send')
        /\ \A k \in 1..Len(metas) : Precedes(metas[k].to_send, reqs_need_send')
    BY Zenon, <2>1, <2>2, <2>3, <1>t, <1>m, <1>o, AppendFacts
  <2> QED BY <2>1, <2>4, <1>o, Zenon DEF EntryOrder
<1>5. ASSUME build_connector_meta PROVE EntryOrder'
  <2> DEFINE b == [in_batch |-> reqs_in_batch, to_send |-> reqs_need_send]
  <2>1. /\ UNCHANGED <<delayed_free_requests, to_send>>
        /\ reqs_need_send' = <<>> /\ metas' = Append(metas, b)
        /\ b.to_send = reqs_need_send
    BY Zenon, <1>5 DEF build_connector_meta, trackerVars
  <2> HIDE DEF b
  <2>2. /\ Len(metas) \in Nat /\ Len(metas') = Len(metas) + 1
        /\ \A k \in 1..Len(metas) : metas'[k] = metas[k]
        /\ metas'[Len(metas) + 1].to_send = reqs_need_send
    BY <2>1, <1>t
  <2>3. ASSUME NEW k \in 1..Len(metas')
        PROVE  \/ k \in 1..Len(metas) /\ metas'[k] = metas[k]
               \/ k = Len(metas) + 1 /\ metas'[k].to_send = reqs_need_send
    BY <2>2
  <2>4. ASSUME NEW k \in 1..Len(metas')
        PROVE  /\ Ordered(metas'[k].to_send)
               /\ Precedes(delayed_free_requests, metas'[k].to_send)
               /\ Precedes(to_send, metas'[k].to_send)
    BY Zenon, <2>3, <1>o
  <2>5. ASSUME NEW k \in 1..Len(metas'), NEW l \in 1..Len(metas'), k < l
        PROVE  Precedes(metas'[k].to_send, metas'[l].to_send)
    <3>1. k \in 1..Len(metas) /\ metas'[k] = metas[k]
      BY <2>2, <2>5
    <3> QED BY Zenon, <3>1, <2>3, <2>5, <1>o
  <2> QED BY <2>1, <2>4, <2>5, <1>o, EmptyFacts, Zenon DEF EntryOrder
<1>6. ASSUME start_load_kv PROVE EntryOrder'
  <2>1. /\ UNCHANGED <<delayed_free_requests, reqs_need_send>>
        /\ metas # <<>> /\ metas' = Tail(metas) /\ to_send' = Head(metas).to_send
    BY Zenon, <1>6 DEF start_load_kv, add_req_to_process, schedVars
  <2>2. /\ 1 \in 1..Len(metas) /\ to_send' = metas[1].to_send
        /\ \A k \in 1..Len(metas') :
              k + 1 \in 1..Len(metas) /\ 1 < k + 1 /\ metas'[k] = metas[k + 1]
        /\ \A k, l \in 1..Len(metas') : k < l => k + 1 < l + 1
    BY <2>1, <1>t
  <2> QED BY <2>1, <2>2, <1>o, Zenon DEF EntryOrder
<1>7. ASSUME send_next PROVE EntryOrder'
  <2> DEFINE e == Head(to_send)
  <2>1. /\ UNCHANGED <<reqs_need_send, metas>> /\ to_send' = Tail(to_send) /\ to_send # <<>>
    BY Zenon, <1>7 DEF send_next, schedVars
  <2>2. /\ e \in Entries /\ to_send' \in Seq(Entries) /\ Within(to_send', to_send)
        /\ Within(<<e>>, to_send) /\ Ordered(to_send') /\ Precedes(<<e>>, to_send')
    BY Zenon, <2>1, <1>t, <1>o, TailFacts
  <2>3. /\ Precedes(delayed_free_requests, <<e>>) /\ Precedes(<<e>>, reqs_need_send)
        /\ Precedes(delayed_free_requests, to_send') /\ Precedes(to_send', reqs_need_send)
        /\ \A k \in 1..Len(metas) : /\ Precedes(<<e>>, metas[k].to_send)
                                    /\ Precedes(to_send', metas[k].to_send)
    <3> HIDE DEF e
    <3>1. /\ Precedes(delayed_free_requests, <<e>>) /\ Precedes(<<e>>, reqs_need_send)
          /\ \A k \in 1..Len(metas) : Precedes(<<e>>, metas[k].to_send)
      BY <2>2, <1>o, WithinFacts, Zenon
    <3>2. Within(to_send', to_send)
      BY Zenon, <2>2
    <3>3. Precedes(delayed_free_requests, to_send') /\ Precedes(to_send', reqs_need_send)
      BY <3>2, <1>o, WithinFacts, Zenon
    <3>4. ASSUME NEW k \in 1..Len(metas) PROVE Precedes(to_send', metas[k].to_send)
      <4> DEFINE u == metas[k].to_send
      <4>1. Precedes(to_send, u)
        BY Zenon, <1>o
      <4> HIDE DEF u
      <4>2. Precedes(to_send', u)
        BY <4>1, <3>2, WithinFacts, Zenon
      <4> QED BY Zenon, <4>2 DEF u
    <3> QED BY Zenon, <3>1, <3>3, <3>4
  <2>4. \/ delayed_free_requests' = delayed_free_requests
        \/ delayed_free_requests' = Append(delayed_free_requests, e)
    <3>1. CASE sends(e.req)
      BY <1>7, <3>1, <2>2, <2>3, <1>t, AddDelayedFacts, Zenon DEF send_next
    <3>2. CASE ~sends(e.req)
      BY Zenon, <1>7, <3>2 DEF send_next, add_not_transfer_request
    <3> QED BY Zenon, <3>1, <3>2
  <2> HIDE DEF e
  <2>5. /\ Ordered(delayed_free_requests') /\ Precedes(delayed_free_requests', to_send')
        /\ Precedes(delayed_free_requests', reqs_need_send)
        /\ \A k \in 1..Len(metas) : Precedes(delayed_free_requests', metas[k].to_send)
    BY <2>2, <2>3, <2>4, <1>t, <1>m, <1>o, AppendFacts, Zenon
  <2> QED BY <2>1, <2>2, <2>3, <2>5, <1>o, Zenon DEF EntryOrder
<1>8. ASSUME get_finished PROVE EntryOrder'
  <2>1. get_and_clear_finished_requests(now)
    BY Zenon, <1>8 DEF get_finished
  <2>2. /\ Within(delayed_free_requests', delayed_free_requests)
        /\ Ordered(delayed_free_requests')
    BY Zenon, <2>1, <1>t, <1>o, ClearFacts
  <2> QED BY Zenon, <1>8, <1>d, <2>2 DEF get_finished, schedVars, workerVars
<1>9. ASSUME NEW m \in Dones, done_recving(m) PROVE EntryOrder'
  <2>1. UNCHANGED <<to_send, reqs_need_send, metas>>
    BY Zenon, <1>9 DEF done_recving, schedVars, workerVars
  <2>2. CASE cp /\ ~enough_dones(m.req)
    BY Zenon, <2>1, <2>2, <1>9, <1>u DEF done_recving, trackerVars
  <2>3. CASE ~(cp /\ ~enough_dones(m.req))
    BY Zenon, <2>1, <2>3, <1>9, <1>d, <1>t, <1>o, UpdateFacts DEF done_recving
  <2> QED BY Zenon, <2>2, <2>3
<1>10. ASSUME \/ \E r \in Requests : \/ update_state_after_alloc(r) \/ preempt(r)
                                     \/ request_finished_early(r)
              \/ \E m \in Dones : begin_read(m) \/ send_done(m) \/ send_done_again(m)
              \/ Tick \/ UNCHANGED vars
       PROVE  EntryOrder'
  <2>1. UNCHANGED <<delayed_free_requests, to_send, reqs_need_send, metas>>
    BY Zenon, <1>10 DEF update_state_after_alloc, preempt, request_finished_early, begin_read,
      send_done, send_done_again, Tick, vars, trackerVars, schedVars, workerVars
  <2> QED BY Zenon, <2>1, <1>u
<1> QED
  BY Zenon, <1>3, <1>5, <1>6, <1>7, <1>8, <1>9, <1>10 DEF Next

-----------------------------------------------------------------------------
(* Entries are of finished requests that the worker has not come to. *)

\* No request has been sent to the worker yet, so no entry is wrong.
LEMMA InitEntries == Init => EntriesOK
BY EmptyFacts DEF Init, TrackerInit, EntriesOK, Delayed

\* A request that another rank sends is read from no decode task here.
LEMMA ReadersAreSent ==
    ASSUME cp \in BOOLEAN, NEW m \in Dones
    PROVE  sends(m.req)
<1>1. PICK r \in Requests : m.req = r /\ m.task \in Readers[cp][r]
  BY DEF Dones
<1>2. CASE cp
  BY Zenon, <1>2 DEF sends
<1>3. CASE cp = FALSE
  BY <1>1, <1>3, ReadersAssumption, Zenon DEF sends
<1> QED BY <1>2, <1>3, Zenon

\* Every step keeps EntriesOK.
LEMMA NextEntries ==
    ASSUME TypeOK, EntryOrder, EntriesOK, ReportOK, [Next]_vars
    PROVE  EntriesOK'
<1>t. /\ delayed_free_requests \in Seq(Entries) /\ to_send \in Seq(Entries)
      /\ reqs_need_send \in Seq(Entries) /\ metas \in Seq(Metas)
      /\ status \in [Requests -> {"waiting", "running", "finished", "freed"}]
      /\ now \in Nat /\ cp \in BOOLEAN /\ reports \in [Requests -> Nat]
  BY TypeFacts, BoundsAssumption
<1>m. \A k \in 1..Len(metas) : metas[k].to_send \in Seq(Entries)
  BY <1>t, EntryFacts
<1>e. /\ AllOK(delayed_free_requests) /\ AllOK(to_send) /\ AllOK(reqs_need_send)
      /\ \A k \in 1..Len(metas) : AllOK(metas[k].to_send)
      /\ \A r \in Delayed : sends(r)
  BY Zenon DEF EntriesOK
\* EntryOK in the next state.
<1> DEFINE New(e) == /\ e.start <= now'
                     /\ status'[e.req] = "finished"
                     /\ \/ cp' \/ e.req \in RemoteRank
                        \/ reports'[e.req] = 0 /\ e.req \notin finished_requests'
           NewAll(s) == \A i \in 1..Len(s) : New(s[i])
<1>g. ASSUME NewAll(delayed_free_requests'), NewAll(to_send'), NewAll(reqs_need_send'),
             \A k \in 1..Len(metas') : NewAll(metas'[k].to_send),
             \A r \in Delayed' : cp' \/ r \in RemoteRank
      PROVE  EntriesOK'
  BY <1>g, Zenon DEF EntriesOK, AllOK, EntryOK, sends, Unreported
<1> HIDE DEF New
<1>k. ASSUME \A e \in Entries : EntryOK(e) => New(e), NEW s \in Seq(Entries), AllOK(s)
      PROVE  NewAll(s)
  BY <1>k DEF AllOK
<1>u. ASSUME UNCHANGED <<delayed_free_requests, to_send, reqs_need_send, metas, cp>>,
             \A e \in Entries : EntryOK(e) => New(e)
      PROVE  EntriesOK'
  <2>1. /\ NewAll(delayed_free_requests') /\ NewAll(to_send') /\ NewAll(reqs_need_send')
        /\ \A k \in 1..Len(metas') : NewAll(metas'[k].to_send)
    <3> HIDE DEF NewAll
    <3> QED BY Zenon, <1>u, <1>k, <1>t, <1>m, <1>e
  <2>2. \A r \in Delayed' : cp' \/ r \in RemoteRank
    BY Zenon, <1>u, <1>e DEF sends, Delayed
  <2> QED BY Zenon, <1>g, <2>1, <2>2
<1>1. ASSUME \E r \in Requests : \/ update_state_after_alloc(r) \/ preempt(r)
                                 \/ request_finished_early(r)
      PROVE  EntriesOK'
  <2>1. PICK r \in Requests : \/ update_state_after_alloc(r) \/ preempt(r)
                              \/ request_finished_early(r)
    BY Zenon, <1>1
  <2>2. /\ UNCHANGED <<delayed_free_requests, to_send, reqs_need_send, metas, cp, now,
                       finished_requests, reports>>
        /\ status[r] # "finished" /\ \A q \in Requests : q # r => status'[q] = status[q]
    BY Zenon, <2>1, <1>t DEF update_state_after_alloc, preempt, request_finished_early, trackerVars,
      schedVars, workerVars, reportVars
  <2>3. \A e \in Entries : EntryOK(e) => New(e)
    BY Zenon, <2>2, EntryFacts DEF EntryOK, New, sends, Unreported
  <2> QED BY Zenon, <2>2, <2>3, <1>u
<1>2. ASSUME \/ \E m \in Dones : begin_read(m) \/ send_done(m) \/ send_done_again(m)
             \/ Tick \/ UNCHANGED vars
      PROVE  EntriesOK'
  <2>1. /\ UNCHANGED <<delayed_free_requests, to_send, reqs_need_send, metas, cp, status,
                       finished_requests, reports>>
        /\ now' = now \/ now' = now + 1
    BY Zenon, <1>2 DEF begin_read, send_done, send_done_again, Tick, vars, trackerVars,
      schedVars, workerVars,
      reportVars
  <2>2. \A e \in Entries : EntryOK(e) => New(e)
    BY <2>1, <1>t, EntryFacts DEF EntryOK, New, sends, Unreported
  <2> QED BY Zenon, <2>1, <2>2, <1>u
<1>3. ASSUME NEW r \in Requests, request_finished(r) PROVE EntriesOK'
  <2> DEFINE e == Entry(r, now)
  <2>1. /\ reqs_need_send' = Append(reqs_need_send, e)
        /\ UNCHANGED <<delayed_free_requests, to_send, metas, cp, now, finished_requests, reports>>
        /\ status[r] # "finished"
        /\ status' = [status EXCEPT ![r] = "finished"]
    BY Zenon, <1>3, <1>t DEF request_finished, Prefilled, trackerVars, workerVars, reportVars
  <2>2. \A f \in Entries : EntryOK(f) => New(f)
    BY Zenon, <2>1, <1>t, EntryFacts DEF EntryOK, New, sends, Unreported
  <2>3. e \in Entries /\ New(e)
    <3>1. e \in Entries /\ e.req = r /\ e.start = now
      BY Zenon, <1>t, EntryFacts
    <3>2. reports[r] = 0 /\ r \notin finished_requests
      BY Zenon, <2>1 DEF ReportOK, Unreported
    <3>3. status'[r] = "finished" /\ now <= now
      BY <2>1, <1>t
    <3> HIDE DEF e
    <3> QED BY Zenon, <2>1, <3>1, <3>2, <3>3 DEF New
  <2> HIDE DEF e
  <2>4. NewAll(reqs_need_send')
    <3>1. NewAll(reqs_need_send)
      <4> HIDE DEF NewAll
      <4> QED BY Zenon, <1>k, <2>2, <1>t, <1>e
    <3> QED BY <3>1, <2>1, <2>3, <1>t
  <2>5. /\ NewAll(delayed_free_requests') /\ NewAll(to_send')
        /\ \A k \in 1..Len(metas') : NewAll(metas'[k].to_send)
    <3> HIDE DEF NewAll
    <3> QED BY Zenon, <2>1, <2>2, <1>k, <1>t, <1>m, <1>e
  <2>6. \A q \in Delayed' : cp' \/ q \in RemoteRank
    BY Zenon, <2>1, <1>e DEF sends, Delayed
  <2> QED BY Zenon, <1>g, <2>4, <2>5, <2>6
<1>5. ASSUME build_connector_meta PROVE EntriesOK'
  <2> DEFINE b == [in_batch |-> reqs_in_batch, to_send |-> reqs_need_send]
  <2>1. /\ UNCHANGED <<delayed_free_requests, to_send, cp, now, status, finished_requests, reports>>
        /\ reqs_need_send' = <<>> /\ metas' = Append(metas, b)
        /\ b.to_send = reqs_need_send
    BY Zenon, <1>5 DEF build_connector_meta, trackerVars, reportVars
  <2> HIDE DEF b
  <2>2. \A f \in Entries : EntryOK(f) => New(f)
    BY Zenon, <2>1 DEF EntryOK, New, sends, Unreported
  <2>3. \A k \in 1..Len(metas') :
            \/ k \in 1..Len(metas) /\ metas'[k] = metas[k]
            \/ metas'[k].to_send = reqs_need_send
    BY <2>1, <1>t
  <2>4. /\ NewAll(delayed_free_requests') /\ NewAll(to_send')
        /\ \A k \in 1..Len(metas') : NewAll(metas'[k].to_send)
    <3> HIDE DEF NewAll
    <3> QED BY Zenon, <2>1, <2>2, <2>3, <1>k, <1>t, <1>m, <1>e
  <2>5. NewAll(reqs_need_send')
    BY <2>1
  <2>6. \A q \in Delayed' : cp' \/ q \in RemoteRank
    BY Zenon, <2>1, <1>e DEF sends, Delayed
  <2> QED BY Zenon, <1>g, <2>4, <2>5, <2>6
<1>6. ASSUME start_load_kv PROVE EntriesOK'
  <2>1. /\ UNCHANGED <<delayed_free_requests, reqs_need_send, cp, now, status,
                       finished_requests, reports>>
        /\ metas # <<>> /\ metas' = Tail(metas) /\ to_send' = Head(metas).to_send
    BY Zenon, <1>6 DEF start_load_kv, add_req_to_process, schedVars, reportVars
  <2>2. /\ 1 \in 1..Len(metas) /\ to_send' = metas[1].to_send
        /\ \A k \in 1..Len(metas') : k + 1 \in 1..Len(metas) /\ metas'[k] = metas[k + 1]
    BY <2>1, <1>t
  <2>3. \A f \in Entries : EntryOK(f) => New(f)
    BY Zenon, <2>1 DEF EntryOK, New, sends, Unreported
  <2>4. /\ NewAll(delayed_free_requests') /\ NewAll(to_send') /\ NewAll(reqs_need_send')
        /\ \A k \in 1..Len(metas') : NewAll(metas'[k].to_send)
    <3> HIDE DEF NewAll
    <3> QED BY Zenon, <2>1, <2>2, <2>3, <1>k, <1>t, <1>m, <1>e
  <2>6. \A q \in Delayed' : cp' \/ q \in RemoteRank
    BY Zenon, <2>1, <1>e DEF sends, Delayed
  <2> QED BY Zenon, <1>g, <2>4, <2>6
<1>7. ASSUME send_next PROVE EntriesOK'
  <2> DEFINE e == Head(to_send)
  <2>1. /\ UNCHANGED <<reqs_need_send, metas, cp, now, status, reports>>
        /\ to_send' = Tail(to_send) /\ to_send # <<>>
    BY Zenon, <1>7 DEF send_next, schedVars, reportVars
  <2>2. /\ e \in Entries /\ to_send' \in Seq(Entries) /\ Within(to_send', to_send)
        /\ Within(<<e>>, to_send) /\ Precedes(<<e>>, to_send')
    BY Zenon, <2>1, <1>t, TailFacts DEF EntryOrder
  <2>3. /\ Precedes(delayed_free_requests, <<e>>) /\ Precedes(<<e>>, reqs_need_send)
        /\ \A k \in 1..Len(metas) : Precedes(<<e>>, metas[k].to_send)
        /\ AllOK(to_send') /\ AllOK(<<e>>)
    <3> HIDE DEF e
    <3>1. /\ Precedes(delayed_free_requests, <<e>>) /\ Precedes(<<e>>, reqs_need_send)
          /\ \A k \in 1..Len(metas) : Precedes(<<e>>, metas[k].to_send)
      BY <2>2, WithinFacts, Zenon DEF EntryOrder
    <3>2. AllOK(to_send') /\ AllOK(<<e>>)
      BY <2>2, <1>e, WithinFacts, Zenon
    <3> QED BY Zenon, <3>1, <3>2
  <2>4. CASE sends(e.req)
    <3>1. add_delayed_request(e.req, e.start)
      BY Zenon, <1>7, <2>4 DEF send_next
    <3> HIDE DEF e
    <3>2. /\ finished_requests' = finished_requests
          /\ \/ delayed_free_requests' = delayed_free_requests
             \/ /\ delayed_free_requests' = Append(delayed_free_requests, e)
                /\ Delayed' = Delayed \cup {e.req}
      BY Zenon, <3>1, <2>2, <2>3, <1>t, AddDelayedFacts
    <3>3. \A f \in Entries : EntryOK(f) => New(f)
      BY Zenon, <3>2, <2>1 DEF EntryOK, New, sends, Unreported
    <3>4. /\ NewAll(to_send') /\ NewAll(reqs_need_send') /\ NewAll(delayed_free_requests)
          /\ NewAll(<<e>>) /\ \A k \in 1..Len(metas') : NewAll(metas'[k].to_send)
      <4>1. <<e>> \in Seq(Entries)
        BY <2>2
      <4> HIDE DEF NewAll
      <4> QED BY <4>1, <2>1, <2>2, <2>3, <3>3, <1>k, <1>t, <1>m, <1>e, Zenon
    <3>5. NewAll(delayed_free_requests')
      <4>1. New(e)
        BY <3>4
      <4>2. /\ Len(Append(delayed_free_requests, e)) = Len(delayed_free_requests) + 1
            /\ Append(delayed_free_requests, e)[Len(delayed_free_requests) + 1] = e
            /\ \A i \in 1..Len(delayed_free_requests) :
                  Append(delayed_free_requests, e)[i] = delayed_free_requests[i]
            /\ Len(delayed_free_requests) \in Nat
        BY <1>t, <2>2
      <4>3. NewAll(Append(delayed_free_requests, e))
        BY <3>4, <4>1, <4>2
      <4> QED BY Zenon, <3>2, <3>4, <4>3
    <3>6. \A q \in Delayed' : cp' \/ q \in RemoteRank
      BY Zenon, <2>1, <2>4, <3>2, <1>e DEF sends, Delayed
    <3> QED BY Zenon, <1>g, <3>4, <3>5, <3>6
  <2>5. CASE ~sends(e.req)
    <3>1. /\ finished_requests' = finished_requests \cup {e.req}
          /\ delayed_free_requests' = delayed_free_requests
      BY Zenon, <1>7, <2>5 DEF send_next, add_not_transfer_request
    <3>2. \A f \in Entries : EntryOK(f) /\ f.req # e.req => New(f)
      BY Zenon, <3>1, <2>1 DEF EntryOK, New, sends, Unreported
    <3>3. ASSUME NEW s \in Seq(Entries), AllOK(s),
                 Precedes(<<e>>, s) \/ Precedes(s, <<e>>)
          PROVE  NewAll(s)
      BY <3>2, <3>3 DEF AllOK, Precedes, Later
    <3>4. /\ NewAll(to_send') /\ NewAll(reqs_need_send') /\ NewAll(delayed_free_requests')
          /\ \A k \in 1..Len(metas') : NewAll(metas'[k].to_send)
      <4> HIDE DEF NewAll, e
      <4> QED BY <2>1, <2>2, <2>3, <3>1, <3>3, <1>t, <1>m, <1>e, Zenon
    <3>6. \A q \in Delayed' : cp' \/ q \in RemoteRank
      BY Zenon, <2>1, <3>1, <1>e DEF sends, Delayed
    <3> QED BY Zenon, <1>g, <3>4, <3>6
  <2> QED BY Zenon, <2>4, <2>5
<1>8. ASSUME get_finished PROVE EntriesOK'
  <2>1. /\ get_and_clear_finished_requests(now)
        /\ UNCHANGED <<to_send, reqs_need_send, metas, cp, now, status>>
        /\ reports' = [r \in Requests |->
              IF r \in finished_or_expired(now) THEN reports[r] + 1 ELSE reports[r]]
    BY Zenon, <1>8 DEF get_finished, schedVars, workerVars
  <2>2. /\ retrieve_expired_requests(now) \subseteq Delayed
        /\ delayed_free_requests' \in Seq(Entries)
        /\ Within(delayed_free_requests', delayed_free_requests)
        /\ Delayed' \subseteq Delayed
    BY <2>1, <1>t, ClearFacts, Zenon DEF EntryOrder
  <2>3. finished_requests' = {}
    BY Zenon, <2>1 DEF get_and_clear_finished_requests
  <2>4. ASSUME NEW f \in Entries, EntryOK(f) PROVE New(f)
    <3>1. ~sends(f.req) => f.req \notin finished_or_expired(now)
      BY Zenon, <2>2, <2>4, <1>e DEF EntryOK, Unreported, finished_or_expired
    <3> QED BY <3>1, <2>1, <2>3, <2>4, EntryFacts, Zenon DEF EntryOK, New, sends, Unreported
  <2>5. AllOK(delayed_free_requests')
    BY Zenon, <2>2, <1>e, WithinFacts
  <2>6. /\ NewAll(delayed_free_requests') /\ NewAll(to_send') /\ NewAll(reqs_need_send')
        /\ \A k \in 1..Len(metas') : NewAll(metas'[k].to_send)
    <3> HIDE DEF NewAll
    <3> QED BY Zenon, <2>1, <2>2, <2>4, <2>5, <1>k, <1>t, <1>m, <1>e
  <2>7. \A q \in Delayed' : cp' \/ q \in RemoteRank
    BY Zenon, <2>1, <2>2, <1>e DEF sends
  <2> QED BY Zenon, <1>g, <2>6, <2>7
<1>9. ASSUME NEW m \in Dones, done_recving(m) PROVE EntriesOK'
  <2>1. /\ UNCHANGED <<to_send, reqs_need_send, metas, cp, now, status, reports>>
        /\ sends(m.req)
    BY Zenon, <1>9, <1>t, ReadersAreSent DEF done_recving, schedVars, workerVars, reportVars
  <2>2. /\ delayed_free_requests' \in Seq(Entries)
        /\ Within(delayed_free_requests', delayed_free_requests)
        /\ Delayed' \subseteq Delayed
        /\ finished_requests' \subseteq finished_requests \cup {m.req}
    <3>1. CASE cp /\ ~enough_dones(m.req)
      BY Zenon, <1>9, <3>1, <1>t DEF done_recving, trackerVars, Within, Delayed
    <3>2. CASE ~(cp /\ ~enough_dones(m.req))
      BY <1>9, <3>2, <1>t, UpdateFacts, Zenon DEF done_recving, EntryOrder
    <3> QED BY Zenon, <3>1, <3>2
  <2>4. \A f \in Entries : EntryOK(f) => New(f)
    BY Zenon, <2>1, <2>2 DEF EntryOK, New, sends, Unreported
  <2>5. AllOK(delayed_free_requests')
    BY Zenon, <2>2, <1>e, WithinFacts
  <2>6. /\ NewAll(delayed_free_requests') /\ NewAll(to_send') /\ NewAll(reqs_need_send')
        /\ \A k \in 1..Len(metas') : NewAll(metas'[k].to_send)
    <3> HIDE DEF NewAll
    <3> QED BY Zenon, <2>1, <2>2, <2>4, <2>5, <1>k, <1>t, <1>m, <1>e
  <2>7. \A q \in Delayed' : cp' \/ q \in RemoteRank
    BY Zenon, <2>1, <2>2, <1>e DEF sends
  <2> QED BY Zenon, <1>g, <2>6, <2>7
<1> QED
  BY Zenon, <1>1, <1>2, <1>3, <1>5, <1>6, <1>7, <1>8, <1>9 DEF Next

-----------------------------------------------------------------------------
(* A request is in no batch once it has finished. *)

\* No request has been scheduled yet.
LEMMA InitBatch == Init => BatchOK
BY Zenon DEF Init, BatchOK

\* Every step keeps BatchOK.
LEMMA NextBatch ==
    ASSUME TypeOK, BatchOK, [Next]_vars
    PROVE  BatchOK'
<1>t. /\ metas \in Seq(Metas)
      /\ status \in [Requests -> {"waiting", "running", "finished", "freed"}]
  BY Zenon, TypeFacts
<1>b. \A r \in Requests : status[r] = "finished" =>
          /\ r \notin reqs_in_batch
          /\ \A k \in 1..Len(metas) : r \notin metas[k].in_batch
  BY Zenon DEF BatchOK
<1>1. ASSUME NEW q \in Requests, update_state_after_alloc(q) PROVE BatchOK'
  <2>1. /\ status' = [status EXCEPT ![q] = "running"] /\ metas' = metas
        /\ reqs_in_batch' = reqs_in_batch \cup {q}
    BY Zenon, <1>1 DEF update_state_after_alloc, workerVars
  <2> QED BY Zenon, <2>1, <1>t, <1>b DEF BatchOK
<1>2. ASSUME NEW q \in Requests, preempt(q) \/ request_finished_early(q) PROVE BatchOK'
  <2>1. /\ metas' = metas /\ reqs_in_batch' = reqs_in_batch
        /\ \A r \in Requests : status'[r] = "finished" => status[r] = "finished"
    BY Zenon, <1>2, <1>t DEF preempt, request_finished_early, workerVars
  <2> QED BY <2>1, <1>b, Zenon DEF BatchOK
<1>3. ASSUME NEW q \in Requests, request_finished(q) PROVE BatchOK'
  <2>1. /\ metas' = metas /\ reqs_in_batch' = reqs_in_batch
        /\ \A r \in Requests : status'[r] = "finished" => r = q \/ status[r] = "finished"
        /\ q \notin reqs_in_batch
        /\ \A k \in 1..Len(metas) : q \notin metas[k].in_batch
    BY Zenon, <1>3, <1>t DEF request_finished, Prefilled, workerVars
  <2> QED BY <2>1, <1>b, Zenon DEF BatchOK
<1>5. ASSUME build_connector_meta PROVE BatchOK'
  <2> DEFINE b == [in_batch |-> reqs_in_batch, to_send |-> reqs_need_send]
  <2>1. /\ reqs_in_batch' = {} /\ status' = status /\ metas' = Append(metas, b)
        /\ b.in_batch = reqs_in_batch
    BY Zenon, <1>5 DEF build_connector_meta
  <2> HIDE DEF b
  <2>2. \A k \in 1..Len(metas') :
            \/ k \in 1..Len(metas) /\ metas'[k] = metas[k]
            \/ metas'[k].in_batch = reqs_in_batch
    BY <2>1, <1>t
  <2> QED BY Zenon, <2>1, <2>2, <1>b DEF BatchOK
<1>6. ASSUME start_load_kv PROVE BatchOK'
  <2>1. /\ metas # <<>> /\ metas' = Tail(metas) /\ reqs_in_batch' = reqs_in_batch
        /\ status' = status
    BY Zenon, <1>6 DEF start_load_kv, schedVars
  <2>2. \A k \in 1..Len(metas') : k + 1 \in 1..Len(metas) /\ metas'[k] = metas[k + 1]
    BY <2>1, <1>t
  <2> QED BY Zenon, <2>1, <2>2, <1>b DEF BatchOK
<1>7. ASSUME \/ send_next \/ get_finished \/ Tick \/ UNCHANGED vars
             \/ \E m \in Dones : \/ done_recving(m) \/ begin_read(m)
                                 \/ send_done(m) \/ send_done_again(m)
      PROVE  BatchOK'
  <2>1. UNCHANGED <<metas, reqs_in_batch, status>>
    BY Zenon, <1>7 DEF send_next, get_finished, Tick, done_recving, begin_read, send_done,
      send_done_again, vars,
      schedVars, workerVars
  <2> QED BY <2>1, <1>b, Zenon DEF BatchOK
<1> QED
  BY Zenon, <1>1, <1>2, <1>3, <1>5, <1>6, <1>7 DEF Next

-----------------------------------------------------------------------------
(* A request is reported once. *)

\* Nothing has been reported to the scheduler yet.
LEMMA InitReport == Init => ReportOK
BY DEF Init, TrackerInit, ReportOK, Unreported, Delayed

\* Every step keeps ReportOK.
LEMMA NextReport ==
    ASSUME TypeOK, EntryOrder, EntriesOK, BatchOK, ReportOK, ReadersOK, [Next]_vars
    PROVE  ReportOK'
<1>t. /\ delayed_free_requests \in Seq(Entries) /\ to_send \in Seq(Entries)
      /\ metas \in Seq(Metas)
      /\ status \in [Requests -> {"waiting", "running", "finished", "freed"}]
      /\ now \in Nat /\ reports \in [Requests -> Nat]
      /\ wire \subseteq Dones
  BY TypeFacts, BoundsAssumption
<1>r. /\ Delayed \subseteq reqs_to_process
      /\ \A r \in Requests :
             \/ reports[r] = 0 /\ r \notin finished_requests
             \/ /\ status[r] = "finished" /\ r \notin reqs_to_process
                /\ reports[r] = (IF r \in finished_requests THEN 0 ELSE 1)
  BY Zenon DEF ReportOK, Unreported
<1>u. ASSUME UNCHANGED trackerVars, reports' = reports,
             \A r \in Requests : status[r] = "finished" => status'[r] = "finished"
      PROVE  ReportOK'
  <2>1. Delayed' = Delayed
    BY Zenon, <1>u DEF trackerVars, Delayed
  <2> QED BY Zenon, <1>u, <1>r, <2>1 DEF ReportOK, Unreported, trackerVars
<1>1. ASSUME \/ \E r \in Requests : \/ update_state_after_alloc(r) \/ preempt(r)
                                    \/ request_finished(r) \/ request_finished_early(r)
             \/ build_connector_meta \/ Tick \/ UNCHANGED vars
             \/ \E m \in Dones : begin_read(m) \/ send_done(m) \/ send_done_again(m)
      PROVE  ReportOK'
  <2>1. /\ UNCHANGED trackerVars /\ reports' = reports
        /\ \A r \in Requests : status[r] = "finished" => status'[r] = "finished"
    BY Zenon, <1>1, <1>t DEF update_state_after_alloc, preempt, request_finished, Prefilled,
      request_finished_early, build_connector_meta, Tick, begin_read, send_done,
      send_done_again, vars,
      schedVars, reportVars
  <2> QED BY Zenon, <2>1, <1>u
<1>2. ASSUME start_load_kv PROVE ReportOK'
  <2>1. /\ metas # <<>>
        /\ reqs_to_process' = reqs_to_process \cup Head(metas).in_batch
        /\ UNCHANGED <<finished_requests, delayed_free_requests, reports, status>>
    BY Zenon, <1>2 DEF start_load_kv, add_req_to_process, schedVars, reportVars
  <2>2. 1 \in 1..Len(metas) /\ Head(metas) = metas[1]
    BY <2>1, <1>t
  <2>3. \A r \in Requests : status[r] = "finished" => r \notin Head(metas).in_batch
    BY Zenon, <2>2 DEF BatchOK
  <2>4. Delayed' = Delayed
    BY Zenon, <2>1 DEF Delayed
  <2> QED BY Zenon, <2>1, <2>3, <2>4, <1>r DEF ReportOK, Unreported
<1>3. ASSUME send_next PROVE ReportOK'
  <2> DEFINE e == Head(to_send)
  <2>1. /\ to_send # <<>> /\ UNCHANGED <<reports, status>>
    BY Zenon, <1>3 DEF send_next, schedVars, reportVars
  <2>2. /\ e \in Entries /\ e.req \in Requests /\ Within(<<e>>, to_send)
        /\ 1 \in 1..Len(to_send) /\ e = to_send[1]
    BY <2>1, <1>t, TailFacts, EntryFacts
  <2>3. /\ Precedes(delayed_free_requests, <<e>>) /\ EntryOK(e)
    BY <2>2, WithinFacts, Zenon DEF EntryOrder, EntriesOK, AllOK
  <2>4. CASE sends(e.req)
    <3>1. add_delayed_request(e.req, e.start)
      BY Zenon, <1>3, <2>4 DEF send_next
    <3> HIDE DEF e
    <3>2. /\ UNCHANGED <<finished_requests, reqs_to_process>>
          /\ e.req \in reqs_to_process => Delayed' = Delayed \cup {e.req}
          /\ e.req \notin reqs_to_process => Delayed' = Delayed
      BY <3>1, <2>2, <2>3, <1>t, AddDelayedFacts, Zenon DEF Delayed
    <3> QED BY Zenon, <3>2, <2>1, <1>r DEF ReportOK, Unreported
  <2>5. CASE ~sends(e.req)
    <3>1. /\ finished_requests' = finished_requests \cup {e.req}
          /\ reqs_to_process' = reqs_to_process \ {e.req}
          /\ delayed_free_requests' = delayed_free_requests
      BY Zenon, <1>3, <2>5 DEF send_next, add_not_transfer_request
    <3>2. /\ e.req \notin Delayed /\ Delayed' = Delayed
      BY <3>1, <2>3 DEF Precedes, Later, Delayed
    <3>3. status[e.req] = "finished" /\ reports[e.req] = 0
      BY Zenon, <2>3, <2>5 DEF EntryOK, Unreported
    <3> HIDE DEF e
    <3> QED BY Zenon, <3>1, <3>2, <3>3, <2>1, <1>r DEF ReportOK, Unreported
  <2> QED BY Zenon, <2>4, <2>5
<1>4. ASSUME get_finished PROVE ReportOK'
  <2>1. /\ get_and_clear_finished_requests(now) /\ status' = status
        /\ reports' = [r \in Requests |->
              IF r \in finished_or_expired(now) THEN reports[r] + 1 ELSE reports[r]]
    BY Zenon, <1>4 DEF get_finished, schedVars
  <2> DEFINE X == retrieve_expired_requests(now)
  <2>2. /\ X \subseteq Delayed
        /\ Delayed' \subseteq Delayed \ X
    BY Zenon, <2>1, <1>t, ClearFacts DEF EntryOrder
  <2>3. /\ finished_requests' = {} /\ reqs_to_process' = reqs_to_process \ X
        /\ finished_or_expired(now) = finished_requests \cup X
    BY Zenon, <2>1 DEF get_and_clear_finished_requests, finished_or_expired
  <2> HIDE DEF X
  <2>4. \A r \in X : status[r] = "finished"
    <3>1. \A r \in Delayed : status[r] = "finished"
      BY Zenon DEF Delayed, EntriesOK, AllOK, EntryOK
    <3> QED BY Zenon, <3>1, <2>2
  <2>5. Delayed' \subseteq reqs_to_process'
    BY Zenon, <2>2, <2>3, <1>r
  <2>6. ASSUME NEW r \in Requests
        PROVE  \/ reports'[r] = 0 /\ r \notin finished_requests'
               \/ /\ status'[r] = "finished" /\ r \notin reqs_to_process'
                  /\ reports'[r] = (IF r \in finished_requests' THEN 0 ELSE 1)
    BY <2>1, <2>2, <2>3, <2>4, <1>r
  <2> QED BY Zenon, <2>5, <2>6 DEF ReportOK, Unreported
<1>5. ASSUME NEW m \in Dones, done_recving(m) PROVE ReportOK'
  <2>1. UNCHANGED <<status, reports>> /\ m \in wire
    BY Zenon, <1>5 DEF done_recving, schedVars, reportVars
  <2>2. CASE cp /\ ~enough_dones(m.req)
    BY Zenon, <2>1, <2>2, <1>5, <1>u DEF done_recving
  <2>3. CASE ~(cp /\ ~enough_dones(m.req))
    <3>1. status[m.req] = "finished"
      BY Zenon, <2>1 DEF ReadersOK
    <3>2. /\ Delayed' \subseteq Delayed
          /\ m.req \in reqs_to_process =>
                /\ finished_requests' = finished_requests \cup {m.req}
                /\ reqs_to_process' = reqs_to_process \ {m.req}
                /\ m.req \notin Delayed'
          /\ m.req \notin reqs_to_process =>
                UNCHANGED <<finished_requests, reqs_to_process>>
      BY Zenon, <1>5, <2>3, <1>t, UpdateFacts DEF done_recving, EntryOrder
    <3> QED BY Zenon, <2>1, <3>1, <3>2, <1>r DEF ReportOK, Unreported
  <2> QED BY Zenon, <2>2, <2>3
<1> QED
  BY Zenon, <1>1, <1>2, <1>3, <1>4, <1>5 DEF Next

-----------------------------------------------------------------------------
(* The decode tasks and their DONEs. *)

\* No decode rank has begun to read.
LEMMA InitReaders == Init => ReadersOK
BY Zenon DEF Init, ReadersOK

\* A DONE names a request and one of its readers.
LEMMA DoneFacts ==
    ASSUME NEW m \in Dones
    PROVE  /\ m.req \in Requests /\ m.task \in Readers[cp][m.req]
           /\ m = [req |-> m.req, task |-> m.task]
BY DEF Dones

\* A rank that nobody pulls from is signalled by one decode task.
LEMMA OnlyDone ==
    ASSUME NEW m \in Dones, cp = TRUE, SendNum[m.req] = 0
    PROVE  Readers[cp][m.req] = {m.task}
<1> DEFINE S == Readers[cp][m.req]
<1>1. m.req \in Requests /\ m.task \in S
  BY Zenon, DoneFacts
<1>2. /\ IsFiniteSet(S)
      /\ Cardinality(S) <= 0 \/ Cardinality(S) <= 1
  BY Zenon, <1>1, PortSendNumAssumption
<1>3. Cardinality({m.task}) = 1
  BY Zenon, FS_Singleton
<1> HIDE DEF S
<1>4. /\ Cardinality(S) \in Nat
      /\ Cardinality({m.task}) <= Cardinality(S)
      /\ Cardinality({m.task}) = Cardinality(S) => {m.task} = S
  BY <1>1, <1>2, FS_Subset, FS_CardinalityType, Zenon
<1>5. Cardinality(S) = 1
  BY <1>2, <1>3, <1>4
<1> QED BY Zenon, <1>3, <1>4, <1>5 DEF S

\* Every step keeps ReadersOK.
LEMMA NextReaders ==
    ASSUME TypeOK, ReadersOK, [Next]_vars
    PROVE  ReadersOK'
<1>t. status \in [Requests -> {"waiting", "running", "finished", "freed"}]
  BY Zenon, TypeFacts
<1>r. /\ \A m \in reading \cup wire \cup handled : m.req \in Requests /\ status[m.req] = "finished"
      /\ reading \cap wire = {} /\ reading \cap handled = {}
      /\ \A m \in wire \cap handled : Readers[cp][m.req] = {m.task}
  BY Zenon, TypeFacts, EntryFacts DEF ReadersOK
<1>1. ASSUME UNCHANGED <<cp, decodeVars>>,
             \A r \in Requests : status[r] = "finished" => status'[r] = "finished"
      PROVE  ReadersOK'
  BY Zenon, <1>1, <1>r DEF ReadersOK, decodeVars
<1>2. ASSUME \/ \E r \in Requests : \/ update_state_after_alloc(r) \/ preempt(r)
                                    \/ request_finished(r) \/ request_finished_early(r)
             \/ build_connector_meta \/ start_load_kv \/ send_next \/ get_finished
             \/ Tick \/ UNCHANGED vars
      PROVE  ReadersOK'
  <2>1. /\ UNCHANGED <<cp, decodeVars>>
        /\ \A r \in Requests : status[r] = "finished" => status'[r] = "finished"
    BY Zenon, <1>2, <1>t DEF update_state_after_alloc, preempt, request_finished, Prefilled,
      request_finished_early, build_connector_meta, start_load_kv, send_next, get_finished,
      Tick, vars, schedVars
  <2> QED BY Zenon, <2>1, <1>1
<1>3. ASSUME NEW m \in Dones, done_recving(m) \/ begin_read(m) \/ send_done(m)
      PROVE  ReadersOK'
  BY Zenon, <1>3, <1>r DEF done_recving, begin_read, send_done, ReadersOK, schedVars
<1>4. ASSUME NEW m \in Dones, send_done_again(m) PROVE ReadersOK'
  <2>1. cp = TRUE /\ SendNum[m.req] = 0
    BY <1>4, TypeFacts DEF send_done_again
  <2>2. Readers[cp][m.req] = {m.task}
    BY Zenon, <2>1, OnlyDone
  <2> QED BY Zenon, <1>4, <2>2, <1>r DEF send_done_again, ReadersOK, schedVars
<1> QED
  BY Zenon, <1>2, <1>3, <1>4 DEF Next

\* No done signal is on its way.
LEMMA InitDones == Init => DonesOK
<1> SUFFICES ASSUME Init PROVE DonesOK
  BY Zenon
<1>1. \A r \in Requests : HandledOf(r) = {} /\ port_send_num[r] = 0 /\ Unreported(r)
  BY Zenon DEF Init, TrackerInit, HandledOf, Unreported
<1> QED BY Zenon, <1>1, FS_EmptySet DEF DonesOK

\* A DONE that is handled adds its task to those handled of its request.
LEMMA HandledFacts ==
    ASSUME NEW m \in Dones, handled' = handled \cup {m}, cp' = cp
    PROVE  /\ m.task \in Readers[cp][m.req]
           /\ HandledOf(m.req)' = HandledOf(m.req) \cup {m.task}
           /\ m \notin handled => m.task \notin HandledOf(m.req)
           /\ \A r \in Requests : r # m.req => HandledOf(r)' = HandledOf(r)
BY DoneFacts DEF HandledOf

\* Every step keeps DonesOK.
LEMMA NextDones ==
    ASSUME TypeOK, EntryOrder, ReportOK, ReadersOK, DonesOK, [Next]_vars
    PROVE  DonesOK'
<1>t. /\ cp \in BOOLEAN /\ port_send_num \in [Requests -> Nat]
      /\ delayed_free_requests \in Seq(Entries) /\ to_send \in Seq(Entries)
      /\ now \in Nat
  BY TypeFacts, BoundsAssumption
<1>u. ASSUME UNCHANGED <<cp, handled, port_send_num>>,
             \A r \in Requests : HandledOf(r) = Readers[cp][r] \/ r \in expired' \/
                 (Unreported(r) => reports'[r] = 0 /\ r \notin finished_requests'),
             expired \subseteq expired'
      PROVE  DonesOK'
  <2>1. \A r : HandledOf(r)' = HandledOf(r)
    BY Zenon, <1>u DEF HandledOf
  <2> QED BY <1>u, <2>1, Zenon DEF DonesOK, Unreported
<1>1. ASSUME \/ \E r \in Requests : \/ update_state_after_alloc(r) \/ preempt(r)
                                    \/ request_finished(r) \/ request_finished_early(r)
             \/ build_connector_meta \/ start_load_kv \/ Tick \/ UNCHANGED vars
             \/ \E m \in Dones : begin_read(m) \/ send_done(m) \/ send_done_again(m)
      PROVE  DonesOK'
  <2>1. UNCHANGED <<cp, handled, port_send_num, reports, expired, finished_requests>>
    BY Zenon, <1>1 DEF update_state_after_alloc, preempt, request_finished, request_finished_early,
      build_connector_meta, start_load_kv, add_req_to_process, Tick, begin_read, send_done,
      send_done_again,
      vars, trackerVars, decodeVars, reportVars
  <2> QED BY Zenon, <2>1, <1>u DEF Unreported
<1>2. ASSUME send_next PROVE DonesOK'
  <2> DEFINE e == Head(to_send)
  <2>1. UNCHANGED <<cp, handled, port_send_num, reports, expired>> /\ to_send # <<>>
    BY Zenon, <1>2 DEF send_next, decodeVars, reportVars
  <2>2. CASE sends(e.req)
    <3>1. finished_requests' = finished_requests
      BY Zenon, <1>2, <2>2 DEF send_next, add_delayed_request
    <3> QED BY Zenon, <2>1, <3>1, <1>u DEF Unreported
  <2>3. CASE ~sends(e.req)
    <3>1. finished_requests' = finished_requests \cup {e.req}
      BY Zenon, <1>2, <2>3 DEF send_next, add_not_transfer_request
    <3>2. e.req \in Requests
      BY Zenon, <2>1, <1>t, TailFacts, EntryFacts
    <3>3. HandledOf(e.req) = Readers[cp][e.req]
      <4>1. cp = FALSE /\ e.req \notin RemoteRank
        BY Zenon, <2>3, <1>t DEF sends
      <4> QED BY <4>1, <3>2, ReadersAssumption, Zenon DEF HandledOf
    <3> HIDE DEF e
    <3> QED BY Zenon, <2>1, <3>1, <3>3, <1>u DEF Unreported
  <2> QED BY Zenon, <2>2, <2>3
<1>3. ASSUME get_finished PROVE DonesOK'
  <2>1. /\ get_and_clear_finished_requests(now)
        /\ UNCHANGED <<cp, handled, port_send_num>>
        /\ reports' = [r \in Requests |->
              IF r \in finished_or_expired(now) THEN reports[r] + 1 ELSE reports[r]]
        /\ expired' = expired \cup retrieve_expired_requests(now)
    BY Zenon, <1>3 DEF get_finished, decodeVars
  <2>2. /\ finished_requests' = {}
        /\ finished_or_expired(now) = finished_requests \cup retrieve_expired_requests(now)
    BY Zenon, <2>1 DEF get_and_clear_finished_requests, finished_or_expired
  <2> QED BY Zenon, <2>1, <2>2, <1>u DEF Unreported
<1>4. ASSUME NEW m \in Dones, done_recving(m), m \in handled PROVE DonesOK'
  <2>1. /\ m.req \in Requests /\ handled' = handled
        /\ UNCHANGED <<cp, reports, expired>>
    BY Zenon, <1>4, EntryFacts DEF done_recving, reportVars
  <2>2. \A r \in Requests : HandledOf(r)' = HandledOf(r)
    BY Zenon, <2>1 DEF HandledOf
  <2>3. HandledOf(m.req) = Readers[cp][m.req]
    <3>1. Readers[cp][m.req] = {m.task}
      BY Zenon, <1>4 DEF done_recving, ReadersOK
    <3> QED BY Zenon, <3>1, <1>4, DoneFacts DEF HandledOf
  <2>4. /\ finished_requests' \subseteq finished_requests \cup {m.req}
        /\ \A q \in Requests : q # m.req => port_send_num'[q] = port_send_num[q]
    <3>1. CASE cp /\ ~enough_dones(m.req)
      BY Zenon, <1>4, <3>1, <1>t DEF done_recving, trackerVars
    <3>2. CASE ~(cp /\ ~enough_dones(m.req))
      BY Zenon, <1>4, <3>2, <1>t DEF done_recving, update_done_task_count, trackerVars
    <3> QED BY Zenon, <3>1, <3>2
  <2> QED BY Zenon, <2>1, <2>2, <2>3, <2>4 DEF DonesOK, Unreported
<1>5. ASSUME NEW m \in Dones, done_recving(m), m \notin handled PROVE DonesOK'
  <2> DEFINE r == m.req
  <2>1. /\ r \in Requests /\ m \notin handled /\ handled' = handled \cup {m}
        /\ UNCHANGED <<cp, reports, expired>>
    BY Zenon, <1>5, EntryFacts DEF done_recving, reportVars
  <2>2. /\ m.task \in Readers[cp][r]
        /\ HandledOf(r)' = HandledOf(r) \cup {m.task}
        /\ m.task \notin HandledOf(r)
        /\ \A q \in Requests : q # r => HandledOf(q)' = HandledOf(q)
    BY Zenon, <2>1, HandledFacts
  <2>3. HandledOf(r) # Readers[cp][r] /\ HandledOf(r)' \subseteq Readers[cp][r]
    BY Zenon, <2>2 DEF HandledOf
  <2>4. /\ finished_requests' \subseteq finished_requests \cup {r}
        /\ \A q \in Requests : q # r => port_send_num'[q] = port_send_num[q]
    <3>1. CASE cp /\ ~enough_dones(r)
      BY Zenon, <1>5, <3>1, <1>t DEF done_recving, trackerVars
    <3>2. CASE ~(cp /\ ~enough_dones(r))
      BY Zenon, <1>5, <3>2, <1>t DEF done_recving, update_done_task_count, trackerVars
    <3> QED BY Zenon, <3>1, <3>2
  <2>5. ASSUME NEW q \in Requests, q # r
        PROVE  \/ HandledOf(q)' = Readers[cp'][q]
               \/ /\ q \in expired' \/ Unreported(q)'
                  /\ cp' => port_send_num'[q] = Cardinality(HandledOf(q)')
    <3> HIDE DEF r
    <3>1. HandledOf(q)' = HandledOf(q) /\ port_send_num'[q] = port_send_num[q] /\ cp' = cp
          /\ (Unreported(q) => Unreported(q)') /\ expired' = expired
      BY Zenon, <2>1, <2>2, <2>4, <2>5 DEF Unreported
    <3> QED BY Zenon, <3>1 DEF DonesOK
  <2>6. \/ HandledOf(r)' = Readers[cp'][r]
        \/ /\ r \in expired' \/ Unreported(r)'
           /\ cp' => port_send_num'[r] = Cardinality(HandledOf(r)')
    <3>1. CASE cp = FALSE
      <4>1. \A d \in Readers[cp][r] : d = m.task
        BY <3>1, <2>1, <2>2, ReadersAssumption, Zenon
      <4> QED BY Zenon, <4>1, <2>1, <2>2, <2>3
    <3>2. CASE cp = TRUE
      <4>1. /\ r \in expired \/ Unreported(r)
            /\ port_send_num[r] = Cardinality(HandledOf(r))
        BY <3>2, <2>1, <2>3, Zenon DEF DonesOK
      <4>2. /\ IsFiniteSet(Readers[cp][r])
            /\ \/ Cardinality(Readers[cp][r]) <= SendNum[r]
               \/ Cardinality(Readers[cp][r]) <= 1
            /\ SendNum[r] \in Nat
        BY <3>2, <2>1, PortSendNumAssumption, SendNumAssumption, Zenon
      <4>3. IsFiniteSet(HandledOf(r))
        BY Zenon, <4>2, <2>2, <2>3, FS_Subset
      <4>4. /\ Cardinality(HandledOf(r)') = Cardinality(HandledOf(r)) + 1
            /\ IsFiniteSet(HandledOf(r)')
        BY <4>3, <2>2, FS_AddElement
      <4>5. CASE ~enough_dones(r)
        <5>1. port_send_num' = [port_send_num EXCEPT ![r] = @ + 1] /\ UNCHANGED trackerVars
          BY Zenon, <3>2, <4>5, <1>5 DEF done_recving
        <5>2. port_send_num'[r] = port_send_num[r] + 1
          BY Zenon, <5>1, <1>t, <2>1
        <5>3. Unreported(r) => Unreported(r)'
          BY Zenon, <5>1, <2>1 DEF Unreported, trackerVars
        <5> QED BY Zenon, <5>2, <5>3, <4>1, <4>4, <2>1
      <4>6. CASE enough_dones(r)
        <5>1. /\ Cardinality(HandledOf(r)) \in Nat /\ Cardinality(Readers[cp][r]) \in Nat
              /\ Cardinality(HandledOf(r)') \in Nat
          BY Zenon, <4>2, <4>3, <4>4, FS_CardinalityType
        <5>2. Cardinality(HandledOf(r)) + 1 >= SendNum[r]
          BY Zenon, <4>1, <4>6 DEF enough_dones
        <5>3. Cardinality(Readers[cp][r]) <= Cardinality(HandledOf(r)')
          BY <5>1, <5>2, <4>2, <4>4
        <5>4. HandledOf(r)' = Readers[cp][r]
          <6>1. /\ Cardinality(HandledOf(r)') <= Cardinality(Readers[cp][r])
                /\ Cardinality(HandledOf(r)') = Cardinality(Readers[cp][r])
                      => HandledOf(r)' = Readers[cp][r]
            BY Zenon, <4>2, <2>3, FS_Subset
          <6> QED BY <6>1, <5>1, <5>3
        <5> QED BY Zenon, <5>4, <2>1
      <4> QED BY Zenon, <4>5, <4>6
    <3> QED BY <3>1, <3>2, <1>t, Zenon
  <2> QED BY Zenon, <2>5, <2>6 DEF DonesOK
<1> QED
  BY Zenon, <1>1, <1>2, <1>3, <1>4, <1>5 DEF Next

-----------------------------------------------------------------------------
(* The theorems. *)

\* Inductive is an invariant of the program.
THEOREM Invariance == Spec => []Inductive
<1>1. Init => Inductive
  BY Zenon, InitTypes, InitOrder, InitEntries, InitBatch, InitReport, InitReaders, InitDones
    DEF Inductive
<1>2. Inductive /\ [Next]_vars => Inductive'
  <2> SUFFICES ASSUME Inductive, [Next]_vars PROVE Inductive'
    BY Zenon
  <2>1. /\ TypeOK /\ EntryOrder /\ EntriesOK /\ BatchOK /\ ReportOK /\ ReadersOK /\ DonesOK
        /\ Ordered(delayed_free_requests) /\ Precedes(delayed_free_requests, to_send)
    BY Zenon DEF Inductive, EntryOrder
  <2>2. TypeOK'
    BY Zenon, <2>1, NextTypes
  <2>3. EntryOrder' /\ EntriesOK'
    BY Zenon, <2>1, NextOrder, NextEntries
  <2>4. BatchOK' /\ ReportOK'
    BY Zenon, <2>1, NextBatch, NextReport
  <2>5. ReadersOK' /\ DonesOK'
    BY Zenon, <2>1, NextReaders, NextDones
  <2> QED BY Zenon, <2>2, <2>3, <2>4, <2>5 DEF Inductive
<1> QED BY <1>1, <1>2, PTL DEF Spec

\* The rank reports a request at most once (get_and_clear_finished_requests),
\* whatever the order of DONEs, delayed entries and timeouts.
THEOREM ReportedAtMostOnceHolds == Spec => []ReportedAtMostOnce
<1>1. Inductive => ReportedAtMostOnce
  <2> SUFFICES ASSUME Inductive, NEW r \in Requests PROVE reports[r] <= 1
    BY Zenon DEF ReportedAtMostOnce
  <2>1. reports[r] = 0 \/ reports[r] = 1
    BY Zenon DEF Inductive, ReportOK, Unreported
  <2> QED BY <2>1
<1> QED BY <1>1, Invariance, PTL

\* The rank does not give up, before the timeout, the blocks of a request that
\* a decode task reads (DONE_RECVING_MSG, port_send_num).
THEOREM BlocksHeldWhileReadHolds == Spec => []BlocksHeldWhileRead
<1>1. Inductive => BlocksHeldWhileRead
  <2> SUFFICES ASSUME Inductive, NEW m \in reading
               PROVE  m.req \in expired \/ (reports[m.req] = 0 /\ m.req \notin finished_requests)
    BY Zenon DEF BlocksHeldWhileRead
  <2>1. m \in Dones /\ m \notin handled
    BY Zenon, TypeFacts DEF Inductive, ReadersOK
  <2>2. m.req \in Requests /\ m.task \in Readers[cp][m.req] /\ m = [req |-> m.req, task |-> m.task]
    BY <2>1 DEF Dones
  <2>3. HandledOf(m.req) # Readers[cp][m.req]
    BY Zenon, <2>1, <2>2 DEF HandledOf
  <2> QED BY Zenon, <2>2, <2>3 DEF Inductive, DonesOK, Unreported
<1> QED BY <1>1, Invariance, PTL

\* get_finished leaves no expired request behind (_retrieve_expired_requests).
THEOREM NoExpiredLeftHolds == Spec => NoExpiredLeft
<1> DEFINE Step ==
      get_finished =>
          \A i \in 1..Len(delayed_free_requests') :
              now - delayed_free_requests'[i].start <= ABORT_REQUEST_TIMEOUT
<1>1. Inductive => Step
  <2> SUFFICES ASSUME Inductive, get_finished PROVE Step
    BY Zenon
  <2>1. /\ delayed_free_requests \in Seq(Entries) /\ Ordered(delayed_free_requests)
        /\ now \in Nat /\ get_and_clear_finished_requests(now)
    BY TypeFacts, BoundsAssumption DEF Inductive, EntryOrder, get_finished
  <2> QED BY Zenon, <2>1, ClearFacts
<1> QED BY <1>1, Invariance, PTL DEF NoExpiredLeft
=============================================================================
