----------------------------- MODULE LoopProofs -----------------------------
(***************************************************************************)
(* What PitcherLoop promises about the memory of the poll nodes, for any    *)
(* channels, sources, number of nodes and intervals: the list, the heap and *)
(* the pointers epoll holds agree, and no event points to a freed node.     *)
(* The invariant adds where the loop thread is: a batch of events exists    *)
(* only while it is handled, its nodes differ, and the position of the pass *)
(* over the nodes is a node.  The second part is about the end of the loop:  *)
(* every channel is stopped, and with the interval of loop.c the nodes that  *)
(* pitcher_start registered are gone.                                       *)
(***************************************************************************)
EXTENDS PitcherLoop, SequenceTheorems, TLAPS

(* An edge is only ever held for a registered descriptor. *)
EdgeInv == \A c \in edge : interest[c] # None

(* The events of a batch belong to different nodes. *)
BatchInv == IsInjective(batch) /\ (batch # <<>> => pc = "events")

(* Where the loop thread can be inside a callback, and on which node. *)
PlaceInv ==
    /\ pos >= 1
    /\ inside => pc \in {"pass", "epoll", "events"}
    /\ inside /\ pc = "pass" => pos <= Len(Order)
    /\ inside /\ pc = "events" => batch # <<>>
    /\ pc = "epoll" => pos \in 1 .. Len(pools)

(* The clock of the loop does not run ahead, and the timer is not younger   *)
(* than the turn.                                                           *)
TimeInv ==
    /\ tv <= clock /\ task.tv <= clock
    /\ pc = "timer" => task.tv <= tv

NodesInv == EpollExact /\ EdgeInv /\ BatchInv /\ BatchSafe

Inv == TypeOK /\ NodesInv /\ PlaceInv /\ TimeInv /\ Served

-----------------------------------------------------------------------------
(* RemoveAt closes the gap: later elements move down by one. *)
LEMMA RemoveAtShape ==
  ASSUME NEW S, NEW s \in Seq(S), NEW k \in 1 .. Len(s)
  PROVE  /\ RemoveAt(s, k) \in Seq(S)
         /\ Len(RemoveAt(s, k)) = Len(s) - 1
         /\ \A i \in 1 .. Len(s) - 1 :
               RemoveAt(s, k)[i] = IF i < k THEN s[i] ELSE s[i + 1]
<1> DEFINE a == SubSeq(s, 1, k - 1)
           z == SubSeq(s, k + 1, Len(s))
<1>1. /\ k \in Int /\ k >= 1 /\ k <= Len(s) /\ Len(s) \in Nat
      /\ k - 1 \in Int /\ k + 1 \in Int
      /\ \A i \in 1 .. Len(s) : s[i] \in S
  OBVIOUS
<1>2. /\ a \in Seq(S) /\ Len(a) = k - 1
      /\ \A i \in 1 .. k - 1 : a[i] = s[i]
  <2>1. \A i \in 1 .. k - 1 : s[i] \in S
    BY <1>1
  <2>2. /\ a \in Seq(S)
        /\ Len(a) = IF 1 <= k - 1 THEN (k - 1) - 1 + 1 ELSE 0
        /\ \A i \in 1 .. (k - 1) - 1 + 1 : a[i] = s[1 + i - 1]
    BY <1>1, <2>1, SubSeqProperties
  <2> HIDE DEF a
  <2>3. Len(a) = k - 1
    BY <2>2, <1>1
  <2>4. ASSUME NEW i \in 1 .. k - 1 PROVE a[i] = s[i]
    <3>1. (k - 1) - 1 + 1 = k - 1 /\ 1 + i - 1 = i
      BY <1>1
    <3> QED BY <3>1, <2>2
  <2> QED BY <2>2, <2>3, <2>4
<1>3. /\ z \in Seq(S) /\ Len(z) = Len(s) - k
      /\ \A i \in 1 .. Len(s) - k : z[i] = s[k + i]
  <2>1. \A i \in k + 1 .. Len(s) : s[i] \in S
    BY <1>1
  <2>2. /\ z \in Seq(S)
        /\ Len(z) = IF k + 1 <= Len(s) THEN Len(s) - (k + 1) + 1 ELSE 0
        /\ \A i \in 1 .. Len(s) - (k + 1) + 1 : z[i] = s[(k + 1) + i - 1]
    BY <1>1, <2>1, SubSeqProperties
  <2> HIDE DEF z
  <2> QED BY <2>2, <1>1
<1>4. /\ a \o z \in Seq(S)
      /\ Len(a \o z) = Len(a) + Len(z)
      /\ \A i \in 1 .. Len(a) + Len(z) :
            (a \o z)[i] = IF i <= Len(a) THEN a[i] ELSE z[i - Len(a)]
  BY <1>2, <1>3, ConcatProperties
<1>5. RemoveAt(s, k) = a \o z
  BY DEF RemoveAt
<1> HIDE DEF a, z
<1>6. ASSUME NEW i \in 1 .. Len(s) - 1
      PROVE  (a \o z)[i] = IF i < k THEN s[i] ELSE s[i + 1]
  <2>1. CASE i < k
    BY <2>1, <1>1, <1>2, <1>3, <1>4
  <2>2. CASE i >= k
    <3>1. (a \o z)[i] = z[i - (k - 1)]
      BY <2>2, <1>1, <1>2, <1>3, <1>4
    <3>2. i - (k - 1) \in 1 .. Len(s) - k /\ k + (i - (k - 1)) = i + 1
      BY <2>2, <1>1
    <3>3. z[i - (k - 1)] = s[i + 1]
      <4>1. z[i - (k - 1)] = s[k + (i - (k - 1))]
        BY <3>2, <1>3
      <4> QED BY <4>1, <3>2
    <3>4. ~(i < k)
      BY <2>2, <1>1
    <3> QED BY <3>1, <3>3, <3>4
  <2>3. i < k \/ i >= k
    BY <1>1
  <2> QED BY <2>1, <2>2, <2>3
<1>7. Len(a \o z) = Len(s) - 1
  BY <1>1, <1>2, <1>3, <1>4
<1> QED BY <1>4, <1>5, <1>6, <1>7

(* Removing one position of a list without repetitions removes that node    *)
(* and nothing else.                                                        *)
LEMMA RemoveAtDistinct ==
  ASSUME NEW S, NEW s \in Seq(S), NEW k \in 1 .. Len(s), IsInjective(s)
  PROVE  /\ IsInjective(RemoveAt(s, k))
         /\ ToSet(RemoveAt(s, k)) = ToSet(s) \ {s[k]}
<1> DEFINE r == RemoveAt(s, k)
<1>1. /\ r \in Seq(S) /\ Len(r) = Len(s) - 1
      /\ \A i \in 1 .. Len(s) - 1 : r[i] = IF i < k THEN s[i] ELSE s[i + 1]
  BY RemoveAtShape
<1>2. DOMAIN r = 1 .. Len(s) - 1 /\ DOMAIN s = 1 .. Len(s)
  BY <1>1
<1> HIDE DEF r
<1> DEFINE from(i) == IF i < k THEN i ELSE i + 1
<1>0. \A i \in 1 .. Len(s) - 1 :
         from(i) \in (1 .. Len(s)) \ {k} /\ r[i] = s[from(i)]
  BY <1>1
<1>3. IsInjective(r)
  <2> SUFFICES ASSUME NEW i \in 1 .. Len(s) - 1, NEW j \in 1 .. Len(s) - 1, r[i] = r[j]
               PROVE  i = j
    BY <1>2 DEF IsInjective
  <2>1. s[from(i)] = s[from(j)] /\ from(i) \in 1 .. Len(s) /\ from(j) \in 1 .. Len(s)
    BY <1>0
  <2>2. from(i) = from(j)
    BY <2>1, <1>2 DEF IsInjective
  <2> QED BY <2>2
<1>4. ToSet(r) \subseteq ToSet(s) \ {s[k]}
  <2> SUFFICES ASSUME NEW i \in 1 .. Len(s) - 1
               PROVE  r[i] \in ToSet(s) \ {s[k]}
    BY <1>2 DEF ToSet
  <2>1. from(i) \in 1 .. Len(s) /\ from(i) # k /\ r[i] = s[from(i)]
    BY <1>0
  <2> HIDE DEF from
  <2> QED BY <2>1, <1>2 DEF IsInjective, ToSet
<1>5. ASSUME NEW i \in 1 .. Len(s), i # k
      PROVE  s[i] \in ToSet(r)
  <2>1. CASE i < k
    <3>1. i \in 1 .. Len(s) - 1 /\ r[i] = s[i]
      BY <1>1, <2>1
    <3> QED BY <3>1, <1>2 DEF ToSet
  <2>2. CASE i > k
    <3>1. i - 1 \in 1 .. Len(s) - 1 /\ r[i - 1] = s[i]
      BY <1>1, <2>2
    <3> QED BY <3>1, <1>2 DEF ToSet
  <2> QED BY <2>1, <2>2, <1>5
<1>6. ToSet(s) \ {s[k]} \subseteq ToSet(r)
  BY <1>5, <1>2 DEF ToSet
<1> QED BY <1>3, <1>4, <1>6 DEF r

(* Appending a new element to a list without repetitions. *)
LEMMA AppendDistinct ==
  ASSUME NEW S, NEW s \in Seq(S), NEW n \in S, n \notin ToSet(s), IsInjective(s)
  PROVE  /\ Append(s, n) \in Seq(S) /\ Len(Append(s, n)) = Len(s) + 1
         /\ IsInjective(Append(s, n)) /\ ToSet(Append(s, n)) = ToSet(s) \cup {n}
<1>1. /\ Append(s, n) \in Seq(S) /\ Len(Append(s, n)) = Len(s) + 1
      /\ Append(s, n)[Len(s) + 1] = n
      /\ \A i \in 1 .. Len(s) : Append(s, n)[i] = s[i]
  OBVIOUS
<1>2. DOMAIN Append(s, n) = 1 .. Len(s) + 1 /\ DOMAIN s = 1 .. Len(s) /\ Len(s) \in Nat
  BY <1>1
<1>3. IsInjective(Append(s, n))
  BY <1>1, <1>2 DEF IsInjective, ToSet
<1>4. ToSet(Append(s, n)) = ToSet(s) \cup {n}
  <2>1. \A x \in ToSet(s) \cup {n} : x \in ToSet(Append(s, n))
    BY <1>1, <1>2 DEF ToSet
  <2>2. \A x \in ToSet(Append(s, n)) : x \in ToSet(s) \cup {n}
    BY <1>1, <1>2 DEF ToSet
  <2> QED BY <2>1, <2>2
<1> QED BY <1>1, <1>3, <1>4

(* The quotient of a time by a unit is a time. *)
LEMMA QuotientNat ==
  ASSUME NEW a \in Nat, NEW n \in Nat \ {0}
  PROVE  a \div n \in Nat
  OBVIOUS

(* The elements of a list of a set are in the set. *)
LEMMA SetOfSeq ==
  ASSUME NEW S, NEW s \in Seq(S)
  PROVE  ToSet(s) \subseteq S
  BY DEF ToSet

-----------------------------------------------------------------------------
(* Registration keeps list, heap and epoll in agreement, leaves the nodes   *)
(* of events alone and registers the channel.                               *)
LEMMA AddNode ==
  ASSUME TypeOK, EpollExact, EdgeInv, NEW c \in Chn, pitcher_loop_add_poll_fd(c)
  PROVE  /\ EpollExact' /\ EdgeInv'
         /\ node' \in [Node -> [key : Chn, tv : Nat, timeout : 0 .. LOOP_TIMEOUT_DEFAULT]]
         /\ heap' \subseteq Node /\ pools' \in Seq(Node) /\ edge' \subseteq Chn
         /\ interest' \in [Chn -> Node \cup {None}]
         /\ heap \subseteq heap' /\ Len(pools) <= Len(pools')
         /\ interest'[c] # None
         /\ \A d \in Chn : interest[d] # None => interest'[d] # None
<1>0. /\ node \in [Node -> [key : Chn, tv : Nat, timeout : 0 .. LOOP_TIMEOUT_DEFAULT]]
      /\ heap \subseteq Node /\ pools \in Seq(Node) /\ edge \subseteq Chn /\ clock \in Nat
      /\ interest \in [Chn -> Node \cup {None}]
      /\ LOOP_TIMEOUT_DEFAULT \in 0 .. LOOP_TIMEOUT_DEFAULT
  BY LoopAssumption DEF TypeOK
<1>1. CASE interest[c] # None
  <2>1. UNCHANGED nodeVars
    BY <1>1 DEF pitcher_loop_add_poll_fd
  <2> QED BY <1>0, <1>1, <2>1 DEF nodeVars, EpollExact, EdgeInv
<1>2. CASE interest[c] = None
  <2>1. PICK n \in Node \ heap :
          /\ node' = [node EXCEPT ![n] = [key |-> c, tv |-> clock, timeout |-> LOOP_TIMEOUT_DEFAULT]]
          /\ heap' = heap \cup {n}
          /\ pools' = Append(pools, n)
          /\ interest' = [interest EXCEPT ![c] = n]
          /\ edge' = edge
    BY <1>2 DEF pitcher_loop_add_poll_fd
  <2>2. n \notin ToSet(pools) /\ IsInjective(pools) /\ ToSet(pools) = heap
    BY <2>1 DEF EpollExact
  <2>3. /\ pools' \in Seq(Node) /\ Len(pools') = Len(pools) + 1
        /\ IsInjective(pools') /\ ToSet(pools') = heap'
    BY <1>0, <2>1, <2>2, AppendDistinct
  <2>4. /\ node' \in [Node -> [key : Chn, tv : Nat, timeout : 0 .. LOOP_TIMEOUT_DEFAULT]]
        /\ interest' \in [Chn -> Node \cup {None}] /\ heap' \subseteq Node
    BY <1>0, <2>1
  <2>5. n # None
    BY <2>1, LoopAssumption
  <2>6. /\ interest'[c] = n /\ \A d \in Chn : d # c => interest'[d] = interest[d]
        /\ node'[n].key = c /\ \A m \in Node : m # n => node'[m].key = node[m].key
    BY <1>0, <2>1
  <2>7. \A d \in Chn, m \in Node : interest'[d] = m <=> m \in heap' /\ node'[m].key = d
    <3> SUFFICES ASSUME NEW d \in Chn, NEW m \in Node
                 PROVE  interest'[d] = m <=> m \in heap' /\ node'[m].key = d
      OBVIOUS
    <3>1. interest[d] = m <=> m \in heap /\ node[m].key = d
      BY DEF EpollExact
    <3>2. interest[d] # n /\ (m \in heap => interest[c] # m) /\ m # None
      BY <1>2, <2>1, LoopAssumption DEF EpollExact
    <3>3. m \in heap => node[m].key # c
      BY <3>2 DEF EpollExact
    <3> QED BY <2>1, <2>6, <3>1, <3>2, <3>3
  <2> QED BY <1>0, <2>1, <2>3, <2>4, <2>5, <2>6, <2>7 DEF EpollExact, EdgeInv
<1> QED BY <1>1, <1>2

(* Freeing a node of the list takes it, and it alone, from the heap, from   *)
(* epoll and from the edges epoll may still report.                         *)
LEMMA FreeNode ==
  ASSUME TypeOK, EpollExact, EdgeInv, NEW i \in 1 .. Len(pools), free_poll_node(i)
  PROVE  /\ EpollExact' /\ EdgeInv'
         /\ heap' \subseteq Node /\ pools' \in Seq(Node) /\ edge' \subseteq Chn /\ node' = node
         /\ interest' \in [Chn -> Node \cup {None}]
         /\ heap' = heap \ {pools[i]} /\ Len(pools') = Len(pools) - 1
         /\ pools[i] \in heap
         /\ \A d \in Chn : d # node[pools[i]].key => interest'[d] = interest[d]
<1> DEFINE n == pools[i]
           k == node[n].key
<1>0. /\ node \in [Node -> [key : Chn, tv : Nat, timeout : 0 .. LOOP_TIMEOUT_DEFAULT]]
      /\ heap \subseteq Node /\ pools \in Seq(Node) /\ edge \subseteq Chn
      /\ interest \in [Chn -> Node \cup {None}]
  BY DEF TypeOK
<1>1. n \in Node /\ n \in ToSet(pools) /\ k \in Chn
  BY <1>0 DEF ToSet
<1>2. n \in heap /\ IsInjective(pools) /\ ToSet(pools) = heap /\ interest[k] = n
  BY <1>1 DEF EpollExact
<1>3. /\ pools' = RemoveAt(pools, i) /\ heap' = heap \ {n} /\ edge' = edge \ {k}
      /\ interest' = [interest EXCEPT ![k] = None] /\ node' = node
  BY DEF free_poll_node
<1> HIDE DEF n, k
<1>4. /\ pools' \in Seq(Node) /\ Len(pools') = Len(pools) - 1
      /\ IsInjective(pools') /\ ToSet(pools') = heap'
  BY <1>0, <1>2, <1>3, RemoveAtShape, RemoveAtDistinct DEF n
<1>5. /\ interest' \in [Chn -> Node \cup {None}]
      /\ interest'[k] = None /\ \A d \in Chn : d # k => interest'[d] = interest[d]
  BY <1>0, <1>1, <1>3
<1>6. \A d \in Chn, m \in Node : interest'[d] = m <=> m \in heap' /\ node'[m].key = d
  <2> SUFFICES ASSUME NEW d \in Chn, NEW m \in Node
               PROVE  interest'[d] = m <=> m \in heap' /\ node'[m].key = d
    OBVIOUS
  <2>1. m # None /\ (interest[d] = m <=> m \in heap /\ node[m].key = d)
    BY LoopAssumption DEF EpollExact
  <2>2. node[n].key = k
    BY DEF k
  <2> QED BY <1>1, <1>2, <1>3, <1>5, <2>1, <2>2
<1>7. EdgeInv'
  BY <1>0, <1>3, <1>5 DEF EdgeInv
<1> QED BY <1>0, <1>2, <1>3, <1>4, <1>5, <1>6, <1>7 DEF EpollExact, n, k

(* Deleting the node of a channel. *)
LEMMA DelNode ==
  ASSUME TypeOK, EpollExact, EdgeInv, NEW c \in Chn, del_poll(c)
  PROVE  /\ EpollExact' /\ EdgeInv'
         /\ heap' \subseteq Node /\ pools' \in Seq(Node) /\ edge' \subseteq Chn /\ node' = node
         /\ interest' \in [Chn -> Node \cup {None}]
         /\ \A n \in heap : node[n].key # c => n \in heap'
         /\ \A d \in Chn : d # c => interest'[d] = interest[d]
<1>1. CASE UNCHANGED nodeVars
  BY <1>1 DEF nodeVars, TypeOK, EpollExact, EdgeInv
<1>2. CASE \E i \in DOMAIN pools : node[pools[i]].key = c /\ free_poll_node(i)
  <2>1. PICK i \in DOMAIN pools : node[pools[i]].key = c /\ free_poll_node(i)
    BY <1>2
  <2>2. i \in 1 .. Len(pools)
    BY DEF TypeOK
  <2>3. /\ EpollExact' /\ EdgeInv'
        /\ heap' \subseteq Node /\ pools' \in Seq(Node) /\ edge' \subseteq Chn /\ node' = node
        /\ interest' \in [Chn -> Node \cup {None}]
        /\ heap' = heap \ {pools[i]}
        /\ \A d \in Chn : d # c => interest'[d] = interest[d]
    BY <2>1, <2>2, FreeNode
  <2> QED BY <2>1, <2>3
<1> QED BY <1>1, <1>2 DEF del_poll

(* A step that touches neither nodes nor events. *)
LEMMA NodesKept ==
  ASSUME NodesInv, UNCHANGED nodeVars, batch' = batch, batch # <<>> => pc' = "events"
  PROVE  NodesInv'
  BY DEF NodesInv, nodeVars, EpollExact, EdgeInv, BatchInv, BatchSafe

-----------------------------------------------------------------------------
(* Init establishes the invariant: nothing is registered. *)
LEMMA InitInv == Init => Inv
<1> SUFFICES ASSUME Init PROVE Inv
  OBVIOUS
<1>1. TypeOK
  <2>1. 0 \in 0 .. LOOP_TIMEOUT_DEFAULT /\ 0 \in Nat /\ 1 \in Nat
    BY LoopAssumption
  <2>2. node \in [Node -> [key : Chn, tv : Nat, timeout : 0 .. LOOP_TIMEOUT_DEFAULT]]
    BY <2>1 DEF Init
  <2>3. task \in [on : BOOLEAN, tv : Nat, timeout : 0 .. LOOP_TIMEOUT_DEFAULT]
    BY <2>1 DEF Init
  <2>4. /\ stack \in Seq([chn : Chn, sent : SUBSET Chn])
        /\ pools \in Seq(Node) /\ batch \in Seq(Node)
    BY DEF Init
  <2>5. /\ state \in [Chn -> {"STOPPED", "STOPPING", "ACTIVE"}]
        /\ interest \in [Chn -> Node \cup {None}]
        /\ heap \subseteq Node /\ edge \subseteq Chn
    BY DEF Init
  <2>6. /\ clock \in Nat /\ tv \in Nat /\ pos \in Nat
        /\ left_time \in 0 .. LOOP_TIMEOUT_DEFAULT
    BY <2>1 DEF Init
  <2>7. /\ running \in BOOLEAN /\ pc \in Where
        /\ isLast \in BOOLEAN /\ inside \in BOOLEAN /\ count \in BOOLEAN
    BY DEF Init, Where
  <2> QED BY <2>2, <2>3, <2>4, <2>5, <2>6, <2>7 DEF TypeOK
<1>2. ToSet(<<>>) = {} /\ IsInjective(<<>>)
  BY DEF ToSet, IsInjective
<1>3. \A c \in Chn, n \in Node : interest[c] # n /\ n \notin heap
  BY LoopAssumption DEF Init
<1>4. NodesInv
  BY <1>2, <1>3 DEF Init, NodesInv, EpollExact, EdgeInv, BatchInv, BatchSafe
<1> QED BY <1>1, <1>4 DEF Init, Inv, PlaceInv, TimeInv, Served

(* The steps of the start and of the turn that leave nodes alone. *)
LEMMA TurnStep ==
  ASSUME Inv, pitcher_start_end \/ pitcher_loop_add_task \/ pre_process \/ events_end \/ Tick
  PROVE  Inv'
<1> USE DEF Inv
<1>1. CASE pitcher_start_end
  <2>1. TypeOK'
    BY <1>1 DEF pitcher_start_end, TypeOK, chnVars, nodeVars, timeVars, Where
  <2>2. NodesInv'
    BY <1>1, NodesKept DEF pitcher_start_end, NodesInv, BatchInv
  <2> QED BY <1>1, <2>1, <2>2 DEF pitcher_start_end, PlaceInv, TimeInv, Served, chnVars, nodeVars, timeVars
<1>2. CASE pitcher_loop_add_task
  <2>1. TypeOK'
    BY <1>2, LoopAssumption DEF pitcher_loop_add_task, TypeOK, chnVars, nodeVars, Where
  <2>2. NodesInv'
    BY <1>2, NodesKept DEF pitcher_loop_add_task, NodesInv, BatchInv
  <2>3. TimeInv'
    BY <1>2 DEF pitcher_loop_add_task, TimeInv, TypeOK
  <2> QED BY <1>2, <2>1, <2>2, <2>3 DEF pitcher_loop_add_task, PlaceInv, Served, chnVars, nodeVars
<1>3. CASE pre_process
  <2>1. TypeOK'
    BY <1>3, LoopAssumption DEF pre_process, TypeOK, chnVars, nodeVars, Where
  <2>2. NodesInv'
    BY <1>3, NodesKept DEF pre_process, NodesInv, BatchInv
  <2>3. TimeInv'
    BY <1>3 DEF pre_process, TimeInv, TypeOK
  <2> QED BY <1>3, <2>1, <2>2, <2>3 DEF pre_process, PlaceInv, Served, chnVars, nodeVars
<1>4. CASE events_end
  <2>1. TypeOK'
    BY <1>4 DEF events_end, TypeOK, chnVars, nodeVars, timeVars, Where
  <2>2. NodesInv'
    BY <1>4, NodesKept DEF events_end
  <2> QED BY <1>4, <2>1, <2>2 DEF events_end, PlaceInv, TimeInv, Served, chnVars, nodeVars, timeVars
<1>5. CASE Tick
  <2>1. TypeOK'
    BY <1>5 DEF Tick, TypeOK, chnVars, nodeVars, timeVars, loopVars
  <2>2. NodesInv'
    BY <1>5, NodesKept DEF Tick, NodesInv, BatchInv, loopVars
  <2>3. TimeInv'
    BY <1>5 DEF Tick, TimeInv, TypeOK, timeVars, loopVars
  <2> QED BY <1>5, <2>1, <2>2, <2>3 DEF Tick, PlaceInv, Served, chnVars, nodeVars, loopVars
<1> QED BY <1>1, <1>2, <1>3, <1>4, <1>5

(* Where a pass over the nodes arrives. *)
LEMMA Arrives ==
  ASSUME NEW k \in Nat \ {0}, NEW q \in Seq(Node), Arrive(k, q)
  PROVE  /\ pos' \in Nat /\ pos' >= 1 /\ isLast' \in BOOLEAN /\ pc' \in {"wait", "epoll"}
         /\ pc' = "epoll" => pos' \in 1 .. Len(q)
  BY DEF Arrive

(* The timer of the loop and the core's pass over its channels. *)
LEMMA TimerStep ==
  ASSUME Inv, timer_func \/ run_chn \/ timer_return
  PROVE  Inv'
<1> USE DEF Inv
<1>0. pools \in Seq(Node) /\ 1 \in Nat \ {0}
  BY DEF TypeOK
<1>1. CASE timer_func
  <2> DEFINE delta == (tv - task.tv) \div NSEC_PER_MSEC
  <2>1. /\ pc = "timer" /\ UNCHANGED <<chnVars, nodeVars, tv, running, inside, batch, clock>>
    BY <1>1 DEF timer_func
  <2>2. tv \in Nat /\ task.tv \in Nat /\ tv - task.tv \in Nat /\ task.timeout \in 0 .. LOOP_TIMEOUT_DEFAULT
    BY <2>1 DEF TypeOK, TimeInv
  <2>3. delta \in Nat
    BY <2>2, QuotientNat, LoopAssumption
  <2>4. task' = [task EXCEPT !.tv = tv,
                    !.timeout = IF delta >= task.timeout THEN LOOP_TIMEOUT_DEFAULT ELSE @ - delta]
    BY <1>1 DEF timer_func
  <2>5. \/ delta >= task.timeout /\ pc' = "pass" /\ pos' = 1 /\ count' = FALSE /\ left_time' = left_time /\ isLast' = isLast
        \/ /\ delta < task.timeout /\ left_time' = Earlier(left_time, task.timeout - delta)
           /\ Arrive(1, pools) /\ count' = count
    BY <1>1, <2>2, <2>3 DEF timer_func
  <2> HIDE DEF delta
  <2>a. delta < task.timeout => task.timeout - delta \in 0 .. LOOP_TIMEOUT_DEFAULT
    BY <2>2, <2>3, LoopAssumption
  <2>b. LOOP_TIMEOUT_DEFAULT \in 0 .. LOOP_TIMEOUT_DEFAULT
    BY LoopAssumption
  <2>c. delta >= task.timeout \/ delta < task.timeout
    BY <2>2, <2>3
  <2>6. /\ task' \in [on : BOOLEAN, tv : Nat, timeout : 0 .. LOOP_TIMEOUT_DEFAULT] /\ task'.tv = tv
    <3>1. PICK t \in 0 .. LOOP_TIMEOUT_DEFAULT : task' = [task EXCEPT !.tv = tv, !.timeout = t]
      BY <2>4, <2>a, <2>b, <2>c
    <3> QED BY <2>2, <3>1 DEF TypeOK
  <2>7. left_time' \in 0 .. LOOP_TIMEOUT_DEFAULT
    <3>1. left_time \in 0 .. LOOP_TIMEOUT_DEFAULT
      BY DEF TypeOK
    <3> QED BY <2>5, <2>a, <3>1 DEF Earlier
  <2>8. /\ pos' \in Nat /\ isLast' \in BOOLEAN /\ count' \in BOOLEAN /\ pc' \in {"pass", "wait", "epoll"}
        /\ pc' = "epoll" => pos' \in 1 .. Len(pools)
        /\ pos' >= 1
    <3>1. count \in BOOLEAN /\ isLast \in BOOLEAN
      BY DEF TypeOK
    <3>2. CASE Arrive(1, pools) /\ count' = count
      BY <1>0, <3>1, <3>2, Arrives
    <3>3. CASE pc' = "pass" /\ pos' = 1 /\ count' = FALSE /\ isLast' = isLast
      <4>1. pos' \in Nat /\ pos' >= 1
        BY <3>3
      <4> QED BY <3>1, <3>3, <4>1
    <3> QED BY <2>5, <3>2, <3>3
  <2>9. TypeOK'
    BY <2>1, <2>6, <2>7, <2>8 DEF TypeOK, chnVars, nodeVars, Where
  <2>10. NodesInv'
    BY <2>1, NodesKept DEF NodesInv, BatchInv
  <2>11. PlaceInv'
    BY <2>1, <2>8 DEF PlaceInv, nodeVars
  <2>12. TimeInv'
    BY <2>1, <2>6, <2>8 DEF TimeInv, TypeOK
  <2> QED BY <2>1, <2>9, <2>10, <2>11, <2>12 DEF Served, chnVars, nodeVars
<1>2. CASE run_chn
  <2>1. /\ pc = "pass" /\ pc' = pc /\ pos <= Len(Order)
        /\ UNCHANGED <<state, nodeVars, timeVars, running, pc, isLast, batch, clock>>
    BY <1>2 DEF run_chn
  <2>2. pos \in Nat /\ Len(Order) \in Nat
    BY LoopAssumption DEF TypeOK
  <2>3. /\ stack' \in Seq([chn : Chn, sent : SUBSET Chn]) /\ inside' \in BOOLEAN /\ count' \in BOOLEAN
        /\ pos' \in Nat /\ pos' >= 1 /\ (inside' => pos' <= Len(Order))
    <3>1. CASE ~inside /\ state[Order[pos]] # "STOPPED"
      <4>1. inside' = TRUE /\ stack' = Call(Order[pos]) /\ pos' = pos /\ count' = count
        BY <1>2, <3>1 DEF run_chn
      <4>2. pos \in 1 .. Len(Order)
        BY <2>1, <2>2 DEF PlaceInv
      <4>3. Order[pos] \in Chn
        BY <4>2, LoopAssumption
      <4>4. Call(Order[pos]) \in Seq([chn : Chn, sent : SUBSET Chn])
        BY <4>3 DEF Call
      <4>5. count \in BOOLEAN
        BY DEF TypeOK
      <4> QED BY <2>2, <4>1, <4>2, <4>4, <4>5
    <3>2. CASE ~(~inside /\ state[Order[pos]] # "STOPPED")
      <4>1. /\ inside' = FALSE /\ pos' = pos + 1 /\ stack' = stack
            /\ count' \in BOOLEAN
        BY <1>2, <3>2 DEF run_chn
      <4>2. stack \in Seq([chn : Chn, sent : SUBSET Chn])
        BY DEF TypeOK
      <4>3. pos + 1 \in Nat /\ pos + 1 >= 1
        BY <2>2
      <4> QED BY <4>1, <4>2, <4>3
    <3> QED BY <3>1, <3>2
  <2>4. TypeOK'
    BY <2>1, <2>3 DEF TypeOK, nodeVars, timeVars
  <2>5. NodesInv'
    BY <2>1, NodesKept DEF NodesInv, BatchInv
  <2> QED BY <2>1, <2>3, <2>4, <2>5 DEF PlaceInv, TimeInv, Served, nodeVars, timeVars
<1>3. CASE timer_return
  <2>1. /\ pc = "pass" /\ pos > Len(Order)
        /\ running' = count /\ task' = [task EXCEPT !.on = count]
        /\ left_time' = (IF count THEN Earlier(left_time, task.timeout) ELSE left_time)
        /\ Arrive(1, pools)
        /\ UNCHANGED <<chnVars, nodeVars, tv, inside, count, batch, clock>>
    BY <1>3 DEF timer_return
  <2>2. pos' \in Nat /\ pos' >= 1 /\ isLast' \in BOOLEAN /\ pc' \in {"wait", "epoll"}
        /\ (pc' = "epoll" => pos' \in 1 .. Len(pools))
    BY <1>0, <2>1, Arrives
  <2>3. /\ task' \in [on : BOOLEAN, tv : Nat, timeout : 0 .. LOOP_TIMEOUT_DEFAULT] /\ task'.tv = task.tv
        /\ left_time' \in 0 .. LOOP_TIMEOUT_DEFAULT
    BY <2>1 DEF TypeOK, Earlier
  <2>4. TypeOK'
    BY <2>1, <2>2, <2>3 DEF TypeOK, chnVars, nodeVars, Where
  <2>5. NodesInv'
    BY <2>1, NodesKept DEF NodesInv, BatchInv
  <2>6. pos \in Nat /\ Len(Order) \in Nat
    BY LoopAssumption DEF TypeOK
  <2>7. ~inside
    BY <2>1, <2>6 DEF PlaceInv
  <2>8. PlaceInv'
    BY <2>1, <2>2, <2>7 DEF PlaceInv, nodeVars
  <2> QED BY <2>1, <2>2, <2>3, <2>4, <2>5, <2>8 DEF TimeInv, Served, chnVars, nodeVars
<1> QED BY <1>1, <1>2, <1>3

(* A channel starts: the channel is served and the events are still safe. *)
LEMMA StartStep ==
  ASSUME Inv, pitcher_start \/ \E d \in Chn : start_sink_chn(d)
  PROVE  Inv'
<1> USE DEF Inv
<1>1. PICK c \in Chn : start_chn(c)
  <2>1. CASE pitcher_start
    <3>1. start_chn(Order[pos]) /\ pos <= Len(Order)
      BY <2>1 DEF pitcher_start
    <3>2. pos \in 1 .. Len(Order)
      BY <3>1, LoopAssumption DEF TypeOK, PlaceInv
    <3>3. Order[pos] \in Chn
      BY <3>2, LoopAssumption
    <3> QED BY <3>1, <3>3
  <2>2. CASE \E d \in Chn : start_sink_chn(d)
    BY <2>2 DEF start_sink_chn
  <2> QED BY <2>1, <2>2
<1>2. /\ UNCHANGED <<stack, timeVars, running, pc, isLast, inside, count, batch, clock>>
      /\ \/ pos' = pos
         \/ pc = "start" /\ pos' = pos + 1
  <2>1. CASE pitcher_start
    BY <2>1 DEF pitcher_start
  <2>2. CASE \E d \in Chn : start_sink_chn(d)
    BY <2>2 DEF start_sink_chn, Rest, loopVars
  <2> QED BY <2>1, <2>2
<1>3. CASE UNCHANGED <<state, nodeVars>>
  <2>1. pos' \in Nat /\ pos' >= 1
    BY <1>2 DEF TypeOK, PlaceInv
  <2>2. TypeOK'
    BY <1>2, <1>3, <2>1 DEF TypeOK, nodeVars, timeVars
  <2>3. NodesInv'
    BY <1>2, <1>3, NodesKept DEF NodesInv, BatchInv
  <2>4. PlaceInv'
    BY <1>2, <1>3, <2>1 DEF PlaceInv, nodeVars
  <2> QED BY <1>2, <1>3, <2>2, <2>3, <2>4 DEF TimeInv, Served, nodeVars, timeVars
<1>4. CASE state' = [state EXCEPT ![c] = "ACTIVE"] /\ pitcher_loop_add_poll_fd(c)
  <2>1. /\ EpollExact' /\ EdgeInv'
        /\ node' \in [Node -> [key : Chn, tv : Nat, timeout : 0 .. LOOP_TIMEOUT_DEFAULT]]
        /\ heap' \subseteq Node /\ pools' \in Seq(Node) /\ edge' \subseteq Chn
        /\ interest' \in [Chn -> Node \cup {None}]
        /\ heap \subseteq heap' /\ Len(pools) <= Len(pools')
        /\ interest'[c] # None
        /\ \A d \in Chn : interest[d] # None => interest'[d] # None
    BY <1>4, AddNode DEF NodesInv
  <2>2. pos' \in Nat /\ pos' >= 1
    BY <1>2 DEF TypeOK, PlaceInv
  <2>3. /\ state' \in [Chn -> {"STOPPED", "STOPPING", "ACTIVE"}]
        /\ \A d \in Chn : d # c => state'[d] = state[d]
    BY <1>4 DEF TypeOK
  <2>4. TypeOK'
    BY <1>2, <2>1, <2>2, <2>3 DEF TypeOK, timeVars
  <2>5. NodesInv'
    BY <1>2, <2>1 DEF NodesInv, BatchInv, BatchSafe
  <2>6. PlaceInv'
    <3>1. pc = "epoll" => pos' = pos /\ pos \in 1 .. Len(pools)
      BY <1>2 DEF PlaceInv
    <3>2. Len(pools) \in Nat /\ Len(pools') \in Nat /\ pos \in Nat
      BY <2>1 DEF TypeOK
    <3>3. pc = "epoll" => pos' \in 1 .. Len(pools')
      BY <2>1, <3>1, <3>2
    <3>4. pc = "pass" => pos' = pos
      BY <1>2
    <3> QED BY <1>2, <2>2, <3>3, <3>4 DEF PlaceInv
  <2>7. Served'
    BY <2>1, <2>3 DEF Served
  <2> QED BY <1>2, <2>4, <2>5, <2>6, <2>7 DEF TimeInv, timeVars
<1> QED BY <1>1, <1>3, <1>4 DEF start_chn

(* The calls of __process_chn_run in progress. *)
Calls == [chn : Chn, sent : SUBSET Chn]

(* The runs of the channels: a channel only leaves the set of running ones. *)
LEMMA RunStep ==
  ASSUME Inv, (\E d \in Chn : pipe_push_back(d)) \/ process_chn_active \/ process_chn_stopping
  PROVE  Inv'
<1> USE DEF Inv
<1>0. stack \in Seq(Calls) /\ state \in [Chn -> {"STOPPED", "STOPPING", "ACTIVE"}]
  BY DEF TypeOK, Calls
<1>1. nodeVars' = nodeVars /\ UNCHANGED Rest
  BY DEF pipe_push_back, process_chn_active, process_chn_stopping
<1>2. stack # <<>>
  BY DEF pipe_push_back, Pushes, process_chn_active, process_chn_stopping
<1>3. Len(stack) \in 1 .. Len(stack) /\ stack[Len(stack)] \in Calls
  BY <1>0, <1>2, EmptySeq
<1>4. top \in Chn
  BY <1>3 DEF top, Last, Calls
<1>5. stack' \in Seq(Calls)
  <2>1. CASE \E d \in Chn : pipe_push_back(d)
    <3>1. PICK d \in Chn : pipe_push_back(d)
      BY <2>1
    <3> DEFINE x == [stack[Len(stack)] EXCEPT !.sent = @ \cup {d}]
    <3>2. x \in Calls
      BY <1>3 DEF Calls
    <3>3. stack' = [stack EXCEPT ![Len(stack)] = x] \o Call(d)
      BY <3>1 DEF pipe_push_back
    <3> HIDE DEF x
    <3>4. [stack EXCEPT ![Len(stack)] = x] \in Seq(Calls)
      BY <1>0, <1>3, <3>2
    <3>5. Call(d) \in Seq(Calls)
      BY DEF Call, Calls
    <3> QED BY <3>3, <3>4, <3>5
  <2>2. CASE process_chn_active \/ process_chn_stopping
    <3>1. stack' = SubSeq(stack, 1, Len(stack) - 1)
      BY <2>2 DEF process_chn_active, process_chn_stopping, Front
    <3> QED BY <1>0, <1>3, <3>1
  <2> QED BY <2>1, <2>2
<1>6. /\ state' \in [Chn -> {"STOPPED", "STOPPING", "ACTIVE"}]
      /\ \A c \in Chn : state'[c] # "STOPPED" => state[c] # "STOPPED"
  <2>1. CASE \E d \in Chn : pipe_push_back(d)
    BY <1>0, <2>1 DEF pipe_push_back
  <2>2. CASE process_chn_active
    <3>1. PICK s \in {"ACTIVE", "STOPPING"} : state' = [state EXCEPT ![top] = s]
      BY <2>2 DEF process_chn_active
    <3>2. state[top] = "ACTIVE"
      BY <2>2 DEF process_chn_active
    <3> QED BY <1>0, <1>4, <3>1, <3>2
  <2>3. CASE process_chn_stopping
    <3>1. PICK s \in {state[top], "STOPPED"} : state' = [state EXCEPT ![top] = s]
      BY <2>3 DEF process_chn_stopping
    <3> QED BY <1>0, <1>4, <3>1
  <2> QED BY <2>1, <2>2, <2>3
<1>7. TypeOK'
  BY <1>1, <1>5, <1>6 DEF TypeOK, nodeVars, Rest, timeVars, loopVars, Calls
<1>8. NodesInv'
  BY <1>1, NodesKept DEF NodesInv, BatchInv, Rest, loopVars
<1>9. PlaceInv' /\ TimeInv'
  BY <1>1 DEF PlaceInv, TimeInv, nodeVars, Rest, timeVars, loopVars
<1>10. Served'
  BY <1>1, <1>6 DEF Served, nodeVars
<1> QED BY <1>7, <1>8, <1>9, <1>10

(* Deleting the node of a stopped channel leaves every other channel served. *)
LEMMA DelServed ==
  ASSUME Served, NEW c \in Chn, state'[c] = "STOPPED",
         \A d \in Chn : d # c => interest'[d] = interest[d] /\ state'[d] = state[d]
  PROVE  Served'
  BY DEF Served

(* A failed start: __stop_chn on each channel, before any event. *)
LEMMA StopStep ==
  ASSUME Inv, stop_chn
  PROVE  Inv'
<1> USE DEF Inv
<1> DEFINE c == Order[pos]
<1>1. /\ pc = "abort" /\ pos <= Len(Order) /\ pos' = pos + 1
      /\ UNCHANGED <<stack, timeVars, running, pc, isLast, inside, count, batch, clock>>
  BY DEF stop_chn
<1>2. c \in Chn
  <2>1. pos \in 1 .. Len(Order)
    BY <1>1, LoopAssumption DEF TypeOK, PlaceInv
  <2> QED BY <2>1, LoopAssumption
<1>3. pos' \in Nat /\ pos' >= 1 /\ batch = <<>>
  BY <1>1 DEF TypeOK, PlaceInv, NodesInv, BatchInv
<1>4. PlaceInv'
  BY <1>1, <1>3 DEF PlaceInv
<1>5. CASE state[c] = "STOPPED"
  <2>1. UNCHANGED <<state, nodeVars>>
    BY <1>5 DEF stop_chn
  <2>2. TypeOK'
    BY <1>1, <1>3, <2>1 DEF TypeOK, nodeVars, timeVars
  <2>3. NodesInv'
    BY <1>1, <1>3, <2>1, NodesKept
  <2> QED BY <1>1, <1>4, <2>1, <2>2, <2>3 DEF TimeInv, Served, nodeVars, timeVars
<1>6. CASE state[c] # "STOPPED"
  <2>1. del_poll(c) /\ state' = [state EXCEPT ![c] = "STOPPED"]
    BY <1>6 DEF stop_chn
  <2> HIDE DEF c
  <2>2. /\ EpollExact' /\ EdgeInv'
        /\ heap' \subseteq Node /\ pools' \in Seq(Node) /\ edge' \subseteq Chn /\ node' = node
        /\ interest' \in [Chn -> Node \cup {None}]
        /\ \A d \in Chn : d # c => interest'[d] = interest[d]
    BY <1>2, <2>1, DelNode DEF NodesInv
  <2>3. /\ state' \in [Chn -> {"STOPPED", "STOPPING", "ACTIVE"}] /\ state'[c] = "STOPPED"
        /\ \A d \in Chn : d # c => state'[d] = state[d]
    BY <1>2, <2>1 DEF TypeOK
  <2>4. TypeOK'
    BY <1>1, <1>3, <2>2, <2>3 DEF TypeOK, timeVars
  <2>5. ToSet(batch') = {} /\ IsInjective(batch') /\ batch' = <<>>
    BY <1>1, <1>3 DEF ToSet, IsInjective
  <2>6. NodesInv'
    BY <2>2, <2>5 DEF NodesInv, BatchInv, BatchSafe
  <2>7. Served'
    BY <1>2, <2>2, <2>3, DelServed
  <2> QED BY <1>1, <1>4, <2>4, <2>6, <2>7 DEF TimeInv, timeVars
<1> QED BY <1>5, <1>6

(* The pass goes on to the next node. *)
LEMMA NextArrives ==
  ASSUME TypeOK, NextNode, pc = "epoll"
  PROVE  /\ pos' \in Nat /\ (pos >= 1 => pos' >= 1) /\ isLast' \in BOOLEAN /\ pc' \in {"wait", "epoll"}
         /\ pc' = "epoll" => pos' \in 1 .. Len(pools)
<1>0. pools \in Seq(Node) /\ pos \in Nat /\ isLast \in BOOLEAN
  BY DEF TypeOK
<1>1. CASE isLast
  BY <1>0, <1>1 DEF NextNode
<1>2. CASE ~isLast
  <2>1. Arrive(pos + 1, pools) /\ pos + 1 \in Nat \ {0}
    BY <1>0, <1>2 DEF NextNode
  <2> QED BY <1>0, <2>1, Arrives
<1> QED BY <1>1, <1>2

(* The pass over the nodes: a node keeps its key. *)
LEMMA EpollStep ==
  ASSUME Inv, epoll_func
  PROVE  Inv'
<1> USE DEF Inv
<1> DEFINE n == pools[pos]
           c == node[n].key
           t == IF Due(n) THEN LOOP_TIMEOUT_DEFAULT
                ELSE node[n].timeout - (tv - node[n].tv) \div NSEC_PER_MSEC
<1>0. /\ node \in [Node -> [key : Chn, tv : Nat, timeout : 0 .. LOOP_TIMEOUT_DEFAULT]]
      /\ pools \in Seq(Node) /\ tv \in Nat /\ left_time \in 0 .. LOOP_TIMEOUT_DEFAULT
  BY DEF TypeOK
<1>1. /\ pc = "epoll" /\ ~inside
      /\ UNCHANGED <<state, heap, pools, interest, edge, task, tv, running, count, batch, clock>>
  BY DEF epoll_func
<1>2. pos \in 1 .. Len(pools) /\ pos >= 1
  BY <1>1 DEF PlaceInv
<1>3. n \in Node
  BY <1>0, <1>2
<1>4. c \in Chn /\ node[n].tv \in Nat /\ node[n].timeout \in 0 .. LOOP_TIMEOUT_DEFAULT
  BY <1>0, <1>3
<1>5. t \in 0 .. LOOP_TIMEOUT_DEFAULT
  <2>1. CASE Due(n)
    BY <2>1, LoopAssumption
  <2>2. CASE ~Due(n)
    <3> DEFINE q == (tv - node[n].tv) \div NSEC_PER_MSEC
    <3>1. tv - node[n].tv \in Nat /\ ~(q >= node[n].timeout)
      BY <1>0, <1>4, <2>2 DEF Due
    <3>2. q \in Nat
      BY <3>1, QuotientNat, LoopAssumption
    <3>3. t = node[n].timeout - q
      BY <2>2
    <3> HIDE DEF q, t
    <3> QED BY <1>4, <3>1, <3>2, <3>3, LoopAssumption
  <2> QED BY <2>1, <2>2
<1>6. node' = [node EXCEPT ![n].tv = tv, ![n].timeout = t]
  <2>1. CASE Due(n)
    BY <2>1 DEF epoll_func
  <2>2. CASE ~Due(n)
    BY <2>2 DEF epoll_func
  <2> QED BY <2>1, <2>2
<1>7. /\ stack' = stack \/ stack' = <<>> \/ stack' = Call(c)
      /\ \/ Due(n) /\ inside' = TRUE /\ left_time' = left_time /\ pos' = pos /\ isLast' = isLast /\ pc' = pc
         \/ inside' = inside /\ left_time' = Earlier(left_time, node'[n].timeout) /\ NextNode
  BY DEF epoll_func
<1> HIDE DEF t
<1>8. /\ node' \in [Node -> [key : Chn, tv : Nat, timeout : 0 .. LOOP_TIMEOUT_DEFAULT]]
      /\ \A m \in Node : node'[m].key = node[m].key
      /\ node'[n].timeout = t
  <2>1. [node[n] EXCEPT !.tv = tv, !.timeout = t] \in [key : Chn, tv : Nat, timeout : 0 .. LOOP_TIMEOUT_DEFAULT]
    BY <1>0, <1>3, <1>5
  <2>2. node' = [node EXCEPT ![n] = [node[n] EXCEPT !.tv = tv, !.timeout = t]]
    BY <1>0, <1>3, <1>6
  <2> QED BY <1>0, <1>3, <2>1, <2>2
<1> HIDE DEF n, c
<1>9. stack' \in Seq([chn : Chn, sent : SUBSET Chn])
  <2>1. Call(c) \in Seq([chn : Chn, sent : SUBSET Chn]) /\ <<>> \in Seq([chn : Chn, sent : SUBSET Chn])
    BY <1>4 DEF Call
  <2> QED BY <1>7, <2>1 DEF TypeOK
<1>10. left_time' \in 0 .. LOOP_TIMEOUT_DEFAULT
  BY <1>0, <1>5, <1>7, <1>8 DEF Earlier
<1>11. /\ inside' \in BOOLEAN /\ isLast' \in BOOLEAN /\ pc' \in {"wait", "epoll"}
       /\ pos' \in Nat /\ pos' >= 1
       /\ pc' = "epoll" => pos' \in 1 .. Len(pools)
       /\ inside' => pc' = "epoll"
  <2>1. isLast \in BOOLEAN /\ inside \in BOOLEAN /\ pos \in Nat
    BY DEF TypeOK
  <2>2. CASE inside' = TRUE /\ pos' = pos /\ isLast' = isLast /\ pc' = pc
    BY <1>1, <1>2, <2>1, <2>2
  <2>3. CASE inside' = inside /\ NextNode
    BY <1>1, <1>2, <2>1, <2>3, NextArrives
  <2> QED BY <1>7, <2>2, <2>3
<1>12. TypeOK'
  BY <1>1, <1>8, <1>9, <1>10, <1>11 DEF TypeOK, Where
<1>13. NodesInv'
  <2>1. EpollExact'
    BY <1>1, <1>8 DEF NodesInv, EpollExact
  <2>2. batch' = <<>> /\ batch = <<>>
    BY <1>1 DEF NodesInv, BatchInv
  <2> QED BY <1>1, <2>1, <2>2 DEF NodesInv, BatchInv, BatchSafe, EdgeInv
<1>14. PlaceInv'
  BY <1>1, <1>11 DEF PlaceInv
<1> QED BY <1>1, <1>11, <1>12, <1>13, <1>14 DEF TimeInv, Served

(* After the callback of the pass: the node of a stopped channel is freed.  *)
LEMMA EpollReturnStep ==
  ASSUME Inv, epoll_return
  PROVE  Inv'
<1> USE DEF Inv
<1> DEFINE n == pools[pos]
           c == node[n].key
<1>0. /\ node \in [Node -> [key : Chn, tv : Nat, timeout : 0 .. LOOP_TIMEOUT_DEFAULT]]
      /\ pools \in Seq(Node) /\ left_time \in 0 .. LOOP_TIMEOUT_DEFAULT
      /\ isLast \in BOOLEAN /\ pos \in Nat
  BY DEF TypeOK
<1>1. /\ pc = "epoll" /\ inside' = FALSE
      /\ UNCHANGED <<chnVars, task, tv, running, count, batch, clock>>
  BY DEF epoll_return
<1>2. pos \in 1 .. Len(pools) /\ pos >= 1 /\ batch = <<>>
  BY <1>1 DEF PlaceInv, NodesInv, BatchInv
<1>3. n \in Node /\ c \in Chn
  BY <1>0, <1>2
<1>4. ToSet(batch') = {} /\ IsInjective(batch') /\ batch' = <<>> /\ batch' \in Seq(Node)
  BY <1>1, <1>2 DEF ToSet, IsInjective
<1>5. CASE state[c] = "STOPPED"
  <2>1. free_poll_node(pos) /\ left_time' = left_time
    BY <1>5 DEF epoll_return
  <2>2. \/ pc' = "wait" /\ pos' = pos /\ isLast' = isLast
        \/ Arrive(pos, pools')
    BY <1>5 DEF epoll_return
  <2>3. /\ EpollExact' /\ EdgeInv'
        /\ heap' \subseteq Node /\ pools' \in Seq(Node) /\ edge' \subseteq Chn /\ node' = node
        /\ interest' \in [Chn -> Node \cup {None}]
        /\ \A d \in Chn : d # c => interest'[d] = interest[d]
    BY <1>2, <2>1, FreeNode DEF NodesInv
  <2> HIDE DEF c, n
  <2>4. /\ pos' \in Nat /\ pos' >= 1 /\ isLast' \in BOOLEAN /\ pc' \in {"wait", "epoll"}
        /\ pc' = "epoll" => pos' \in 1 .. Len(pools')
    <3>1. CASE Arrive(pos, pools')
      BY <1>0, <1>2, <2>3, <3>1, Arrives
    <3>2. CASE pc' = "wait" /\ pos' = pos /\ isLast' = isLast
      BY <1>0, <1>2, <3>2
    <3> QED BY <2>2, <3>1, <3>2
  <2>5. TypeOK'
    BY <1>0, <1>1, <1>4, <2>1, <2>3, <2>4 DEF TypeOK, chnVars, Where
  <2>6. NodesInv'
    BY <1>4, <2>3 DEF NodesInv, BatchInv, BatchSafe
  <2>7. Served'
    BY <1>1, <1>3, <1>5, <2>3, DelServed DEF chnVars
  <2>8. PlaceInv'
    BY <1>1, <2>4 DEF PlaceInv
  <2> QED BY <1>1, <2>4, <2>5, <2>6, <2>7, <2>8 DEF TimeInv
<1>6. CASE state[c] # "STOPPED"
  <2>1. left_time' = Earlier(left_time, node[n].timeout) /\ NextNode /\ UNCHANGED nodeVars
    BY <1>6 DEF epoll_return
  <2>2. left_time' \in 0 .. LOOP_TIMEOUT_DEFAULT
    <3>1. node[n].timeout \in 0 .. LOOP_TIMEOUT_DEFAULT
      BY <1>0, <1>3
    <3> QED BY <1>0, <2>1, <3>1 DEF Earlier
  <2>3. /\ pos' \in Nat /\ pos' >= 1 /\ isLast' \in BOOLEAN /\ pc' \in {"wait", "epoll"}
        /\ pc' = "epoll" => pos' \in 1 .. Len(pools)
    BY <1>1, <1>2, <2>1, NextArrives
  <2> HIDE DEF c, n
  <2>4. TypeOK'
    BY <1>1, <2>1, <2>2, <2>3 DEF TypeOK, chnVars, nodeVars, Where
  <2>5. NodesInv'
    BY <1>1, <1>2, <2>1, NodesKept
  <2>6. PlaceInv'
    BY <1>1, <2>1, <2>3 DEF PlaceInv, nodeVars
  <2> QED BY <1>1, <2>1, <2>3, <2>4, <2>5, <2>6 DEF TimeInv, Served, chnVars, nodeVars
<1> QED BY <1>5, <1>6

(* A device becomes ready; epoll_wait turns edges into events, whose nodes  *)
(* are allocated because an edge is only held for a registered descriptor.  *)
LEMMA WaitStep ==
  ASSUME Inv, epoll_wait \/ \E c \in Chn : DeviceReady(c)
  PROVE  Inv'
<1> USE DEF Inv
<1>0. /\ interest \in [Chn -> Node \cup {None}] /\ edge \subseteq Chn
      /\ node \in [Node -> [key : Chn, tv : Nat, timeout : 0 .. LOOP_TIMEOUT_DEFAULT]]
  BY DEF TypeOK
<1>1. CASE \E c \in Chn : DeviceReady(c)
  <2>1. PICK c \in Chn : DeviceReady(c)
    BY <1>1
  <2>2. /\ edge' = edge \cup {c} /\ interest[c] # None
        /\ UNCHANGED <<chnVars, node, heap, pools, interest, timeVars, loopVars, clock>>
    BY <2>1 DEF DeviceReady
  <2>3. TypeOK'
    BY <2>2 DEF TypeOK, chnVars, timeVars, loopVars
  <2>4. NodesInv'
    BY <2>2 DEF NodesInv, EpollExact, EdgeInv, BatchInv, BatchSafe, loopVars
  <2> QED BY <2>2, <2>3, <2>4 DEF PlaceInv, TimeInv, Served, chnVars, timeVars, loopVars
<1>2. CASE epoll_wait
  <2>1. /\ pc = "wait" /\ pc' = "events"
        /\ UNCHANGED <<chnVars, node, heap, pools, interest, timeVars, running, pos, isLast,
                       inside, count, clock>>
    BY <1>2 DEF epoll_wait
  <2>2. PICK s \in UNION {[1 .. k -> edge] : k \in 0 .. ECOUNT} :
          /\ IsInjective(s)
          /\ batch' = [i \in DOMAIN s |-> interest[s[i]]]
          /\ edge' = edge \ ToSet(s)
    BY <1>2, Zenon DEF epoll_wait
  <2>3. PICK k \in 0 .. ECOUNT : s \in [1 .. k -> edge]
    BY <2>2
  <2>4. k \in Nat /\ DOMAIN s = 1 .. k /\ \A i \in 1 .. k : s[i] \in edge
    BY <2>3, LoopAssumption
  <2>5. \A i \in 1 .. k : /\ batch'[i] = interest[s[i]] /\ batch'[i] \in Node
                          /\ batch'[i] \in heap /\ node[batch'[i]].key = s[i]
    <3> SUFFICES ASSUME NEW i \in 1 .. k
                 PROVE  /\ batch'[i] = interest[s[i]] /\ batch'[i] \in Node
                        /\ batch'[i] \in heap /\ node[batch'[i]].key = s[i]
      OBVIOUS
    <3>1. batch'[i] = interest[s[i]] /\ s[i] \in edge
      BY <2>2, <2>4
    <3>2. s[i] \in Chn /\ interest[s[i]] # None
      BY <1>0, <3>1 DEF NodesInv, EdgeInv
    <3>3. interest[s[i]] \in Node
      BY <1>0, <3>2
    <3> QED BY <3>1, <3>2, <3>3 DEF NodesInv, EpollExact
  <2>6. batch' \in [1 .. k -> Node] /\ DOMAIN batch' = 1 .. k
    BY <2>2, <2>4, <2>5
  <2>7. batch' \in Seq(Node)
    BY <2>4, <2>6
  <2>8. IsInjective(batch')
    BY <2>2, <2>4, <2>5, <2>6 DEF IsInjective
  <2>9. ToSet(batch') \subseteq heap
    BY <2>5, <2>6 DEF ToSet
  <2>10. edge' \subseteq Chn /\ edge' \subseteq edge
    BY <1>0, <2>2
  <2>11. TypeOK'
    BY <2>1, <2>7, <2>10 DEF TypeOK, chnVars, timeVars, Where
  <2>12. NodesInv'
    BY <2>1, <2>8, <2>9, <2>10 DEF NodesInv, EpollExact, EdgeInv, BatchInv, BatchSafe
  <2>13. PlaceInv'
    BY <2>1 DEF PlaceInv
  <2> QED BY <2>1, <2>11, <2>12, <2>13 DEF TimeInv, Served, chnVars, timeVars
<1> QED BY <1>1, <1>2

(* The first of several events. *)
LEMMA HeadTail ==
  ASSUME NEW S, NEW b \in Seq(S), b # <<>>
  PROVE  /\ Head(b) \in S /\ Head(b) \in ToSet(b) /\ Tail(b) \in Seq(S)
         /\ ToSet(Tail(b)) \subseteq ToSet(b)
         /\ IsInjective(b) => IsInjective(Tail(b)) /\ Head(b) \notin ToSet(Tail(b))
<1>1. /\ Len(b) \in Nat /\ Len(b) >= 1 /\ DOMAIN b = 1 .. Len(b) /\ Head(b) = b[1]
  BY EmptySeq
<1>2. /\ Tail(b) \in Seq(S) /\ Len(Tail(b)) = Len(b) - 1 /\ DOMAIN Tail(b) = 1 .. Len(b) - 1
      /\ \A i \in 1 .. Len(b) - 1 : Tail(b)[i] = b[i + 1]
  BY <1>1
<1>3. 1 \in DOMAIN b /\ \A i \in 1 .. Len(b) - 1 : i + 1 \in DOMAIN b /\ i + 1 # 1
  BY <1>1
<1>4. Head(b) \in S /\ Head(b) \in ToSet(b)
  BY <1>1, <1>3 DEF ToSet
<1>5. ToSet(Tail(b)) \subseteq ToSet(b)
  BY <1>2, <1>3 DEF ToSet
<1>6. ASSUME IsInjective(b) PROVE IsInjective(Tail(b))
  <2> SUFFICES ASSUME NEW i \in 1 .. Len(b) - 1, NEW j \in 1 .. Len(b) - 1, Tail(b)[i] = Tail(b)[j]
               PROVE  i = j
    BY <1>2 DEF IsInjective
  <2>1. i + 1 = j + 1
    BY <1>2, <1>3, <1>6 DEF IsInjective
  <2> QED BY <1>1, <2>1
<1>7. ASSUME IsInjective(b) PROVE Head(b) \notin ToSet(Tail(b))
  <2> SUFFICES ASSUME NEW i \in 1 .. Len(b) - 1, b[1] = b[i + 1] PROVE FALSE
    BY <1>1, <1>2 DEF ToSet
  <2> QED BY <1>3, <1>7 DEF IsInjective
<1> QED BY <1>2, <1>4, <1>5, <1>6, <1>7

(* One event: handling it may free the node it points to, and no other.     *)
LEMMA EventStep ==
  ASSUME Inv, poll_func \/ poll_return
  PROVE  Inv'
<1> USE DEF Inv
<1> DEFINE n == Head(batch)
           c == node[n].key
<1>0. /\ node \in [Node -> [key : Chn, tv : Nat, timeout : 0 .. LOOP_TIMEOUT_DEFAULT]]
      /\ batch \in Seq(Node)
  BY DEF TypeOK
<1>1. pc = "events" /\ pc' = pc /\ batch # <<>>
  <2>1. CASE poll_func
    BY <2>1 DEF poll_func
  <2>2. CASE poll_return
    BY <2>2 DEF poll_return, PlaceInv
  <2> QED BY <2>1, <2>2
<1>2. /\ n \in Node /\ n \in ToSet(batch) /\ Tail(batch) \in Seq(Node)
      /\ ToSet(Tail(batch)) \subseteq ToSet(batch) /\ IsInjective(Tail(batch))
      /\ n \notin ToSet(Tail(batch))
  BY <1>0, <1>1, HeadTail DEF NodesInv, BatchInv
<1>3. c \in Chn /\ n \in heap
  BY <1>0, <1>2 DEF NodesInv, BatchSafe
<1>4. CASE poll_func
  <2>1. /\ inside' = TRUE
        /\ stack' = <<>> \/ stack' = Call(c)
        /\ UNCHANGED <<state, nodeVars, timeVars, running, pc, pos, isLast, count, batch, clock>>
    BY <1>4 DEF poll_func
  <2>2. stack' \in Seq([chn : Chn, sent : SUBSET Chn])
    <3> HIDE DEF c
    <3>1. Call(c) \in Seq([chn : Chn, sent : SUBSET Chn]) /\ <<>> \in Seq([chn : Chn, sent : SUBSET Chn])
      BY <1>3 DEF Call
    <3> QED BY <2>1, <3>1
  <2> HIDE DEF n, c
  <2>3. TypeOK'
    BY <2>1, <2>2 DEF TypeOK, nodeVars, timeVars
  <2>4. NodesInv'
    BY <1>1, <2>1, NodesKept
  <2>5. PlaceInv'
    BY <1>1, <2>1 DEF PlaceInv, nodeVars
  <2> QED BY <2>1, <2>3, <2>4, <2>5 DEF TimeInv, Served, nodeVars, timeVars
<1>5. CASE poll_return
  <2>1. /\ inside' = FALSE /\ batch' = Tail(batch)
        /\ UNCHANGED <<chnVars, timeVars, running, pc, pos, isLast, count, clock>>
    BY <1>5 DEF poll_return
  <2>2. PlaceInv'
    BY <1>1, <2>1 DEF PlaceInv
  <2>3. CASE state[c] = "STOPPED"
    <3>1. del_poll(c)
      BY <1>5, <2>3 DEF poll_return
    <3>2. \A m \in heap : node[m].key = c => m = n
      BY <1>2, <1>3 DEF NodesInv, EpollExact, TypeOK
    <3> HIDE DEF n, c
    <3>3. /\ EpollExact' /\ EdgeInv'
          /\ heap' \subseteq Node /\ pools' \in Seq(Node) /\ edge' \subseteq Chn /\ node' = node
          /\ interest' \in [Chn -> Node \cup {None}]
          /\ \A m \in heap : node[m].key # c => m \in heap'
          /\ \A d \in Chn : d # c => interest'[d] = interest[d]
      BY <1>3, <3>1, DelNode DEF NodesInv
    <3>4. TypeOK'
      BY <1>2, <2>1, <3>3 DEF TypeOK, chnVars, timeVars
    <3>5. BatchSafe'
      BY <1>2, <2>1, <3>2, <3>3 DEF NodesInv, BatchSafe
    <3>6. NodesInv'
      BY <1>1, <1>2, <2>1, <3>3, <3>5 DEF NodesInv, BatchInv
    <3>7. Served'
      BY <1>3, <2>1, <2>3, <3>3, DelServed DEF chnVars
    <3> QED BY <2>1, <2>2, <3>4, <3>6, <3>7 DEF TimeInv, timeVars
  <2>4. CASE state[c] # "STOPPED"
    <3>1. UNCHANGED nodeVars
      BY <1>5, <2>4 DEF poll_return
    <3> HIDE DEF n, c
    <3>2. TypeOK'
      BY <1>2, <2>1, <3>1 DEF TypeOK, chnVars, nodeVars, timeVars
    <3>3. NodesInv'
      BY <1>1, <1>2, <2>1, <3>1 DEF NodesInv, EpollExact, EdgeInv, BatchInv, BatchSafe, nodeVars
    <3> QED BY <2>1, <2>2, <3>1, <3>2, <3>3 DEF TimeInv, Served, chnVars, nodeVars, timeVars
  <2> QED BY <2>3, <2>4
<1> QED BY <1>4, <1>5

-----------------------------------------------------------------------------
(* Every step keeps the invariant. *)
LEMMA NextInv == Inv /\ [Next]_vars => Inv'
<1> SUFFICES ASSUME Inv, [Next]_vars PROVE Inv'
  OBVIOUS
<1>1. CASE UNCHANGED vars
  BY <1>1 DEF vars, chnVars, nodeVars, timeVars, loopVars, Inv, TypeOK, NodesInv, EpollExact,
              EdgeInv, BatchInv, BatchSafe, PlaceInv, TimeInv, Served
<1>2. CASE Next /\ ~Exited
  BY <1>2, TurnStep, TimerStep, StartStep, RunStep, StopStep, EpollStep, EpollReturnStep,
     WaitStep, EventStep DEF Next
<1> QED BY <1>1, <1>2 DEF Exited

(* The inductive invariant of the loop. *)
THEOREM LoopInvariant == Spec => []Inv
  BY InitInv, NextInv, PTL DEF Spec

(* Every variable keeps its type; the time left of a node never exceeds its *)
(* interval, although a node may be younger than loop->tv.                  *)
THEOREM LoopTypes == Spec => []TypeOK
<1>1. Inv => TypeOK
  BY DEF Inv
<1> QED BY <1>1, LoopInvariant, PTL

(* The list, the heap and the pointers held by epoll agree, whatever        *)
(* channels start and stop within a turn.                                   *)
THEOREM EpollSafe == Spec => []EpollExact
<1>1. Inv => EpollExact
  BY DEF Inv, NodesInv
<1> QED BY <1>1, LoopInvariant, PTL

(* No event of a batch is handled through a freed node, although the ones   *)
(* before it stop channels and free nodes.                                  *)
THEOREM EventsSafe == Spec => []BatchSafe
<1>1. Inv => BatchSafe
  BY DEF Inv, NodesInv
<1> QED BY <1>1, LoopInvariant, PTL

(* A channel that runs has its descriptor registered, also one that was     *)
(* stopped and started again.                                               *)
THEOREM ChannelsServed == Spec => []Served
<1>1. Inv => Served
  BY DEF Inv
<1> QED BY <1>1, LoopInvariant, PTL

-----------------------------------------------------------------------------
(* The end of the loop. *)

(* c is registered before d *)
Earliest(c, d) == \A i, j \in DOMAIN Order : Order[i] = c /\ Order[j] = d => i < j

(* The calls in progress follow the pipes: all but the innermost are of     *)
(* active channels.  In the timer pass the outermost is the channel visited. *)
CallsInv ==
    /\ \A i, j \in DOMAIN stack :
          i < j => /\ Earliest(stack[i].chn, stack[j].chn)
                   /\ state[stack[i].chn] = "ACTIVE"
    /\ stack # <<>> => inside
    /\ stack # <<>> /\ pc = "pass" => stack[1].chn = Order[pos]

(* As long as the timer pass has met no living channel, none that it left   *)
(* behind lives, unless a push of the channel it is at has revived one: that *)
(* channel is then still alive when its run is over.                        *)
Reviving ==
    /\ inside
    /\ \/ state[Order[pos]] = "ACTIVE"
       \/ stack = <<>> /\ state[Order[pos]] # "STOPPED"
PassInv ==
    pc = "pass" /\ ~ count =>
        Reviving \/ \A i \in DOMAIN Order : i < pos => state[Order[i]] = "STOPPED"

(* Once the loop is told to stop, nothing runs any more. *)
AllStopped == \A c \in Chn : state[c] = "STOPPED"
EndInv ==
    /\ pc \in {"timer", "pass"} => running
    /\ pc = "exit" => ~ running
    /\ ~ running /\ pc \notin {"start", "abort"} => stack = <<>> /\ AllStopped

StopInv == CallsInv /\ PassInv /\ EndInv

(* The node of a channel that only pitcher_start starts *)
Rooted(n) == n \in heap /\ Source[node[n].key] = None

(* Such a node is not younger than the timer, and with the default interval *)
(* it is due whenever the timer is.                                         *)
AgeInv ==
    /\ \A n \in heap : node[n].timeout = LOOP_TIMEOUT_DEFAULT
    /\ pc \notin {"start", "abort"} => task.timeout = LOOP_TIMEOUT_DEFAULT
    /\ pc \in {"pass", "epoll"} => task.tv = tv
    /\ \A n \in Node : Rooted(n) =>
          IF pc \in {"start", "abort"} THEN node[n].tv <= clock ELSE node[n].tv <= task.tv

DueInv == pc = "pass" => \A n \in Node : Rooted(n) => Due(n)

(* The last pass over the nodes leaves none of them. *)
LastPassInv ==
    ~ running =>
       /\ pc = "epoll" => \A i \in DOMAIN pools : Rooted(pools[i]) =>
             /\ i >= pos /\ ((i = pos /\ inside) \/ Due(pools[i]))
             /\ isLast => i = pos
       /\ pc \in {"wait", "events", "pre", "exit"} => \A n \in Node : ~ Rooted(n)

LeftInv == AgeInv /\ DueInv /\ LastPassInv

-----------------------------------------------------------------------------
(* Every channel is stopped. *)

LEMMA EarliestOrder ==
    /\ \A c \in Chn : ~ Earliest(c, c)
    /\ \A c, d, e \in Chn : Earliest(c, d) /\ Earliest(d, e) => Earliest(c, e)
    /\ \A c, d \in Chn : Source[d] = c => Earliest(c, d)
<1>1. \A c \in Chn : \E i \in DOMAIN Order : Order[i] = c
  BY LoopAssumption DEF ToSet
<1>2. DOMAIN Order = 1 .. Len(Order) /\ Len(Order) \in Nat
  BY LoopAssumption
<1>3. ASSUME NEW c \in Chn PROVE ~ Earliest(c, c)
  <2>1. PICK i \in DOMAIN Order : Order[i] = c
    BY <1>1
  <2>2. ~ (i < i)
    BY <1>2
  <2> QED
    BY <2>1, <2>2 DEF Earliest
<1>4. ASSUME NEW c \in Chn, NEW d \in Chn, NEW e \in Chn, Earliest(c, d), Earliest(d, e)
      PROVE  Earliest(c, e)
  <2> SUFFICES ASSUME NEW i \in DOMAIN Order, NEW j \in DOMAIN Order, Order[i] = c, Order[j] = e
               PROVE  i < j
    BY DEF Earliest
  <2>1. PICK k \in DOMAIN Order : Order[k] = d
    BY <1>1
  <2>2. i < k /\ k < j
    BY <1>4, <2>1 DEF Earliest
  <2> QED
    BY <1>2, <2>2
<1>5. ASSUME NEW c \in Chn, NEW d \in Chn, Source[d] = c PROVE Earliest(c, d)
  BY <1>5, LoopAssumption DEF Earliest
<1> QED
  BY <1>3, <1>4, <1>5

LEMMA CallsType ==
    ASSUME TypeOK
    PROVE  /\ stack \in Seq(Calls) /\ Len(stack) \in Nat /\ DOMAIN stack = 1 .. Len(stack)
           /\ \A i \in DOMAIN stack : stack[i] \in Calls /\ stack[i].chn \in Chn
<1>1. stack \in Seq(Calls)
  BY DEF TypeOK, Calls
<1>2. Len(stack) \in Nat /\ DOMAIN stack = 1 .. Len(stack)
  BY <1>1, LenProperties
<1>3. \A i \in DOMAIN stack : stack[i] \in Calls
  BY <1>1, ElementOfSeq, LenProperties
<1>4. \A f \in Calls : f.chn \in Chn
  BY DEF Calls
<1> QED
  BY <1>1, <1>2, <1>3, <1>4

(* The innermost call, and the calls around it *)
LEMMA CallShape ==
    ASSUME TypeOK, stack # <<>>
    PROVE  /\ Len(stack) \in DOMAIN stack /\ top = stack[Len(stack)].chn /\ top \in Chn
           /\ Front(stack) \in Seq(Calls) /\ Len(Front(stack)) = Len(stack) - 1
           /\ DOMAIN Front(stack) = 1 .. Len(stack) - 1
           /\ \A i \in DOMAIN Front(stack) : Front(stack)[i] = stack[i]
           /\ Front(stack) # <<>> => 1 \in DOMAIN Front(stack)
<1>1. /\ stack \in Seq(Calls) /\ Len(stack) \in Nat /\ DOMAIN stack = 1 .. Len(stack)
      /\ \A i \in DOMAIN stack : stack[i] \in Calls /\ stack[i].chn \in Chn
  BY CallsType
<1>2. Len(stack) # 0
  BY <1>1, EmptySeq
<1>3. top = stack[Len(stack)].chn
  BY <1>1, <1>2 DEF top, Last
<1>4. Front(stack) = SubSeq(stack, 1, Len(stack) - 1)
  BY DEF Front
<1>5. /\ Front(stack) \in Seq(Calls) /\ Len(Front(stack)) = Len(stack) - 1
      /\ \A i \in 1 .. Len(stack) - 1 : Front(stack)[i] = stack[i]
  BY <1>1, <1>2, <1>4, SubSeqProperties
<1>6. DOMAIN Front(stack) = 1 .. Len(stack) - 1
  BY <1>5, LenProperties
<1>7. Front(stack) # <<>> => 1 \in DOMAIN Front(stack)
  <2>1. CASE Len(stack) = 1
    BY <1>5, <2>1, EmptySeq
  <2>2. CASE Len(stack) # 1
    BY <1>1, <1>2, <1>6, <2>2
  <2> QED
    BY <2>1, <2>2
<1> QED
  BY <1>1, <1>2, <1>3, <1>5, <1>6, <1>7

(* A call is added. *)
LEMMA PushShape ==
    ASSUME TypeOK, stack # <<>>, NEW d \in Chn, pipe_push_back(d)
    PROVE  /\ DOMAIN stack' = 1 .. Len(stack) + 1
           /\ \A i \in DOMAIN stack : stack'[i].chn = stack[i].chn
           /\ stack'[Len(stack) + 1].chn = d
<1> DEFINE g == [stack[Len(stack)] EXCEPT !.sent = @ \cup {d}]
           s == [stack EXCEPT ![Len(stack)] = g]
           f == [chn |-> d, sent |-> {}]
<1>1. /\ stack \in Seq(Calls) /\ Len(stack) \in Nat /\ DOMAIN stack = 1 .. Len(stack)
      /\ \A i \in DOMAIN stack : stack[i] \in Calls /\ stack[i].chn \in Chn
  BY CallsType
<1>2. Len(stack) \in DOMAIN stack
  BY CallShape
<1>3. stack' = s \o <<f>> /\ f \in Calls /\ f.chn = d
  BY <1>2 DEF pipe_push_back, Call, Calls
<1>4. g \in Calls /\ g.chn = stack[Len(stack)].chn
  <2>1. \A h \in Calls : [h EXCEPT !.sent = @ \cup {d}] \in Calls /\ [h EXCEPT !.sent = @ \cup {d}].chn = h.chn
    BY DEF Calls
  <2> QED
    BY <1>1, <1>2, <2>1
<1> HIDE DEF g, f
<1>5. s \in Seq(Calls) /\ Len(s) = Len(stack)
  BY <1>1, <1>2, <1>4, ExceptSeq
<1>6. \A i \in DOMAIN stack : s[i].chn = stack[i].chn
  BY <1>1, <1>4
<1> HIDE DEF s
<1>7. /\ s \o <<f>> \in Seq(Calls) /\ Len(s \o <<f>>) = Len(stack) + 1
      /\ \A i \in 1 .. Len(stack) : (s \o <<f>>)[i] = s[i]
      /\ (s \o <<f>>)[Len(stack) + 1] = f
  BY <1>1, <1>3, <1>5
<1>8. DOMAIN (s \o <<f>>) = 1 .. Len(stack) + 1
  BY <1>7, LenProperties
<1> QED
  BY <1>1, <1>3, <1>6, <1>7, <1>8

(* Outside a callback nothing runs. *)
LEMMA NothingRuns ==
    ASSUME Inv, CallsInv, ~ inside \/ pc \notin {"pass", "epoll", "events"}
    PROVE  stack = <<>>
BY DEF Inv, PlaceInv, CallsInv

(* A step that lets no channel run and is not in the timer pass *)
LEMMA EndingQuiet ==
    ASSUME stack' = <<>>, pc' # "pass" \/ count', pc' = "timer" \/ pc' = "pass" => running',
           pc' = "exit" => ~ running',
           ~ running' /\ pc' \notin {"start", "abort"} => AllStopped'
    PROVE  StopInv'
<1>1. CallsInv'
  BY DEF CallsInv
<1> QED
  BY <1>1 DEF StopInv, PassInv, EndInv

(* A step that moves neither channels nor the loop *)
LEMMA EndingSame ==
    ASSUME StopInv, UNCHANGED <<state, stack, pc, pos, inside, count, running>>
    PROVE  StopInv'
BY DEF StopInv, CallsInv, Earliest, PassInv, Reviving, EndInv, AllStopped

(* One call is made from the loop. *)
LEMMA OneCall ==
    ASSUME NEW c \in Chn, stack' = Call(c), inside', pc' = "pass" => c = Order[pos]'
    PROVE  CallsInv'
<1>1. DOMAIN stack' = {1} /\ stack'[1].chn = c
  BY DEF Call
<1> QED
  BY <1>1 DEF CallsInv

(* The channel at the position of a pass *)
LEMMA VisitedChn ==
    ASSUME TypeOK, PlaceInv, pos <= Len(Order)
    PROVE  pos \in DOMAIN Order /\ Order[pos] \in Chn
<1>1. pos \in 1 .. Len(Order) /\ DOMAIN Order = 1 .. Len(Order)
  BY LoopAssumption DEF TypeOK, PlaceInv
<1> QED
  BY <1>1, LoopAssumption

(* The timer pass visits a channel. *)
LEMMA EndingVisit ==
    ASSUME Inv, StopInv, run_chn
    PROVE  StopInv'
<1> DEFINE c == Order[pos]
<1>1. /\ pc = "pass" /\ pos <= Len(Order) /\ stack = <<>> /\ UNCHANGED <<state, running, pc>>
  BY DEF run_chn
<1>2. pos \in DOMAIN Order /\ c \in Chn /\ running
  BY <1>1, VisitedChn DEF Inv, StopInv, EndInv
<1>3. EndInv'
  BY <1>1, <1>2 DEF EndInv
<1>4. CASE ~ inside /\ state[c] # "STOPPED"
  <2>1. inside' /\ stack' = Call(c) /\ UNCHANGED <<pos, count>>
    BY <1>4 DEF run_chn
  <2>2. CallsInv'
    <3> HIDE DEF c
    <3>1. pc' = "pass" => c = Order[pos]'
      BY <2>1 DEF c
    <3> QED
      BY <1>2, <2>1, <3>1, OneCall
  <2>3. PassInv'
    BY <1>1, <1>4, <2>1 DEF StopInv, PassInv, Reviving
  <2> QED
    BY <1>3, <2>2, <2>3 DEF StopInv
<1>5. CASE ~ (~ inside /\ state[c] # "STOPPED")
  <2>1. /\ inside' = FALSE /\ pos' = pos + 1 /\ count' = (count \/ state[c] # "STOPPED")
        /\ stack' = <<>>
    BY <1>1, <1>5 DEF run_chn
  <2>2. CallsInv'
    BY <2>1 DEF CallsInv
  <2>3. ASSUME ~ count' PROVE \A i \in DOMAIN Order : i < pos' => state'[Order[i]] = "STOPPED"
    <3>1. ~ count /\ state[c] = "STOPPED"
      BY <2>1, <2>3
    <3>2. \A i \in DOMAIN Order : i < pos => state[Order[i]] = "STOPPED"
      BY <1>1, <3>1 DEF StopInv, PassInv, Reviving
    <3>3. DOMAIN Order = 1 .. Len(Order) /\ pos \in Nat
      BY LoopAssumption DEF Inv, TypeOK
    <3>4. \A i \in DOMAIN Order : i < pos + 1 => i < pos \/ i = pos
      BY <3>3
    <3> QED
      BY <1>1, <2>1, <3>1, <3>2, <3>4
  <2>4. PassInv'
    BY <2>3 DEF PassInv
  <2> QED
    BY <1>3, <2>2, <2>4 DEF StopInv
<1> QED
  BY <1>4, <1>5

(* The timer pass is over: when it met no living channel, there is none. *)
LEMMA EndingTimer ==
    ASSUME Inv, StopInv, timer_return
    PROVE  StopInv'
<1>1. /\ pc = "pass" /\ pos > Len(Order) /\ running' = count /\ pc' \in {"wait", "epoll"}
      /\ UNCHANGED <<state, stack, inside, count>>
  BY DEF timer_return, Arrive, chnVars
<1>2. ~ inside
  <2>1. pos \in Nat /\ Len(Order) \in Nat
    BY LoopAssumption DEF Inv, TypeOK
  <2> QED
    BY <1>1, <2>1 DEF Inv, PlaceInv
<1>3. stack = <<>>
  BY <1>2, NothingRuns DEF StopInv
<1>4. ASSUME ~ count, NEW c \in Chn PROVE state[c] = "STOPPED"
  <2>1. PICK i \in DOMAIN Order : Order[i] = c
    BY LoopAssumption DEF ToSet
  <2>2. i < pos
    <3>1. DOMAIN Order = 1 .. Len(Order) /\ pos \in Nat /\ Len(Order) \in Nat
      BY LoopAssumption DEF Inv, TypeOK
    <3> QED
      BY <1>1, <3>1
  <2> QED
    BY <1>1, <1>2, <1>4, <2>1, <2>2 DEF StopInv, PassInv, Reviving
<1>5. ~ running' => AllStopped'
  BY <1>1, <1>4 DEF AllStopped
<1> QED
  BY <1>1, <1>3, <1>5, EndingQuiet

(* While a channel runs, the loop has not been told to stop. *)
LEMMA RunningLoop ==
    ASSUME Inv, StopInv, stack # <<>>
    PROVE  running /\ inside /\ pc \in {"pass", "epoll", "events"}
BY DEF Inv, PlaceInv, StopInv, CallsInv, EndInv

(* A stopped sink is started. *)
LEMMA EndingSink ==
    ASSUME Inv, StopInv, NEW d \in Chn, start_sink_chn(d)
    PROVE  StopInv'
<1>1. /\ stack # <<>> /\ state[top] = "ACTIVE" /\ state[d] = "STOPPED" /\ start_chn(d)
      /\ UNCHANGED <<stack, pc, pos, inside, count, running>>
  BY DEF start_sink_chn, Pushes, Rest, loopVars
<1>2. running /\ inside /\ pc \in {"pass", "epoll", "events"}
  BY <1>1, RunningLoop
<1>3. state \in [Chn -> {"STOPPED", "STOPPING", "ACTIVE"}]
  BY DEF Inv, TypeOK
<1>4. \A c \in Chn : state[c] = "ACTIVE" => state'[c] = "ACTIVE"
  BY <1>1, <1>3 DEF start_chn
<1>5. \A i \in DOMAIN stack : stack[i].chn \in Chn /\ state[stack[i].chn] = "ACTIVE"
  <2>1. /\ DOMAIN stack = 1 .. Len(stack) /\ Len(stack) \in Nat
        /\ \A i \in DOMAIN stack : stack[i].chn \in Chn
    BY CallsType DEF Inv
  <2>2. Len(stack) \in DOMAIN stack /\ top = stack[Len(stack)].chn
    BY <1>1, CallShape DEF Inv
  <2>3. ASSUME NEW i \in DOMAIN stack PROVE state[stack[i].chn] = "ACTIVE"
    <3>1. CASE i = Len(stack)
      BY <1>1, <2>2, <3>1
    <3>2. CASE i < Len(stack)
      BY <2>2, <3>2 DEF StopInv, CallsInv
    <3> QED
      BY <2>1, <3>1, <3>2
  <2> QED
    BY <2>1, <2>3
<1>6. CallsInv'
  BY <1>1, <1>4, <1>5 DEF StopInv, CallsInv, Earliest
<1>7. PassInv'
  <2>1. CASE pc = "pass"
    <3>1. 1 \in DOMAIN stack
      <4>1. DOMAIN stack = 1 .. Len(stack) /\ Len(stack) \in Nat
        BY CallsType DEF Inv
      <4>2. Len(stack) \in DOMAIN stack
        BY <1>1, CallShape DEF Inv
      <4> QED
        BY <4>1, <4>2
    <3>2. stack[1].chn = Order[pos]
      BY <1>1, <2>1 DEF StopInv, CallsInv
    <3>3. state'[Order[pos]] = "ACTIVE"
      BY <1>4, <1>5, <3>1, <3>2
    <3> QED
      BY <1>1, <1>2, <3>3 DEF PassInv, Reviving
  <2>2. CASE pc # "pass"
    BY <1>1, <2>2 DEF PassInv
  <2> QED
    BY <2>1, <2>2
<1>8. EndInv'
  BY <1>1, <1>2 DEF EndInv
<1> QED
  BY <1>6, <1>7, <1>8 DEF StopInv

(* A sink is run. *)
LEMMA EndingPush ==
    ASSUME Inv, StopInv, NEW d \in Chn, pipe_push_back(d)
    PROVE  StopInv'
<1>1. /\ stack # <<>> /\ state[top] = "ACTIVE" /\ Source[d] = top
      /\ UNCHANGED <<state, pc, pos, inside, count, running>>
  BY DEF pipe_push_back, Pushes, Rest, loopVars
<1>2. running /\ inside /\ pc \in {"pass", "epoll", "events"}
  BY <1>1, RunningLoop
<1>3. /\ DOMAIN stack' = 1 .. Len(stack) + 1
      /\ \A i \in DOMAIN stack : stack'[i].chn = stack[i].chn
      /\ stack'[Len(stack) + 1].chn = d
  BY <1>1, PushShape DEF Inv
<1>4. /\ DOMAIN stack = 1 .. Len(stack) /\ Len(stack) \in Nat
      /\ \A i \in DOMAIN stack : stack[i].chn \in Chn
  BY CallsType DEF Inv
<1>5. Len(stack) \in DOMAIN stack /\ top = stack[Len(stack)].chn /\ top \in Chn
  BY <1>1, CallShape DEF Inv
<1>6. ASSUME NEW i \in DOMAIN stack
      PROVE  state[stack[i].chn] = "ACTIVE" /\ Earliest(stack[i].chn, d)
  <2>1. Earliest(top, d)
    BY <1>1, <1>5, EarliestOrder
  <2>2. CASE i = Len(stack)
    BY <1>1, <1>5, <2>1, <2>2
  <2>3. CASE i < Len(stack)
    <3>1. Earliest(stack[i].chn, top) /\ state[stack[i].chn] = "ACTIVE"
      BY <1>5, <2>3 DEF StopInv, CallsInv
    <3> QED
      BY <1>4, <1>5, <2>1, <3>1, EarliestOrder
  <2> QED
    BY <1>4, <2>2, <2>3
<1>7. ASSUME NEW i \in DOMAIN stack', NEW j \in DOMAIN stack', i < j
      PROVE  Earliest(stack'[i].chn, stack'[j].chn) /\ state[stack'[i].chn] = "ACTIVE"
  <2>1. i \in DOMAIN stack
    BY <1>3, <1>4, <1>7
  <2>2. CASE j = Len(stack) + 1
    BY <1>3, <1>6, <2>1, <2>2
  <2>3. CASE j # Len(stack) + 1
    <3>1. j \in DOMAIN stack
      BY <1>3, <1>4, <2>3
    <3>2. Earliest(stack[i].chn, stack[j].chn)
      BY <1>7, <2>1, <3>1 DEF StopInv, CallsInv
    <3> QED
      BY <1>3, <1>6, <2>1, <3>1, <3>2
  <2> QED
    BY <2>2, <2>3
<1>8. 1 \in DOMAIN stack
  BY <1>4, <1>5
<1>9. CallsInv'
  <2>1. pc = "pass" => stack'[1].chn = Order[pos]
    BY <1>1, <1>3, <1>8 DEF StopInv, CallsInv
  <2>2. ASSUME NEW i \in DOMAIN stack', NEW j \in DOMAIN stack', i < j
        PROVE  Earliest(stack[i].chn, stack[j].chn)' /\ state'[stack'[i].chn] = "ACTIVE"
    BY <1>1, <1>7, <2>2 DEF Earliest
  <2> QED
    BY <1>1, <1>2, <2>1, <2>2 DEF CallsInv
<1>10. PassInv'
  <2>1. pc = "pass" => state[Order[pos]] = "ACTIVE"
    <3>1. pc = "pass" => stack[1].chn = Order[pos]
      BY <1>1 DEF StopInv, CallsInv
    <3> QED
      BY <1>6, <1>8, <3>1
  <2> QED
    BY <1>1, <1>2, <2>1 DEF PassInv, Reviving
<1>11. EndInv'
  BY <1>1, <1>2 DEF EndInv
<1> QED
  BY <1>9, <1>10, <1>11 DEF StopInv

(* The innermost run is over.  Its channel may be at its end or stopped; no *)
(* other changes, and the channels of the calls around it are other ones.   *)
LEMMA EndingRun ==
    ASSUME Inv, StopInv, process_chn_active \/ process_chn_stopping
    PROVE  StopInv'
<1>1. /\ stack # <<>> /\ stack' = Front(stack)
      /\ UNCHANGED <<pc, pos, inside, count, running>>
  BY DEF process_chn_active, process_chn_stopping, Rest, loopVars
<1>2. running /\ inside /\ pc \in {"pass", "epoll", "events"}
  BY <1>1, RunningLoop
<1>3. state \in [Chn -> {"STOPPED", "STOPPING", "ACTIVE"}]
  BY DEF Inv, TypeOK
<1>4. /\ Len(stack) \in DOMAIN stack /\ top = stack[Len(stack)].chn /\ top \in Chn
      /\ DOMAIN Front(stack) = 1 .. Len(stack) - 1
      /\ \A i \in DOMAIN Front(stack) : Front(stack)[i] = stack[i]
      /\ Front(stack) # <<>> => 1 \in DOMAIN Front(stack)
  BY <1>1, CallShape DEF Inv
<1>5. /\ DOMAIN stack = 1 .. Len(stack) /\ Len(stack) \in Nat
      /\ \A i \in DOMAIN stack : stack[i].chn \in Chn
  BY CallsType DEF Inv
<1>6. \A c \in Chn : c # top => state'[c] = state[c]
  BY <1>3, <1>4 DEF process_chn_active, process_chn_stopping
<1>7. \A c \in Chn : state[c] = "STOPPED" => state'[c] = "STOPPED"
  <2>1. state[top] = "STOPPED" => state'[top] = "STOPPED"
    BY <1>3, <1>4 DEF process_chn_active, process_chn_stopping
  <2> QED
    BY <1>6, <2>1
<1>8. ASSUME NEW i \in DOMAIN Front(stack)
      PROVE  i \in DOMAIN stack /\ i < Len(stack) /\ state'[stack[i].chn] = "ACTIVE"
  <2>1. i \in DOMAIN stack /\ i < Len(stack)
    BY <1>4, <1>5
  <2>2. Earliest(stack[i].chn, top) /\ state[stack[i].chn] = "ACTIVE"
    BY <1>4, <2>1 DEF StopInv, CallsInv
  <2>3. stack[i].chn # top
    BY <1>4, <2>2, EarliestOrder
  <2> QED
    BY <1>5, <1>6, <2>1, <2>2, <2>3
<1>9. CallsInv'
  <2>1. ASSUME NEW i \in DOMAIN stack', NEW j \in DOMAIN stack', i < j
        PROVE  Earliest(stack[i].chn, stack[j].chn)' /\ state'[stack'[i].chn] = "ACTIVE"
    <3>1. i \in DOMAIN stack /\ j \in DOMAIN stack /\ state'[stack[i].chn] = "ACTIVE"
      BY <1>1, <1>8
    <3>2. Earliest(stack[i].chn, stack[j].chn)
      BY <2>1, <3>1 DEF StopInv, CallsInv
    <3> QED
      BY <1>1, <1>4, <3>1, <3>2 DEF Earliest
  <2>2. stack' # <<>> /\ pc = "pass" => stack'[1].chn = Order[pos]
    BY <1>1, <1>4 DEF StopInv, CallsInv
  <2> QED
    BY <1>1, <1>2, <2>1, <2>2 DEF CallsInv
<1>10. PassInv'
  <2> SUFFICES ASSUME pc = "pass", ~ count
               PROVE  Reviving' \/ \A i \in DOMAIN Order : i < pos => state'[Order[i]] = "STOPPED"
    BY <1>1 DEF PassInv
  <2>1. stack[1].chn = Order[pos] /\ 1 \in DOMAIN stack
    BY <1>1, <1>4, <1>5 DEF StopInv, CallsInv
  <2>2. CASE Front(stack) # <<>>
    BY <1>1, <1>2, <1>4, <1>8, <2>1, <2>2 DEF Reviving
  <2>3. CASE Front(stack) = <<>>
    <3>1. Len(stack) = 1 /\ top = Order[pos]
      <4>1. DOMAIN Front(stack) = {}
        BY <2>3
      <4>2. ~ (1 \in 1 .. Len(stack) - 1)
        BY <1>4, <4>1
      <4>3. Len(stack) = 1
        BY <1>4, <1>5, <4>2
      <4> QED
        BY <1>4, <2>1, <4>3
    <3>2. CASE state[top] = "ACTIVE"
      <4>1. state'[top] # "STOPPED"
        BY <1>3, <1>4, <3>2 DEF process_chn_active, process_chn_stopping
      <4> QED
        BY <1>1, <1>2, <2>3, <3>1, <4>1 DEF Reviving
    <3>3. CASE state[top] # "ACTIVE"
      <4>1. \A i \in DOMAIN Order : i < pos => state[Order[i]] = "STOPPED"
        BY <1>1, <3>1, <3>3 DEF StopInv, PassInv, Reviving
      <4>2. \A i \in DOMAIN Order : Order[i] \in Chn
        BY LoopAssumption
      <4> QED
        BY <1>7, <4>1, <4>2
    <3> QED
      BY <3>2, <3>3
  <2> QED
    BY <2>2, <2>3
<1>11. EndInv'
  BY <1>1, <1>2 DEF EndInv
<1> QED
  BY <1>9, <1>10, <1>11 DEF StopInv

(* Before the loop, and between the callbacks of a turn, nothing runs. *)
LEMMA EndingIdle ==
    ASSUME Inv, StopInv,
           \/ pitcher_start \/ pitcher_start_end \/ stop_chn \/ pitcher_loop_add_task
           \/ pre_process \/ timer_func \/ epoll_return \/ epoll_wait
           \/ poll_return \/ events_end
    PROVE  StopInv'
<1>1. stack = <<>> => stack' = <<>>
  BY DEF pitcher_start, pitcher_start_end, stop_chn, pitcher_loop_add_task, pre_process,
         timer_func, epoll_return, epoll_wait, poll_return, events_end, chnVars
<1>2. CASE pitcher_start \/ pitcher_start_end \/ stop_chn \/ pitcher_loop_add_task
  <2>1. pc \in {"start", "abort"} /\ (pc' \in {"start", "abort"} \/ (pc' = "pre" /\ running'))
    BY <1>2 DEF pitcher_start, pitcher_start_end, stop_chn, pitcher_loop_add_task
  <2>2. stack = <<>>
    BY <2>1, NothingRuns DEF StopInv
  <2> QED
    BY <1>1, <2>1, <2>2, EndingQuiet
<1>3. CASE pre_process
  <2>1. /\ pc = "pre" /\ pc' = (IF running THEN "timer" ELSE "exit") /\ UNCHANGED <<state, running>>
    BY <1>3 DEF pre_process, chnVars
  <2>2. stack = <<>>
    BY <2>1, NothingRuns DEF StopInv
  <2>3. ~ running => AllStopped'
    BY <2>1 DEF StopInv, EndInv, AllStopped
  <2> QED
    BY <1>1, <2>1, <2>2, <2>3, EndingQuiet
<1>4. CASE timer_func
  <2>1. /\ pc = "timer" /\ pc' \in {"pass", "epoll", "wait"} /\ running' = running
        /\ pc' = "pass" => pos' = 1
    BY <1>4 DEF timer_func, Arrive
  <2>2. stack = <<>> /\ running
    BY <2>1, NothingRuns DEF StopInv, EndInv
  <2>3. CallsInv' /\ EndInv'
    BY <1>1, <2>1, <2>2 DEF CallsInv, EndInv
  <2>4. PassInv'
    <3>1. \A i \in DOMAIN Order : ~ (i < 1)
      BY LoopAssumption
    <3> QED
      BY <2>1, <3>1 DEF PassInv
  <2> QED
    BY <2>3, <2>4 DEF StopInv
<1>5. CASE epoll_return \/ epoll_wait \/ poll_return \/ events_end
  <2>1. /\ pc \in {"epoll", "wait", "events"} /\ UNCHANGED <<state, running>>
        /\ pc' \in {"epoll", "wait", "events", "pre"}
    BY <1>5 DEF epoll_return, epoll_wait, poll_return, events_end, NextNode, Arrive, chnVars
  <2>2. stack = <<>>
    <3>1. stack = <<>> \/ ~ inside \/ pc = "wait"
      BY <1>5 DEF epoll_return, epoll_wait, poll_return, events_end
    <3> QED
      BY <3>1, NothingRuns DEF StopInv
  <2>3. ~ running => AllStopped'
    BY <2>1 DEF StopInv, EndInv, AllStopped
  <2> QED
    BY <1>1, <2>1, <2>2, <2>3, EndingQuiet
<1> QED
  BY <1>2, <1>3, <1>4, <1>5

(* A poll node or an event runs its channel only if that is not stopped, and *)
(* so not after the loop was told to stop.                                   *)
LEMMA EndingPoll ==
    ASSUME Inv, StopInv, epoll_func \/ poll_func
    PROVE  StopInv'
<1>1. /\ pc \in {"epoll", "events"} /\ pc' \in {"epoll", "wait", "events"} /\ ~ inside
      /\ UNCHANGED <<state, running>>
  BY DEF epoll_func, poll_func, NextNode, Arrive
<1>2. stack = <<>>
  BY <1>1, NothingRuns DEF StopInv
<1>3. PICK n \in Node : stack' = <<>> \/ (state[node[n].key] # "STOPPED" /\ stack' = Call(node[n].key) /\ inside')
  <2>1. CASE epoll_func
    <3>1. pools[pos] \in Node
      <4>1. pos \in 1 .. Len(pools) /\ pools \in Seq(Node)
        BY <2>1 DEF epoll_func, Inv, TypeOK, PlaceInv
      <4> QED
        BY <4>1, ElementOfSeq
    <3> QED
      BY <1>2, <2>1, <3>1 DEF epoll_func
  <2>2. CASE poll_func
    <3>1. Head(batch) \in Node
      BY <2>2 DEF poll_func, Inv, TypeOK
    <3> QED
      BY <2>2, <3>1 DEF poll_func
  <2> QED
    BY <2>1, <2>2
<1>4. node[n].key \in Chn
  BY DEF Inv, TypeOK
<1>5. ~ running => AllStopped /\ AllStopped'
  BY <1>1 DEF StopInv, EndInv, AllStopped
<1>6. CASE stack' = <<>>
  BY <1>1, <1>5, <1>6, EndingQuiet
<1>7. CASE state[node[n].key] # "STOPPED" /\ stack' = Call(node[n].key) /\ inside'
  <2>1. running
    BY <1>4, <1>5, <1>7 DEF AllStopped
  <2>2. CallsInv'
    BY <1>1, <1>4, <1>7, OneCall
  <2> QED
    BY <1>1, <2>1, <2>2 DEF StopInv, PassInv, EndInv
<1> QED
  BY <1>3, <1>6, <1>7

LEMMA InitEnding == Init => StopInv
  BY DEF Init, StopInv, CallsInv, PassInv, EndInv

(* Every step keeps what is known about the end of the loop. *)
LEMMA EndingStep ==
    ASSUME Inv, StopInv, [Next]_vars
    PROVE  StopInv'
<1>1. CASE Tick \/ (\E c \in Chn : DeviceReady(c)) \/ Exited \/ UNCHANGED vars
  <2>1. UNCHANGED <<state, stack, pc, pos, inside, count, running>>
    BY <1>1 DEF Tick, DeviceReady, Exited, vars, chnVars, loopVars
  <2> QED
    BY <2>1, EndingSame
<1> QED
  BY <1>1, EndingIdle, EndingPoll, EndingVisit, EndingTimer, EndingSink, EndingPush, EndingRun
     DEF Next

-----------------------------------------------------------------------------
(* Which nodes the loop leaves. *)

(* An interval over at an earlier time is over at a later one. *)
LEMMA QuotientPositive ==
    ASSUME NEW a \in Nat, NEW b \in Nat, a <= b, NEW n \in Nat \ {0}, a \div n >= 1
    PROVE  b \div n >= 1
<1>1. a >= n
  BY Z3
<1>2. b >= n
  BY <1>1
<1> QED
  BY <1>2, Z3

(* What a step does to a node that is allocated after it: nothing, or the   *)
(* pass over the nodes takes its time, or it is new.                        *)
LEMMA NodesAfter ==
    ASSUME Inv, [Next]_vars, NEW n \in heap'
    PROVE  \/ n \in heap /\ node'[n] = node[n]
           \/ /\ n \in heap /\ pc = "epoll" /\ node'[n].key = node[n].key /\ node'[n].tv = tv
              /\ \/ node'[n].timeout = LOOP_TIMEOUT_DEFAULT
                 \/ /\ ~ Due(n)
                    /\ node'[n].timeout = node[n].timeout - (tv - node[n].tv) \div NSEC_PER_MSEC
           \/ /\ node'[n].tv = clock /\ clock' = clock /\ node'[n].timeout = LOOP_TIMEOUT_DEFAULT
              /\ (pc = "start" /\ pc' = "start") \/ Source[node'[n].key] # None
<1>1. /\ node \in [Node -> [key : Chn, tv : Nat, timeout : 0 .. LOOP_TIMEOUT_DEFAULT]]
      /\ heap \subseteq Node /\ pools \in Seq(Node)
  BY DEF Inv, TypeOK
<1>2. ASSUME NEW c \in Chn, start_chn(c), clock' = clock, Source[c] # None \/ (pc = "start" /\ pc' = "start")
      PROVE  \/ n \in heap /\ node'[n] = node[n]
             \/ /\ node'[n].tv = clock /\ node'[n].timeout = LOOP_TIMEOUT_DEFAULT
                /\ (pc = "start" /\ pc' = "start") \/ Source[node'[n].key] # None
  <2>1. CASE UNCHANGED nodeVars
    BY <2>1 DEF nodeVars
  <2>2. CASE ~ UNCHANGED nodeVars
    <3>1. PICK m \in Node \ heap :
             /\ node' = [node EXCEPT ![m] = [key |-> c, tv |-> clock, timeout |-> LOOP_TIMEOUT_DEFAULT]]
             /\ heap' = heap \cup {m}
      BY <1>2, <2>2 DEF start_chn, pitcher_loop_add_poll_fd
    <3>2. CASE n = m
      <4>1. node'[n] = [key |-> c, tv |-> clock, timeout |-> LOOP_TIMEOUT_DEFAULT]
        BY <1>1, <3>1, <3>2
      <4> QED
        BY <1>2, <4>1
    <3>3. CASE n # m
      BY <1>1, <3>1, <3>3
    <3> QED
      BY <3>2, <3>3
  <2> QED
    BY <2>1, <2>2
<1>3. CASE pitcher_start
  <2>1. pc = "start" /\ pc' = "start" /\ clock' = clock /\ start_chn(Order[pos]) /\ pos <= Len(Order)
    BY <1>3 DEF pitcher_start
  <2>2. Order[pos] \in Chn
    BY <2>1, VisitedChn DEF Inv
  <2> QED
    BY <1>2, <2>1, <2>2
<1>4. CASE \E d \in Chn : start_sink_chn(d)
  <2>1. PICK d \in Chn : start_sink_chn(d)
    BY <1>4
  <2>2. start_chn(d) /\ Source[d] = top /\ stack # <<>> /\ clock' = clock
    BY <2>1 DEF start_sink_chn, Pushes, Rest
  <2>3. top \in Chn
    BY <2>2, CallShape DEF Inv
  <2>4. Source[d] # None
    BY <2>2, <2>3, LoopAssumption
  <2> QED
    BY <1>2, <2>2, <2>4
<1>5. CASE epoll_func
  <2>1. pc = "epoll" /\ heap' = heap
    BY <1>5 DEF epoll_func
  <2>2. pools[pos] \in Node
    <3>1. pos \in 1 .. Len(pools)
      BY <2>1 DEF Inv, PlaceInv
    <3> QED
      BY <1>1, <3>1, ElementOfSeq
  <2>3. CASE n = pools[pos]
    <3>1. node[n] \in [key : Chn, tv : Nat, timeout : 0 .. LOOP_TIMEOUT_DEFAULT]
      BY <1>1, <2>1
    <3>2. CASE Due(n)
      <4>1. node'[n] = [node[n] EXCEPT !.tv = tv, !.timeout = LOOP_TIMEOUT_DEFAULT]
        BY <1>1, <1>5, <2>2, <2>3, <3>2 DEF epoll_func
      <4> QED
        BY <2>1, <3>1, <4>1
    <3>3. CASE ~ Due(n)
      <4>1. node'[n] = [node[n] EXCEPT !.tv = tv, !.timeout = @ - (tv - node[n].tv) \div NSEC_PER_MSEC]
        BY <1>1, <1>5, <2>2, <2>3, <3>3 DEF epoll_func
      <4> QED
        BY <2>1, <3>1, <3>3, <4>1
    <3> QED
      BY <3>2, <3>3
  <2>4. CASE n # pools[pos]
    BY <1>1, <1>5, <2>1, <2>2, <2>4 DEF epoll_func
  <2> QED
    BY <2>3, <2>4
<1>6. CASE stop_chn \/ epoll_return \/ poll_return
  <2>1. node' = node /\ heap' \subseteq heap
    BY <1>6 DEF stop_chn, epoll_return, poll_return, del_poll, free_poll_node, nodeVars
  <2> QED
    BY <2>1
<1>7. CASE \/ pitcher_start_end \/ pitcher_loop_add_task \/ pre_process \/ timer_func \/ run_chn
           \/ timer_return \/ epoll_wait \/ poll_func \/ events_end
           \/ (\E d \in Chn : pipe_push_back(d)) \/ process_chn_active \/ process_chn_stopping
           \/ Tick \/ (\E c \in Chn : DeviceReady(c)) \/ Exited \/ UNCHANGED vars
  <2>1. node' = node /\ heap' = heap
    BY <1>7 DEF pitcher_start_end, pitcher_loop_add_task, pre_process, timer_func, run_chn,
                timer_return, epoll_wait, poll_func, events_end, pipe_push_back,
                process_chn_active, process_chn_stopping, Tick, DeviceReady, Exited, vars, nodeVars
  <2> QED
    BY <2>1
<1> QED
  BY <1>3, <1>4, <1>5, <1>6, <1>7 DEF Next

(* How the clock, the timer and the place of the loop move. *)
LEMMA TimesAfter ==
    ASSUME Inv, AgeInv, LOOP_TIMEOUT_DEFAULT = 1, [Next]_vars
    PROVE  /\ clock' >= clock
           /\ pc \in {"start", "abort"} =>
                 \/ pc' \in {"start", "abort"}
                 \/ task'.tv = clock /\ task'.timeout = 1 /\ pc' = "pre" /\ clock' = clock
           /\ pc \notin {"start", "abort"} =>
                 pc' \notin {"start", "abort"} /\ task'.tv >= task.tv /\ task'.timeout = 1
           /\ pc' \in {"pass", "epoll"} => task'.tv = tv'
<1>1. clock \in Nat /\ tv \in Nat /\ task \in [on : BOOLEAN, tv : Nat, timeout : 0 .. LOOP_TIMEOUT_DEFAULT]
  BY DEF Inv, TypeOK
<1>2. pc \notin {"start", "abort"} => task.timeout = 1
  BY DEF AgeInv
<1>3. pc \in {"pass", "epoll"} => task.tv = tv
  BY DEF AgeInv
<1>4. CASE timer_func
  <2> DEFINE delta == (tv - task.tv) \div NSEC_PER_MSEC
             due == delta >= task.timeout
  <2>1. pc = "timer" /\ pc' \in {"pass", "epoll", "wait"} /\ tv' = tv /\ clock' = clock
    BY <1>4 DEF timer_func, Arrive
  <2>2. task' = [task EXCEPT !.tv = tv, !.timeout = IF due THEN LOOP_TIMEOUT_DEFAULT ELSE @ - delta]
    BY <1>4 DEF timer_func
  <2>3. task.tv <= tv
    BY <2>1 DEF Inv, TimeInv
  <2>4. delta \in Nat
    <3>1. tv - task.tv \in Nat
      BY <1>1, <2>3
    <3> QED
      BY <3>1, QuotientNat, LoopAssumption
  <2> HIDE DEF delta
  <2>5. task'.tv = tv /\ task'.timeout = 1
    BY <1>1, <1>2, <2>1, <2>2, <2>4
  <2> QED
    BY <1>1, <2>1, <2>3, <2>5
<1>5. CASE pitcher_loop_add_task
  <2>1. /\ pc = "abort" /\ pc' = "pre" /\ clock' = clock
        /\ task' = [on |-> TRUE, tv |-> clock, timeout |-> LOOP_TIMEOUT_DEFAULT]
    BY <1>5 DEF pitcher_loop_add_task
  <2> QED
    BY <1>1, <2>1
<1>6. CASE pitcher_start \/ pitcher_start_end \/ stop_chn
  <2>1. pc \in {"start", "abort"} /\ pc' \in {"start", "abort"} /\ clock' = clock
    BY <1>6 DEF pitcher_start, pitcher_start_end, stop_chn
  <2> QED
    BY <1>1, <2>1
<1>7. CASE pre_process
  <2>1. pc = "pre" /\ pc' \in {"timer", "exit"} /\ UNCHANGED <<task, clock>>
    BY <1>7 DEF pre_process
  <2> QED
    BY <1>1, <1>2, <2>1
<1>8. CASE timer_return
  <2>1. /\ pc = "pass" /\ pc' \in {"epoll", "wait"} /\ UNCHANGED <<tv, clock>>
        /\ task' = [task EXCEPT !.on = count]
    BY <1>8 DEF timer_return, Arrive
  <2>2. task'.tv = task.tv /\ task'.timeout = task.timeout
    BY <1>1, <2>1
  <2> QED
    BY <1>1, <1>2, <1>3, <2>1, <2>2
<1>9. CASE epoll_func \/ epoll_return \/ epoll_wait \/ poll_func \/ poll_return \/ events_end \/ run_chn
  <2>1. /\ pc \in {"pass", "epoll", "wait", "events"} /\ UNCHANGED <<task, tv, clock>>
        /\ pc' \in {pc, "wait", "events", "pre"}
    BY <1>9 DEF epoll_func, epoll_return, epoll_wait, poll_func, poll_return, events_end, run_chn,
                NextNode, Arrive, timeVars
  <2> QED
    BY <1>1, <1>2, <1>3, <2>1
<1>10. CASE \/ (\E d \in Chn : start_sink_chn(d) \/ pipe_push_back(d))
            \/ process_chn_active \/ process_chn_stopping
            \/ (\E c \in Chn : DeviceReady(c)) \/ Exited \/ UNCHANGED vars \/ Tick
  <2>1. UNCHANGED <<task, tv, pc>> /\ clock' \in {clock, clock + 1}
    BY <1>10 DEF start_sink_chn, pipe_push_back, process_chn_active, process_chn_stopping, Rest,
                 DeviceReady, Exited, vars, Tick, timeVars, loopVars
  <2> QED
    BY <1>1, <1>2, <1>3, <2>1
<1> QED
  BY <1>4, <1>5, <1>6, <1>7, <1>8, <1>9, <1>10 DEF Next

LEMMA AgeStep ==
    ASSUME Inv, Inv', AgeInv, LOOP_TIMEOUT_DEFAULT = 1, [Next]_vars
    PROVE  AgeInv'
<1>1. /\ clock' >= clock
      /\ pc \in {"start", "abort"} =>
            \/ pc' \in {"start", "abort"}
            \/ task'.tv = clock /\ task'.timeout = 1 /\ pc' = "pre" /\ clock' = clock
      /\ pc \notin {"start", "abort"} =>
            pc' \notin {"start", "abort"} /\ task'.tv >= task.tv /\ task'.timeout = 1
      /\ pc' \in {"pass", "epoll"} => task'.tv = tv'
  BY TimesAfter
<1>2. /\ clock \in Nat /\ tv \in Nat /\ clock' \in Nat /\ task.tv \in Nat /\ task'.tv \in Nat
      /\ heap \subseteq Node
      /\ heap' \subseteq Node
  BY DEF Inv, TypeOK
<1>3. \A n \in Node : node[n].tv \in Nat /\ node'[n].tv \in Nat
  BY DEF Inv, TypeOK
<1>4. ASSUME NEW n \in heap' PROVE node'[n].timeout = LOOP_TIMEOUT_DEFAULT
  <2>1. n \in heap => node[n].timeout = 1
    BY DEF AgeInv
  <2>2. CASE n \in heap /\ ~ Due(n) /\ node'[n].timeout = node[n].timeout - (tv - node[n].tv) \div NSEC_PER_MSEC
    <3>1. tv >= node[n].tv /\ ~ ((tv - node[n].tv) \div NSEC_PER_MSEC >= 1)
      BY <1>2, <1>3, <2>1, <2>2 DEF Due
    <3>2. (tv - node[n].tv) \div NSEC_PER_MSEC \in Nat
      <4>1. tv - node[n].tv \in Nat
        BY <1>2, <1>3, <2>2, <3>1
      <4> QED
        BY <4>1, QuotientNat, LoopAssumption
    <3> QED
      BY <2>1, <2>2, <3>1, <3>2
  <2> QED
    BY <2>1, <2>2, NodesAfter
<1>5. ASSUME NEW n \in Node, Rooted(n)'
      PROVE  IF pc' \in {"start", "abort"} THEN node'[n].tv <= clock' ELSE node'[n].tv <= task'.tv
  <2>1. n \in heap' /\ Source[node'[n].key] = None
    BY <1>5 DEF Rooted
  <2>2. CASE n \in heap /\ node'[n] = node[n]
    <3>1. Rooted(n)
      BY <2>1, <2>2 DEF Rooted
    <3>2. IF pc \in {"start", "abort"} THEN node[n].tv <= clock ELSE node[n].tv <= task.tv
      BY <3>1 DEF AgeInv
    <3> QED
      BY <1>1, <1>2, <1>3, <2>2, <3>2
  <2>3. CASE n \in heap /\ pc = "epoll" /\ node'[n].tv = tv
    <3>1. task.tv = tv
      BY <2>3 DEF AgeInv
    <3> QED
      BY <1>1, <1>2, <2>3, <3>1
  <2>4. CASE node'[n].tv = clock /\ clock' = clock /\ pc = "start" /\ pc' = "start"
    BY <1>2, <2>4
  <2> QED
    BY <2>1, <2>2, <2>3, <2>4, NodesAfter
<1>6. pc' \notin {"start", "abort"} => task'.timeout = LOOP_TIMEOUT_DEFAULT
  BY <1>1
<1> QED
  BY <1>1, <1>4, <1>5, <1>6 DEF AgeInv

(* When the timer of the core is due, so is every node that is not younger. *)
LEMMA DueStep ==
    ASSUME Inv, AgeInv, DueInv, LOOP_TIMEOUT_DEFAULT = 1, [Next]_vars
    PROVE  DueInv'
<1> SUFFICES ASSUME pc' = "pass", NEW n \in Node, Rooted(n)'
             PROVE  Due(n)'
  BY DEF DueInv
<1>1. pc = "pass" \/ timer_func
  <2>1. CASE \/ pitcher_start \/ pitcher_start_end \/ stop_chn \/ pitcher_loop_add_task
             \/ pre_process \/ timer_return \/ epoll_func \/ epoll_return \/ epoll_wait
             \/ poll_func \/ poll_return \/ events_end
    BY <2>1 DEF pitcher_start, pitcher_start_end, stop_chn, pitcher_loop_add_task, pre_process,
                timer_return, epoll_func, epoll_return, epoll_wait, poll_func, poll_return,
                events_end, NextNode, Arrive
  <2>2. CASE \/ (\E d \in Chn : start_sink_chn(d) \/ pipe_push_back(d))
             \/ process_chn_active \/ process_chn_stopping
             \/ (\E c \in Chn : DeviceReady(c)) \/ Exited \/ UNCHANGED vars \/ Tick \/ run_chn
    <3>1. pc' = pc
      BY <2>2 DEF start_sink_chn, pipe_push_back, process_chn_active, process_chn_stopping, Rest,
                  DeviceReady, Exited, vars, Tick, run_chn, loopVars
    <3> QED
      BY <3>1
  <2> QED
    BY <2>1, <2>2 DEF Next
<1>2. pc \in {"pass", "timer"} /\ tv' = tv
  <2>1. CASE timer_func
    BY <2>1 DEF timer_func
  <2>2. CASE pc = "pass"
    BY <2>2 DEF Next, pitcher_start, pitcher_start_end, stop_chn, pitcher_loop_add_task, pre_process,
         timer_func, run_chn, timer_return, epoll_func, epoll_return, epoll_wait, poll_func, poll_return,
         events_end, start_sink_chn, pipe_push_back, process_chn_active,
         process_chn_stopping, Rest, Tick, DeviceReady, Exited, vars, timeVars
  <2> QED
    BY <1>1, <2>1, <2>2
<1>3. n \in heap /\ node'[n] = node[n] /\ Rooted(n)
  BY <1>2, NodesAfter DEF Rooted
<1>4. Due(n)
  <2>1. CASE pc = "pass"
    BY <1>3, <2>1 DEF DueInv
  <2>2. CASE timer_func
    <3>1. pc = "timer" /\ (tv - task.tv) \div NSEC_PER_MSEC >= task.timeout
      BY <2>2 DEF timer_func, Arrive
    <3>2. task.timeout = 1 /\ node[n].timeout = 1 /\ node[n].tv <= task.tv
      BY <1>3, <3>1 DEF AgeInv, Rooted
    <3>3. task.tv <= tv /\ tv \in Nat /\ task.tv \in Nat /\ node[n].tv \in Nat
      BY <3>1 DEF Inv, TimeInv, TypeOK
    <3>4. tv - task.tv \in Nat /\ tv - node[n].tv \in Nat /\ tv - task.tv <= tv - node[n].tv
      BY <3>2, <3>3
    <3>5. (tv - node[n].tv) \div NSEC_PER_MSEC >= 1
      BY <3>1, <3>2, <3>4, QuotientPositive, LoopAssumption
    <3> QED
      BY <3>2, <3>5 DEF Due
  <2> QED
    BY <1>1, <2>1, <2>2
<1> QED
  BY <1>2, <1>3, <1>4 DEF Due

(* Every node is at a place of the list, and at one only. *)
LEMMA NodeListed ==
    ASSUME Inv
    PROVE  /\ \A n \in heap : \E i \in DOMAIN pools : pools[i] = n
           /\ \A i, j \in DOMAIN pools : pools[i] = pools[j] => i = j
           /\ \A i \in DOMAIN pools : pools[i] \in Node /\ pools[i] \in heap
           /\ DOMAIN pools = 1 .. Len(pools) /\ Len(pools) \in Nat
<1>1. ToSet(pools) = heap /\ IsInjective(pools) /\ pools \in Seq(Node)
  BY DEF Inv, NodesInv, EpollExact, TypeOK
<1>2. DOMAIN pools = 1 .. Len(pools) /\ Len(pools) \in Nat
  BY <1>1, LenProperties
<1>3. \A i \in DOMAIN pools : pools[i] \in Node
  BY <1>1, <1>2, ElementOfSeq
<1> QED
  BY <1>1, <1>2, <1>3 DEF ToSet, IsInjective

(* The pass reaches the next place, or ends, with the rooted nodes still    *)
(* ahead of it and due.                                                     *)
LEMMA ArriveAhead ==
    ASSUME Inv', NEW k \in Nat \ {0}, Arrive(k, pools'),
           \A i \in DOMAIN pools' : Rooted(pools[i])' => i >= k /\ Due(pools[i])'
    PROVE  LastPassInv'
<1>1. pos' = k /\ isLast' = (k >= Len(pools')) /\ pc' = IF k > Len(pools') THEN "wait" ELSE "epoll"
  BY DEF Arrive
<1>2. /\ DOMAIN pools' = 1 .. Len(pools') /\ Len(pools') \in Nat
      /\ \A n \in heap' : \E i \in DOMAIN pools' : pools'[i] = n
  <2>1. ToSet(pools') = heap' /\ pools' \in Seq(Node)
    BY DEF Inv, NodesInv, EpollExact, TypeOK
  <2>2. DOMAIN pools' = 1 .. Len(pools') /\ Len(pools') \in Nat
    BY <2>1, LenProperties
  <2> QED
    BY <2>1, <2>2 DEF ToSet
<1>3. CASE k > Len(pools')
  <2>1. ASSUME NEW n \in Node, Rooted(n)' PROVE FALSE
    <3>1. PICK i \in DOMAIN pools' : pools'[i] = n
      BY <1>2, <2>1 DEF Rooted
    <3>2. i >= k
      BY <2>1, <3>1 DEF Rooted
    <3> QED
      BY <1>2, <1>3, <3>2
  <2> QED
    BY <1>1, <1>3, <2>1 DEF LastPassInv
<1>4. CASE ~ (k > Len(pools'))
  <2>1. ASSUME isLast', NEW i \in DOMAIN pools', i >= k PROVE i = k
    <3>1. k >= Len(pools') /\ i \in 1 .. Len(pools')
      BY <1>1, <1>2, <2>1
    <3> QED
      BY <1>2, <2>1, <3>1
  <2> QED
    BY <1>1, <1>4, <2>1 DEF LastPassInv
<1> QED
  BY <1>3, <1>4

(* The timer pass has met no living channel: every node of the list that    *)
(* pitcher_start registered is ahead of the pass over the nodes, and due.   *)
LEMMA LastTimer ==
    ASSUME Inv, Inv', DueInv, timer_return
    PROVE  LastPassInv'
<1>1. pc = "pass" /\ Arrive(1, pools') /\ UNCHANGED <<node, heap, pools, tv>>
  BY DEF timer_return, nodeVars, Arrive
<1>2. ASSUME NEW i \in DOMAIN pools', Rooted(pools[i])'
      PROVE  i >= 1 /\ Due(pools[i])'
  <2>1. pools[i] \in Node /\ i \in 1 .. Len(pools)
    BY <1>1, NodeListed
  <2>2. Rooted(pools[i])
    BY <1>1, <1>2 DEF Rooted
  <2>3. Due(pools[i])
    BY <1>1, <2>1, <2>2 DEF DueInv
  <2> QED
    BY <1>1, <2>1, <2>3 DEF Due
<1> QED
  BY <1>1, <1>2, ArriveAhead

(* The last pass over the nodes: a rooted node is due, so its callback runs. *)
LEMMA LastEpoll ==
    ASSUME Inv, Inv', LastPassInv, epoll_func
    PROVE  LastPassInv'
<1> SUFFICES ASSUME ~ running
             PROVE  LastPassInv'
  BY DEF epoll_func, LastPassInv
<1> DEFINE n == pools[pos]
<1>1. /\ pc = "epoll" /\ ~ inside /\ UNCHANGED <<heap, pools, tv, running>>
  BY DEF epoll_func
<1>2. /\ \A i, j \in DOMAIN pools : pools[i] = pools[j] => i = j
      /\ \A i \in DOMAIN pools : pools[i] \in Node /\ pools[i] \in heap
      /\ DOMAIN pools = 1 .. Len(pools) /\ Len(pools) \in Nat
  BY NodeListed
<1>3. pos \in DOMAIN pools /\ pos \in Nat
  BY <1>1, <1>2 DEF Inv, PlaceInv, TypeOK
<1>4. node \in [Node -> [key : Chn, tv : Nat, timeout : 0 .. LOOP_TIMEOUT_DEFAULT]]
  BY DEF Inv, TypeOK
<1>5. \A m \in Node : node'[m].key = node[m].key /\ (m # n => node'[m] = node[m])
  BY <1>2, <1>3, <1>4 DEF epoll_func
<1>6. \A i \in DOMAIN pools : Rooted(pools[i])' => Rooted(pools[i])
  BY <1>1, <1>2, <1>5 DEF Rooted
<1>7. \A i \in DOMAIN pools : Rooted(pools[i]) =>
         i >= pos /\ Due(pools[i]) /\ (isLast => i = pos)
  BY <1>1 DEF LastPassInv
<1>8. \A i \in DOMAIN pools : i # pos /\ Due(pools[i]) => Due(pools[i])'
  BY <1>1, <1>2, <1>3, <1>5 DEF Due
<1>9. CASE Due(n)
  <2>1. inside' /\ UNCHANGED <<pos, isLast, pc>>
    BY <1>9 DEF epoll_func
  <2> QED
    BY <1>1, <1>6, <1>7, <1>8, <2>1 DEF LastPassInv
<1>10. CASE ~ Due(n)
  <2>1. NextNode
    BY <1>10 DEF epoll_func
  <2>2. \A i \in DOMAIN pools : Rooted(pools[i])' => i # pos /\ i >= pos + 1 /\ Due(pools[i])' /\ ~ isLast
    <3> SUFFICES ASSUME NEW i \in DOMAIN pools, Rooted(pools[i])'
                 PROVE  i # pos /\ i >= pos + 1 /\ Due(pools[i])' /\ ~ isLast
      OBVIOUS
    <3>1. i >= pos /\ Due(pools[i]) /\ (isLast => i = pos)
      BY <1>6, <1>7
    <3>2. i # pos
      BY <1>10, <3>1
    <3>3. i >= pos + 1
      BY <1>2, <1>3, <3>1, <3>2
    <3> QED
      BY <1>8, <3>1, <3>2, <3>3
  <2>3. CASE isLast
    <3>1. pc' = "wait"
      BY <2>1, <2>3 DEF NextNode
    <3>2. ASSUME NEW m \in Node, Rooted(m)' PROVE FALSE
      <4>1. PICK i \in DOMAIN pools : pools[i] = m
        BY <1>1, <3>2, NodeListed DEF Rooted
      <4>2. Rooted(pools[i])'
        BY <1>1, <3>2, <4>1 DEF Rooted
      <4> QED
        BY <2>2, <2>3, <4>2
    <3> QED
      BY <3>1, <3>2 DEF LastPassInv
  <2>4. CASE ~ isLast
    <3>1. Arrive(pos + 1, pools')
      BY <1>1, <2>1, <2>4 DEF NextNode, Arrive
    <3>2. pos + 1 \in Nat \ {0}
      BY <1>3
    <3>3. \A i \in DOMAIN pools' : Rooted(pools[i])' => i >= pos + 1 /\ Due(pools[i])'
      BY <1>1, <2>2
    <3> QED
      BY <3>1, <3>2, <3>3, ArriveAhead
  <2> QED
    BY <2>3, <2>4
<1> QED
  BY <1>9, <1>10

(* The last pass over the nodes: every channel is stopped, and the node     *)
(* whose callback has run is freed.                                         *)
LEMMA LastReturn ==
    ASSUME Inv, Inv', StopInv, LastPassInv, epoll_return
    PROVE  LastPassInv'
<1> SUFFICES ASSUME ~ running
             PROVE  LastPassInv'
  BY DEF epoll_return, LastPassInv
<1> DEFINE n == pools[pos]
<1>1. /\ pc = "epoll" /\ inside /\ UNCHANGED <<tv, running>>
  BY DEF epoll_return
<1>2. /\ \A i, j \in DOMAIN pools : pools[i] = pools[j] => i = j
      /\ \A i \in DOMAIN pools : pools[i] \in Node /\ pools[i] \in heap
      /\ DOMAIN pools = 1 .. Len(pools) /\ Len(pools) \in Nat /\ pools \in Seq(Node)
  BY NodeListed DEF Inv, TypeOK
<1>3. pos \in DOMAIN pools /\ pos \in Nat \ {0}
  BY <1>1, <1>2 DEF Inv, PlaceInv, TypeOK
<1>4. state[node[n].key] = "STOPPED"
  <2>1. node[n].key \in Chn
    BY <1>2, <1>3 DEF Inv, TypeOK
  <2> QED
    BY <1>1, <2>1 DEF StopInv, EndInv, AllStopped
<1>5. /\ pools' = RemoveAt(pools, pos) /\ heap' = heap \ {n} /\ node' = node
      /\ IF isLast THEN pc' = "wait" ELSE Arrive(pos, pools')
  BY <1>4 DEF epoll_return, free_poll_node
<1>6. \A i \in DOMAIN pools : Rooted(pools[i]) =>
         i >= pos /\ (i = pos \/ Due(pools[i])) /\ (isLast => i = pos)
  BY <1>1 DEF LastPassInv
<1>7. CASE isLast
  <2>1. ASSUME NEW m \in Node, Rooted(m)' PROVE FALSE
    <3>1. m \in heap /\ m # n /\ Rooted(m)
      BY <1>5, <2>1 DEF Rooted
    <3>2. PICK i \in DOMAIN pools : pools[i] = m
      BY <3>1, NodeListed
    <3> QED
      BY <1>6, <1>7, <3>1, <3>2
  <2> QED
    BY <1>5, <1>7, <2>1 DEF LastPassInv
<1>8. CASE ~ isLast
  <2>1. /\ Len(pools') = Len(pools) - 1 /\ DOMAIN pools' = 1 .. Len(pools) - 1
        /\ \A i \in 1 .. Len(pools) - 1 : pools'[i] = IF i < pos THEN pools[i] ELSE pools[i + 1]
    <3>1. pos \in 1 .. Len(pools) /\ pools \in Seq(Node)
      BY <1>2, <1>3
    <3>2. /\ RemoveAt(pools, pos) \in Seq(Node)
          /\ Len(RemoveAt(pools, pos)) = Len(pools) - 1
          /\ \A i \in 1 .. Len(pools) - 1 :
                RemoveAt(pools, pos)[i] = IF i < pos THEN pools[i] ELSE pools[i + 1]
      BY <3>1, RemoveAtShape
    <3>3. DOMAIN RemoveAt(pools, pos) = 1 .. Len(pools) - 1
      BY <3>2, LenProperties
    <3> QED
      BY <1>5, <3>2, <3>3
  <2>2. ASSUME NEW i \in DOMAIN pools', Rooted(pools[i])'
        PROVE  i >= pos /\ Due(pools[i])'
    <3>1. i \in 1 .. Len(pools) - 1 /\ i \in DOMAIN pools /\ i + 1 \in DOMAIN pools
      BY <1>2, <2>1
    <3>2. Rooted(pools'[i])
      BY <1>5, <2>2 DEF Rooted
    <3>3. i >= pos
      <4>1. CASE i < pos
        <5>1. pools'[i] = pools[i]
          BY <2>1, <3>1, <4>1
        <5>2. i >= pos
          BY <1>6, <3>1, <3>2, <5>1
        <5> QED
          BY <5>2
      <4> QED
        BY <1>3, <3>1, <4>1
    <3>4. pools'[i] = pools[i + 1] /\ i + 1 # pos
      BY <1>3, <2>1, <3>1, <3>3
    <3>5. Due(pools'[i])
      BY <1>6, <3>1, <3>2, <3>4
    <3> QED
      BY <1>1, <1>5, <3>3, <3>5 DEF Due
  <2>3. Arrive(pos, pools')
    BY <1>5, <1>8
  <2> QED
    BY <1>3, <2>2, <2>3, ArriveAhead
<1> QED
  BY <1>7, <1>8

(* Once the loop is told to stop, no node is added, and the pass over the   *)
(* nodes is the last.                                                       *)
LEMMA LastStep ==
    ASSUME Inv, Inv', StopInv, StopInv', DueInv, LastPassInv, [Next]_vars
    PROVE  LastPassInv'
<1> SUFFICES ASSUME ~ running', pc' \notin {"start", "abort"}
             PROVE  LastPassInv'
  BY DEF LastPassInv
<1>1. CASE \/ pitcher_start \/ pitcher_start_end \/ stop_chn \/ pitcher_loop_add_task
           \/ timer_func \/ run_chn
  <2>1. pc' \in {"start", "abort"} \/ running'
    BY <1>1 DEF pitcher_start, pitcher_start_end, stop_chn, pitcher_loop_add_task, timer_func,
                run_chn, StopInv, EndInv
  <2> QED
    BY <2>1
<1>2. CASE \/ (\E d \in Chn : start_sink_chn(d) \/ pipe_push_back(d))
           \/ process_chn_active \/ process_chn_stopping
  <2>1. stack # <<>> /\ running' = running
    BY <1>2 DEF start_sink_chn, pipe_push_back, Pushes, process_chn_active,
                process_chn_stopping, Rest, loopVars
  <2> QED
    BY <2>1, RunningLoop
<1>3. CASE pre_process \/ epoll_wait \/ poll_func \/ poll_return \/ events_end
  <2>1. /\ pc \in {"pre", "wait", "events"} /\ pc' \in {"timer", "exit", "events", "pre"}
        /\ running' = running
    BY <1>3 DEF pre_process, epoll_wait, poll_func, poll_return, events_end
  <2>2. \A n \in Node : ~ Rooted(n)
    BY <2>1 DEF LastPassInv
  <2>3. node' = node /\ heap' \subseteq heap
    BY <1>3 DEF pre_process, epoll_wait, poll_func, poll_return, events_end, del_poll,
                free_poll_node, nodeVars
  <2> QED
    BY <2>1, <2>2, <2>3 DEF LastPassInv, Rooted
<1>4. CASE Tick \/ (\E c \in Chn : DeviceReady(c)) \/ Exited \/ UNCHANGED vars
  <2>1. UNCHANGED <<node, heap, pools, tv, pc, pos, inside, isLast, running>>
    BY <1>4 DEF Tick, DeviceReady, Exited, vars, nodeVars, timeVars, loopVars
  <2> QED
    BY <2>1 DEF LastPassInv, Rooted, Due
<1> QED
  BY <1>1, <1>2, <1>3, <1>4, LastTimer, LastEpoll, LastReturn DEF Next

-----------------------------------------------------------------------------
(* The loop is left with every channel stopped, whatever the interval: a    *)
(* timer pass that counts no living channel has visited each one, and a     *)
(* push that revives a channel behind it comes from a channel it still      *)
(* counts (core.c __timer_func, __run_chn).                                 *)
THEOREM LoopEndsStopped == Spec => [](pc = "exit" => AllStopped)
<1>1. Init => Inv /\ StopInv
  BY InitInv, InitEnding
<1>2. (Inv /\ StopInv) /\ [Next]_vars => (Inv /\ StopInv)'
  BY NextInv, EndingStep
<1>3. StopInv => (pc = "exit" => AllStopped)
  BY DEF StopInv, EndInv
<1> QED
  BY <1>1, <1>2, <1>3, PTL DEF Spec

(* With the interval of loop.c (LOOP_TIMEOUT_DEFAULT is 1) the loop is left *)
(* clean: the pass over the nodes that follows the last timer pass frees    *)
(* every node of the first start, because a node that is not younger than   *)
(* the timer is due when the timer is (loop.c __timer_func, __epoll_func).  *)
THEOREM LoopEndsClean == LOOP_TIMEOUT_DEFAULT = 1 => (Spec => []ExitClean)
<1> SUFFICES ASSUME LOOP_TIMEOUT_DEFAULT = 1
             PROVE  Spec => []ExitClean
  OBVIOUS
<1>1. Init => Inv /\ StopInv /\ LeftInv
  <2>1. Init => LeftInv
    BY DEF Init, LeftInv, AgeInv, DueInv, LastPassInv, Rooted
  <2> QED
    BY <2>1, InitInv, InitEnding
<1>2. (Inv /\ StopInv /\ LeftInv) /\ [Next]_vars => (Inv /\ StopInv /\ LeftInv)'
  <2> SUFFICES ASSUME Inv, StopInv, LeftInv, [Next]_vars
               PROVE  Inv' /\ StopInv' /\ LeftInv'
    OBVIOUS
  <2>1. Inv' /\ StopInv'
    BY NextInv, EndingStep
  <2>2. AgeInv /\ DueInv /\ LastPassInv
    BY DEF LeftInv
  <2>3. AgeInv' /\ DueInv'
    BY <2>1, <2>2, AgeStep, DueStep
  <2>4. LastPassInv'
    BY <2>1, <2>2, LastStep
  <2> QED
    BY <2>1, <2>3, <2>4 DEF LeftInv
<1>3. Inv /\ StopInv /\ LeftInv => ExitClean
  <2> SUFFICES ASSUME Inv, StopInv, LeftInv, pc = "exit"
               PROVE  AllStopped /\ \A n \in heap : Source[node[n].key] # None
    BY DEF ExitClean, AllStopped
  <2>1. ~ running /\ AllStopped
    BY DEF StopInv, EndInv
  <2>2. heap \subseteq Node
    BY DEF Inv, TypeOK
  <2> QED
    BY <2>1, <2>2 DEF LeftInv, LastPassInv, Rooted
<1> QED
  BY <1>1, <1>2, <1>3, PTL DEF Spec
=============================================================================
