---------------------------- MODULE PipeProofs ----------------------------
(***************************************************************************)
(* Proofs about the two parts of a pipe: its queue (pitcher/queue.c), for   *)
(* every number of nodes, every set of items and every QUEUE_IDLE_MAX_THD,  *)
(* and the frames it leaves out (pitcher/pipe.c), for every pair of rates.  *)
(***************************************************************************)
EXTENDS PitcherQueue, PipeSkip, SequenceTheorems, WellFoundedInduction, TLAPS

(* The inductive invariant. *)
IInv == TypeOK /\ NodesConserved /\ CountersExact /\ CursorValid

(* RemoveAt closes the gap: later elements move down by one. *)
LEMMA RemoveAtShape ==
  ASSUME NEW S, NEW s \in Seq(S), NEW k \in 1 .. Len(s)
  PROVE  /\ RemoveAt(s, k) \in Seq(S)
         /\ Len(RemoveAt(s, k)) = Len(s) - 1
         /\ \A i \in 1 .. Len(s) - 1 :
               RemoveAt(s, k)[i] = IF i < k THEN s[i] ELSE s[i + 1]
<1> DEFINE a == SubSeq(s, 1, k - 1)
           z == SubSeq(s, k + 1, Len(s))
<1>1. /\ k \in Int /\ k >= 1 /\ k <= Len(s) /\ Len(s) \in Nat
      /\ k - 1 \in Int /\ k + 1 \in Int
      /\ \A i \in 1 .. Len(s) : s[i] \in S
  OBVIOUS
<1>2. /\ a \in Seq(S) /\ Len(a) = k - 1
      /\ \A i \in 1 .. k - 1 : a[i] = s[i]
  <2>1. \A i \in 1 .. k - 1 : s[i] \in S
    BY <1>1
  <2>2. /\ a \in Seq(S)
        /\ Len(a) = IF 1 <= k - 1 THEN (k - 1) - 1 + 1 ELSE 0
        /\ \A i \in 1 .. (k - 1) - 1 + 1 : a[i] = s[1 + i - 1]
    BY <1>1, <2>1, SubSeqProperties
  <2> HIDE DEF a
  <2>3. Len(a) = k - 1
    BY <2>2, <1>1
  <2>4. ASSUME NEW i \in 1 .. k - 1 PROVE a[i] = s[i]
    <3>1. (k - 1) - 1 + 1 = k - 1 /\ 1 + i - 1 = i
      BY <1>1
    <3> QED BY <3>1, <2>2
  <2> QED BY <2>2, <2>3, <2>4
<1>3. /\ z \in Seq(S) /\ Len(z) = Len(s) - k
      /\ \A i \in 1 .. Len(s) - k : z[i] = s[k + i]
  <2>1. \A i \in k + 1 .. Len(s) : s[i] \in S
    BY <1>1
  <2>2. /\ z \in Seq(S)
        /\ Len(z) = IF k + 1 <= Len(s) THEN Len(s) - (k + 1) + 1 ELSE 0
        /\ \A i \in 1 .. Len(s) - (k + 1) + 1 : z[i] = s[(k + 1) + i - 1]
    BY <1>1, <2>1, SubSeqProperties
  <2> HIDE DEF z
  <2> QED BY <2>2, <1>1
<1>4. /\ a \o z \in Seq(S)
      /\ Len(a \o z) = Len(a) + Len(z)
      /\ \A i \in 1 .. Len(a) + Len(z) :
            (a \o z)[i] = IF i <= Len(a) THEN a[i] ELSE z[i - Len(a)]
  BY <1>2, <1>3, ConcatProperties
<1>5. RemoveAt(s, k) = a \o z
  BY DEF RemoveAt
<1> HIDE DEF a, z
<1>6. ASSUME NEW i \in 1 .. Len(s) - 1
      PROVE  (a \o z)[i] = IF i < k THEN s[i] ELSE s[i + 1]
  <2>1. CASE i < k
    BY <2>1, <1>1, <1>2, <1>3, <1>4
  <2>2. CASE i >= k
    <3>1. (a \o z)[i] = z[i - (k - 1)]
      BY <2>2, <1>1, <1>2, <1>3, <1>4
    <3>2. i - (k - 1) \in 1 .. Len(s) - k /\ k + (i - (k - 1)) = i + 1
      BY <2>2, <1>1
    <3>3. z[i - (k - 1)] = s[i + 1]
      <4>1. z[i - (k - 1)] = s[k + (i - (k - 1))]
        BY <3>2, <1>3
      <4> QED BY <4>1, <3>2
    <3>4. ~(i < k)
      BY <2>2, <1>1
    <3> QED BY <3>1, <3>3, <3>4
  <2>3. i < k \/ i >= k
    BY <1>1
  <2> QED BY <2>1, <2>2, <2>3
<1>7. Len(a \o z) = Len(s) - 1
  BY <1>1, <1>2, <1>3, <1>4
<1> QED BY <1>4, <1>5, <1>6, <1>7

(* Removing one position of a list without repetitions removes that node    *)
(* and nothing else.                                                        *)
LEMMA RemoveAtDistinct ==
  ASSUME NEW S, NEW s \in Seq(S), NEW k \in 1 .. Len(s), Distinct(s)
  PROVE  /\ Distinct(RemoveAt(s, k))
         /\ ToSet(RemoveAt(s, k)) = ToSet(s) \ {s[k]}
<1> DEFINE r == RemoveAt(s, k)
<1>1. /\ r \in Seq(S) /\ Len(r) = Len(s) - 1
      /\ \A i \in 1 .. Len(s) - 1 : r[i] = IF i < k THEN s[i] ELSE s[i + 1]
  BY RemoveAtShape
<1>2. DOMAIN r = 1 .. Len(s) - 1 /\ DOMAIN s = 1 .. Len(s)
  BY <1>1
<1> HIDE DEF r
<1> DEFINE from(i) == IF i < k THEN i ELSE i + 1
<1>0. \A i \in 1 .. Len(s) - 1 :
         from(i) \in (1 .. Len(s)) \ {k} /\ r[i] = s[from(i)]
  BY <1>1
<1>3. Distinct(r)
  <2> SUFFICES ASSUME NEW i \in 1 .. Len(s) - 1, NEW j \in 1 .. Len(s) - 1, r[i] = r[j]
               PROVE  i = j
    BY <1>2 DEF Distinct
  <2>1. s[from(i)] = s[from(j)] /\ from(i) \in 1 .. Len(s) /\ from(j) \in 1 .. Len(s)
    BY <1>0
  <2>2. from(i) = from(j)
    BY <2>1, <1>2 DEF Distinct
  <2> QED BY <2>2
<1>4. ToSet(r) \subseteq ToSet(s) \ {s[k]}
  <2> SUFFICES ASSUME NEW i \in 1 .. Len(s) - 1
               PROVE  r[i] \in ToSet(s) \ {s[k]}
    BY <1>2 DEF ToSet
  <2>1. from(i) \in 1 .. Len(s) /\ from(i) # k /\ r[i] = s[from(i)]
    BY <1>0
  <2> HIDE DEF from
  <2> QED BY <2>1, <1>2 DEF Distinct, ToSet
<1>5. ASSUME NEW i \in 1 .. Len(s), i # k
      PROVE  s[i] \in ToSet(r)
  <2>1. CASE i < k
    <3>1. i \in 1 .. Len(s) - 1 /\ r[i] = s[i]
      BY <1>1, <2>1
    <3> QED BY <3>1, <1>2 DEF ToSet
  <2>2. CASE i > k
    <3>1. i - 1 \in 1 .. Len(s) - 1 /\ r[i - 1] = s[i]
      BY <1>1, <2>2
    <3> QED BY <3>1, <1>2 DEF ToSet
  <2> QED BY <2>1, <2>2, <1>5
<1>6. ToSet(s) \ {s[k]} \subseteq ToSet(r)
  BY <1>5, <1>2 DEF ToSet
<1> QED BY <1>3, <1>4, <1>6 DEF r

(* The position of a node of the list. *)
LEMMA PositionOf ==
  ASSUME NEW S, NEW s \in Seq(S), NEW n \in ToSet(s)
  PROVE  Position(s, n) \in 1 .. Len(s) /\ s[Position(s, n)] = n
  BY DEF Position, ToSet

LEMMA AppendDistinct ==
  ASSUME NEW S, NEW s \in Seq(S), NEW n \in S, n \notin ToSet(s), Distinct(s)
  PROVE  /\ Append(s, n) \in Seq(S) /\ Len(Append(s, n)) = Len(s) + 1
         /\ Distinct(Append(s, n)) /\ ToSet(Append(s, n)) = ToSet(s) \cup {n}
<1>1. /\ Append(s, n) \in Seq(S) /\ Len(Append(s, n)) = Len(s) + 1
      /\ \A i \in 1 .. Len(s) : Append(s, n)[i] = s[i]
      /\ Append(s, n)[Len(s) + 1] = n
      /\ DOMAIN Append(s, n) = 1 .. Len(s) + 1 /\ DOMAIN s = 1 .. Len(s)
  OBVIOUS
<1>2. Distinct(Append(s, n))
  BY <1>1 DEF Distinct, ToSet
<1>3. ToSet(Append(s, n)) = ToSet(s) \cup {n}
  BY <1>1 DEF ToSet
<1> QED BY <1>1, <1>2, <1>3

LEMMA TailDistinct ==
  ASSUME NEW S, NEW s \in Seq(S), s # <<>>, Distinct(s)
  PROVE  /\ Head(s) \in ToSet(s)
         /\ Tail(s) \in Seq(S) /\ Len(Tail(s)) = Len(s) - 1
         /\ Distinct(Tail(s)) /\ ToSet(Tail(s)) = ToSet(s) \ {Head(s)}
<1>1. /\ Tail(s) \in Seq(S) /\ Len(Tail(s)) = Len(s) - 1 /\ Len(s) \in Nat \ {0}
      /\ \A i \in 1 .. Len(s) - 1 : Tail(s)[i] = s[i + 1]
      /\ DOMAIN Tail(s) = 1 .. Len(s) - 1 /\ DOMAIN s = 1 .. Len(s)
      /\ Head(s) = s[1]
  OBVIOUS
<1>2. Distinct(Tail(s)) /\ Head(s) \in ToSet(s)
  BY <1>1 DEF Distinct, ToSet
<1>3. ToSet(Tail(s)) \subseteq ToSet(s) \ {Head(s)}
  BY <1>1 DEF Distinct, ToSet
<1>4. ASSUME NEW i \in 2 .. Len(s) PROVE s[i] \in ToSet(Tail(s))
  <2>1. i - 1 \in 1 .. Len(s) - 1 /\ Tail(s)[i - 1] = s[i]
    BY <1>1
  <2> QED BY <2>1, <1>1 DEF ToSet
<1>5. ToSet(s) \ {Head(s)} \subseteq ToSet(Tail(s))
  BY <1>1, <1>4 DEF ToSet
<1> QED BY <1>1, <1>2, <1>3, <1>5

-----------------------------------------------------------------------------
(* Taking a node off the queue, wherever it stands. *)
LEMMA RemoveNode ==
  ASSUME queue \in Seq(Node), Distinct(queue), count = Len(queue),
         NEW n \in ToSet(queue), remove_queue_node(n)
  PROVE  /\ queue' \in Seq(Node) /\ Distinct(queue')
         /\ ToSet(queue') = ToSet(queue) \ {n}
         /\ count' \in Nat /\ count' = Len(queue')
<1> DEFINE p == Position(queue, n)
<1>1. p \in 1 .. Len(queue) /\ queue[p] = n
  BY PositionOf
<1>2. queue' = RemoveAt(queue, p) /\ count' = count - 1
  BY DEF remove_queue_node
<1> HIDE DEF p
<1>3. queue' \in Seq(Node) /\ Len(queue') = Len(queue) - 1
  BY <1>1, <1>2, RemoveAtShape
<1>4. Distinct(queue') /\ ToSet(queue') = ToSet(queue) \ {n}
  BY <1>1, <1>2, RemoveAtDistinct
<1> QED BY <1>1, <1>2, <1>3, <1>4

(* A node handed back ends up in the pool or on the heap, never in limbo. *)
LEMMA PutIdleNode ==
  ASSUME idles \in Seq(Node), Distinct(idles), idle_num = Len(idles),
         idle_num <= QUEUE_IDLE_MAX_THD,
         NEW n \in Node, n \notin ToSet(idles), put_idle_node(n)
  PROVE  /\ idles' \in Seq(Node) /\ Distinct(idles')
         /\ idle_num' \in Nat /\ idle_num' = Len(idles')
         /\ idle_num' <= QUEUE_IDLE_MAX_THD
         /\ \/ ToSet(idles') = ToSet(idles) \cup {n} /\ heap' = heap
            \/ ToSet(idles') = ToSet(idles) /\ heap' = heap \ {n}
<1>1. CASE idle_num < QUEUE_IDLE_MAX_THD
  <2>1. idles' = Append(idles, n) /\ idle_num' = idle_num + 1 /\ heap' = heap
    BY <1>1 DEF put_idle_node
  <2>2. /\ idles' \in Seq(Node) /\ Len(idles') = Len(idles) + 1
        /\ Distinct(idles') /\ ToSet(idles') = ToSet(idles) \cup {n}
    BY <2>1, AppendDistinct
  <2> QED BY <1>1, <2>1, <2>2, QueueAssumption
<1>2. CASE ~ (idle_num < QUEUE_IDLE_MAX_THD)
  <2>1. idles' = idles /\ idle_num' = idle_num /\ heap' = heap \ {n}
    BY <1>2 DEF put_idle_node
  <2>2. idle_num \in Nat
    OBVIOUS
  <2> QED BY <2>1, <2>2
<1> QED BY <1>1, <1>2

(* Where the iteration stands after pos = n; n = next(n). *)
LEMMA Advance ==
  ASSUME NEW q \in Seq(Node), NEW n \in ToSet(q),
         NEW op \in {"enumerate", "clear"}
  PROVE  /\ advance(op, q, n).op = op /\ advance(op, q, n).node = n
         /\ advance(op, q, n) \in [op : {"none", "enumerate", "clear"},
                                   node : Node \cup {ListHead},
                                   tmp : Node \cup {ListHead}]
         /\ LET p == Position(q, n)
            IN  /\ p \in 1 .. Len(q) /\ q[p] = n
                /\ advance(op, q, n).tmp = IF p < Len(q) THEN q[p + 1] ELSE ListHead
<1> DEFINE p == Position(q, n)
<1>1. p \in 1 .. Len(q) /\ q[p] = n
  BY PositionOf
<1>2. n \in Node /\ n # ListHead
  BY <1>1, QueueAssumption
<1>3. advance(op, q, n) = [op |-> op, node |-> n, tmp |-> NextOf(q, n)]
  BY <1>2 DEF advance
<1>4. NextOf(q, n) = IF p < Len(q) THEN q[p + 1] ELSE ListHead
  BY DEF NextOf
<1> HIDE DEF p
<1>5. NextOf(q, n) \in Node \cup {ListHead}
  BY <1>1, <1>4
<1> QED BY <1>1, <1>2, <1>3, <1>4, <1>5 DEF p

-----------------------------------------------------------------------------
IterType == [op : {"none", "enumerate", "clear"},
             node : Node \cup {ListHead}, tmp : Node \cup {ListHead}]

LEMMA NoIterType == NoIter \in IterType /\ NoIter.op = "none"
  BY DEF NoIter, IterType

(* The head of a list without repetitions is found at position 1. *)
LEMMA HeadPosition ==
  ASSUME NEW q \in Seq(Node), q # <<>>, Distinct(q)
  PROVE  Head(q) \in ToSet(q) /\ Position(q, Head(q)) = 1
<1>1. 1 \in DOMAIN q /\ Head(q) = q[1]
  OBVIOUS
<1>2. Head(q) \in ToSet(q)
  BY <1>1 DEF ToSet
<1>3. Position(q, Head(q)) \in DOMAIN q /\ q[Position(q, Head(q))] = Head(q)
  BY <1>2, PositionOf
<1> QED BY <1>1, <1>2, <1>3 DEF Distinct

(* One step of clear: the head leaves the list and tmp is the new head. *)
LEMMA TakeHead ==
  ASSUME queue \in Seq(Node), Distinct(queue), count = Len(queue), queue # <<>>,
         remove_queue_node(Head(queue)), it' = advance("clear", queue, Head(queue))
  PROVE  /\ it' \in IterType /\ it'.op = "clear" /\ it'.node = Head(queue)
         /\ it'.tmp = IF queue' = <<>> THEN ListHead ELSE Head(queue')
<1> DEFINE h == Head(queue)
<1>1. h \in ToSet(queue) /\ Position(queue, h) = 1
  BY HeadPosition
<1>2. /\ it'.op = "clear" /\ it'.node = h /\ it' \in IterType
      /\ it'.tmp = IF 1 < Len(queue) THEN queue[1 + 1] ELSE ListHead
  BY <1>1, Advance DEF IterType
<1>3. queue' = RemoveAt(queue, 1)
  BY <1>1 DEF remove_queue_node
<1>4. 1 \in 1 .. Len(queue) /\ Len(queue) \in Nat
  OBVIOUS
<1>5. /\ queue' \in Seq(Node) /\ Len(queue') = Len(queue) - 1
      /\ \A i \in 1 .. Len(queue) - 1 :
            queue'[i] = IF i < 1 THEN queue[i] ELSE queue[i + 1]
  BY <1>3, <1>4, RemoveAtShape
<1>6. CASE Len(queue) = 1
  BY <1>2, <1>5, <1>6
<1>7. CASE Len(queue) > 1
  <2>1. queue' # <<>> /\ Head(queue') = queue'[1] /\ queue'[1] = queue[2]
    BY <1>5, <1>7, <1>4
  <2> QED BY <2>1, <1>2, <1>7
<1> QED BY <1>2, <1>4, <1>6, <1>7

(* Appending moves neither the position of the pass nor its successor. *)
LEMMA PushKeepsInv ==
  ASSUME IInv, NEW i \in Item, pitcher_queue_push_back(i)
  PROVE  IInv'
<1> USE DEF IInv, TypeOK, NodesConserved, CountersExact
<1>1. PICK n \in Node : /\ get_idle_node(n)
                        /\ queue' = Append(queue, n)
                        /\ item' = [item EXCEPT ![n] = i]
  BY DEF pitcher_queue_push_back
<1>2. /\ count' = count + 1 /\ it' = it /\ out' = out /\ live' = live
      /\ it.op # "clear" /\ Held = {} /\ Held' = {}
  BY DEF pitcher_queue_push_back, Held
<1>3. /\ n \notin ToSet(queue)
      /\ idles' \in Seq(Node) /\ Distinct(idles') /\ idle_num' \in Nat
      /\ idle_num' = Len(idles') /\ idle_num' <= QUEUE_IDLE_MAX_THD
      /\ n \notin ToSet(idles') /\ ToSet(idles') \subseteq ToSet(idles)
      /\ heap' = heap \cup {n} /\ heap \ (ToSet(queue) \cup {n}) = ToSet(idles') \ {n}
  <2>1. CASE idles = <<>>
    <3>1. ToSet(idles) = {}
      BY <2>1 DEF ToSet
    <3> QED BY <3>1, <2>1, <1>1, <1>2 DEF get_idle_node
  <2>2. CASE idles # <<>>
    <3>1. n = Head(idles) /\ idles' = Tail(idles) /\ idle_num' = idle_num - 1 /\ heap' = heap
      BY <2>2, <1>1 DEF get_idle_node
    <3>2. /\ Head(idles) \in ToSet(idles) /\ Tail(idles) \in Seq(Node)
          /\ Len(Tail(idles)) = Len(idles) - 1 /\ Distinct(Tail(idles))
          /\ ToSet(Tail(idles)) = ToSet(idles) \ {Head(idles)}
      BY <2>2, TailDistinct
    <3>3. n \notin ToSet(queue) /\ n \in heap
      BY <3>1, <3>2
    <3>4. idle_num' \in Nat /\ idle_num' = Len(idles') /\ idle_num' <= QUEUE_IDLE_MAX_THD
      BY <3>1, <3>2, <2>2, QueueAssumption
    <3>5. heap = ToSet(queue) \cup ToSet(idles)
      BY <1>2
    <3> QED BY <3>1, <3>2, <3>3, <3>4, <3>5
  <2> QED BY <2>1, <2>2
<1>4. /\ queue' \in Seq(Node) /\ Len(queue') = Len(queue) + 1
      /\ Distinct(queue') /\ ToSet(queue') = ToSet(queue) \cup {n}
  BY <1>1, <1>3, AppendDistinct
<1>5. TypeOK'
  BY <1>1, <1>2, <1>3, <1>4
<1>6. NodesConserved'
  BY <1>2, <1>3, <1>4
<1>7. CountersExact'
  BY <1>2, <1>3, <1>4
<1>8. CursorValid'
  <2>1. SUFFICES ASSUME it.op = "enumerate"
                 PROVE  \E k \in DOMAIN queue' :
                          /\ queue'[k] = it.node
                          /\ \/ it.tmp = ListHead
                             \/ k < Len(queue') /\ it.tmp = queue'[k + 1]
    BY <1>2 DEF CursorValid
  <2>2. PICK k \in DOMAIN queue : /\ queue[k] = it.node
                                  /\ \/ it.tmp = ListHead
                                     \/ k < Len(queue) /\ it.tmp = queue[k + 1]
    BY <2>1 DEF CursorValid
  <2>3. /\ k \in DOMAIN queue' /\ queue'[k] = queue[k]
        /\ k < Len(queue) => k < Len(queue') /\ queue'[k + 1] = queue[k + 1]
    BY <1>1
  <2> QED BY <2>2, <2>3
<1> QED BY <1>5, <1>6, <1>7, <1>8

(* Removing a queued node outside any pass: pop and find. *)
LEMMA RemoveKeepsInv ==
  ASSUME IInv, it.op = "none", it' = it, out' \in Item, item' = item,
         live' = live, NEW n \in ToSet(queue),
         remove_queue_node(n), put_idle_node(n)
  PROVE  IInv'
<1> USE DEF IInv, TypeOK, NodesConserved, CountersExact
<1>1. /\ queue' \in Seq(Node) /\ Distinct(queue')
      /\ ToSet(queue') = ToSet(queue) \ {n}
      /\ count' \in Nat /\ count' = Len(queue')
  BY RemoveNode
<1>2. n \in Node /\ n \notin ToSet(idles) /\ Held = {} /\ Held' = {}
  BY DEF ToSet, Held
<1>3. /\ idles' \in Seq(Node) /\ Distinct(idles')
      /\ idle_num' \in Nat /\ idle_num' = Len(idles')
      /\ idle_num' <= QUEUE_IDLE_MAX_THD
      /\ \/ ToSet(idles') = ToSet(idles) \cup {n} /\ heap' = heap
         \/ ToSet(idles') = ToSet(idles) /\ heap' = heap \ {n}
  BY <1>2, PutIdleNode
<1>4. TypeOK' /\ CountersExact'
  BY <1>1, <1>3
<1>5. NodesConserved'
  BY <1>1, <1>2, <1>3
<1> QED BY <1>4, <1>5 DEF CursorValid

(* The callback of a pass returns: the saved successor is still queued, also *)
(* when the node of the pass is taken off the list.                         *)
LEMMA EnumerateKeepsInv ==
  ASSUME IInv, NEW rm \in BOOLEAN, enumerate_return(rm)
  PROVE  IInv'
<1> USE DEF IInv, TypeOK, NodesConserved, CountersExact
<1>1. /\ it.op = "enumerate" /\ Held = {}
      /\ it' = advance("enumerate", queue', it.tmp)
      /\ out' = (IF it.tmp = ListHead THEN out ELSE item[it.tmp])
      /\ item' = item /\ live' = live
  BY DEF enumerate_return, Held
<1>2. PICK k \in DOMAIN queue : /\ queue[k] = it.node
                                /\ \/ it.tmp = ListHead
                                   \/ k < Len(queue) /\ it.tmp = queue[k + 1]
  BY <1>1 DEF CursorValid
<1>3. it.node \in ToSet(queue) /\ it.node \in Node /\ it.node \notin ToSet(idles)
  BY <1>2 DEF ToSet
<1>4. /\ queue' \in Seq(Node) /\ Distinct(queue')
      /\ count' \in Nat /\ count' = Len(queue')
      /\ idles' \in Seq(Node) /\ Distinct(idles')
      /\ idle_num' \in Nat /\ idle_num' = Len(idles')
      /\ idle_num' <= QUEUE_IDLE_MAX_THD /\ heap' \subseteq Node
      /\ ToSet(queue') \cap ToSet(idles') = {}
      /\ heap' = ToSet(queue') \cup ToSet(idles')
      /\ ToSet(queue) \ {it.node} \subseteq ToSet(queue')
  <2>1. CASE rm
    <3>1. remove_queue_node(it.node) /\ put_idle_node(it.node)
      BY <2>1 DEF enumerate_return
    <3>2. /\ queue' \in Seq(Node) /\ Distinct(queue')
          /\ ToSet(queue') = ToSet(queue) \ {it.node}
          /\ count' \in Nat /\ count' = Len(queue')
      BY <3>1, <1>3, RemoveNode
    <3>3. /\ idles' \in Seq(Node) /\ Distinct(idles')
          /\ idle_num' \in Nat /\ idle_num' = Len(idles')
          /\ idle_num' <= QUEUE_IDLE_MAX_THD
          /\ \/ ToSet(idles') = ToSet(idles) \cup {it.node} /\ heap' = heap
             \/ ToSet(idles') = ToSet(idles) /\ heap' = heap \ {it.node}
      BY <3>1, <1>3, PutIdleNode
    <3> QED BY <3>2, <3>3, <1>1, <1>3
  <2>2. CASE ~ rm
    <3>1. UNCHANGED <<queue, count, idles, idle_num, heap>>
      BY <2>2 DEF enumerate_return
    <3> QED BY <3>1, <1>1
  <2> QED BY <2>1, <2>2
<1>5. CASE it.tmp = ListHead
  <2>1. it' = NoIter /\ out' = out
    BY <1>1, <1>5 DEF advance
  <2>2. it' \in IterType /\ it'.op = "none" /\ Held' = {}
    BY <2>1, NoIterType DEF Held
  <2> QED BY <2>1, <2>2, <1>1, <1>4 DEF IterType, CursorValid
<1>6. CASE it.tmp # ListHead
  <2>1. k + 1 \in DOMAIN queue /\ it.tmp = queue[k + 1] /\ it.tmp # it.node
    BY <1>2, <1>6 DEF Distinct
  <2>2. it.tmp \in ToSet(queue')
    BY <2>1, <1>4 DEF ToSet
  <2>3. /\ it'.op = "enumerate" /\ it'.node = it.tmp /\ it' \in IterType
        /\ LET p == Position(queue', it.tmp)
           IN  /\ p \in 1 .. Len(queue') /\ queue'[p] = it.tmp
               /\ it'.tmp = IF p < Len(queue') THEN queue'[p + 1] ELSE ListHead
    BY <1>1, <1>4, <2>2, Advance DEF IterType
  <2>4. Held' = {} /\ out' \in Item
    BY <2>3, <2>1, <1>1, <1>6 DEF Held
  <2>5. CursorValid'
    BY <2>3, <1>4 DEF CursorValid
  <2> QED BY <2>3, <2>4, <2>5, <1>1, <1>4 DEF IterType
<1> QED BY <1>5, <1>6

LEMMA ClearBeginKeepsInv ==
  ASSUME IInv, clear_begin
  PROVE  IInv'
<1> USE DEF IInv, TypeOK, NodesConserved, CountersExact
<1> DEFINE h == Head(queue)
<1>1. /\ it.op = "none" /\ queue # <<>> /\ Held = {}
      /\ it' = advance("clear", queue, h) /\ remove_queue_node(h)
      /\ out' = item[h]
      /\ UNCHANGED <<idles, idle_num, item, heap, live>>
  BY DEF clear_begin, Held
<1>2. h \in ToSet(queue) /\ h \in Node
  BY <1>1, HeadPosition
<1>3. /\ it' \in IterType /\ it'.op = "clear" /\ it'.node = h
      /\ it'.tmp = IF queue' = <<>> THEN ListHead ELSE Head(queue')
  BY <1>1, TakeHead
<1>4. /\ queue' \in Seq(Node) /\ Distinct(queue')
      /\ ToSet(queue') = ToSet(queue) \ {h}
      /\ count' \in Nat /\ count' = Len(queue')
  BY <1>1, <1>2, RemoveNode
<1>5. Held' = {h}
  BY <1>3 DEF Held
<1> HIDE DEF h
<1> QED BY <1>1, <1>2, <1>3, <1>4, <1>5 DEF IterType, CursorValid

LEMMA ClearReturnKeepsInv ==
  ASSUME IInv, clear_return
  PROVE  IInv'
<1> USE DEF IInv, TypeOK, NodesConserved, CountersExact
<1>1. /\ it.op = "clear" /\ Held = {it.node} /\ it.node \in Node
      /\ it.tmp = (IF queue = <<>> THEN ListHead ELSE Head(queue))
      /\ put_idle_node(it.node) /\ item' = item /\ live' = live
      /\ it' = advance("clear", queue, it.tmp)
  BY DEF clear_return, Held, CursorValid
<1>2. it.node \notin ToSet(queue) /\ it.node \notin ToSet(idles) /\ it.node \in heap
  BY <1>1
<1>3. /\ idles' \in Seq(Node) /\ Distinct(idles')
      /\ idle_num' \in Nat /\ idle_num' = Len(idles')
      /\ idle_num' <= QUEUE_IDLE_MAX_THD
      /\ \/ ToSet(idles') = ToSet(idles) \cup {it.node} /\ heap' = heap
         \/ ToSet(idles') = ToSet(idles) /\ heap' = heap \ {it.node}
  BY <1>1, <1>2, PutIdleNode
<1>4. CASE queue = <<>>
  <2>1. it' = NoIter /\ UNCHANGED <<queue, count, out>>
    BY <1>1, <1>4 DEF advance, clear_return
  <2>2. it' \in IterType /\ it'.op = "none" /\ Held' = {}
    BY <2>1, NoIterType DEF Held
  <2> QED BY <2>1, <2>2, <1>1, <1>2, <1>3 DEF IterType, CursorValid
<1>5. CASE queue # <<>>
  <2> DEFINE h == Head(queue)
  <2>1. h \in ToSet(queue) /\ h \in Node /\ h # ListHead
    BY <1>5, HeadPosition, QueueAssumption
  <2>2. /\ remove_queue_node(h) /\ it' = advance("clear", queue, h)
        /\ out' = item[h] /\ it.tmp = h
    BY <1>1, <1>5, <2>1 DEF clear_return
  <2>3. /\ it' \in IterType /\ it'.op = "clear" /\ it'.node = h
        /\ it'.tmp = IF queue' = <<>> THEN ListHead ELSE Head(queue')
    BY <1>5, <2>2, TakeHead
  <2>4. /\ queue' \in Seq(Node) /\ Distinct(queue')
        /\ ToSet(queue') = ToSet(queue) \ {h}
        /\ count' \in Nat /\ count' = Len(queue')
    BY <2>1, <2>2, RemoveNode
  <2>5. Held' = {h}
    BY <2>3 DEF Held
  <2> HIDE DEF h
  <2>6. TypeOK' /\ CountersExact' /\ CursorValid'
    BY <1>1, <1>3, <2>1, <2>2, <2>3, <2>4 DEF IterType, CursorValid
  <2>7. NodesConserved'
    BY <1>1, <1>2, <1>3, <2>1, <2>4, <2>5
  <2> QED BY <2>6, <2>7
<1> QED BY <1>4, <1>5

LEMMA DestroyKeepsInv ==
  ASSUME IInv, pitcher_destroy_queue
  PROVE  IInv'
<1> USE DEF IInv, TypeOK, NodesConserved, CountersExact
<1>1. /\ queue' = <<>> /\ idles' = <<>> /\ count' = 0 /\ idle_num' = 0
      /\ it.op = "none" /\ it' = it /\ live' = FALSE /\ item' = item /\ out' = out
      /\ heap' = {}
  BY DEF pitcher_destroy_queue, Held
<1>2. ToSet(queue') = {} /\ ToSet(idles') = {} /\ Held' = {} /\ DOMAIN queue' = {}
  BY <1>1 DEF ToSet, Held
<1>3. TypeOK'
  <2>1. <<>> \in Seq(Node)
    OBVIOUS
  <2>2. live' \in BOOLEAN
    BY <1>1
  <2>3. TypeOK
    OBVIOUS
  <2>4. /\ queue' \in Seq(Node) /\ idles' \in Seq(Node)
        /\ count' \in Nat /\ idle_num' \in Nat /\ heap' \subseteq Node
    BY <1>1, <2>1
  <2> QED BY <2>2, <2>3, <2>4, <1>1
<1>4. Distinct(queue') /\ Distinct(idles')
  BY <1>1 DEF Distinct
<1>5. NodesConserved' /\ CountersExact'
  BY <1>1, <1>2, <1>4, QueueAssumption
<1>6. CursorValid'
  BY <1>1 DEF CursorValid
<1> QED BY <1>3, <1>5, <1>6

(* Every operation of queue.c keeps the lists, the counters and the saved    *)
(* successor of a running pass consistent.                                  *)
THEOREM QueueInvariant == Spec => []IInv
<1>1. pitcher_init_queue => IInv
  <2> SUFFICES ASSUME pitcher_init_queue PROVE IInv
    OBVIOUS
  <2>1. ToSet(queue) = {} /\ ToSet(idles) = {} /\ Held = {} /\ it \in IterType
    BY NoIterType DEF pitcher_init_queue, ToSet, Held
  <2>2. TypeOK
    BY <2>1 DEF pitcher_init_queue, TypeOK, IterType
  <2>3. NodesConserved /\ CountersExact
    BY <2>1, QueueAssumption DEF pitcher_init_queue, NodesConserved, CountersExact, Distinct
  <2>4. CursorValid
    BY NoIterType DEF pitcher_init_queue, CursorValid
  <2> QED BY <2>2, <2>3, <2>4 DEF IInv
<1>2. IInv /\ [Next]_vars => IInv'
  <2> SUFFICES ASSUME IInv, [Next]_vars PROVE IInv'
    OBVIOUS
  <2>1. ASSUME NEW i \in Item, pitcher_queue_push_back(i) PROVE IInv'
    BY <2>1, PushKeepsInv
  <2>2. CASE pitcher_queue_pop
    <3>1. Head(queue) \in ToSet(queue) /\ item[Head(queue)] \in Item
      BY <2>2, HeadPosition DEF pitcher_queue_pop, IInv, NodesConserved, TypeOK
    <3> QED BY <2>2, <3>1, RemoveKeepsInv DEF pitcher_queue_pop
  <2>3. CASE enumerate_begin
    <3>1. /\ queue \in Seq(Node) /\ queue # <<>> /\ Distinct(queue)
          /\ Head(queue) \in ToSet(queue) /\ item[Head(queue)] \in Item
      BY <2>3, HeadPosition DEF enumerate_begin, IInv, NodesConserved, TypeOK
    <3>2. /\ it'.op = "enumerate" /\ it'.node = Head(queue) /\ it' \in IterType
          /\ LET p == Position(queue, Head(queue))
             IN  /\ p \in 1 .. Len(queue) /\ queue[p] = Head(queue)
                 /\ it'.tmp = IF p < Len(queue) THEN queue[p + 1] ELSE ListHead
      BY <2>3, <3>1, Advance DEF enumerate_begin, IterType
    <3>3. TypeOK' /\ CountersExact'
      BY <2>3, <3>1, <3>2 DEF enumerate_begin, IInv, TypeOK, CountersExact, IterType
    <3>4. NodesConserved'
      BY <2>3, <3>2 DEF enumerate_begin, IInv, NodesConserved, Held
    <3>5. CursorValid'
      BY <2>3, <3>1, <3>2 DEF enumerate_begin, CursorValid
    <3> QED BY <3>3, <3>4, <3>5 DEF IInv
  <2>4. ASSUME NEW rm \in BOOLEAN, enumerate_return(rm) PROVE IInv'
    BY <2>4, EnumerateKeepsInv
  <2>5. CASE clear_begin
    BY <2>5, ClearBeginKeepsInv
  <2>6. CASE clear_return
    BY <2>6, ClearReturnKeepsInv
  <2>7. ASSUME NEW i \in Item, NEW rm \in BOOLEAN, pitcher_queue_find(i, rm)
        PROVE  IInv'
    <3>1. PICK k \in DOMAIN queue :
            IF rm
            THEN remove_queue_node(queue[k]) /\ put_idle_node(queue[k])
            ELSE UNCHANGED <<queue, count, idles, idle_num, heap>>
      BY <2>7 DEF pitcher_queue_find
    <3>2. it.op = "none" /\ out' = i /\ UNCHANGED <<item, it, live>>
      BY <2>7 DEF pitcher_queue_find
    <3>3. CASE rm
      <4>1. queue[k] \in ToSet(queue)
        BY DEF ToSet
      <4> QED BY <3>1, <3>2, <3>3, <4>1, RemoveKeepsInv
    <3>4. CASE ~ rm
      BY <3>1, <3>2, <3>4
      DEF IInv, TypeOK, NodesConserved, CountersExact, CursorValid, Held
    <3> QED BY <3>3, <3>4
  <2>8. CASE pitcher_destroy_queue
    BY <2>8, DestroyKeepsInv
  <2>9. CASE UNCHANGED vars
    BY <2>9 DEF vars, IInv, TypeOK, NodesConserved, CountersExact, CursorValid, Held
  <2> QED BY <2>1, <2>2, <2>3, <2>4, <2>5, <2>6, <2>7, <2>8, <2>9 DEF Next
<1> QED BY <1>1, <1>2, PTL DEF Spec

(* queue.c never loses, duplicates or frees a node that is still linked.    *)
THEOREM NodesSafe == Spec => []NodesConserved
  BY QueueInvariant, PTL DEF IInv

(* The counters queue.c decides by agree with the lists, and the pool of     *)
(* idle nodes stays within QUEUE_IDLE_MAX_THD.                               *)
THEOREM CountersSafe == Spec => []CountersExact
  BY QueueInvariant, PTL DEF IInv

(* The successor saved by list_for_each_entry_safe is valid when it is used. *)
THEOREM CursorSafe == Spec => []CursorValid
  BY QueueInvariant, PTL DEF IInv

(* A clear that ends has emptied the queue: only clear_return ends one, and  *)
(* it does so when tmp is the head, which means there is no node left.       *)
THEOREM ClearSafe == Spec => ClearDrains
<1>1. ASSUME IInv, [Next]_vars, it.op = "clear", it'.op # "clear"
      PROVE  queue' = <<>>
  <2> USE <1>1
  <2>1. clear_return
    <3>1. it # it'
      OBVIOUS
    <3> QED BY <3>1 DEF Next, vars, pitcher_queue_push_back, pitcher_queue_pop,
               enumerate_begin, enumerate_return, clear_begin,
               pitcher_queue_find, pitcher_destroy_queue
  <2>2. it.tmp = IF queue = <<>> THEN ListHead ELSE Head(queue)
    BY DEF IInv, CursorValid
  <2>3. CASE queue # <<>>
    <3>1. Head(queue) \in ToSet(queue) /\ Head(queue) \in Node
      BY <2>3, HeadPosition DEF IInv, TypeOK, NodesConserved
    <3>2. it'.op = "clear"
      BY <2>1, <2>2, <2>3, <3>1, Advance DEF clear_return, IInv, TypeOK
    <3> QED BY <3>2
  <2>4. CASE queue = <<>>
    BY <2>1, <2>2, <2>4 DEF clear_return
  <2> QED BY <2>3, <2>4
<1>2. IInv /\ [Next]_vars => [it.op = "clear" /\ it'.op # "clear" => queue' = <<>>]_vars
  BY <1>1
<1> QED BY <1>2, QueueInvariant, PTL DEF Spec, ClearDrains
(* queue.c keeps its variables in their types: the counters never go below   *)
(* zero, the lists hold nodes and a running pass stands on a node.           *)
THEOREM QueueTypes == Spec => []TypeOK
  BY QueueInvariant, PTL DEF IInv

-----------------------------------------------------------------------------
(* The refinement of AbstractQueue.                                         *)

(* The items of the nodes of a list, in list order. *)
ItemsOf(q, f) == [k \in DOMAIN q |-> f[q[k]]]

LEMMA ItemsType ==
  ASSUME NEW q \in Seq(Node), NEW f \in [Node -> Item]
  PROVE  /\ ItemsOf(q, f) \in Seq(Item) /\ Len(ItemsOf(q, f)) = Len(q)
         /\ DOMAIN ItemsOf(q, f) = 1 .. Len(q)
         /\ \A k \in 1 .. Len(q) : ItemsOf(q, f)[k] = f[q[k]]
<1>1. DOMAIN q = 1 .. Len(q) /\ Len(q) \in Nat /\ \A k \in 1 .. Len(q) : q[k] \in Node
  OBVIOUS
<1>2. ItemsOf(q, f) \in [1 .. Len(q) -> Item]
  BY <1>1 DEF ItemsOf
<1>3. ItemsOf(q, f) \in Seq(Item)
  BY <1>1, <1>2
<1> QED BY <1>1, <1>2, <1>3 DEF ItemsOf

LEMMA ItemsRemoved ==
  ASSUME NEW q \in Seq(Node), NEW f \in [Node -> Item], NEW k \in 1 .. Len(q)
  PROVE  ItemsOf(RemoveAt(q, k), f) = RemoveAt(ItemsOf(q, f), k)
<1> DEFINE r == RemoveAt(q, k)
           c == ItemsOf(q, f)
           d == RemoveAt(c, k)
           e == ItemsOf(r, f)
<1>1. /\ r \in Seq(Node) /\ Len(r) = Len(q) - 1 /\ Len(q) \in Nat
      /\ \A i \in 1 .. Len(q) - 1 : r[i] = IF i < k THEN q[i] ELSE q[i + 1]
  BY RemoveAtShape
<1>2. /\ c \in Seq(Item) /\ Len(c) = Len(q) /\ \A i \in 1 .. Len(q) : c[i] = f[q[i]]
  BY ItemsType
<1> HIDE DEF r, c
<1>3. /\ d \in Seq(Item) /\ Len(d) = Len(q) - 1
      /\ \A i \in 1 .. Len(q) - 1 : d[i] = IF i < k THEN c[i] ELSE c[i + 1]
  BY <1>2, RemoveAtShape
<1>4. /\ e \in Seq(Item) /\ Len(e) = Len(q) - 1
      /\ \A i \in 1 .. Len(q) - 1 : e[i] = f[r[i]]
  BY <1>1, ItemsType
<1> HIDE DEF d, e
<1>5. ASSUME NEW i \in 1 .. Len(q) - 1 PROVE e[i] = d[i]
  <2>1. i \in 1 .. Len(q) /\ i + 1 \in 1 .. Len(q)
    BY <1>1
  <2>2. /\ e[i] = f[r[i]] /\ r[i] = (IF i < k THEN q[i] ELSE q[i + 1])
        /\ d[i] = (IF i < k THEN c[i] ELSE c[i + 1])
    BY <1>1, <1>3, <1>4, <1>5
  <2>3. c[i] = f[q[i]] /\ c[i + 1] = f[q[i + 1]]
    BY <1>2, <2>1
  <2> QED BY <2>2, <2>3, Zenon
<1>6. e = d
  BY <1>3, <1>4, <1>5, SeqEqual
<1> QED BY <1>6 DEF r, c, d, e

LEMMA ItemsAppended ==
  ASSUME NEW q \in Seq(Node), NEW f \in [Node -> Item], NEW n \in Node,
         n \notin ToSet(q), NEW i \in Item
  PROVE  ItemsOf(Append(q, n), [f EXCEPT ![n] = i]) = Append(ItemsOf(q, f), i)
<1> DEFINE g == [f EXCEPT ![n] = i]
           c == ItemsOf(q, f)
           a == Append(q, n)
           e == ItemsOf(a, g)
<1>1. g \in [Node -> Item] /\ g[n] = i /\ \A m \in Node : m # n => g[m] = f[m]
  OBVIOUS
<1>2. /\ a \in Seq(Node) /\ Len(a) = Len(q) + 1 /\ Len(q) \in Nat
      /\ \A k \in 1 .. Len(q) : a[k] = q[k] /\ q[k] \in Node /\ q[k] # n
      /\ a[Len(q) + 1] = n
  BY DEF ToSet
<1>3. /\ c \in Seq(Item) /\ Len(c) = Len(q) /\ \A k \in 1 .. Len(q) : c[k] = f[q[k]]
  BY ItemsType
<1> HIDE DEF g, c, a
<1>4. /\ e \in Seq(Item) /\ Len(e) = Len(q) + 1
      /\ \A k \in 1 .. Len(q) + 1 : e[k] = g[a[k]]
  BY <1>1, <1>2, ItemsType
<1> HIDE DEF e
<1>5. /\ Append(c, i) \in Seq(Item) /\ Len(Append(c, i)) = Len(q) + 1
      /\ \A k \in 1 .. Len(q) : Append(c, i)[k] = c[k]
      /\ Append(c, i)[Len(q) + 1] = i
  BY <1>3
<1>6. ASSUME NEW k \in 1 .. Len(q) + 1 PROVE e[k] = Append(c, i)[k]
  <2>1. k \in 1 .. Len(q) \/ k = Len(q) + 1
    BY <1>2
  <2> QED BY <2>1, <1>1, <1>2, <1>3, <1>4, <1>5
<1>7. e = Append(c, i)
  BY <1>4, <1>5, <1>6, SeqEqual
<1> QED BY <1>7 DEF e, c, g, a

(* A node of a list without repetitions has one position. *)
LEMMA OnePosition ==
  ASSUME NEW q \in Seq(Node), Distinct(q), NEW k \in 1 .. Len(q)
  PROVE  Position(q, q[k]) = k
<1>1. q[k] \in ToSet(q)
  BY DEF ToSet
<1>2. Position(q, q[k]) \in 1 .. Len(q) /\ q[Position(q, q[k])] = q[k]
  BY <1>1, PositionOf
<1> QED BY <1>2 DEF Distinct

(* The first element of a list is removed by taking its tail. *)
LEMMA FirstRemoved ==
  ASSUME NEW S, NEW s \in Seq(S), s # <<>>
  PROVE  RemoveAt(s, 1) = Tail(s)
<1> DEFINE r == RemoveAt(s, 1)
           t == Tail(s)
<1>1. 1 \in 1 .. Len(s) /\ Len(s) \in Nat
  OBVIOUS
<1>2. /\ r \in Seq(S) /\ Len(r) = Len(s) - 1
      /\ \A i \in 1 .. Len(s) - 1 : r[i] = IF i < 1 THEN s[i] ELSE s[i + 1]
  BY <1>1, RemoveAtShape
<1>3. /\ t \in Seq(S) /\ Len(t) = Len(s) - 1
      /\ \A i \in 1 .. Len(s) - 1 : t[i] = s[i + 1]
  BY <1>1
<1> HIDE DEF r, t
<1>4. \A i \in 1 .. Len(r) : r[i] = t[i]
  BY <1>1, <1>2, <1>3
<1>5. r = t
  BY <1>2, <1>3, <1>4, SeqEqual
<1> QED BY <1>5 DEF r, t

(* The abstract state a state of queue.c stands for. *)
Contents == ItemsOf(queue, item)
PassAt == IF it.op = "enumerate" THEN Position(queue, it.node) ELSE 0
AtLast == it.op = "enumerate" /\ it.tmp = ListHead

(* A pass or a clear runs only over a queue that exists. *)
PassOpen == it.op # "none" => live

RInv == IInv /\ PassOpen

(* No operation starts or continues a pass on a destroyed queue. *)
LEMMA RefinementInvariant == Spec => []RInv
<1>1. pitcher_init_queue => PassOpen
  BY NoIterType DEF pitcher_init_queue, PassOpen
<1>2. IInv /\ PassOpen /\ [Next]_vars => PassOpen'
  <2> SUFFICES ASSUME IInv, PassOpen, [Next]_vars PROVE PassOpen'
    OBVIOUS
  <2> USE DEF PassOpen
  <2>1. ASSUME NEW i \in Item, pitcher_queue_push_back(i) PROVE PassOpen'
    BY <2>1 DEF pitcher_queue_push_back
  <2>2. CASE pitcher_queue_pop
    BY <2>2 DEF pitcher_queue_pop
  <2>3. CASE enumerate_begin
    BY <2>3 DEF enumerate_begin
  <2>4. ASSUME NEW rm \in BOOLEAN, enumerate_return(rm) PROVE PassOpen'
    BY <2>4 DEF enumerate_return
  <2>5. CASE clear_begin
    BY <2>5 DEF clear_begin
  <2>6. CASE clear_return
    BY <2>6 DEF clear_return
  <2>7. ASSUME NEW i \in Item, NEW rm \in BOOLEAN, pitcher_queue_find(i, rm)
        PROVE  PassOpen'
    BY <2>7 DEF pitcher_queue_find
  <2>8. CASE pitcher_destroy_queue
    BY <2>8 DEF pitcher_destroy_queue
  <2>9. CASE UNCHANGED vars
    BY <2>9 DEF vars
  <2> QED BY <2>1, <2>2, <2>3, <2>4, <2>5, <2>6, <2>7, <2>8, <2>9 DEF Next
<1> QED BY <1>1, <1>2, QueueInvariant, PTL DEF Spec, RInv

(* Where the pass stands, as a position. *)
LEMMA PassPosition ==
  ASSUME IInv, it.op = "enumerate"
  PROVE  /\ PassAt \in 1 .. Len(queue) /\ PassAt # 0 /\ queue[PassAt] = it.node
         /\ ~ AtLast => /\ PassAt < Len(queue) /\ it.tmp = queue[PassAt + 1]
                        /\ it.tmp # ListHead
<1>1. PICK k \in DOMAIN queue : /\ queue[k] = it.node
                                /\ \/ it.tmp = ListHead
                                   \/ k < Len(queue) /\ it.tmp = queue[k + 1]
  BY DEF IInv, CursorValid
<1>2. queue \in Seq(Node) /\ Distinct(queue) /\ k \in 1 .. Len(queue)
  BY DEF IInv, TypeOK, NodesConserved
<1>3. PassAt = k
  BY <1>1, <1>2, OnePosition DEF PassAt
<1> QED BY <1>1, <1>2, <1>3 DEF AtLast

(* Taking a node off the list takes its item out of the contents. *)
LEMMA NodeRemoved ==
  ASSUME IInv, NEW k \in 1 .. Len(queue), remove_queue_node(queue[k]), item' = item
  PROVE  Contents' = RemoveAt(Contents, k)
<1>1. queue \in Seq(Node) /\ Distinct(queue) /\ item \in [Node -> Item]
  BY DEF IInv, TypeOK, NodesConserved
<1>2. queue' = RemoveAt(queue, k)
  BY <1>1, OnePosition DEF remove_queue_node
<1>3. ItemsOf(RemoveAt(queue, k), item) = RemoveAt(ItemsOf(queue, item), k)
  BY <1>1, ItemsRemoved
<1> QED BY <1>2, <1>3 DEF Contents

LEMMA ContentsType ==
  ASSUME IInv
  PROVE  /\ Contents \in Seq(Item) /\ Len(Contents) = Len(queue) /\ Len(queue) \in Nat
         /\ DOMAIN Contents = 1 .. Len(queue) /\ DOMAIN queue = 1 .. Len(queue)
         /\ \A k \in 1 .. Len(queue) : Contents[k] = item[queue[k]]
<1>1. queue \in Seq(Node) /\ item \in [Node -> Item]
  BY DEF IInv, TypeOK
<1> QED BY <1>1, ItemsType DEF Contents

(* The head of the list carries the oldest item. *)
LEMMA HeadTaken ==
  ASSUME IInv, queue # <<>>, remove_queue_node(Head(queue)), item' = item
  PROVE  /\ Contents # <<>> /\ item[Head(queue)] = Head(Contents)
         /\ Contents' = Tail(Contents)
<1>1. queue \in Seq(Node) /\ 1 \in 1 .. Len(queue) /\ Head(queue) = queue[1]
  BY DEF IInv, TypeOK
<1>2. Contents' = RemoveAt(Contents, 1)
  BY <1>1, NodeRemoved
<1>3. Contents \in Seq(Item) /\ Contents # <<>> /\ Head(Contents) = item[Head(queue)]
  BY <1>1, ContentsType
<1>4. RemoveAt(Contents, 1) = Tail(Contents)
  BY <1>3, FirstRemoved
<1> QED BY <1>2, <1>3, <1>4

(* The pass arrives at a queued node: pos = n; n = next(n). *)
LEMMA ArrivesAt ==
  ASSUME IInv', NEW k \in 1 .. Len(queue'), it' = advance("enumerate", queue', queue'[k])
  PROVE  PassAt' = k /\ AtLast' = (k = Len(queue'))
<1>1. queue' \in Seq(Node) /\ Distinct(queue') /\ k \in 1 .. Len(queue')
  BY DEF IInv, TypeOK, NodesConserved
<1>2. Position(queue', queue'[k]) = k
  BY <1>1, OnePosition
<1>3. queue'[k] \in ToSet(queue') /\ \A j \in 1 .. Len(queue') : queue'[j] # ListHead
  BY <1>1, QueueAssumption DEF ToSet
<1>4. /\ it'.op = "enumerate" /\ it'.node = queue'[k]
      /\ it'.tmp = IF k < Len(queue') THEN queue'[k + 1] ELSE ListHead
  BY <1>1, <1>2, <1>3, Advance
<1>5. PassAt' = k
  BY <1>2, <1>4 DEF PassAt
<1>6. (it'.tmp = ListHead) <=> (k = Len(queue'))
  BY <1>1, <1>3, <1>4
<1>7. AtLast' = (k = Len(queue'))
  BY <1>4, <1>6 DEF AtLast
<1> QED BY <1>5, <1>7

(* The abstract operations, in terms of the abstract state above. *)
LEMMA ContractState ==
  /\ Contract!Init <=> /\ Contents = <<>> /\ PassAt = 0 /\ AtLast = FALSE
                       /\ out \in Item /\ live = TRUE
  /\ \A i : Contract!Push(i) <=>
       /\ live /\ Contents' = Append(Contents, i)
       /\ PassAt' = PassAt /\ AtLast' = AtLast /\ out' = out /\ live' = live
  /\ Contract!Pop <=>
       /\ live /\ PassAt = 0 /\ Contents # <<>>
       /\ out' = Head(Contents) /\ Contents' = Tail(Contents)
       /\ PassAt' = PassAt /\ AtLast' = AtLast /\ live' = live
  /\ Contract!Destroy <=>
       /\ live /\ PassAt = 0 /\ Contents' = <<>> /\ live' = FALSE
       /\ PassAt' = PassAt /\ AtLast' = AtLast /\ out' = out
  BY DEF Contract!Init, Contract!Push, Contract!Pop, Contract!Destroy,
         Contents, ItemsOf, PassAt, AtLast
LEMMA ContractBegin ==
  Contract!BeginPass <=>
    /\ live /\ PassAt = 0 /\ Contents # <<>>
    /\ IF 1 \in DOMAIN Contents
       THEN PassAt' = 1 /\ AtLast' = (1 = Len(Contents)) /\ out' = Contents[1]
       ELSE PassAt' = 0 /\ AtLast' = FALSE /\ out' = out
    /\ Contents' = Contents /\ live' = live
  BY DEF Contract!BeginPass, Contract!Arrive, Contents, ItemsOf, PassAt, AtLast

LEMMA ContractStep ==
  ASSUME NEW rm \in BOOLEAN
  PROVE  Contract!StepPass(rm) <=>
           /\ PassAt # 0
           /\ Contents' = IF rm THEN RemoveAt(Contents, PassAt) ELSE Contents
           /\ LET k == IF AtLast THEN 0 ELSE IF rm THEN PassAt ELSE PassAt + 1
              IN  IF k \in DOMAIN Contents'
                  THEN /\ PassAt' = k /\ AtLast' = (k = Len(Contents'))
                       /\ out' = Contents'[k]
                  ELSE PassAt' = 0 /\ AtLast' = FALSE /\ out' = out
           /\ live' = live
  BY DEF Contract!StepPass, Contract!Arrive, Contract!RemoveAt, RemoveAt,
         Contents, ItemsOf, PassAt, AtLast

LEMMA ContractFind ==
  ASSUME NEW i, NEW rm \in BOOLEAN
  PROVE  Contract!Find(i, rm) <=>
           /\ live /\ PassAt = 0
           /\ \E k \in DOMAIN Contents :
                 /\ Contents[k] = i
                 /\ \A j \in 1 .. k - 1 : Contents[j] # i
                 /\ Contents' = IF rm THEN RemoveAt(Contents, k) ELSE Contents
           /\ out' = i
           /\ PassAt' = PassAt /\ AtLast' = AtLast /\ live' = live
  BY DEF Contract!Find, Contract!RemoveAt, RemoveAt, Contents, ItemsOf, PassAt, AtLast
(* Each operation of queue.c is an operation of the abstract queue, or       *)
(* changes nothing a caller can see.                                        *)

LEMMA PushRefines ==
  ASSUME IInv, IInv', NEW i \in Item, pitcher_queue_push_back(i)
  PROVE  Contract!Push(i)
<1>1. PICK n \in Node : /\ get_idle_node(n)
                        /\ queue' = Append(queue, n)
                        /\ item' = [item EXCEPT ![n] = i]
  BY DEF pitcher_queue_push_back
<1>2. /\ live /\ it' = it /\ out' = out /\ live' = live
      /\ queue \in Seq(Node) /\ item \in [Node -> Item] /\ Distinct(queue)
      /\ queue' \in Seq(Node) /\ Distinct(queue')
  BY DEF pitcher_queue_push_back, IInv, TypeOK, NodesConserved
<1>3. n \notin ToSet(queue)
  <2>1. \A k \in 1 .. Len(queue) : queue'[k] = queue[k] /\ k # Len(queue) + 1
    BY <1>1, <1>2
  <2>2. queue'[Len(queue) + 1] = n /\ DOMAIN queue' = 1 .. Len(queue) + 1
    BY <1>1, <1>2
  <2>3. Len(queue) + 1 \in DOMAIN queue' /\ \A k \in 1 .. Len(queue) : k \in DOMAIN queue'
    BY <1>2, <2>2
  <2> QED BY <2>1, <2>2, <2>3, <1>2 DEF Distinct, ToSet
<1>4. Contents' = Append(Contents, i)
  BY <1>1, <1>2, <1>3, ItemsAppended DEF Contents
<1>5. PassAt' = PassAt
  <2>1. CASE it.op = "enumerate"
    <3>1. PassAt \in 1 .. Len(queue) /\ queue[PassAt] = it.node
      BY <2>1, PassPosition
    <3>2. PassAt \in 1 .. Len(queue') /\ queue'[PassAt] = it.node
      BY <3>1, <1>1, <1>2
    <3>3. Position(queue', it.node) = PassAt
      BY <3>2, <1>2, OnePosition
    <3> QED BY <3>3, <2>1, <1>2 DEF PassAt
  <2>2. CASE it.op # "enumerate"
    BY <2>2, <1>2 DEF PassAt
  <2> QED BY <2>1, <2>2
<1>6. AtLast' = AtLast
  BY <1>2 DEF AtLast
<1> QED BY <1>2, <1>4, <1>5, <1>6, ContractState

LEMMA PopRefines ==
  ASSUME IInv, pitcher_queue_pop
  PROVE  Contract!Pop
<1>1. /\ live /\ it.op = "none" /\ it' = it /\ queue # <<>> /\ live' = live
      /\ remove_queue_node(Head(queue)) /\ item' = item /\ out' = item[Head(queue)]
  BY DEF pitcher_queue_pop
<1>2. /\ Contents # <<>> /\ item[Head(queue)] = Head(Contents)
      /\ Contents' = Tail(Contents)
  BY <1>1, HeadTaken
<1>3. PassAt = 0 /\ PassAt' = 0 /\ AtLast' = AtLast
  BY <1>1 DEF PassAt, AtLast
<1> QED BY <1>1, <1>2, <1>3, ContractState

LEMMA BeginRefines ==
  ASSUME IInv, IInv', enumerate_begin
  PROVE  Contract!BeginPass
<1>1. /\ live /\ it.op = "none" /\ queue # <<>> /\ queue' = queue /\ item' = item
      /\ it' = advance("enumerate", queue, Head(queue))
      /\ out' = item[Head(queue)] /\ live' = live
  BY DEF enumerate_begin
<1>2. /\ queue \in Seq(Node) /\ 1 \in 1 .. Len(queue') /\ Head(queue) = queue'[1]
  BY <1>1 DEF IInv, TypeOK
<1>3. PassAt' = 1 /\ AtLast' = (1 = Len(queue'))
  BY <1>1, <1>2, ArrivesAt
<1>4. /\ Contents \in Seq(Item) /\ Len(Contents) = Len(queue) /\ Contents # <<>>
      /\ 1 \in DOMAIN Contents /\ Contents[1] = item[Head(queue)]
  BY <1>1, <1>2, ContentsType
<1>5. PassAt = 0 /\ Contents' = Contents
  BY <1>1 DEF PassAt, Contents
<1> QED BY <1>1, <1>3, <1>4, <1>5, ContractBegin

LEMMA ReturnRefines ==
  ASSUME IInv, IInv', NEW rm \in BOOLEAN, enumerate_return(rm)
  PROVE  Contract!StepPass(rm)
<1> DEFINE k == PassAt
           d == Contents'
<1>1. /\ it.op = "enumerate" /\ item' = item /\ live' = live
      /\ it' = advance("enumerate", queue', it.tmp)
      /\ out' = (IF it.tmp = ListHead THEN out ELSE item[it.tmp])
  BY DEF enumerate_return
<1>2. /\ k \in 1 .. Len(queue) /\ k # 0 /\ queue[k] = it.node
      /\ ~ AtLast => k < Len(queue) /\ it.tmp = queue[k + 1] /\ it.tmp # ListHead
  BY <1>1, PassPosition
<1> HIDE DEF k
<1>3. /\ queue \in Seq(Node) /\ Len(queue) \in Nat
      /\ rm => /\ d = RemoveAt(Contents, k) /\ Len(queue') = Len(queue) - 1
               /\ \A j \in 1 .. Len(queue) - 1 :
                     queue'[j] = IF j < k THEN queue[j] ELSE queue[j + 1]
      /\ ~ rm => d = Contents /\ queue' = queue
  <2>1. queue \in Seq(Node) /\ Distinct(queue) /\ Len(queue) \in Nat
    BY DEF IInv, TypeOK, NodesConserved
  <2>2. CASE rm
    <3>1. remove_queue_node(queue[k])
      BY <2>2, <1>2 DEF enumerate_return
    <3>2. queue' = RemoveAt(queue, k)
      BY <3>1, <2>1, <1>2, OnePosition DEF remove_queue_node
    <3>3. d = RemoveAt(Contents, k)
      BY <3>1, <1>1, <1>2, NodeRemoved
    <3> QED BY <3>2, <3>3, <2>1, <2>2, <1>2, RemoveAtShape
  <2>3. CASE ~ rm
    BY <2>1, <2>3, <1>1 DEF enumerate_return, Contents
  <2> QED BY <2>1, <2>2, <2>3
<1>4. /\ d \in Seq(Item) /\ Len(d) = Len(queue') /\ DOMAIN d = 1 .. Len(queue')
      /\ \A j \in 1 .. Len(queue') : d[j] = item[queue'[j]]
  <2>1. queue' \in Seq(Node) /\ item' \in [Node -> Item]
    BY DEF IInv, TypeOK
  <2> QED BY <2>1, <1>1, ItemsType DEF Contents
<1> HIDE DEF d
<1>5. CASE AtLast
  <2>1. it' = NoIter /\ out' = out
    BY <1>1, <1>5 DEF AtLast, advance
  <2>2. PassAt' = 0 /\ AtLast' = FALSE
    BY <2>1, NoIterType DEF PassAt, AtLast
  <2>3. 0 \notin DOMAIN d
    BY <1>4
  <2> QED BY <1>1, <1>2, <1>3, <1>5, <2>1, <2>2, <2>3, ContractStep DEF k, d
<1>6. CASE ~ AtLast
  <2> DEFINE n == IF rm THEN k ELSE k + 1
  <2>1. n \in 1 .. Len(queue') /\ queue'[n] = it.tmp
    BY <1>2, <1>3, <1>6
  <2> HIDE DEF n
  <2>2. PassAt' = n /\ AtLast' = (n = Len(queue'))
    BY <1>1, <2>1, ArrivesAt
  <2>3. out' = d[n] /\ n \in DOMAIN d
    BY <1>1, <1>2, <1>4, <1>6, <2>1
  <2> QED BY <1>1, <1>2, <1>3, <1>4, <1>6, <2>2, <2>3, ContractStep DEF k, d, n
<1> QED BY <1>5, <1>6
LEMMA ClearBeginRefines ==
  ASSUME IInv, IInv', clear_begin
  PROVE  Contract!Pop
<1>1. /\ live /\ it.op = "none" /\ queue # <<>> /\ live' = live
      /\ it' = advance("clear", queue, Head(queue))
      /\ remove_queue_node(Head(queue)) /\ item' = item /\ out' = item[Head(queue)]
  BY DEF clear_begin
<1>2. /\ Contents # <<>> /\ item[Head(queue)] = Head(Contents)
      /\ Contents' = Tail(Contents)
  BY <1>1, HeadTaken
<1>3. it'.op = "clear"
  BY <1>1, TakeHead DEF IInv, TypeOK, NodesConserved, CountersExact
<1>4. PassAt = 0 /\ PassAt' = 0 /\ AtLast = FALSE /\ AtLast' = FALSE
  BY <1>1, <1>3 DEF PassAt, AtLast
<1> QED BY <1>1, <1>2, <1>4, ContractState

(* The last return of a clear only hands its node back; every other one     *)
(* takes the next item out as well.                                         *)
LEMMA ClearReturnRefines ==
  ASSUME RInv, clear_return
  PROVE  \/ Contract!Pop
         \/ /\ Contents' = Contents /\ PassAt' = PassAt /\ AtLast' = AtLast
            /\ out' = out /\ live' = live
<1>1. /\ it.op = "clear" /\ item' = item /\ live' = live /\ live
      /\ it' = advance("clear", queue, it.tmp)
      /\ it.tmp = IF queue = <<>> THEN ListHead ELSE Head(queue)
  BY DEF clear_return, RInv, PassOpen, IInv, CursorValid
<1>2. queue \in Seq(Node) /\ Distinct(queue) /\ count = Len(queue)
  BY DEF RInv, IInv, TypeOK, NodesConserved, CountersExact
<1>3. CASE queue = <<>>
  <2>1. it' = NoIter /\ queue' = queue /\ out' = out
    BY <1>1, <1>3 DEF clear_return, advance
  <2> QED BY <1>1, <2>1, NoIterType DEF Contents, PassAt, AtLast
<1>4. CASE queue # <<>>
  <2>1. Head(queue) # ListHead
    BY <1>2, <1>4, QueueAssumption
  <2>2. /\ remove_queue_node(Head(queue)) /\ out' = item[Head(queue)]
        /\ it' = advance("clear", queue, Head(queue))
    BY <1>1, <1>4, <2>1 DEF clear_return
  <2>3. it'.op = "clear"
    BY <1>2, <1>4, <2>2, TakeHead
  <2>4. /\ Contents # <<>> /\ item[Head(queue)] = Head(Contents)
        /\ Contents' = Tail(Contents)
    BY <1>1, <1>4, <2>2, HeadTaken DEF RInv
  <2>5. PassAt = 0 /\ PassAt' = 0 /\ AtLast = FALSE /\ AtLast' = FALSE
    BY <1>1, <2>3 DEF PassAt, AtLast
  <2> QED BY <1>1, <2>2, <2>4, <2>5, ContractState
<1> QED BY <1>3, <1>4

LEMMA FindRefines ==
  ASSUME IInv, NEW i \in Item, NEW rm \in BOOLEAN, pitcher_queue_find(i, rm)
  PROVE  Contract!Find(i, rm)
<1>1. /\ live /\ it.op = "none" /\ it' = it /\ item' = item /\ live' = live /\ out' = i
  BY DEF pitcher_queue_find
<1>2. PICK k \in DOMAIN queue :
         /\ item[queue[k]] = i
         /\ \A j \in 1 .. k - 1 : item[queue[j]] # i
         /\ IF rm
            THEN remove_queue_node(queue[k]) /\ put_idle_node(queue[k])
            ELSE UNCHANGED <<queue, count, idles, idle_num, heap>>
  BY DEF pitcher_queue_find
<1>3. /\ Len(queue) \in Nat
      /\ DOMAIN Contents = 1 .. Len(queue) /\ k \in 1 .. Len(queue)
      /\ \A j \in 1 .. Len(queue) : Contents[j] = item[queue[j]]
  BY ContentsType
<1>4. Contents[k] = i /\ \A j \in 1 .. k - 1 : Contents[j] # i
  BY <1>2, <1>3
<1>5. Contents' = IF rm THEN RemoveAt(Contents, k) ELSE Contents
  <2>1. CASE rm
    BY <2>1, <1>1, <1>2, <1>3, NodeRemoved
  <2>2. CASE ~ rm
    BY <2>2, <1>1, <1>2 DEF Contents
  <2> QED BY <2>1, <2>2
<1>6. PassAt = 0 /\ PassAt' = PassAt /\ AtLast' = AtLast
  BY <1>1 DEF PassAt, AtLast
<1> QED BY <1>1, <1>3, <1>4, <1>5, <1>6, ContractFind

LEMMA DestroyRefines ==
  ASSUME pitcher_destroy_queue
  PROVE  Contract!Destroy
<1>1. /\ live /\ it.op = "none" /\ it' = it /\ live' = FALSE /\ out' = out
      /\ queue' = <<>>
  BY DEF pitcher_destroy_queue
<1>2. Contents' = <<>>
  BY <1>1 DEF Contents, ItemsOf
<1>3. PassAt = 0 /\ PassAt' = PassAt /\ AtLast' = AtLast
  BY <1>1 DEF PassAt, AtLast
<1> QED BY <1>1, <1>2, <1>3, ContractState

(* queue.c implements the FIFO with a stable pass of AbstractQueue: whatever *)
(* nodes are recycled and whatever a callback appends, no item is lost,      *)
(* reordered, offered twice or skipped.                                      *)
THEOREM QueueImplementsFifo == Spec => ImplementsFifo
<1>1. pitcher_init_queue => Contract!Init
  <2> SUFFICES ASSUME pitcher_init_queue PROVE Contract!Init
    OBVIOUS
  <2>1. queue = <<>> /\ it.op = "none" /\ out \in Item /\ live = TRUE
    BY NoIterType DEF pitcher_init_queue
  <2>2. Contents = <<>>
    BY <2>1 DEF Contents, ItemsOf
  <2>3. PassAt = 0 /\ AtLast = FALSE
    BY <2>1 DEF PassAt, AtLast
  <2> QED BY <2>1, <2>2, <2>3, ContractState
<1>2. RInv /\ RInv' /\ [Next]_vars => [Contract!Next]_(Contract!vars)
  <2> SUFFICES ASSUME RInv, RInv', [Next]_vars
               PROVE  Contract!Next \/ UNCHANGED Contract!vars
    OBVIOUS
  <2> USE DEF RInv
  <2>0. ASSUME Contents' = Contents, PassAt' = PassAt, AtLast' = AtLast,
               out' = out, live' = live
        PROVE  UNCHANGED Contract!vars
    BY <2>0 DEF Contract!vars, Contents, ItemsOf, PassAt, AtLast
  <2>1. ASSUME NEW i \in Item, pitcher_queue_push_back(i) PROVE Contract!Next
    BY <2>1, PushRefines DEF Contract!Next
  <2>2. CASE pitcher_queue_pop
    BY <2>2, PopRefines DEF Contract!Next
  <2>3. CASE enumerate_begin
    BY <2>3, BeginRefines DEF Contract!Next
  <2>4. ASSUME NEW rm \in BOOLEAN, enumerate_return(rm) PROVE Contract!Next
    BY <2>4, ReturnRefines DEF Contract!Next
  <2>5. CASE clear_begin
    BY <2>5, ClearBeginRefines DEF Contract!Next
  <2>6. CASE clear_return
    <3>1. CASE Contract!Pop
      BY <3>1 DEF Contract!Next
    <3> QED BY <2>6, <3>1, <2>0, ClearReturnRefines
  <2>7. ASSUME NEW i \in Item, NEW rm \in BOOLEAN, pitcher_queue_find(i, rm)
        PROVE  Contract!Next
    BY <2>7, FindRefines DEF Contract!Next
  <2>8. CASE pitcher_destroy_queue
    BY <2>8, DestroyRefines DEF Contract!Next
  <2>9. CASE UNCHANGED vars
    BY <2>9, <2>0 DEF vars, Contents, PassAt, AtLast
  <2> QED BY <2>1, <2>2, <2>3, <2>4, <2>5, <2>6, <2>7, <2>8, <2>9 DEF Next
<1> QED BY <1>1, <1>2, RefinementInvariant, PTL DEF Spec, ImplementsFifo, Contract!Spec

-----------------------------------------------------------------------------
(* The common divisor. *)

Divides(d, a) == \E k \in Int : a = d * k

(* Every set of natural numbers has a least member. *)
LEMMA LeastNumber ==
  ASSUME NEW T \in SUBSET Nat, T # {}
  PROVE  \E x \in T : \A y \in T : x <= y
<1> DEFINE R == OpToRel(<, Nat)
<1>1. IsWellFoundedOn(R, Nat)
  BY NatLessThanWellFounded
<1>2. \A x, y \in Nat : x < y => <<x, y>> \in R
  BY DEF OpToRel
<1> HIDE DEF R
<1>3. PICK x \in T : \A y \in T : ~ (<<y, x>> \in R)
  BY <1>1, WFMin
<1>4. \A y \in T : x <= y
  <2> SUFFICES ASSUME NEW y \in T PROVE x <= y
    OBVIOUS
  <2>1. x \in Nat /\ y \in Nat /\ ~ (y < x)
    BY <1>2, <1>3
  <2> QED
    BY <2>1
<1> QED
  BY <1>4

(* What divides two numbers divides their combinations. *)
LEMMA DividesCombined ==
  ASSUME NEW d \in Int, NEW a \in Int, NEW b \in Int, NEW q \in Int, Divides(d, b)
  PROVE  Divides(d, a) <=> Divides(d, a + b * q)
<1>1. PICK k \in Int : b = d * k
  BY DEF Divides
<1>2. ASSUME NEW j \in Int, a = d * j PROVE Divides(d, a + b * q)
  <2>1. a + b * q = d * (j + k * q) /\ j + k * q \in Int
    BY <1>1, <1>2
  <2> QED
    BY <2>1 DEF Divides
<1>3. ASSUME NEW j \in Int, a + b * q = d * j PROVE Divides(d, a)
  <2>1. a = d * (j - k * q) /\ j - k * q \in Int
    BY <1>1, <1>3
  <2> QED
    BY <2>1 DEF Divides
<1> QED
  BY <1>2, <1>3 DEF Divides

(* Division with a rest *)
LEMMA DivisionRest ==
  ASSUME NEW m \in Nat, NEW n \in Nat \ {0}
  PROVE  /\ m \div n \in Nat /\ m % n \in Nat /\ m % n < n
         /\ m = (m % n) + n * (m \div n)
OBVIOUS

(* A number is known by its divisors. *)
LEMMA SameDivisors ==
  ASSUME NEW m \in Nat, NEW v \in Nat, \A d \in Nat : Divides(d, m) <=> Divides(d, v)
  PROVE  v = m
<1>1. Divides(m, m) /\ Divides(v, v)
  <2>1. m = m * 1 /\ v = v * 1
    OBVIOUS
  <2> QED
    BY <2>1 DEF Divides
<1>2. PICK k \in Int : v = m * k
  BY <1>1 DEF Divides
<1>3. PICK j \in Int : m = v * j
  BY <1>1 DEF Divides
<1>4. CASE m = 0
  BY <1>2, <1>4
<1>5. CASE v = 0
  BY <1>3, <1>5
<1>6. CASE m > 0 /\ v > 0
  <2>1. k >= 1 /\ j >= 1
    BY <1>2, <1>3, <1>6
  <2>2. v >= m /\ m >= v
    BY <1>2, <1>3, <1>6, <2>1
  <2> QED
    BY <2>2
<1> QED
  BY <1>4, <1>5, <1>6

(* The numbers whose divisors are the common divisors of m and n *)
Shared(m, n) == {v \in Nat : \A d \in Nat : Divides(d, v) <=> Divides(d, m) /\ Divides(d, n)}
OneOf(S) == CHOOSE v \in S : TRUE

(* f is a solution of the recursion of the division loop. *)
Euclid(f) == f = [p \in Nat \X Nat |-> IF p[2] = 0 THEN p[1] ELSE f[<<p[2], p[1] % p[2]>>]]

LEMMA SharedEnd == \A m \in Nat : Shared(m, 0) = {m}
<1> SUFFICES ASSUME NEW m \in Nat PROVE Shared(m, 0) = {m}
  OBVIOUS
<1>1. \A d \in Nat : Divides(d, 0)
  <2>1. \A d \in Nat : 0 = d * 0
    OBVIOUS
  <2> QED
    BY <2>1 DEF Divides
<1>2. m \in Shared(m, 0)
  BY <1>1 DEF Shared
<1>3. \A v \in Shared(m, 0) : v = m
  BY <1>1, SameDivisors DEF Shared
<1> QED
  BY <1>2, <1>3

LEMMA SharedStep == \A m \in Nat, n \in Nat \ {0} : Shared(n, m % n) = Shared(m, n)
<1> SUFFICES ASSUME NEW m \in Nat, NEW n \in Nat \ {0} PROVE Shared(n, m % n) = Shared(m, n)
  OBVIOUS
<1>1. ASSUME NEW d \in Nat, Divides(d, n) PROVE Divides(d, m) <=> Divides(d, m % n)
  <2>1. /\ m \div n \in Nat /\ m % n \in Nat
        /\ m = (m % n) + n * (m \div n)
    BY DivisionRest
  <2>2. Divides(d, m % n) <=> Divides(d, (m % n) + n * (m \div n))
    <3> DEFINE r == m % n
               q == m \div n
    <3>1. r \in Int /\ q \in Int /\ n \in Int /\ d \in Int
      BY <2>1
    <3> HIDE DEF r, q
    <3>2. Divides(d, r) <=> Divides(d, r + n * q)
      BY <1>1, <3>1, DividesCombined
    <3> QED
      BY <3>2 DEF r, q
  <2> QED
    BY <2>1, <2>2
<1> QED
  BY <1>1 DEF Shared

(* The recursion has a solution, and gcd is one. *)
LEMMA GcdDefined == Euclid(gcd)
<1> DEFINE f == [p \in Nat \X Nat |-> OneOf(Shared(p[1], p[2]))]
<1>1. \A p \in Nat \X Nat : f[p] = OneOf(Shared(p[1], p[2]))
  OBVIOUS
<1>2. f = [p \in Nat \X Nat |-> f[p]]
  OBVIOUS
<1> HIDE DEF f
<1>3. ASSUME NEW p \in Nat \X Nat
      PROVE  f[p] = IF p[2] = 0 THEN p[1] ELSE f[<<p[2], p[1] % p[2]>>]
  <2>1. p[1] \in Nat /\ p[2] \in Nat
    OBVIOUS
  <2>2. CASE p[2] = 0
    <3>1. Shared(p[1], p[2]) = {p[1]}
      BY <2>1, <2>2, SharedEnd
    <3>2. OneOf({p[1]}) = p[1]
      BY DEF OneOf
    <3> QED
      BY <1>1, <2>2, <3>1, <3>2
  <2>3. CASE p[2] # 0
    <3> DEFINE r == <<p[2], p[1] % p[2]>>
    <3>1. p[1] % p[2] \in Nat
      BY <2>1, <2>3, DivisionRest
    <3>2. r \in Nat \X Nat /\ r[1] = p[2] /\ r[2] = p[1] % p[2]
      BY <2>1, <3>1
    <3>3. Shared(p[2], p[1] % p[2]) = Shared(p[1], p[2])
      BY <2>1, <2>3, SharedStep
    <3> HIDE DEF r
    <3>4. f[r] = OneOf(Shared(p[2], p[1] % p[2]))
      BY <1>1, <3>2
    <3>5. f[p] = f[r]
      BY <1>1, <3>3, <3>4
    <3> QED
      BY <2>3, <3>5 DEF r
  <2> QED
    BY <2>2, <2>3
<1>4. Euclid(f)
  <2> DEFINE g == [p \in Nat \X Nat |-> IF p[2] = 0 THEN p[1] ELSE f[<<p[2], p[1] % p[2]>>]]
  <2>1. \A p \in Nat \X Nat : g[p] = f[p]
    BY <1>3
  <2>2. g = [p \in Nat \X Nat |-> g[p]]
    OBVIOUS
  <2> HIDE DEF g
  <2>3. f = g
    BY <1>2, <2>1, <2>2
  <2> QED
    BY <2>3 DEF Euclid, g
<1>5. gcd = CHOOSE g : Euclid(g)
  BY DEF gcd, Euclid
<1> QED
  BY <1>4, <1>5

LEMMA GcdStep ==
  ASSUME NEW m \in Nat, NEW n \in Nat
  PROVE  gcd[<<m, n>>] = IF n = 0 THEN m ELSE gcd[<<n, m % n>>]
<1> DEFINE p == <<m, n>>
<1>1. p \in Nat \X Nat /\ p[1] = m /\ p[2] = n
  OBVIOUS
<1>2. gcd[p] = IF p[2] = 0 THEN p[1] ELSE gcd[<<p[2], p[1] % p[2]>>]
  <2> HIDE DEF p
  <2> QED
    BY <1>1, GcdDefined, Zenon DEF Euclid
<1> QED
  BY <1>1, <1>2

(* It divides both numbers, and what divides multiples of both divides the  *)
(* same multiple of it.                                                     *)
IsGcd(g, m, n) ==
  /\ g \in Nat /\ Divides(g, m) /\ Divides(g, n) /\ (m > 0 \/ n > 0 => g > 0)
  /\ \A s, k \in Nat : Divides(s, k * m) /\ Divides(s, k * n) => Divides(s, k * g)

LEMMA GcdCorrect == \A m, n \in Nat : IsGcd(gcd[<<m, n>>], m, n)
<1> DEFINE Bad == {n \in Nat : \E m \in Nat : ~ IsGcd(gcd[<<m, n>>], m, n)}
<1> SUFFICES ASSUME Bad # {} PROVE FALSE
  OBVIOUS
<1>1. PICK n \in Bad : \A y \in Bad : n <= y
  BY LeastNumber
<1>2. PICK m \in Nat : ~ IsGcd(gcd[<<m, n>>], m, n)
  BY <1>1
<1>3. n \in Nat
  BY <1>1
<1>4. CASE n = 0
  <2>1. gcd[<<m, n>>] = m
    BY <1>3, <1>4, GcdStep
  <2>2. Divides(m, m) /\ Divides(m, 0)
    <3>1. m = m * 1 /\ 0 = m * 0
      OBVIOUS
    <3> QED
      BY <3>1 DEF Divides
  <2>3. IsGcd(m, m, 0)
    BY <2>2 DEF IsGcd
  <2> QED
    BY <1>2, <1>4, <2>1, <2>3
<1>5. CASE n # 0
  <2> DEFINE r == m % n
             q == m \div n
             g == gcd[<<n, r>>]
  <2>1. q \in Nat /\ r \in Nat /\ r < n /\ m = r + n * q
    BY <1>3, <1>5, DivisionRest
  <2>2. gcd[<<m, n>>] = g
    BY <1>3, <1>5, GcdStep
  <2> HIDE DEF r, q
  <2>3. r \notin Bad
    <3>1. ~ (n <= r)
      BY <1>3, <2>1
    <3> QED
      BY <1>1, <3>1
  <2>4. IsGcd(g, n, r)
    BY <1>3, <2>1, <2>3
  <2> HIDE DEF g, Bad
  <2>5. Divides(g, m)
    <3>1. g \in Int /\ r \in Int /\ n \in Int /\ q \in Int /\ Divides(g, n) /\ Divides(g, r)
      BY <1>3, <2>1, <2>4 DEF IsGcd
    <3>2. Divides(g, r) <=> Divides(g, r + n * q)
      BY <3>1, DividesCombined
    <3> QED
      BY <2>1, <3>1, <3>2
  <2>6. ASSUME NEW s \in Nat, NEW k \in Nat, Divides(s, k * m), Divides(s, k * n)
        PROVE  Divides(s, k * g)
    <3>1. k * m = k * r + (k * n) * q /\ k * r \in Int /\ k * n \in Int
      BY <1>3, <2>1
    <3>2. Divides(s, k * r)
      <4> DEFINE a == k * r
                 b == k * n
      <4>1. a \in Int /\ b \in Int /\ q \in Int /\ s \in Int /\ k * m = a + b * q
        BY <2>1, <3>1
      <4>2. Divides(s, b)
        BY <2>6
      <4> HIDE DEF a, b
      <4>3. Divides(s, a) <=> Divides(s, a + b * q)
        BY <4>1, <4>2, DividesCombined
      <4> QED
        BY <2>6, <4>1, <4>3 DEF a
    <3> QED
      BY <2>4, <2>6, <3>2 DEF IsGcd
  <2>7. g > 0
    BY <1>3, <1>5, <2>4 DEF IsGcd
  <2>8. IsGcd(g, m, n)
    BY <2>4, <2>5, <2>6, <2>7 DEF IsGcd
  <2> QED
    BY <1>2, <2>2, <2>8
<1> QED
  BY <1>4, <1>5

(* The quotient by a divisor *)
LEMMA ExactQuotient ==
  ASSUME NEW g \in Nat, g > 0, NEW a \in Nat, Divides(g, a)
  PROVE  a \div g \in Nat /\ a = g * (a \div g)
<1>1. PICK k \in Int : a = g * k
  BY DEF Divides
<1>2. (g * k) \div g = k
  OBVIOUS
<1>3. k \in Nat
  BY <1>1
<1> QED
  BY <1>1, <1>2, <1>3

-----------------------------------------------------------------------------
(* The share of frames. *)

(* What the ratio of the pipe is after connect_node. *)
Share == gcd[<<src, src - framerate>>]
RatioInv ==
  IF connected /\ src > framerate
  THEN src = Share * denominator /\ src - framerate = Share * numerator
  ELSE numerator = 0 /\ denominator = 1

(* The windows that are complete, and the one that is running: its frames   *)
(* are kept first.                                                          *)
Smaller(a, b) == IF a <= b THEN a ELSE b
Sent(q) == pushed = q * denominator + idx
Got(q) == kept = q * (denominator - numerator) + Smaller(idx, denominator - numerator)
WindowInv ==
  /\ ~ connected => pushed = 0 /\ kept = 0 /\ idx = 0
  /\ \E q \in Nat : Sent(q) /\ Got(q)

SkipInv == SkipTypeOK /\ RatioInv /\ WindowInv

LEMMA NewPipeSkip == pitcher_new_pipe => SkipInv
<1> SUFFICES ASSUME pitcher_new_pipe PROVE SkipInv
  OBVIOUS
<1>1. SkipTypeOK
  <2>1. 0 \in 0 .. 1 /\ 0 \in 0 .. 1 - 1 /\ 0 \in 0 .. 0 /\ 1 \in Nat \ {0} /\ 0 \in 0 .. MaxPushed
    BY SkipAssumption
  <2> QED
    BY <2>1 DEF pitcher_new_pipe, SkipTypeOK
<1>2. Sent(0) /\ Got(0)
  BY DEF pitcher_new_pipe, Sent, Got, Smaller
<1> QED
  BY <1>1, <1>2 DEF pitcher_new_pipe, SkipInv, RatioInv, WindowInv

(* The ratio is reduced, and no more than all frames are skipped. *)
LEMMA ReducedRatio ==
  ASSUME NEW s \in Nat \ {0}, NEW e \in Nat, e <= s
  PROVE  /\ gcd[<<s, e>>] \in Nat \ {0}
         /\ s \div gcd[<<s, e>>] \in Nat \ {0} /\ e \div gcd[<<s, e>>] \in 0 .. s \div gcd[<<s, e>>]
         /\ s = gcd[<<s, e>>] * (s \div gcd[<<s, e>>])
         /\ e = gcd[<<s, e>>] * (e \div gcd[<<s, e>>])
<1> DEFINE g == gcd[<<s, e>>]
<1>1. g \in Nat /\ g > 0 /\ Divides(g, s) /\ Divides(g, e)
  BY GcdCorrect DEF IsGcd
<1> HIDE DEF g
<1> DEFINE a == s \div g
           b == e \div g
<1>2. a \in Nat /\ s = g * a /\ b \in Nat /\ e = g * b
  BY <1>1, ExactQuotient
<1> HIDE DEF a, b
<1>3. a # 0
  BY <1>1, <1>2
<1>4. b <= a
  <2>1. CASE b > a
    <3>1. g * b > g * a
      BY <1>1, <1>2, <2>1
    <3> QED
      BY <1>2, <3>1
  <2> QED
    BY <1>2, <2>1
<1>5. g \in Nat \ {0} /\ a \in Nat \ {0} /\ b \in 0 .. a
  BY <1>1, <1>2, <1>3, <1>4
<1> QED
  BY <1>2, <1>5 DEF g, a, b

(* connect_node: what is set is the share of the frames too many. *)
LEMMA SkipConnect ==
  ASSUME SkipInv, connect_node
  PROVE  SkipInv'
<1>1. /\ ~ connected /\ connected' = TRUE /\ UNCHANGED <<src, dst, idx, pushed, kept>>
      /\ numerator = 0 /\ denominator = 1 /\ pushed = 0 /\ kept = 0 /\ idx = 0
  BY DEF connect_node, SkipInv, RatioInv, WindowInv
<1>2. src \in Nat \ {0} /\ framerate \in Nat /\ framerate' = framerate
  BY <1>1, SkipAssumption DEF SkipInv, SkipTypeOK, framerate
<1>3. CASE ~ (src > framerate)
  <2>1. UNCHANGED <<numerator, denominator>>
    BY <1>2, <1>3 DEF connect_node
  <2>2. SkipTypeOK'
    BY <1>1, <2>1 DEF SkipInv, SkipTypeOK
  <2>3. RatioInv'
    BY <1>1, <1>2, <1>3, <2>1 DEF RatioInv
  <2>4. WindowInv'
    BY <1>1, <2>1 DEF SkipInv, WindowInv, Sent, Got
  <2> QED
    BY <2>2, <2>3, <2>4 DEF SkipInv
<1>4. CASE src > framerate
  <2> DEFINE e == src - framerate
  <2>1. e \in Nat \ {0} /\ e <= src
    BY <1>2, <1>4
  <2>2. numerator' = e \div gcd[<<src, e>>] /\ denominator' = src \div gcd[<<src, e>>]
    <3>1. pitcher_set_pipe_skip(IF e > src THEN src ELSE e, src)
      BY <1>2, <1>4 DEF connect_node, pitcher_set_skip
    <3>2. ~ (e > src) /\ src # 0 /\ e # 0
      BY <1>2, <2>1
    <3> HIDE DEF e
    <3> QED
      BY <3>1, <3>2 DEF pitcher_set_pipe_skip
  <2>3. /\ denominator' \in Nat \ {0} /\ numerator' \in 0 .. denominator'
        /\ src = gcd[<<src, e>>] * denominator' /\ e = gcd[<<src, e>>] * numerator'
    <3> HIDE DEF e
    <3> QED
      BY <1>2, <2>1, <2>2, ReducedRatio
  <2>4. SkipTypeOK'
    <3>1. denominator' \in Nat \ {0} /\ numerator' \in 0 .. denominator'
      BY <2>3
    <3>2. \A d \in Nat \ {0} : 0 \in 0 .. d - 1
      OBVIOUS
    <3> QED
      BY <1>1, <3>1, <3>2, Zenon DEF SkipInv, SkipTypeOK
  <2>5. RatioInv'
    BY <1>1, <1>2, <1>4, <2>3 DEF RatioInv, Share
  <2>6. WindowInv'
    <3>1. denominator' \in Nat \ {0} /\ numerator' \in 0 .. denominator'
      BY <2>3
    <3>2. \A d \in Nat \ {0} : \A n \in 0 .. d : 0 = 0 * d + 0 /\ 0 = 0 * (d - n) + Smaller(0, d - n)
      BY DEF Smaller
    <3>3. Sent(0)' /\ Got(0)'
      BY <1>1, <3>1, <3>2 DEF Sent, Got
    <3> QED
      BY <1>1, <3>3 DEF WindowInv
  <2> QED
    BY <2>4, <2>5, <2>6 DEF SkipInv
<1> QED
  BY <1>3, <1>4

(* What one more frame makes of q full windows and i frames of the next. *)
WindowMoved(d, n, i, q, p, k) ==
    /\ i + 1 # d => /\ p + 1 = q * d + (i + 1)
                    /\ i >= d - n => k = q * (d - n) + Smaller(i + 1, d - n)
                    /\ ~ (i >= d - n) => k + 1 = q * (d - n) + Smaller(i + 1, d - n)
    /\ i + 1 = d /\ n # 0 => i >= d - n /\ p + 1 = (q + 1) * d + 0
                             /\ k = (q + 1) * (d - n) + Smaller(0, d - n)
    /\ n = 0 /\ i = 0 /\ d = 1 => p + 1 = (q + 1) * d + i
                                  /\ k + 1 = (q + 1) * (d - n) + Smaller(i, d - n)
    /\ ~ (i >= d - n) => k + 1 <= p + 1
    /\ k <= p

(* One frame: the window goes on, or is complete. *)
LEMMA WindowStep ==
  ASSUME NEW d \in Nat \ {0}, NEW n \in 0 .. d, NEW i \in 0 .. d - 1, NEW q \in Nat,
         NEW p \in Nat, NEW k \in Nat, p = q * d + i, k = q * (d - n) + Smaller(i, d - n)
  PROVE  WindowMoved(d, n, i, q, p, k)
<1> DEFINE a == q * d
           b == q * (d - n)
<1>1. a \in Nat /\ b \in Nat /\ b <= a
  <2>1. d - n \in Nat /\ d \in Nat /\ d - n <= d
    OBVIOUS
  <2> QED
    BY <2>1
<1>2. (q + 1) * d = a + d /\ (q + 1) * (d - n) = b + (d - n)
  OBVIOUS
<1>3. p = a + i /\ k = b + Smaller(i, d - n)
  OBVIOUS
<1> HIDE DEF a, b
<1>4. /\ i + 1 # d => /\ p + 1 = a + (i + 1)
                      /\ i >= d - n => k = b + Smaller(i + 1, d - n)
                      /\ ~ (i >= d - n) => k + 1 = b + Smaller(i + 1, d - n)
  BY <1>1, <1>3 DEF Smaller
<1>5. i + 1 = d /\ n # 0 => i >= d - n /\ p + 1 = a + d /\ k = b + (d - n) + Smaller(0, d - n)
  BY <1>1, <1>3 DEF Smaller
<1>6. n = 0 /\ i = 0 /\ d = 1 => p + 1 = a + d + i /\ k + 1 = b + (d - n) + Smaller(i, d - n)
  BY <1>1, <1>3 DEF Smaller
<1>7. k <= p /\ k + 1 <= p + 1
  BY <1>1, <1>3 DEF Smaller
<1> QED
  BY <1>1, <1>2, <1>4, <1>5, <1>6, <1>7 DEF a, b, WindowMoved

(* pitcher_pipe_push_back on one frame *)
LEMMA SkipPush ==
  ASSUME SkipInv, pipe_push_back
  PROVE  SkipInv'
<1> DEFINE d == denominator
           n == numerator
           i == idx
<1>1. /\ d \in Nat \ {0} /\ n \in 0 .. d /\ i \in 0 .. d - 1
      /\ pushed \in Nat /\ kept \in Nat /\ MaxPushed \in Nat /\ pushed \in 0 .. MaxPushed
      /\ kept \in 0 .. pushed
  BY SkipAssumption DEF SkipInv, SkipTypeOK
<1>2. /\ connected /\ pushed < MaxPushed /\ pushed' = pushed + 1
      /\ kept' = (IF n # 0 /\ i >= d - n THEN kept ELSE kept + 1)
      /\ idx' = (IF n = 0 THEN i ELSE (i + 1) % d)
      /\ UNCHANGED <<src, dst, connected, numerator, denominator>>
  BY DEF pipe_push_back, check_is_need_skip, next_idx
<1>3. PICK q \in Nat : pushed = q * d + i /\ kept = q * (d - n) + Smaller(i, d - n)
  BY DEF SkipInv, WindowInv, Sent, Got
<1>4. n = 0 => d = 1 /\ i = 0
  <2>1. CASE connected /\ src > framerate
    <3>1. src - framerate = Share * n
      BY <2>1 DEF SkipInv, RatioInv
    <3>2. src - framerate > 0 /\ Share \in Nat
      <4>1. src \in Nat /\ framerate \in Nat /\ src > framerate
        BY <2>1, SkipAssumption DEF SkipInv, SkipTypeOK, framerate
      <4>2. src - framerate \in Nat /\ src - framerate > 0
        BY <4>1
      <4>3. Share \in Nat
        BY <4>1, <4>2, GcdCorrect DEF Share, IsGcd
      <4> QED
        BY <4>2, <4>3
    <3>3. n # 0
      <4> HIDE DEF n
      <4> QED
        BY <3>1, <3>2
    <3> QED
      BY <3>3
  <2>2. CASE ~ (connected /\ src > framerate)
    <3>1. d = 1
      BY <2>2 DEF SkipInv, RatioInv
    <3> QED
      BY <1>1, <3>1
  <2> QED
    BY <2>1, <2>2
<1>5. /\ i + 1 # d => /\ pushed + 1 = q * d + (i + 1)
                      /\ i >= d - n => kept = q * (d - n) + Smaller(i + 1, d - n)
                      /\ ~ (i >= d - n) => kept + 1 = q * (d - n) + Smaller(i + 1, d - n)
      /\ i + 1 = d /\ n # 0 => i >= d - n /\ pushed + 1 = (q + 1) * d + 0
                               /\ kept = (q + 1) * (d - n) + Smaller(0, d - n)
      /\ n = 0 /\ i = 0 /\ d = 1 => pushed + 1 = (q + 1) * d + i
                                    /\ kept + 1 = (q + 1) * (d - n) + Smaller(i, d - n)
  <2>1. WindowMoved(d, n, i, q, pushed, kept)
    <3> HIDE DEF d, n, i
    <3> QED
      BY <1>1, <1>3, WindowStep
  <2> QED
    BY <2>1 DEF WindowMoved
<1>6. /\ i + 1 # d /\ n # 0 => idx' = i + 1
      /\ i + 1 = d /\ n # 0 => idx' = 0
  <2>1. (i + 1 # d => (i + 1) % d = i + 1) /\ (i + 1 = d => (i + 1) % d = 0)
    <3> HIDE DEF d, n, i
    <3> QED
      BY <1>1
  <2> QED
    BY <1>2, <2>1
<1>7. q + 1 \in Nat
  OBVIOUS
<1>8. \E r \in Nat : Sent(r)' /\ Got(r)'
  <2>1. CASE n = 0
    <3>1. Sent(q + 1)' /\ Got(q + 1)'
      BY <1>2, <1>4, <1>5, <2>1 DEF Sent, Got
    <3> QED
      BY <1>7, <3>1
  <2>2. CASE n # 0 /\ i + 1 = d
    <3>1. Sent(q + 1)' /\ Got(q + 1)'
      BY <1>2, <1>5, <1>6, <2>2 DEF Sent, Got
    <3> QED
      BY <1>7, <3>1
  <2>3. CASE n # 0 /\ i + 1 # d
    <3>1. Sent(q)' /\ Got(q)'
      BY <1>2, <1>5, <1>6, <2>3 DEF Sent, Got
    <3> QED
      BY <3>1
  <2> QED
    BY <2>1, <2>2, <2>3
<1>9. SkipTypeOK'
  <2>1. idx' \in 0 .. d - 1
    <3> HIDE DEF d, n, i
    <3> QED
      BY <1>1, <1>2, <1>6
  <2>2. pushed' \in 0 .. MaxPushed /\ kept' \in 0 .. pushed'
    BY <1>1, <1>2
  <2> QED
    BY <1>2, <2>1, <2>2 DEF SkipInv, SkipTypeOK
<1>10. RatioInv'
  BY <1>2 DEF SkipInv, RatioInv, Share, framerate
<1> QED
  BY <1>2, <1>8, <1>9, <1>10 DEF SkipInv, WindowInv

(* The frames kept and sent after q windows and i frames, in shares of g. *)
ShareKept(g, d, n, i, q) ==
    /\ (q * (d - n) + Smaller(i, d - n)) * (g * d) >= (q * d + i) * (g * (d - n))
    /\ i = 0 => (q * (d - n) + Smaller(i, d - n)) * (g * d) = (q * d + i) * (g * (d - n))

(* The encoder is on time at the end of a window and ahead within one. *)
LEMMA ShareArithmetic ==
  ASSUME NEW g \in Nat \ {0}, NEW d \in Nat \ {0}, NEW n \in 0 .. d, NEW i \in 0 .. d - 1, NEW q \in Nat
  PROVE  ShareKept(g, d, n, i, q)
<1> DEFINE w == d - n
           m == Smaller(i, w)
<1>1. w \in Nat /\ w <= d /\ m \in Nat
  BY DEF Smaller
<1>2. m * d >= i * w
  <2>1. CASE i <= w
    <3>1. i * d >= i * w
      BY <1>1
    <3> QED
      BY <2>1, <3>1 DEF Smaller
  <2>2. CASE ~ (i <= w)
    <3>1. w * d >= i * w
      <4>1. d >= i /\ i \in Nat /\ d \in Nat
        OBVIOUS
      <4> HIDE DEF w
      <4> QED
        BY <1>1, <4>1
    <3> QED
      BY <2>2, <3>1 DEF Smaller
  <2> QED
    BY <2>1, <2>2
<1>3. i = 0 => m = 0
  BY <1>1 DEF Smaller
<1> HIDE DEF w, m
<1>4. (q * w + m) * (g * d) = g * (q * w * d + m * d) /\ (q * d + i) * (g * w) = g * (q * w * d + i * w)
  BY <1>1
<1>5. g * (q * w * d + m * d) >= g * (q * w * d + i * w)
  <2> DEFINE x == q * w * d + m * d
             y == q * w * d + i * w
  <2>1. x \in Int /\ y \in Int /\ x >= y
    BY <1>1, <1>2
  <2> HIDE DEF x, y
  <2>2. g * x >= g * y
    BY <2>1
  <2> QED
    BY <2>2 DEF x, y
<1>6. i = 0 => m * d = 0 /\ i * w = 0
  BY <1>1, <1>3
<1>7. i = 0 => g * (q * w * d + m * d) = g * (q * w * d + i * w)
  BY <1>6
<1> QED
  BY <1>4, <1>5, <1>7 DEF w, m, ShareKept

LEMMA SkipStep == SkipInv /\ [SkipNext]_skipVars => SkipInv'
<1> SUFFICES ASSUME SkipInv, [SkipNext]_skipVars PROVE SkipInv'
  OBVIOUS
<1>1. CASE UNCHANGED skipVars
  BY <1>1 DEF skipVars, ratioVars, SkipInv, SkipTypeOK, RatioInv, framerate, Share, WindowInv, Sent, Got
<1>2. CASE Stopped
  BY <1>1, <1>2 DEF Stopped
<1> QED
  BY <1>1, <1>2, SkipConnect, SkipPush DEF SkipNext

(* When the rates divide the frames, a window is complete: the reduced ratio *)
(* has no longer window than needed.                                        *)
LEMMA WindowComplete ==
  ASSUME ~ Jpeg, SkipInv, connected, Slower, (pushed * dst) % src = 0
  PROVE  idx = 0
<1> DEFINE g == Share
           e == src - dst
           d == denominator
<1>1. src \in Nat \ {0} /\ dst \in Nat \ {0} /\ src > dst /\ pushed \in Nat
  BY SkipAssumption DEF SkipInv, SkipTypeOK, Slower
<1>2. e \in Nat /\ dst = src - e
  BY <1>1
<1>3. /\ IsGcd(g, src, e) /\ g > 0 /\ g \in Nat
      /\ src = g * d
  <2> HIDE DEF e
  <2>1. IsGcd(gcd[<<src, e>>], src, e)
    BY <1>1, <1>2, GcdCorrect
  <2>2. g = gcd[<<src, e>>]
    BY DEF Share, e, framerate
  <2>3. src = g * d
    BY DEF SkipInv, RatioInv, Slower, framerate
  <2> QED
    BY <1>1, <2>1, <2>2, <2>3 DEF IsGcd
<1>4. d \in Nat \ {0} /\ idx \in 0 .. d - 1
  BY DEF SkipInv, SkipTypeOK
<1>5. PICK q \in Nat : pushed = q * d + idx
  BY DEF SkipInv, WindowInv, Sent
<1> HIDE DEF g, e, d
<1>6. Divides(src, pushed * src)
  <2>1. pushed * src = src * pushed /\ pushed \in Int
    BY <1>1
  <2> QED
    BY <2>1 DEF Divides
<1>7. Divides(src, pushed * e)
  <2> DEFINE t == (pushed * dst) \div src
  <2>1. pushed * dst \in Nat
    BY <1>1
  <2>2. t \in Nat /\ pushed * dst = ((pushed * dst) % src) + src * t
    <3> DEFINE x == pushed * dst
    <3>1. x \in Nat
      BY <2>1
    <3> HIDE DEF x
    <3>2. x \div src \in Nat /\ x = (x % src) + src * (x \div src)
      BY <1>1, <3>1, DivisionRest
    <3> QED
      BY <3>2 DEF x
  <2> HIDE DEF t
  <2>3. pushed * dst = src * t
    BY <1>1, <2>1, <2>2
  <2>4. pushed * e = src * (pushed - t) /\ pushed - t \in Int
    BY <1>1, <1>2, <2>2, <2>3
  <2> QED
    BY <2>4 DEF Divides
<1>8. Divides(src, pushed * g)
  BY <1>1, <1>3, <1>6, <1>7 DEF IsGcd
<1>9. PICK k \in Int : pushed = d * k
  <2>1. PICK k \in Int : pushed * g = src * k
    BY <1>8 DEF Divides
  <2>2. g * pushed = g * (d * k)
    BY <1>1, <1>3, <1>4, <2>1
  <2>3. pushed = d * k
    <3> DEFINE y == d * k
    <3>1. y \in Int
      BY <1>4
    <3> HIDE DEF y
    <3>2. g * pushed = g * y
      BY <2>2 DEF y
    <3>3. pushed = y
      BY <1>1, <1>3, <3>1, <3>2
    <3> QED
      BY <3>3 DEF y
  <2> QED
    BY <2>3
<1>10. idx = d * (k - q)
  BY <1>4, <1>5, <1>9
<1>11. k - q = 0
  <2> DEFINE z == k - q
  <2>1. z \in Int /\ idx = d * z /\ 0 <= idx /\ idx < d /\ d > 0
    BY <1>4, <1>10
  <2> HIDE DEF z
  <2>2. ~ (z >= 1)
    BY <1>4, <2>1
  <2>3. ~ (z <= -1)
    BY <1>4, <2>1
  <2>4. z = 0
    <3>1. z \in Int
      BY <2>1
    <3> QED
      BY <2>2, <2>3, <3>1
  <2> QED
    BY <2>4 DEF z
<1> QED
  BY <1>4, <1>10, <1>11

LEMMA SkipRate == ~ Jpeg /\ SkipInv => RateKept
<1> SUFFICES ASSUME ~ Jpeg, SkipInv, connected PROVE RateExact /\ NeverBehind
  BY DEF RateKept, RateExact, NeverBehind
<1> DEFINE g == Share
           d == denominator
           n == numerator
<1>1. src \in Nat \ {0} /\ dst \in Nat \ {0} /\ d \in Nat \ {0} /\ n \in 0 .. d /\ idx \in 0 .. d - 1
  BY SkipAssumption DEF SkipInv, SkipTypeOK
<1>2. PICK q \in Nat : pushed = q * d + idx /\ kept = q * (d - n) + Smaller(idx, d - n)
  BY DEF SkipInv, WindowInv, Sent, Got
<1>3. CASE Slower
  <2>1. src = g * d /\ src - dst = g * n /\ g \in Nat \ {0}
    <3>1. src = g * d /\ src - dst = g * n
      BY <1>3 DEF SkipInv, RatioInv, Slower, framerate
    <3>2. src - dst \in Nat /\ src > 0
      BY <1>1, <1>3 DEF Slower
    <3>3. g \in Nat /\ g > 0
      BY <1>1, <3>2, GcdCorrect DEF Share, IsGcd, framerate
    <3> QED
      BY <3>1, <3>3
  <2> HIDE DEF g, d, n
  <2>2. dst = g * (d - n)
    BY <1>1, <2>1
  <2>3. /\ kept * src >= pushed * dst
        /\ idx = 0 => kept * src = pushed * dst
    <3>1. /\ (q * (d - n) + Smaller(idx, d - n)) * (g * d) >= (q * d + idx) * (g * (d - n))
          /\ idx = 0 => (q * (d - n) + Smaller(idx, d - n)) * (g * d) = (q * d + idx) * (g * (d - n))
      <4>1. ShareKept(g, d, n, idx, q)
        BY <1>1, <2>1, ShareArithmetic
      <4> QED
        BY <4>1 DEF ShareKept
    <3> QED
      BY <1>2, <2>1, <2>2, <3>1, Zenon
  <2>4. RateExact
    BY <2>3, WindowComplete DEF RateExact
  <2> QED
    BY <1>3, <2>3, <2>4 DEF NeverBehind
<1>4. CASE ~ Slower
  <2>1. n = 0 /\ d = 1
    BY <1>4 DEF SkipInv, RatioInv, Slower, framerate
  <2>2. idx = 0
    BY <1>1, <2>1
  <2>3. kept = pushed
    BY <1>2, <2>1, <2>2 DEF Smaller
  <2> QED
    BY <1>4, <2>3 DEF RateExact, NeverBehind
<1> QED
  BY <1>3, <1>4

(* The counter of the pipe stays below the denominator of the reduced ratio *)
(* and no more frames arrive than are sent (pipe.c 113-129, 188-216).       *)
THEOREM SkipTypes == SkipSpec => []SkipTypeOK
<1>1. SkipInv => SkipTypeOK
  BY DEF SkipInv
<1> QED
  BY <1>1, NewPipeSkip, SkipStep, PTL DEF SkipSpec

(* For every pair of rates an encoder other than JPEG has exactly its share *)
(* of the frames whenever the rates divide them, and is never behind it in  *)
(* between: the ratio reduced by Euclid's algorithm is the exact one, and   *)
(* its window is no longer than needed (pipe.c 113-129, 188-216).           *)
THEOREM RateIsKept == ~ Jpeg => (SkipSpec => []RateKept)
<1> SUFFICES ASSUME ~ Jpeg PROVE SkipSpec => []RateKept
  OBVIOUS
<1>1. SkipInv => RateKept
  BY SkipRate
<1> QED
  BY <1>1, NewPipeSkip, SkipStep, PTL DEF SkipSpec
=============================================================================
