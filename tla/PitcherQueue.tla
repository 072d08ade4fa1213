---------------------------- MODULE PitcherQueue ----------------------------
(***************************************************************************)
(* pitcher/queue.c: a doubly linked list of nodes with a pool of idle       *)
(* nodes.  The heap cells have an identity here (Node), because what can    *)
(* go wrong is which list a node is on: list_for_each_entry_safe saves the  *)
(* successor (tmp) before it calls back, and the callback may change the    *)
(* list.  The callbacks of pitcher_queue_enumerate in this program append   *)
(* to the list they run over (registering a channel from a running channel, *)
(* adding a poll fd from a poll callback), the ones of pitcher_queue_clear  *)
(* never touch it.                                                          *)
(***************************************************************************)
EXTENDS Naturals, SequencesExt

CONSTANTS Item,               \* what callers put in a queue
          Node,               \* the cells pitcher_calloc can hand out
          ListHead,           \* the head that closes the circular list
          QUEUE_IDLE_MAX_THD  \* idle nodes a queue keeps

ASSUME QueueAssumption == /\ ListHead \notin Node
                          /\ QUEUE_IDLE_MAX_THD \in Nat
                          /\ Item # {}

VARIABLES queue,     \* nodes of queue->queue in list order
          idles,     \* nodes of queue->idles in list order
          count,     \* queue->count
          idle_num,  \* queue->idle_num
          item,      \* node->item
          heap,      \* the cells allocated for this queue
          it,        \* the running list_for_each_entry_safe: op, node, tmp
          out,       \* the item handed to the caller or callback last
          live       \* the queue exists

vars == <<queue, idles, count, idle_num, item, heap, it, out, live>>

NoIter == [op |-> "none", node |-> ListHead, tmp |-> ListHead]

TypeOK == /\ queue \in Seq(Node) /\ idles \in Seq(Node)
          /\ count \in Nat /\ idle_num \in Nat
          /\ item \in [Node -> Item]
          /\ heap \subseteq Node
          /\ it \in [op : {"none", "enumerate", "clear"},
                     node : Node \cup {ListHead}, tmp : Node \cup {ListHead}]
          /\ out \in Item
          /\ live \in BOOLEAN

pitcher_init_queue == /\ queue = <<>> /\ idles = <<>>
                      /\ count = 0 /\ idle_num = 0
                      /\ item \in [Node -> Item]
                      /\ heap = {}
                      /\ it = NoIter
                      /\ out \in Item
                      /\ live = TRUE

-----------------------------------------------------------------------------
(* The list primitives. *)

Position(q, n) == CHOOSE k \in DOMAIN q : q[k] = n

NextOf(q, n) == LET k == Position(q, n)
                IN  IF k < Len(q) THEN q[k + 1] ELSE ListHead

(* pos = n; n = next(n), where ListHead ends the loop *)
advance(op, q, n) == IF n = ListHead
                     THEN NoIter
                     ELSE [op |-> op, node |-> n, tmp |-> NextOf(q, n)]

get_idle_node(n) == IF idles = <<>>
                    THEN /\ n \in Node \ heap
                         /\ heap' = heap \cup {n}
                         /\ UNCHANGED <<idles, idle_num>>
                    ELSE /\ n = Head(idles)
                         /\ idles' = Tail(idles)
                         /\ idle_num' = idle_num - 1
                         /\ UNCHANGED heap

PutIdleNodeUnlimited(n) == /\ idles' = Append(idles, n)
                           /\ idle_num' = idle_num + 1
                           /\ UNCHANGED heap

PutIdleNodeLeak(n) == IF idle_num < QUEUE_IDLE_MAX_THD
                      THEN PutIdleNodeUnlimited(n)
                      ELSE UNCHANGED <<idles, idle_num, heap>>

put_idle_node(n) == IF idle_num < QUEUE_IDLE_MAX_THD
                    THEN /\ idles' = Append(idles, n)
                         /\ idle_num' = idle_num + 1
                         /\ UNCHANGED heap
                    ELSE /\ heap' = heap \ {n}
                         /\ UNCHANGED <<idles, idle_num>>

remove_queue_node(n) == /\ queue' = RemoveAt(queue, Position(queue, n))
                        /\ count' = count - 1

-----------------------------------------------------------------------------
(* The operations.  A failed pitcher_calloc in push_back changes nothing.   *)

PushBackUncounted(i) ==
    /\ live /\ it.op # "clear"
    /\ \E n \in Node : /\ get_idle_node(n)
                       /\ queue' = Append(queue, n)
                       /\ item' = [item EXCEPT ![n] = i]
    /\ UNCHANGED <<count, it, out, live>>

pitcher_queue_push_back(i) ==
    /\ live /\ it.op # "clear"
    /\ \E n \in Node : /\ get_idle_node(n)
                       /\ queue' = Append(queue, n)
                       /\ item' = [item EXCEPT ![n] = i]
    /\ count' = count + 1
    /\ UNCHANGED <<it, out, live>>

pitcher_queue_pop ==
    /\ live /\ it.op = "none" /\ queue # <<>>
    /\ remove_queue_node(Head(queue))
    /\ put_idle_node(Head(queue))
    /\ out' = item[Head(queue)]
    /\ UNCHANGED <<item, it, live>>

enumerate_begin ==
    /\ live /\ it.op = "none" /\ queue # <<>>
    /\ it' = advance("enumerate", queue, Head(queue))
    /\ out' = item[Head(queue)]
    /\ UNCHANGED <<queue, idles, count, idle_num, item, heap, live>>

(* The successor is looked up again after the callback instead of before. *)
EnumerateReturnLateTmp(rm) ==
    /\ it.op = "enumerate"
    /\ LET late == NextOf(queue, it.node)
       IN  /\ IF rm
              THEN remove_queue_node(it.node) /\ put_idle_node(it.node)
              ELSE UNCHANGED <<queue, count, idles, idle_num, heap>>
           /\ it' = advance("enumerate", queue', late)
           /\ out' = IF late = ListHead THEN out ELSE item[late]
    /\ UNCHANGED <<item, live>>

(* The removed node is recycled while the pass still stands on it. *)
EnumerateReturnStay(rm) ==
    /\ it.op = "enumerate"
    /\ IF rm
       THEN remove_queue_node(it.node) /\ put_idle_node(it.node) /\ UNCHANGED it
       ELSE /\ it' = advance("enumerate", queue', it.tmp)
            /\ UNCHANGED <<queue, count, idles, idle_num, heap>>
    /\ out' = IF it.tmp = ListHead THEN out ELSE item[it.tmp]
    /\ UNCHANGED <<item, live>>

(* The callback on it.node returns rm (non-zero: remove it from the queue). *)
enumerate_return(rm) ==
    /\ it.op = "enumerate"
    /\ IF rm
       THEN remove_queue_node(it.node) /\ put_idle_node(it.node)
       ELSE UNCHANGED <<queue, count, idles, idle_num, heap>>
    /\ it' = advance("enumerate", queue', it.tmp)
    /\ out' = IF it.tmp = ListHead THEN out ELSE item[it.tmp]
    /\ UNCHANGED <<item, live>>

clear_begin ==
    /\ live /\ it.op = "none" /\ queue # <<>>
    /\ it' = advance("clear", queue, Head(queue))
    /\ remove_queue_node(Head(queue))
    /\ out' = item[Head(queue)]
    /\ UNCHANGED <<idles, idle_num, item, heap, live>>

ClearReturnOne ==
    /\ it.op = "clear"
    /\ put_idle_node(it.node)
    /\ it' = NoIter
    /\ UNCHANGED <<queue, count, item, out, live>>

(* The callback returns; its node goes to the pool, the next one is taken. *)
clear_return ==
    /\ it.op = "clear"
    /\ put_idle_node(it.node)
    /\ it' = advance("clear", queue, it.tmp)
    /\ IF it.tmp = ListHead
       THEN UNCHANGED <<queue, count, out>>
       ELSE remove_queue_node(it.tmp) /\ out' = item[it.tmp]
    /\ UNCHANGED <<item, live>>

pitcher_queue_find(i, rm) ==
    /\ live /\ it.op = "none"
    /\ \E k \in DOMAIN queue :
          /\ item[queue[k]] = i
          /\ \A j \in 1 .. k - 1 : item[queue[j]] # i
          /\ IF rm
             THEN remove_queue_node(queue[k]) /\ put_idle_node(queue[k])
             ELSE UNCHANGED <<queue, count, idles, idle_num, heap>>
    /\ out' = i
    /\ UNCHANGED <<item, it, live>>

(* Every queued node goes through the pool (or straight to the heap when    *)
(* the pool is full) and the pool is then emptied.                          *)
pitcher_destroy_queue ==
    /\ live /\ it.op = "none"
    /\ heap' = heap \ (ToSet(queue) \cup ToSet(idles))
    /\ queue' = <<>> /\ idles' = <<>>
    /\ count' = 0 /\ idle_num' = 0
    /\ live' = FALSE
    /\ UNCHANGED <<item, it, out>>

Next == \/ \E i \in Item : pitcher_queue_push_back(i)
        \/ pitcher_queue_pop
        \/ enumerate_begin
        \/ \E rm \in BOOLEAN : enumerate_return(rm)
        \/ clear_begin
        \/ clear_return
        \/ \E i \in Item, rm \in BOOLEAN : pitcher_queue_find(i, rm)
        \/ pitcher_destroy_queue

Spec == pitcher_init_queue /\ [][Next]_vars

-----------------------------------------------------------------------------
(* The node a callback of pitcher_queue_clear runs on is on neither list. *)
Held == IF it.op = "clear" THEN {it.node} ELSE {}

Distinct(s) == \A i, j \in DOMAIN s : s[i] = s[j] => i = j

(* Node conservation (queue.c, __get_idle_node to __remove_queue_node): a   *)
(* cell is on at most one list, at most once, every allocated cell is       *)
(* reachable from the queue, and no freed cell is, whatever passes, pops    *)
(* and appends from callbacks came before.                                  *)
NodesConserved == /\ Distinct(queue) /\ Distinct(idles)
                  /\ ToSet(queue) \cap ToSet(idles) = {}
                  /\ Held \cap (ToSet(queue) \cup ToSet(idles)) = {}
                  /\ heap = ToSet(queue) \cup ToSet(idles) \cup Held

(* The counters follow the lists, and the pool never outgrows               *)
(* QUEUE_IDLE_MAX_THD (queue.c:77): pitcher_queue_count and the pool test   *)
(* read the counters, never the lists.                                      *)
CountersExact == /\ count = Len(queue)
                 /\ idle_num = Len(idles)
                 /\ idle_num <= QUEUE_IDLE_MAX_THD

(* The saved successor of list_for_each_entry_safe stays a node of the      *)
(* list while callbacks append: the pass of enumerate stands on a queued    *)
(* node and tmp is its successor, or the head when that node was the last   *)
(* one on arrival; the pass of clear has removed everything before tmp.     *)
CursorValid ==
    /\ it.op = "enumerate" =>
         \E k \in DOMAIN queue :
            /\ queue[k] = it.node
            /\ \/ it.tmp = ListHead
               \/ k < Len(queue) /\ it.tmp = queue[k + 1]
    /\ it.op = "clear" =>
         /\ it.node \in Node
         /\ it.tmp = IF queue = <<>> THEN ListHead ELSE Head(queue)

(* pitcher_queue_clear is over only when the queue is empty (queue.c:203):  *)
(* a unit that stops leaves no buffer behind in its queues.                 *)
ClearDrains == [][it.op = "clear" /\ it'.op # "clear" => queue' = <<>>]_vars

(* Seen from outside, queue.c is the FIFO with a stable pass of             *)
(* AbstractQueue: nothing is lost, reordered, offered twice or skipped.     *)
Contract == INSTANCE AbstractQueue WITH
               contents <- [k \in DOMAIN queue |-> item[queue[k]]],
               pass <- IF it.op = "enumerate" THEN Position(queue, it.node) ELSE 0,
               isLast <- it.op = "enumerate" /\ it.tmp = ListHead,
               open <- live

ImplementsFifo == Contract!Spec
=============================================================================
