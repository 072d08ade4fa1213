---------------------------- MODULE PitcherLoop ----------------------------
(***************************************************************************)
(* pitcher/loop.c with what core.c does to it: the channels that have a     *)
(* file descriptor own a poll node, the core owns one timer.  A turn of     *)
(* pitcher_loop_run is the timer, a pass over the poll nodes whose time is  *)
(* over, and the batch of events epoll_wait returned.  Each callback runs   *)
(* a channel, which may run its sinks by pushing to them, start a stopped   *)
(* sink (and so register a node) or stop.                                   *)
(***************************************************************************)
EXTENDS Integers, SequencesExt

CONSTANTS Chn,                   \* channels with a descriptor of their own
          Node,                  \* cells for struct pitcher_loop_node
          None,                  \* NULL
          Order,                 \* core->chns
          Source,                \* the channel a channel reads from, or None
          NSEC_PER_MSEC,         \* ticks of the clock in a millisecond
          LOOP_TIMEOUT_DEFAULT,  \* milliseconds between two runs of a node
          ECOUNT,                \* events taken from epoll_wait at a time
          MaxClock               \* bound on the clock

(* A channel is registered after the channel it reads from. *)
ASSUME LoopAssumption ==
    /\ None \notin Chn /\ None \notin Node
    /\ Order \in Seq(Chn) /\ Chn \subseteq ToSet(Order)
    /\ Source \in [Chn -> Chn \cup {None}]
    /\ \A i, j \in DOMAIN Order : Source[Order[j]] = Order[i] => i < j
    /\ NSEC_PER_MSEC \in Nat \ {0} /\ LOOP_TIMEOUT_DEFAULT \in Nat \ {0}
    /\ ECOUNT \in Nat /\ MaxClock \in Nat

VARIABLES state,      \* chn->state
          stack,      \* __process_chn_run calls in progress, innermost last
          node,       \* node->key, node->tv and node->timeout
          heap,       \* allocated nodes
          pools,      \* loop->pools
          interest,   \* epoll: the data pointer registered for a descriptor
          edge,       \* epoll: descriptors with an unreported edge
          batch,      \* the rest of events[]
          task,       \* the node of the core's timer task
          clock,      \* CLOCK_MONOTONIC_RAW
          tv,         \* loop->tv
          left_time,  \* loop->left_time
          running,    \* loop->running
          pc,         \* where the loop thread is
          pos,        \* position of the running enumeration
          isLast,     \* the enumeration ends after this position
          inside,     \* the callback of the enumeration or event is running
          count       \* __timer_func: a channel was not stopped

chnVars == <<state, stack>>
nodeVars == <<node, heap, pools, interest, edge>>
timeVars == <<task, tv, left_time>>
loopVars == <<running, pc, pos, isLast, inside, count, batch>>
vars == <<chnVars, nodeVars, timeVars, loopVars, clock>>

Where == {"start", "abort", "pre", "timer", "pass", "epoll", "wait", "events", "exit"}

(* The values every variable ranges over; what is left of the time of a     *)
(* node never exceeds its interval (loop.c 178-185).                        *)
TypeOK ==
    /\ state \in [Chn -> {"STOPPED", "STOPPING", "ACTIVE"}] /\ stack \in Seq([chn : Chn, sent : SUBSET Chn])
    /\ node \in [Node -> [key : Chn, tv : Nat, timeout : 0 .. LOOP_TIMEOUT_DEFAULT]]
    /\ heap \subseteq Node /\ pools \in Seq(Node)
    /\ interest \in [Chn -> Node \cup {None}] /\ edge \subseteq Chn /\ batch \in Seq(Node)
    /\ task \in [on : BOOLEAN, tv : Nat, timeout : 0 .. LOOP_TIMEOUT_DEFAULT]
    /\ clock \in Nat /\ tv \in Nat /\ left_time \in 0 .. LOOP_TIMEOUT_DEFAULT
    /\ running \in BOOLEAN /\ pc \in Where /\ pos \in Nat
    /\ isLast \in BOOLEAN /\ inside \in BOOLEAN /\ count \in BOOLEAN

Init ==
    /\ state = [c \in Chn |-> "STOPPED"] /\ stack = <<>>
    /\ node \in [Node -> [key : Chn, tv : {0}, timeout : {0}]]
    /\ heap = {} /\ pools = <<>>
    /\ interest = [c \in Chn |-> None] /\ edge = {} /\ batch = <<>>
    /\ task = [on |-> FALSE, tv |-> 0, timeout |-> 0]
    /\ clock = 0 /\ tv = 0 /\ left_time = 0
    /\ running = FALSE /\ pc = "start" /\ pos = 1
    /\ isLast = FALSE /\ inside = FALSE /\ count = FALSE

Earlier(a, b) == IF a < b THEN a ELSE b

-----------------------------------------------------------------------------
(* Poll nodes. *)

(* Registration.  The descriptor of a channel that stopped and whose node   *)
(* is still there is refused by epoll_ctl (EEXIST), and the old node stays. *)
pitcher_loop_add_poll_fd(c) ==
    IF interest[c] # None
    THEN UNCHANGED nodeVars
    ELSE \E n \in Node \ heap :
            /\ node' = [node EXCEPT ![n] = [key |-> c, tv |-> clock,
                                            timeout |-> LOOP_TIMEOUT_DEFAULT]]
            /\ heap' = heap \cup {n}
            /\ pools' = Append(pools, n)
            /\ interest' = [interest EXCEPT ![c] = n]
            /\ UNCHANGED edge

(* Variant: every node of the pass is deleted, whatever its key. *)
DelPollAll(c) ==
    /\ pools' = <<>>
    /\ heap' = heap \ ToSet(pools)
    /\ interest' = [d \in Chn |-> None]
    /\ edge' = {}
    /\ UNCHANGED node

(* Variant: the descriptor stays registered. *)
FreePollNodeKeepsFd(i) ==
    /\ pools' = RemoveAt(pools, i)
    /\ heap' = heap \ {pools[i]}
    /\ UNCHANGED <<node, interest, edge>>

(* __free_poll_node on an entry of the list, which then leaves the list *)
free_poll_node(i) ==
    LET n == pools[i]
    IN  /\ pools' = RemoveAt(pools, i)
        /\ heap' = heap \ {n}
        /\ interest' = [interest EXCEPT ![node[n].key] = None]
        /\ edge' = edge \ {node[n].key}
        /\ UNCHANGED node

(* __del_poll on every entry: the node with the key of c, if c has one, is  *)
(* freed (EpollExact: there is never a second one).                         *)
del_poll(c) ==
    \/ \E i \in DOMAIN pools : node[pools[i]].key = c /\ free_poll_node(i)
    \/ (\A i \in DOMAIN pools : node[pools[i]].key # c) /\ UNCHANGED nodeVars

-----------------------------------------------------------------------------
(* Channels. *)

(* __start_chn on a stopped channel; the unit may fail to start. *)
start_chn(c) ==
    \/ /\ state' = [state EXCEPT ![c] = "ACTIVE"]
       /\ pitcher_loop_add_poll_fd(c)
    \/ UNCHANGED <<state, nodeVars>>

pitcher_start ==
    /\ pc = "start" /\ pos <= Len(Order)
    /\ start_chn(Order[pos])
    /\ pos' = pos + 1
    /\ UNCHANGED <<stack, timeVars, running, pc, isLast, inside, count, batch, clock>>

(* pitcher_start stops everything if a channel did not start. *)
pitcher_start_end ==
    /\ pc = "start" /\ pos > Len(Order)
    /\ pc' = "abort"
    /\ pos' = IF \A c \in Chn : state[c] = "ACTIVE" THEN pos ELSE 1
    /\ UNCHANGED <<chnVars, nodeVars, timeVars, running, isLast, inside, count, batch, clock>>

(* __stop_chn *)
stop_chn ==
    /\ pc = "abort" /\ pos <= Len(Order)
    /\ IF state[Order[pos]] = "STOPPED"
       THEN UNCHANGED <<state, nodeVars>>
       ELSE /\ del_poll(Order[pos])
            /\ state' = [state EXCEPT ![Order[pos]] = "STOPPED"]
    /\ pos' = pos + 1
    /\ UNCHANGED <<stack, timeVars, running, pc, isLast, inside, count, batch, clock>>

(* An interval of 0 becomes the default; then pitcher_loop_start. *)
pitcher_loop_add_task ==
    /\ pc = "abort" /\ pos > Len(Order)
    /\ task' = [on |-> TRUE, tv |-> clock, timeout |-> LOOP_TIMEOUT_DEFAULT]
    /\ running' = TRUE /\ pc' = "pre"
    /\ UNCHANGED <<chnVars, nodeVars, tv, left_time, pos, isLast, inside, count, batch, clock>>

(* A call of __process_chn_run: the channel, and the sinks its unit has     *)
(* pushed to; one run of a unit pushes at most one buffer.                  *)
Call(c) == <<[chn |-> c, sent |-> {}]>>
top == Last(stack).chn
Rest == <<timeVars, loopVars, clock>>

(* pitcher_push_back_output in the run of an active channel: a stopped sink *)
(* is started, and every sink is run.                                       *)
Pushes(d) == stack # <<>> /\ state[top] = "ACTIVE" /\ Source[d] = top /\ d \notin Last(stack).sent

start_sink_chn(d) ==
    /\ Pushes(d) /\ state[d] = "STOPPED"
    /\ start_chn(d)
    /\ UNCHANGED <<stack, Rest>>

pipe_push_back(d) ==
    /\ Pushes(d)
    /\ stack' = [stack EXCEPT ![Len(stack)].sent = @ \cup {d}] \o Call(d)
    /\ UNCHANGED <<state, nodeVars, Rest>>

(* The run is over; the unit may have reported its end, among others for an *)
(* error of the device (POLLERR).                                           *)
process_chn_active ==
    /\ stack # <<>> /\ state[top] = "ACTIVE"
    /\ \E s \in {"ACTIVE", "STOPPING"} : state' = [state EXCEPT ![top] = s]
    /\ stack' = Front(stack)
    /\ UNCHANGED <<nodeVars, Rest>>

(* A channel at its end waits for its sinks; a stopped one does nothing. *)
process_chn_stopping ==
    /\ stack # <<>> /\ state[top] # "ACTIVE"
    /\ state' = [state EXCEPT ![top] =
                   IF \E d \in Chn : Source[d] = top /\ state[d] # "STOPPED"
                   THEN @ ELSE "STOPPED"]
    /\ stack' = Front(stack)
    /\ UNCHANGED <<nodeVars, Rest>>

-----------------------------------------------------------------------------
(* One turn of the loop. *)

pre_process ==
    /\ pc = "pre"
    /\ IF running
       THEN pc' = "timer" /\ tv' = clock /\ left_time' = LOOP_TIMEOUT_DEFAULT
       ELSE pc' = "exit" /\ UNCHANGED <<tv, left_time>>
    /\ UNCHANGED <<chnVars, nodeVars, task, running, pos, isLast, inside, count, batch, clock>>

(* The pass over the poll nodes begins: pitcher_queue_enumerate decides on  *)
(* arrival at a node whether it is the last one.                            *)
Arrive(k, q) ==
    /\ pos' = k
    /\ isLast' = (k >= Len(q))
    /\ pc' = IF k > Len(q) THEN "wait" ELSE "epoll"

(* loop.c __timer_func on the core's task *)
timer_func ==
    LET delta == (tv - task.tv) \div NSEC_PER_MSEC
        due == delta >= task.timeout
    IN  /\ pc = "timer"
        /\ task' = [task EXCEPT !.tv = tv,
                       !.timeout = IF due THEN LOOP_TIMEOUT_DEFAULT ELSE @ - delta]
        /\ IF due
           THEN pc' = "pass" /\ pos' = 1 /\ count' = FALSE /\ UNCHANGED <<left_time, isLast>>
           ELSE /\ left_time' = Earlier(left_time, task.timeout - delta)
                /\ Arrive(1, pools)
                /\ UNCHANGED count
        /\ UNCHANGED <<chnVars, nodeVars, tv, running, inside, batch, clock>>

(* core.c __run_chn: the channel at pos, before and after its run *)
run_chn ==
    /\ pc = "pass" /\ pos <= Len(Order) /\ stack = <<>>
    /\ IF ~ inside /\ state[Order[pos]] # "STOPPED"
       THEN /\ inside' = TRUE /\ stack' = Call(Order[pos])
            /\ UNCHANGED <<pos, count>>
       ELSE /\ inside' = FALSE /\ pos' = pos + 1
            /\ count' = (count \/ state[Order[pos]] # "STOPPED")
            /\ UNCHANGED stack
    /\ UNCHANGED <<state, nodeVars, timeVars, running, pc, isLast, batch, clock>>

(* core.c __timer_func returns: without a living channel the loop is told   *)
(* to stop and the task is deleted.                                         *)
timer_return ==
    /\ pc = "pass" /\ pos > Len(Order)
    /\ running' = count
    /\ task' = [task EXCEPT !.on = count]
    /\ left_time' = IF count THEN Earlier(left_time, task.timeout) ELSE left_time
    /\ Arrive(1, pools)
    /\ UNCHANGED <<chnVars, nodeVars, tv, inside, count, batch, clock>>

(* The pass over the nodes goes on: list_for_each_entry_safe has read the   *)
(* next entry before the callback ran.                                      *)
NextNode == IF isLast THEN pc' = "wait" /\ UNCHANGED <<pos, isLast>> ELSE Arrive(pos + 1, pools)

(* Variant: the difference is signed. *)
DueSigned(n) == (tv - node[n].tv) \div NSEC_PER_MSEC >= node[n].timeout

(* loop->tv - node->tv is unsigned: the time of a node registered since     *)
(* loop->tv was read wraps to a huge delta, and the node is due.            *)
Due(n) == \/ tv < node[n].tv
          \/ (tv - node[n].tv) \div NSEC_PER_MSEC >= node[n].timeout

(* __epoll_func on the node at pos; when it is due, __poll_func without an  *)
(* event runs its channel unless that is stopped.                           *)
epoll_func ==
    LET n == pools[pos]
        c == node[n].key
    IN  /\ pc = "epoll" /\ ~ inside
        /\ IF Due(n)
           THEN /\ node' = [node EXCEPT ![n].tv = tv, ![n].timeout = LOOP_TIMEOUT_DEFAULT]
                /\ inside' = TRUE
                /\ stack' = IF state[c] = "STOPPED" THEN <<>> ELSE Call(c)
                /\ UNCHANGED <<left_time, pos, isLast, pc>>
           ELSE /\ node' = [node EXCEPT ![n].tv = tv,
                               ![n].timeout = @ - (tv - node[n].tv) \div NSEC_PER_MSEC]
                /\ left_time' = Earlier(left_time, node'[n].timeout)
                /\ NextNode
                /\ UNCHANGED <<inside, stack>>
        /\ UNCHANGED <<state, heap, pools, interest, edge, task, tv, running, count, batch, clock>>

(* Variants: the node goes when its channel is at its end; it never goes.   *)
EpollReturnEnded ==
    LET n == pools[pos]
    IN  /\ pc = "epoll" /\ inside /\ stack = <<>>
        /\ inside' = FALSE
        /\ IF state[node[n].key] # "ACTIVE"
           THEN /\ free_poll_node(pos)
                /\ IF isLast THEN pc' = "wait" /\ UNCHANGED <<pos, isLast>>
                             ELSE Arrive(pos, pools')
                /\ UNCHANGED left_time
           ELSE /\ left_time' = Earlier(left_time, node[n].timeout)
                /\ NextNode
                /\ UNCHANGED nodeVars
        /\ UNCHANGED <<chnVars, task, tv, running, count, batch, clock>>

EpollReturnKeeps ==
    LET n == pools[pos]
    IN  /\ pc = "epoll" /\ inside /\ stack = <<>>
        /\ inside' = FALSE
        /\ left_time' = Earlier(left_time, node[n].timeout)
        /\ NextNode
        /\ UNCHANGED <<nodeVars, chnVars, task, tv, running, count, batch, clock>>

(* __poll_func returns to __epoll_func: a node whose channel is stopped is  *)
(* freed.                                                                   *)
epoll_return ==
    LET n == pools[pos]
    IN  /\ pc = "epoll" /\ inside /\ stack = <<>>
        /\ inside' = FALSE
        /\ IF state[node[n].key] = "STOPPED"
           THEN /\ free_poll_node(pos)
                /\ IF isLast THEN pc' = "wait" /\ UNCHANGED <<pos, isLast>>
                             ELSE Arrive(pos, pools')
                /\ UNCHANGED left_time
           ELSE /\ left_time' = Earlier(left_time, node[n].timeout)
                /\ NextNode
                /\ UNCHANGED nodeVars
        /\ UNCHANGED <<chnVars, task, tv, running, count, batch, clock>>

(* epoll_wait hands out the edges of up to ECOUNT descriptors, none of them *)
(* when the time is over or a signal arrives.                               *)
epoll_wait ==
    /\ pc = "wait" /\ pc' = "events"
    /\ \E s \in UNION {[1 .. k -> edge] : k \in 0 .. ECOUNT} :
          /\ IsInjective(s)
          /\ batch' = [i \in DOMAIN s |-> interest[s[i]]]
          /\ edge' = edge \ ToSet(s)
    /\ UNCHANGED <<chnVars, node, heap, pools, interest, timeVars, running, pos, isLast,
                   inside, count, clock>>

(* __poll_func on the next event; an event the channel did not ask for does *)
(* not run it.                                                              *)
poll_func ==
    LET c == node[Head(batch)].key
    IN  /\ pc = "events" /\ ~ inside /\ batch # <<>>
        /\ inside' = TRUE
        /\ \E wanted \in BOOLEAN :
              stack' = IF wanted /\ state[c] # "STOPPED" THEN Call(c) ELSE <<>>
        /\ UNCHANGED <<state, nodeVars, timeVars, running, pc, pos, isLast, count, batch, clock>>

poll_return ==
    LET c == node[Head(batch)].key
    IN  /\ pc = "events" /\ inside /\ stack = <<>>
        /\ inside' = FALSE /\ batch' = Tail(batch)
        /\ IF state[c] = "STOPPED" THEN del_poll(c) ELSE UNCHANGED nodeVars
        /\ UNCHANGED <<chnVars, timeVars, running, pc, pos, isLast, count, clock>>

events_end ==
    /\ pc = "events" /\ ~ inside /\ batch = <<>>
    /\ pc' = "pre"
    /\ UNCHANGED <<chnVars, nodeVars, timeVars, running, pos, isLast, inside, count, batch, clock>>

-----------------------------------------------------------------------------
(* The environment: time passes, devices become ready. *)

Tick ==
    /\ pc # "exit" /\ clock < MaxClock
    /\ clock' = clock + 1
    /\ UNCHANGED <<chnVars, nodeVars, timeVars, loopVars>>

DeviceReady(c) ==
    /\ pc # "exit" /\ interest[c] # None /\ c \notin edge
    /\ edge' = edge \cup {c}
    /\ UNCHANGED <<chnVars, node, heap, pools, interest, timeVars, loopVars, clock>>

Exited == pc = "exit" /\ UNCHANGED vars

Next == \/ pitcher_start \/ pitcher_start_end \/ stop_chn \/ pitcher_loop_add_task
        \/ pre_process \/ timer_func \/ run_chn \/ timer_return
        \/ epoll_func \/ epoll_return \/ epoll_wait
        \/ poll_func \/ poll_return \/ events_end
        \/ \E d \in Chn : start_sink_chn(d) \/ pipe_push_back(d)
        \/ process_chn_active \/ process_chn_stopping
        \/ Tick \/ \E c \in Chn : DeviceReady(c)
        \/ Exited

Spec == Init /\ [][Next]_vars

-----------------------------------------------------------------------------
(* The list of nodes, the epoll set and the heap agree: every node is       *)
(* listed once, and the pointer epoll holds for a descriptor is the one     *)
(* node of its channel (__free_poll_node, pitcher_loop_add_poll_fd).        *)
EpollExact ==
    /\ IsInjective(pools) /\ ToSet(pools) = heap
    /\ \A c \in Chn, n \in Node : interest[c] = n <=> n \in heap /\ node[n].key = c

(* The events still to be handled point to nodes that are allocated,        *)
(* although handling the ones before them may have stopped channels and     *)
(* freed nodes (__process_poll).                                            *)
BatchSafe == ToSet(batch) \subseteq heap

(* A channel that runs keeps its descriptor registered, also when it was    *)
(* stopped and is started again while its old node is still there           *)
(* (__start_chn, __poll_func).                                              *)
Served == \A c \in Chn : state[c] # "STOPPED" => interest[c] # None

(* The loop ends only when every channel is stopped.  A poll node left for  *)
(* pitcher_close_loop, which reads the descriptor in a channel that is      *)
(* freed by then, can only be one that a push registered anew within the    *)
(* last millisecond: those of the first start are gone (core.c and loop.c   *)
(* __timer_func, __epoll_func).                                             *)
ExitClean ==
    pc = "exit" => /\ \A c \in Chn : state[c] = "STOPPED"
                   /\ \A n \in heap : Source[node[n].key] # None
=============================================================================
