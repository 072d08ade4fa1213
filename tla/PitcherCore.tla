---------------------------- MODULE PitcherCore ----------------------------
(***************************************************************************)
(* The pitcher framework: channels (core.c), units (unit.c), pipes (pipe.c) *)
(* and reference-counted buffers (buffer.c, obj.c).                         *)
(*                                                                          *)
(* Everything here runs on the loop thread, but not one call at a time: a   *)
(* unit that pushes a buffer calls, through pipe->notify, the channel at    *)
(* the other end of the pipe, which may push in turn.  The C stack of these *)
(* nested runs is the variable stack; a buffer is released while several    *)
(* of them are suspended.  A step is one stretch of code between two calls, *)
(* so that a signal can arrive anywhere between them.                       *)
(***************************************************************************)
EXTENDS Naturals, SequencesExt

CONSTANTS Chn,       \* the channels
          Buffer,    \* identities for the buffers alive at one time
          None,      \* NULL
          Order,     \* core->chns: the channels in the order of registration
          Kind,      \* which unit a channel runs
          Source,    \* the channel at the other end of the input pipe, or None
          Outs,      \* unit->outs: the sinks of a channel, in the order of connection
          Bufs,      \* the buffers a unit allocates when it starts
          MayFail    \* the channels whose pitcher_unit_start can fail

Kinds == {"ctrl", "ifile", "convert", "g2d", "ofile", "output", "capture"}
State == {"STOPPED", "STOPPING", "ACTIVE"}

(* Every channel is registered once, after the channel it reads from, and   *)
(* has one input pipe; a buffer belongs to one unit, which allocates it at  *)
(* one place of its list.                                                   *)
ASSUME CoreAssumption ==
    /\ None \notin Chn /\ None \notin Buffer
    /\ Order \in Seq(Chn)
    /\ Kind \in [Chn -> Kinds]
    /\ Source \in [Chn -> Chn \cup {None}]
    /\ Outs \in [Chn -> Seq(Chn)]
    /\ Bufs \in [Chn -> Seq(Buffer)]
    /\ MayFail \subseteq Chn

ASSUME TopologyAssumption ==
    /\ \A c \in Chn : \E i \in DOMAIN Order : Order[i] = c
    /\ \A i, j \in DOMAIN Order :
          /\ Order[i] = Order[j] => i = j
          /\ Source[Order[j]] = Order[i] => i < j
    /\ \A c, d \in Chn : Source[d] = c <=> \E i \in DOMAIN Outs[c] : Outs[c][i] = d
    /\ \A c \in Chn : \A i, j \in DOMAIN Outs[c] : Outs[c][i] = Outs[c][j] => i = j
    /\ \A c \in Chn : \A i, j \in DOMAIN Bufs[c] : Bufs[c][i] = Bufs[c][j] => i = j
    /\ \A b \in Buffer : \E c \in Chn : b \in ToSet(Bufs[c])
    /\ \A c, d \in Chn : c # d => ToSet(Bufs[c]) \cap ToSet(Bufs[d]) = {}

VARIABLES state,    \* chn->state
          enable,   \* unit->enable (and component->enable of a v4l2 unit)
          end,      \* the unit's own end flag
          pipe,     \* the queue of the input pipe of a channel
          idles,    \* unit->idles
          queued,   \* buffers handed to the driver of a v4l2 capture unit
          done,     \* how many of them, from the front, the driver has filled
          refcnt,   \* obj->refcount
          live,     \* allocated buffers
          pic,      \* the picture in a buffer, 0 when bytesused is 0
          lastf,    \* PITCHER_BUFFER_FLAG_LAST
          call,     \* the channel whose __process_chn_run is entered next
          stack,    \* the suspended pitcher_push_back_output calls
          todo,     \* buffers the running code is about to put, in order
          closing,  \* the channel whose pitcher_unit_stop is running
          failed    \* some channel could not start

bufVars == <<refcnt, live, pic, lastf>>
qVars == <<pipe, idles, queued, done>>
chnVars == <<state, enable, end>>
ctlVars == <<call, stack, todo, closing>>
coreVars == <<chnVars, qVars, bufVars, ctlVars, failed>>

(* A suspended push: the buffer being pushed, the input buffer pitcher_unit_run *)
(* still holds, whether the callback owns a reference to the pushed buffer,     *)
(* and how far the pushes have come: positions 1..n start the stopped sinks,    *)
(* n+1..2n append to the pipes, where n is the number of outputs.               *)
Frame == [chn : Chn, buf : Buffer, inb : Buffer \cup {None},
          own : BOOLEAN, pos : Nat \ {0}]

ChnTypeOK ==
    /\ state \in [Chn -> State]
    /\ enable \in [Chn -> BOOLEAN] /\ end \in [Chn -> BOOLEAN]
QTypeOK ==
    /\ pipe \in [Chn -> Seq(Buffer)] /\ idles \in [Chn -> Seq(Buffer)]
    /\ queued \in [Chn -> Seq(Buffer)] /\ done \in [Chn -> Nat]
BufTypeOK ==
    /\ refcnt \in [Buffer -> Nat] /\ live \subseteq Buffer
    /\ pic \in [Buffer -> Nat] /\ lastf \in [Buffer -> BOOLEAN]
CtlTypeOK ==
    /\ call \in Chn \cup {None} /\ closing \in Chn \cup {None}
    /\ stack \in Seq(Frame) /\ todo \in Seq(Buffer)
CoreTypeOK ==
    ChnTypeOK /\ QTypeOK /\ BufTypeOK /\ CtlTypeOK /\ failed \in BOOLEAN

CoreInit ==
    /\ state = [c \in Chn |-> "STOPPED"]
    /\ enable = [c \in Chn |-> FALSE] /\ end = [c \in Chn |-> FALSE]
    /\ pipe = [c \in Chn |-> <<>>]
    /\ idles = [c \in Chn |-> <<>>]
    /\ queued = [c \in Chn |-> <<>>] /\ done = [c \in Chn |-> 0]
    /\ refcnt = [b \in Buffer |-> 0] /\ live = {}
    /\ pic = [b \in Buffer |-> 0] /\ lastf = [b \in Buffer |-> FALSE]
    /\ call = None /\ stack = <<>> /\ todo = <<>> /\ closing = None
    /\ failed = FALSE

(* No call is running: the loop is between two channels. *)
Idle == call = None /\ stack = <<>> /\ todo = <<>> /\ closing = None

-----------------------------------------------------------------------------
(* Topology. *)

Owner(b) == CHOOSE c \in Chn : b \in ToSet(Bufs[c])

(* enc.c is_source_end: nothing to read and nobody writing *)
is_source_end(c) == /\ pipe[c] = <<>>
                    /\ Source[c] = None \/ state[Source[c]] # "ACTIVE"

get_alive_sink_chn(c) == {d \in Chn : Source[d] = c /\ state[d] # "STOPPED"}

-----------------------------------------------------------------------------
(* Starting a unit. *)

(* The units whose start callback clears their end flag; ifile has none and *)
(* start_v4l2 leaves component->end alone.                                  *)
StartClearsEnd(c) == Kind[c] \in {"convert", "g2d", "ofile"}

(* What the allocation loop can yield: an initial part of the buffers that  *)
(* are not allocated, in the order of Bufs.                                 *)
alloc_buffer(c) ==
    {got \in UNION {[1 .. n -> ToSet(Bufs[c]) \ live] : n \in 0 .. Len(Bufs[c])} :
        \A i \in DOMAIN got : \E p \in DOMAIN Bufs[c] :
            /\ Bufs[c][p] = got[i]
            /\ {Bufs[c][k] : k \in 1 .. p - 1} \ live = {got[j] : j \in 1 .. i - 1}}

(* start_v4l2 on a capture unit: the first pitcher_put_buffer hands the     *)
(* buffers to the driver.  Bound: a unit whose STREAMON failed fails        *)
(* earlier from then on; starting it would write new buffers over the slots *)
(* and lose the old ones for good.                                          *)
start_v4l2(c, got) ==
    /\ queued[c] = <<>>
    /\ queued' = [queued EXCEPT ![c] = @ \o got]
    /\ UNCHANGED <<idles, refcnt>>

(* pitcher_unit_start succeeds with got, the buffers that could be          *)
(* allocated: idle with one reference, or for a capture unit with the       *)
(* driver.                                                                  *)
unit_start(c, got) ==
    /\ Bufs[c] = <<>> \/ got # <<>>
    /\ enable' = [enable EXCEPT ![c] = TRUE]
    /\ end' = [end EXCEPT ![c] = @ /\ ~ StartClearsEnd(c)]
    /\ state' = [state EXCEPT ![c] = "ACTIVE"]
    /\ live' = live \cup ToSet(got)
    /\ IF Kind[c] = "capture"
       THEN start_v4l2(c, got)
       ELSE /\ idles' = [idles EXCEPT ![c] = @ \o got]
            /\ refcnt' = [b \in Buffer |-> IF b \in ToSet(got) THEN 1 ELSE refcnt[b]]
            /\ UNCHANGED queued
    /\ lastf' = [b \in Buffer |-> lastf[b] /\ b \notin ToSet(got)]

(* VIDIOC_STREAMON fails after the buffers went to the driver: the slots    *)
(* keep them, and nobody stops a unit that did not start.                   *)
streamon_fail(c, got) ==
    /\ Kind[c] = "capture"
    /\ live' = live \cup ToSet(got)
    /\ start_v4l2(c, got)
    /\ UNCHANGED <<chnVars, pic, lastf>>

(* __start_chn: returns 0 whether or not the unit started.  A unit that     *)
(* fails otherwise gives its buffers back and the channel stays as it was.  *)
start_chn(c) ==
    \/ /\ state[c] = "ACTIVE"
       /\ UNCHANGED <<chnVars, idles, queued, bufVars, failed>>
    \/ /\ state[c] # "ACTIVE"
       /\ \E got \in alloc_buffer(c) : unit_start(c, got)
       /\ UNCHANGED <<pic, failed>>
    \/ /\ state[c] # "ACTIVE" /\ c \in MayFail
       /\ failed' = TRUE
       /\ \/ UNCHANGED <<chnVars, idles, queued, bufVars>>
          \/ \E got \in alloc_buffer(c) : streamon_fail(c, got)

-----------------------------------------------------------------------------
(* Stopping a unit.  The idle buffers and then the unread input are put     *)
(* while the channel still has its old state; the state changes last.       *)

(* stop_v4l2: the component's end flag is cleared and the buffers in its    *)
(* slots are freed.                                                         *)
stop_v4l2(c) ==
    /\ end' = [end EXCEPT ![c] = @ /\ Kind[c] \notin {"output", "capture"}]
    /\ live' = live \ ToSet(queued[c])
    /\ queued' = [queued EXCEPT ![c] = <<>>]
    /\ done' = [done EXCEPT ![c] = 0]

(* Variant: the slots are not reset. *)
UnitStopKeepsSlots(c) ==
    /\ closing' = c
    /\ enable' = [enable EXCEPT ![c] = FALSE]
    /\ end' = [end EXCEPT ![c] = @ /\ Kind[c] \notin {"output", "capture"}]
    /\ live' = live \ ToSet(queued[c])
    /\ todo' = idles[c] \o pipe[c]
    /\ idles' = [idles EXCEPT ![c] = <<>>]
    /\ pipe' = [pipe EXCEPT ![c] = <<>>]
    /\ UNCHANGED <<state, queued, done, refcnt, pic, lastf, stack, failed>>

unit_stop(c) ==
    /\ closing' = c
    /\ enable' = [enable EXCEPT ![c] = FALSE]
    /\ stop_v4l2(c)
    /\ todo' = idles[c] \o pipe[c]
    /\ idles' = [idles EXCEPT ![c] = <<>>]
    /\ pipe' = [pipe EXCEPT ![c] = <<>>]
    /\ UNCHANGED <<state, refcnt, pic, lastf, stack, failed>>

stop_done ==
    /\ closing # None /\ todo = <<>>
    /\ state' = [state EXCEPT ![closing] = "STOPPED"]
    /\ closing' = None
    /\ UNCHANGED <<enable, end, qVars, bufVars, call, stack, todo, failed>>

(* Variant: the channel does not wait. *)
StoppingAtOnce(c) ==
    /\ call = c /\ state[c] = "STOPPING"
    /\ call' = None
    /\ unit_stop(c)

(* __process_chn_stopping: a channel waits for its sinks before it stops. *)
process_chn_stopping(c) ==
    /\ call = c /\ state[c] = "STOPPING"
    /\ call' = None
    /\ IF get_alive_sink_chn(c) # {}
       THEN UNCHANGED <<chnVars, qVars, bufVars, stack, todo, closing, failed>>
       ELSE unit_stop(c)

(* __process_chn_run on a channel that is not running *)
process_chn_stopped(c) ==
    /\ call = c /\ state[c] = "STOPPED"
    /\ call' = None
    /\ UNCHANGED <<chnVars, qVars, bufVars, stack, todo, closing, failed>>

-----------------------------------------------------------------------------
(* pitcher_put_buffer on the buffers of todo, one after the other. *)

(* pitcher_put_obj: other references remain, or there was none to give up *)
put_shared ==
    /\ todo # <<>> /\ refcnt[Head(todo)] # 1
    /\ refcnt' = [refcnt EXCEPT ![Head(todo)] = IF @ = 0 THEN 0 ELSE @ - 1]
    /\ todo' = Tail(todo)
    /\ UNCHANGED <<chnVars, qVars, live, pic, lastf, call, stack, closing, failed>>

(* __recycle_v4l2_buffer queues the buffer to the driver, or deletes it     *)
(* when the component is stopped or at its end.  At its end it may queue it *)
(* first; nothing is dequeued any more, so only the deletion shows.         *)
recycle_v4l2_buffer(o) == IF enable[o] /\ ~ end[o] THEN "queue" ELSE "delete"

(* pitcher_put_unit_buffer_idle drops the buffer of a disabled unit. *)
put_unit_buffer_idle(o) == IF enable[o] THEN "idle" ELSE "drop"

(* The callbacks of ifile, convert and g2d keep the buffer while their      *)
(* channel is active and not at its end.                                    *)
recycle_buffer(o) == IF state[o] = "ACTIVE" /\ ~ end[o]
                     THEN put_unit_buffer_idle(o)
                     ELSE "delete"

(* Variants: the callback does not ask for deletion; it never keeps a buffer. *)
RecycleKeepsEnded(b) ==
    LET o == Owner(b)
    IN  IF Kind[o] = "capture" THEN "queue"
        ELSE IF state[o] = "ACTIVE" /\ ~ end[o] THEN put_unit_buffer_idle(o) ELSE "drop"

RecycleDeletes(b) == IF Kind[Owner(b)] = "capture" THEN "queue" ELSE "delete"

(* What the recycle callback of the owner does with a released buffer. *)
recycle(b) == IF Kind[Owner(b)] = "capture"
              THEN recycle_v4l2_buffer(Owner(b))
              ELSE recycle_buffer(Owner(b))

(* __release_buffer: the last reference is gone *)
release_buffer ==
    /\ todo # <<>> /\ refcnt[Head(todo)] = 1
    /\ LET b == Head(todo)
           o == Owner(b)
           r == recycle(b)
       IN  /\ lastf' = [lastf EXCEPT ![b] = FALSE]
           /\ refcnt' = [refcnt EXCEPT ![b] = IF r = "idle" THEN 1 ELSE 0]
           /\ idles' = [idles EXCEPT ![o] = IF r = "idle" THEN Append(@, b) ELSE @]
           /\ queued' = [queued EXCEPT ![o] = IF r = "queue" THEN Append(@, b) ELSE @]
           /\ live' = IF r = "delete" THEN live \ {b} ELSE live
    /\ todo' = Tail(todo)
    /\ UNCHANGED <<chnVars, pipe, done, pic, call, stack, closing, failed>>

-----------------------------------------------------------------------------
(* pitcher_push_back_output. *)

(* A run callback calls pitcher_push_back_output. *)
EnterPush(c, b, inb, own) ==
    stack' = Append(stack, [chn |-> c, buf |-> b, inb |-> inb, own |-> own, pos |-> 1])

top == Last(stack)

Advanced == [stack EXCEPT ![Len(stack)].pos = @ + 1]

Running == call = None /\ todo = <<>> /\ closing = None /\ stack # <<>>

(* Variant: stopped sinks are not started. *)
StartNoSink ==
    /\ Running /\ top.pos <= Len(Outs[top.chn])
    /\ stack' = Advanced
    /\ UNCHANGED <<chnVars, qVars, bufVars, failed, call, todo, closing>>

(* __start_sink_chn on the next pipe of the channel *)
start_sink_chn ==
    /\ Running /\ top.pos <= Len(Outs[top.chn])
    /\ LET d == Outs[top.chn][top.pos]
       IN  IF state[d] = "STOPPED"
           THEN start_chn(d)
           ELSE UNCHANGED <<chnVars, idles, queued, bufVars, failed>>
    /\ stack' = Advanced
    /\ UNCHANGED <<pipe, done, call, todo, closing>>

(* pitcher_pipe_push_back: a reference for the queue, then the sink runs *)
pipe_push_back ==
    LET n == Len(Outs[top.chn])
        d == Outs[top.chn][top.pos - n]
    IN  /\ Running /\ top.pos > n /\ top.pos <= 2 * n
        /\ refcnt' = [refcnt EXCEPT ![top.buf] = @ + 1]
        /\ pipe' = [pipe EXCEPT ![d] = Append(@, top.buf)]
        /\ call' = d
        /\ stack' = Advanced
        /\ UNCHANGED <<chnVars, idles, queued, done, live, pic, lastf, todo, closing, failed>>

(* The pushing callback returns: it gives up the buffer it took, and        *)
(* pitcher_unit_run the input buffer.  run_v4l2 and g2d_cvt_run look at     *)
(* the LAST flag before that.                                               *)
push_return ==
    /\ Running /\ top.pos > 2 * Len(Outs[top.chn])
    /\ stack' = Front(stack)
    /\ todo' = (IF top.own THEN <<top.buf>> ELSE <<>>)
               \o (IF top.inb # None THEN <<top.inb>> ELSE <<>>)
    /\ end' = [end EXCEPT ![top.chn] =
                 \/ @
                 \/ Kind[top.chn] = "capture" /\ lastf[top.buf]
                 \/ Kind[top.chn] = "g2d" /\ lastf[top.inb]]
    /\ UNCHANGED <<state, enable, qVars, bufVars, call, closing, failed>>

CoreNext == \/ \E c \in Chn : process_chn_stopping(c) \/ process_chn_stopped(c)
            \/ stop_done
            \/ put_shared
            \/ release_buffer
            \/ start_sink_chn
            \/ pipe_push_back
            \/ push_return
=============================================================================
