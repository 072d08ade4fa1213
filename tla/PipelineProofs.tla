--------------------------- MODULE PipelineProofs ---------------------------
(***************************************************************************)
(* Proofs about VpuPipeline, for every topology, every set of buffers and   *)
(* every behaviour of the driver.                                           *)
(***************************************************************************)
EXTENDS VpuPipeline, SequenceTheorems, FiniteSetTheorems, TLAPS

(* A frame that moves on is a frame of the same channel. *)
LEMMA FrameNext ==
    ASSUME NEW t \in Frame
    PROVE  [t EXCEPT !.pos = @ + 1] \in Frame /\ [t EXCEPT !.pos = @ + 1].chn = t.chn
BY DEF Frame

USE CoreAssumption

-----------------------------------------------------------------------------
(* Facts about the operators. *)

(* What the allocation loop yields is a sequence of buffers. *)
LEMMA AllocType ==
    ASSUME NEW c \in Chn, NEW got \in alloc_buffer(c)
    PROVE  got \in Seq(Buffer) /\ ToSet(got) \subseteq Buffer
<1>1. ToSet(Bufs[c]) \subseteq Buffer
  BY DEF ToSet
<1>2. PICK n \in 0 .. Len(Bufs[c]) : got \in [1 .. n -> ToSet(Bufs[c]) \ live]
  <2>1. got \in UNION {[1 .. n -> ToSet(Bufs[c]) \ live] : n \in 0 .. Len(Bufs[c])}
    BY DEF alloc_buffer
  <2> QED
    BY <2>1, Zenon
<1>3. Len(Bufs[c]) \in Nat
  OBVIOUS
<1>4. n \in Nat /\ got \in [1 .. n -> Buffer]
  BY <1>1, <1>2, <1>3
<1>5. got \in Seq(Buffer)
  BY <1>4, IsASeq
<1> QED
  BY <1>4, <1>5 DEF ToSet

(* The types of what starting a channel changes, after the step *)
Started ==
    /\ ChnTypeOK' /\ BufTypeOK' /\ failed' \in BOOLEAN
    /\ idles' \in [Chn -> Seq(Buffer)] /\ queued' \in [Chn -> Seq(Buffer)]
    /\ \A d \in Chn : Len(queued'[d]) >= Len(queued[d])

(* Starting a channel keeps the types of what it changes, and the driver    *)
(* keeps the buffers it has (core.c __start_chn).                           *)
LEMMA StartType ==
    ASSUME CoreTypeOK, NEW c \in Chn, start_chn(c)
    PROVE  Started
<1>0. \A d \in Chn : Len(queued[d]) \in Nat
  BY DEF CoreTypeOK, QTypeOK
<1>1. CASE UNCHANGED <<chnVars, idles, queued, bufVars>> /\ failed' \in BOOLEAN
  <2>1. queued' = queued
    BY <1>1
  <2>2. \A d \in Chn : Len(queued'[d]) >= Len(queued[d])
    BY <1>0, <2>1
  <2>3. ChnTypeOK'
    BY <1>1 DEF CoreTypeOK, ChnTypeOK, chnVars
  <2>4. BufTypeOK'
    BY <1>1 DEF CoreTypeOK, BufTypeOK, bufVars
  <2> QED
    BY <1>1, <2>2, <2>3, <2>4 DEF CoreTypeOK, QTypeOK, Started
<1>2. ASSUME NEW got \in alloc_buffer(c), unit_start(c, got), UNCHANGED <<pic, failed>>
      PROVE  Started
  <2>1. got \in Seq(Buffer) /\ ToSet(got) \subseteq Buffer
    BY AllocType
  <2>2. ChnTypeOK' /\ failed' \in BOOLEAN
    BY <1>2 DEF CoreTypeOK, ChnTypeOK, unit_start, start_v4l2, State
  <2>3. /\ live' \subseteq Buffer /\ lastf' \in [Buffer -> BOOLEAN]
        /\ pic' \in [Buffer -> Nat]
    BY <1>2, <2>1, Zenon DEF CoreTypeOK, BufTypeOK, unit_start, start_v4l2
  <2>4. CASE Kind[c] = "capture"
    <3>1. /\ queued' = [queued EXCEPT ![c] = @ \o got]
          /\ UNCHANGED <<idles, refcnt>>
      BY <1>2, <2>4 DEF unit_start, start_v4l2
    <3>2. /\ queued' \in [Chn -> Seq(Buffer)]
          /\ \A d \in Chn : Len(queued'[d]) >= Len(queued[d])
      BY <1>0, <2>1, <3>1, ConcatProperties DEF CoreTypeOK, QTypeOK
    <3> QED
      BY <2>2, <2>3, <3>1, <3>2, Zenon DEF CoreTypeOK, QTypeOK, BufTypeOK, Started
  <2>5. CASE Kind[c] # "capture"
    <3>1. /\ idles' = [idles EXCEPT ![c] = @ \o got]
          /\ refcnt' = [b \in Buffer |-> IF b \in ToSet(got) THEN 1 ELSE refcnt[b]]
          /\ UNCHANGED queued
      BY <1>2, <2>5 DEF unit_start, start_v4l2
    <3>2. idles' \in [Chn -> Seq(Buffer)]
      BY <2>1, <3>1, ConcatProperties DEF CoreTypeOK, QTypeOK
    <3>3. refcnt' \in [Buffer -> Nat]
      BY <3>1 DEF CoreTypeOK, BufTypeOK
    <3>4. \A d \in Chn : Len(queued'[d]) >= Len(queued[d])
      BY <1>0, <3>1
    <3> QED
      BY <2>2, <2>3, <3>1, <3>2, <3>3, <3>4, Zenon DEF CoreTypeOK, QTypeOK, BufTypeOK, Started
  <2> QED
    BY <2>4, <2>5
<1>3. ASSUME NEW got \in alloc_buffer(c), streamon_fail(c, got), failed' = TRUE
      PROVE  Started
  <2>1. got \in Seq(Buffer) /\ ToSet(got) \subseteq Buffer
    BY AllocType
  <2>2. queued' = [queued EXCEPT ![c] = @ \o got]
    BY <1>3 DEF streamon_fail, start_v4l2
  <2>3. /\ queued' \in [Chn -> Seq(Buffer)]
        /\ \A d \in Chn : Len(queued'[d]) >= Len(queued[d])
    BY <1>0, <2>1, <2>2, ConcatProperties DEF CoreTypeOK, QTypeOK
  <2>4. ChnTypeOK'
    BY <1>3 DEF CoreTypeOK, ChnTypeOK, streamon_fail, start_v4l2, chnVars
  <2>5. BufTypeOK'
    BY <1>3, <2>1 DEF CoreTypeOK, BufTypeOK, streamon_fail, start_v4l2
  <2>6. idles' \in [Chn -> Seq(Buffer)]
    BY <1>3 DEF CoreTypeOK, QTypeOK, streamon_fail, start_v4l2
  <2> QED
    BY <1>3, <2>3, <2>4, <2>5, <2>6 DEF Started
<1>4. failed' \in BOOLEAN
  BY Zenon DEF start_chn, CoreTypeOK
<1> QED
  BY <1>1, <1>2, <1>3, <1>4, Zenon DEF start_chn

(* Stopping a unit keeps the types of what it changes (unit.c               *)
(* pitcher_unit_stop).                                                      *)
LEMMA StopType ==
    ASSUME CoreTypeOK, NEW c \in Chn, unit_stop(c)
    PROVE  /\ ChnTypeOK' /\ QTypeOK' /\ BufTypeOK' /\ failed' \in BOOLEAN
           /\ closing' \in Chn /\ stack' \in Seq(Frame) /\ todo' \in Seq(Buffer)
<1>1. ChnTypeOK' /\ failed' \in BOOLEAN
  BY DEF CoreTypeOK, ChnTypeOK, unit_stop, stop_v4l2
<1>2. QTypeOK'
  BY DEF CoreTypeOK, QTypeOK, unit_stop, stop_v4l2
<1>3. BufTypeOK'
  BY DEF CoreTypeOK, BufTypeOK, unit_stop, stop_v4l2
<1>4. todo' \in Seq(Buffer)
  BY ConcatProperties DEF CoreTypeOK, QTypeOK, unit_stop, stop_v4l2
<1> QED
  BY <1>1, <1>2, <1>3, <1>4 DEF CoreTypeOK, CtlTypeOK, unit_stop, stop_v4l2

(* What a step leaves alone keeps its type. *)
LEMMA SameType ==
    ASSUME TypeOK
    PROVE  /\ UNCHANGED chnVars => ChnTypeOK'
           /\ UNCHANGED qVars => QTypeOK'
           /\ UNCHANGED bufVars => BufTypeOK'
           /\ UNCHANGED ctlVars => CtlTypeOK'
           /\ UNCHANGED failed => failed' \in BOOLEAN
           /\ UNCHANGED mainVars => MainTypeOK'
           /\ UNCHANGED decVars => DecTypeOK'
           /\ UNCHANGED drvVars => DrvTypeOK'
           /\ UNCHANGED appVars => AppTypeOK'
<1>1. UNCHANGED chnVars => ChnTypeOK'
  BY DEF TypeOK, CoreTypeOK, ChnTypeOK, chnVars
<1>2. UNCHANGED qVars => QTypeOK'
  BY DEF TypeOK, CoreTypeOK, QTypeOK, qVars
<1>3. UNCHANGED bufVars => BufTypeOK'
  BY DEF TypeOK, CoreTypeOK, BufTypeOK, bufVars
<1>4. UNCHANGED ctlVars => CtlTypeOK'
  BY DEF TypeOK, CoreTypeOK, CtlTypeOK, ctlVars
<1>5. UNCHANGED failed => failed' \in BOOLEAN
  BY DEF TypeOK, CoreTypeOK
<1>6. UNCHANGED mainVars => MainTypeOK'
  BY DEF TypeOK, MainTypeOK, mainVars
<1>7. UNCHANGED decVars => DecTypeOK'
  BY DEF TypeOK, DecTypeOK, decVars
<1>8. UNCHANGED drvVars => DrvTypeOK'
  BY DEF TypeOK, DrvTypeOK, drvVars
<1>9. UNCHANGED appVars => AppTypeOK'
  BY DEF TypeOK, AppTypeOK, appVars
<1> QED
  BY <1>1, <1>2, <1>3, <1>4, <1>5, <1>6, <1>7, <1>8, <1>9

(* The frame on top of the stack, and the stack after it moved on or was    *)
(* removed.                                                                 *)
LEMMA StackShape ==
    ASSUME CtlTypeOK, stack # <<>>
    PROVE  /\ Len(stack) \in DOMAIN stack /\ top = stack[Len(stack)] /\ top \in Frame
           /\ Advanced \in Seq(Frame) /\ DOMAIN Advanced = DOMAIN stack
           /\ \A i \in DOMAIN stack : Advanced[i].chn = stack[i].chn
           /\ Front(stack) \in Seq(Frame) /\ DOMAIN Front(stack) \subseteq DOMAIN stack
           /\ \A i \in DOMAIN Front(stack) : Front(stack)[i] = stack[i]
<1>1. stack \in Seq(Frame)
  BY DEF CtlTypeOK
<1>2. Len(stack) \in Nat /\ Len(stack) # 0 /\ DOMAIN stack = 1 .. Len(stack)
  BY <1>1, EmptySeq, LenProperties
<1>3. top = stack[Len(stack)] /\ top \in Frame
  BY <1>1, <1>2 DEF top, Last
<1>4. [top EXCEPT !.pos = @ + 1] \in Frame /\ [top EXCEPT !.pos = @ + 1].chn = top.chn
  BY <1>3, FrameNext
<1>5. Advanced = [stack EXCEPT ![Len(stack)] = [top EXCEPT !.pos = @ + 1]]
  BY <1>1, <1>2, <1>3 DEF Advanced
<1>6. Advanced \in Seq(Frame) /\ DOMAIN Advanced = DOMAIN stack
  BY <1>1, <1>2, <1>4, <1>5, ExceptSeq
<1>7. \A i \in DOMAIN stack : Advanced[i].chn = stack[i].chn
  BY <1>1, <1>2, <1>3, <1>4, <1>5
<1>8. /\ Front(stack) \in Seq(Frame) /\ DOMAIN Front(stack) \subseteq DOMAIN stack
      /\ \A i \in DOMAIN Front(stack) : Front(stack)[i] = stack[i]
  BY <1>1, <1>2, SubSeqProperties DEF Front
<1> QED
  BY <1>2, <1>3, <1>6, <1>7, <1>8

(* A sink of a channel is a channel registered after it. *)
LEMMA SinkOf ==
    ASSUME NEW c \in Chn, NEW k \in DOMAIN Outs[c]
    PROVE  Outs[c][k] \in Chn /\ Source[Outs[c][k]] = c
BY TopologyAssumption

(* Every step of the framework keeps the types of its state. *)
LEMMA CoreType ==
    ASSUME TypeOK, CoreNext
    PROVE  CoreTypeOK'
<1> USE DEF TypeOK
<1>a. CoreTypeOK /\ ChnTypeOK /\ QTypeOK /\ BufTypeOK /\ CtlTypeOK /\ failed \in BOOLEAN
  BY DEF CoreTypeOK
<1>1. ASSUME NEW c \in Chn, process_chn_stopping(c)
      PROVE  CoreTypeOK'
  <2>1. CASE unit_stop(c)
    BY <1>1, <1>a, <2>1, StopType DEF process_chn_stopping, CoreTypeOK, CtlTypeOK
  <2>2. CASE UNCHANGED <<chnVars, qVars, bufVars, stack, todo, closing, failed>>
    <3>1. CtlTypeOK'
      BY <1>1, <1>a, <2>2 DEF process_chn_stopping, CtlTypeOK
    <3> QED
      BY <2>2, <3>1, SameType DEF CoreTypeOK
  <2> QED
    BY <1>1, <2>1, <2>2 DEF process_chn_stopping
<1>2. ASSUME NEW c \in Chn, process_chn_stopped(c)
      PROVE  CoreTypeOK'
  <2>1. CtlTypeOK'
    BY <1>2, <1>a DEF process_chn_stopped, CtlTypeOK
  <2> QED
    BY <1>2, <2>1, SameType DEF process_chn_stopped, CoreTypeOK
<1>3. CASE stop_done
  <2>1. CtlTypeOK'
    BY <1>3, <1>a DEF stop_done, CtlTypeOK
  <2>2. ChnTypeOK'
    BY <1>3, <1>a DEF stop_done, CtlTypeOK, ChnTypeOK, State
  <2> QED
    BY <1>3, <2>1, <2>2, SameType DEF stop_done, CoreTypeOK
<1>4. CASE put_shared
  <2>1. Head(todo) \in Buffer /\ Tail(todo) \in Seq(Buffer)
    BY <1>4, <1>a, HeadTailProperties DEF put_shared, CtlTypeOK
  <2>2. CtlTypeOK'
    BY <1>4, <1>a, <2>1 DEF put_shared, CtlTypeOK
  <2>3. BufTypeOK'
    BY <1>4, <1>a, <2>1 DEF put_shared, BufTypeOK
  <2> QED
    BY <1>4, <2>2, <2>3, SameType DEF put_shared, CoreTypeOK
<1>5. CASE release_buffer
  <2>1. Head(todo) \in Buffer /\ Tail(todo) \in Seq(Buffer)
    BY <1>5, <1>a, HeadTailProperties DEF release_buffer, CtlTypeOK
  <2>2. CtlTypeOK'
    BY <1>5, <1>a, <2>1 DEF release_buffer, CtlTypeOK
  <2>3. BufTypeOK'
    BY <1>5, <1>a, <2>1 DEF release_buffer, BufTypeOK
  <2>4. QTypeOK'
    <3>1. \A q \in Seq(Buffer) : Append(q, Head(todo)) \in Seq(Buffer)
      BY <2>1, AppendProperties
    <3>2. idles' \in [Chn -> Seq(Buffer)]
      BY <1>5, <1>a, <3>1, Zenon DEF release_buffer, QTypeOK
    <3>3. queued' \in [Chn -> Seq(Buffer)]
      BY <1>5, <1>a, <3>1, Zenon DEF release_buffer, QTypeOK
    <3> QED
      BY <1>5, <1>a, <3>2, <3>3 DEF release_buffer, QTypeOK
  <2> QED
    BY <1>5, <2>2, <2>3, <2>4, SameType DEF release_buffer, CoreTypeOK
<1>6. CASE start_sink_chn
  <2>1. /\ top \in Frame /\ Advanced \in Seq(Frame)
        /\ Outs[top.chn][top.pos] \in Chn
    <3>1. top \in Frame /\ Advanced \in Seq(Frame)
      BY <1>6, <1>a, StackShape DEF start_sink_chn, Running
    <3>2. top.pos \in DOMAIN Outs[top.chn]
      BY <1>6, <3>1 DEF start_sink_chn, Frame
    <3> QED
      BY <3>1, <3>2, SinkOf DEF Frame
  <2>2. CtlTypeOK'
    BY <1>6, <1>a, <2>1 DEF start_sink_chn, CtlTypeOK
  <2>3. CASE start_chn(Outs[top.chn][top.pos])
    <3>1. Started
      BY <1>a, <2>1, <2>3, StartType
    <3>2. QTypeOK'
      BY <1>6, <1>a, <3>1, Zenon DEF start_sink_chn, QTypeOK, Started
    <3> QED
      BY <2>2, <3>1, <3>2 DEF CoreTypeOK, Started
  <2>4. CASE UNCHANGED <<chnVars, idles, queued, bufVars, failed>>
    <3>1. QTypeOK'
      BY <1>6, <1>a, <2>4, Zenon DEF start_sink_chn, QTypeOK
    <3> QED
      BY <2>2, <2>4, <3>1, SameType DEF CoreTypeOK
  <2> QED
    BY <1>6, <2>3, <2>4 DEF start_sink_chn
<1>7. CASE pipe_push_back
  <2> DEFINE n == Len(Outs[top.chn])
             d == Outs[top.chn][top.pos - n]
  <2>1. top \in Frame /\ Advanced \in Seq(Frame) /\ d \in Chn
    <3>1. top \in Frame /\ Advanced \in Seq(Frame)
      BY <1>7, <1>a, StackShape DEF pipe_push_back, Running
    <3>2. top.pos - n \in DOMAIN Outs[top.chn]
      BY <1>7, <3>1 DEF pipe_push_back, Frame
    <3> QED
      BY <3>1, <3>2, SinkOf DEF Frame
  <2>2. CtlTypeOK'
    BY <1>7, <1>a, <2>1, Zenon DEF pipe_push_back, CtlTypeOK
  <2>a. /\ refcnt' = [refcnt EXCEPT ![top.buf] = @ + 1]
        /\ pipe' = [pipe EXCEPT ![d] = Append(@, top.buf)]
        /\ UNCHANGED <<idles, queued, done, live, pic, lastf>>
    BY <1>7 DEF pipe_push_back
  <2>b. top.buf \in Buffer
    BY <2>1 DEF Frame
  <2>3. BufTypeOK'
    <3>1. refcnt' \in [Buffer -> Nat]
      BY <1>a, <2>a, <2>b DEF BufTypeOK
    <3> QED
      BY <1>a, <2>a, <3>1, Zenon DEF BufTypeOK
  <2>4. QTypeOK'
    <3>1. \A q \in Seq(Buffer) : Append(q, top.buf) \in Seq(Buffer)
      BY <2>b, AppendProperties
    <3> HIDE DEF d
    <3> QED
      BY <1>a, <2>1, <2>a, <3>1 DEF QTypeOK
  <2> QED
    BY <1>7, <2>2, <2>3, <2>4, SameType DEF pipe_push_back, CoreTypeOK
<1>8. CASE push_return
  <2>1. top \in Frame /\ Front(stack) \in Seq(Frame)
    BY <1>8, <1>a, StackShape DEF push_return, Running
  <2>2. todo' \in Seq(Buffer)
    BY <1>8, <2>1, ConcatProperties DEF push_return, Frame
  <2>3. CtlTypeOK'
    BY <1>8, <1>a, <2>1, <2>2 DEF push_return, CtlTypeOK
  <2>4. ChnTypeOK'
    BY <1>8, <1>a, <2>1, Zenon DEF push_return, ChnTypeOK
  <2> QED
    BY <1>8, <2>3, <2>4, SameType DEF push_return, CoreTypeOK
<1> QED
  BY <1>1, <1>2, <1>3, <1>4, <1>5, <1>6, <1>7, <1>8 DEF CoreNext

-----------------------------------------------------------------------------
(* Types of the whole program. *)

HIDE CoreAssumption

(* The channel at the cursor *)
LEMMA CurChn ==
    ASSUME MainTypeOK, ~ AtEnd
    PROVE  cursor \in DOMAIN Order /\ Cur \in Chn
BY CoreAssumption DEF MainTypeOK, AtEnd, Cur

(* Entering a push keeps the type of the stack. *)
LEMMA PushShape ==
    ASSUME CtlTypeOK, NEW c \in Chn, NEW b \in Buffer, NEW inb \in Buffer \cup {None},
           NEW own \in BOOLEAN, EnterPush(c, b, inb, own)
    PROVE  /\ stack' \in Seq(Frame)
           /\ Len(stack') = Len(stack) + 1 /\ stack'[Len(stack')].chn = c
           /\ \A i \in 1 .. Len(stack) : stack'[i] = stack[i]
<1> DEFINE f == [chn |-> c, buf |-> b, inb |-> inb, own |-> own, pos |-> 1]
<1>1. f \in Frame /\ f.chn = c
  BY DEF Frame
<1>2. stack \in Seq(Frame) /\ stack' = Append(stack, f)
  BY DEF CtlTypeOK, EnterPush
<1> HIDE DEF f
<1> QED
  BY <1>1, <1>2, AppendProperties

(* A channel with a buffer waiting in a queue *)
LEMMA HeadType ==
    ASSUME NEW q \in [Chn -> Seq(Buffer)], NEW c \in Chn, q[c] # <<>>
    PROVE  /\ Head(q[c]) \in Buffer /\ [q EXCEPT ![c] = Tail(@)] \in [Chn -> Seq(Buffer)]
           /\ Len(q[c]) \in Nat /\ Len(q[c]) > 0 /\ Len(Tail(q[c])) = Len(q[c]) - 1
<1>1. Head(q[c]) \in Buffer /\ Tail(q[c]) \in Seq(Buffer)
  BY HeadTailProperties
<1>2. Len(q[c]) \in Nat /\ Len(q[c]) > 0 /\ Len(Tail(q[c])) = Len(q[c]) - 1
  BY HeadTailProperties, EmptySeq, LenProperties
<1> QED
  BY <1>1, <1>2

(* What the files and the driver assume of each other *)
FlowInv == TypeOK /\ FileInv /\ DoneInv

(* A step that changes neither the files nor the driver's queue and takes   *)
(* back no end flag of a file *)
LEMMA FlowSame ==
    ASSUME FlowInv, TypeOK', UNCHANGED <<nread, queued, done>>,
           \A c \in Chn : Kind[c] = "ifile" /\ end[c] => end'[c]
    PROVE  FlowInv'
BY DEF FlowInv, FileInv, DoneInv

(* A step of the framework *)
LEMMA FlowCore ==
    ASSUME FlowInv, CoreStep
    PROVE  FlowInv'
<1>1. TypeOK
  BY DEF FlowInv
<1>2. TypeOK'
  <2>1. CoreTypeOK'
    BY <1>1, CoreType DEF CoreStep
  <2> QED
    BY <1>1, <2>1, SameType DEF CoreStep, TypeOK
<1>a. QTypeOK /\ ChnTypeOK /\ CtlTypeOK
  BY <1>1 DEF TypeOK, CoreTypeOK
<1>b. DoneInv /\ FileInv /\ nread' = nread
  BY DEF FlowInv, CoreStep, appVars
<1>3. FileInv'
  <2>1. \A c \in Chn : Kind[c] = "ifile" /\ end[c] => end'[c]
    <3>1. ASSUME NEW c \in Chn, unit_stop(c)
          PROVE  \A d \in Chn : Kind[d] = "ifile" /\ end[d] => end'[d]
      BY <1>a, <3>1 DEF unit_stop, stop_v4l2, ChnTypeOK
    <3>2. ASSUME NEW c \in Chn, start_chn(c)
          PROVE  \A d \in Chn : Kind[d] = "ifile" /\ end[d] => end'[d]
      BY <1>a, <3>2 DEF start_chn, unit_start, streamon_fail, StartClearsEnd, ChnTypeOK, chnVars
    <3>3. CASE push_return
      BY <1>a, <3>3 DEF push_return, ChnTypeOK
    <3>4. CASE start_sink_chn
      <4>1. Outs[top.chn][top.pos] \in Chn
        <5>1. top \in Frame
          BY <1>a, <3>4, StackShape DEF start_sink_chn, Running
        <5>2. top.pos \in DOMAIN Outs[top.chn] /\ top.chn \in Chn
          BY <3>4, <5>1, CoreAssumption DEF start_sink_chn, Frame
        <5> QED
          BY <5>2, SinkOf, CoreAssumption, Zenon
      <4> QED
        BY <3>2, <3>4, <4>1 DEF start_sink_chn, chnVars
    <3>5. CASE \E c \in Chn : process_chn_stopping(c) \/ process_chn_stopped(c)
      BY <3>1, <3>5 DEF process_chn_stopping, process_chn_stopped, chnVars
    <3>6. CASE stop_done \/ put_shared \/ release_buffer \/ pipe_push_back
      BY <3>6 DEF stop_done, put_shared, release_buffer, pipe_push_back, chnVars
    <3> QED
      BY <3>3, <3>4, <3>5, <3>6 DEF CoreStep, CoreNext
  <2> QED
    BY <1>b, <2>1 DEF FileInv
<1>4. DoneInv'
  <2>1. ASSUME NEW c \in Chn, unit_stop(c)
        PROVE  DoneInv'
    <3>1. \A d \in Chn : d # c => done'[d] = done[d] /\ queued'[d] = queued[d]
      BY <1>a, <2>1 DEF unit_stop, stop_v4l2, QTypeOK
    <3>2. done'[c] = 0 /\ queued'[c] = <<>>
      BY <1>a, <2>1 DEF unit_stop, stop_v4l2, QTypeOK
    <3> QED
      BY <1>b, <3>1, <3>2 DEF DoneInv
  <2>2. ASSUME done' = done, \A d \in Chn : Len(queued'[d]) >= Len(queued[d])
        PROVE  DoneInv'
    <3>1. \A d \in Chn : done[d] \in Nat /\ Len(queued[d]) \in Nat /\ Len(queued'[d]) \in Nat
      BY <1>a, <1>2, LenProperties DEF QTypeOK, TypeOK, CoreTypeOK
    <3> QED
      BY <1>b, <2>2, <3>1 DEF DoneInv
  <2>3. CASE UNCHANGED <<queued, done>>
    BY <1>b, <2>3 DEF DoneInv
  <2>4. CASE release_buffer
    <3>1. Head(todo) \in Buffer
      BY <1>a, <2>4, HeadTailProperties DEF release_buffer, CtlTypeOK
    <3>2. \A q \in Seq(Buffer) : Len(Append(q, Head(todo))) >= Len(q) /\ Len(q) >= Len(q)
      BY <3>1, AppendProperties, LenProperties
    <3>3. done' = done /\ queued \in [Chn -> Seq(Buffer)]
      BY <1>a, <2>4 DEF release_buffer, QTypeOK
    <3>4. \A d \in Chn : queued'[d] = queued[d] \/ queued'[d] = Append(queued[d], Head(todo))
      BY <2>4, <3>3 DEF release_buffer
    <3> QED
      BY <2>2, <3>2, <3>3, <3>4
  <2>5. CASE start_sink_chn
    <3>1. Outs[top.chn][top.pos] \in Chn
      <4>1. top \in Frame
        BY <1>a, <2>5, StackShape DEF start_sink_chn, Running
      <4>2. top.pos \in DOMAIN Outs[top.chn] /\ top.chn \in Chn
        BY <2>5, <4>1, CoreAssumption DEF start_sink_chn, Frame
      <4> QED
        BY <4>2, SinkOf, CoreAssumption, Zenon
    <3>2. CASE start_chn(Outs[top.chn][top.pos])
      <4>1. Started
        BY <1>1, <3>1, <3>2, StartType DEF TypeOK
      <4> QED
        BY <2>2, <2>5, <4>1 DEF Started, start_sink_chn
    <3>3. CASE UNCHANGED <<chnVars, idles, queued, bufVars, failed>>
      BY <2>3, <2>5, <3>3 DEF start_sink_chn
    <3> QED
      BY <2>5, <3>2, <3>3 DEF start_sink_chn
  <2>6. CASE \E c \in Chn : process_chn_stopping(c) \/ process_chn_stopped(c)
    BY <2>1, <2>3, <2>6 DEF process_chn_stopping, process_chn_stopped, qVars
  <2>7. CASE stop_done \/ put_shared \/ pipe_push_back \/ push_return
    BY <2>3, <2>7 DEF stop_done, put_shared, pipe_push_back, push_return, qVars
  <2> QED
    BY <2>4, <2>5, <2>6, <2>7 DEF CoreStep, CoreNext
<1> QED
  BY <1>2, <1>3, <1>4 DEF FlowInv

(* The steps of main() and of the loop *)
LEMMA FlowMain ==
    ASSUME FlowInv,
           \/ pitcher_start \/ pitcher_start_end \/ stop_chn \/ stop_chn_end
           \/ run_chn \/ pitcher_loop_run \/ timer_func \/ main_exit \/ sig_handler
           \/ \E c \in Chn : teardown(c) \/ \E why \in {"timeout", "event"} : poll_func(c, why)
    PROVE  FlowInv'
<1>1. TypeOK
  BY DEF FlowInv
<1>2. /\ CoreTypeOK /\ ChnTypeOK /\ QTypeOK /\ BufTypeOK /\ CtlTypeOK /\ failed \in BOOLEAN
      /\ MainTypeOK /\ AppTypeOK /\ DoneInv /\ FileInv
  BY <1>1 DEF TypeOK, CoreTypeOK, FlowInv
<1>3. UNCHANGED coreVars => CoreTypeOK'
  BY <1>1, SameType DEF coreVars, CoreTypeOK
<1>4. CASE pitcher_start
  <2>1. MainTypeOK'
    BY <1>2, <1>4 DEF pitcher_start, MainTypeOK
  <2>2. CtlTypeOK' /\ DecTypeOK' /\ DrvTypeOK' /\ AppTypeOK'
    BY <1>1, <1>4, SameType DEF pitcher_start
  <2>3. UNCHANGED <<pipe, done, nread>>
    BY <1>4 DEF pitcher_start, appVars
  <2>4. Cur \in Chn
    BY <1>2, <1>4, CurChn DEF pitcher_start
  <2>5. CASE start_chn(Cur)
    <3>1. Started
      BY <1>2, <2>4, <2>5, StartType
    <3>2. QTypeOK'
      BY <1>2, <2>3, <3>1 DEF QTypeOK, Started
    <3>3. TypeOK'
      BY <2>1, <2>2, <3>1, <3>2 DEF TypeOK, CoreTypeOK, Started
    <3>4. \A d \in Chn : Kind[d] = "ifile" /\ end[d] => end'[d]
      BY <1>2, <2>4, <2>5
         DEF start_chn, unit_start, streamon_fail, StartClearsEnd, ChnTypeOK, chnVars
    <3>5. \A d \in Chn : done[d] \in Nat /\ Len(queued[d]) \in Nat /\ Len(queued'[d]) \in Nat
      BY <1>2, <3>2, LenProperties DEF QTypeOK
    <3>6. DoneInv'
      <4>1. done' = done /\ \A d \in Chn : done[d] <= Len(queued[d])
        BY <1>2, <2>3 DEF DoneInv
      <4>2. \A d \in Chn : Len(queued'[d]) >= Len(queued[d])
        BY <3>1 DEF Started
      <4>3. \A d \in Chn : done'[d] <= Len(queued'[d])
        BY <3>5, <4>1, <4>2
      <4> QED
        BY <4>3 DEF DoneInv
    <3>7. FileInv'
      BY <1>2, <2>3, <3>4 DEF FileInv
    <3> QED
      BY <3>3, <3>6, <3>7 DEF FlowInv
  <2>6. CASE UNCHANGED <<chnVars, idles, queued, bufVars, failed>>
    <3>1. TypeOK'
      BY <1>1, <2>1, <2>2, <2>3, <2>6, SameType DEF TypeOK, CoreTypeOK, qVars
    <3> QED
      BY <2>3, <2>6, <3>1, FlowSame DEF chnVars
  <2> QED
    BY <1>4, <2>5, <2>6 DEF pitcher_start
<1>5. CASE stop_chn
  <2>1. MainTypeOK'
    BY <1>2, <1>5 DEF stop_chn, MainTypeOK
  <2>2. DecTypeOK' /\ DrvTypeOK' /\ AppTypeOK'
    BY <1>1, <1>5, SameType DEF stop_chn
  <2>3. nread' = nread
    BY <1>5 DEF stop_chn, appVars
  <2>4. Cur \in Chn
    BY <1>2, <1>5, CurChn DEF stop_chn
  <2>5. CASE unit_stop(Cur) /\ call' = call
    <3>1. CoreTypeOK'
      BY <1>2, <2>4, <2>5, StopType DEF CoreTypeOK, CtlTypeOK
    <3>2. \A d \in Chn : Kind[d] = "ifile" /\ end[d] => end'[d]
      BY <1>2, <2>4, <2>5 DEF unit_stop, stop_v4l2, ChnTypeOK
    <3>3. FileInv'
      BY <1>2, <2>3, <3>2 DEF FileInv
    <3>4. \A d \in Chn : d # Cur => done'[d] = done[d] /\ queued'[d] = queued[d]
      BY <1>2, <2>4, <2>5 DEF unit_stop, stop_v4l2, QTypeOK
    <3>5. done'[Cur] = 0 /\ queued'[Cur] = <<>>
      BY <1>2, <2>4, <2>5 DEF unit_stop, stop_v4l2, QTypeOK
    <3>6. DoneInv'
      BY <1>2, <3>4, <3>5 DEF DoneInv
    <3> QED
      BY <2>1, <2>2, <3>1, <3>3, <3>6 DEF FlowInv, TypeOK
  <2>6. CASE UNCHANGED coreVars
    <3>1. TypeOK'
      BY <1>3, <2>1, <2>2, <2>6 DEF TypeOK
    <3> QED
      BY <2>3, <2>6, <3>1, FlowSame DEF coreVars, chnVars, qVars
  <2> QED
    BY <1>5, <2>5, <2>6 DEF stop_chn
<1>6. CASE pitcher_start_end \/ stop_chn_end \/ main_exit
  <2>1. MainTypeOK'
    BY <1>2, <1>6 DEF pitcher_start_end, stop_chn_end, main_exit, MainTypeOK, Phases
  <2>2. UNCHANGED <<coreVars, decVars, drvVars, appVars>>
    BY <1>6 DEF pitcher_start_end, stop_chn_end, main_exit
  <2>3. TypeOK'
    BY <1>1, <1>3, <2>1, <2>2, SameType DEF TypeOK
  <2> QED
    BY <2>2, <2>3, FlowSame DEF coreVars, chnVars, qVars, appVars
<1>7. CASE run_chn
  <2>1. MainTypeOK'
    <3>1. cursor' \in Nat \ {0} /\ phase' \in Phases /\ polled' \subseteq Chn \X {"timeout", "event"}
      BY <1>2, <1>7 DEF run_chn, MainTypeOK
    <3>2. visiting' \in BOOLEAN /\ count' \in BOOLEAN
      BY <1>2, <1>7, Zenon DEF run_chn, MainTypeOK
    <3> QED
      BY <3>1, <3>2 DEF MainTypeOK
  <2>2. CtlTypeOK'
    <3>1. AtEnd \/ Cur \in Chn
      BY <1>2, CurChn
    <3> QED
      BY <1>2, <1>7, <3>1 DEF run_chn, CtlTypeOK
  <2>3. UNCHANGED <<chnVars, qVars, bufVars, failed, decVars, drvVars, appVars>>
    BY <1>7 DEF run_chn
  <2>4. TypeOK'
    BY <1>1, <2>1, <2>2, <2>3, SameType DEF TypeOK, CoreTypeOK
  <2> QED
    BY <2>3, <2>4, FlowSame DEF chnVars, qVars, appVars
<1>8. CASE timer_func \/ sig_handler
  <2>1. MainTypeOK'
    <3>1. CASE timer_func
      <4>1. phase' \in Phases
        BY <1>2, <3>1 DEF timer_func, Phases
      <4>2. cursor' \in Nat \ {0} /\ polled' \subseteq Chn \X {"timeout", "event"}
        BY <3>1 DEF timer_func
      <4>3. visiting' \in BOOLEAN /\ count' \in BOOLEAN
        BY <1>2, <3>1, Zenon DEF timer_func, MainTypeOK
      <4> QED
        BY <4>1, <4>2, <4>3 DEF MainTypeOK
    <3>2. CASE sig_handler
      BY <1>1, <3>2, SameType DEF sig_handler
    <3> QED
      BY <1>8, <3>1, <3>2
  <2>2. UNCHANGED <<coreVars, decVars, drvVars, nread, written>>
    BY <1>8 DEF timer_func, sig_handler
  <2>3. AppTypeOK'
    <3>1. g_exit' \in BOOLEAN
      BY <1>2, <1>8, Zenon DEF timer_func, sig_handler, AppTypeOK, MainTypeOK
    <3> QED
      BY <1>2, <2>2, <3>1 DEF AppTypeOK
  <2>4. TypeOK'
    BY <1>1, <1>3, <2>1, <2>2, <2>3, SameType DEF TypeOK
  <2> QED
    BY <2>2, <2>4, FlowSame DEF coreVars, chnVars, qVars
<1>9. ASSUME NEW c \in Chn, teardown(c)
      PROVE  FlowInv'
  <2>1. QTypeOK'
    BY <1>2, <1>9 DEF teardown, QTypeOK
  <2>2. CtlTypeOK'
    BY <1>2, <1>9, ConcatProperties DEF teardown, CtlTypeOK, QTypeOK, Leftover
  <2>3. UNCHANGED <<chnVars, queued, done, bufVars, failed, mainVars, decVars, drvVars, appVars>>
    BY <1>9 DEF teardown
  <2>4. TypeOK'
    BY <1>1, <2>1, <2>2, <2>3, SameType DEF TypeOK, CoreTypeOK
  <2> QED
    BY <2>3, <2>4, FlowSame DEF chnVars, appVars
<1>10. ASSUME NEW c \in Chn, NEW why \in {"timeout", "event"}, poll_func(c, why)
       PROVE  FlowInv'
  <2>1. MainTypeOK'
    BY <1>2, <1>10 DEF poll_func, MainTypeOK
  <2>2. CtlTypeOK'
    BY <1>2, <1>10 DEF poll_func, CtlTypeOK
  <2>3. UNCHANGED <<chnVars, qVars, bufVars, failed, decVars, drvVars, appVars>>
    BY <1>10 DEF poll_func
  <2>4. TypeOK'
    BY <1>1, <2>1, <2>2, <2>3, SameType DEF TypeOK, CoreTypeOK
  <2> QED
    BY <2>3, <2>4, FlowSame DEF chnVars, qVars, appVars
<1>11. CASE pitcher_loop_run
  <2>1. MainTypeOK'
    BY <1>2, <1>11 DEF pitcher_loop_run, MainTypeOK
  <2>2. UNCHANGED <<coreVars, decVars, drvVars, appVars>>
    BY <1>11 DEF pitcher_loop_run
  <2>3. TypeOK'
    BY <1>1, <1>3, <2>1, <2>2, SameType DEF TypeOK
  <2> QED
    BY <2>2, <2>3, FlowSame DEF coreVars, chnVars, qVars, appVars
<1> QED
  BY <1>4, <1>5, <1>6, <1>7, <1>8, <1>9, <1>10, <1>11

(* The runs of the units *)
LEMMA FlowRun ==
    ASSUME FlowInv, NEW c \in Chn,
           \/ process_chn_active(c) \/ ifile_run(c) \/ convert_run(c) \/ ofile_run(c)
           \/ run_v4l2(c) \/ check_ctrl_ready(c)
    PROVE  FlowInv'
<1>1. TypeOK
  BY DEF FlowInv
<1>2. /\ ChnTypeOK /\ QTypeOK /\ BufTypeOK /\ CtlTypeOK /\ failed \in BOOLEAN
      /\ AppTypeOK /\ DoneInv /\ FileInv
  BY <1>1 DEF TypeOK, CoreTypeOK, FlowInv
<1>3. CASE process_chn_active(c)
  <2>1. ChnTypeOK'
    <3>1. EndNow(c) \in BOOLEAN
      BY <1>2, Zenon DEF EndNow, ChnTypeOK, AppTypeOK
    <3>2. end' \in [Chn -> BOOLEAN] /\ enable' \in [Chn -> BOOLEAN]
      BY <1>2, <1>3, <3>1, Zenon DEF process_chn_active, ChnTypeOK
    <3>3. state' \in [Chn -> State]
      BY <1>2, <1>3 DEF process_chn_active, ChnTypeOK, State
    <3> QED
      BY <3>2, <3>3 DEF ChnTypeOK
  <2>2. CtlTypeOK'
    BY <1>2, <1>3 DEF process_chn_active, CtlTypeOK
  <2>3. UNCHANGED <<qVars, bufVars, failed, mainVars, decVars, drvVars, appVars>>
    BY <1>3 DEF process_chn_active
  <2>4. TypeOK'
    BY <1>1, <2>1, <2>2, <2>3, SameType DEF TypeOK, CoreTypeOK
  <2>5. \A d \in Chn : Kind[d] = "ifile" /\ end[d] => end'[d]
    BY <1>2, <1>3 DEF process_chn_active, EndNow, ChnTypeOK
  <2> QED
    BY <2>3, <2>4, <2>5, FlowSame DEF qVars, appVars
<1>4. CASE ifile_run(c)
  <2> DEFINE b == Head(idles[c])
             fin == nread[c] + 1 = FrameNum
  <2>0. Kind[c] = "ifile" /\ Ready(c)
    BY <1>4 DEF ifile_run, Active
  <2>1. idles[c] # <<>> /\ ~ end[c]
    BY <2>0 DEF Ready, ifile_checkready, convert_checkready, EndNow
  <2>2. b \in Buffer /\ [idles EXCEPT ![c] = Tail(@)] \in [Chn -> Seq(Buffer)]
    BY <1>2, <2>1, HeadType DEF QTypeOK
  <2>3. /\ idles' = [idles EXCEPT ![c] = Tail(@)]
        /\ nread' = [nread EXCEPT ![c] = @ + 1]
        /\ pic' = [pic EXCEPT ![b] = nread[c] + 1]
        /\ lastf' = [lastf EXCEPT ![b] = @ \/ fin]
        /\ end' = [end EXCEPT ![c] = fin]
        /\ EnterPush(c, b, None, TRUE)
        /\ call' = None
        /\ UNCHANGED <<state, enable, pipe, queued, done, refcnt, live, todo, closing, failed,
                       mainVars, decVars, drvVars, g_exit, written>>
    BY <1>4, Zenon DEF ifile_run
  <2>4. nread[c] \in 0 .. FrameNum /\ nread[c] # FrameNum /\ nread[c] + 1 \in 0 .. FrameNum
    BY <1>2, <2>0, <2>1, PipelineAssumption DEF FileInv, AppTypeOK
  <2>5. ChnTypeOK'
    BY <1>2, <2>3 DEF ChnTypeOK
  <2>6. QTypeOK'
    BY <1>2, <2>2, <2>3 DEF QTypeOK
  <2>7. BufTypeOK'
    <3>1. pic' \in [Buffer -> Nat] /\ refcnt' \in [Buffer -> Nat] /\ live' \subseteq Buffer
      BY <1>2, <2>2, <2>3, <2>4 DEF BufTypeOK
    <3>2. lastf' \in [Buffer -> BOOLEAN]
      BY <1>2, <2>3, Zenon DEF BufTypeOK
    <3> QED
      BY <3>1, <3>2 DEF BufTypeOK
  <2>8. CtlTypeOK'
    <3> HIDE DEF b
    <3>1. stack' \in Seq(Frame)
      BY <1>2, <2>2, <2>3, PushShape, Zenon
    <3> QED
      BY <1>2, <2>3, <3>1 DEF CtlTypeOK
  <2>9. AppTypeOK'
    BY <1>2, <2>3, <2>4 DEF AppTypeOK
  <2>10. TypeOK'
    BY <1>1, <2>3, <2>5, <2>6, <2>7, <2>8, <2>9, SameType DEF TypeOK, CoreTypeOK
  <2>11. FileInv'
    <3>1. ASSUME NEW d \in Chn, Kind[d] = "ifile", nread'[d] = FrameNum
          PROVE  end'[d]
      <4>1. CASE d = c
        BY <1>2, <2>3, <3>1, <4>1, Zenon DEF AppTypeOK, ChnTypeOK
      <4>2. CASE d # c
        BY <1>2, <2>3, <3>1, <4>2 DEF AppTypeOK, ChnTypeOK, FileInv
      <4> QED
        BY <4>1, <4>2
    <3> QED
      BY <3>1 DEF FileInv
  <2>12. DoneInv'
    BY <1>2, <2>3 DEF DoneInv
  <2> QED
    BY <2>10, <2>11, <2>12 DEF FlowInv
<1>5. CASE convert_run(c)
  <2> DEFINE in == Head(pipe[c])
             b == IF c \in Passthru THEN in ELSE Head(idles[c])
  <2>0. Kind[c] \in {"convert", "g2d"} /\ Ready(c)
    BY <1>5 DEF convert_run, Active
  <2>1. pipe[c] # <<>> /\ (c \in Passthru \/ idles[c] # <<>>)
    BY <2>0, Zenon DEF Ready, ifile_checkready, convert_checkready
  <2>2. in \in Buffer /\ [pipe EXCEPT ![c] = Tail(@)] \in [Chn -> Seq(Buffer)]
    BY <1>2, <2>1, HeadType DEF QTypeOK
  <2>3. b \in Buffer
    BY <1>2, <2>1, <2>2, HeadType DEF QTypeOK
  <2>4. c \notin Passthru => [idles EXCEPT ![c] = Tail(@)] \in [Chn -> Seq(Buffer)]
    BY <1>2, <2>1, HeadType DEF QTypeOK
  <2>5. /\ pipe' = [pipe EXCEPT ![c] = Tail(@)]
        /\ call' = None
        /\ UNCHANGED <<state, enable, queued, done, refcnt, live, lastf, closing, failed,
                       mainVars, decVars, drvVars, appVars>>
    BY <1>5 DEF convert_run
  <2>6. CASE pic[in] = 0
    <3>1. /\ todo' = <<in>>
          /\ end' = [end EXCEPT ![c] = Kind[c] = "g2d"]
          /\ UNCHANGED <<idles, pic, stack>>
      BY <1>5, <2>6 DEF convert_run
    <3>2. ChnTypeOK'
      BY <1>2, <2>5, <3>1 DEF ChnTypeOK
    <3>3. QTypeOK'
      BY <1>2, <2>2, <2>5, <3>1 DEF QTypeOK
    <3>4. BufTypeOK'
      BY <1>2, <2>5, <3>1 DEF BufTypeOK
    <3>5. CtlTypeOK'
      BY <1>2, <2>2, <2>5, <3>1 DEF CtlTypeOK
    <3>6. TypeOK'
      BY <1>1, <2>5, <3>2, <3>3, <3>4, <3>5, SameType DEF TypeOK, CoreTypeOK
    <3>7. \A d \in Chn : Kind[d] = "ifile" /\ end[d] => end'[d]
      BY <1>2, <2>0, <3>1 DEF ChnTypeOK
    <3> QED
      BY <2>5, <3>6, <3>7, FlowSame DEF appVars
  <2>7. CASE pic[in] # 0
    <3>1. /\ idles' = IF c \in Passthru THEN idles ELSE [idles EXCEPT ![c] = Tail(@)]
          /\ pic' = [pic EXCEPT ![b] = pic[in]]
          /\ EnterPush(c, b, in, c \notin Passthru)
          /\ UNCHANGED <<todo, end>>
      BY <1>5, <2>7 DEF convert_run
    <3>2. ChnTypeOK'
      BY <1>2, <2>5, <3>1 DEF ChnTypeOK
    <3>3. QTypeOK'
      BY <1>2, <2>2, <2>4, <2>5, <3>1, Zenon DEF QTypeOK
    <3>4. BufTypeOK'
      <4>1. pic' \in [Buffer -> Nat]
        BY <1>2, <2>2, <2>3, <3>1 DEF BufTypeOK
      <4> QED
        BY <1>2, <2>5, <4>1 DEF BufTypeOK
    <3>5. CtlTypeOK'
      <4> HIDE DEF b, in
      <4>1. stack' \in Seq(Frame)
        BY <1>2, <2>2, <2>3, <3>1, PushShape, Zenon
      <4> QED
        BY <1>2, <2>5, <3>1, <4>1 DEF CtlTypeOK
    <3>6. TypeOK'
      BY <1>1, <2>5, <3>2, <3>3, <3>4, <3>5, SameType DEF TypeOK, CoreTypeOK
    <3> QED
      BY <2>5, <3>1, <3>6, FlowSame DEF appVars
  <2> QED
    BY <2>6, <2>7
<1>6. CASE ofile_run(c)
  <2>0. Kind[c] = "ofile"
    BY <1>6 DEF ofile_run, Active
  <2>1. /\ call' = None
        /\ state' = [state EXCEPT ![c] = IF EndNow(c) THEN "STOPPING" ELSE @]
        /\ UNCHANGED <<enable, idles, queued, done, bufVars, stack, closing, failed,
                       mainVars, decVars, drvVars, g_exit, nread>>
    BY <1>6 DEF ofile_run
  <2>2. EndNow(c) \in BOOLEAN
    BY <1>2, Zenon DEF EndNow, ChnTypeOK, AppTypeOK
  <2>3. state' \in [Chn -> State] /\ enable' \in [Chn -> BOOLEAN]
    BY <1>2, <2>1 DEF ChnTypeOK, State
  <2>4. CASE pipe[c] = <<>>
    <3>1. end' = [end EXCEPT ![c] = EndNow(c)] /\ UNCHANGED <<pipe, todo, written>>
      BY <1>6, <2>4 DEF ofile_run
    <3>2. end' \in [Chn -> BOOLEAN]
      BY <1>2, <2>2, <3>1, Zenon DEF ChnTypeOK
    <3>3. ChnTypeOK'
      BY <2>3, <3>2 DEF ChnTypeOK
    <3>4. QTypeOK' /\ AppTypeOK'
      BY <1>1, <2>1, <3>1, SameType DEF qVars, appVars
    <3>5. CtlTypeOK'
      BY <1>2, <2>1, <3>1 DEF CtlTypeOK
    <3>6. TypeOK'
      BY <1>1, <2>1, <3>3, <3>4, <3>5, SameType DEF TypeOK, CoreTypeOK
    <3>7. \A d \in Chn : Kind[d] = "ifile" /\ end[d] => end'[d]
      BY <1>2, <2>0, <3>1 DEF ChnTypeOK
    <3> QED
      BY <2>1, <3>6, <3>7, FlowSame
  <2>5. CASE pipe[c] # <<>>
    <3> DEFINE b == Head(pipe[c])
    <3>1. /\ pipe' = [pipe EXCEPT ![c] = Tail(@)]
          /\ todo' = <<b>>
          /\ written' = [written EXCEPT ![c] = IF pic[b] = 0 THEN @ ELSE Append(@, pic[b])]
          /\ end' = [end EXCEPT ![c] = EndNow(c) \/ lastf[b]]
      BY <1>6, <2>5 DEF ofile_run
    <3>2. b \in Buffer /\ [pipe EXCEPT ![c] = Tail(@)] \in [Chn -> Seq(Buffer)]
      BY <1>2, <2>5, HeadType DEF QTypeOK
    <3> HIDE DEF b
    <3>3. ChnTypeOK'
      <4>1. end' \in [Chn -> BOOLEAN]
        <5>1. (EndNow(c) \/ lastf[b]) \in BOOLEAN
          OBVIOUS
        <5> QED
          BY <1>2, <3>1, <5>1, Zenon DEF ChnTypeOK
      <4> QED
        BY <2>3, <4>1 DEF ChnTypeOK
    <3>4. QTypeOK'
      BY <1>2, <2>1, <3>1, <3>2 DEF QTypeOK
    <3>5. CtlTypeOK'
      BY <1>2, <2>1, <3>1, <3>2 DEF CtlTypeOK
    <3>6. AppTypeOK'
      <4>1. \A q \in Seq(Nat) : Append(q, pic[b]) \in Seq(Nat)
        BY <1>2, <3>2, AppendProperties DEF BufTypeOK
      <4>2. written' \in [Chn -> Seq(Nat)]
        BY <1>2, <3>1, <4>1 DEF AppTypeOK
      <4> QED
        BY <1>2, <2>1, <4>2 DEF AppTypeOK
    <3>7. TypeOK'
      BY <1>1, <2>1, <3>3, <3>4, <3>5, <3>6, SameType DEF TypeOK, CoreTypeOK
    <3>8. \A d \in Chn : Kind[d] = "ifile" /\ end[d] => end'[d]
      BY <1>2, <2>0, <3>1 DEF ChnTypeOK
    <3> QED
      BY <2>1, <3>7, <3>8, FlowSame
  <2> QED
    BY <2>4, <2>5
<1>7. CASE run_v4l2(c)
  <2> DEFINE b == Head(queued[c])
  <2>0. Kind[c] = "capture"
    BY <1>7 DEF run_v4l2, Active
  <2>1. /\ call' = None
        /\ UNCHANGED <<state, enable, pipe, idles, live, pic, lastf, closing, failed,
                       mainVars, decVars, drvVars, appVars>>
    BY <1>7 DEF run_v4l2
  <2>2. CASE done[c] > 0
    <3>1. /\ queued' = [queued EXCEPT ![c] = Tail(@)]
          /\ done' = [done EXCEPT ![c] = @ - 1]
          /\ refcnt' = [refcnt EXCEPT ![b] = @ + 1]
          /\ end' = end
          /\ \/ todo' = <<b>> /\ stack' = stack
             \/ EnterPush(c, b, None, TRUE) /\ todo' = todo
      BY <1>7, <2>2, Zenon DEF run_v4l2
    <3>2. queued[c] # <<>>
      BY <1>2, <2>2 DEF DoneInv, QTypeOK
    <3>3. /\ b \in Buffer /\ [queued EXCEPT ![c] = Tail(@)] \in [Chn -> Seq(Buffer)]
          /\ Len(queued[c]) \in Nat /\ Len(Tail(queued[c])) = Len(queued[c]) - 1
      BY <1>2, <3>2, HeadType DEF QTypeOK
    <3> HIDE DEF b
    <3>4. QTypeOK'
      <4>1. done' \in [Chn -> Nat]
        BY <1>2, <2>2, <3>1 DEF QTypeOK
      <4> QED
        BY <1>2, <2>1, <3>1, <3>3, <4>1 DEF QTypeOK
    <3>5. BufTypeOK'
      <4>1. refcnt' \in [Buffer -> Nat]
        BY <1>2, <3>1, <3>3 DEF BufTypeOK
      <4> QED
        BY <1>2, <2>1, <4>1 DEF BufTypeOK
    <3>6. CtlTypeOK'
      <4>1. CASE todo' = <<b>> /\ stack' = stack
        BY <1>2, <2>1, <3>3, <4>1 DEF CtlTypeOK
      <4>2. CASE EnterPush(c, b, None, TRUE) /\ todo' = todo
        <5>1. stack' \in Seq(Frame)
          BY <1>2, <3>3, <4>2, PushShape, Zenon
        <5> QED
          BY <1>2, <2>1, <4>2, <5>1 DEF CtlTypeOK
      <4> QED
        BY <3>1, <4>1, <4>2, Zenon
    <3>7. ChnTypeOK'
      BY <1>1, <2>1, <3>1, SameType DEF chnVars
    <3>8. TypeOK'
      BY <1>1, <2>1, <3>4, <3>5, <3>6, <3>7, SameType DEF TypeOK, CoreTypeOK
    <3>9. FileInv'
      BY <1>2, <2>1, <3>1 DEF FileInv, appVars
    <3>10. DoneInv'
      <4>1. done'[c] <= Len(queued'[c])
        BY <1>2, <3>1, <3>3 DEF DoneInv, QTypeOK
      <4>2. \A d \in Chn : d # c => done'[d] = done[d] /\ queued'[d] = queued[d]
        BY <1>2, <3>1 DEF QTypeOK
      <4> QED
        BY <1>2, <4>1, <4>2 DEF DoneInv
    <3> QED
      BY <3>8, <3>9, <3>10 DEF FlowInv
  <2>3. CASE ~ (done[c] > 0)
    <3>1. end' = [end EXCEPT ![c] = Epipe] /\ UNCHANGED <<queued, done, refcnt, stack, todo>>
      BY <1>7, <2>3, Zenon DEF run_v4l2
    <3>2. ChnTypeOK'
      <4>1. Epipe \in BOOLEAN
        BY <1>1, Zenon DEF TypeOK, DrvTypeOK, Epipe
      <4>2. end' \in [Chn -> BOOLEAN]
        BY <1>2, <3>1, <4>1, Zenon DEF ChnTypeOK
      <4> QED
        BY <1>2, <2>1, <4>2 DEF ChnTypeOK
    <3>3. QTypeOK' /\ BufTypeOK'
      BY <1>1, <2>1, <3>1, SameType DEF qVars, bufVars
    <3>4. CtlTypeOK'
      BY <1>2, <2>1, <3>1 DEF CtlTypeOK
    <3>5. TypeOK'
      BY <1>1, <2>1, <3>2, <3>3, <3>4, SameType DEF TypeOK, CoreTypeOK
    <3>6. \A d \in Chn : Kind[d] = "ifile" /\ end[d] => end'[d]
      BY <1>2, <2>0, <3>1 DEF ChnTypeOK
    <3> QED
      BY <2>1, <3>1, <3>5, <3>6, FlowSame DEF appVars
  <2> QED
    BY <2>2, <2>3
<1>8. CASE check_ctrl_ready(c)
  <2>1. UNCHANGED <<enable, end, qVars, bufVars, stack, todo, closing, failed,
                    mainVars, decVars, drvVars, appVars>>
    BY <1>8 DEF check_ctrl_ready
  <2>2. ChnTypeOK'
    BY <1>2, <1>8 DEF check_ctrl_ready, ChnTypeOK, State
  <2>3. CtlTypeOK'
    BY <1>2, <1>8 DEF check_ctrl_ready, CtlTypeOK
  <2>4. TypeOK'
    BY <1>1, <2>1, <2>2, <2>3, SameType DEF TypeOK, CoreTypeOK
  <2> QED
    BY <2>1, <2>4, FlowSame DEF qVars, appVars
<1> QED
  BY <1>3, <1>4, <1>5, <1>6, <1>7, <1>8

(* The output channel of the decoder *)
LEMMA FlowOutput ==
    ASSUME FlowInv, NEW c \in Chn, is_decoder_output_finish(c) \/ check_v4l2_ready(c)
    PROVE  FlowInv'
<1>1. TypeOK
  BY DEF FlowInv
<1>2. /\ CoreTypeOK /\ ChnTypeOK /\ QTypeOK /\ CtlTypeOK /\ AppTypeOK
      /\ DecTypeOK /\ DrvTypeOK /\ DoneInv /\ FileInv
  BY <1>1 DEF TypeOK, CoreTypeOK, FlowInv
<1>3. Kind[c] = "output" /\ Capture \in Chn
  BY CoreAssumption, PipelineAssumption
     DEF is_decoder_output_finish, check_v4l2_ready, Active
<1>4. CASE is_decoder_output_finish(c)
  <2>1. /\ deciding' = TRUE /\ outEos' = FALSE /\ outRes' = FALSE
        /\ capEos' = (capEos \/ (outEos /\ capReg))
        /\ capReg' = (capReg \/ capRes \/ outRes)
        /\ UNCHANGED <<pipe, done, ctlVars, mainVars, appVars, script, ndec, event, drained>>
    BY <1>4 DEF is_decoder_output_finish
  <2>2. CtlTypeOK' /\ MainTypeOK' /\ AppTypeOK'
    BY <1>1, <2>1, SameType
  <2>3. /\ capRes' \in BOOLEAN => DecTypeOK'
        /\ resync' \in BOOLEAN => DrvTypeOK'
    <3>1. deciding' \in BOOLEAN /\ outEos' \in BOOLEAN /\ outRes' \in BOOLEAN
      BY <2>1, Zenon
    <3>2. capEos' \in BOOLEAN /\ capReg' \in BOOLEAN
      BY <1>2, <2>1, Zenon DEF DecTypeOK
    <3>3. capRes' \in BOOLEAN => DecTypeOK'
      BY <3>1, <3>2 DEF DecTypeOK
    <3>4. resync' \in BOOLEAN => DrvTypeOK'
      BY <1>2, <2>1 DEF DrvTypeOK
    <3> QED
      BY <3>3, <3>4
  <2>4. CASE start_chn(Capture) /\ capRes' \in BOOLEAN /\ resync' \in BOOLEAN
    <3>1. Started
      BY <1>2, <1>3, <2>4, StartType
    <3>2. QTypeOK'
      BY <1>2, <2>1, <3>1 DEF QTypeOK, Started
    <3>3. TypeOK'
      BY <2>2, <2>3, <2>4, <3>1, <3>2 DEF TypeOK, CoreTypeOK, Started
    <3>4. \A d \in Chn : Kind[d] = "ifile" /\ end[d] => end'[d]
      BY <1>2, <1>3, <2>4
         DEF start_chn, unit_start, streamon_fail, StartClearsEnd, ChnTypeOK, chnVars
    <3>5. \A d \in Chn : done[d] \in Nat /\ Len(queued[d]) \in Nat /\ Len(queued'[d]) \in Nat
      BY <1>2, <3>2, LenProperties DEF QTypeOK
    <3>6. DoneInv'
      <4>1. done' = done /\ \A d \in Chn : done[d] <= Len(queued[d])
        BY <1>2, <2>1 DEF DoneInv
      <4>2. \A d \in Chn : Len(queued'[d]) >= Len(queued[d])
        BY <3>1 DEF Started
      <4>3. \A d \in Chn : done'[d] <= Len(queued'[d])
        BY <3>5, <4>1, <4>2
      <4> QED
        BY <4>3 DEF DoneInv
    <3>7. FileInv'
      BY <1>2, <2>1, <3>4 DEF FileInv, appVars
    <3> QED
      BY <3>3, <3>6, <3>7 DEF FlowInv
  <2>5. ASSUME NEW e \in BOOLEAN, end' = [end EXCEPT ![Capture] = e],
               end[Capture] => e,
               UNCHANGED <<state, enable, idles, queued, bufVars, failed>>,
               capRes' \in BOOLEAN, resync' \in BOOLEAN
        PROVE  FlowInv'
    <3>1. ChnTypeOK'
      <4>1. end' \in [Chn -> BOOLEAN]
        BY <1>2, <2>5, Zenon DEF ChnTypeOK
      <4> QED
        BY <1>2, <2>5, <4>1 DEF ChnTypeOK
    <3>2. QTypeOK' /\ BufTypeOK' /\ failed' \in BOOLEAN
      BY <1>1, <2>1, <2>5, SameType DEF qVars
    <3>3. TypeOK'
      BY <2>2, <2>3, <2>5, <3>1, <3>2 DEF TypeOK, CoreTypeOK
    <3>4. \A d \in Chn : Kind[d] = "ifile" /\ end[d] => end'[d]
      BY <1>2, <1>3, <2>5 DEF ChnTypeOK
    <3> QED
      BY <2>1, <2>5, <3>3, <3>4, FlowSame DEF appVars
  <2>6. CASE capRes \/ outRes
    <3>1. handle_decoder_resolution_change
      BY <1>4, <2>6 DEF is_decoder_output_finish
    <3>2. CASE state[Capture] = "STOPPED"
      <4>1. /\ start_chn(Capture) /\ capRes' = FALSE
            /\ resync' = (resync /\ state'[Capture] # "ACTIVE")
        BY <3>1, <3>2 DEF handle_decoder_resolution_change
      <4>2. resync' \in BOOLEAN
        BY <4>1
      <4> QED
        BY <2>4, <4>1, <4>2, Zenon
    <3>3. CASE state[Capture] # "STOPPED"
      <4>1. /\ end' = [end EXCEPT ![Capture] = TRUE] /\ capRes' = TRUE
            /\ UNCHANGED <<state, enable, idles, queued, bufVars, failed, resync>>
        BY <3>1, <3>3 DEF handle_decoder_resolution_change
      <4>2. resync' \in BOOLEAN /\ capRes' \in BOOLEAN
        BY <1>2, <4>1 DEF DrvTypeOK
      <4> QED
        BY <2>5, <4>1, <4>2, Zenon
    <3> QED
      BY <3>2, <3>3
  <2>7. CASE ~ (capRes \/ outRes)
    <3> DEFINE e == end[Capture] \/ (outEos /\ ~ capReg)
    <3>1. /\ end' = [end EXCEPT ![Capture] = e]
          /\ UNCHANGED <<state, enable, idles, queued, bufVars, failed, capRes, resync>>
      BY <1>4, <2>7 DEF is_decoder_output_finish
    <3>2. e \in BOOLEAN /\ (end[Capture] => e)
      BY <1>2, <1>3, Zenon DEF ChnTypeOK, DecTypeOK
    <3>3. resync' \in BOOLEAN /\ capRes' \in BOOLEAN
      BY <1>2, <3>1 DEF DrvTypeOK, DecTypeOK
    <3> HIDE DEF e
    <3> QED
      BY <2>5, <3>1, <3>2, <3>3, Zenon
  <2> QED
    BY <2>6, <2>7
<1>5. CASE check_v4l2_ready(c)
  <2> DEFINE isEnd == g_exit \/ (end[Capture] /\ ~ capRes)
  <2>1. /\ deciding' = FALSE
        /\ call' = None
        /\ end' = [end EXCEPT ![c] = isEnd]
        /\ state' = [state EXCEPT ![c] = IF isEnd THEN "STOPPING" ELSE @]
        /\ IF isEnd THEN UNCHANGED <<event, outEos, outRes>> ELSE check_v4l2_events
        /\ UNCHANGED <<enable, qVars, bufVars, stack, todo, closing, failed, mainVars,
                       appVars, capReg, capRes, capEos, script, ndec, resync, drained>>
    BY <1>5 DEF check_v4l2_ready
  <2>2. isEnd \in BOOLEAN
    BY <1>2, <1>3, Zenon DEF ChnTypeOK, DecTypeOK, AppTypeOK
  <2> HIDE DEF isEnd
  <2>3. ChnTypeOK'
    <3>1. end' \in [Chn -> BOOLEAN]
      BY <1>2, <2>1, <2>2, Zenon DEF ChnTypeOK
    <3>2. state' \in [Chn -> State]
      BY <1>2, <2>1 DEF ChnTypeOK, State
    <3> QED
      BY <1>2, <2>1, <3>1, <3>2 DEF ChnTypeOK
  <2>4. CtlTypeOK'
    BY <1>2, <2>1 DEF CtlTypeOK
  <2>5. DecTypeOK'
    <3>1. outEos' \in BOOLEAN /\ outRes' \in BOOLEAN /\ deciding' \in BOOLEAN
      BY <1>2, <2>1, Zenon DEF check_v4l2_events, DecTypeOK
    <3> QED
      BY <1>2, <2>1, <3>1 DEF DecTypeOK
  <2>6. DrvTypeOK'
    <3>1. event' \in Events
      BY <1>2, <2>1 DEF DrvTypeOK, Events, check_v4l2_events
    <3> QED
      BY <1>2, <2>1, <3>1 DEF DrvTypeOK
  <2>7. TypeOK'
    BY <1>1, <2>1, <2>3, <2>4, <2>5, <2>6, SameType DEF TypeOK, CoreTypeOK
  <2>8. \A d \in Chn : Kind[d] = "ifile" /\ end[d] => end'[d]
    BY <1>2, <1>3, <2>1 DEF ChnTypeOK
  <2> QED
    BY <2>1, <2>7, <2>8, FlowSame DEF qVars, appVars
<1> QED
  BY <1>4, <1>5

(* The driver *)
LEMMA FlowDriver ==
    ASSUME FlowInv, DriverNext
    PROVE  FlowInv'
<1>1. TypeOK
  BY DEF FlowInv
<1>2. QTypeOK /\ BufTypeOK /\ DrvTypeOK /\ DoneInv /\ FileInv
  BY <1>1 DEF TypeOK, CoreTypeOK, FlowInv
<1>3. Capture \in Chn
  BY PipelineAssumption, Zenon DEF DriverNext, DriverDecode, DriverChange, DriverEos
<1>a. script # <<>> => Tail(script) \in Seq({"frame", "error", "change"})
  BY <1>2, HeadTailProperties DEF DrvTypeOK
<1>4. ASSUME UNCHANGED <<chnVars, pipe, idles, queued, refcnt, live, ctlVars, failed,
                         mainVars, decVars, appVars>>,
             DrvTypeOK', pic' \in [Buffer -> Nat], lastf' \in [Buffer -> BOOLEAN],
             \/ done' = done
             \/ Free /\ done' = [done EXCEPT ![Capture] = @ + 1]
      PROVE  FlowInv'
  <2>1. BufTypeOK'
    BY <1>2, <1>4 DEF BufTypeOK
  <2>2. QTypeOK'
    <3>1. done' \in [Chn -> Nat]
      <4>1. done \in [Chn -> Nat]
        BY <1>2 DEF QTypeOK
      <4>2. done' = done \/ done' = [done EXCEPT ![Capture] = @ + 1]
        BY <1>4
      <4> QED
        BY <1>3, <4>1, <4>2
    <3> QED
      BY <1>2, <1>4, <3>1 DEF QTypeOK
  <2>3. TypeOK'
    BY <1>1, <1>4, <2>1, <2>2, SameType DEF TypeOK, CoreTypeOK
  <2>4. DoneInv'
    <3>1. \A d \in Chn : done[d] \in Nat /\ Len(queued[d]) \in Nat /\ done[d] <= Len(queued[d])
      BY <1>2, LenProperties DEF QTypeOK, DoneInv
    <3>2. \A d \in Chn : done'[d] <= Len(queued[d])
      <4>1. done \in [Chn -> Nat]
        BY <1>2 DEF QTypeOK
      <4>2. CASE done' = done
        BY <3>1, <4>2
      <4>3. CASE Free /\ done' = [done EXCEPT ![Capture] = @ + 1]
        BY <1>3, <3>1, <4>1, <4>3 DEF Free
      <4> QED
        BY <1>4, <4>2, <4>3
    <3> QED
      BY <1>4, <3>2 DEF DoneInv
  <2>5. FileInv'
    BY <1>2, <1>4 DEF FileInv, chnVars, appVars
  <2> QED
    BY <2>3, <2>4, <2>5 DEF FlowInv
<1>5. ASSUME NEW p \in Nat, NEW l \in BOOLEAN, Fill(p, l)
      PROVE  /\ pic' \in [Buffer -> Nat] /\ lastf' \in [Buffer -> BOOLEAN]
             /\ done' = [done EXCEPT ![Capture] = @ + 1]
  <2>1. pic' \in [Buffer -> Nat] /\ done' = [done EXCEPT ![Capture] = @ + 1]
    BY <1>2, <1>5, Zenon DEF Fill, BufTypeOK
  <2>2. lastf' \in [Buffer -> BOOLEAN]
    BY <1>2, <1>5, Zenon DEF Fill, BufTypeOK
  <2> QED
    BY <2>1, <2>2
<1>6. CASE DriverDecode
  <2>1. DrvTypeOK'
    BY <1>2, <1>6, <1>a DEF DriverDecode, DrvTypeOK
  <2> DEFINE p == IF Head(script) = "frame" THEN ndec + 1 ELSE 0
  <2>2. p \in Nat /\ Fill(p, FALSE) /\ Free
    <3>1. p \in Nat
      BY <1>2 DEF DrvTypeOK
    <3>2. Fill(p, FALSE) /\ Free
      BY <1>6, Zenon DEF DriverDecode
    <3> QED
      BY <3>1, <3>2, Zenon
  <2> HIDE DEF p
  <2>3. /\ pic' \in [Buffer -> Nat] /\ lastf' \in [Buffer -> BOOLEAN]
        /\ done' = [done EXCEPT ![Capture] = @ + 1]
    BY <1>5, <2>2, Zenon
  <2> QED
    BY <1>4, <1>6, <2>1, <2>2, <2>3 DEF DriverDecode
<1>7. CASE DriverChange
  <2>1. DrvTypeOK'
    BY <1>2, <1>7, <1>a DEF DriverChange, DrvTypeOK, Events
  <2>2. UNCHANGED <<coreVars, mainVars, decVars, appVars>>
    BY <1>7 DEF DriverChange
  <2> QED
    BY <1>2, <1>4, <2>1, <2>2 DEF coreVars, qVars, bufVars, BufTypeOK
<1>8. CASE DriverEos
  <2>1. DrvTypeOK'
    BY <1>2, <1>8 DEF DriverEos, DrvTypeOK, Events
  <2>2. UNCHANGED <<chnVars, pipe, idles, queued, refcnt, live, ctlVars, failed,
                    mainVars, decVars, appVars>>
    BY <1>8 DEF DriverEos
  <2>3. CASE UNCHANGED <<pic, lastf, done>>
    BY <1>2, <1>4, <2>1, <2>2, <2>3 DEF BufTypeOK
  <2>4. CASE Free /\ Fill(0, TRUE)
    <3>1. /\ pic' \in [Buffer -> Nat] /\ lastf' \in [Buffer -> BOOLEAN]
          /\ done' = [done EXCEPT ![Capture] = @ + 1]
      BY <1>5, <2>4, Zenon
    <3> QED
      BY <1>4, <2>1, <2>2, <2>4, <3>1
  <2>5. CASE /\ lastf' = [lastf EXCEPT ![queued[Capture][done[Capture]]] = TRUE]
             /\ UNCHANGED <<pic, done>>
    <3>1. lastf' \in [Buffer -> BOOLEAN]
      BY <1>2, <2>5, Zenon DEF BufTypeOK
    <3> QED
      BY <1>2, <1>4, <2>1, <2>2, <2>5, <3>1 DEF BufTypeOK
  <2> QED
    BY <1>8, <2>3, <2>4, <2>5, Zenon DEF DriverEos
<1> QED
  BY <1>6, <1>7, <1>8 DEF DriverNext

(* Every step of the program or the driver keeps the types, the bound on    *)
(* what a file is read and the bound on what the driver fills.              *)
LEMMA FlowNext ==
    ASSUME FlowInv, [Next]_vars
    PROVE  FlowInv'
<1>1. CASE MainNext
  BY <1>1, FlowCore, FlowMain, FlowRun, FlowOutput DEF MainNext
<1>2. CASE sig_handler
  BY <1>2, FlowMain
<1>3. CASE UNCHANGED vars
  <2>1. UNCHANGED <<coreVars, mainVars, decVars, drvVars, appVars>>
    BY <1>3 DEF vars
  <2>2. TypeOK'
    BY <2>1, SameType DEF FlowInv, TypeOK, CoreTypeOK, coreVars
  <2> QED
    BY <2>1, <2>2, FlowSame DEF coreVars, chnVars, qVars, appVars
<1> QED
  BY <1>1, <1>2, <1>3, FlowDriver DEF Next, Done

-----------------------------------------------------------------------------
(* The order in which channels stop. *)

OrderInv == StopOrder /\ ChainInv /\ LoopInv /\ StartInv /\ ClosingInv

(* The order of registration is strict. *)
LEMMA BeforeOrder ==
    /\ \A c : ~ Before(c, c)
    /\ \A c, d, e : Before(c, d) /\ Before(d, e) => Before(c, e)
    /\ \A c, d \in Chn : Source[d] = c => Before(c, d)
<1>1. DOMAIN Order = 1 .. Len(Order) /\ Len(Order) \in Nat
  BY CoreAssumption, LenProperties
<1>2. \A i, j \in DOMAIN Order : i \in Int /\ j \in Int /\ (Order[i] = Order[j] => i = j)
  BY <1>1, TopologyAssumption
<1>3. ASSUME NEW c PROVE ~ Before(c, c)
  BY <1>1, <1>2 DEF Before
<1>4. ASSUME NEW c, NEW d, NEW e, Before(c, d), Before(d, e)
      PROVE  Before(c, e)
  <2>1. PICK i, j \in DOMAIN Order : i < j /\ Order[i] = c /\ Order[j] = d
    BY <1>4 DEF Before
  <2>2. PICK k, l \in DOMAIN Order : k < l /\ Order[k] = d /\ Order[l] = e
    BY <1>4 DEF Before
  <2>3. j = k /\ i < l
    BY <1>1, <1>2, <2>1, <2>2
  <2> QED
    BY <2>1, <2>2, <2>3 DEF Before
<1>5. ASSUME NEW c \in Chn, NEW d \in Chn, Source[d] = c
      PROVE  Before(c, d)
  <2>1. PICK i \in DOMAIN Order : Order[i] = c
    BY TopologyAssumption
  <2>2. PICK j \in DOMAIN Order : Order[j] = d
    BY TopologyAssumption
  <2>3. i < j
    BY <1>5, <2>1, <2>2, TopologyAssumption
  <2> QED
    BY <2>1, <2>2, <2>3 DEF Before
<1> QED
  BY <1>3, <1>4, <1>5

(* The suspended pushes are pushes of channels. *)
LEMMA StackChn ==
    ASSUME TypeOK
    PROVE  \A i \in DOMAIN stack : stack[i].chn \in Chn
<1>1. \A f \in Frame : f.chn \in Chn
  BY DEF Frame
<1>2. stack \in Seq(Frame)
  BY DEF TypeOK, CoreTypeOK, CtlTypeOK
<1>3. \A i \in DOMAIN stack : stack[i] \in Frame
  BY <1>2, ElementOfSeq, LenProperties
<1> QED
  BY <1>1, <1>3

(* What starting a channel does to the states *)
LEMMA StartState ==
    ASSUME NEW c \in Chn, state \in [Chn -> State], start_chn(c)
    PROVE  /\ state' = state \/ state' = [state EXCEPT ![c] = "ACTIVE"]
           /\ failed' = failed \/ failed' = TRUE
           /\ state'[c] = "ACTIVE" \/ failed'
<1>1. CASE state[c] = "ACTIVE" /\ UNCHANGED <<chnVars, idles, queued, bufVars, failed>>
  BY <1>1 DEF chnVars
<1>2. CASE (\E got \in alloc_buffer(c) : unit_start(c, got)) /\ UNCHANGED <<pic, failed>>
  BY <1>2 DEF unit_start, start_v4l2
<1>3. CASE /\ failed' = TRUE
           /\ \/ UNCHANGED <<chnVars, idles, queued, bufVars>>
              \/ \E got \in alloc_buffer(c) : streamon_fail(c, got)
  BY <1>3 DEF streamon_fail, start_v4l2, chnVars
<1> QED
  BY <1>1, <1>2, <1>3, Zenon DEF start_chn

(* A step that moves no channel *)
LEMMA OrderSame ==
    ASSUME OrderInv, UNCHANGED <<state, stack, call, closing, phase, cursor, failed>>,
           phase = "start" => todo' = todo
    PROVE  OrderInv'
BY DEF OrderInv, StopOrder, ChainInv, LoopInv, StartInv, ClosingInv

(* The running channel returns, and may have begun to stop. *)
LEMMA OrderReturn ==
    ASSUME TypeOK, OrderInv, NEW c \in Chn, call = c, call' = None,
           \/ state' = state
           \/ state[c] = "ACTIVE" /\ state' = [state EXCEPT ![c] = "STOPPING"],
           UNCHANGED <<phase, stack, closing>>
    PROVE  OrderInv'
<1>1. call # None
  BY CoreAssumption
<1>2. phase = "run" /\ closing = None
  BY <1>1 DEF OrderInv, LoopInv
<1>3. state \in [Chn -> State]
  BY DEF TypeOK, CoreTypeOK, ChnTypeOK
<1>4. \A i \in DOMAIN stack : Before(stack[i].chn, c) /\ stack[i].chn # c
  BY <1>1, BeforeOrder DEF OrderInv, ChainInv
<1>5. \A d \in Chn : state'[d] = "STOPPED" <=> state[d] = "STOPPED"
  BY <1>3
<1>6. \A d \in Chn : d # c => state'[d] = state[d]
  BY <1>3
<1>7. \A i \in DOMAIN stack : stack[i].chn \in Chn
  BY StackChn
<1>8. StopOrder'
  BY <1>2, <1>4, <1>5, <1>6, <1>7 DEF OrderInv, StopOrder
<1> QED
  BY <1>2, <1>8 DEF OrderInv, ChainInv, LoopInv, StartInv, ClosingInv

(* The running channel pushes a buffer. *)
LEMMA OrderPush ==
    ASSUME TypeOK, OrderInv, NEW c \in Chn, call = c, call' = None, state[c] = "ACTIVE",
           NEW b \in Buffer, NEW inb \in Buffer \cup {None}, NEW own \in BOOLEAN,
           EnterPush(c, b, inb, own), UNCHANGED <<phase, state, closing>>
    PROVE  OrderInv'
<1>1. call # None
  BY CoreAssumption
<1>2. phase = "run" /\ closing = None
  BY <1>1 DEF OrderInv, LoopInv
<1>a. CtlTypeOK
  BY DEF TypeOK, CoreTypeOK
<1>3. /\ stack' \in Seq(Frame) /\ Len(stack') = Len(stack) + 1 /\ stack'[Len(stack')].chn = c
      /\ \A i \in 1 .. Len(stack) : stack'[i] = stack[i]
  BY <1>a, PushShape, Zenon
<1>4. /\ DOMAIN stack = 1 .. Len(stack) /\ Len(stack) \in Nat
      /\ DOMAIN stack' = 1 .. (Len(stack) + 1)
  BY <1>3, <1>a, LenProperties DEF CtlTypeOK
<1>5. \A i \in DOMAIN stack' : \/ i \in DOMAIN stack /\ stack'[i] = stack[i]
                               \/ i = Len(stack) + 1 /\ stack'[i].chn = c
  <2>1. SUFFICES ASSUME NEW i \in DOMAIN stack'
                 PROVE  \/ i \in DOMAIN stack /\ stack'[i] = stack[i]
                        \/ i = Len(stack) + 1 /\ stack'[i].chn = c
    OBVIOUS
  <2>2. CASE i \in 1 .. Len(stack)
    BY <1>3, <1>4, <2>2, Zenon
  <2>3. CASE i = Len(stack) + 1
    BY <1>3, <2>3, Zenon
  <2> QED
    BY <1>4, <2>2, <2>3
<1>6. \A i \in DOMAIN stack : Before(stack[i].chn, c) /\ state[stack[i].chn] = "ACTIVE"
  BY <1>1, <1>2 DEF OrderInv, ChainInv, StopOrder
<1>7. StopOrder'
  <2>1. \A i \in DOMAIN stack' : state[stack'[i].chn] = "ACTIVE"
    BY <1>5, <1>6
  <2> QED
    BY <1>2, <2>1 DEF OrderInv, StopOrder
<1>8. ChainInv'
  <2>1. ASSUME NEW i \in DOMAIN stack', NEW j \in DOMAIN stack', i < j
        PROVE  Before(stack'[i].chn, stack'[j].chn)
    <3>1. i \in DOMAIN stack /\ stack'[i] = stack[i]
      BY <1>3, <1>4, <2>1
    <3>2. CASE j \in DOMAIN stack /\ stack'[j] = stack[j]
      BY <2>1, <3>1, <3>2 DEF OrderInv, ChainInv
    <3>3. CASE stack'[j].chn = c
      BY <1>6, <3>1, <3>3
    <3> QED
      BY <1>5, <3>2, <3>3
  <2> QED
    BY <2>1 DEF ChainInv, Before
<1> QED
  BY <1>2, <1>7, <1>8 DEF OrderInv, LoopInv, StartInv, ClosingInv

(* A channel that reads from nobody, or from an active channel, may become  *)
(* active while the loop runs.                                              *)
LEMMA OrderStart ==
    ASSUME TypeOK, OrderInv, NEW d \in Chn, phase = "run", closing = None,
           state' = state \/ state' = [state EXCEPT ![d] = "ACTIVE"],
           Source[d] = None \/ state[Source[d]] = "ACTIVE",
           UNCHANGED <<phase, call, closing>>, DOMAIN stack' = DOMAIN stack,
           \A i \in DOMAIN stack : stack'[i].chn = stack[i].chn
    PROVE  OrderInv'
<1>1. state \in [Chn -> State]
  BY DEF TypeOK, CoreTypeOK, ChnTypeOK
<1>2. state' = state \/ state' = [state EXCEPT ![d] = "ACTIVE"]
  OBVIOUS
<1>3. \A c \in Chn : /\ state[c] = "ACTIVE" => state'[c] = "ACTIVE"
                     /\ c # d => state'[c] = state[c]
  BY <1>1, <1>2
<1>4. \A i \in DOMAIN stack : stack[i].chn \in Chn /\ state[stack[i].chn] = "ACTIVE"
  BY StackChn DEF OrderInv, StopOrder
<1>5. StopOrder'
  <2>1. \A i \in DOMAIN stack' : state'[stack'[i].chn] = "ACTIVE"
    BY <1>3, <1>4
  <2>2. ASSUME NEW c \in Chn, NEW e \in Chn, Source[e] = c, state'[c] = "STOPPED"
        PROVE  state'[e] = "STOPPED"
    <3>1. state[c] = "STOPPED"
      BY <1>1, <1>2, <2>2
    <3>2. state[e] = "STOPPED"
      BY <2>2, <3>1 DEF OrderInv, StopOrder
    <3>3. e # d
      BY <2>2, <3>1, CoreAssumption
    <3> QED
      BY <1>3, <3>2, <3>3
  <2> QED
    BY <2>1, <2>2 DEF StopOrder
<1>6. ChainInv'
  BY DEF OrderInv, ChainInv, Before
<1> QED
  BY <1>5, <1>6 DEF OrderInv, LoopInv, StartInv, ClosingInv

(* The steps of the framework keep the order. *)
LEMMA OrderCore ==
    ASSUME TypeOK, OrderInv, CoreStep
    PROVE  OrderInv'
<1>1. UNCHANGED <<phase, cursor>>
  BY DEF CoreStep, mainVars
<1>2. state \in [Chn -> State] /\ CtlTypeOK
  BY DEF TypeOK, CoreTypeOK, ChnTypeOK
<1>a. stack # <<>> => phase = "run"
  BY DEF OrderInv, LoopInv
<1>3. ASSUME NEW c \in Chn, process_chn_stopping(c)
      PROVE  OrderInv'
  <2>1. call = c /\ call' = None /\ state[c] = "STOPPING"
    BY <1>3 DEF process_chn_stopping
  <2>2. phase = "run"
    BY <2>1, CoreAssumption DEF OrderInv, LoopInv
  <2>3. CASE get_alive_sink_chn(c) # {}
    <3>1. UNCHANGED <<state, stack, closing>>
      BY <1>3, <2>3 DEF process_chn_stopping, chnVars
    <3> QED
      BY <1>1, <2>1, <3>1, OrderReturn
  <2>4. CASE get_alive_sink_chn(c) = {}
    <3>1. closing' = c /\ UNCHANGED <<state, stack>>
      BY <1>3, <2>4 DEF process_chn_stopping, unit_stop, stop_v4l2
    <3>2. \A d \in Chn : Source[d] = c => state[d] = "STOPPED"
      BY <2>4 DEF get_alive_sink_chn
    <3>3. ClosingInv'
      BY <2>1, <3>1, <3>2 DEF ClosingInv
    <3> QED
      BY <1>1, <2>1, <2>2, <3>1, <3>3 DEF OrderInv, StopOrder, ChainInv, LoopInv, StartInv
  <2> QED
    BY <2>3, <2>4
<1>4. ASSUME NEW c \in Chn, process_chn_stopped(c)
      PROVE  OrderInv'
  <2>1. call = c /\ call' = None /\ UNCHANGED <<state, stack, closing>>
    BY <1>4 DEF process_chn_stopped, chnVars
  <2> QED
    BY <1>1, <2>1, OrderReturn
<1>5. CASE stop_done
  <2>1. /\ closing # None /\ closing \in Chn /\ closing' = None
        /\ state' = [state EXCEPT ![closing] = "STOPPED"]
        /\ UNCHANGED <<call, stack>>
    BY <1>2, <1>5 DEF stop_done, CtlTypeOK
  <2>2. \A d \in Chn : state'[d] = IF d = closing THEN "STOPPED" ELSE state[d]
    BY <1>2, <2>1
  <2>3. phase # "start"
    BY <2>1 DEF OrderInv, LoopInv
  <2>4. StopOrder'
    <3>1. ASSUME phase = "run", NEW c \in Chn, NEW d \in Chn, Source[d] = c, state'[c] = "STOPPED"
          PROVE  state'[d] = "STOPPED"
      <4>1. CASE c = closing
        BY <2>1, <2>2, <3>1, <4>1 DEF OrderInv, ClosingInv
      <4>2. CASE c # closing
        BY <2>2, <3>1, <4>2 DEF OrderInv, StopOrder
      <4> QED
        BY <4>1, <4>2
    <3>2. ASSUME phase = "run", NEW i \in DOMAIN stack
          PROVE  state'[stack[i].chn] = "ACTIVE"
      <4>1. state[stack[i].chn] = "ACTIVE" /\ state[closing] = "STOPPING"
        BY <2>1, <3>2 DEF OrderInv, ClosingInv, StopOrder
      <4>2. stack[i].chn \in Chn
        BY StackChn
      <4> QED
        BY <2>2, <4>1, <4>2
    <3> QED
      BY <1>1, <2>1, <3>1, <3>2 DEF StopOrder
  <2>5. StartInv'
    <3>1. \A i \in DOMAIN Order : Order[i] \in Chn
      BY CoreAssumption
    <3>2. ASSUME phase = "abort", NEW i \in DOMAIN Order, i < cursor
          PROVE  state'[Order[i]] = "STOPPED"
      BY <2>2, <3>1, <3>2 DEF OrderInv, StartInv
    <3> QED
      BY <1>1, <2>3, <3>2 DEF StartInv
  <2> QED
    BY <1>1, <2>1, <2>3, <2>4, <2>5 DEF OrderInv, ChainInv, LoopInv, ClosingInv
<1>6. CASE put_shared \/ release_buffer
  <2>1. UNCHANGED <<state, stack, call, closing, failed>> /\ todo # <<>>
    BY <1>6 DEF put_shared, release_buffer, chnVars
  <2> QED
    BY <1>1, <2>1, OrderSame DEF OrderInv, LoopInv
<1>7. ASSUME Running
      PROVE  /\ phase = "run" /\ closing = None /\ call = None
             /\ top = stack[Len(stack)] /\ Len(stack) \in DOMAIN stack
             /\ top.chn \in Chn /\ state[top.chn] = "ACTIVE" /\ top.pos \in Nat \ {0}
             /\ DOMAIN Advanced = DOMAIN stack
             /\ \A i \in DOMAIN stack : Advanced[i].chn = stack[i].chn
  <2>1. stack # <<>> /\ closing = None /\ call = None
    BY <1>7 DEF Running
  <2>2. /\ top = stack[Len(stack)] /\ Len(stack) \in DOMAIN stack /\ top \in Frame
        /\ DOMAIN Advanced = DOMAIN stack
        /\ \A i \in DOMAIN stack : Advanced[i].chn = stack[i].chn
    BY <1>2, <2>1, StackShape
  <2>3. top.chn \in Chn /\ top.pos \in Nat \ {0}
    BY <2>2 DEF Frame
  <2>4. state[top.chn] = "ACTIVE"
    BY <1>a, <2>1, <2>2 DEF OrderInv, StopOrder
  <2> QED
    BY <1>a, <2>1, <2>2, <2>3, <2>4
<1>8. CASE start_sink_chn
  <2> DEFINE d == Outs[top.chn][top.pos]
  <2>1. /\ Running /\ top.pos <= Len(Outs[top.chn])
        /\ stack' = Advanced /\ UNCHANGED <<call, closing>>
        /\ start_chn(d) \/ UNCHANGED <<chnVars, idles, queued, bufVars, failed>>
    BY <1>8 DEF start_sink_chn
  <2>2. d \in Chn /\ Source[d] = top.chn
    <3>1. top.pos \in DOMAIN Outs[top.chn] /\ top.chn \in Chn
      BY <1>7, <2>1, CoreAssumption
    <3> QED
      BY <3>1, SinkOf, CoreAssumption
  <2>3. Source[d] = None \/ state[Source[d]] = "ACTIVE"
    BY <1>7, <2>1, <2>2
  <2> HIDE DEF d
  <2>4. state' = state \/ state' = [state EXCEPT ![d] = "ACTIVE"]
    <3>1. CASE start_chn(d)
      BY <1>2, <2>2, <3>1, StartState, Zenon
    <3>2. CASE UNCHANGED <<chnVars, idles, queued, bufVars, failed>>
      BY <3>2 DEF chnVars
    <3> QED
      BY <2>1, <3>1, <3>2
  <2>5. /\ DOMAIN stack' = DOMAIN stack
        /\ \A i \in DOMAIN stack : stack'[i].chn = stack[i].chn
    BY <1>7, <2>1
  <2>6. phase = "run" /\ closing = None
    BY <1>7, <2>1
  <2> QED
    BY <1>1, <2>1, <2>2, <2>3, <2>4, <2>5, <2>6, OrderStart
<1>9. CASE pipe_push_back
  <2> DEFINE n == Len(Outs[top.chn])
             d == Outs[top.chn][top.pos - n]
  <2>1. /\ Running /\ top.pos > n /\ top.pos <= 2 * n /\ call' = d
        /\ stack' = Advanced /\ UNCHANGED <<state, closing>>
    BY <1>9 DEF pipe_push_back, chnVars
  <2>2. d \in Chn /\ Before(top.chn, d)
    <3>1. top.pos - n \in DOMAIN Outs[top.chn] /\ top.chn \in Chn
      BY <1>7, <2>1, CoreAssumption
    <3>2. d \in Chn /\ Source[d] = top.chn
      BY <3>1, SinkOf, CoreAssumption, Zenon
    <3> QED
      BY <3>1, <3>2, BeforeOrder
  <2> HIDE DEF d, n
  <2>3. phase = "run" /\ closing = None
    BY <1>7, <2>1
  <2>4. /\ DOMAIN stack' = DOMAIN stack
        /\ \A i \in DOMAIN stack : stack'[i].chn = stack[i].chn
    BY <1>7, <2>1
  <2>5. StopOrder'
    BY <1>1, <2>1, <2>3, <2>4 DEF OrderInv, StopOrder
  <2>6. \A i \in DOMAIN stack : Before(stack[i].chn, d)
    <3>1. ASSUME NEW i \in DOMAIN stack PROVE Before(stack[i].chn, d)
      <4>1. i \in Int /\ Len(stack) \in Int /\ i <= Len(stack)
        BY <1>2, LenProperties DEF CtlTypeOK
      <4>2. CASE i = Len(stack)
        BY <1>7, <2>1, <2>2, <4>2
      <4>3. CASE i < Len(stack)
        <5>1. Before(stack[i].chn, top.chn)
          BY <1>7, <2>1, <4>3 DEF OrderInv, ChainInv
        <5> QED
          BY <2>2, <5>1, BeforeOrder
      <4> QED
        BY <4>1, <4>2, <4>3
    <3> QED
      BY <3>1
  <2>7. ChainInv'
    BY <2>1, <2>4, <2>6 DEF OrderInv, ChainInv, Before
  <2> QED
    BY <1>1, <2>1, <2>3, <2>5, <2>7 DEF OrderInv, LoopInv, StartInv, ClosingInv
<1>10. CASE push_return
  <2>1. Running /\ stack' = Front(stack) /\ UNCHANGED <<state, call, closing>>
    BY <1>10 DEF push_return
  <2>2. phase = "run" /\ closing = None /\ call = None
    BY <1>7, <2>1
  <2>3. /\ DOMAIN stack' \subseteq DOMAIN stack
        /\ \A i \in DOMAIN stack' : stack'[i] = stack[i]
    BY <1>2, <2>1, StackShape DEF Running
  <2>4. StopOrder'
    BY <1>1, <2>1, <2>2, <2>3 DEF OrderInv, StopOrder
  <2>5. ChainInv'
    BY <2>1, <2>2, <2>3 DEF OrderInv, ChainInv, Before
  <2> QED
    BY <1>1, <2>1, <2>2, <2>4, <2>5 DEF OrderInv, LoopInv, StartInv, ClosingInv
<1> QED
  BY <1>3, <1>4, <1>5, <1>6, <1>8, <1>9, <1>10 DEF CoreStep, CoreNext

(* The steps of main() and of the loop keep the order. *)
LEMMA OrderMain ==
    ASSUME TypeOK, OrderInv,
           \/ pitcher_start \/ pitcher_start_end \/ stop_chn \/ stop_chn_end
           \/ run_chn \/ pitcher_loop_run \/ timer_func \/ main_exit \/ sig_handler
           \/ \E c \in Chn : teardown(c) \/ \E why \in {"timeout", "event"} : poll_func(c, why)
    PROVE  OrderInv'
<1>1. state \in [Chn -> State] /\ MainTypeOK /\ cursor \in Nat \ {0} /\ failed \in BOOLEAN
  BY DEF TypeOK, CoreTypeOK, ChnTypeOK, MainTypeOK
<1>2. /\ \A i \in DOMAIN Order : Order[i] \in Chn /\ i \in Nat /\ i > 0 /\ i <= Len(Order)
      /\ Len(Order) \in Nat
      /\ \A c \in Chn : \E i \in DOMAIN Order : Order[i] = c
  BY CoreAssumption, TopologyAssumption, LenProperties
<1>3. CASE pitcher_start
  <2>1. /\ phase = "start" /\ Idle /\ ~ AtEnd /\ cursor' = cursor + 1 /\ phase' = phase
        /\ UNCHANGED <<call, stack, todo, closing>>
        /\ IF Cur \in Boot THEN start_chn(Cur)
           ELSE UNCHANGED <<chnVars, idles, queued, bufVars, failed>>
    BY <1>3 DEF pitcher_start, ctlVars
  <2>2. cursor \in DOMAIN Order /\ Cur \in Chn /\ Cur = Order[cursor]
    BY <1>1, <2>1, CurChn DEF Cur
  <2>3. /\ state' = state \/ (Cur \in Boot /\ state' = [state EXCEPT ![Cur] = "ACTIVE"])
        /\ failed' = failed \/ failed' = TRUE
        /\ Cur \in Boot => state'[Cur] = "ACTIVE" \/ failed'
    <3>1. CASE Cur \in Boot
      BY <1>1, <2>1, <2>2, <3>1, StartState, Zenon
    <3>2. CASE Cur \notin Boot
      BY <2>1, <3>2 DEF chnVars
    <3> QED
      BY <3>1, <3>2, Zenon
  <2>4. /\ \A c \in Chn \ Boot : state[c] = "STOPPED"
        /\ failed \/ \A i \in DOMAIN Order :
                        i < cursor /\ Order[i] \in Boot => state[Order[i]] = "ACTIVE"
    BY <2>1 DEF OrderInv, StartInv
  <2>5. \A c \in Chn \ Boot : state'[c] = "STOPPED"
    BY <1>1, <2>2, <2>3, <2>4
  <2>6. ASSUME ~ failed', NEW i \in DOMAIN Order, i < cursor', Order[i] \in Boot
        PROVE  state'[Order[i]] = "ACTIVE"
    <3>1. ~ failed
      BY <2>3, <2>6
    <3>2. i < cursor \/ i = cursor
      BY <1>1, <1>2, <2>1, <2>6
    <3>3. CASE i = cursor
      BY <2>2, <2>3, <2>6, <3>3
    <3>4. CASE i < cursor
      BY <1>1, <1>2, <2>2, <2>3, <2>4, <2>6, <3>1, <3>4
    <3> QED
      BY <3>2, <3>3, <3>4
  <2>7. StartInv'
    BY <2>1, <2>5, <2>6 DEF StartInv
  <2> QED
    BY <2>1, <2>7 DEF OrderInv, StopOrder, ChainInv, LoopInv, ClosingInv, Idle
<1>4. CASE pitcher_start_end
  <2>1. /\ phase = "start" /\ Idle /\ AtEnd /\ cursor' = 1
        /\ phase' = IF failed THEN "abort" ELSE "run"
        /\ UNCHANGED <<state, failed, call, stack, todo, closing>>
    BY <1>4 DEF pitcher_start_end, coreVars, chnVars, ctlVars
  <2>2. stack = <<>> /\ call = None /\ closing = None
    BY <2>1 DEF Idle
  <2>3. ASSUME ~ failed, NEW c \in Chn, NEW d \in Chn, Source[d] = c, state[c] = "STOPPED"
        PROVE  state[d] = "STOPPED"
    <3>1. PICK i \in DOMAIN Order : Order[i] = c
      BY <1>2
    <3>2. i < cursor
      BY <1>1, <1>2, <2>1, <3>1 DEF AtEnd
    <3>3. c \notin Boot
      BY <2>1, <2>3, <3>1, <3>2 DEF OrderInv, StartInv
    <3>4. d \notin Boot
      BY <2>3, <3>3, PipelineAssumption, CoreAssumption
    <3> QED
      BY <2>1, <3>4 DEF OrderInv, StartInv
  <2>4. StopOrder'
    BY <2>1, <2>2, <2>3 DEF StopOrder
  <2>5. StartInv'
    BY <1>2, <2>1 DEF StartInv
  <2> QED
    BY <2>1, <2>2, <2>4, <2>5 DEF OrderInv, ChainInv, LoopInv, ClosingInv
<1>5. CASE stop_chn
  <2>1. /\ phase = "abort" /\ Idle /\ ~ AtEnd /\ cursor' = cursor + 1 /\ phase' = phase
        /\ UNCHANGED <<state, failed, call, stack>>
        /\ \/ state[Cur] = "STOPPED" /\ closing' = closing
           \/ closing' = Cur
    BY <1>5, Zenon DEF stop_chn, unit_stop, stop_v4l2, coreVars, chnVars, ctlVars
  <2>2. cursor \in DOMAIN Order /\ Cur = Order[cursor]
    BY <1>1, <2>1, CurChn DEF Cur
  <2>3. stack = <<>> /\ call = None /\ closing = None
    BY <2>1 DEF Idle
  <2>4. ASSUME NEW i \in DOMAIN Order, i < cursor', Order[i] # closing'
        PROVE  state[Order[i]] = "STOPPED"
    <3>1. i < cursor \/ i = cursor
      BY <1>1, <1>2, <2>1, <2>4
    <3>2. CASE i = cursor
      BY <2>1, <2>2, <2>4, <3>2
    <3>3. CASE i < cursor
      BY <1>2, <2>1, <2>3, <2>4, <3>3, CoreAssumption DEF OrderInv, StartInv
    <3> QED
      BY <3>1, <3>2, <3>3
  <2>5. StartInv'
    BY <2>1, <2>4 DEF StartInv
  <2> QED
    BY <2>1, <2>3, <2>5 DEF OrderInv, StopOrder, ChainInv, LoopInv, ClosingInv
<1>6. CASE stop_chn_end
  <2>1. /\ phase = "abort" /\ Idle /\ AtEnd /\ phase' = "run"
        /\ UNCHANGED <<state, call, stack, closing>>
    BY <1>6 DEF stop_chn_end, coreVars, chnVars, ctlVars
  <2>2. stack = <<>> /\ call = None /\ closing = None
    BY <2>1 DEF Idle
  <2>3. ASSUME NEW c \in Chn PROVE state[c] = "STOPPED"
    <3>1. PICK i \in DOMAIN Order : Order[i] = c
      BY <1>2
    <3>2. i < cursor
      BY <1>1, <1>2, <2>1, <3>1 DEF AtEnd
    <3> QED
      BY <2>1, <2>2, <3>1, <3>2, CoreAssumption DEF OrderInv, StartInv
  <2>4. StopOrder'
    BY <2>1, <2>2, <2>3 DEF StopOrder
  <2> QED
    BY <2>1, <2>2, <2>4 DEF OrderInv, ChainInv, LoopInv, StartInv, ClosingInv
<1>7. CASE run_chn \/ \E c \in Chn : \E why \in {"timeout", "event"} : poll_func(c, why)
  <2>1. phase = "run" /\ Idle /\ phase' = phase /\ UNCHANGED <<state, stack, closing>>
    BY <1>7, Zenon DEF run_chn, poll_func, chnVars
  <2>2. stack = <<>> /\ closing = None
    BY <2>1 DEF Idle
  <2> QED
    BY <2>1, <2>2 DEF OrderInv, StopOrder, ChainInv, LoopInv, StartInv, ClosingInv
<1>8. CASE timer_func \/ main_exit
  <2>1. /\ phase \in {"run", "teardown"} /\ Idle /\ phase' \in {"run", "teardown", "exit"}
        /\ phase' = "run" => phase = "run"
        /\ UNCHANGED <<state, call, stack, closing>>
    BY <1>8 DEF timer_func, main_exit, coreVars, chnVars, ctlVars
  <2>2. stack = <<>> /\ closing = None /\ call = None
    BY <2>1 DEF Idle
  <2> QED
    BY <2>1, <2>2 DEF OrderInv, StopOrder, ChainInv, LoopInv, StartInv, ClosingInv
<1>9. CASE pitcher_loop_run \/ sig_handler \/ \E c \in Chn : teardown(c)
  <2>1. /\ UNCHANGED <<state, stack, call, closing, phase, cursor, failed>>
        /\ phase = "start" => todo' = todo
    BY <1>9 DEF pitcher_loop_run, sig_handler, teardown, coreVars, chnVars, ctlVars, mainVars
  <2> QED
    BY <2>1, OrderSame
<1> QED
  BY <1>3, <1>4, <1>5, <1>6, <1>7, <1>8, <1>9

(* The runs of the units and the decoder's output channel keep the order. *)
LEMMA OrderRun ==
    ASSUME FlowInv, OrderInv, NEW c \in Chn,
           \/ process_chn_active(c) \/ ifile_run(c) \/ convert_run(c) \/ ofile_run(c)
           \/ run_v4l2(c) \/ check_ctrl_ready(c)
           \/ is_decoder_output_finish(c) \/ check_v4l2_ready(c)
    PROVE  OrderInv'
<1>1. /\ TypeOK /\ state \in [Chn -> State] /\ QTypeOK /\ DoneInv
  BY DEF FlowInv, TypeOK, CoreTypeOK, ChnTypeOK
<1>2. call = c /\ state[c] = "ACTIVE" /\ call # None
  BY CoreAssumption
    , Zenon DEF process_chn_active, ifile_run, convert_run, ofile_run, run_v4l2, check_ctrl_ready,
         is_decoder_output_finish, check_v4l2_ready, Active
<1>3. phase = "run" /\ closing = None
  BY <1>2 DEF OrderInv, LoopInv
<1>4. ASSUME call' = None, UNCHANGED <<phase, stack, closing>>,
             state' = state \/ state' = [state EXCEPT ![c] = "STOPPING"]
      PROVE  OrderInv'
  BY <1>1, <1>2, <1>4, OrderReturn
<1>5. state' = [state EXCEPT ![c] = @] => state' = state
  BY <1>1
<1>6. CASE process_chn_active(c) \/ ofile_run(c) \/ check_ctrl_ready(c) \/ check_v4l2_ready(c)
  <2>1. call' = None /\ UNCHANGED <<phase, stack, closing>>
    BY <1>6 DEF process_chn_active, ofile_run, check_ctrl_ready, check_v4l2_ready, mainVars
  <2>2. state' = [state EXCEPT ![c] = @] \/ state' = [state EXCEPT ![c] = "STOPPING"]
    BY <1>6 DEF process_chn_active, ofile_run, check_ctrl_ready, check_v4l2_ready
  <2> QED
    BY <1>4, <1>5, <2>1, <2>2
<1>7. CASE ifile_run(c)
  <2>1. call' = None /\ UNCHANGED <<phase, state, closing>> /\ Ready(c) /\ Kind[c] = "ifile"
    BY <1>7 DEF ifile_run, Active, mainVars
  <2>2. EnterPush(c, Head(idles[c]), None, TRUE)
    BY <1>7, Zenon DEF ifile_run
  <2>3. idles[c] # <<>>
    BY <2>1 DEF Ready, ifile_checkready, convert_checkready
  <2>4. Head(idles[c]) \in Buffer
    BY <1>1, <2>3, HeadType DEF QTypeOK
  <2> QED
    BY <1>1, <1>2, <2>1, <2>2, <2>4, OrderPush, Zenon
<1>8. CASE convert_run(c)
  <2> DEFINE in == Head(pipe[c])
             b == IF c \in Passthru THEN in ELSE Head(idles[c])
  <2>1. /\ call' = None /\ UNCHANGED <<phase, state, closing>>
        /\ Ready(c) /\ Kind[c] \in {"convert", "g2d"}
    BY <1>8 DEF convert_run, Active, mainVars
  <2>2. stack' = stack \/ EnterPush(c, b, in, c \notin Passthru)
    BY <1>8, Zenon DEF convert_run
  <2>3. pipe[c] # <<>> /\ (c \in Passthru \/ idles[c] # <<>>)
    BY <2>1, Zenon DEF Ready, ifile_checkready, convert_checkready
  <2>4. in \in Buffer
    BY <1>1, <2>3, HeadType DEF QTypeOK
  <2>5. b \in Buffer
    BY <1>1, <2>3, <2>4, HeadType DEF QTypeOK
  <2>6. (c \notin Passthru) \in BOOLEAN
    OBVIOUS
  <2> HIDE DEF in, b
  <2>7. CASE stack' = stack
    BY <1>4, <2>1, <2>7
  <2>8. CASE EnterPush(c, b, in, c \notin Passthru)
    BY <1>1, <1>2, <2>1, <2>4, <2>5, <2>6, <2>8, OrderPush, Zenon
  <2> QED
    BY <2>2, <2>7, <2>8
<1>9. CASE run_v4l2(c)
  <2>1. call' = None /\ UNCHANGED <<phase, state, closing>>
    BY <1>9 DEF run_v4l2, mainVars
  <2>2. \/ stack' = stack
        \/ done[c] > 0 /\ EnterPush(c, Head(queued[c]), None, TRUE)
    BY <1>9, Zenon DEF run_v4l2
  <2>3. CASE stack' = stack
    BY <1>4, <2>1, <2>3
  <2>4. CASE done[c] > 0 /\ EnterPush(c, Head(queued[c]), None, TRUE)
    <3>1. queued[c] # <<>>
      BY <1>1, <2>4 DEF DoneInv, QTypeOK
    <3>2. Head(queued[c]) \in Buffer
      BY <1>1, <3>1, HeadType DEF QTypeOK
    <3> QED
      BY <1>1, <1>2, <2>1, <2>4, <3>2, OrderPush, Zenon
  <2> QED
    BY <2>2, <2>3, <2>4, Zenon
<1>10. CASE is_decoder_output_finish(c)
  <2>1. UNCHANGED <<phase, cursor, call, stack, todo, closing>>
    BY <1>10 DEF is_decoder_output_finish, ctlVars, mainVars
  <2>2. Capture \in Chn /\ Source[Capture] = None
    BY <1>10, CoreAssumption, PipelineAssumption DEF is_decoder_output_finish, Active
  <2>3. start_chn(Capture) \/ UNCHANGED <<state, failed>>
    BY <1>10 DEF is_decoder_output_finish, handle_decoder_resolution_change
  <2>4. state' = state \/ state' = [state EXCEPT ![Capture] = "ACTIVE"]
    BY <1>1, <2>2, <2>3, StartState, Zenon
  <2> QED
    BY <1>1, <1>3, <2>1, <2>2, <2>4, OrderStart
<1> QED
  BY <1>6, <1>7, <1>8, <1>9, <1>10

-----------------------------------------------------------------------------
(* The theorems. *)

(* Every step keeps the inductive invariant. *)
LEMMA PipelineStep ==
    ASSUME PipelineInv, [Next]_vars
    PROVE  PipelineInv'
<1>1. FlowInv /\ OrderInv /\ TypeOK
  BY DEF PipelineInv, FlowInv, OrderInv
<1>2. FlowInv'
  BY <1>1, FlowNext
<1>3. OrderInv'
  <2>1. CASE MainNext
    BY <1>1, <2>1, OrderCore, OrderMain, OrderRun DEF MainNext
  <2>2. CASE sig_handler
    BY <1>1, <2>2, OrderMain
  <2>3. CASE DriverNext \/ UNCHANGED vars
    <3>1. UNCHANGED <<state, stack, call, closing, phase, cursor, failed, todo>>
      BY <2>3, Zenon DEF DriverNext, DriverDecode, DriverChange, DriverEos, vars, coreVars, chnVars,
                  ctlVars, mainVars
    <3> QED
      BY <1>1, <3>1, OrderSame
  <2> QED
    BY <2>1, <2>2, <2>3 DEF Next, Done
<1> QED
  BY <1>2, <1>3 DEF PipelineInv, FlowInv, OrderInv

(* The inductive invariant holds initially. *)
LEMMA PipelineStart ==
    ASSUME Init
    PROVE  PipelineInv
<1>1. ChnTypeOK
  BY DEF Init, CoreInit, ChnTypeOK, State
<1>2. QTypeOK
  BY DEF Init, CoreInit, QTypeOK
<1>3. BufTypeOK
  BY DEF Init, CoreInit, BufTypeOK
<1>4. CtlTypeOK /\ failed \in BOOLEAN
  <2>1. call = None /\ stack = <<>> /\ todo = <<>> /\ closing = None /\ failed = FALSE
    BY DEF Init, CoreInit
  <2> QED
    BY <2>1, EmptySeq, Zenon DEF CtlTypeOK
<1>5. MainTypeOK
  <2>1. phase = "start" /\ cursor = 1 /\ visiting = FALSE /\ count = FALSE /\ polled = {}
    BY DEF Init
  <2>2. phase \in Phases /\ cursor \in Nat \ {0}
    BY <2>1 DEF Phases
  <2>3. visiting \in BOOLEAN /\ count \in BOOLEAN
    BY <2>1, Zenon
  <2> QED
    BY <2>1, <2>2, <2>3 DEF MainTypeOK
<1>6. DecTypeOK
  BY Zenon DEF Init, DecTypeOK
<1>7. DrvTypeOK
  BY PipelineAssumption, Zenon DEF Init, DrvTypeOK, Events
<1>8. AppTypeOK
  <2>1. g_exit = FALSE /\ nread = [c \in Chn |-> 0] /\ written = [c \in Chn |-> <<>>]
    BY DEF Init
  <2>2. 0 \in 0 .. FrameNum /\ <<>> \in Seq(Nat)
    BY PipelineAssumption, EmptySeq
  <2> QED
    BY <2>1, <2>2, Zenon DEF AppTypeOK
<1>9. FileInv
  BY PipelineAssumption DEF Init, FileInv
<1>10. DoneInv
  BY DEF Init, CoreInit, DoneInv
<1>11. StopOrder /\ ChainInv /\ LoopInv /\ ClosingInv
  BY DEF Init, CoreInit, StopOrder, ChainInv, LoopInv, ClosingInv
<1>12. StartInv
  <2>1. \A i \in DOMAIN Order : ~ (i < 1)
    BY CoreAssumption, LenProperties
  <2> QED
    BY <2>1, PipelineAssumption DEF Init, CoreInit, StartInv
<1> QED
  BY <1>1, <1>2, <1>3, <1>4, <1>5, <1>6, <1>7, <1>8, <1>9, <1>10, <1>11, <1>12
     DEF PipelineInv, TypeOK, CoreTypeOK

(* The inductive invariant holds in every reachable state: of any topology  *)
(* of nodes, whatever the driver decodes, wherever a start fails or the     *)
(* signal arrives.                                                          *)
THEOREM PipelineInvariant == Spec => []PipelineInv
<1>1. Init => PipelineInv
  BY PipelineStart
<1>2. PipelineInv /\ [Next]_vars => PipelineInv'
  BY PipelineStep
<1> QED
  BY <1>1, <1>2, PTL DEF Spec

(* Every variable keeps its type; no input file is read past its last frame *)
(* (mxc_v4l2_vpu_enc.c 1825-1871).                                          *)
THEOREM TypesSafe == Spec => []TypeOK
<1>1. PipelineInv => TypeOK
  BY DEF PipelineInv
<1> QED
  BY <1>1, PipelineInvariant, PTL

(* While the loop runs a channel never stops before its sinks, and no       *)
(* channel leaves the active state while its own push is suspended          *)
(* (core.c __process_chn_stopping, __start_sink_chn).                       *)
THEOREM StopOrderSafe == Spec => []StopOrder
<1>1. PipelineInv => StopOrder
  BY DEF PipelineInv
<1> QED
  BY <1>1, PipelineInvariant, PTL
-----------------------------------------------------------------------------
(* Counting the references to a buffer. *)

(* How often b occurs in a sequence *)
Num(s, b) == Cardinality(At(s, b))

(* A one-to-one image has as many elements. *)
LEMMA ImageCard ==
    ASSUME NEW A, NEW B, IsFiniteSet(A), NEW f \in [A -> B],
           \A x, y \in A : f[x] = f[y] => x = y,
           \A z \in B : \E x \in A : f[x] = z
    PROVE  IsFiniteSet(B) /\ Cardinality(B) = Cardinality(A)
<1>1. f \in Bijection(A, B)
  BY DEF Bijection, Injection, Surjection, IsInjective
<1>2. ExistsBijection(A, B)
  BY <1>1 DEF ExistsBijection
<1> QED
  BY <1>2, FS_Bijection

LEMMA DisjointCard ==
    ASSUME NEW A, NEW B, IsFiniteSet(A), IsFiniteSet(B), A \cap B = {}
    PROVE  IsFiniteSet(A \cup B) /\ Cardinality(A \cup B) = Cardinality(A) + Cardinality(B)
<1>1. Cardinality(A) \in Nat /\ Cardinality(B) \in Nat /\ Cardinality({}) = 0
  BY FS_CardinalityType, FS_EmptySet
<1>2. /\ IsFiniteSet(A \cup B)
      /\ Cardinality(A \cup B) = Cardinality(A) + Cardinality(B) - Cardinality(A \cap B)
  BY FS_Union
<1>3. Cardinality(A \cap B) = 0
  BY <1>1
<1> QED
  BY <1>1, <1>2, <1>3

LEMMA NumType ==
    ASSUME NEW S, NEW s \in Seq(S), NEW b
    PROVE  /\ IsFiniteSet(At(s, b)) /\ Num(s, b) \in Nat
           /\ Num(s, b) = 0 <=> \A i \in DOMAIN s : s[i] # b
<1>1. At(s, b) \subseteq 1 .. Len(s) /\ Len(s) \in Nat
  BY DEF At
<1>2. IsFiniteSet(1 .. Len(s))
  BY <1>1, FS_Interval
<1>3. IsFiniteSet(At(s, b))
  BY <1>1, <1>2, FS_Subset
<1>4. Num(s, b) \in Nat /\ (Num(s, b) = 0 <=> At(s, b) = {})
  BY <1>3, FS_CardinalityType, FS_EmptySet DEF Num
<1>5. At(s, b) = {} <=> \A i \in DOMAIN s : s[i] # b
  BY DEF At
<1> QED
  BY <1>3, <1>4, <1>5

LEMMA NumEmpty == \A b : Num(<<>>, b) = 0
<1>1. \A b : At(<<>>, b) = {}
  BY DEF At
<1> QED
  BY <1>1, FS_EmptySet DEF Num

LEMMA NumOne ==
    ASSUME NEW x, NEW b
    PROVE  Num(<<x>>, b) = IF x = b THEN 1 ELSE 0
<1>1. DOMAIN <<x>> = {1} /\ <<x>>[1] = x
  OBVIOUS
<1>2. At(<<x>>, b) = IF x = b THEN {1} ELSE {}
  BY <1>1 DEF At
<1>3. Cardinality({1}) = 1 /\ Cardinality({}) = 0
  BY FS_Singleton, FS_EmptySet
<1> QED
  BY <1>2, <1>3 DEF Num

LEMMA NumConcat ==
    ASSUME NEW S, NEW s \in Seq(S), NEW t \in Seq(S), NEW b
    PROVE  s \o t \in Seq(S) /\ Num(s \o t, b) = Num(s, b) + Num(t, b)
<1> DEFINE r == s \o t
           m == Len(s)
           B == {m + j : j \in At(t, b)}
<1>1. /\ r \in Seq(S) /\ Len(r) = m + Len(t) /\ m \in Nat /\ Len(t) \in Nat
      /\ \A i \in 1 .. m + Len(t) : r[i] = IF i <= m THEN s[i] ELSE t[i - m]
      /\ DOMAIN s = 1 .. m /\ DOMAIN t = 1 .. Len(t) /\ DOMAIN r = 1 .. m + Len(t)
  BY ConcatProperties
<1>2. IsFiniteSet(At(s, b)) /\ IsFiniteSet(At(t, b))
  BY NumType
<1> HIDE DEF r, m
<1>3. IsFiniteSet(B) /\ Cardinality(B) = Cardinality(At(t, b))
  <2> DEFINE f == [j \in At(t, b) |-> m + j]
  <2>1. At(t, b) \subseteq Int
    BY <1>1 DEF At
  <2>2. f \in [At(t, b) -> B] /\ \A x, y \in At(t, b) : f[x] = f[y] => x = y
    BY <1>1, <2>1
  <2>3. \A z \in B : \E x \in At(t, b) : f[x] = z
    OBVIOUS
  <2> HIDE DEF f, B
  <2> QED
    BY <1>2, <2>2, <2>3, ImageCard
<1>4. At(s, b) \cap B = {}
  BY <1>1 DEF At
<1>5. At(r, b) = At(s, b) \cup B
  <2>1. ASSUME NEW i \in At(r, b) PROVE i \in At(s, b) \cup B
    <3>1. i \in 1 .. m + Len(t) /\ r[i] = b
      BY <1>1 DEF At
    <3>2. CASE i <= m
      BY <1>1, <3>1, <3>2 DEF At
    <3>3. CASE ~ (i <= m)
      <4>1. i - m \in At(t, b) /\ i = m + (i - m)
        BY <1>1, <3>1, <3>3 DEF At
      <4> QED
        BY <4>1
    <3> QED
      BY <3>2, <3>3
  <2>2. ASSUME NEW i \in At(s, b) PROVE i \in At(r, b)
    BY <1>1 DEF At
  <2>3. ASSUME NEW j \in At(t, b) PROVE m + j \in At(r, b)
    BY <1>1 DEF At
  <2> QED
    BY <2>1, <2>2, <2>3
<1> HIDE DEF B
<1>6. Cardinality(At(r, b)) = Cardinality(At(s, b)) + Cardinality(At(t, b))
  BY <1>2, <1>3, <1>4, <1>5, DisjointCard, Zenon
<1> QED
  BY <1>1, <1>6 DEF Num, r

LEMMA NumAppend ==
    ASSUME NEW S, NEW s \in Seq(S), NEW x \in S, NEW b
    PROVE  /\ Append(s, x) \in Seq(S)
           /\ Num(Append(s, x), b) = Num(s, b) + (IF x = b THEN 1 ELSE 0)
<1> DEFINE o == <<x>>
<1>1. o \in Seq(S) /\ Append(s, x) = s \o o
  OBVIOUS
<1>2. Num(o, b) = IF x = b THEN 1 ELSE 0
  BY NumOne
<1> HIDE DEF o
<1>3. s \o o \in Seq(S) /\ Num(s \o o, b) = Num(s, b) + Num(o, b)
  BY <1>1, NumConcat
<1> QED
  BY <1>1, <1>2, <1>3

LEMMA NumHead ==
    ASSUME NEW S, NEW s \in Seq(S), s # <<>>, NEW b
    PROVE  /\ Head(s) \in S /\ Tail(s) \in Seq(S)
           /\ Num(s, b) = Num(Tail(s), b) + (IF Head(s) = b THEN 1 ELSE 0)
           /\ \A i \in DOMAIN Tail(s) : i + 1 \in DOMAIN s /\ Tail(s)[i] = s[i + 1]
           /\ 1 \in DOMAIN s /\ Head(s) = s[1]
<1> DEFINE h == <<Head(s)>>
           t == Tail(s)
<1>1. /\ Head(s) \in S /\ t \in Seq(S) /\ Len(t) = Len(s) - 1 /\ Len(s) \in Nat \ {0}
      /\ DOMAIN s = 1 .. Len(s) /\ DOMAIN t = 1 .. Len(s) - 1
      /\ \A i \in 1 .. Len(s) - 1 : t[i] = s[i + 1]
      /\ Head(s) = s[1]
  OBVIOUS
<1>2. h \in Seq(S) /\ Len(h) = 1 /\ h[1] = s[1]
  BY <1>1
<1> HIDE DEF t, h
<1>3. /\ h \o t \in Seq(S) /\ Len(h \o t) = Len(s)
      /\ \A i \in 1 .. Len(s) : (h \o t)[i] = IF i <= 1 THEN h[i] ELSE t[i - 1]
  <2>1. /\ h \o t \in Seq(S) /\ Len(h \o t) = Len(h) + Len(t)
        /\ \A i \in 1 .. Len(h) + Len(t) :
              (h \o t)[i] = IF i <= Len(h) THEN h[i] ELSE t[i - Len(h)]
    BY <1>1, <1>2, ConcatProperties, Zenon
  <2>2. Len(h) + Len(t) = Len(s)
    BY <1>1, <1>2
  <2> QED
    BY <1>2, <2>1, <2>2
<1>4. \A i \in 1 .. Len(s) : (h \o t)[i] = s[i]
  BY <1>1, <1>2, <1>3
<1>5. s = h \o t
  BY <1>3, <1>4, SeqEqual, Zenon
<1>6. Num(s, b) = Num(h, b) + Num(t, b)
  BY <1>1, <1>2, <1>5, NumConcat
<1>7. Num(h, b) = IF Head(s) = b THEN 1 ELSE 0
  BY NumOne DEF h
<1>8. Num(t, b) \in Nat
  BY <1>1, NumType
<1> QED
  BY <1>1, <1>6, <1>7, <1>8 DEF t

LEMMA NumFront ==
    ASSUME NEW S, NEW s \in Seq(S), s # <<>>, NEW b
    PROVE  /\ Front(s) \in Seq(S)
           /\ Num(s, b) = Num(Front(s), b) + (IF s[Len(s)] = b THEN 1 ELSE 0)
<1> DEFINE f == Front(s)
           x == s[Len(s)]
<1>1. Len(s) \in Nat /\ Len(s) # 0 /\ DOMAIN s = 1 .. Len(s) /\ x \in S
  BY EmptySeq, LenProperties
<1>2. f \in Seq(S) /\ Len(f) = Len(s) - 1 /\ \A i \in 1 .. Len(s) - 1 : f[i] = s[i]
  <2>1. f = SubSeq(s, 1, Len(s) - 1) /\ Len(s) - 1 \in Int
    BY <1>1 DEF Front
  <2>2. \A i \in 1 .. Len(s) - 1 : s[i] \in S
    BY <1>1
  <2> HIDE DEF f
  <2> QED
    BY <1>1, <2>1, <2>2, SubSeqProperties
<1> HIDE DEF f, x
<1>3. Append(f, x) \in Seq(S) /\ Num(Append(f, x), b) = Num(f, b) + (IF x = b THEN 1 ELSE 0)
  BY <1>1, <1>2, NumAppend
<1>4. \A i \in 1 .. Len(s) : Append(f, x)[i] = s[i]
  BY <1>1, <1>2 DEF x
<1>5. Append(f, x) = s
  <2>1. Len(Append(f, x)) = Len(f) + 1
    BY <1>1, <1>2, AppendProperties, Zenon
  <2>2. Len(Append(f, x)) = Len(s)
    BY <1>1, <1>2, <2>1
  <2> QED
    BY <1>3, <1>4, <2>2, SeqEqual
<1> QED
  BY <1>2, <1>3, <1>5 DEF f, x

(* A sequence without repetitions holds each of its members once. *)
LEMMA NumInjective ==
    ASSUME NEW S, NEW s \in Seq(S), NEW b, \A i, j \in DOMAIN s : s[i] = s[j] => i = j
    PROVE  Num(s, b) = IF b \in ToSet(s) THEN 1 ELSE 0
<1>1. CASE b \notin ToSet(s)
  BY <1>1, NumType DEF ToSet
<1>2. CASE b \in ToSet(s)
  <2>1. PICK i \in DOMAIN s : s[i] = b
    BY <1>2 DEF ToSet
  <2>2. At(s, b) = {i}
    BY <2>1 DEF At
  <2> QED
    BY <1>2, <2>2, FS_Singleton, Zenon DEF Num
<1> QED
  BY <1>1, <1>2
(* The places of b in a sequence, as Holders names them. *)
One(tag, s, b) == Places(tag, None, At(s, b))

LEMMA ChnFinite == IsFiniteSet(Chn)
<1>1. Len(Order) \in Nat /\ DOMAIN Order = 1 .. Len(Order) /\ Order \in [1 .. Len(Order) -> Chn]
  BY CoreAssumption
<1>2. \A c \in Chn : \E i \in 1 .. Len(Order) : Order[i] = c
  BY <1>1, TopologyAssumption
<1>3. Order \in Surjection(1 .. Len(Order), Chn)
  BY <1>1, <1>2 DEF Surjection
<1>4. IsFiniteSet(1 .. Len(Order))
  BY <1>1, FS_Interval
<1> QED
  BY <1>3, <1>4, FS_Surjection

LEMMA PlacesCard ==
    ASSUME NEW tag, NEW c, NEW A, IsFiniteSet(A)
    PROVE  /\ IsFiniteSet(Places(tag, c, A))
           /\ Cardinality(Places(tag, c, A)) = Cardinality(A)
<1> DEFINE B == Places(tag, c, A)
           f == [i \in A |-> <<tag, c, i>>]
<1>1. /\ f \in [A -> B] /\ \A x, y \in A : f[x] = f[y] => x = y
      /\ \A z \in B : \E x \in A : f[x] = z
  BY DEF Places
<1> HIDE DEF B, f
<1>2. IsFiniteSet(B) /\ Cardinality(B) = Cardinality(A)
  BY <1>1, ImageCard
<1> QED
  BY <1>2 DEF B

LEMMA OneCard ==
    ASSUME NEW S, NEW s \in Seq(S), NEW tag, NEW b
    PROVE  IsFiniteSet(One(tag, s, b)) /\ Cardinality(One(tag, s, b)) = Num(s, b)
<1>1. IsFiniteSet(At(s, b))
  BY NumType
<1> QED
  BY <1>1, PlacesCard DEF One, Num

LEMMA FamFinite ==
    ASSUME NEW f \in [Chn -> Seq(Buffer)], NEW tag, NEW b
    PROVE  /\ IsFiniteSet(InQueues(tag, f, b)) /\ Cardinality(InQueues(tag, f, b)) \in Nat
           /\ Cardinality(InQueues(tag, f, b)) = 0 <=> \A c \in Chn : \A i \in DOMAIN f[c] : f[c][i] # b
<1> DEFINE G == [c \in Chn |-> Places(tag, c, At(f[c], b))]
           Z == {G[c] : c \in Chn}
<1>1. \A c \in Chn : IsFiniteSet(G[c])
  <2> SUFFICES ASSUME NEW c \in Chn PROVE IsFiniteSet(G[c])
    OBVIOUS
  <2>1. f[c] \in Seq(Buffer)
    OBVIOUS
  <2>2. IsFiniteSet(At(f[c], b))
    BY <2>1, NumType
  <2> QED
    BY <2>2, PlacesCard
<1>2. InQueues(tag, f, b) = UNION Z
  BY DEF InQueues
<1>3. G \in Surjection(Chn, Z)
  BY DEF Surjection
<1> HIDE DEF G
<1>4. IsFiniteSet(Z)
  BY <1>3, ChnFinite, FS_Surjection
<1>5. IsFiniteSet(UNION Z)
  BY <1>1, <1>4, FS_UNION, Zenon
<1>6. InQueues(tag, f, b) = {} <=> \A c \in Chn : \A i \in DOMAIN f[c] : f[c][i] # b
  <2>1. ASSUME NEW c \in Chn, NEW i \in DOMAIN f[c], f[c][i] = b
        PROVE  <<tag, c, i>> \in InQueues(tag, f, b)
    BY <2>1 DEF InQueues, Places, At
  <2>2. ASSUME NEW z \in InQueues(tag, f, b)
        PROVE  \E c \in Chn : \E i \in DOMAIN f[c] : f[c][i] = b
    BY DEF InQueues, Places, At
  <2> QED
    BY <2>1, <2>2, Zenon
<1> QED
  BY <1>2, <1>5, <1>6, FS_CardinalityType, FS_EmptySet, Zenon

Queues == [Chn -> Seq(Buffer)]

SameElsewhere(f, g, d) == \A c \in Chn : c # d => g[c] = f[c]

(* When one queue changes, the count changes as the count of that queue. *)
LEMMA FamUpdate ==
    ASSUME NEW f \in Queues, NEW g \in Queues, NEW d \in Chn,
           NEW tag, NEW b, SameElsewhere(f, g, d)
    PROVE  Cardinality(InQueues(tag, g, b)) + Num(f[d], b) = Cardinality(InQueues(tag, f, b)) + Num(g[d], b)
<1> DEFINE R == UNION {Places(tag, c, At(f[c], b)) : c \in Chn \ {d}}
           F == Places(tag, d, At(f[d], b))
           H == Places(tag, d, At(g[d], b))
<1>1. InQueues(tag, f, b) = R \cup F /\ InQueues(tag, g, b) = R \cup H
  BY DEF InQueues, SameElsewhere
<1>2. R \cap F = {} /\ R \cap H = {}
  BY DEF Places
<1>3. f[d] \in Seq(Buffer) /\ g[d] \in Seq(Buffer)
  BY DEF Queues
<1>4. /\ IsFiniteSet(F) /\ Cardinality(F) = Num(f[d], b) /\ Num(f[d], b) \in Nat
      /\ IsFiniteSet(H) /\ Cardinality(H) = Num(g[d], b) /\ Num(g[d], b) \in Nat
  <2>1. IsFiniteSet(At(f[d], b)) /\ IsFiniteSet(At(g[d], b))
    BY <1>3, NumType
  <2>2. Num(f[d], b) \in Nat /\ Num(g[d], b) \in Nat
    BY <1>3, NumType
  <2> QED
    BY <2>1, <2>2, PlacesCard DEF Num
<1> HIDE DEF R, F, H
<1>5. IsFiniteSet(R) /\ Cardinality(R) \in Nat
  <2>1. IsFiniteSet(InQueues(tag, f, b))
    BY FamFinite DEF Queues
  <2> QED
    BY <1>1, <2>1, FS_Subset, FS_CardinalityType
<1>6. /\ Cardinality(R \cup F) = Cardinality(R) + Cardinality(F)
      /\ Cardinality(R \cup H) = Cardinality(R) + Cardinality(H)
  BY <1>2, <1>4, <1>5, DisjointCard, Zenon
<1> QED
  BY <1>1, <1>4, <1>5, <1>6

(* What the suspended pushes hold: the buffers they took, and their inputs. *)
OwnSeq(st) == [j \in DOMAIN st |-> IF st[j].own THEN st[j].buf ELSE None]
InbSeq(st) == [j \in DOMAIN st |-> st[j].inb]

(* The number of references the holders of b account for *)
Refs(b) == Cardinality(InQueues("idles", idles, b)) + Cardinality(InQueues("pipe", pipe, b))
           + Num(todo, b) + Num(OwnSeq(stack), b) + Num(InbSeq(stack), b)

LEMMA FrameSeqs ==
    ASSUME NEW st \in Seq(Frame)
    PROVE  /\ OwnSeq(st) \in Seq(Buffer \cup {None}) /\ InbSeq(st) \in Seq(Buffer \cup {None})
           /\ Len(OwnSeq(st)) = Len(st) /\ Len(InbSeq(st)) = Len(st) /\ Len(st) \in Nat
           /\ DOMAIN st = 1 .. Len(st)
<1>1. Len(st) \in Nat /\ DOMAIN st = 1 .. Len(st) /\ \A j \in 1 .. Len(st) : st[j] \in Frame
  OBVIOUS
<1>2. \A j \in 1 .. Len(st) : st[j].buf \in Buffer /\ st[j].inb \in Buffer \cup {None}
  BY <1>1 DEF Frame
<1>3. OwnSeq(st) \in [1 .. Len(st) -> Buffer \cup {None}]
  BY <1>1, <1>2 DEF OwnSeq
<1>4. InbSeq(st) \in [1 .. Len(st) -> Buffer \cup {None}]
  BY <1>1, <1>2 DEF InbSeq
<1>5. OwnSeq(st) \in Seq(Buffer \cup {None}) /\ InbSeq(st) \in Seq(Buffer \cup {None})
  BY <1>1, <1>3, <1>4, IsASeq
<1> QED
  BY <1>1, <1>3, <1>4, <1>5

(* The five kinds of holders are disjoint, so their counts add up. *)
LEMMA HoldersCard ==
    ASSUME CoreTypeOK, NEW b \in Buffer
    PROVE  /\ Cardinality(Holders(b)) = Refs(b) /\ Refs(b) \in Nat
           /\ Holders(b) = {} <=> Refs(b) = 0
<1>1. /\ idles \in [Chn -> Seq(Buffer)] /\ pipe \in [Chn -> Seq(Buffer)]
      /\ todo \in Seq(Buffer) /\ stack \in Seq(Frame)
  BY DEF CoreTypeOK, QTypeOK, CtlTypeOK
<1> DEFINE A == InQueues("idles", idles, b)
           B == InQueues("pipe", pipe, b)
           C == One("todo", todo, b)
           D == One("buf", OwnSeq(stack), b)
           E == One("inb", InbSeq(stack), b)
<1>2. /\ OwnSeq(stack) \in Seq(Buffer \cup {None}) /\ InbSeq(stack) \in Seq(Buffer \cup {None})
  BY <1>1, FrameSeqs
<1>3. Holders(b) = A \cup B \cup C \cup D \cup E
  <2>1. At(OwnSeq(stack), b) = {j \in DOMAIN stack : stack[j].own /\ stack[j].buf = b}
    BY CoreAssumption DEF At, OwnSeq
  <2>2. At(InbSeq(stack), b) = {j \in DOMAIN stack : stack[j].inb = b}
    BY DEF At, InbSeq
  <2> QED
    BY <2>1, <2>2 DEF Holders, One
<1>4. A \cap B = {} /\ (A \cup B) \cap C = {} /\ (A \cup B \cup C) \cap D = {}
      /\ (A \cup B \cup C \cup D) \cap E = {}
  BY DEF InQueues, One, Places
<1>5. /\ IsFiniteSet(A) /\ IsFiniteSet(B)
      /\ Cardinality(A) \in Nat /\ Cardinality(B) \in Nat
  BY <1>1, FamFinite, Zenon
<1>6. /\ IsFiniteSet(C) /\ Cardinality(C) = Num(todo, b) /\ Num(todo, b) \in Nat
  BY <1>1, OneCard, NumType
<1>7. /\ IsFiniteSet(D) /\ Cardinality(D) = Num(OwnSeq(stack), b) /\ Num(OwnSeq(stack), b) \in Nat
      /\ IsFiniteSet(E) /\ Cardinality(E) = Num(InbSeq(stack), b) /\ Num(InbSeq(stack), b) \in Nat
  BY <1>2, OneCard, NumType
<1>8. Refs(b) = Cardinality(A) + Cardinality(B) + Cardinality(C) + Cardinality(D) + Cardinality(E)
  BY <1>5, <1>6, <1>7 DEF Refs
<1> HIDE DEF A, B, C, D, E
<1>9. IsFiniteSet(A \cup B) /\ Cardinality(A \cup B) = Cardinality(A) + Cardinality(B)
  BY <1>4, <1>5, DisjointCard, Zenon
<1>10. /\ IsFiniteSet(A \cup B \cup C)
       /\ Cardinality(A \cup B \cup C) = Cardinality(A \cup B) + Cardinality(C)
  BY <1>4, <1>6, <1>9, DisjointCard
<1>11. /\ IsFiniteSet(A \cup B \cup C \cup D)
       /\ Cardinality(A \cup B \cup C \cup D) = Cardinality(A \cup B \cup C) + Cardinality(D)
  BY <1>4, <1>7, <1>10, DisjointCard
<1>12. /\ IsFiniteSet(A \cup B \cup C \cup D \cup E)
       /\ Cardinality(A \cup B \cup C \cup D \cup E)
            = Cardinality(A \cup B \cup C \cup D) + Cardinality(E)
  BY <1>4, <1>7, <1>11, DisjointCard, Zenon
<1>13. Cardinality(Holders(b)) = Refs(b) /\ Refs(b) \in Nat /\ IsFiniteSet(Holders(b))
  BY <1>3, <1>5, <1>6, <1>7, <1>8, <1>9, <1>10, <1>11, <1>12
<1> QED
  BY <1>13, FS_EmptySet

(* The references of the frames when one is pushed, moves on or returns *)
LEMMA FramePushed ==
    ASSUME NEW st \in Seq(Frame), NEW f \in Frame, NEW b \in Buffer
    PROVE  /\ Num(OwnSeq(Append(st, f)), b) = Num(OwnSeq(st), b) + (IF f.own /\ f.buf = b THEN 1 ELSE 0)
           /\ Num(InbSeq(Append(st, f)), b) = Num(InbSeq(st), b) + (IF f.inb = b THEN 1 ELSE 0)
<1> DEFINE S == Buffer \cup {None}
           a == Append(st, f)
           o == OwnSeq(st)
           n == InbSeq(st)
           x == IF f.own THEN f.buf ELSE None
<1>1. o \in Seq(S) /\ n \in Seq(S) /\ Len(o) = Len(st) /\ Len(n) = Len(st) /\ Len(st) \in Nat
  BY FrameSeqs
<1>2. /\ a \in Seq(Frame) /\ Len(a) = Len(st) + 1 /\ DOMAIN a = 1 .. Len(st) + 1
      /\ DOMAIN st = 1 .. Len(st)
      /\ \A i \in 1 .. Len(st) : a[i] = st[i]
      /\ a[Len(st) + 1] = f
  BY AppendProperties
<1>3. x \in S /\ f.inb \in S /\ (x = b <=> f.own /\ f.buf = b)
  BY CoreAssumption DEF Frame
<1> HIDE DEF a
<1>4. OwnSeq(a) \in Seq(S) /\ InbSeq(a) \in Seq(S) /\ Len(OwnSeq(a)) = Len(a) /\ Len(InbSeq(a)) = Len(a)
  BY <1>2, FrameSeqs
<1>5. /\ \A i \in 1 .. Len(st) : OwnSeq(a)[i] = o[i] /\ InbSeq(a)[i] = n[i]
      /\ OwnSeq(a)[Len(st) + 1] = x /\ InbSeq(a)[Len(st) + 1] = f.inb
  BY <1>1, <1>2 DEF OwnSeq, InbSeq
<1> HIDE DEF o, n, x
<1>6. /\ Append(o, x) \in Seq(S) /\ Len(Append(o, x)) = Len(st) + 1
      /\ \A i \in 1 .. Len(st) : Append(o, x)[i] = o[i]
      /\ Append(o, x)[Len(st) + 1] = x
  BY <1>1, <1>3, AppendProperties
<1>7. /\ Append(n, f.inb) \in Seq(S) /\ Len(Append(n, f.inb)) = Len(st) + 1
      /\ \A i \in 1 .. Len(st) : Append(n, f.inb)[i] = n[i]
      /\ Append(n, f.inb)[Len(st) + 1] = f.inb
  BY <1>1, <1>3, AppendProperties
<1>8. \A i \in 1 .. Len(st) + 1 : i \in 1 .. Len(st) \/ i = Len(st) + 1
  BY <1>1
<1>9. OwnSeq(a) = Append(o, x)
  <2>1. \A i \in 1 .. Len(st) + 1 : OwnSeq(a)[i] = Append(o, x)[i]
    BY <1>5, <1>6, <1>8
  <2> QED
    BY <2>1, <1>2, <1>4, <1>6, SeqEqual
<1>10. InbSeq(a) = Append(n, f.inb)
  <2>1. \A i \in 1 .. Len(st) + 1 : InbSeq(a)[i] = Append(n, f.inb)[i]
    BY <1>5, <1>7, <1>8
  <2> QED
    BY <2>1, <1>2, <1>4, <1>7, SeqEqual
<1>11. Num(Append(o, x), b) = Num(o, b) + (IF x = b THEN 1 ELSE 0)
  BY <1>1, <1>3, NumAppend
<1>12. Num(Append(n, f.inb), b) = Num(n, b) + (IF f.inb = b THEN 1 ELSE 0)
  BY <1>1, <1>3, NumAppend
<1> QED
  BY <1>3, <1>9, <1>10, <1>11, <1>12 DEF a, o, n

LEMMA FrameMoved ==
    ASSUME CtlTypeOK, stack # <<>>
    PROVE  OwnSeq(Advanced) = OwnSeq(stack) /\ InbSeq(Advanced) = InbSeq(stack)
<1>1. stack \in Seq(Frame) /\ DOMAIN Advanced = DOMAIN stack /\ Len(stack) \in DOMAIN stack
  BY StackShape DEF CtlTypeOK
<1>2. \A i \in DOMAIN stack : stack[i] \in Frame
  BY <1>1
<1>3. ASSUME NEW i \in DOMAIN stack
      PROVE  /\ Advanced[i].own = stack[i].own /\ Advanced[i].buf = stack[i].buf
             /\ Advanced[i].inb = stack[i].inb
  BY <1>1, <1>2 DEF Advanced, Frame
<1> QED
  BY <1>1, <1>3 DEF OwnSeq, InbSeq

LEMMA FrameReturned ==
    ASSUME CtlTypeOK, stack # <<>>, NEW b \in Buffer
    PROVE  /\ Num(OwnSeq(stack), b) = Num(OwnSeq(Front(stack)), b) + (IF top.own /\ top.buf = b THEN 1 ELSE 0)
           /\ Num(InbSeq(stack), b) = Num(InbSeq(Front(stack)), b) + (IF top.inb = b THEN 1 ELSE 0)
<1>1. stack \in Seq(Frame)
  BY DEF CtlTypeOK
<1>2. Len(stack) \in Nat /\ Len(stack) # 0 /\ DOMAIN stack = 1 .. Len(stack)
  BY <1>1, EmptySeq, LenProperties
<1> DEFINE f == Front(stack)
<1>3. f \in Seq(Frame) /\ Len(f) = Len(stack) - 1 /\ \A i \in 1 .. Len(stack) - 1 : f[i] = stack[i]
  <2>1. f = SubSeq(stack, 1, Len(stack) - 1) /\ Len(stack) - 1 \in Int
    BY <1>2 DEF Front
  <2>2. \A i \in 1 .. Len(stack) - 1 : stack[i] \in Frame
    BY <1>1, <1>2
  <2> HIDE DEF f
  <2> QED
    BY <1>1, <1>2, <2>1, <2>2, SubSeqProperties
<1>4. top = stack[Len(stack)] /\ top \in Frame
  BY StackShape
<1> HIDE DEF f
<1>5. Append(f, top) \in Seq(Frame) /\ Len(Append(f, top)) = Len(f) + 1
      /\ (\A i \in 1 .. Len(f) : Append(f, top)[i] = f[i]) /\ Append(f, top)[Len(f) + 1] = top
  BY <1>3, <1>4, AppendProperties
<1>6. stack = Append(f, top)
  <2>1. Len(Append(f, top)) = Len(stack)
    BY <1>2, <1>3, <1>5
  <2>2. \A i \in 1 .. Len(stack) : stack[i] = Append(f, top)[i]
    BY <1>2, <1>3, <1>4, <1>5
  <2> QED
    BY <1>1, <1>5, <2>1, <2>2, SeqEqual
<1>7. /\ Num(OwnSeq(Append(f, top)), b) = Num(OwnSeq(f), b) + (IF top.own /\ top.buf = b THEN 1 ELSE 0)
      /\ Num(InbSeq(Append(f, top)), b) = Num(InbSeq(f), b) + (IF top.inb = b THEN 1 ELSE 0)
  BY <1>3, <1>4, FramePushed
<1> QED
  BY <1>6, <1>7, Zenon DEF f

(* A step that changes the queues of one channel only changes the references *)
(* by what it changes in these queues, in todo and on the stack.             *)
LEMMA RefsChange ==
    ASSUME CoreTypeOK, CoreTypeOK', NEW b \in Buffer, NEW c \in Chn,
           \A e \in Chn : e # c => idles'[e] = idles[e] /\ pipe'[e] = pipe[e]
    PROVE  /\ Refs(b)' + Num(idles[c], b) + Num(pipe[c], b) + Num(todo, b)
                       + Num(OwnSeq(stack), b) + Num(InbSeq(stack), b)
              = Refs(b) + Num(idles'[c], b) + Num(pipe'[c], b) + Num(todo', b)
                        + Num(OwnSeq(stack'), b) + Num(InbSeq(stack'), b)
           /\ Refs(b) \in Nat /\ Refs(b)' \in Nat
           /\ Num(idles[c], b) \in Nat /\ Num(pipe[c], b) \in Nat /\ Num(todo, b) \in Nat
           /\ Num(OwnSeq(stack), b) \in Nat /\ Num(InbSeq(stack), b) \in Nat
           /\ Num(idles'[c], b) \in Nat /\ Num(pipe'[c], b) \in Nat /\ Num(todo', b) \in Nat
           /\ Num(OwnSeq(stack'), b) \in Nat /\ Num(InbSeq(stack'), b) \in Nat
<1>1. /\ idles \in [Chn -> Seq(Buffer)] /\ idles' \in [Chn -> Seq(Buffer)]
      /\ pipe \in [Chn -> Seq(Buffer)] /\ pipe' \in [Chn -> Seq(Buffer)]
      /\ todo \in Seq(Buffer) /\ todo' \in Seq(Buffer)
      /\ stack \in Seq(Frame) /\ stack' \in Seq(Frame)
  BY Zenon DEF CoreTypeOK, QTypeOK, CtlTypeOK
<1>2. /\ idles[c] \in Seq(Buffer) /\ idles'[c] \in Seq(Buffer)
      /\ pipe[c] \in Seq(Buffer) /\ pipe'[c] \in Seq(Buffer)
      /\ OwnSeq(stack) \in Seq(Buffer \cup {None}) /\ InbSeq(stack) \in Seq(Buffer \cup {None})
      /\ OwnSeq(stack') \in Seq(Buffer \cup {None}) /\ InbSeq(stack') \in Seq(Buffer \cup {None})
  BY <1>1, FrameSeqs, Zenon
<1>3. /\ Num(idles[c], b) \in Nat /\ Num(pipe[c], b) \in Nat /\ Num(todo, b) \in Nat
      /\ Num(OwnSeq(stack), b) \in Nat /\ Num(InbSeq(stack), b) \in Nat
      /\ Num(idles'[c], b) \in Nat /\ Num(pipe'[c], b) \in Nat /\ Num(todo', b) \in Nat
      /\ Num(OwnSeq(stack'), b) \in Nat /\ Num(InbSeq(stack'), b) \in Nat
  BY <1>1, <1>2, NumType, Zenon
<1>4. /\ Cardinality(InQueues("idles", idles, b)) \in Nat
      /\ Cardinality(InQueues("idles", idles', b)) \in Nat
      /\ Cardinality(InQueues("pipe", pipe, b)) \in Nat
      /\ Cardinality(InQueues("pipe", pipe', b)) \in Nat
  BY <1>1, FamFinite, Zenon
<1> DEFINE i == Cardinality(InQueues("idles", idles, b))
           j == Cardinality(InQueues("idles", idles', b))
           p == Cardinality(InQueues("pipe", pipe, b))
           q == Cardinality(InQueues("pipe", pipe', b))
           x == Num(idles[c], b)
           y == Num(idles'[c], b)
           v == Num(pipe[c], b)
           z == Num(pipe'[c], b)
           t == Num(todo, b)
           u == Num(todo', b)
           o == Num(OwnSeq(stack), b)
           w == Num(OwnSeq(stack'), b)
           n == Num(InbSeq(stack), b)
           m == Num(InbSeq(stack'), b)
<1>5. j + x = i + y /\ q + v = p + z
  <2>1. SameElsewhere(idles, idles', c) /\ SameElsewhere(pipe, pipe', c)
    BY DEF SameElsewhere
  <2>2. idles \in Queues /\ idles' \in Queues /\ pipe \in Queues /\ pipe' \in Queues
    BY <1>1 DEF Queues
  <2>3. j + x = i + y
    BY <2>1, <2>2, FamUpdate
  <2>4. q + v = p + z
    BY <2>1, <2>2, FamUpdate
  <2> QED
    BY <2>3, <2>4
<1>6. Refs(b) = i + p + t + o + n /\ Refs(b)' = j + q + u + w + m
  BY DEF Refs
<1>7. /\ i \in Nat /\ j \in Nat /\ p \in Nat /\ q \in Nat /\ x \in Nat /\ y \in Nat
      /\ v \in Nat /\ z \in Nat /\ t \in Nat /\ u \in Nat /\ o \in Nat /\ w \in Nat
      /\ n \in Nat /\ m \in Nat
  BY <1>3, <1>4
<1> HIDE DEF i, j, p, q, x, y, v, z, t, u, o, w, n, m
<1>8. /\ i + p + t + o + n \in Nat /\ j + q + u + w + m \in Nat
      /\ (j + q + u + w + m) + x + v + t + o + n = (i + p + t + o + n) + y + z + u + w + m
  <2>1. j + q \in Nat /\ i + p \in Nat /\ (j + q) + (x + v) = (i + p) + (y + z)
    BY <1>5, <1>7
  <2>2. i + p + t + o + n = (i + p) + (t + o + n) /\ j + q + u + w + m = (j + q) + (u + w + m)
    BY <1>7
  <2>3. t + o + n \in Nat /\ u + w + m \in Nat /\ x + v \in Nat /\ y + z \in Nat
    BY <1>7
  <2> QED
    BY <1>7, <2>1, <2>2, <2>3
<1> QED
  BY <1>3, <1>6, <1>8 DEF x, y, v, z, t, u, o, w, n, m

(* A place that shows b accounts for a reference to it. *)
LEMMA RefsShown ==
    ASSUME CoreTypeOK, NEW b \in Buffer
    PROVE  /\ Refs(b) \in Nat
           /\ \A c \in Chn : \A i \in DOMAIN idles[c] : idles[c][i] = b => Refs(b) > 0
           /\ \A c \in Chn : \A i \in DOMAIN pipe[c] : pipe[c][i] = b => Refs(b) > 0
           /\ \A i \in DOMAIN todo : todo[i] = b => Refs(b) > 0
           /\ \A i \in DOMAIN stack : stack[i].inb = b => Refs(b) > 0
           /\ \A i \in DOMAIN stack : stack[i].own /\ stack[i].buf = b => Refs(b) > 0
           /\ Refs(b) > 0 =>
                \/ \E c \in Chn : \E i \in DOMAIN idles[c] : idles[c][i] = b
                \/ \E c \in Chn : \E i \in DOMAIN pipe[c] : pipe[c][i] = b
                \/ \E i \in DOMAIN todo : todo[i] = b
                \/ \E i \in DOMAIN stack : stack[i].inb = b
                \/ \E i \in DOMAIN stack : stack[i].own /\ stack[i].buf = b
<1>1. /\ idles \in [Chn -> Seq(Buffer)] /\ pipe \in [Chn -> Seq(Buffer)]
      /\ todo \in Seq(Buffer) /\ stack \in Seq(Frame)
      /\ OwnSeq(stack) \in Seq(Buffer \cup {None}) /\ InbSeq(stack) \in Seq(Buffer \cup {None})
  BY FrameSeqs, Zenon DEF CoreTypeOK, QTypeOK, CtlTypeOK
<1>2. /\ Cardinality(InQueues("idles", idles, b)) \in Nat
      /\ Cardinality(InQueues("idles", idles, b)) = 0
           <=> \A c \in Chn : \A i \in DOMAIN idles[c] : idles[c][i] # b
      /\ Cardinality(InQueues("pipe", pipe, b)) \in Nat
      /\ Cardinality(InQueues("pipe", pipe, b)) = 0
           <=> \A c \in Chn : \A i \in DOMAIN pipe[c] : pipe[c][i] # b
  BY <1>1, FamFinite, Zenon
<1>3. /\ Num(todo, b) \in Nat /\ (Num(todo, b) = 0 <=> \A i \in DOMAIN todo : todo[i] # b)
      /\ Num(OwnSeq(stack), b) \in Nat
      /\ Num(OwnSeq(stack), b) = 0 <=> \A i \in DOMAIN OwnSeq(stack) : OwnSeq(stack)[i] # b
      /\ Num(InbSeq(stack), b) \in Nat
      /\ Num(InbSeq(stack), b) = 0 <=> \A i \in DOMAIN InbSeq(stack) : InbSeq(stack)[i] # b
  BY <1>1, NumType
<1>4. /\ Num(OwnSeq(stack), b) = 0 <=> \A i \in DOMAIN stack : ~ (stack[i].own /\ stack[i].buf = b)
      /\ Num(InbSeq(stack), b) = 0 <=> \A i \in DOMAIN stack : stack[i].inb # b
  BY <1>3, CoreAssumption DEF OwnSeq, InbSeq
<1>5. /\ Refs(b) \in Nat
      /\ Refs(b) = 0 <=> /\ Cardinality(InQueues("idles", idles, b)) = 0
                         /\ Cardinality(InQueues("pipe", pipe, b)) = 0
                         /\ Num(todo, b) = 0 /\ Num(OwnSeq(stack), b) = 0
                         /\ Num(InbSeq(stack), b) = 0
  <2> DEFINE i == Cardinality(InQueues("idles", idles, b))
             p == Cardinality(InQueues("pipe", pipe, b))
             t == Num(todo, b)
             o == Num(OwnSeq(stack), b)
             n == Num(InbSeq(stack), b)
  <2>1. i \in Nat /\ p \in Nat /\ t \in Nat /\ o \in Nat /\ n \in Nat
    BY <1>2, <1>3
  <2>2. Refs(b) = i + p + t + o + n
    BY DEF Refs
  <2> HIDE DEF i, p, t, o, n
  <2>3. /\ i + p + t + o + n \in Nat
        /\ i + p + t + o + n = 0 <=> i = 0 /\ p = 0 /\ t = 0 /\ o = 0 /\ n = 0
    BY <2>1
  <2> QED
    BY <2>2, <2>3 DEF i, p, t, o, n
<1>6. Refs(b) > 0 <=> Refs(b) # 0
  BY <1>5
<1> QED
  BY <1>2, <1>3, <1>4, <1>5, <1>6

-----------------------------------------------------------------------------
(* The memory part of the invariant: counts, lifetimes and places. *)

CountInv == \A b \in Buffer : refcnt[b] = Refs(b)
LiveInv == /\ \A b \in Buffer : refcnt[b] > 0 => b \in live
           /\ \A c \in Chn : \A i \in DOMAIN queued[c] : queued[c][i] \in live
MemInv == CountInv /\ LiveInv /\ NoLeak /\ PlaceInv /\ QueuedInv

(* A buffer has one owner. *)
LEMMA OwnerOf ==
    ASSUME NEW b \in Buffer
    PROVE  /\ Owner(b) \in Chn /\ b \in ToSet(Bufs[Owner(b)])
           /\ \A c \in Chn : b \in ToSet(Bufs[c]) => Owner(b) = c
<1>1. \E c \in Chn : b \in ToSet(Bufs[c])
  BY TopologyAssumption
<1>2. Owner(b) \in Chn /\ b \in ToSet(Bufs[Owner(b)])
  BY <1>1 DEF Owner
<1>3. ASSUME NEW c \in Chn, b \in ToSet(Bufs[c]), c # Owner(b) PROVE FALSE
  BY <1>2, <1>3, TopologyAssumption
<1> QED
  BY <1>2, <1>3

(* The allocation loop yields buffers of the channel, none of them allocated *)
(* before and each of them once.                                            *)
LEMMA AllocFresh ==
    ASSUME NEW c \in Chn, NEW got \in alloc_buffer(c)
    PROVE  /\ \A i \in DOMAIN got : got[i] \in Buffer /\ got[i] \notin live /\ Owner(got[i]) = c
           /\ \A i, j \in DOMAIN got : got[i] = got[j] => i = j
<1>1. got \in Seq(Buffer)
  BY AllocType
<1>2. DOMAIN got = 1 .. Len(got) /\ Len(got) \in Nat
  BY <1>1
<1>3. \A i \in DOMAIN got : got[i] \in ToSet(Bufs[c]) \ live
  <2>1. got \in UNION {[1 .. n -> ToSet(Bufs[c]) \ live] : n \in 0 .. Len(Bufs[c])}
    BY DEF alloc_buffer
  <2> QED
    BY <2>1
<1>4. ASSUME NEW i \in DOMAIN got, NEW j \in DOMAIN got, got[i] = got[j], i < j
      PROVE  FALSE
  <2>1. PICK p \in DOMAIN Bufs[c] :
           /\ Bufs[c][p] = got[j]
           /\ {Bufs[c][k] : k \in 1 .. p - 1} \ live = {got[k] : k \in 1 .. j - 1}
    BY Zenon DEF alloc_buffer
  <2>2. i \in 1 .. j - 1
    BY <1>2, <1>4
  <2>3. got[i] \in {Bufs[c][k] : k \in 1 .. p - 1}
    BY <2>1, <2>2
  <2>4. PICK k \in 1 .. p - 1 : Bufs[c][k] = got[i]
    BY <2>3
  <2>5. Bufs[c] \in Seq(Buffer) /\ p \in Nat /\ DOMAIN Bufs[c] = 1 .. Len(Bufs[c])
        /\ Len(Bufs[c]) \in Nat
    BY <2>1, CoreAssumption
  <2>6. k \in DOMAIN Bufs[c] /\ k # p
    BY <2>1, <2>4, <2>5
  <2> QED
    BY <1>4, <2>1, <2>4, <2>6, TopologyAssumption
<1>5. ASSUME NEW i \in DOMAIN got, NEW j \in DOMAIN got, got[i] = got[j]
      PROVE  i = j
  <2>1. i < j \/ j < i \/ i = j
    BY <1>2
  <2> QED
    BY <1>4, <1>5, <2>1
<1>6. \A i \in DOMAIN got : got[i] \in Buffer
  BY <1>1, <1>2
<1> QED
  BY <1>3, <1>5, <1>6, OwnerOf

(* The sinks of a channel, and of the channels below it, are below it. *)
LEMMA BelowSink ==
    ASSUME NEW c \in Chn, NEW d \in Chn, NEW e \in Chn, Source[e] = d, d = c \/ d \in Below(c)
    PROVE  e \in Below(c)
<1> SUFFICES ASSUME NEW D \in SUBSET Chn, SinksIn(c, D), \A x \in D : SinksIn(x, D)
             PROVE  e \in D
  BY DEF Below
<1>1. CASE d = c
  BY <1>1 DEF SinksIn
<1>2. CASE d \in Below(c)
  BY <1>2 DEF SinksIn, Below
<1> QED
  BY <1>1, <1>2

(* The queues of a channel and the heads of its queues. *)
LEMMA QueueOf ==
    ASSUME CoreTypeOK, NEW c \in Chn
    PROVE  idles[c] \in Seq(Buffer) /\ pipe[c] \in Seq(Buffer) /\ queued[c] \in Seq(Buffer)
BY DEF CoreTypeOK, QTypeOK

(* What a step leaves alone stays in order. *)
LEMMA MemSame ==
    ASSUME MemInv, failed => failed'
    PROVE  /\ UNCHANGED idles => IdlesOwned'
           /\ UNCHANGED queued => QueuedOwned'
           /\ UNCHANGED pipe => PipeBelow'
           /\ UNCHANGED stack => FramesHold'
           /\ UNCHANGED <<queued, refcnt>> => QueuedInv'
           /\ UNCHANGED <<queued, refcnt, live>> => LiveInv' /\ NoLeak'
           /\ UNCHANGED <<idles, pipe, todo, stack, refcnt>> => CountInv'
<1>1. UNCHANGED idles => IdlesOwned'
  BY DEF MemInv, PlaceInv, IdlesOwned
<1>2. UNCHANGED queued => QueuedOwned'
  BY DEF MemInv, PlaceInv, QueuedOwned
<1>3. UNCHANGED pipe => PipeBelow'
  BY DEF MemInv, PlaceInv, PipeBelow
<1>4. UNCHANGED stack => FramesHold'
  BY DEF MemInv, PlaceInv, FramesHold
<1>5. UNCHANGED <<queued, refcnt>> => QueuedInv'
  BY DEF MemInv, QueuedInv
<1>6. UNCHANGED <<queued, refcnt, live>> => LiveInv' /\ NoLeak'
  BY DEF MemInv, LiveInv, NoLeak, Aborted
<1>7. UNCHANGED <<idles, pipe, todo, stack, refcnt>> => CountInv'
  BY DEF MemInv, CountInv, Refs
<1> QED
  BY <1>1, <1>2, <1>3, <1>4, <1>5, <1>6, <1>7

(* A suspended push that moves on holds what it held. *)
LEMMA MemAdvanced ==
    ASSUME CtlTypeOK, MemInv, stack # <<>>, stack' = Advanced
    PROVE  /\ FramesHold'
           /\ OwnSeq(stack') = OwnSeq(stack) /\ InbSeq(stack') = InbSeq(stack)
<1>1. stack \in Seq(Frame) /\ DOMAIN Advanced = DOMAIN stack /\ Len(stack) \in DOMAIN stack
  BY StackShape DEF CtlTypeOK
<1>2. \A i \in DOMAIN stack : stack[i] \in Frame
  BY <1>1
<1>3. ASSUME NEW i \in DOMAIN stack
      PROVE  /\ Advanced[i].own = stack[i].own /\ Advanced[i].buf = stack[i].buf
             /\ Advanced[i].inb = stack[i].inb /\ Advanced[i].chn = stack[i].chn
  BY <1>1, <1>2 DEF Advanced, Frame
<1>4. \A i \in DOMAIN stack : Holding(stack[i])
  BY DEF MemInv, PlaceInv, FramesHold
<1>5. \A i \in DOMAIN stack : Holding(Advanced[i])
  BY <1>3, <1>4 DEF Holding
<1>6. \A i \in DOMAIN stack' : Holding(stack'[i])
  BY <1>1, <1>5
<1> QED
  BY <1>6, FrameMoved DEF FramesHold

(* Starting a channel: fresh buffers become idle or go to the driver. *)
LEMMA MemStart ==
    ASSUME CoreTypeOK, CoreTypeOK', MemInv, NEW c \in Chn, start_chn(c), UNCHANGED <<pipe, todo>>,
           OwnSeq(stack') = OwnSeq(stack), InbSeq(stack') = InbSeq(stack), FramesHold'
    PROVE  MemInv'
<1>f. failed => failed'
  BY Zenon DEF start_chn
<1>p. PipeBelow'
  BY <1>f, MemSame
<1>1. CASE UNCHANGED <<idles, queued, refcnt, live>>
  <2>1. CountInv'
    <3> SUFFICES ASSUME NEW b \in Buffer PROVE refcnt'[b] = Refs(b)'
      BY DEF CountInv
    <3>1. Refs(b)' = Refs(b)
      BY <1>1 DEF Refs
    <3> QED
      BY <1>1, <3>1 DEF MemInv, CountInv
  <2> QED
    BY <1>1, <1>f, <1>p, <2>1, MemSame DEF MemInv, PlaceInv
<1>2. ASSUME NEW got \in alloc_buffer(c), live' = live \cup ToSet(got), start_v4l2(c, got)
      PROVE  MemInv'
  <2>1. /\ queued' = [queued EXCEPT ![c] = @ \o got] /\ UNCHANGED <<idles, refcnt>>
    BY <1>2 DEF start_v4l2
  <2>2. /\ got \in Seq(Buffer) /\ queued \in [Chn -> Seq(Buffer)] /\ queued[c] \in Seq(Buffer)
        /\ refcnt \in [Buffer -> Nat]
    BY AllocType DEF CoreTypeOK, QTypeOK, BufTypeOK
  <2>3. /\ \A i \in DOMAIN got : got[i] \in Buffer /\ got[i] \notin live /\ Owner(got[i]) = c
        /\ \A i, j \in DOMAIN got : got[i] = got[j] => i = j
    BY AllocFresh
  <2>4. \A i \in DOMAIN got : refcnt[got[i]] = 0 /\ got[i] \in live'
    BY <1>2, <2>2, <2>3 DEF MemInv, LiveInv, ToSet
  <2> DEFINE s == queued[c]
             r == s \o got
  <2>5. /\ r \in Seq(Buffer) /\ Len(r) = Len(s) + Len(got) /\ Len(s) \in Nat /\ Len(got) \in Nat
        /\ \A i \in 1 .. Len(s) + Len(got) : r[i] = IF i <= Len(s) THEN s[i] ELSE got[i - Len(s)]
        /\ DOMAIN r = 1 .. Len(s) + Len(got) /\ DOMAIN s = 1 .. Len(s) /\ DOMAIN got = 1 .. Len(got)
    BY <2>2, ConcatProperties
  <2>6. queued'[c] = r /\ \A d \in Chn : d # c => queued'[d] = queued[d]
    BY <2>1, <2>2
  <2> HIDE DEF r
  <2>7. \A i \in DOMAIN r : (i \in DOMAIN s /\ r[i] = s[i])
                            \/ (i - Len(s) \in DOMAIN got /\ r[i] = got[i - Len(s)])
    BY <2>5
  <2>8. QueuedOwned'
    <3>1. \A i \in DOMAIN r : Owner(r[i]) = c
      BY <2>3, <2>7 DEF MemInv, PlaceInv, QueuedOwned
    <3> QED
      BY <2>6, <3>1 DEF MemInv, PlaceInv, QueuedOwned
  <2>9. QueuedInv'
    <3>1. \A i \in DOMAIN s : refcnt[s[i]] = 0 /\ s[i] \in live
      BY DEF MemInv, QueuedInv, LiveInv
    <3>2. \A i \in DOMAIN r : refcnt[r[i]] = 0
      BY <2>4, <2>7, <3>1
    <3>3. \A i, j \in DOMAIN s : s[i] = s[j] => i = j
      BY DEF MemInv, QueuedInv
    <3>4. ASSUME NEW i \in DOMAIN r, NEW j \in DOMAIN r, r[i] = r[j] PROVE i = j
      <4>1. CASE i <= Len(s) /\ j <= Len(s)
        BY <2>5, <3>3, <3>4, <4>1
      <4>2. CASE i <= Len(s) /\ ~ (j <= Len(s))
        <5>1. i \in DOMAIN s /\ r[i] = s[i]
          BY <2>5, <4>2
        <5>2. j - Len(s) \in DOMAIN got /\ r[j] = got[j - Len(s)]
          BY <2>5, <4>2
        <5> QED
          BY <2>3, <3>1, <3>4, <5>1, <5>2, Zenon
      <4>3. CASE ~ (i <= Len(s)) /\ j <= Len(s)
        <5>1. j \in DOMAIN s /\ r[j] = s[j]
          BY <2>5, <4>3
        <5>2. i - Len(s) \in DOMAIN got /\ r[i] = got[i - Len(s)]
          BY <2>5, <4>3, SMTT(20)
        <5> QED
          BY <2>3, <3>1, <3>4, <5>1, <5>2
      <4>4. CASE ~ (i <= Len(s)) /\ ~ (j <= Len(s))
        <5>1. /\ i - Len(s) \in DOMAIN got /\ r[i] = got[i - Len(s)]
              /\ j - Len(s) \in DOMAIN got /\ r[j] = got[j - Len(s)]
          BY <2>5, <4>4, SMTT(20)
        <5>2. i - Len(s) = j - Len(s)
          BY <2>3, <3>4, <5>1, Zenon
        <5> QED
          BY <2>5, <5>2
      <4> QED
        BY <4>1, <4>2, <4>3, <4>4
    <3>5. \A d \in Chn : \A i \in DOMAIN queued'[d] : refcnt'[queued'[d][i]] = 0
      BY <2>1, <2>6, <3>2 DEF MemInv, QueuedInv
    <3>6. \A d \in Chn : \A i, j \in DOMAIN queued'[d] : queued'[d][i] = queued'[d][j] => i = j
      BY <2>6, <3>4 DEF MemInv, QueuedInv
    <3> QED
      BY <3>5, <3>6 DEF QueuedInv
  <2>10. LiveInv'
    <3>1. \A i \in DOMAIN r : r[i] \in live'
      BY <1>2, <2>4, <2>7 DEF MemInv, LiveInv
    <3>2. \A d \in Chn : \A i \in DOMAIN queued'[d] : queued'[d][i] \in live'
      BY <1>2, <2>6, <3>1 DEF MemInv, LiveInv
    <3> QED
      BY <1>2, <2>1, <3>2 DEF MemInv, LiveInv
  <2>11. NoLeak'
    <3> SUFFICES ASSUME NEW b \in live'
                 PROVE  refcnt'[b] > 0 \/ (\E d \in Chn : b \in ToSet(queued'[d])) \/ Aborted'
      BY DEF NoLeak
    <3>1. CASE b \in ToSet(got)
      <4>1. PICK k \in DOMAIN got : got[k] = b
        BY <3>1 DEF ToSet
      <4>2. k + Len(s) \in DOMAIN r /\ r[k + Len(s)] = b
        BY <2>5, <4>1, SMTT(20)
      <4> QED
        BY <2>6, <4>2 DEF ToSet
    <3>2. CASE b \in live
      <4>1. \A d \in Chn : b \in ToSet(queued[d]) => b \in ToSet(queued'[d])
        <5>1. b \in ToSet(s) => b \in ToSet(r)
          BY <2>5 DEF ToSet
        <5> QED
          BY <2>6, <5>1
      <4> QED
        BY <1>f, <2>1, <3>2, <4>1 DEF MemInv, NoLeak, Aborted
    <3> QED
      BY <1>2, <3>1, <3>2
  <2>12. CountInv'
    <3> SUFFICES ASSUME NEW b \in Buffer PROVE refcnt'[b] = Refs(b)'
      BY DEF CountInv
    <3>1. Refs(b)' = Refs(b)
      BY <2>1 DEF Refs
    <3> QED
      BY <2>1, <3>1 DEF MemInv, CountInv
  <2>13. IdlesOwned'
    BY <1>f, <2>1, MemSame
  <2> QED
    BY <1>p, <2>8, <2>9, <2>10, <2>11, <2>12, <2>13 DEF MemInv, PlaceInv
<1>3. ASSUME NEW got \in alloc_buffer(c), live' = live \cup ToSet(got), UNCHANGED queued,
             idles' = [idles EXCEPT ![c] = @ \o got],
             refcnt' = [b \in Buffer |-> IF b \in ToSet(got) THEN 1 ELSE refcnt[b]]
      PROVE  MemInv'
  <2>2. /\ got \in Seq(Buffer) /\ idles \in [Chn -> Seq(Buffer)] /\ idles[c] \in Seq(Buffer)
        /\ refcnt \in [Buffer -> Nat]
    BY AllocType DEF CoreTypeOK, QTypeOK, BufTypeOK
  <2>3. /\ \A i \in DOMAIN got : got[i] \in Buffer /\ got[i] \notin live /\ Owner(got[i]) = c
        /\ \A i, j \in DOMAIN got : got[i] = got[j] => i = j
    BY AllocFresh
  <2>4. \A b \in ToSet(got) : b \in Buffer /\ refcnt[b] = 0 /\ b \notin live
    BY <2>2, <2>3 DEF MemInv, LiveInv, ToSet
  <2> DEFINE s == idles[c]
             r == s \o got
  <2>5. /\ r \in Seq(Buffer) /\ Len(r) = Len(s) + Len(got) /\ Len(s) \in Nat /\ Len(got) \in Nat
        /\ \A i \in 1 .. Len(s) + Len(got) : r[i] = IF i <= Len(s) THEN s[i] ELSE got[i - Len(s)]
        /\ DOMAIN r = 1 .. Len(s) + Len(got) /\ DOMAIN s = 1 .. Len(s) /\ DOMAIN got = 1 .. Len(got)
    BY <2>2, ConcatProperties
  <2>6. idles'[c] = r /\ \A d \in Chn : d # c => idles'[d] = idles[d]
    BY <1>3, <2>2
  <2>7. \A b : Num(r, b) = Num(s, b) + Num(got, b)
    BY <2>2, NumConcat
  <2> HIDE DEF r
  <2>8. IdlesOwned'
    <3>1. \A i \in DOMAIN r : (i \in DOMAIN s /\ r[i] = s[i])
                              \/ (i - Len(s) \in DOMAIN got /\ r[i] = got[i - Len(s)])
      BY <2>5
    <3>2. \A i \in DOMAIN r : Owner(r[i]) = c
      BY <2>3, <3>1 DEF MemInv, PlaceInv, IdlesOwned
    <3> QED
      BY <2>6, <3>2 DEF MemInv, PlaceInv, IdlesOwned
  <2>9. CountInv'
    <3> SUFFICES ASSUME NEW b \in Buffer PROVE refcnt'[b] = Refs(b)'
      BY DEF CountInv
    <3>1. /\ Refs(b)' + Num(s, b) + Num(pipe[c], b) + Num(todo, b)
                      + Num(OwnSeq(stack), b) + Num(InbSeq(stack), b)
             = Refs(b) + Num(r, b) + Num(pipe[c], b) + Num(todo, b)
                       + Num(OwnSeq(stack), b) + Num(InbSeq(stack), b)
          /\ Refs(b) \in Nat /\ Refs(b)' \in Nat
          /\ Num(s, b) \in Nat /\ Num(pipe[c], b) \in Nat /\ Num(todo, b) \in Nat
          /\ Num(OwnSeq(stack), b) \in Nat /\ Num(InbSeq(stack), b) \in Nat
      <4>1. \A e \in Chn : e # c => idles'[e] = idles[e] /\ pipe'[e] = pipe[e]
        BY <2>6
      <4> QED
        BY <2>6, <4>1, RefsChange
    <3>2. Num(got, b) = IF b \in ToSet(got) THEN 1 ELSE 0
      BY <2>2, <2>3, NumInjective
    <3>3. Refs(b)' = Refs(b) + (IF b \in ToSet(got) THEN 1 ELSE 0)
      BY <2>7, <3>1, <3>2
    <3>4. refcnt[b] = Refs(b)
      BY DEF MemInv, CountInv
    <3> QED
      BY <1>3, <2>4, <3>1, <3>3, <3>4
  <2>10. QueuedInv'
    <3>1. \A d \in Chn : \A i \in DOMAIN queued[d] :
             queued[d][i] \notin ToSet(got) /\ queued[d][i] \in Buffer
      BY <2>4 DEF MemInv, LiveInv, CoreTypeOK, BufTypeOK
    <3>2. \A d \in Chn : \A i \in DOMAIN queued'[d] : refcnt'[queued'[d][i]] = 0
      BY <1>3, <3>1 DEF MemInv, QueuedInv
    <3> QED
      BY <1>3, <3>2 DEF MemInv, QueuedInv
  <2>11. LiveInv'
    BY <1>3 DEF MemInv, LiveInv
  <2>12. NoLeak'
    <3>1. live \subseteq Buffer /\ Aborted => Aborted'
      BY <1>f DEF CoreTypeOK, BufTypeOK, Aborted
    <3>2. \A b \in live : refcnt'[b] = refcnt[b]
      BY <1>3, <2>4 DEF CoreTypeOK, BufTypeOK
    <3> QED
      BY <1>f, <1>3, <2>4, <3>2 DEF MemInv, NoLeak, Aborted
  <2>13. QueuedOwned'
    BY <1>f, <1>3, MemSame
  <2> QED
    BY <1>p, <2>8, <2>9, <2>10, <2>11, <2>12, <2>13 DEF MemInv, PlaceInv
<1>4. CASE UNCHANGED <<chnVars, idles, queued, bufVars>>
  BY <1>1, <1>4 DEF bufVars
<1>5. ASSUME NEW got \in alloc_buffer(c), unit_start(c, got)
      PROVE  MemInv'
  BY <1>2, <1>3, <1>5, Zenon DEF unit_start
<1>6. ASSUME NEW got \in alloc_buffer(c), streamon_fail(c, got)
      PROVE  MemInv'
  BY <1>2, <1>6 DEF streamon_fail
<1> QED
  BY <1>4, <1>5, <1>6 DEF start_chn

(* Stopping a unit: its queues become the list of buffers to put, and the   *)
(* buffers of the driver, to which nobody refers, are freed.                *)
LEMMA MemStop ==
    ASSUME CoreTypeOK, CoreTypeOK', MemInv, NEW c \in Chn, unit_stop(c), todo = <<>>
    PROVE  MemInv'
<1>1. /\ todo' = idles[c] \o pipe[c] /\ idles' = [idles EXCEPT ![c] = <<>>]
      /\ pipe' = [pipe EXCEPT ![c] = <<>>] /\ queued' = [queued EXCEPT ![c] = <<>>]
      /\ live' = live \ ToSet(queued[c]) /\ UNCHANGED <<refcnt, stack, failed>>
  BY DEF unit_stop, stop_v4l2
<1>2. /\ idles \in [Chn -> Seq(Buffer)] /\ pipe \in [Chn -> Seq(Buffer)]
      /\ queued \in [Chn -> Seq(Buffer)] /\ refcnt \in [Buffer -> Nat] /\ live \subseteq Buffer
      /\ idles[c] \in Seq(Buffer) /\ pipe[c] \in Seq(Buffer)
  BY DEF CoreTypeOK, QTypeOK, BufTypeOK
<1>3. /\ idles'[c] = <<>> /\ pipe'[c] = <<>> /\ queued'[c] = <<>>
      /\ \A d \in Chn : d # c => idles'[d] = idles[d] /\ pipe'[d] = pipe[d] /\ queued'[d] = queued[d]
  BY <1>1, <1>2
<1>4. CountInv'
  <2> SUFFICES ASSUME NEW b \in Buffer PROVE refcnt'[b] = Refs(b)'
    BY DEF CountInv
  <2>1. Num(todo', b) = Num(idles[c], b) + Num(pipe[c], b) /\ Num(todo, b) = 0
        /\ Num(idles'[c], b) = 0 /\ Num(pipe'[c], b) = 0
    BY <1>1, <1>2, <1>3, NumConcat, NumEmpty
  <2>2. /\ Refs(b)' + Num(idles[c], b) + Num(pipe[c], b) + Num(todo, b)
                    + Num(OwnSeq(stack), b) + Num(InbSeq(stack), b)
           = Refs(b) + Num(idles'[c], b) + Num(pipe'[c], b) + Num(todo', b)
                     + Num(OwnSeq(stack), b) + Num(InbSeq(stack), b)
        /\ Refs(b) \in Nat /\ Refs(b)' \in Nat
        /\ Num(idles[c], b) \in Nat /\ Num(pipe[c], b) \in Nat
        /\ Num(OwnSeq(stack), b) \in Nat /\ Num(InbSeq(stack), b) \in Nat
    BY <1>1, <1>3, RefsChange
  <2>3. Refs(b)' = Refs(b)
    BY <2>1, <2>2
  <2> QED
    BY <1>1, <2>3 DEF MemInv, CountInv
<1>5. IdlesOwned' /\ PipeBelow' /\ QueuedOwned'
  <2>1. IdlesOwned'
    BY <1>3 DEF MemInv, PlaceInv, IdlesOwned
  <2>2. PipeBelow'
    BY <1>3 DEF MemInv, PlaceInv, PipeBelow
  <2>3. QueuedOwned'
    BY <1>3 DEF MemInv, PlaceInv, QueuedOwned
  <2> QED
    BY <2>1, <2>2, <2>3
<1>6. FramesHold'
  BY <1>1, MemSame
<1>7. QueuedInv'
  BY <1>1, <1>3 DEF MemInv, QueuedInv
<1>8. LiveInv'
  <2>1. \A b \in ToSet(queued[c]) : refcnt[b] = 0 /\ Owner(b) = c
    BY DEF MemInv, QueuedInv, PlaceInv, QueuedOwned, ToSet
  <2>2. ASSUME NEW b \in Buffer, refcnt'[b] > 0 PROVE b \in live'
    BY <1>1, <1>2, <2>1, <2>2 DEF MemInv, LiveInv
  <2>3. ASSUME NEW d \in Chn, NEW i \in DOMAIN queued'[d] PROVE queued'[d][i] \in live'
    <3>1. d # c /\ queued'[d] = queued[d]
      BY <1>3, <2>3
    <3>2. queued[d][i] \in live /\ Owner(queued[d][i]) = d
      BY <3>1 DEF MemInv, LiveInv, PlaceInv, QueuedOwned
    <3> QED
      BY <1>1, <2>1, <3>1, <3>2
  <2> QED
    BY <2>2, <2>3 DEF LiveInv
<1>9. NoLeak'
  <2> SUFFICES ASSUME NEW b \in live'
               PROVE  refcnt'[b] > 0 \/ (\E d \in Chn : b \in ToSet(queued'[d])) \/ Aborted'
    BY DEF NoLeak
  <2>1. b \in live /\ b \notin ToSet(queued[c])
    BY <1>1
  <2>2. \A d \in Chn : b \in ToSet(queued[d]) => b \in ToSet(queued'[d])
    BY <1>3, <2>1
  <2> QED
    BY <1>1, <2>1, <2>2 DEF MemInv, NoLeak, Aborted
<1> QED
  BY <1>4, <1>5, <1>6, <1>7, <1>8, <1>9 DEF MemInv, PlaceInv

(* The buffers to put, when the first of them is put *)
LEMMA TodoHead ==
    ASSUME CoreTypeOK, MemInv, todo # <<>>
    PROVE  /\ Head(todo) \in Buffer /\ refcnt[Head(todo)] \in Nat /\ refcnt[Head(todo)] > 0
           /\ Head(todo) \in live /\ \A c \in Chn : Head(todo) \notin ToSet(queued[c])
<1>1. todo \in Seq(Buffer) /\ refcnt \in [Buffer -> Nat]
  BY DEF CoreTypeOK, CtlTypeOK, BufTypeOK
<1>2. Head(todo) \in Buffer /\ 1 \in DOMAIN todo /\ Head(todo) = todo[1]
  BY <1>1, NumHead
<1>3. refcnt[Head(todo)] > 0
  <2>1. Refs(Head(todo)) > 0
    BY <1>2, RefsShown
  <2> QED
    BY <1>2, <2>1 DEF MemInv, CountInv
<1> QED
  BY <1>1, <1>2, <1>3 DEF MemInv, LiveInv, QueuedInv, ToSet

(* A put that leaves other references *)
LEMMA MemPut ==
    ASSUME CoreTypeOK, CoreTypeOK', MemInv, put_shared
    PROVE  MemInv'
<1> DEFINE h == Head(todo)
<1>1. /\ todo # <<>> /\ refcnt[h] # 1 /\ todo' = Tail(todo)
      /\ refcnt' = [refcnt EXCEPT ![h] = IF @ = 0 THEN 0 ELSE @ - 1]
      /\ UNCHANGED <<idles, pipe, queued, live, stack, failed>>
  BY DEF put_shared, qVars
<1>2. todo \in Seq(Buffer) /\ refcnt \in [Buffer -> Nat]
  BY DEF CoreTypeOK, CtlTypeOK, BufTypeOK
<1>3. /\ h \in Buffer /\ refcnt[h] \in Nat /\ refcnt[h] > 0 /\ h \in live
      /\ \A c \in Chn : h \notin ToSet(queued[c])
  BY <1>1, TodoHead
<1> HIDE DEF h
<1>4. refcnt'[h] = refcnt[h] - 1 /\ refcnt'[h] > 0 /\ \A b \in Buffer : b # h => refcnt'[b] = refcnt[b]
  BY <1>1, <1>2, <1>3
<1>5. CountInv'
  <2> SUFFICES ASSUME NEW b \in Buffer PROVE refcnt'[b] = Refs(b)'
    BY DEF CountInv
  <2>1. Num(todo, b) = Num(todo', b) + (IF h = b THEN 1 ELSE 0)
    BY <1>1, <1>2, NumHead DEF h
  <2>2. PICK c \in Chn : TRUE
    BY <1>3, OwnerOf
  <2>3. /\ Refs(b)' + Num(idles[c], b) + Num(pipe[c], b) + Num(todo, b)
                    + Num(OwnSeq(stack), b) + Num(InbSeq(stack), b)
           = Refs(b) + Num(idles[c], b) + Num(pipe[c], b) + Num(todo', b)
                     + Num(OwnSeq(stack), b) + Num(InbSeq(stack), b)
        /\ Refs(b) \in Nat /\ Refs(b)' \in Nat
        /\ Num(idles[c], b) \in Nat /\ Num(pipe[c], b) \in Nat /\ Num(todo', b) \in Nat
        /\ Num(OwnSeq(stack), b) \in Nat /\ Num(InbSeq(stack), b) \in Nat
    BY <1>1, RefsChange
  <2>4. Refs(b) = Refs(b)' + (IF h = b THEN 1 ELSE 0)
    BY <2>1, <2>3
  <2>5. refcnt[b] = Refs(b)
    BY DEF MemInv, CountInv
  <2> QED
    BY <1>3, <1>4, <2>3, <2>4, <2>5
<1>6. IdlesOwned' /\ PipeBelow' /\ QueuedOwned' /\ FramesHold'
  BY <1>1, MemSame
<1>7. QueuedInv'
  <2>1. \A c \in Chn : \A i \in DOMAIN queued[c] : queued[c][i] # h /\ queued[c][i] \in Buffer
    BY <1>3 DEF ToSet, CoreTypeOK, QTypeOK
  <2> QED
    BY <1>1, <1>4, <2>1 DEF MemInv, QueuedInv
<1>8. LiveInv'
  BY <1>1, <1>3, <1>4 DEF MemInv, LiveInv
<1>9. NoLeak'
  <2>1. \A b \in live : b \in Buffer
    BY DEF CoreTypeOK, BufTypeOK
  <2> QED
    BY <1>1, <1>3, <1>4, <2>1 DEF MemInv, NoLeak, Aborted
<1> QED
  BY <1>5, <1>6, <1>7, <1>8, <1>9 DEF MemInv, PlaceInv

(* The last reference is given up: the owner takes the buffer back, hands   *)
(* it to the driver or frees it; it drops it only after an abort.           *)
LEMMA MemRelease ==
    ASSUME CoreTypeOK, CoreTypeOK', MemInv, release_buffer,
           recycle(Head(todo)) = "drop" => Aborted
    PROVE  MemInv'
<1> DEFINE h == Head(todo)
           o == Owner(h)
           r == recycle(h)
<1>1. /\ todo # <<>> /\ refcnt[h] = 1 /\ todo' = Tail(todo)
      /\ refcnt' = [refcnt EXCEPT ![h] = IF r = "idle" THEN 1 ELSE 0]
      /\ idles' = [idles EXCEPT ![o] = IF r = "idle" THEN Append(@, h) ELSE @]
      /\ queued' = [queued EXCEPT ![o] = IF r = "queue" THEN Append(@, h) ELSE @]
      /\ live' = IF r = "delete" THEN live \ {h} ELSE live
      /\ UNCHANGED <<pipe, stack, failed>>
  BY DEF release_buffer
<1>2. /\ todo \in Seq(Buffer) /\ refcnt \in [Buffer -> Nat] /\ live \subseteq Buffer
      /\ idles \in [Chn -> Seq(Buffer)] /\ queued \in [Chn -> Seq(Buffer)]
  BY Zenon DEF CoreTypeOK, CtlTypeOK, BufTypeOK, QTypeOK
<1>3. /\ h \in Buffer /\ h \in live /\ \A c \in Chn : h \notin ToSet(queued[c])
  BY <1>1, TodoHead
<1>4. o \in Chn /\ idles[o] \in Seq(Buffer) /\ queued[o] \in Seq(Buffer)
  BY <1>2, <1>3, OwnerOf
<1>5. r \in {"queue", "delete", "idle", "drop"} /\ (r = "drop" => Aborted)
  BY DEF recycle, recycle_v4l2_buffer, recycle_buffer, put_unit_buffer_idle
<1>o. Owner(h) = o
  OBVIOUS
<1>t. \A b : Num(todo, b) = Num(Tail(todo), b) + (IF h = b THEN 1 ELSE 0)
  BY <1>1, <1>2, NumHead
<1> HIDE DEF h, o, r
<1>6. /\ refcnt'[h] = (IF r = "idle" THEN 1 ELSE 0)
      /\ \A b \in Buffer : b # h => refcnt'[b] = refcnt[b]
      /\ idles'[o] = (IF r = "idle" THEN Append(idles[o], h) ELSE idles[o])
      /\ queued'[o] = (IF r = "queue" THEN Append(queued[o], h) ELSE queued[o])
      /\ \A d \in Chn : d # o => idles'[d] = idles[d] /\ queued'[d] = queued[d]
  BY <1>1, <1>2, <1>3, <1>4
<1>q. \A c \in Chn : \A i \in DOMAIN queued[c] : queued[c][i] # h /\ queued[c][i] \in Buffer
  BY <1>2, <1>3 DEF ToSet
<1>7. CountInv'
  <2> SUFFICES ASSUME NEW b \in Buffer PROVE refcnt'[b] = Refs(b)'
    BY DEF CountInv
  <2>1. Num(todo, b) = Num(todo', b) + (IF h = b THEN 1 ELSE 0)
    BY <1>1, <1>t
  <2>2. Num(idles'[o], b) = Num(idles[o], b) + (IF r = "idle" /\ h = b THEN 1 ELSE 0)
    <3>1. Num(Append(idles[o], h), b) = Num(idles[o], b) + (IF h = b THEN 1 ELSE 0)
      BY <1>3, <1>4, NumAppend
    <3>2. Num(idles[o], b) \in Nat
      BY <1>4, NumType
    <3> QED
      BY <1>6, <3>1, <3>2
  <2>3. /\ Refs(b)' + Num(idles[o], b) + Num(pipe[o], b) + Num(todo, b)
                    + Num(OwnSeq(stack), b) + Num(InbSeq(stack), b)
           = Refs(b) + Num(idles'[o], b) + Num(pipe[o], b) + Num(todo', b)
                     + Num(OwnSeq(stack), b) + Num(InbSeq(stack), b)
        /\ Refs(b) \in Nat /\ Refs(b)' \in Nat
        /\ Num(idles[o], b) \in Nat /\ Num(pipe[o], b) \in Nat /\ Num(todo', b) \in Nat
        /\ Num(OwnSeq(stack), b) \in Nat /\ Num(InbSeq(stack), b) \in Nat
    BY <1>1, <1>4, <1>6, RefsChange
  <2>4. refcnt[b] = Refs(b)
    BY DEF MemInv, CountInv
  <2>5. CASE h = b
    <3>1. Refs(b)' = Refs(b) + (IF r = "idle" THEN 1 ELSE 0) - 1
      BY <2>1, <2>2, <2>3, <2>5
    <3> QED
      BY <1>1, <1>6, <2>4, <2>5, <3>1
  <2>6. CASE h # b
    <3>0. Num(todo, b) = Num(todo', b) /\ Num(idles'[o], b) = Num(idles[o], b)
      BY <2>1, <2>2, <2>3, <2>6
    <3>1. Refs(b)' + Num(idles[o], b) + Num(pipe[o], b) + Num(todo', b)
                   + Num(OwnSeq(stack), b) + Num(InbSeq(stack), b)
          = Refs(b) + Num(idles[o], b) + Num(pipe[o], b) + Num(todo', b)
                    + Num(OwnSeq(stack), b) + Num(InbSeq(stack), b)
      BY <2>3, <3>0
    <3>2. Refs(b)' = Refs(b)
      BY <2>3, <3>1
    <3> QED
      BY <1>6, <2>4, <2>6, <3>2
  <2> QED
    BY <2>5, <2>6
<1>8. IdlesOwned'
  <2>1. CASE r = "idle"
    <3>1. \A i \in DOMAIN idles'[o] : Owner(idles'[o][i]) = o
      <4>1. idles'[o] = Append(idles[o], h)
        BY <1>6, <2>1
      <4>2. \A i \in DOMAIN Append(idles[o], h) :
               Append(idles[o], h)[i] = h
               \/ (i \in DOMAIN idles[o] /\ Append(idles[o], h)[i] = idles[o][i])
        BY <1>3, <1>4, AppendProperties
      <4> QED
        BY <1>4, <1>o, <4>1, <4>2 DEF MemInv, PlaceInv, IdlesOwned
    <3> QED
      BY <1>6, <3>1, Zenon DEF MemInv, PlaceInv, IdlesOwned
  <2>2. CASE r # "idle"
    BY <1>6, <2>2 DEF MemInv, PlaceInv, IdlesOwned
  <2> QED
    BY <2>1, <2>2
<1>9. PipeBelow' /\ FramesHold'
  BY <1>1, MemSame
<1>10. CASE r # "queue"
  <2>1. \A d \in Chn : queued'[d] = queued[d]
    BY <1>6, <1>10
  <2>2. QueuedOwned'
    BY <2>1 DEF MemInv, PlaceInv, QueuedOwned
  <2>3. QueuedInv'
    BY <1>6, <1>q, <2>1 DEF MemInv, QueuedInv
  <2>4. LiveInv'
    <3>1. \A b \in Buffer : refcnt'[b] > 0 => b \in live'
      BY <1>1, <1>3, <1>5, <1>6 DEF MemInv, LiveInv
    <3>2. \A d \in Chn : \A i \in DOMAIN queued'[d] : queued'[d][i] \in live'
      <4>1. \A d \in Chn : \A i \in DOMAIN queued[d] : queued[d][i] \in live /\ queued[d][i] # h
        BY <1>q DEF MemInv, LiveInv
      <4>2. \A b \in live : b # h => b \in live'
        BY <1>1
      <4> QED
        BY <2>1, <4>1, <4>2
    <3> QED
      BY <3>1, <3>2 DEF LiveInv
  <2>5. NoLeak'
    <3> SUFFICES ASSUME NEW b \in live'
                 PROVE  refcnt'[b] > 0 \/ (\E d \in Chn : b \in ToSet(queued'[d])) \/ Aborted'
      BY DEF NoLeak
    <3>1. CASE b = h
      BY <1>1, <1>5, <1>6, <1>10, <3>1 DEF Aborted
    <3>2. CASE b # h
      BY <1>1, <1>2, <1>6, <2>1, <3>2, Zenon DEF MemInv, NoLeak, Aborted
    <3> QED
      BY <3>1, <3>2
  <2> QED
    BY <1>7, <1>8, <1>9, <2>2, <2>3, <2>4, <2>5 DEF MemInv, PlaceInv
<1>11. CASE r = "queue"
  <2> DEFINE s == queued[o]
             a == Append(s, h)
  <2>1. queued'[o] = a /\ live' = live /\ refcnt'[h] = 0
    BY <1>1, <1>6, <1>11
  <2>2. /\ DOMAIN a = 1 .. Len(s) + 1 /\ DOMAIN s = 1 .. Len(s) /\ Len(s) \in Nat
        /\ \A i \in 1 .. Len(s) : a[i] = s[i]
        /\ a[Len(s) + 1] = h
    BY <1>3, <1>4, AppendProperties
  <2> HIDE DEF a
  <2>3. \A i \in DOMAIN a : (i \in DOMAIN s /\ a[i] = s[i]) \/ (i = Len(s) + 1 /\ a[i] = h)
    BY <2>2
  <2>4. QueuedOwned'
    <3>1. \A i \in DOMAIN a : Owner(a[i]) = o
      BY <1>4, <1>o, <2>3 DEF MemInv, PlaceInv, QueuedOwned
    <3> QED
      BY <1>6, <2>1, <3>1 DEF MemInv, PlaceInv, QueuedOwned
  <2>5. QueuedInv'
    <3>1. \A i \in DOMAIN s : refcnt'[s[i]] = 0 /\ s[i] # h
      BY <1>4, <1>6, <1>q DEF MemInv, QueuedInv
    <3>2. \A i \in DOMAIN a : refcnt'[a[i]] = 0
      BY <2>1, <2>3, <3>1
    <3>3. \A i, j \in DOMAIN s : s[i] = s[j] => i = j
      BY <1>4 DEF MemInv, QueuedInv
    <3>4. \A i, j \in DOMAIN a : a[i] = a[j] => i = j
      BY <2>3, <3>1, <3>3
    <3>5. \A d \in Chn : \A i \in DOMAIN queued'[d] : refcnt'[queued'[d][i]] = 0
      BY <1>6, <1>q, <2>1, <3>2 DEF MemInv, QueuedInv
    <3>6. \A d \in Chn : \A i, j \in DOMAIN queued'[d] : queued'[d][i] = queued'[d][j] => i = j
      BY <1>6, <2>1, <3>4 DEF MemInv, QueuedInv
    <3> QED
      BY <3>5, <3>6 DEF QueuedInv
  <2>6. LiveInv'
    <3>1. \A i \in DOMAIN a : a[i] \in live
      BY <1>3, <1>4, <2>3 DEF MemInv, LiveInv
    <3>2. \A d \in Chn : \A i \in DOMAIN queued'[d] : queued'[d][i] \in live'
      BY <1>6, <2>1, <3>1 DEF MemInv, LiveInv
    <3>3. \A b \in Buffer : refcnt'[b] > 0 => b \in live'
      BY <1>3, <1>6, <2>1 DEF MemInv, LiveInv
    <3> QED
      BY <3>2, <3>3 DEF LiveInv
  <2>7. NoLeak'
    <3> SUFFICES ASSUME NEW b \in live'
                 PROVE  refcnt'[b] > 0 \/ (\E d \in Chn : b \in ToSet(queued'[d])) \/ Aborted'
      BY DEF NoLeak
    <3>1. CASE b = h
      <4>1. Len(s) + 1 \in DOMAIN a /\ a[Len(s) + 1] = b
        BY <2>2, <3>1
      <4> QED
        BY <1>4, <2>1, <4>1 DEF ToSet
    <3>2. CASE b # h
      <4>1. \A d \in Chn : b \in ToSet(queued[d]) => b \in ToSet(queued'[d])
        <5>1. b \in ToSet(s) => b \in ToSet(a)
          BY <2>2 DEF ToSet
        <5> QED
          BY <1>6, <2>1, <5>1
      <4> QED
        BY <1>1, <1>2, <1>6, <2>1, <3>2, <4>1 DEF MemInv, NoLeak, Aborted
    <3> QED
      BY <3>1, <3>2
  <2> QED
    BY <1>7, <1>8, <1>9, <2>4, <2>5, <2>6, <2>7 DEF MemInv, PlaceInv
<1> QED
  BY <1>10, <1>11

(* What a suspended push pushes is referenced, so it is alive and not with  *)
(* the driver, and its channel is the owner's or below it.                  *)
LEMMA TopHeld ==
    ASSUME CoreTypeOK, MemInv, stack # <<>>
    PROVE  /\ top \in Frame /\ top.buf \in Buffer /\ top.chn \in Chn
           /\ refcnt[top.buf] \in Nat /\ refcnt[top.buf] > 0 /\ top.buf \in live
           /\ \A c \in Chn : top.buf \notin ToSet(queued[c])
           /\ \A d \in Chn : Source[d] = top.chn => d \in Below(Owner(top.buf))
<1>1. Len(stack) \in DOMAIN stack /\ top = stack[Len(stack)] /\ top \in Frame
  BY StackShape DEF CoreTypeOK
<1>2. top.buf \in Buffer /\ top.chn \in Chn
  BY <1>1 DEF Frame
<1>3. Holding(top)
  BY <1>1 DEF MemInv, PlaceInv, FramesHold
<1>4. Refs(top.buf) > 0
  BY <1>1, <1>2, <1>3, RefsShown DEF Holding
<1>5. refcnt[top.buf] = Refs(top.buf) /\ refcnt[top.buf] \in Nat
  BY <1>2 DEF MemInv, CountInv, CoreTypeOK, BufTypeOK
<1>6. top.buf \in live /\ \A c \in Chn : top.buf \notin ToSet(queued[c])
  BY <1>2, <1>4, <1>5 DEF MemInv, LiveInv, QueuedInv, ToSet
<1>7. Owner(top.buf) \in Chn
  BY <1>2, OwnerOf
<1>8. top.chn = Owner(top.buf) \/ top.chn \in Below(Owner(top.buf))
  BY <1>2, <1>3, CoreAssumption DEF Holding
<1>9. \A d \in Chn : Source[d] = top.chn => d \in Below(Owner(top.buf))
  BY <1>2, <1>7, <1>8, BelowSink
<1> QED
  BY <1>1, <1>2, <1>4, <1>5, <1>6, <1>9

(* A push: the pipe gets a reference of its own. *)
LEMMA MemPush ==
    ASSUME CoreTypeOK, CoreTypeOK', MemInv, pipe_push_back
    PROVE  MemInv'
<1> DEFINE n == Len(Outs[top.chn])
           d == Outs[top.chn][top.pos - n]
           x == top.buf
<1>1. /\ stack # <<>> /\ top.pos > n /\ top.pos <= 2 * n
      /\ refcnt' = [refcnt EXCEPT ![x] = @ + 1]
      /\ pipe' = [pipe EXCEPT ![d] = Append(@, x)]
      /\ stack' = Advanced
      /\ UNCHANGED <<idles, queued, live, todo, failed>>
  BY DEF pipe_push_back, Running
<1>2. /\ top \in Frame /\ x \in Buffer /\ top.chn \in Chn
      /\ refcnt[x] \in Nat /\ refcnt[x] > 0 /\ x \in live
      /\ \A c \in Chn : x \notin ToSet(queued[c])
      /\ \A c \in Chn : Source[c] = top.chn => c \in Below(Owner(x))
  BY <1>1, TopHeld
<1>3. d \in Chn /\ d \in Below(Owner(x))
  <2>1. top.pos - n \in DOMAIN Outs[top.chn]
    BY <1>1, <1>2, CoreAssumption DEF Frame
  <2>2. d \in Chn /\ Source[d] = top.chn
    BY <1>2, <2>1, SinkOf
  <2> HIDE DEF d
  <2> QED
    BY <1>2, <2>2
<1>4. FramesHold' /\ OwnSeq(stack') = OwnSeq(stack) /\ InbSeq(stack') = InbSeq(stack)
  BY <1>1, MemAdvanced DEF CoreTypeOK
<1>5. /\ pipe \in [Chn -> Seq(Buffer)] /\ refcnt \in [Buffer -> Nat] /\ live \subseteq Buffer
      /\ queued \in [Chn -> Seq(Buffer)] /\ pipe[d] \in Seq(Buffer)
  BY <1>3, Zenon DEF CoreTypeOK, QTypeOK, BufTypeOK
<1> HIDE DEF d, x
<1>6. /\ pipe'[d] = Append(pipe[d], x) /\ \A c \in Chn : c # d => pipe'[c] = pipe[c]
      /\ refcnt'[x] = refcnt[x] + 1 /\ \A b \in Buffer : b # x => refcnt'[b] = refcnt[b]
  BY <1>1, <1>2, <1>3, <1>5
<1>7. CountInv'
  <2> SUFFICES ASSUME NEW b \in Buffer PROVE refcnt'[b] = Refs(b)'
    BY DEF CountInv
  <2>1. Num(pipe'[d], b) = Num(pipe[d], b) + (IF x = b THEN 1 ELSE 0)
    BY <1>2, <1>5, <1>6, NumAppend
  <2>2. \A e \in Chn : e # d => idles'[e] = idles[e] /\ pipe'[e] = pipe[e]
    BY <1>1, <1>6
  <2>3. /\ Refs(b)' + Num(idles[d], b) + Num(pipe[d], b) + Num(todo, b)
                    + Num(OwnSeq(stack), b) + Num(InbSeq(stack), b)
           = Refs(b) + Num(idles'[d], b) + Num(pipe'[d], b) + Num(todo', b)
                     + Num(OwnSeq(stack'), b) + Num(InbSeq(stack'), b)
        /\ Refs(b) \in Nat /\ Refs(b)' \in Nat
        /\ Num(idles[d], b) \in Nat /\ Num(pipe[d], b) \in Nat /\ Num(todo, b) \in Nat
        /\ Num(OwnSeq(stack), b) \in Nat /\ Num(InbSeq(stack), b) \in Nat
    BY <1>3, <2>2, RefsChange
  <2>4. Refs(b)' + Num(idles[d], b) + Num(pipe[d], b) + Num(todo, b)
                 + Num(OwnSeq(stack), b) + Num(InbSeq(stack), b)
        = Refs(b) + Num(idles[d], b) + (Num(pipe[d], b) + (IF x = b THEN 1 ELSE 0))
                  + Num(todo, b) + Num(OwnSeq(stack), b) + Num(InbSeq(stack), b)
    BY <1>1, <1>4, <2>1, <2>3
  <2>5. Refs(b)' = Refs(b) + (IF x = b THEN 1 ELSE 0)
    BY <2>3, <2>4
  <2>6. refcnt[b] = Refs(b)
    BY DEF MemInv, CountInv
  <2> QED
    BY <1>6, <2>3, <2>5, <2>6, SMTT(20)
<1>8. PipeBelow'
  <2>1. \A i \in DOMAIN pipe'[d] : d \in Below(Owner(pipe'[d][i]))
    <3>1. \A i \in DOMAIN Append(pipe[d], x) :
             Append(pipe[d], x)[i] = x
             \/ (i \in DOMAIN pipe[d] /\ Append(pipe[d], x)[i] = pipe[d][i])
      BY <1>2, <1>5, AppendProperties, SMTT(20)
    <3> QED
      BY <1>3, <1>6, <3>1 DEF MemInv, PlaceInv, PipeBelow
  <2> QED
    BY <1>6, <2>1, Zenon DEF MemInv, PlaceInv, PipeBelow
<1>9. IdlesOwned' /\ QueuedOwned'
  BY <1>1, MemSame
<1>10. QueuedInv'
  <2>1. \A c \in Chn : \A i \in DOMAIN queued[c] : queued[c][i] # x /\ queued[c][i] \in Buffer
    BY <1>2, <1>5 DEF ToSet
  <2> QED
    BY <1>1, <1>6, <2>1 DEF MemInv, QueuedInv
<1>11. LiveInv'
  BY <1>1, <1>2, <1>6 DEF MemInv, LiveInv
<1>12. NoLeak'
  BY <1>1, <1>2, <1>5, <1>6 DEF MemInv, NoLeak, Aborted
<1> QED
  BY <1>4, <1>7, <1>8, <1>9, <1>10, <1>11, <1>12 DEF MemInv, PlaceInv

(* The references of a push that returns are put. *)
LEMMA MemReturn ==
    ASSUME CoreTypeOK, CoreTypeOK', MemInv, push_return
    PROVE  MemInv'
<1>1. /\ stack # <<>> /\ todo = <<>> /\ stack' = Front(stack)
      /\ todo' = (IF top.own THEN <<top.buf>> ELSE <<>>)
                 \o (IF top.inb # None THEN <<top.inb>> ELSE <<>>)
      /\ UNCHANGED <<idles, pipe, queued, refcnt, live, failed>>
  BY DEF push_return, Running, qVars, bufVars
<1>2. top \in Frame /\ top.buf \in Buffer /\ top.chn \in Chn /\ top.inb \in Buffer \cup {None}
  BY <1>1, TopHeld DEF Frame
<1>3. CountInv'
  <2> SUFFICES ASSUME NEW b \in Buffer PROVE refcnt'[b] = Refs(b)'
    BY DEF CountInv
  <2> DEFINE u == IF top.own THEN <<top.buf>> ELSE <<>>
             v == IF top.inb # None THEN <<top.inb>> ELSE <<>>
  <2>1. u \in Seq(Buffer) /\ Num(u, b) = IF top.own /\ top.buf = b THEN 1 ELSE 0
    BY <1>2, NumOne, NumEmpty
  <2>2. v \in Seq(Buffer) /\ Num(v, b) = IF top.inb = b THEN 1 ELSE 0
    <3>1. CASE top.inb = None
      BY <3>1, NumEmpty, CoreAssumption
    <3>2. CASE top.inb # None
      BY <1>2, <3>2, NumOne
    <3> QED
      BY <3>1, <3>2
  <2>3. todo' = u \o v
    BY <1>1
  <2> HIDE DEF u, v
  <2>4. Num(todo', b) = Num(u, b) + Num(v, b) /\ Num(todo, b) = 0
    <3>1. u \in Seq(Buffer) /\ v \in Seq(Buffer)
      BY <2>1, <2>2
    <3>2. Num(u \o v, b) = Num(u, b) + Num(v, b)
      BY <3>1, NumConcat
    <3> QED
      BY <1>1, <2>3, <3>2, NumEmpty, Zenon
  <2>5. /\ Num(OwnSeq(stack), b) = Num(OwnSeq(stack'), b) + Num(u, b)
        /\ Num(InbSeq(stack), b) = Num(InbSeq(stack'), b) + Num(v, b)
    BY <1>1, <2>1, <2>2, FrameReturned DEF CoreTypeOK
  <2>6. PICK c \in Chn : TRUE
    BY <1>2
  <2>7. /\ Refs(b)' + Num(idles[c], b) + Num(pipe[c], b) + Num(todo, b)
                    + Num(OwnSeq(stack), b) + Num(InbSeq(stack), b)
           = Refs(b) + Num(idles[c], b) + Num(pipe[c], b) + Num(todo', b)
                     + Num(OwnSeq(stack'), b) + Num(InbSeq(stack'), b)
        /\ Refs(b) \in Nat /\ Refs(b)' \in Nat
        /\ Num(idles[c], b) \in Nat /\ Num(pipe[c], b) \in Nat
        /\ Num(OwnSeq(stack'), b) \in Nat /\ Num(InbSeq(stack'), b) \in Nat
    BY <1>1, RefsChange, Zenon
  <2>8. Num(u, b) \in Nat /\ Num(v, b) \in Nat
    BY <2>1, <2>2
  <2>9. Refs(b)' + Num(idles[c], b) + Num(pipe[c], b) + 0
                 + (Num(OwnSeq(stack'), b) + Num(u, b)) + (Num(InbSeq(stack'), b) + Num(v, b))
        = Refs(b) + Num(idles[c], b) + Num(pipe[c], b) + (Num(u, b) + Num(v, b))
                  + Num(OwnSeq(stack'), b) + Num(InbSeq(stack'), b)
    BY <2>4, <2>5, <2>7
  <2>10. Refs(b)' = Refs(b)
    BY <2>7, <2>8, <2>9
  <2> QED
    BY <1>1, <2>10 DEF MemInv, CountInv
<1>4. FramesHold'
  BY <1>1, StackShape DEF MemInv, PlaceInv, FramesHold, CoreTypeOK
<1> QED
  BY <1>1, <1>3, <1>4, MemSame DEF MemInv, PlaceInv

(* What the pipes and units still hold when they are deleted is put. *)
LEMMA MemTeardown ==
    ASSUME CoreTypeOK, CoreTypeOK', MemInv, NEW c \in Chn, teardown(c)
    PROVE  MemInv'
<1>1. /\ todo = <<>> /\ todo' = pipe[c] \o idles[c]
      /\ pipe' = [pipe EXCEPT ![c] = <<>>] /\ idles' = [idles EXCEPT ![c] = <<>>]
      /\ UNCHANGED <<queued, refcnt, live, stack, failed>>
  BY DEF teardown, Idle, Leftover, bufVars
<1>2. /\ idles \in [Chn -> Seq(Buffer)] /\ pipe \in [Chn -> Seq(Buffer)]
      /\ idles[c] \in Seq(Buffer) /\ pipe[c] \in Seq(Buffer)
  BY DEF CoreTypeOK, QTypeOK
<1>3. /\ idles'[c] = <<>> /\ pipe'[c] = <<>>
      /\ \A d \in Chn : d # c => idles'[d] = idles[d] /\ pipe'[d] = pipe[d]
  BY <1>1, <1>2
<1>4. CountInv'
  <2> SUFFICES ASSUME NEW b \in Buffer PROVE refcnt'[b] = Refs(b)'
    BY DEF CountInv
  <2>1. Num(todo', b) = Num(pipe[c], b) + Num(idles[c], b) /\ Num(todo, b) = 0
        /\ Num(idles'[c], b) = 0 /\ Num(pipe'[c], b) = 0
    BY <1>1, <1>2, <1>3, NumConcat, NumEmpty
  <2>2. /\ Refs(b)' + Num(idles[c], b) + Num(pipe[c], b) + Num(todo, b)
                    + Num(OwnSeq(stack), b) + Num(InbSeq(stack), b)
           = Refs(b) + Num(idles'[c], b) + Num(pipe'[c], b) + Num(todo', b)
                     + Num(OwnSeq(stack), b) + Num(InbSeq(stack), b)
        /\ Refs(b) \in Nat /\ Refs(b)' \in Nat
        /\ Num(idles[c], b) \in Nat /\ Num(pipe[c], b) \in Nat
        /\ Num(OwnSeq(stack), b) \in Nat /\ Num(InbSeq(stack), b) \in Nat
    BY <1>1, <1>3, RefsChange
  <2>3. Refs(b)' = Refs(b)
    BY <2>1, <2>2
  <2> QED
    BY <1>1, <2>3 DEF MemInv, CountInv
<1>5. IdlesOwned'
  BY <1>3 DEF MemInv, PlaceInv, IdlesOwned
<1>6. PipeBelow'
  BY <1>3 DEF MemInv, PlaceInv, PipeBelow
<1> QED
  BY <1>1, <1>4, <1>5, <1>6, MemSame DEF MemInv, PlaceInv

(* What a run callback of c may push: x, of which it owns a reference when  *)
(* w holds, while it reads y.                                               *)
MayPush(c, x, y, w) ==
    /\ c \in Chn /\ x \in Buffer /\ y \in Buffer \cup {None} /\ w \in BOOLEAN
    /\ w \/ y = x
    /\ w => Owner(x) = c
    /\ y # None => c \in Below(Owner(y))

(* A run callback suspends in its push. *)
LEMMA MemEnter ==
    ASSUME CoreTypeOK, MemInv, NEW c, NEW x, NEW y, NEW w,
           EnterPush(c, x, y, w), MayPush(c, x, y, w)
    PROVE  FramesHold'
<1> DEFINE f == [chn |-> c, buf |-> x, inb |-> y, own |-> w, pos |-> 1]
<1>1. f \in Frame /\ f.own = w /\ f.buf = x /\ f.inb = y /\ f.chn = c
  BY DEF Frame, MayPush
<1>2. stack \in Seq(Frame) /\ stack' = Append(stack, f)
  BY DEF CoreTypeOK, CtlTypeOK, EnterPush
<1>3. Holding(f)
  BY <1>1 DEF Holding, MayPush
<1> HIDE DEF f
<1>4. \A i \in DOMAIN Append(stack, f) :
         Append(stack, f)[i] = f \/ (i \in DOMAIN stack /\ Append(stack, f)[i] = stack[i])
  BY <1>1, <1>2, AppendProperties
<1>5. \A i \in DOMAIN stack : Holding(stack[i])
  BY DEF MemInv, PlaceInv, FramesHold
<1>6. \A i \in DOMAIN Append(stack, f) : Holding(Append(stack, f)[i])
  BY <1>3, <1>4, <1>5
<1> QED
  BY <1>2, <1>6 DEF FramesHold

(* 1 when the two are the same *)
Is(x, b) == IF x = b THEN 1 ELSE 0

LEMMA EnterNum ==
    ASSUME CoreTypeOK, NEW c, NEW x, NEW y, NEW w, NEW b \in Buffer,
           EnterPush(c, x, y, w), MayPush(c, x, y, w)
    PROVE  /\ w => Num(OwnSeq(stack'), b) = Num(OwnSeq(stack), b) + Is(x, b)
           /\ ~ w => Num(OwnSeq(stack'), b) = Num(OwnSeq(stack), b)
           /\ Num(InbSeq(stack'), b) = Num(InbSeq(stack), b) + Is(y, b)
<1> DEFINE f == [chn |-> c, buf |-> x, inb |-> y, own |-> w, pos |-> 1]
<1>1. f \in Frame /\ f.own = w /\ f.buf = x /\ f.inb = y
  BY DEF Frame, MayPush
<1>2. stack \in Seq(Frame) /\ stack' = Append(stack, f)
  BY DEF CoreTypeOK, CtlTypeOK, EnterPush
<1> HIDE DEF f
<1>3. /\ Num(OwnSeq(Append(stack, f)), b) = Num(OwnSeq(stack), b) + (IF f.own /\ f.buf = b THEN 1 ELSE 0)
      /\ Num(InbSeq(Append(stack, f)), b) = Num(InbSeq(stack), b) + (IF f.inb = b THEN 1 ELSE 0)
  BY <1>1, <1>2, FramePushed
<1>4. Num(OwnSeq(stack), b) \in Nat
  <2>1. OwnSeq(stack) \in Seq(Buffer \cup {None})
    BY <1>2, FrameSeqs
  <2> QED
    BY <2>1, NumType
<1> QED
  BY <1>1, <1>2, <1>3, <1>4 DEF Is

(* The head of a queue is taken. *)
Took(f, g, c) == f[c] # <<>> /\ g = [f EXCEPT ![c] = Tail(@)]

LEMMA TakeHead ==
    ASSUME NEW f \in Queues, NEW g, NEW c \in Chn, Took(f, g, c)
    PROVE  /\ Head(f[c]) \in Buffer /\ 1 \in DOMAIN f[c] /\ Head(f[c]) = f[c][1]
           /\ g[c] = Tail(f[c]) /\ g[c] \in Seq(Buffer) /\ \A d \in Chn : d # c => g[d] = f[d]
           /\ \A i \in DOMAIN g[c] : i + 1 \in DOMAIN f[c] /\ g[c][i] = f[c][i + 1]
<1>1. f[c] \in Seq(Buffer)
  BY DEF Queues
<1>2. f[c] # <<>> /\ g[c] = Tail(f[c]) /\ \A d \in Chn : d # c => g[d] = f[d]
  BY DEF Queues, Took
<1>3. /\ Head(f[c]) \in Buffer /\ Tail(f[c]) \in Seq(Buffer)
      /\ \A i \in DOMAIN Tail(f[c]) : i + 1 \in DOMAIN f[c] /\ Tail(f[c])[i] = f[c][i + 1]
      /\ 1 \in DOMAIN f[c] /\ Head(f[c]) = f[c][1]
  BY <1>1, <1>2, NumHead
<1> QED
  BY <1>2, <1>3

LEMMA TakeNum ==
    ASSUME NEW f \in Queues, NEW g, NEW c \in Chn, NEW b \in Buffer, Took(f, g, c)
    PROVE  Num(f[c], b) = Num(g[c], b) + Is(Head(f[c]), b)
<1>1. f[c] \in Seq(Buffer)
  BY DEF Queues
<1>2. f[c] # <<>> /\ g[c] = Tail(f[c])
  BY DEF Queues, Took
<1>3. Num(f[c], b) = Num(Tail(f[c]), b) + (IF Head(f[c]) = b THEN 1 ELSE 0)
  BY <1>1, <1>2, NumHead
<1> QED
  BY <1>2, <1>3 DEF Is

(* A step that moves a reference from one holder to another keeps the counts. *)
LEMMA MemMoved ==
    ASSUME CoreTypeOK, CoreTypeOK', MemInv, NEW c \in Chn, UNCHANGED refcnt,
           \A e \in Chn : e # c => idles'[e] = idles[e] /\ pipe'[e] = pipe[e],
           \A b \in Buffer : Num(idles'[c], b) + Num(pipe'[c], b) + Num(todo', b)
                             + Num(OwnSeq(stack'), b) + Num(InbSeq(stack'), b)
                             = Num(idles[c], b) + Num(pipe[c], b) + Num(todo, b)
                               + Num(OwnSeq(stack), b) + Num(InbSeq(stack), b)
    PROVE  CountInv'
<1> SUFFICES ASSUME NEW b \in Buffer PROVE refcnt'[b] = Refs(b)'
  BY DEF CountInv
<1>1. /\ Refs(b)' + Num(idles[c], b) + Num(pipe[c], b) + Num(todo, b)
                  + Num(OwnSeq(stack), b) + Num(InbSeq(stack), b)
         = Refs(b) + Num(idles'[c], b) + Num(pipe'[c], b) + Num(todo', b)
                   + Num(OwnSeq(stack'), b) + Num(InbSeq(stack'), b)
      /\ Refs(b) \in Nat /\ Refs(b)' \in Nat
      /\ Num(idles[c], b) \in Nat /\ Num(pipe[c], b) \in Nat /\ Num(todo, b) \in Nat
      /\ Num(OwnSeq(stack), b) \in Nat /\ Num(InbSeq(stack), b) \in Nat
      /\ Num(idles'[c], b) \in Nat /\ Num(pipe'[c], b) \in Nat /\ Num(todo', b) \in Nat
      /\ Num(OwnSeq(stack'), b) \in Nat /\ Num(InbSeq(stack'), b) \in Nat
  BY RefsChange
<1> DEFINE m == Num(idles[c], b) + Num(pipe[c], b) + Num(todo, b)
                + Num(OwnSeq(stack), b) + Num(InbSeq(stack), b)
           n == Num(idles'[c], b) + Num(pipe'[c], b) + Num(todo', b)
                + Num(OwnSeq(stack'), b) + Num(InbSeq(stack'), b)
<1>2. n = m
  OBVIOUS
<1>3. Refs(b)' + m = Refs(b) + n /\ m \in Nat
  BY <1>1
<1>4. Refs(b) \in Nat /\ Refs(b)' \in Nat
  BY <1>1
<1> HIDE DEF m, n
<1>5. Refs(b)' = Refs(b)
  BY <1>2, <1>3, <1>4
<1> QED
  BY <1>5 DEF MemInv, CountInv

(* The counts are numbers. *)
LEMMA NumTypes ==
    ASSUME CoreTypeOK, NEW c \in Chn, NEW b \in Buffer
    PROVE  /\ Num(idles[c], b) \in Nat /\ Num(pipe[c], b) \in Nat /\ Num(todo, b) \in Nat
           /\ Num(OwnSeq(stack), b) \in Nat /\ Num(InbSeq(stack), b) \in Nat
<1>1. stack \in Seq(Frame) /\ todo \in Seq(Buffer)
  BY DEF CoreTypeOK, CtlTypeOK
<1>2. OwnSeq(stack) \in Seq(Buffer \cup {None}) /\ InbSeq(stack) \in Seq(Buffer \cup {None})
  BY <1>1, FrameSeqs
<1> QED
  BY <1>1, <1>2, QueueOf, NumType

LEMMA EnterInb ==
    ASSUME CoreTypeOK, NEW c, NEW x, NEW y, NEW w, NEW b \in Buffer,
           EnterPush(c, x, y, w), MayPush(c, x, y, w)
    PROVE  Num(InbSeq(stack'), b) = Num(InbSeq(stack), b) + Is(y, b)
BY EnterNum, ZenonT(60)

LEMMA IsNum == \A x, b : Is(x, b) \in Nat
BY DEF Is

(* ifile_run pushes an idle buffer of its own. *)
LEMMA MemIfile ==
    ASSUME CoreTypeOK, CoreTypeOK', MemInv, NEW c \in Chn, ifile_run(c)
    PROVE  MemInv'
<1> DEFINE x == Head(idles[c])
<1>1. /\ Kind[c] = "ifile" /\ Ready(c) /\ idles' = [idles EXCEPT ![c] = Tail(@)]
      /\ EnterPush(c, x, None, TRUE)
      /\ UNCHANGED <<pipe, queued, refcnt, live, todo, failed>>
  BY Zenon DEF ifile_run, Active
<1>2. idles \in Queues /\ Took(idles, idles', c)
  BY <1>1 DEF CoreTypeOK, QTypeOK, Queues, Ready, ifile_checkready, Took
<1>3. /\ x \in Buffer /\ 1 \in DOMAIN idles[c] /\ x = idles[c][1]
      /\ \A d \in Chn : d # c => idles'[d] = idles[d]
      /\ \A i \in DOMAIN idles'[c] : i + 1 \in DOMAIN idles[c] /\ idles'[c][i] = idles[c][i + 1]
  BY <1>2, TakeHead
<1>4. Owner(x) = c
  BY <1>3 DEF MemInv, PlaceInv, IdlesOwned
<1>5. \A b \in Buffer : Num(idles[c], b) = Num(idles'[c], b) + Is(x, b)
  BY <1>2, TakeNum
<1>6. MayPush(c, x, None, TRUE)
  BY <1>3, <1>4 DEF MayPush
<1> HIDE DEF x
<1>7. FramesHold'
  BY <1>1, <1>6, MemEnter, Zenon
<1>8. CountInv'
  <2>1. ASSUME NEW b \in Buffer
        PROVE  Num(idles'[c], b) + Num(pipe'[c], b) + Num(todo', b)
                  + Num(OwnSeq(stack'), b) + Num(InbSeq(stack'), b)
               = Num(idles[c], b) + Num(pipe[c], b) + Num(todo, b)
                  + Num(OwnSeq(stack), b) + Num(InbSeq(stack), b)
    <3>1. /\ Num(pipe[c], b) \in Nat /\ Num(todo, b) \in Nat
          /\ Num(OwnSeq(stack), b) \in Nat /\ Num(InbSeq(stack), b) \in Nat
      BY NumTypes
    <3>2. Num(idles'[c], b) \in Nat
      BY <1>2, QueueOf, TakeHead, NumType
    <3>3. Num(OwnSeq(stack'), b) = Num(OwnSeq(stack), b) + Is(x, b)
      BY <1>1, <1>6, EnterNum, Zenon
    <3>4. Num(InbSeq(stack'), b) = Num(InbSeq(stack), b) + Is(None, b)
      BY <1>1, <1>6, EnterInb, Zenon
    <3>5. Is(None, b) = 0 /\ Is(x, b) \in Nat
      BY CoreAssumption DEF Is
    <3>6. Num(idles[c], b) = Num(idles'[c], b) + Is(x, b)
      BY <1>5
    <3>7. pipe' = pipe /\ todo' = todo
      BY <1>1
    <3> QED
      BY <3>1, <3>2, <3>3, <3>4, <3>5, <3>6, <3>7
  <2> QED
    BY <1>1, <1>3, <2>1, MemMoved
<1>9. IdlesOwned'
  BY <1>3 DEF MemInv, PlaceInv, IdlesOwned
<1> QED
  BY <1>1, <1>7, <1>8, <1>9, MemSame DEF MemInv, PlaceInv

(* An input buffer is put without being pushed (convert_run, ofile_run). *)
LEMMA MemDrop ==
    ASSUME CoreTypeOK, CoreTypeOK', MemInv, NEW c \in Chn, Took(pipe, pipe', c), todo = <<>>,
           todo' = <<Head(pipe[c])>>, UNCHANGED <<idles, queued, refcnt, live, stack, failed>>
    PROVE  MemInv'
<1> DEFINE x == Head(pipe[c])
<1>1. pipe \in Queues
  BY DEF CoreTypeOK, QTypeOK, Queues
<1>2. /\ x \in Buffer /\ 1 \in DOMAIN pipe[c] /\ x = pipe[c][1]
      /\ \A d \in Chn : d # c => pipe'[d] = pipe[d]
      /\ \A i \in DOMAIN pipe'[c] : i + 1 \in DOMAIN pipe[c] /\ pipe'[c][i] = pipe[c][i + 1]
  BY <1>1, TakeHead
<1>3. \A b \in Buffer : Num(pipe[c], b) = Num(pipe'[c], b) + Is(x, b)
  BY <1>1, TakeNum
<1>4. \A b \in Buffer : Num(todo', b) = Is(x, b) /\ Num(todo, b) = 0
  BY NumOne, NumEmpty DEF Is
<1> HIDE DEF x
<1>5. CountInv'
  <2>1. ASSUME NEW b \in Buffer
        PROVE  Num(idles'[c], b) + Num(pipe'[c], b) + Num(todo', b)
                  + Num(OwnSeq(stack'), b) + Num(InbSeq(stack'), b)
               = Num(idles[c], b) + Num(pipe[c], b) + Num(todo, b)
                  + Num(OwnSeq(stack), b) + Num(InbSeq(stack), b)
    <3>1. /\ Num(idles[c], b) \in Nat
          /\ Num(OwnSeq(stack), b) \in Nat /\ Num(InbSeq(stack), b) \in Nat
      BY NumTypes
    <3>2. Num(pipe'[c], b) \in Nat
      BY <1>1, TakeHead, NumType
    <3>3. Is(x, b) \in Nat
      BY DEF Is
    <3>4. Num(pipe[c], b) = Num(pipe'[c], b) + Is(x, b) /\ Num(todo', b) = Is(x, b) /\ Num(todo, b) = 0
      BY <1>3, <1>4
    <3> QED
      BY <3>1, <3>2, <3>3, <3>4
  <2> QED
    BY <1>2, <2>1, MemMoved
<1>6. PipeBelow'
  BY <1>2 DEF MemInv, PlaceInv, PipeBelow
<1> QED
  BY <1>5, <1>6, MemSame DEF MemInv, PlaceInv

LEMMA MemConvert ==
    ASSUME CoreTypeOK, CoreTypeOK', MemInv, NEW c \in Chn, convert_run(c), todo = <<>>
    PROVE  MemInv'
<1> DEFINE y == Head(pipe[c])
           x == Head(idles[c])
<1>1. /\ Ready(c) /\ Kind[c] \in {"convert", "g2d"} /\ pipe' = [pipe EXCEPT ![c] = Tail(@)]
      /\ UNCHANGED <<queued, refcnt, live, failed>>
  BY DEF convert_run, Active
<1>2. pipe \in Queues /\ Took(pipe, pipe', c) /\ idles \in Queues /\ (c \in Passthru \/ idles[c] # <<>>)
  BY <1>1, Zenon DEF CoreTypeOK, QTypeOK, Queues, Ready, convert_checkready, Took
<1>3. CASE pic[y] = 0
  <2>1. todo' = <<y>> /\ UNCHANGED <<idles, stack>>
    BY <1>3 DEF convert_run
  <2> QED
    BY <1>1, <1>2, <2>1, MemDrop, Zenon
<1>4. /\ y \in Buffer /\ 1 \in DOMAIN pipe[c] /\ y = pipe[c][1]
      /\ \A d \in Chn : d # c => pipe'[d] = pipe[d]
      /\ \A i \in DOMAIN pipe'[c] : i + 1 \in DOMAIN pipe[c] /\ pipe'[c][i] = pipe[c][i + 1]
  BY <1>2, TakeHead
<1>5. \A b \in Buffer : Num(pipe[c], b) = Num(pipe'[c], b) + Is(y, b)
  BY <1>2, TakeNum
<1>6. PipeBelow' /\ c \in Below(Owner(y))
  <2>1. PipeBelow'
    BY <1>4 DEF MemInv, PlaceInv, PipeBelow
  <2> QED
    BY <1>4, <2>1 DEF MemInv, PlaceInv, PipeBelow
<1>7. ASSUME NEW b \in Buffer
      PROVE  /\ Num(idles[c], b) \in Nat /\ Num(todo, b) \in Nat /\ Num(pipe'[c], b) \in Nat
             /\ Num(OwnSeq(stack), b) \in Nat /\ Num(InbSeq(stack), b) \in Nat
  <2>1. Num(pipe'[c], b) \in Nat
    BY <1>2, TakeHead, NumType
  <2> QED
    BY <2>1, NumTypes
<1>8. CASE pic[y] # 0 /\ c \in Passthru
  <2>1. EnterPush(c, y, y, FALSE) /\ UNCHANGED <<idles, todo>>
    BY <1>8, Zenon DEF convert_run
  <2>2. MayPush(c, y, y, FALSE)
    BY <1>4, <1>6 DEF MayPush
  <2> HIDE DEF y
  <2>3. FramesHold'
    BY <2>1, <2>2, MemEnter, Zenon
  <2>4. ASSUME NEW b \in Buffer
        PROVE  Num(idles'[c], b) + Num(pipe'[c], b) + Num(todo', b)
                  + Num(OwnSeq(stack'), b) + Num(InbSeq(stack'), b)
               = Num(idles[c], b) + Num(pipe[c], b) + Num(todo, b)
                  + Num(OwnSeq(stack), b) + Num(InbSeq(stack), b)
    <3>1. Num(OwnSeq(stack'), b) = Num(OwnSeq(stack), b)
      BY <2>1, <2>2, EnterNum, Zenon
    <3>2. Num(InbSeq(stack'), b) = Num(InbSeq(stack), b) + Is(y, b)
      BY <2>1, <2>2, EnterInb, Zenon
    <3>3. Num(pipe[c], b) = Num(pipe'[c], b) + Is(y, b) /\ Is(y, b) \in Nat
      BY <1>5, IsNum
    <3> QED
      BY <1>7, <2>1, <3>1, <3>2, <3>3
  <2>5. CountInv'
    BY <1>1, <1>4, <2>1, <2>4, MemMoved
  <2> QED
    BY <1>1, <1>6, <2>1, <2>3, <2>5, MemSame DEF MemInv, PlaceInv
<1>9. CASE pic[y] # 0 /\ c \notin Passthru
  <2>1. EnterPush(c, x, y, TRUE) /\ UNCHANGED todo /\ Took(idles, idles', c)
    BY <1>2, <1>9, Zenon DEF convert_run, Took
  <2>2. /\ x \in Buffer /\ 1 \in DOMAIN idles[c] /\ x = idles[c][1]
        /\ \A d \in Chn : d # c => idles'[d] = idles[d]
        /\ \A i \in DOMAIN idles'[c] : i + 1 \in DOMAIN idles[c] /\ idles'[c][i] = idles[c][i + 1]
    BY <1>2, <2>1, TakeHead
  <2>3. \A b \in Buffer : Num(idles[c], b) = Num(idles'[c], b) + Is(x, b)
    BY <1>2, <2>1, TakeNum
  <2>4. IdlesOwned' /\ Owner(x) = c
    <3>1. IdlesOwned'
      BY <2>2 DEF MemInv, PlaceInv, IdlesOwned
    <3> QED
      BY <2>2, <3>1 DEF MemInv, PlaceInv, IdlesOwned
  <2>5. MayPush(c, x, y, TRUE)
    BY <1>4, <1>6, <2>2, <2>4 DEF MayPush
  <2>6. \A b \in Buffer : Num(idles'[c], b) \in Nat
    BY <1>2, <2>1, TakeHead, NumType
  <2> HIDE DEF x, y
  <2>7. FramesHold'
    BY <2>1, <2>5, MemEnter, Zenon
  <2>8. ASSUME NEW b \in Buffer
        PROVE  Num(idles'[c], b) + Num(pipe'[c], b) + Num(todo', b)
                  + Num(OwnSeq(stack'), b) + Num(InbSeq(stack'), b)
               = Num(idles[c], b) + Num(pipe[c], b) + Num(todo, b)
                  + Num(OwnSeq(stack), b) + Num(InbSeq(stack), b)
    <3>1. Num(OwnSeq(stack'), b) = Num(OwnSeq(stack), b) + Is(x, b)
      BY <2>1, <2>5, EnterNum, Zenon
    <3>2. Num(InbSeq(stack'), b) = Num(InbSeq(stack), b) + Is(y, b)
      BY <2>1, <2>5, EnterInb, Zenon
    <3>3. Num(pipe[c], b) = Num(pipe'[c], b) + Is(y, b) /\ Is(y, b) \in Nat
      BY <1>5, IsNum
    <3>4. Num(idles[c], b) = Num(idles'[c], b) + Is(x, b) /\ Is(x, b) \in Nat
          /\ Num(idles'[c], b) \in Nat
      BY <2>3, <2>6, IsNum
    <3>5. Num(todo', b) = Num(todo, b)
      BY <2>1
    <3>6. /\ Num(idles'[c], b) \in Nat /\ Num(pipe'[c], b) \in Nat /\ Num(todo, b) \in Nat
          /\ Num(OwnSeq(stack), b) \in Nat /\ Num(InbSeq(stack), b) \in Nat
      BY <1>7, <3>4
    <3> QED
      BY <3>1, <3>2, <3>3, <3>4, <3>5, <3>6, SMTT(20)
  <2>9. CountInv'
    BY <1>1, <1>4, <2>2, <2>8, MemMoved
  <2> QED
    BY <1>1, <1>6, <2>4, <2>7, <2>9, MemSame DEF MemInv, PlaceInv
<1> QED
  BY <1>3, <1>8, <1>9

LEMMA MemOfile ==
    ASSUME CoreTypeOK, CoreTypeOK', MemInv, NEW c \in Chn, ofile_run(c), todo = <<>>
    PROVE  MemInv'
<1>1. UNCHANGED <<idles, queued, refcnt, live, stack, failed>>
  BY DEF ofile_run, bufVars
<1>2. CASE pipe[c] = <<>>
  <2>1. UNCHANGED <<pipe, todo>>
    BY <1>2 DEF ofile_run
  <2> QED
    BY <1>1, <2>1, MemSame DEF MemInv, PlaceInv
<1>3. CASE pipe[c] # <<>>
  <2>1. Took(pipe, pipe', c) /\ todo' = <<Head(pipe[c])>>
    BY <1>3 DEF ofile_run, Took
  <2> QED
    BY <1>1, <2>1, MemDrop
<1> QED
  BY <1>2, <1>3

(* run_v4l2 takes a filled buffer from the driver and references it. *)
LEMMA MemCapture ==
    ASSUME CoreTypeOK, CoreTypeOK', MemInv, DoneInv, NEW c \in Chn, run_v4l2(c), todo = <<>>
    PROVE  MemInv'
<1> DEFINE x == Head(queued[c])
<1>1. UNCHANGED <<idles, pipe, live, failed>>
  BY DEF run_v4l2
<1>2. CASE ~ (done[c] > 0)
  <2>1. UNCHANGED <<queued, refcnt, stack, todo>>
    BY <1>2, Zenon DEF run_v4l2
  <2> QED
    BY <1>1, <2>1, MemSame DEF MemInv, PlaceInv
<1>3. CASE done[c] > 0
  <2>1. /\ queued' = [queued EXCEPT ![c] = Tail(@)] /\ refcnt' = [refcnt EXCEPT ![x] = @ + 1]
        /\ \/ todo' = <<x>> /\ UNCHANGED stack
           \/ EnterPush(c, x, None, TRUE) /\ UNCHANGED todo
    BY <1>3, Zenon DEF run_v4l2
  <2>2. queued[c] # <<>> /\ queued \in Queues
    <3>1. queued \in Queues /\ queued[c] \in Seq(Buffer) /\ done[c] \in Nat /\ done[c] <= Len(queued[c])
      BY DEF CoreTypeOK, QTypeOK, Queues, DoneInv
    <3> QED
      BY <1>3, <3>1, EmptySeq
  <2>3. Took(queued, queued', c)
    BY <2>1, <2>2 DEF Took
  <2>4. /\ x \in Buffer /\ 1 \in DOMAIN queued[c] /\ x = queued[c][1]
        /\ \A d \in Chn : d # c => queued'[d] = queued[d]
        /\ \A i \in DOMAIN queued'[c] : i + 1 \in DOMAIN queued[c] /\ queued'[c][i] = queued[c][i + 1]
    BY <2>2, <2>3, TakeHead
  <2>5. Owner(x) = c /\ refcnt[x] = 0 /\ x \in live
    BY <2>4 DEF MemInv, PlaceInv, QueuedOwned, QueuedInv, LiveInv
  <2>6. refcnt \in [Buffer -> Nat] /\ live \subseteq Buffer
    BY DEF CoreTypeOK, BufTypeOK
  <2> HIDE DEF x
  <2>7. refcnt'[x] = 1 /\ \A b \in Buffer : b # x => refcnt'[b] = refcnt[b]
    BY <2>1, <2>4, <2>5, <2>6
  <2>8. QueuedOwned'
    BY <2>4 DEF MemInv, PlaceInv, QueuedOwned
  <2>9. \A d \in Chn : \A i \in DOMAIN queued'[d] :
            queued'[d][i] # x /\ queued'[d][i] \in Buffer
    <3> SUFFICES ASSUME NEW d \in Chn, NEW i \in DOMAIN queued'[d]
                 PROVE  queued'[d][i] # x /\ queued'[d][i] \in Buffer
      OBVIOUS
    <3>1. CASE d # c
      <4>1. Owner(queued[d][i]) = d /\ queued[d][i] \in live
        BY <2>4, <3>1 DEF MemInv, PlaceInv, QueuedOwned, LiveInv
      <4> QED
        BY <2>4, <2>5, <2>6, <3>1, <4>1
    <3>2. CASE d = c
      <4>1. i + 1 \in DOMAIN queued[c] /\ queued'[c][i] = queued[c][i + 1]
        BY <2>4, <3>2
      <4>2. \A k, l \in DOMAIN queued[c] : queued[c][k] = queued[c][l] => k = l
        BY DEF MemInv, QueuedInv
      <4>3. queued[c][i + 1] = x => i + 1 = 1
        BY <2>4, <4>1, <4>2
      <4>4. i \in Nat /\ i # 0
        <5>1. queued'[c] \in Seq(Buffer)
          BY <2>2, <2>3, TakeHead
        <5> QED
          BY <3>2, <5>1
      <4>5. queued[c][i + 1] \in live
        BY <4>1 DEF MemInv, LiveInv
      <4> QED
        BY <2>6, <3>2, <4>1, <4>3, <4>4, <4>5
    <3> QED
      BY <3>1, <3>2
  <2>10. QueuedInv'
    <3>1. \A d \in Chn : \A i \in DOMAIN queued'[d] : refcnt[queued'[d][i]] = 0
      BY <2>4 DEF MemInv, QueuedInv
    <3>2. \A d \in Chn : \A i \in DOMAIN queued'[d] : refcnt'[queued'[d][i]] = 0
      BY <2>7, <2>9, <3>1
    <3>3. ASSUME NEW i \in DOMAIN queued'[c], NEW j \in DOMAIN queued'[c], queued'[c][i] = queued'[c][j]
          PROVE  i = j
      <4>1. /\ i + 1 \in DOMAIN queued[c] /\ queued'[c][i] = queued[c][i + 1]
            /\ j + 1 \in DOMAIN queued[c] /\ queued'[c][j] = queued[c][j + 1]
        BY <2>4
      <4>2. i + 1 = j + 1
        BY <3>3, <4>1, Zenon DEF MemInv, QueuedInv
      <4>3. i \in Nat /\ j \in Nat
        <5>1. queued'[c] \in Seq(Buffer)
          BY <2>2, <2>3, TakeHead
        <5> QED
          BY <5>1
      <4> QED
        BY <4>2, <4>3
    <3>4. \A d \in Chn : \A i, j \in DOMAIN queued'[d] : queued'[d][i] = queued'[d][j] => i = j
      BY <2>4, <3>3 DEF MemInv, QueuedInv
    <3> QED
      BY <3>2, <3>4 DEF QueuedInv
  <2>11. LiveInv'
    <3>1. \A d \in Chn : \A i \in DOMAIN queued'[d] : queued'[d][i] \in live
      BY <2>4 DEF MemInv, LiveInv
    <3>2. \A b \in Buffer : refcnt'[b] > 0 => b \in live
      BY <2>5, <2>7 DEF MemInv, LiveInv
    <3> QED
      BY <1>1, <3>1, <3>2 DEF LiveInv
  <2>12. NoLeak'
    <3> SUFFICES ASSUME NEW b \in live'
                 PROVE  refcnt'[b] > 0 \/ (\E d \in Chn : b \in ToSet(queued'[d])) \/ Aborted'
      BY DEF NoLeak
    <3>1. CASE b = x
      BY <2>7, <3>1
    <3>2. CASE b # x
      <4>1. \A d \in Chn : b \in ToSet(queued[d]) => b \in ToSet(queued'[d])
        <5>1. ASSUME b \in ToSet(queued[c]) PROVE b \in ToSet(queued'[c])
          <6>1. PICK k \in DOMAIN queued[c] : queued[c][k] = b
            BY <5>1 DEF ToSet
          <6>2. queued[c] \in Seq(Buffer) /\ queued'[c] = Tail(queued[c])
            <7>1. queued'[c] = Tail(queued[c])
              BY <2>2, <2>3, TakeHead
            <7> QED
              BY <7>1, QueueOf
          <6>3. k \in Nat /\ k # 0 /\ k # 1 /\ k <= Len(queued[c]) /\ Len(queued[c]) \in Nat
            BY <2>4, <3>2, <6>1, <6>2
          <6>4. k - 1 \in DOMAIN Tail(queued[c]) /\ Tail(queued[c])[k - 1] = b
            BY <2>2, <6>1, <6>2, <6>3, HeadTailProperties
          <6> QED
            BY <6>2, <6>4 DEF ToSet
        <5> QED
          BY <2>4, <5>1
      <4>2. refcnt'[b] = refcnt[b] /\ b \in live
        BY <1>1, <2>6, <2>7, <3>2
      <4> QED
        BY <1>1, <4>1, <4>2 DEF MemInv, NoLeak, Aborted
    <3> QED
      BY <3>1, <3>2
  <2>13. FramesHold' /\ \A b \in Buffer :
            /\ Num(todo', b) + Num(OwnSeq(stack'), b) = Num(OwnSeq(stack), b) + Is(x, b)
            /\ Num(InbSeq(stack'), b) = Num(InbSeq(stack), b) /\ Num(todo, b) = 0
            /\ Num(todo', b) \in Nat /\ Num(OwnSeq(stack'), b) \in Nat
    <3>1. CASE todo' = <<x>> /\ UNCHANGED stack
      <4>1. FramesHold'
        BY <1>1, <3>1, MemSame
      <4>2. ASSUME NEW b \in Buffer
            PROVE  /\ Num(todo', b) = Is(x, b) /\ Is(x, b) \in Nat /\ Num(todo, b) = 0
                   /\ Num(OwnSeq(stack), b) \in Nat
        BY <3>1, NumOne, NumEmpty, NumTypes DEF Is
      <4> QED
        BY <3>1, <4>1, <4>2
    <3>2. CASE EnterPush(c, x, None, TRUE) /\ UNCHANGED todo
      <4>1. MayPush(c, x, None, TRUE)
        BY <2>4, <2>5 DEF MayPush
      <4>2. FramesHold'
        BY <3>2, <4>1, MemEnter, Zenon
      <4>3. ASSUME NEW b \in Buffer
            PROVE  /\ Num(OwnSeq(stack'), b) = Num(OwnSeq(stack), b) + Is(x, b)
                   /\ Num(InbSeq(stack'), b) = Num(InbSeq(stack), b)
                   /\ Num(todo', b) = 0 /\ Num(todo, b) = 0
                   /\ Num(OwnSeq(stack), b) \in Nat /\ Is(x, b) \in Nat
        <5>1. Num(OwnSeq(stack'), b) = Num(OwnSeq(stack), b) + Is(x, b)
          BY <3>2, <4>1, EnterNum, Zenon
        <5>2. Num(InbSeq(stack'), b) = Num(InbSeq(stack), b) + Is(None, b)
          BY <3>2, <4>1, EnterInb, Zenon
        <5>3. Is(None, b) = 0 /\ Is(x, b) \in Nat
          BY CoreAssumption DEF Is
        <5>4. Num(todo, b) = 0 /\ todo' = todo
          BY <3>2, NumEmpty
        <5>5. Num(InbSeq(stack), b) \in Nat /\ Num(OwnSeq(stack), b) \in Nat
          BY NumTypes
        <5> QED
          BY <5>1, <5>2, <5>3, <5>4, <5>5
      <4> QED
        BY <4>2, <4>3
    <3> QED
      BY <2>1, <3>1, <3>2, Zenon
  <2>14. CountInv'
    <3> SUFFICES ASSUME NEW b \in Buffer PROVE refcnt'[b] = Refs(b)'
      BY DEF CountInv
    <3>1. /\ Refs(b)' + Num(idles[c], b) + Num(pipe[c], b) + Num(todo, b)
                      + Num(OwnSeq(stack), b) + Num(InbSeq(stack), b)
             = Refs(b) + Num(idles[c], b) + Num(pipe[c], b) + Num(todo', b)
                       + Num(OwnSeq(stack'), b) + Num(InbSeq(stack'), b)
          /\ Refs(b) \in Nat /\ Refs(b)' \in Nat
          /\ Num(idles[c], b) \in Nat /\ Num(pipe[c], b) \in Nat
          /\ Num(OwnSeq(stack), b) \in Nat /\ Num(InbSeq(stack), b) \in Nat
      BY <1>1, RefsChange
    <3>2. /\ Num(todo', b) + Num(OwnSeq(stack'), b) = Num(OwnSeq(stack), b) + Is(x, b)
          /\ Num(InbSeq(stack'), b) = Num(InbSeq(stack), b) /\ Num(todo, b) = 0
          /\ Num(todo', b) \in Nat /\ Num(OwnSeq(stack'), b) \in Nat /\ Is(x, b) \in Nat
      BY <2>13, IsNum
    <3>3. Refs(b)' = Refs(b) + Is(x, b)
      <4> DEFINE m == Num(idles[c], b) + Num(pipe[c], b)
                 o == Num(OwnSeq(stack), b)
                 p == Num(OwnSeq(stack'), b)
                 t == Num(todo', b)
                 n == Num(InbSeq(stack), b)
      <4>1. Refs(b)' + m + o + n = Refs(b) + m + t + p + n
        BY <3>1, <3>2
      <4>2. m \in Nat /\ o \in Nat /\ p \in Nat /\ t \in Nat /\ n \in Nat /\ t + p = o + Is(x, b)
        <5>1. m \in Nat
          BY <3>1
        <5>2. o \in Nat /\ p \in Nat /\ t \in Nat /\ n \in Nat
          BY <3>1, <3>2
        <5>3. t + p = o + Is(x, b)
          BY <3>2
        <5> HIDE DEF m, o, p, t, n
        <5> QED
          BY <5>1, <5>2, <5>3
      <4>3. Refs(b) \in Nat /\ Refs(b)' \in Nat /\ Is(x, b) \in Nat
        BY <3>1, <3>2
      <4> HIDE DEF m, o, p, t, n
      <4> QED
        BY <4>1, <4>2, <4>3, SMTT(20)
    <3>4. refcnt[b] = Refs(b)
      BY DEF MemInv, CountInv
    <3> QED
      BY <2>5, <2>7, <3>1, <3>3, <3>4, SMTT(20) DEF Is
  <2> QED
    BY <1>1, <2>8, <2>10, <2>11, <2>12, <2>13, <2>14, MemSame DEF MemInv, PlaceInv
<1> QED
  BY <1>2, <1>3

memVars == <<idles, pipe, queued, refcnt, live, todo, stack, failed>>

LEMMA MemUnchanged ==
    ASSUME MemInv, UNCHANGED memVars
    PROVE  MemInv'
<1>1. UNCHANGED <<idles, pipe, queued, refcnt, live, todo, stack, failed>>
  BY DEF memVars
<1> QED
  BY <1>1, MemSame DEF MemInv, PlaceInv

(* The steps that move no buffer *)
LEMMA QuietSteps ==
    /\ stop_done => UNCHANGED memVars
    /\ pitcher_start_end \/ stop_chn_end \/ run_chn => UNCHANGED memVars
    /\ pitcher_loop_run \/ timer_func \/ main_exit => UNCHANGED memVars
    /\ DriverNext \/ sig_handler \/ Done \/ UNCHANGED vars => UNCHANGED memVars
    /\ \A c \in Chn :
         /\ process_chn_stopped(c) \/ process_chn_active(c) => UNCHANGED memVars
         /\ check_ctrl_ready(c) \/ check_v4l2_ready(c) => UNCHANGED memVars
         /\ \A why \in {"timeout", "event"} : poll_func(c, why) => UNCHANGED memVars
<1> USE DEF memVars, coreVars, qVars, bufVars, ctlVars, chnVars
<1>1. stop_done => UNCHANGED memVars
  BY DEF stop_done
<1>2. pitcher_start_end \/ stop_chn_end \/ run_chn => UNCHANGED memVars
  BY DEF pitcher_start_end, stop_chn_end, run_chn
<1>3. pitcher_loop_run \/ timer_func \/ main_exit => UNCHANGED memVars
  BY DEF pitcher_loop_run, timer_func, main_exit
<1>4. DriverNext \/ sig_handler \/ Done \/ UNCHANGED vars => UNCHANGED memVars
  <2>1. DriverNext => UNCHANGED memVars
    BY DEF DriverNext, DriverDecode, DriverChange, DriverEos, Fill
  <2>2. sig_handler => UNCHANGED memVars
    BY DEF sig_handler
  <2>3. Done \/ UNCHANGED vars => UNCHANGED memVars
    BY DEF Done, vars
  <2> QED
    BY <2>1, <2>2, <2>3
<1>5. ASSUME NEW c \in Chn
      PROVE  process_chn_stopped(c) \/ process_chn_active(c) => UNCHANGED memVars
  BY DEF process_chn_stopped, process_chn_active
<1>6. ASSUME NEW c \in Chn
      PROVE  check_ctrl_ready(c) \/ check_v4l2_ready(c) => UNCHANGED memVars
  BY DEF check_ctrl_ready, check_v4l2_ready
<1>7. ASSUME NEW c \in Chn, NEW why \in {"timeout", "event"}
      PROVE  poll_func(c, why) => UNCHANGED memVars
  BY DEF poll_func
<1> QED
  BY <1>1, <1>2, <1>3, <1>4, <1>5, <1>6, <1>7

(* Every step keeps the memory part of the invariant. *)
LEMMA MemStep ==
    ASSUME PipelineInv, PipelineInv', StoppingInv, MemInv, [Next]_vars
    PROVE  MemInv'
<1>1. CoreTypeOK /\ CoreTypeOK' /\ DoneInv /\ MainTypeOK /\ CtlTypeOK
  BY DEF PipelineInv, TypeOK, CoreTypeOK
<1>2. \A c \in Chn : call = c => todo = <<>>
  BY CoreAssumption DEF StoppingInv, PutsFirst
<1>n. UNCHANGED stack => FramesHold' /\ OwnSeq(stack') = OwnSeq(stack) /\ InbSeq(stack') = InbSeq(stack)
  BY DEF MemInv, PlaceInv, FramesHold
<1>3. ASSUME NEW c \in Chn, process_chn_stopping(c) PROVE MemInv'
  <2>1. CASE get_alive_sink_chn(c) # {}
    <3>1. UNCHANGED memVars
      BY <1>3, <2>1 DEF process_chn_stopping, memVars, qVars, bufVars
    <3> QED
      BY <3>1, MemUnchanged
  <2>2. CASE ~ (get_alive_sink_chn(c) # {})
    <3>1. unit_stop(c) /\ todo = <<>>
      BY <1>2, <1>3, <2>2 DEF process_chn_stopping
    <3> QED
      BY <1>1, <3>1, MemStop
  <2> QED
    BY <2>1, <2>2
<1>4. CASE put_shared
  BY <1>1, <1>4, MemPut
<1>5. CASE release_buffer
  <2>1. todo # <<>>
    BY <1>5 DEF release_buffer
  <2>2. Head(todo) \in Buffer
    BY <1>1, <2>1, TodoHead
  <2>3. Owner(Head(todo)) \in Chn
    BY <2>2, OwnerOf
  <2>4. recycle(Head(todo)) = "drop" => Aborted
    BY <2>3 DEF StoppingInv, EnabledInv, AbortInv, recycle, recycle_v4l2_buffer, recycle_buffer, put_unit_buffer_idle
  <2> QED
    BY <1>1, <1>5, <2>4, MemRelease
<1>6. CASE start_sink_chn
  <2> DEFINE d == Outs[top.chn][top.pos]
  <2>1. stack # <<>> /\ stack' = Advanced /\ UNCHANGED <<pipe, todo>> /\ top.pos <= Len(Outs[top.chn])
    BY <1>6 DEF start_sink_chn, Running
  <2>2. FramesHold' /\ OwnSeq(stack') = OwnSeq(stack) /\ InbSeq(stack') = InbSeq(stack)
    BY <1>1, <2>1, MemAdvanced
  <2>3. d \in Chn
    <3>1. top \in Frame
      BY <1>1, <2>1, StackShape
    <3>2. top.chn \in Chn /\ top.pos \in DOMAIN Outs[top.chn]
      BY <2>1, <3>1, CoreAssumption DEF Frame
    <3> QED
      BY <3>2, SinkOf
  <2>4. CASE start_chn(d)
    <3> HIDE DEF d
    <3> QED
      BY <1>1, <2>1, <2>2, <2>3, <2>4, MemStart
  <2>5. CASE UNCHANGED <<chnVars, idles, queued, bufVars, failed>>
    <3>1. UNCHANGED <<idles, queued, refcnt, live, failed, pipe, todo>>
      BY <2>1, <2>5 DEF bufVars
    <3>2. CountInv'
      <4> SUFFICES ASSUME NEW b \in Buffer PROVE refcnt'[b] = Refs(b)'
        BY DEF CountInv
      <4>1. Refs(b)' = Refs(b)
        BY <2>2, <3>1 DEF Refs
      <4> QED
        BY <3>1, <4>1 DEF MemInv, CountInv
    <3> QED
      BY <2>2, <3>1, <3>2, MemSame DEF MemInv, PlaceInv
  <2> QED
    BY <1>6, <2>4, <2>5 DEF start_sink_chn
<1>7. CASE pipe_push_back
  BY <1>1, <1>7, MemPush
<1>8. CASE push_return
  BY <1>1, <1>8, MemReturn
<1>9. CASE CoreStep
  BY <1>3, <1>4, <1>5, <1>6, <1>7, <1>8, <1>9, QuietSteps, MemUnchanged DEF CoreStep, CoreNext
<1>10. CASE pitcher_start
  <2>1. UNCHANGED <<pipe, todo, stack>> /\ Cur \in Chn
    BY <1>1, <1>10, CurChn DEF pitcher_start, ctlVars
  <2>2. CASE start_chn(Cur)
    BY <1>1, <1>n, <2>1, <2>2, MemStart
  <2>3. CASE UNCHANGED <<chnVars, idles, queued, bufVars, failed>>
    BY <2>1, <2>3, MemUnchanged DEF memVars, bufVars
  <2> QED
    BY <1>10, <2>2, <2>3 DEF pitcher_start
<1>11. CASE stop_chn
  <2>1. Cur \in Chn /\ todo = <<>>
    BY <1>1, <1>11, CurChn DEF stop_chn, Idle
  <2>2. CASE UNCHANGED coreVars
    BY <2>2, MemUnchanged DEF memVars, coreVars, qVars, bufVars, ctlVars
  <2>3. CASE unit_stop(Cur)
    BY <1>1, <2>1, <2>3, MemStop
  <2> QED
    BY <1>11, <2>2, <2>3 DEF stop_chn
<1>12. ASSUME NEW c \in Chn, is_decoder_output_finish(c) PROVE MemInv'
  <2>1. Capture \in Chn /\ UNCHANGED <<pipe, todo, stack>>
    BY <1>12, CoreAssumption, PipelineAssumption DEF is_decoder_output_finish, Active, ctlVars
  <2>2. CASE start_chn(Capture)
    BY <1>1, <1>n, <2>1, <2>2, MemStart
  <2>3. CASE UNCHANGED <<idles, queued, bufVars, failed>>
    BY <2>1, <2>3, MemUnchanged DEF memVars, bufVars
  <2> QED
    BY <1>12, <2>2, <2>3 DEF is_decoder_output_finish, handle_decoder_resolution_change
<1>13. ASSUME NEW c \in Chn, teardown(c) PROVE MemInv'
  BY <1>1, <1>13, MemTeardown
<1>14. ASSUME NEW c \in Chn, ifile_run(c) PROVE MemInv'
  BY <1>1, <1>14, MemIfile
<1>15. ASSUME NEW c \in Chn, convert_run(c) PROVE MemInv'
  <2>1. todo = <<>>
    BY <1>2, <1>15 DEF convert_run, Active
  <2> QED
    BY <1>1, <1>15, <2>1, MemConvert
<1>16. ASSUME NEW c \in Chn, ofile_run(c) PROVE MemInv'
  <2>1. todo = <<>>
    BY <1>2, <1>16 DEF ofile_run, Active
  <2> QED
    BY <1>1, <1>16, <2>1, MemOfile
<1>17. ASSUME NEW c \in Chn, run_v4l2(c) PROVE MemInv'
  <2>1. todo = <<>>
    BY <1>2, <1>17 DEF run_v4l2, Active
  <2> QED
    BY <1>1, <1>17, <2>1, MemCapture
<1>18. CASE MainNext
  BY <1>9, <1>10, <1>11, <1>12, <1>13, <1>14, <1>15, <1>16, <1>17, <1>18,
     QuietSteps, MemUnchanged DEF MainNext
<1> QED
  BY <1>18, QuietSteps, MemUnchanged DEF Next

-----------------------------------------------------------------------------
(* The control part of the invariant: which channels run and which stop. *)

(* What starting a channel does to the units and to the allocated buffers *)
StartOk(c) ==
    /\ failed => failed'
    /\ failed' => failed \/ c \in MayFail
    /\ \A d \in Chn : enable[d] => enable'[d]
    /\ \A d \in Chn : state'[d] = "ACTIVE" => state[d] = "ACTIVE" \/ enable'[d]
    /\ \A d \in Chn : state'[d] = "STOPPED" => state[d] = "STOPPED"
    /\ \A d \in Chn : state'[d] = "STOPPED" /\ ~ failed' => live' \cap ToSet(Bufs[d]) \subseteq live

LEMMA StartEffect ==
    ASSUME CoreTypeOK, NEW c \in Chn, start_chn(c)
    PROVE  StartOk(c)
<1>t. state \in [Chn -> State] /\ enable \in [Chn -> BOOLEAN]
  BY DEF CoreTypeOK, ChnTypeOK
<1>1. CASE UNCHANGED <<chnVars, idles, queued, bufVars, failed>>
  BY <1>1 DEF chnVars, bufVars, StartOk
<1>2. ASSUME NEW got \in alloc_buffer(c), unit_start(c, got), UNCHANGED failed
      PROVE  StartOk(c)
  <2>1. /\ enable' = [enable EXCEPT ![c] = TRUE] /\ state' = [state EXCEPT ![c] = "ACTIVE"]
        /\ live' = live \cup ToSet(got)
    BY <1>2 DEF unit_start
  <2>2. \A b \in ToSet(got) : b \in Buffer /\ Owner(b) = c
    BY AllocFresh DEF ToSet
  <2>3. ASSUME NEW d \in Chn, state'[d] = "STOPPED", NEW b \in live', b \in ToSet(Bufs[d])
        PROVE  b \in live
    <3>1. d # c
      BY <1>t, <2>1, <2>3
    <3>2. b \notin ToSet(got)
      BY <2>2, <2>3, <3>1, OwnerOf
    <3> QED
      BY <2>1, <3>2
  <2> QED
    BY <1>2, <1>t, <2>1, <2>3 DEF StartOk
<1>3. CASE failed' = TRUE /\ c \in MayFail /\ UNCHANGED chnVars
  BY <1>3 DEF chnVars, StartOk
<1>4. CASE failed' = TRUE /\ c \in MayFail /\ UNCHANGED <<chnVars, idles, queued, bufVars>>
  BY <1>3, <1>4
<1>5. ASSUME NEW got \in alloc_buffer(c), streamon_fail(c, got) PROVE UNCHANGED chnVars
  BY <1>5 DEF streamon_fail, chnVars
<1> QED
  BY <1>1, <1>2, <1>3, <1>4, <1>5, Zenon DEF start_chn

(* What every step does but the end of a stop and a push: no channel stops, *)
(* no pipe is filled, and a stopped channel gets no buffers.                *)
Calm ==
    /\ failed => failed'
    /\ \A c \in Chn : state'[c] = "STOPPED" => state[c] = "STOPPED"
    /\ \A c \in Chn : pipe'[c] # <<>> => pipe[c] # <<>>
    /\ \A c \in Chn : state'[c] = "STOPPED" /\ ~ failed' => live' \cap ToSet(Bufs[c]) \subseteq live

LEMMA CalmSame ==
    ASSUME UNCHANGED failed, live' \subseteq live,
           \A c \in Chn : state'[c] = "STOPPED" => state[c] = "STOPPED",
           \A c \in Chn : pipe'[c] # <<>> => pipe[c] # <<>>
    PROVE  Calm
BY DEF Calm

LEMMA CalmStep ==
    ASSUME PipelineInv, [Next]_vars, ~ stop_done, ~ pipe_push_back
    PROVE  Calm
<1>1. CoreTypeOK /\ MainTypeOK /\ CtlTypeOK
  BY DEF PipelineInv, TypeOK, CoreTypeOK
<1>2. state \in [Chn -> State] /\ pipe \in Queues
  BY <1>1 DEF CoreTypeOK, ChnTypeOK, QTypeOK, Queues
<1>3. CASE UNCHANGED <<state, pipe, live, failed>>
  BY <1>3, CalmSame
<1>4. ASSUME NEW c \in Chn, Took(pipe, pipe', c), UNCHANGED <<live, failed>>,
             \A d \in Chn : state'[d] = "STOPPED" => state[d] = "STOPPED"
      PROVE  Calm
  <2>1. pipe[c] # <<>>
    BY <1>4 DEF Took
  <2>2. \A d \in Chn : d # c => pipe'[d] = pipe[d]
    BY <1>2, <1>4, TakeHead
  <2> QED
    BY <1>4, <2>1, <2>2, CalmSame
<1>5. ASSUME NEW c \in Chn, unit_stop(c) PROVE Calm
  BY <1>2, <1>5, CalmSame DEF unit_stop, stop_v4l2, Queues
<1>6. ASSUME NEW c \in Chn, start_chn(c), UNCHANGED pipe PROVE Calm
  BY <1>1, <1>6, StartEffect DEF Calm, StartOk
<1>7. ASSUME NEW c \in Chn, process_chn_stopping(c) PROVE Calm
  BY <1>3, <1>5, <1>7 DEF process_chn_stopping, chnVars, qVars, bufVars
<1>8. CASE put_shared \/ push_return
  BY <1>3, <1>8 DEF put_shared, push_return, chnVars, qVars, bufVars
<1>9. CASE release_buffer
  <2>1. UNCHANGED <<state, pipe, failed>> /\ live' \subseteq live
    BY <1>9 DEF release_buffer, chnVars
  <2> QED
    BY <2>1, CalmSame
<1>10. CASE start_sink_chn
  <2>1. Outs[top.chn][top.pos] \in Chn
    <3>1. top \in Frame
      BY <1>1, <1>10, StackShape DEF start_sink_chn, Running
    <3>2. top.chn \in Chn /\ top.pos \in DOMAIN Outs[top.chn]
      BY <1>10, <3>1, CoreAssumption DEF Frame, start_sink_chn
    <3> QED
      BY <3>2, SinkOf
  <2> QED
    BY <1>3, <1>6, <1>10, <2>1 DEF start_sink_chn, chnVars, bufVars
<1>11. CASE \E c \in Chn : process_chn_stopped(c)
  BY <1>3, <1>11 DEF process_chn_stopped, chnVars, qVars, bufVars
<1>12. CASE CoreStep
  BY <1>7, <1>8, <1>9, <1>10, <1>11, <1>12 DEF CoreStep, CoreNext
<1>13. CASE pitcher_start
  <2>1. Cur \in Chn
    BY <1>1, <1>13, CurChn DEF pitcher_start
  <2> QED
    BY <1>3, <1>6, <1>13, <2>1 DEF pitcher_start, chnVars, bufVars
<1>14. CASE stop_chn
  <2>1. Cur \in Chn
    BY <1>1, <1>14, CurChn DEF stop_chn
  <2> QED
    BY <1>3, <1>5, <1>14, <2>1 DEF stop_chn, coreVars, chnVars, qVars, bufVars
<1>15. CASE pitcher_start_end \/ stop_chn_end \/ run_chn \/ pitcher_loop_run \/ timer_func \/ main_exit
  BY <1>3, <1>15 DEF pitcher_start_end, stop_chn_end, run_chn, pitcher_loop_run, timer_func,
     main_exit, coreVars, chnVars, qVars, bufVars
<1>16. CASE DriverNext \/ sig_handler \/ Done \/ UNCHANGED vars
  BY <1>3, <1>16, Zenon DEF DriverNext, DriverDecode, DriverChange, DriverEos, sig_handler, Done, vars,
     coreVars, chnVars, qVars, bufVars
<1>17. ASSUME NEW c \in Chn, teardown(c) PROVE Calm
  BY <1>2, <1>17, CalmSame DEF teardown, chnVars, bufVars, Queues
<1>18. ASSUME NEW c \in Chn, process_chn_active(c) \/ check_ctrl_ready(c) \/ check_v4l2_ready(c) PROVE Calm
  <2>1. UNCHANGED <<pipe, live, failed>>
    BY <1>18 DEF process_chn_active, check_ctrl_ready, check_v4l2_ready, qVars, bufVars
  <2>2. \A d \in Chn : state'[d] = "STOPPED" => state[d] = "STOPPED"
    BY <1>2, <1>18 DEF process_chn_active, check_ctrl_ready, check_v4l2_ready
  <2> QED
    BY <2>1, <2>2, CalmSame
<1>19. ASSUME NEW c \in Chn, NEW why \in {"timeout", "event"}, poll_func(c, why) PROVE Calm
  BY <1>3, <1>19 DEF poll_func, chnVars, qVars, bufVars
<1>20. ASSUME NEW c \in Chn, ifile_run(c) \/ run_v4l2(c) PROVE Calm
  BY <1>3, <1>20, Zenon DEF ifile_run, run_v4l2
<1>21. ASSUME NEW c \in Chn, convert_run(c) PROVE Calm
  <2>1. UNCHANGED <<live, failed, state>> /\ Took(pipe, pipe', c)
    BY <1>21, Zenon DEF convert_run, Ready, Active, convert_checkready, Took
  <2> QED
    BY <1>4, <2>1
<1>22. ASSUME NEW c \in Chn, ofile_run(c) PROVE Calm
  <2>1. UNCHANGED <<live, failed>> /\ (pipe' = pipe \/ Took(pipe, pipe', c))
    BY <1>22 DEF ofile_run, bufVars, Took
  <2>2. \A d \in Chn : state'[d] = "STOPPED" => state[d] = "STOPPED"
    BY <1>2, <1>22 DEF ofile_run
  <2>3. CASE pipe' = pipe
    BY <2>1, <2>2, <2>3, CalmSame
  <2> QED
    BY <1>4, <2>1, <2>2, <2>3
<1>23. ASSUME NEW c \in Chn, is_decoder_output_finish(c) PROVE Calm
  <2>1. Capture \in Chn /\ UNCHANGED pipe
    BY <1>23, CoreAssumption, PipelineAssumption DEF is_decoder_output_finish, Active
  <2> QED
    BY <1>3, <1>6, <1>23, <2>1 DEF is_decoder_output_finish, handle_decoder_resolution_change, bufVars
<1>24. CASE MainNext
  BY <1>12, <1>13, <1>14, <1>15, <1>17, <1>18, <1>19, <1>20, <1>21, <1>22, <1>23, <1>24 DEF MainNext
<1> QED
  BY <1>16, <1>24 DEF Next

(* While the loop runs, everything below a channel that stops has stopped. *)
LEMMA BelowStopped ==
    ASSUME PipelineInv, phase = "run", NEW c \in Chn, closing = c, NEW d \in Below(c)
    PROVE  state[d] = "STOPPED"
<1> DEFINE D == {e \in Chn : state[e] = "STOPPED"}
<1>1. closing # None
  BY CoreAssumption
<1>2. SinksIn(c, D)
  BY <1>1 DEF SinksIn, PipelineInv, ClosingInv
<1>3. \A e \in D : SinksIn(e, D)
  BY DEF SinksIn, PipelineInv, StopOrder
<1>4. D \in SUBSET Chn
  OBVIOUS
<1> HIDE DEF D
<1>5. d \in D
  BY <1>2, <1>3, <1>4 DEF Below
<1> QED
  BY <1>5 DEF D

(* When a channel has stopped, all its buffers are freed. *)
LEMMA ReclaimedStep ==
    ASSUME PipelineInv, MemInv, StoppingInv, PipeServed, ReclaimedAtStop, [Next]_vars
    PROVE  ReclaimedAtStop'
<1>1. CASE ~ stop_done /\ ~ pipe_push_back
  <2>1. Calm
    BY <1>1, CalmStep
  <2> QED
    BY <2>1 DEF Calm, ReclaimedAtStop
<1>2. CASE pipe_push_back
  BY <1>2 DEF pipe_push_back, chnVars, ReclaimedAtStop
<1>3. CASE stop_done
  <2> SUFFICES ASSUME NEW c \in Chn, state'[c] = "STOPPED", ~ failed',
                      NEW b \in live', b \in ToSet(Bufs[c])
               PROVE  FALSE
    BY DEF ReclaimedAtStop
  <2>1. /\ closing # None /\ todo = <<>> /\ UNCHANGED <<live, failed>>
        /\ state' = [state EXCEPT ![closing] = "STOPPED"]
    BY <1>3 DEF stop_done, bufVars
  <2>2. CoreTypeOK /\ state \in [Chn -> State] /\ closing \in Chn
    BY <2>1 DEF PipelineInv, TypeOK, CoreTypeOK, ChnTypeOK, CtlTypeOK
  <2>3. CASE c # closing
    <3>1. state[c] = "STOPPED"
      BY <2>1, <2>2, <2>3
    <3> QED
      BY <2>1, <3>1 DEF ReclaimedAtStop
  <2>4. CASE c = closing
    <3>1. b \in Buffer /\ Owner(b) = c
      BY <2>1, <2>2, OwnerOf DEF CoreTypeOK, BufTypeOK
    <3>2. /\ phase = "run" /\ pipe[c] = <<>> /\ idles[c] = <<>> /\ queued[c] = <<>> /\ ~ Aborted
      BY <2>1, <2>4 DEF StoppingInv, StopEmpties, AbortInv, Aborted
    <3>3. state[c] = "STOPPING"
      BY <2>1, <2>4, <3>2 DEF PipelineInv, ClosingInv
    <3>4. \A d \in Below(c) : state[d] = "STOPPED"
      BY <2>4, <3>2, BelowStopped
    <3>5. \A i \in DOMAIN stack : state[stack[i].chn] = "ACTIVE"
      BY <3>2 DEF PipelineInv, StopOrder
    <3>6. ~ \E d \in Chn : b \in ToSet(queued[d])
      <4> SUFFICES ASSUME NEW d \in Chn, NEW i \in DOMAIN queued[d], queued[d][i] = b PROVE FALSE
        BY DEF ToSet
      <4>1. d = c
        BY <3>1 DEF MemInv, PlaceInv, QueuedOwned
      <4> QED
        BY <3>2, <4>1
    <3>7. ~ \E d \in Chn : \E i \in DOMAIN idles[d] : idles[d][i] = b
      <4> SUFFICES ASSUME NEW d \in Chn, NEW i \in DOMAIN idles[d], idles[d][i] = b PROVE FALSE
        OBVIOUS
      <4>1. d = c
        BY <3>1 DEF MemInv, PlaceInv, IdlesOwned
      <4> QED
        BY <3>2, <4>1
    <3>8. ~ \E d \in Chn : \E i \in DOMAIN pipe[d] : pipe[d][i] = b
      <4> SUFFICES ASSUME NEW d \in Chn, NEW i \in DOMAIN pipe[d], pipe[d][i] = b PROVE FALSE
        OBVIOUS
      <4>1. d \in Below(c)
        BY <3>1 DEF MemInv, PlaceInv, PipeBelow
      <4>2. pipe[d] # <<>>
        OBVIOUS
      <4> QED
        BY <2>1, <3>4, <4>1, <4>2 DEF PipeServed
    <3>9. ~ \E i \in DOMAIN stack : stack[i].inb = b
      <4> SUFFICES ASSUME NEW i \in DOMAIN stack, stack[i].inb = b PROVE FALSE
        OBVIOUS
      <4>1. stack[i].chn \in Below(c)
        BY <3>1, CoreAssumption, Zenon DEF MemInv, PlaceInv, FramesHold, Holding
      <4> QED
        BY <3>4, <3>5, <4>1
    <3>10. ~ \E i \in DOMAIN stack : stack[i].own /\ stack[i].buf = b
      <4> SUFFICES ASSUME NEW i \in DOMAIN stack, stack[i].own, stack[i].buf = b PROVE FALSE
        OBVIOUS
      <4>1. stack[i].chn = c
        BY <3>1 DEF MemInv, PlaceInv, FramesHold, Holding
      <4> QED
        BY <3>3, <3>5, <4>1
    <3>11. ~ \E i \in DOMAIN todo : todo[i] = b
      BY <2>1
    <3>12. ~ (Refs(b) > 0)
      BY <2>2, <3>1, <3>7, <3>8, <3>9, <3>10, <3>11, RefsShown
    <3>13. ~ (refcnt[b] > 0)
      BY <3>1, <3>12 DEF MemInv, CountInv
    <3> QED
      BY <2>1, <3>2, <3>6, <3>13 DEF MemInv, NoLeak
  <2> QED
    BY <2>3, <2>4
<1> QED
  BY <1>1, <1>2, <1>3

(* A pipe is filled for a sink that runs, and emptied before it stops. *)
LEMMA PipeServedStep ==
    ASSUME PipelineInv, StoppingInv, ServedInv, PipeServed, [Next]_vars
    PROVE  PipeServed'
<1>t. CoreTypeOK /\ CtlTypeOK /\ state \in [Chn -> State] /\ pipe \in Queues
  BY DEF PipelineInv, TypeOK, CoreTypeOK, ChnTypeOK, QTypeOK, Queues
<1>1. CASE ~ stop_done /\ ~ pipe_push_back
  <2>1. Calm
    BY <1>1, CalmStep
  <2> QED
    BY <2>1 DEF Calm, PipeServed
<1>2. CASE pipe_push_back
  <2> DEFINE n == Len(Outs[top.chn])
             k == top.pos - n
             d == Outs[top.chn][k]
  <2>1. /\ stack # <<>> /\ top.pos > n /\ top.pos <= 2 * n
        /\ pipe' = [pipe EXCEPT ![d] = Append(@, top.buf)] /\ UNCHANGED <<state, failed>>
    BY <1>2 DEF pipe_push_back, Running, chnVars
  <2>2. Len(stack) \in DOMAIN stack /\ top = stack[Len(stack)] /\ top \in Frame
    BY <1>t, <2>1, StackShape
  <2>3. n \in Nat /\ top.pos \in Nat /\ k \in 1 .. n /\ k < top.pos /\ top.pos <= k + n
    <3>1. n \in Nat /\ top.pos \in Nat
      BY <2>2, CoreAssumption DEF Frame
    <3> HIDE DEF n
    <3> QED
      BY <2>1, <3>1
  <2>4. SinksUp(top)
    BY <2>2 DEF ServedInv
  <2>5. ~ failed => state[d] # "STOPPED"
    BY <2>3, <2>4, Zenon DEF SinksUp
  <2> HIDE DEF d
  <2>6. \A c \in Chn : c # d => pipe'[c] = pipe[c]
    BY <1>t, <2>1 DEF Queues
  <2> QED
    BY <2>1, <2>5, <2>6 DEF PipeServed
<1>3. CASE stop_done
  <2>1. /\ closing # None /\ UNCHANGED <<pipe, failed>>
        /\ state' = [state EXCEPT ![closing] = "STOPPED"]
    BY <1>3 DEF stop_done, qVars
  <2>2. pipe[closing] = <<>>
    BY <2>1 DEF StoppingInv, StopEmpties
  <2> QED
    BY <1>t, <2>1, <2>2 DEF PipeServed
<1> QED
  BY <1>1, <1>2, <1>3

(* Nothing new runs above the suspended pushes. *)
Returning ==
    \A d \in Chn : stack # <<>> /\ (call' = d \/ closing' = d) => call = d \/ closing = d

(* In a calm step the sinks of a suspended push stay up. *)
LEMMA SinksKept ==
    ASSUME Calm, NEW f \in Frame, SinksUp(f)
    PROVE  SinksUp(f)'
<1>1. f.chn \in Chn /\ Len(Outs[f.chn]) \in Nat
  BY CoreAssumption DEF Frame
<1>2. \A k \in 1 .. Len(Outs[f.chn]) : Outs[f.chn][k] \in Chn
  BY <1>1, CoreAssumption
<1> QED
  BY <1>2 DEF SinksUp, Calm

LEMMA ServedCalm ==
    ASSUME CtlTypeOK, CtlTypeOK', Calm, ServedInv,
           \A i \in DOMAIN stack' : stack'[i].pos = 1 \/ \E j \in DOMAIN stack : stack'[i] = stack[j],
           (stack' = stack /\ Returning) \/ (call' = None /\ closing' = None)
    PROVE  ServedInv'
<1>1. /\ \A i \in DOMAIN stack : stack[i] \in Frame
      /\ \A i \in DOMAIN stack' : stack'[i] \in Frame
  BY DEF CtlTypeOK
<1>2. ASSUME NEW i \in DOMAIN stack' PROVE SinksUp(stack[i])'
  <2>1. CASE stack'[i].pos = 1
    <3>1. \A k \in Nat \ {0} : ~ (k < 1)
      OBVIOUS
    <3> QED
      BY <2>1, <3>1 DEF SinksUp
  <2>2. ASSUME NEW j \in DOMAIN stack, stack'[i] = stack[j] PROVE SinksUp(stack[i])'
    <3>1. SinksUp(stack[j]) /\ stack[j] \in Frame
      BY <1>1 DEF ServedInv
    <3>2. PICK f \in Frame : f = stack[j]
      BY <3>1
    <3>3. SinksUp(f)'
      BY <3>1, <3>2, SinksKept
    <3> QED
      BY <2>2, <3>2, <3>3, Zenon DEF SinksUp
  <2> QED
    BY <2>1, <2>2
<1>3. ServedLast'
  <2>1. CASE call' = None /\ closing' = None
    BY <2>1, CoreAssumption DEF ServedLast
  <2>2. CASE stack' = stack /\ Returning
    BY <2>2 DEF ServedInv, ServedLast, Returning, top
  <2> QED
    BY <2>1, <2>2
<1> QED
  BY <1>2, <1>3 DEF ServedInv

LEMMA ServedSame ==
    ASSUME CtlTypeOK, CtlTypeOK', Calm, ServedInv, stack' = stack, Returning
    PROVE  ServedInv'
<1>1. \A i \in DOMAIN stack' : stack'[i].pos = 1 \/ \E j \in DOMAIN stack : stack'[i] = stack[j]
  OBVIOUS
<1> QED
  BY <1>1, ServedCalm

LEMMA ServedEnter ==
    ASSUME CtlTypeOK, CtlTypeOK', Calm, ServedInv, call' = None, closing' = None,
           NEW c, NEW x, NEW y, NEW w, EnterPush(c, x, y, w)
    PROVE  ServedInv'
<1> DEFINE f == [chn |-> c, buf |-> x, inb |-> y, own |-> w, pos |-> 1]
<1>1. f.pos = 1
  OBVIOUS
<1>2. stack \in Seq(Frame \cup {f}) /\ stack' = Append(stack, f)
  BY DEF CtlTypeOK, EnterPush
<1> HIDE DEF f
<1>3. \A i \in DOMAIN Append(stack, f) :
         Append(stack, f)[i] = f \/ (i \in DOMAIN stack /\ Append(stack, f)[i] = stack[i])
  <2>1. f \in Frame \cup {f}
    OBVIOUS
  <2> QED
    BY <1>2, <2>1, AppendProperties
<1>4. \A i \in DOMAIN stack' : stack'[i].pos = 1 \/ \E j \in DOMAIN stack : stack'[i] = stack[j]
  BY <1>1, <1>2, <1>3
<1> QED
  BY <1>4, ServedCalm

(* The frame that moves on *)
LEMMA AdvancedTop ==
    ASSUME CtlTypeOK, stack # <<>>
    PROVE  /\ Len(stack) \in DOMAIN stack /\ top = stack[Len(stack)] /\ top \in Frame
           /\ DOMAIN Advanced = DOMAIN stack
           /\ Advanced[Len(stack)] \in Frame /\ Advanced[Len(stack)].chn = top.chn
           /\ Advanced[Len(stack)].pos = top.pos + 1
           /\ \A i \in DOMAIN stack : i # Len(stack) => Advanced[i] = stack[i]
           /\ Len(Advanced) = Len(stack)
<1>1. /\ Len(stack) \in DOMAIN stack /\ top = stack[Len(stack)] /\ top \in Frame
      /\ Advanced \in Seq(Frame) /\ DOMAIN Advanced = DOMAIN stack
      /\ \A i \in DOMAIN stack : Advanced[i].chn = stack[i].chn
  BY StackShape
<1>2. stack \in Seq(Frame) /\ DOMAIN stack = 1 .. Len(stack) /\ Len(stack) \in Nat
  BY DEF CtlTypeOK
<1>3. Advanced[Len(stack)].pos = top.pos + 1
  BY <1>1, <1>2 DEF Advanced, Frame
<1>4. \A i \in DOMAIN stack : i # Len(stack) => Advanced[i] = stack[i]
  BY <1>1, <1>2 DEF Advanced
<1>5. Len(Advanced) = Len(stack)
  BY <1>1, <1>2
<1> QED
  BY <1>1, <1>3, <1>4, <1>5

(* Apart from the steps of a push and the end of a stop, a step leaves the  *)
(* suspended pushes alone or adds one to them.                              *)
LEMMA StackKept ==
    ASSUME PipelineInv, [Next]_vars, ~ stop_done, ~ start_sink_chn, ~ pipe_push_back, ~ push_return
    PROVE  \/ stack' = stack /\ Returning
           \/ /\ call' = None /\ closing' = None
              /\ \E c, x, y, w : EnterPush(c, x, y, w)
<1>1. closing # None => call = None
  BY DEF PipelineInv, LoopInv
<1>2. ASSUME UNCHANGED stack, UNCHANGED call \/ call' = None, UNCHANGED closing
      PROVE  Returning
  BY <1>2, CoreAssumption DEF Returning
<1>3. ASSUME Idle, UNCHANGED stack PROVE Returning
  BY <1>3 DEF Idle, Returning
<1>4. ASSUME NEW c \in Chn, process_chn_stopping(c) \/ process_chn_stopped(c)
      PROVE  stack' = stack /\ Returning
  BY <1>2, <1>4, CoreAssumption, Zenon DEF process_chn_stopping, process_chn_stopped, unit_stop, Returning
<1>5. CASE put_shared \/ release_buffer
  BY <1>2, <1>5 DEF put_shared, release_buffer
<1>6. CASE CoreStep
  BY <1>4, <1>5, <1>6 DEF CoreStep, CoreNext
<1>7. CASE pitcher_start \/ pitcher_start_end \/ stop_chn \/ stop_chn_end
  BY <1>3, <1>7, Zenon DEF pitcher_start, pitcher_start_end, stop_chn, stop_chn_end, coreVars, ctlVars, unit_stop
<1>8. CASE run_chn \/ pitcher_loop_run \/ timer_func \/ main_exit
  BY <1>3, <1>8 DEF run_chn, pitcher_loop_run, timer_func, main_exit, coreVars, ctlVars
<1>9. ASSUME NEW c \in Chn, teardown(c) \/ \E why \in {"timeout", "event"} : poll_func(c, why)
      PROVE  stack' = stack /\ Returning
  BY <1>3, <1>9 DEF teardown, poll_func
<1>10. ASSUME NEW c \in Chn, \/ process_chn_active(c) \/ ofile_run(c) \/ check_ctrl_ready(c)
                             \/ is_decoder_output_finish(c) \/ check_v4l2_ready(c)
       PROVE  stack' = stack /\ Returning
  <2>1. UNCHANGED <<stack, closing>> /\ (UNCHANGED call \/ call' = None)
    BY <1>10 DEF process_chn_active, ofile_run, check_ctrl_ready, is_decoder_output_finish,
       check_v4l2_ready, ctlVars
  <2> QED
    BY <1>2, <2>1
<1>11. ASSUME NEW c \in Chn, call = c PROVE closing = None
  BY <1>1, <1>11, CoreAssumption
<1>12. ASSUME NEW c \in Chn, ifile_run(c) \/ convert_run(c) \/ run_v4l2(c)
       PROVE  \/ stack' = stack /\ Returning
              \/ /\ call' = None /\ closing' = None
                 /\ \E x, y, w : EnterPush(c, x, y, w)
  <2>1. call = c /\ call' = None /\ closing' = closing
    BY <1>12, Zenon DEF ifile_run, convert_run, run_v4l2, Active
  <2>2. stack' = stack \/ \E x, y, w : EnterPush(c, x, y, w)
    BY <1>12, Zenon DEF ifile_run, convert_run, run_v4l2
  <2> QED
    BY <1>2, <1>11, <2>1, <2>2
<1>13. CASE MainNext
  BY <1>6, <1>7, <1>8, <1>9, <1>10, <1>12, <1>13 DEF MainNext
<1>14. CASE DriverNext \/ sig_handler \/ Done \/ UNCHANGED vars
  BY <1>2, <1>14, Zenon DEF DriverNext, DriverDecode, DriverChange, DriverEos, sig_handler, Done, vars,
     coreVars, ctlVars
<1> QED
  BY <1>13, <1>14 DEF Next

(* A push starts its next sink. *)
LEMMA ServedSink ==
    ASSUME PipelineInv, PipelineInv', ServedInv, start_sink_chn, Calm
    PROVE  ServedInv'
<1> DEFINE n == Len(Outs[top.chn])
           d == Outs[top.chn][top.pos]
<1>1. CtlTypeOK /\ CtlTypeOK' /\ state \in [Chn -> State]
  BY DEF PipelineInv, TypeOK, CoreTypeOK, ChnTypeOK
<1>2. /\ stack # <<>> /\ stack' = Advanced /\ top.pos <= n /\ call' = None /\ closing' = None
      /\ IF state[d] = "STOPPED" THEN start_chn(d) ELSE UNCHANGED <<chnVars, failed>>
  BY DEF start_sink_chn, Running
<1>3. /\ Len(stack) \in DOMAIN stack /\ top = stack[Len(stack)] /\ top \in Frame
      /\ DOMAIN stack' = DOMAIN stack
      /\ stack'[Len(stack)].chn = top.chn /\ stack'[Len(stack)].pos = top.pos + 1
      /\ \A i \in DOMAIN stack : i # Len(stack) => stack'[i] = stack[i]
  BY <1>1, <1>2, AdvancedTop
<1>4. top.chn \in Chn /\ n \in Nat /\ top.pos \in Nat \ {0} /\ \A k \in 1 .. n : Outs[top.chn][k] \in Chn
  BY <1>3, CoreAssumption DEF Frame
<1>5. d \in Chn /\ (failed' \/ state'[d] # "STOPPED")
  <2>1. d \in Chn
    BY <1>2, <1>4
  <2> HIDE DEF d
  <2>2. CASE start_chn(d)
    BY <1>1, <2>1, <2>2, StartState, Zenon
  <2>3. CASE state[d] # "STOPPED" /\ UNCHANGED chnVars
    BY <2>1, <2>3 DEF chnVars
  <2>4. start_chn(d) \/ (state[d] # "STOPPED" /\ UNCHANGED chnVars)
    BY <1>2
  <2> QED
    BY <2>1, <2>2, <2>3, <2>4
<1>6. SinksUp(top)
  BY <1>3 DEF ServedInv
<1>7. \A k \in 1 .. n : k < top.pos + 1 => k = top.pos \/ (k < top.pos /\ top.pos <= k + n)
  <2> HIDE DEF n
  <2> QED
    BY <1>2, <1>4
<1>8. \A k \in 1 .. n : k < top.pos + 1 /\ ~ failed' => state'[Outs[top.chn][k]] # "STOPPED"
  BY <1>4, <1>5, <1>6, <1>7 DEF SinksUp, Calm
<1>9. ASSUME NEW i \in DOMAIN stack' PROVE SinksUp(stack[i])'
  <2>1. CASE i = Len(stack)
    BY <1>3, <1>8, <2>1 DEF SinksUp
  <2>2. CASE i # Len(stack)
    <3>1. stack[i] \in Frame /\ SinksUp(stack[i])
      BY <1>1, <1>3 DEF CtlTypeOK, ServedInv
    <3>2. PICK f \in Frame : f = stack[i]
      BY <3>1
    <3>3. SinksUp(f)'
      BY <3>1, <3>2, SinksKept
    <3> QED
      BY <1>3, <2>2, <3>2, <3>3, Zenon DEF SinksUp
  <2> QED
    BY <2>1, <2>2
<1>10. ServedLast'
  BY <1>2, CoreAssumption DEF ServedLast
<1> QED
  BY <1>9, <1>10 DEF ServedInv

(* A push hands the buffer to its next sink. *)
LEMMA ServedPush ==
    ASSUME PipelineInv, PipelineInv', ServedInv, pipe_push_back
    PROVE  ServedInv'
<1> DEFINE n == Len(Outs[top.chn])
           d == Outs[top.chn][top.pos - n]
<1>1. CtlTypeOK /\ CtlTypeOK'
  BY DEF PipelineInv, TypeOK, CoreTypeOK
<1>2. /\ stack # <<>> /\ stack' = Advanced /\ top.pos > n /\ top.pos <= 2 * n
      /\ call' = d /\ closing' = None /\ UNCHANGED <<state, failed>>
  BY DEF pipe_push_back, Running, chnVars
<1>3. /\ Len(stack) \in DOMAIN stack /\ top = stack[Len(stack)] /\ top \in Frame
      /\ DOMAIN stack' = DOMAIN stack /\ Len(stack') = Len(stack)
      /\ stack'[Len(stack)].chn = top.chn /\ stack'[Len(stack)].pos = top.pos + 1
      /\ \A i \in DOMAIN stack : i # Len(stack) => stack'[i] = stack[i]
  BY <1>1, <1>2, AdvancedTop
<1>4. top.chn \in Chn /\ n \in Nat /\ top.pos \in Nat \ {0}
  BY <1>3, CoreAssumption DEF Frame
<1>5. SinksUp(top)
  BY <1>3 DEF ServedInv
<1>6. \A k \in 1 .. n : top.pos + 1 <= k + n => k < top.pos /\ top.pos <= k + n
  <2> HIDE DEF n
  <2> QED
    BY <1>2, <1>4
<1>7. ASSUME NEW i \in DOMAIN stack' PROVE SinksUp(stack[i])'
  <2>1. CASE i = Len(stack)
    BY <1>2, <1>3, <1>5, <1>6, <2>1, Zenon DEF SinksUp
  <2>2. CASE i # Len(stack)
    <3>1. SinksUp(stack[i]) /\ stack'[i] = stack[i]
      BY <1>3, <2>2 DEF ServedInv
    <3> QED
      BY <1>2, <3>1 DEF SinksUp
  <2> QED
    BY <2>1, <2>2
<1>8. ServedLast'
  <2>1. top' = stack'[Len(stack)]
    BY <1>3 DEF top, Last
  <2>2. (top.pos + 1) - n - 1 = top.pos - n /\ top.pos - n \in 1 .. n
    <3> HIDE DEF n
    <3> QED
      BY <1>2, <1>4
  <2>3. top'.chn = top.chn /\ top'.pos - n - 1 = top.pos - n
    BY <1>3, <2>1, <2>2
  <2> QED
    BY <1>2, <2>2, <2>3, CoreAssumption, Zenon DEF ServedLast
<1> QED
  BY <1>7, <1>8 DEF ServedInv

(* A channel has stopped above the suspended pushes: it is the sink that    *)
(* was served last, so no push is about to serve it.                        *)
LEMMA ServedStopped ==
    ASSUME PipelineInv, PipelineInv', ServedInv, stop_done
    PROVE  ServedInv'
<1> DEFINE m == Len(stack)
<1>1. CtlTypeOK /\ CtlTypeOK' /\ state \in [Chn -> State]
  BY DEF PipelineInv, TypeOK, CoreTypeOK, ChnTypeOK
<1>2. /\ closing # None /\ closing' = None /\ UNCHANGED <<call, stack, failed>>
      /\ state' = [state EXCEPT ![closing] = "STOPPED"]
  BY DEF stop_done
<1>3. call = None /\ closing \in Chn
  BY <1>1, <1>2 DEF PipelineInv, LoopInv, CtlTypeOK
<1>4. ServedLast'
  BY <1>2, <1>3, CoreAssumption DEF ServedLast
<1>5. ASSUME NEW i \in DOMAIN stack PROVE SinksUp(stack[i])'
  <2> DEFINE f == stack[i]
             n == Len(Outs[f.chn])
  <2>1. f \in Frame /\ SinksUp(f) /\ stack # <<>>
    BY <1>1 DEF CtlTypeOK, ServedInv
  <2>2. f.chn \in Chn /\ n \in Nat /\ f.pos \in Nat \ {0} /\ DOMAIN Outs[f.chn] = 1 .. n
    BY <2>1, CoreAssumption DEF Frame
  <2>3. m \in DOMAIN stack /\ top = stack[m] /\ top \in Frame /\ i \in 1 .. m /\ m \in Nat
    BY <1>1, <2>1, StackShape DEF CtlTypeOK
  <2>4. /\ top.pos - Len(Outs[top.chn]) - 1 \in 1 .. Len(Outs[top.chn])
        /\ closing = Outs[top.chn][top.pos - Len(Outs[top.chn]) - 1]
    BY <1>3, <2>1 DEF ServedInv, ServedLast
  <2>5. ASSUME NEW k \in 1 .. n, k < f.pos, f.pos <= k + n PROVE Outs[f.chn][k] # closing
    <3>1. CASE i = m
      <4>1. k # f.pos - n - 1
        <5> HIDE DEF n
        <5> QED
          BY <2>2, <2>5
      <4>2. f.pos - n - 1 \in DOMAIN Outs[f.chn] /\ k \in DOMAIN Outs[f.chn]
        BY <2>2, <2>3, <2>4, <2>5, <3>1
      <4>3. closing = Outs[f.chn][f.pos - n - 1]
        BY <2>3, <2>4, <3>1
      <4> HIDE DEF n
      <4> QED
        BY <2>2, <4>1, <4>2, <4>3, TopologyAssumption
    <3>2. CASE i # m
      <4>1. i < m
        BY <2>3, <3>2
      <4>2. Before(f.chn, top.chn)
        BY <2>3, <4>1 DEF PipelineInv, ChainInv
      <4>3. f.chn # top.chn
        BY <4>2, BeforeOrder
      <4>4. top.chn \in Chn
        BY <2>3 DEF Frame
      <4>5. DOMAIN Outs[top.chn] = 1 .. Len(Outs[top.chn])
        BY <4>4, CoreAssumption
      <4>6. Source[closing] = top.chn
        BY <2>4, <4>4, <4>5, SinkOf
      <4>7. Source[Outs[f.chn][k]] = f.chn
        BY <2>2, <2>5, SinkOf
      <4> QED
        BY <4>3, <4>6, <4>7
    <3> QED
      BY <3>1, <3>2
  <2>6. \A k \in 1 .. n : Outs[f.chn][k] \in Chn
    BY <2>2, CoreAssumption
  <2>7. ASSUME NEW k \in 1 .. n, k < f.pos, f.pos <= k + n, ~ failed
        PROVE  state'[Outs[f.chn][k]] # "STOPPED"
    <3>1. state[Outs[f.chn][k]] # "STOPPED"
      BY <2>1, <2>7 DEF SinksUp
    <3> QED
      BY <1>1, <1>2, <1>3, <2>5, <2>6, <2>7, <3>1, Zenon
  <2> QED
    BY <1>2, <2>7 DEF SinksUp
<1> QED
  BY <1>2, <1>4, <1>5 DEF ServedInv

(* Every step keeps the sinks of the suspended pushes running. *)
LEMMA ServedStep ==
    ASSUME PipelineInv, PipelineInv', ServedInv, [Next]_vars
    PROVE  ServedInv'
<1>1. CtlTypeOK /\ CtlTypeOK'
  BY DEF PipelineInv, TypeOK, CoreTypeOK
<1>2. CASE stop_done
  BY <1>2, ServedStopped
<1>3. CASE pipe_push_back
  BY <1>3, ServedPush
<1>4. CASE ~ stop_done /\ ~ pipe_push_back
  <2>1. Calm
    BY <1>4, CalmStep
  <2>2. CASE start_sink_chn
    BY <2>1, <2>2, ServedSink
  <2>3. CASE push_return
    <3>1. stack # <<>> /\ stack' = Front(stack) /\ call' = None /\ closing' = None
      BY <2>3 DEF push_return, Running
    <3>2. \A i \in DOMAIN stack' : stack'[i].pos = 1 \/ \E j \in DOMAIN stack : stack'[i] = stack[j]
      BY <1>1, <3>1, StackShape
    <3> QED
      BY <1>1, <2>1, <3>1, <3>2, ServedCalm
  <2>4. CASE ~ start_sink_chn /\ ~ push_return
    <3>1. \/ stack' = stack /\ Returning
          \/ /\ call' = None /\ closing' = None
             /\ \E c, x, y, w : EnterPush(c, x, y, w)
      BY <1>4, <2>4, StackKept
    <3>2. CASE stack' = stack /\ Returning
      BY <1>1, <2>1, <3>2, ServedSame
    <3>3. CASE /\ call' = None /\ closing' = None
               /\ \E c, x, y, w : EnterPush(c, x, y, w)
      BY <1>1, <2>1, <3>3, ServedEnter
    <3> QED
      BY <3>1, <3>2, <3>3
  <2> QED
    BY <2>2, <2>3, <2>4
<1> QED
  BY <1>2, <1>3, <1>4

(* A step while no unit is being stopped *)
LEMMA StopIdle ==
    ASSUME StoppingInv, closing = None, closing' = None, call' # None => todo' = <<>>,
           \A c \in Chn : state'[c] = "ACTIVE" => state[c] = "ACTIVE" \/ enable'[c],
           \A c \in Chn : enable[c] => enable'[c], AbortInv'
    PROVE  StoppingInv'
<1>1. PutsFirst' /\ StopEmpties'
  BY DEF PutsFirst, StopEmpties
<1>2. EnabledInv'
  BY CoreAssumption DEF StoppingInv, EnabledInv
<1> QED
  BY <1>1, <1>2 DEF StoppingInv

(* A step that starts and stops nothing *)
LEMMA StopQuiet ==
    ASSUME StoppingInv, UNCHANGED <<closing, phase, failed, enable, state>>,
           call' # None => todo' = <<>>,
           closing # None =>
              pipe'[closing] = <<>> /\ idles'[closing] = <<>> /\ queued'[closing] = <<>>
    PROVE  StoppingInv'
BY DEF StoppingInv, PutsFirst, StopEmpties, EnabledInv, AbortInv, Aborted

(* A channel is started while the loop runs. *)
LEMMA StopStart ==
    ASSUME CoreTypeOK, StoppingInv, NEW c \in Chn, start_chn(c), phase = "run",
           closing = None, UNCHANGED <<closing, phase>>, call' # None => todo' = <<>>
    PROVE  StoppingInv'
<1>1. StartOk(c)
  BY StartEffect
<1>2. AbortInv'
  BY DEF AbortInv
<1> QED
  BY <1>1, <1>2, StopIdle DEF StartOk

(* A unit is stopped. *)
LEMMA StopBegins ==
    ASSUME CoreTypeOK, StoppingInv, NEW c \in Chn, unit_stop(c), closing = None, call' = None,
           phase' = phase, phase = "abort" \/ (phase = "run" /\ state[c] # "ACTIVE")
    PROVE  StoppingInv'
<1>1. /\ closing' = c /\ enable' = [enable EXCEPT ![c] = FALSE] /\ UNCHANGED <<state, failed>>
      /\ pipe' = [pipe EXCEPT ![c] = <<>>] /\ idles' = [idles EXCEPT ![c] = <<>>]
      /\ queued' = [queued EXCEPT ![c] = <<>>]
  BY DEF unit_stop, stop_v4l2
<1>2. /\ pipe \in [Chn -> Seq(Buffer)] /\ idles \in [Chn -> Seq(Buffer)]
      /\ queued \in [Chn -> Seq(Buffer)] /\ enable \in [Chn -> BOOLEAN]
  BY DEF CoreTypeOK, QTypeOK, ChnTypeOK
<1>3. PutsFirst'
  BY DEF PutsFirst
<1>4. StopEmpties'
  BY <1>1, <1>2 DEF StopEmpties
<1>5. EnabledInv'
  BY <1>1, <1>2, CoreAssumption DEF StoppingInv, EnabledInv
<1>6. AbortInv'
  BY <1>1 DEF StoppingInv, AbortInv, Aborted
<1> QED
  BY <1>3, <1>4, <1>5, <1>6 DEF StoppingInv

(* A released buffer does not return to a unit that is being stopped. *)
LEMMA StopRelease ==
    ASSUME CoreTypeOK, StoppingInv, release_buffer, phase' = phase
    PROVE  StoppingInv'
<1> DEFINE x == Head(todo)
           o == Owner(x)
           r == recycle(x)
<1>1. /\ todo # <<>> /\ UNCHANGED <<closing, failed, enable, state, pipe, call>>
      /\ idles' = [idles EXCEPT ![o] = IF r = "idle" THEN Append(@, x) ELSE @]
      /\ queued' = [queued EXCEPT ![o] = IF r = "queue" THEN Append(@, x) ELSE @]
  BY DEF release_buffer, chnVars
<1>2. call' = None
  BY <1>1 DEF StoppingInv, PutsFirst
<1>3. x \in Buffer /\ o \in Chn
  <2>1. x \in Buffer
    <3>1. todo \in Seq(Buffer)
      BY DEF CoreTypeOK, CtlTypeOK
    <3> QED
      BY <1>1, <3>1
  <2> QED
    BY <2>1, OwnerOf
<1>4. r \in {"idle", "queue"} => enable[o]
  BY <1>3 DEF recycle, recycle_v4l2_buffer, recycle_buffer, put_unit_buffer_idle
<1>5. idles \in [Chn -> Seq(Buffer)] /\ queued \in [Chn -> Seq(Buffer)] /\ closing \in Chn \cup {None}
  BY DEF CoreTypeOK, QTypeOK, CtlTypeOK
<1> HIDE DEF x, o, r
<1>6. ASSUME closing # None
      PROVE  pipe'[closing] = <<>> /\ idles'[closing] = <<>> /\ queued'[closing] = <<>>
  <2>1. /\ ~ enable[closing] /\ closing \in Chn
        /\ pipe[closing] = <<>> /\ idles[closing] = <<>> /\ queued[closing] = <<>>
    BY <1>5, <1>6 DEF StoppingInv, StopEmpties
  <2>2. closing = o => r \notin {"idle", "queue"}
    BY <1>4, <2>1
  <2> QED
    BY <1>1, <1>3, <1>5, <2>1, <2>2
<1> QED
  BY <1>1, <1>2, <1>6, StopQuiet

(* Every step keeps the discipline of starts and stops. *)
LEMMA StoppingStep ==
    ASSUME PipelineInv, StoppingInv, [Next]_vars
    PROVE  StoppingInv'
<1>1. CoreTypeOK /\ MainTypeOK /\ CtlTypeOK /\ state \in [Chn -> State]
  BY DEF PipelineInv, TypeOK, CoreTypeOK, ChnTypeOK
<1>2. /\ call # None => phase = "run" /\ closing = None /\ todo = <<>>
      /\ stack # <<>> => phase = "run"
  BY DEF PipelineInv, LoopInv, StoppingInv, PutsFirst
<1>3. ASSUME NEW c \in Chn, call = c PROVE phase = "run" /\ closing = None /\ todo = <<>>
  BY <1>2, <1>3, CoreAssumption
<1>4. ASSUME UNCHANGED <<closing, phase, failed, enable>>, closing = None,
             \A c \in Chn : state'[c] = "ACTIVE" => state[c] = "ACTIVE",
             call' # None => todo' = <<>>
      PROVE  StoppingInv'
  <2>1. AbortInv'
    BY <1>4 DEF StoppingInv, AbortInv, Aborted
  <2> QED
    BY <1>4, <2>1, StopIdle
<1>5. ASSUME NEW c \in Chn, process_chn_stopping(c), phase' = phase PROVE StoppingInv'
  <2>1. closing = None /\ phase = "run" /\ call' = None /\ state[c] = "STOPPING"
    BY <1>3, <1>5 DEF process_chn_stopping
  <2>2. CASE unit_stop(c)
    BY <1>1, <1>5, <2>1, <2>2, StopBegins
  <2>3. CASE UNCHANGED <<chnVars, closing, failed>>
    BY <1>4, <1>5, <2>1, <2>3 DEF chnVars
  <2> QED
    BY <1>5, <2>2, <2>3 DEF process_chn_stopping
<1>6. ASSUME NEW c \in Chn, process_chn_stopped(c), phase' = phase PROVE StoppingInv'
  BY <1>3, <1>4, <1>6 DEF process_chn_stopped, chnVars
<1>7. ASSUME stop_done, phase' = phase PROVE StoppingInv'
  <2>1. /\ closing # None /\ closing' = None /\ UNCHANGED <<call, enable, failed>>
        /\ state' = [state EXCEPT ![closing] = "STOPPED"]
    BY <1>7 DEF stop_done
  <2>2. call' = None /\ closing \in Chn
    BY <1>1, <1>2, <2>1 DEF CtlTypeOK
  <2>3. PutsFirst' /\ StopEmpties'
    BY <2>1, <2>2 DEF PutsFirst, StopEmpties
  <2>4. EnabledInv'
    BY <1>1, <2>1, <2>2 DEF StoppingInv, EnabledInv
  <2>5. AbortInv'
    BY <1>7, <2>1 DEF StoppingInv, AbortInv, Aborted
  <2> QED
    BY <2>3, <2>4, <2>5 DEF StoppingInv
<1>8. ASSUME put_shared, phase' = phase PROVE StoppingInv'
  <2>1. UNCHANGED <<closing, failed, enable, state, call, pipe, idles, queued>> /\ todo # <<>>
    BY <1>8 DEF put_shared, chnVars, qVars
  <2>2. call' = None
    BY <1>2, <2>1
  <2> QED
    BY <1>8, <2>1, <2>2, StopQuiet DEF StoppingInv, StopEmpties
<1>9. ASSUME release_buffer, phase' = phase PROVE StoppingInv'
  BY <1>1, <1>9, StopRelease
<1>10. ASSUME start_sink_chn, phase' = phase PROVE StoppingInv'
  <2> DEFINE d == Outs[top.chn][top.pos]
  <2>1. /\ stack # <<>> /\ top.pos <= Len(Outs[top.chn]) /\ call' = None
        /\ closing = None /\ closing' = None
    BY <1>10 DEF start_sink_chn, Running
  <2>2. d \in Chn
    <3>1. top \in Frame
      BY <1>1, <2>1, StackShape
    <3>2. top.chn \in Chn /\ top.pos \in DOMAIN Outs[top.chn]
      BY <2>1, <3>1, CoreAssumption DEF Frame
    <3> QED
      BY <3>2, SinkOf
  <2>3. start_chn(d) \/ UNCHANGED <<state, enable, failed>>
    BY <1>10 DEF start_sink_chn, chnVars
  <2> HIDE DEF d
  <2>4. CASE start_chn(d)
    BY <1>1, <1>2, <1>10, <2>1, <2>2, <2>4, StopStart
  <2>5. CASE UNCHANGED <<state, enable, failed>>
    BY <1>4, <1>10, <2>1, <2>5
  <2> QED
    BY <2>3, <2>4, <2>5
<1>11. ASSUME pipe_push_back \/ push_return, phase' = phase PROVE StoppingInv'
  <2>1. /\ UNCHANGED <<closing, failed, enable, state>> /\ closing = None
        /\ call' # None => todo' = <<>>
    BY <1>11 DEF pipe_push_back, push_return, Running, chnVars
  <2> QED
    BY <1>4, <1>11, <2>1
<1>12. CASE CoreStep
  <2>1. phase' = phase
    BY <1>12 DEF CoreStep, mainVars
  <2> QED
    BY <1>5, <1>6, <1>7, <1>8, <1>9, <1>10, <1>11, <1>12, <2>1 DEF CoreStep, CoreNext
<1>13. CASE pitcher_start
  <2>1. /\ phase = "start" /\ UNCHANGED <<phase, call, closing>> /\ call = None /\ closing = None
    BY <1>13 DEF pitcher_start, Idle, ctlVars
  <2>2. CASE Cur \in Boot /\ start_chn(Cur)
    <3>1. Cur \in Chn
      BY <2>2, PipelineAssumption
    <3>2. StartOk(Cur)
      BY <1>1, <2>2, <3>1, StartEffect
    <3>3. AbortInv'
      BY <2>1, <2>2, <3>2 DEF StoppingInv, AbortInv, Aborted, StartOk
    <3> QED
      BY <2>1, <3>2, <3>3, StopIdle DEF StartOk
  <2>3. CASE UNCHANGED <<chnVars, failed>>
    BY <1>4, <2>1, <2>3 DEF chnVars
  <2> QED
    BY <1>13, <2>2, <2>3 DEF pitcher_start
<1>14. CASE \/ pitcher_start_end \/ stop_chn_end \/ timer_func \/ main_exit \/ run_chn
            \/ pitcher_loop_run
  <2>1. /\ UNCHANGED <<closing, state, enable, failed>> /\ closing = None
        /\ call' # None => todo' = <<>>
    BY <1>14 DEF pitcher_start_end, stop_chn_end, timer_func, main_exit, run_chn, pitcher_loop_run,
       Idle, coreVars, chnVars, ctlVars
  <2>2. AbortInv'
    BY <1>14, <2>1 DEF pitcher_start_end, stop_chn_end, timer_func, main_exit, run_chn,
       pitcher_loop_run, StoppingInv, AbortInv, Aborted
  <2> QED
    BY <2>1, <2>2, StopIdle
<1>15. CASE stop_chn
  <2>1. /\ phase = "abort" /\ UNCHANGED phase /\ call = None /\ closing = None /\ Cur \in Chn
    BY <1>1, <1>15, CurChn DEF stop_chn, Idle
  <2>2. CASE UNCHANGED coreVars
    BY <1>4, <2>1, <2>2 DEF coreVars, chnVars, ctlVars
  <2>3. CASE unit_stop(Cur) /\ call' = call
    BY <1>1, <2>1, <2>3, StopBegins
  <2> QED
    BY <1>15, <2>2, <2>3 DEF stop_chn
<1>16. ASSUME NEW c \in Chn, teardown(c) \/ \E why \in {"timeout", "event"} : poll_func(c, why)
       PROVE  StoppingInv'
  <2>1. /\ UNCHANGED <<closing, phase, state, enable, failed>> /\ closing = None
        /\ call' # None => todo' = <<>>
    BY <1>16 DEF teardown, poll_func, Idle, chnVars, mainVars
  <2> QED
    BY <1>4, <2>1
<1>17. ASSUME NEW c \in Chn, \/ process_chn_active(c) \/ ifile_run(c) \/ convert_run(c)
                             \/ ofile_run(c) \/ run_v4l2(c)
                             \/ check_ctrl_ready(c) \/ check_v4l2_ready(c)
       PROVE  StoppingInv'
  <2>1. /\ call = c /\ call' = None /\ UNCHANGED <<closing, phase, enable, failed>>
    BY <1>17, Zenon DEF process_chn_active, ifile_run, convert_run, ofile_run, run_v4l2,
       check_ctrl_ready, check_v4l2_ready, Active, mainVars
  <2>2. \A d \in Chn : state'[d] = "ACTIVE" => state[d] = "ACTIVE"
    BY <1>1, <1>17, Zenon DEF process_chn_active, ifile_run, convert_run, ofile_run, run_v4l2,
       check_ctrl_ready, check_v4l2_ready
  <2> QED
    BY <1>3, <1>4, <2>1, <2>2
<1>18. ASSUME NEW c \in Chn, is_decoder_output_finish(c) PROVE StoppingInv'
  <2>1. call = c /\ UNCHANGED <<phase, call, todo, closing>> /\ Capture \in Chn
    BY <1>18, CoreAssumption, PipelineAssumption DEF is_decoder_output_finish, Active, ctlVars, mainVars
  <2>2. phase = "run" /\ closing = None /\ todo = <<>>
    BY <1>3, <2>1
  <2>3. CASE start_chn(Capture)
    BY <1>1, <2>1, <2>2, <2>3, StopStart
  <2>4. CASE UNCHANGED <<state, enable, failed>>
    BY <1>4, <2>1, <2>2, <2>4
  <2> QED
    BY <1>18, <2>3, <2>4 DEF is_decoder_output_finish, handle_decoder_resolution_change
<1>19. CASE MainNext
  BY <1>12, <1>13, <1>14, <1>15, <1>16, <1>17, <1>18, <1>19 DEF MainNext
<1>20. CASE DriverNext \/ sig_handler \/ Done \/ UNCHANGED vars
  <2>1. UNCHANGED <<closing, phase, failed, enable, state, call, todo, pipe, idles, queued>>
    BY <1>20, Zenon DEF DriverNext, DriverDecode, DriverChange, DriverEos, sig_handler, Done, vars,
       coreVars, chnVars, qVars, ctlVars, mainVars
  <2> QED
    BY <1>2, <2>1, StopQuiet DEF StoppingInv, StopEmpties
<1> QED
  BY <1>19, <1>20 DEF Next

(* Nothing runs any more in a process that has ended. *)
LEMMA ExitStep ==
    ASSUME PipelineInv, ExitInv, [Next]_vars
    PROVE  ExitInv'
<1>1. CtlTypeOK /\ pipe \in [Chn -> Seq(Buffer)] /\ idles \in [Chn -> Seq(Buffer)]
  BY DEF PipelineInv, TypeOK, CoreTypeOK, QTypeOK
<1>2. CASE main_exit
  <2>1. Idle' /\ UNCHANGED <<pipe, idles>> /\ \A c \in Chn : Leftover(c) = <<>>
    BY <1>2 DEF main_exit, Idle, coreVars, ctlVars, qVars
  <2>2. ASSUME NEW c \in Chn PROVE pipe[c] = <<>> /\ idles[c] = <<>>
    <3>1. pipe[c] \in Seq(Buffer) /\ idles[c] \in Seq(Buffer) /\ pipe[c] \o idles[c] = <<>>
      BY <1>1, <2>1 DEF Leftover
    <3> QED
      BY <3>1, ConcatEmptySeq
  <2> QED
    BY <2>1, <2>2 DEF ExitInv
<1>3. ASSUME phase = "exit", MainNext PROVE FALSE
  <2>1. call = None /\ stack = <<>> /\ todo = <<>> /\ closing = None
    BY <1>3 DEF ExitInv, Idle
  <2>2. \A c \in Chn : call # c
    BY <2>1, CoreAssumption
  <2>3. ~ CoreStep
    BY <2>1, <2>2 DEF CoreStep, CoreNext, process_chn_stopping, process_chn_stopped, stop_done,
       put_shared, release_buffer, start_sink_chn, pipe_push_back, push_return, Running
  <2>4. ~ (\/ pitcher_start \/ pitcher_start_end \/ stop_chn \/ stop_chn_end
           \/ run_chn \/ pitcher_loop_run \/ timer_func \/ main_exit)
    BY <1>3 DEF pitcher_start, pitcher_start_end, stop_chn, stop_chn_end, run_chn,
       pitcher_loop_run, timer_func, main_exit
  <2>5. \A c \in Chn : ~ teardown(c) /\ \A why \in {"timeout", "event"} : ~ poll_func(c, why)
    BY <1>3 DEF teardown, poll_func
  <2>6. \A c \in Chn : ~ (\/ process_chn_active(c) \/ ifile_run(c) \/ convert_run(c)
                          \/ ofile_run(c) \/ run_v4l2(c) \/ check_ctrl_ready(c)
                          \/ is_decoder_output_finish(c) \/ check_v4l2_ready(c))
    BY <2>2, Zenon DEF process_chn_active, ifile_run, convert_run, ofile_run, run_v4l2,
       check_ctrl_ready, is_decoder_output_finish, check_v4l2_ready, Active
  <2> QED
    BY <1>3, <2>3, <2>4, <2>5, <2>6 DEF MainNext
<1>4. ASSUME MainNext, ~ main_exit, phase # "exit" PROVE phase' # "exit"
  <2>1. CASE CoreStep
    BY <1>4, <2>1 DEF CoreStep, mainVars
  <2>2. CASE \/ pitcher_start \/ pitcher_start_end \/ stop_chn \/ stop_chn_end
             \/ run_chn \/ pitcher_loop_run \/ timer_func
    BY <1>4, <2>2 DEF pitcher_start, pitcher_start_end, stop_chn, stop_chn_end, run_chn,
       pitcher_loop_run, timer_func
  <2>3. ASSUME NEW c \in Chn, teardown(c) \/ \E why \in {"timeout", "event"} : poll_func(c, why)
        PROVE  phase' # "exit"
    BY <1>4, <2>3 DEF teardown, poll_func, mainVars
  <2>4. ASSUME NEW c \in Chn, \/ process_chn_active(c) \/ ifile_run(c) \/ convert_run(c)
                              \/ ofile_run(c) \/ run_v4l2(c) \/ check_ctrl_ready(c)
                              \/ is_decoder_output_finish(c) \/ check_v4l2_ready(c)
        PROVE  phase' # "exit"
    BY <1>4, <2>4, Zenon DEF process_chn_active, ifile_run, convert_run, ofile_run, run_v4l2,
       check_ctrl_ready, is_decoder_output_finish, check_v4l2_ready, mainVars
  <2> QED
    BY <1>4, <2>1, <2>2, <2>3, <2>4 DEF MainNext
<1>5. CASE DriverNext \/ sig_handler \/ Done \/ UNCHANGED vars
  <2>1. UNCHANGED <<phase, call, stack, todo, closing, pipe, idles>>
    BY <1>5, Zenon DEF DriverNext, DriverDecode, DriverChange, DriverEos, sig_handler, Done, vars,
       coreVars, qVars, ctlVars, mainVars
  <2> QED
    BY <2>1 DEF ExitInv, Idle
<1> QED
  BY <1>2, <1>3, <1>4, <1>5 DEF Next, ExitInv

-----------------------------------------------------------------------------
(* The theorems about the buffers. *)

(* What is counted are the holders. *)
LEMMA CountedHolders ==
    ASSUME CoreTypeOK
    PROVE  RefcountExact /\ NoDangling <=> CountInv /\ LiveInv
<1>1. \A b \in Buffer : Cardinality(Holders(b)) = Refs(b) /\ Refs(b) \in Nat
  BY HoldersCard
<1>2. \A b \in Buffer : Holders(b) = {} <=> Refs(b) = 0
  BY HoldersCard
<1>3. (\A c \in Chn : ToSet(queued[c]) \subseteq live)
      <=> (\A c \in Chn : \A i \in DOMAIN queued[c] : queued[c][i] \in live)
  BY DEF ToSet
<1>4. RefcountExact <=> CountInv
  BY <1>1 DEF RefcountExact, CountInv
<1>5. ASSUME CountInv
      PROVE  (\A b \in Buffer : Holders(b) # {} => b \in live)
             <=> (\A b \in Buffer : refcnt[b] > 0 => b \in live)
  <2>1. \A b \in Buffer : Holders(b) # {} <=> refcnt[b] > 0
    BY <1>1, <1>2, <1>5 DEF CountInv
  <2> QED
    BY <2>1
<1> QED
  BY <1>3, <1>4, <1>5 DEF NoDangling, LiveInv

(* The parts of the invariant, as the lemmas have them *)
LEMMA BufferParts ==
    ASSUME CoreTypeOK
    PROVE  BufferInv <=> /\ MemInv /\ StoppingInv /\ ServedInv /\ ExitInv
                         /\ ReclaimedAtStop /\ PipeServed
BY CountedHolders DEF BufferInv, BuffersSafe, MemInv

(* Nothing is allocated at first. *)
LEMMA BufferStart ==
    ASSUME Init
    PROVE  BufferInv
<1>1. CoreTypeOK
  BY PipelineStart DEF PipelineInv, TypeOK
<1>2. /\ state = [c \in Chn |-> "STOPPED"] /\ pipe = [c \in Chn |-> <<>>]
      /\ idles = [c \in Chn |-> <<>>] /\ queued = [c \in Chn |-> <<>>]
      /\ refcnt = [b \in Buffer |-> 0] /\ live = {} /\ phase = "start"
      /\ call = None /\ stack = <<>> /\ todo = <<>> /\ closing = None /\ failed = FALSE
  BY DEF Init, CoreInit
<1>3. \A c \in Chn : pipe[c] = <<>> /\ idles[c] = <<>> /\ queued[c] = <<>> /\ state[c] = "STOPPED"
  BY <1>2
<1>4. CountInv
  <2> SUFFICES ASSUME NEW b \in Buffer PROVE refcnt[b] = Refs(b)
    BY DEF CountInv
  <2>1. Refs(b) \in Nat /\ ~ (Refs(b) > 0)
    BY <1>1, <1>2, <1>3, RefsShown
  <2> QED
    BY <1>2, <2>1
<1>5. LiveInv /\ NoLeak
  BY <1>2, <1>3 DEF LiveInv, NoLeak
<1>6. PlaceInv
  BY <1>2, <1>3 DEF PlaceInv, IdlesOwned, QueuedOwned, PipeBelow, FramesHold
<1>7. QueuedInv
  BY <1>3 DEF QueuedInv
<1>8. StoppingInv
  BY <1>2, <1>3 DEF StoppingInv, PutsFirst, StopEmpties, EnabledInv, AbortInv
<1>9. ServedInv /\ ExitInv
  BY <1>2 DEF ServedInv, ServedLast, ExitInv
<1>10. ReclaimedAtStop /\ PipeServed
  BY <1>2, <1>3 DEF ReclaimedAtStop, PipeServed
<1> QED
  BY <1>1, <1>4, <1>5, <1>6, <1>7, <1>8, <1>9, <1>10, BufferParts DEF MemInv

(* Every step keeps the invariant of the buffers. *)
LEMMA BufferStep ==
    ASSUME PipelineInv, PipelineInv', BufferInv, [Next]_vars
    PROVE  BufferInv'
<1>1. CoreTypeOK /\ CoreTypeOK'
  BY DEF PipelineInv, TypeOK
<1>2. MemInv /\ StoppingInv /\ ServedInv /\ ExitInv /\ ReclaimedAtStop /\ PipeServed
  BY <1>1, BufferParts
<1>3. MemInv'
  BY <1>2, MemStep
<1>4. StoppingInv'
  BY <1>2, StoppingStep
<1>5. ServedInv'
  BY <1>2, ServedStep
<1>6. ExitInv'
  BY <1>2, ExitStep
<1>7. ReclaimedAtStop'
  BY <1>2, ReclaimedStep
<1>8. PipeServed'
  BY <1>2, PipeServedStep
<1>9. RefcountExact' /\ NoDangling' <=> CountInv' /\ LiveInv'
  BY <1>1, CountedHolders, PTL
<1> QED
  BY <1>3, <1>4, <1>5, <1>6, <1>7, <1>8, <1>9 DEF BufferInv, BuffersSafe, MemInv

(* The invariant of the buffers holds in every reachable state, for any     *)
(* topology of nodes and any number of buffers, whatever the driver does    *)
(* and wherever a start fails: who holds a buffer, which units are being    *)
(* stopped and which sinks a suspended pitcher_push_back_output still       *)
(* serves (core.c 258-277, 415-432, unit.c 230-331, buffer.c 58-80).        *)
THEOREM BufferInvariant == Spec => []BufferInv
<1>1. Init => BufferInv
  BY BufferStart
<1>2. PipelineInv /\ PipelineInv' /\ BufferInv /\ [Next]_vars => BufferInv'
  BY BufferStep
<1> QED
  BY <1>1, <1>2, PipelineInvariant, PTL DEF Spec

(* Reference counts are exact through the nested runs of pipe->notify, no   *)
(* held buffer is freed, none is lost unless pitcher_start was aborted, and *)
(* a channel that has stopped has all its buffers back (obj.c, buffer.c     *)
(* 58-80, pipe.c 131-164, core.c 415-432).                                  *)
THEOREM BuffersAreSafe == Spec => []BuffersSafe
<1>1. BufferInv => BuffersSafe
  BY DEF BufferInv
<1> QED
  BY <1>1, BufferInvariant, PTL

(* No buffer is left in the input pipe of a stopped channel: the sinks that *)
(* __start_sink_chn found or made running serve the push before they stop   *)
(* (core.c 258-277, 723-739).                                               *)
THEOREM PipesServed == Spec => []PipeServed
<1>1. BufferInv => PipeServed
  BY DEF BufferInv
<1> QED
  BY <1>1, BufferInvariant, PTL

(* Unless pitcher_start was aborted, the process ends with no buffer        *)
(* allocated but the slots of a capture queue that could not be streamed    *)
(* (mxc_v4l2_vpu_enc.c 3752-3781, pipe.c 54-75).                            *)
THEOREM ExitLeavesNothing == Spec => []NoLeakAtExit
<1>1. PipelineInv /\ BufferInv => NoLeakAtExit
  <2> SUFFICES ASSUME PipelineInv, BufferInv, phase = "exit", ~ Aborted
               PROVE  live = UNION {ToSet(queued[c]) : c \in Chn}
    BY DEF NoLeakAtExit
  <2>1. CoreTypeOK
    BY DEF PipelineInv, TypeOK
  <2>2. MemInv /\ ExitInv
    BY <2>1, BufferParts
  <2>3. stack = <<>> /\ todo = <<>> /\ \A c \in Chn : pipe[c] = <<>> /\ idles[c] = <<>>
    BY <2>2 DEF ExitInv, Idle
  <2>4. ASSUME NEW b \in live PROVE \E c \in Chn : b \in ToSet(queued[c])
    <3>1. b \in Buffer
      BY <2>1 DEF CoreTypeOK, BufTypeOK
    <3>2. ~ (Refs(b) > 0)
      BY <2>1, <2>3, <3>1, RefsShown
    <3>3. ~ (refcnt[b] > 0)
      BY <2>2, <3>1, <3>2 DEF MemInv, CountInv
    <3> QED
      BY <2>2, <3>3 DEF MemInv, NoLeak
  <2>5. ASSUME NEW c \in Chn, NEW b \in ToSet(queued[c]) PROVE b \in live
    BY <2>2, <2>5 DEF MemInv, LiveInv, ToSet
  <2> QED
    BY <2>4, <2>5
<1> QED
  BY <1>1, PipelineInvariant, BufferInvariant, PTL

-----------------------------------------------------------------------------
(* The order of the pictures. *)

(* The pictures P of the first n buffers of s rise from above x to at most  *)
(* y; an empty buffer has picture 0.                                        *)
Rising(P, x, s, n, y) ==
    /\ x <= y
    /\ \A i \in 1 .. n : P[s[i]] # 0 => x < P[s[i]] /\ P[s[i]] <= y
    /\ \A i, j \in 1 .. n : i < j /\ P[s[i]] # 0 /\ P[s[j]] # 0 => P[s[i]] < P[s[j]]

(* Only the pictures at the positions matter. *)
LEMMA RisingSame ==
    ASSUME NEW P, NEW Q, NEW x, NEW y, NEW s, NEW t, NEW n \in Nat, Rising(P, x, s, n, y),
           \A i \in 1 .. n : Q[t[i]] = P[s[i]]
    PROVE  Rising(Q, x, t, n, y)
BY DEF Rising

(* What is left when the first buffer is taken *)
LEMMA RisingTail ==
    ASSUME NEW P, NEW x \in Nat, NEW y \in Nat, NEW s, NEW t, NEW n \in Nat, n > 0,
           Rising(P, x, s, n, y), \A i \in 1 .. n : P[s[i]] \in Nat,
           \A i \in 1 .. n - 1 : t[i] = s[i + 1]
    PROVE  /\ P[s[1]] = 0 => Rising(P, x, t, n - 1, y)
           /\ P[s[1]] # 0 => Rising(P, P[s[1]], t, n - 1, y) /\ P[s[1]] > x
<1>1. \A i \in 1 .. n - 1 : i + 1 \in 1 .. n /\ 1 < i + 1
  OBVIOUS
<1>2. \A i, j \in 1 .. n - 1 : i < j => i + 1 < j + 1
  OBVIOUS
<1>3. 1 \in 1 .. n
  OBVIOUS
<1>4. /\ x <= y
      /\ \A i \in 1 .. n : P[s[i]] # 0 => x < P[s[i]] /\ P[s[i]] <= y
      /\ \A i, j \in 1 .. n : i < j /\ P[s[i]] # 0 /\ P[s[j]] # 0 => P[s[i]] < P[s[j]]
  BY DEF Rising
<1>5. ASSUME NEW i \in 1 .. n - 1, NEW j \in 1 .. n - 1, i < j, P[t[i]] # 0, P[t[j]] # 0
      PROVE  P[t[i]] < P[t[j]]
  <2>1. i + 1 \in 1 .. n /\ j + 1 \in 1 .. n /\ i + 1 < j + 1
    BY <1>1, <1>2, <1>5
  <2>2. P[s[i + 1]] # 0 /\ P[s[j + 1]] # 0 => P[s[i + 1]] < P[s[j + 1]]
    BY <1>4, <2>1
  <2> QED
    BY <1>5, <2>2
<1>6. P[s[1]] = 0 => Rising(P, x, t, n - 1, y)
  BY <1>1, <1>4, <1>5 DEF Rising
<1>7. P[s[1]] # 0 => Rising(P, P[s[1]], t, n - 1, y) /\ P[s[1]] > x
  BY <1>1, <1>3, <1>4, <1>5 DEF Rising
<1> QED
  BY <1>6, <1>7

(* A later picture, or an empty buffer, is appended. *)
LEMMA RisingAppend ==
    ASSUME NEW P, NEW Q, NEW x \in Nat, NEW y \in Nat, NEW z \in Nat, NEW s, NEW t, NEW n \in Nat,
           Rising(P, x, s, n, y), \A i \in 1 .. n : P[s[i]] \in Nat,
           \A i \in 1 .. n : Q[t[i]] = P[s[i]],
           y <= z, Q[t[n + 1]] = 0 \/ (Q[t[n + 1]] = z /\ y < z)
    PROVE  Rising(Q, x, t, n + 1, z)
<1>1. /\ x <= y
      /\ \A i \in 1 .. n : P[s[i]] # 0 => x < P[s[i]] /\ P[s[i]] <= y
      /\ \A i, j \in 1 .. n : i < j /\ P[s[i]] # 0 /\ P[s[j]] # 0 => P[s[i]] < P[s[j]]
  BY DEF Rising
<1>2. \A i \in 1 .. n + 1 : i \in 1 .. n \/ i = n + 1
  OBVIOUS
<1>3. \A i, j \in 1 .. n + 1 : i < j => i \in 1 .. n
  OBVIOUS
<1>4. ASSUME NEW i \in 1 .. n + 1, Q[t[i]] # 0 PROVE x < Q[t[i]] /\ Q[t[i]] <= z
  <2>1. CASE i \in 1 .. n
    <3>1. P[s[i]] \in Nat /\ x < P[s[i]] /\ P[s[i]] <= y /\ Q[t[i]] = P[s[i]]
      BY <1>1, <1>4, <2>1
    <3> QED
      BY <3>1
  <2>2. CASE i = n + 1
    BY <1>1, <1>4, <2>2
  <2> QED
    BY <1>2, <2>1, <2>2
<1>5. ASSUME NEW i \in 1 .. n + 1, NEW j \in 1 .. n + 1, i < j, Q[t[i]] # 0, Q[t[j]] # 0
      PROVE  Q[t[i]] < Q[t[j]]
  <2>1. i \in 1 .. n /\ P[s[i]] \in Nat /\ P[s[i]] <= y /\ Q[t[i]] = P[s[i]]
    BY <1>1, <1>3, <1>5
  <2>2. CASE j \in 1 .. n
    <3>1. Q[t[j]] = P[s[j]] /\ P[s[i]] < P[s[j]]
      BY <1>1, <1>5, <2>1, <2>2
    <3> QED
      BY <2>1, <3>1
  <2>3. CASE j = n + 1
    BY <1>5, <2>1, <2>3
  <2> QED
    BY <1>2, <2>2, <2>3
<1> QED
  BY <1>1, <1>4, <1>5 DEF Rising

(* A suspended push has not reached its sink d. *)
Unserved(f, d) ==
    LET n == Len(Outs[f.chn])
    IN  \E k \in 1 .. n : Outs[f.chn][k] = d /\ f.pos <= n + k
Pending(f, d) == pic[f.buf] # 0 /\ Unserved(f, d)

(* tk is the last picture each channel has taken (an ifile has read), sn    *)
(* the last one each was sent.  The pictures rise along the pipes: what a   *)
(* channel has written or taken, what waits in its pipe, what its source is *)
(* pushing, and what the source will take next.                             *)
PipesRise(tk, sn) ==
    \A d \in Chn : Source[d] # None => Rising(pic, tk[d], pipe[d], Len(pipe[d]), sn[d])
SentTaken(tk, sn) == \A d \in Chn : Source[d] # None => sn[d] <= tk[Source[d]]
FramesRise(tk, sn) ==
    \A i \in DOMAIN stack :
        /\ pic[stack[i].buf] # 0 => pic[stack[i].buf] = tk[stack[i].chn]
        /\ \A d \in Chn : Pending(stack[i], d) => sn[d] < pic[stack[i].buf]
RootsRise(tk) ==
    \A c \in Chn :
        /\ Kind[c] = "ifile" => tk[c] = nread[c]
        /\ Kind[c] = "capture" => Rising(pic, tk[c], queued[c], done[c], ndec)
FilesRise(tk) ==
    \A c \in Chn :
        /\ \A i \in DOMAIN written[c] : written[c][i] <= tk[c]
        /\ \A i, j \in DOMAIN written[c] : i < j => written[c][i] < written[c][j]
Ordered(tk, sn) ==
    /\ PipesRise(tk, sn) /\ SentTaken(tk, sn) /\ FramesRise(tk, sn)
    /\ RootsRise(tk) /\ FilesRise(tk)

(* An idle buffer has no other reference and no LAST flag. *)
IdleInv ==
    \A c \in Chn : \A i \in DOMAIN idles[c] : refcnt[idles[c][i]] = 1 /\ ~ lastf[idles[c][i]]

Counters == [Chn -> Nat]
PictureInv == IdleInv /\ \E tk, sn \in Counters : Ordered(tk, sn)

-----------------------------------------------------------------------------
(* Who holds a buffer whose picture changes. *)

(* The holders of a buffer are finitely many. *)
LEMMA HoldersFinite ==
    ASSUME CoreTypeOK, NEW b \in Buffer
    PROVE  IsFiniteSet(Holders(b))
<1>1. /\ idles \in [Chn -> Seq(Buffer)] /\ pipe \in [Chn -> Seq(Buffer)]
      /\ todo \in Seq(Buffer) /\ stack \in Seq(Frame)
  BY DEF CoreTypeOK, QTypeOK, CtlTypeOK
<1> DEFINE B == {j \in DOMAIN stack : stack[j].own /\ stack[j].buf = b}
           I == {j \in DOMAIN stack : stack[j].inb = b}
<1>2. IsFiniteSet(DOMAIN stack) /\ IsFiniteSet(At(todo, b))
  <2>1. DOMAIN stack = 1 .. Len(stack) /\ Len(stack) \in Nat
    BY <1>1
  <2> QED
    BY <1>1, <2>1, FS_Interval, NumType
<1>3. IsFiniteSet(B) /\ IsFiniteSet(I)
  BY <1>2, FS_Subset
<1>4. /\ IsFiniteSet(InQueues("idles", idles, b)) /\ IsFiniteSet(InQueues("pipe", pipe, b))
  BY <1>1, FamFinite, Zenon
<1>5. /\ IsFiniteSet(Places("todo", None, At(todo, b)))
      /\ IsFiniteSet(Places("buf", None, B)) /\ IsFiniteSet(Places("inb", None, I))
  BY <1>2, <1>3, PlacesCard
<1>6. Holders(b) = InQueues("idles", idles, b) \cup InQueues("pipe", pipe, b)
                   \cup Places("todo", None, At(todo, b))
                   \cup Places("buf", None, B) \cup Places("inb", None, I)
  BY DEF Holders
<1> HIDE DEF B, I
<1> QED
  BY <1>4, <1>5, <1>6, FS_Union, Zenon

(* Where a buffer lies apart from the idle lists *)
InUse(b) ==
    \/ \E c \in Chn : \E i \in DOMAIN pipe[c] : pipe[c][i] = b
    \/ \E i \in DOMAIN todo : todo[i] = b
    \/ \E i \in DOMAIN stack : stack[i].buf = b \/ stack[i].inb = b

(* A buffer with one reference is at one place. *)
LEMMA HeldOnce ==
    ASSUME CoreTypeOK, MemInv, NEW b \in Buffer, refcnt[b] = 1,
           NEW c \in Chn, NEW i \in DOMAIN idles[c], idles[c][i] = b
    PROVE  /\ ~ InUse(b)
           /\ \A d \in Chn : \A j \in DOMAIN idles[d] : idles[d][j] = b => d = c /\ j = i
<1>1. Cardinality(Holders(b)) = 1
  BY HoldersCard DEF MemInv, CountInv
<1>2. \A p, q \in Holders(b) : p = q
  <2>1. IsFiniteSet(Holders(b))
    BY HoldersFinite
  <2> QED
    BY <1>1, <2>1, FS_Singleton
<1>3. <<"idles", c, i>> \in Holders(b)
  BY DEF Holders, InQueues, Places, At
<1>4. ASSUME NEW d \in Chn, NEW j \in DOMAIN idles[d], idles[d][j] = b
      PROVE  d = c /\ j = i
  <2>1. <<"idles", d, j>> \in Holders(b)
    BY <1>4 DEF Holders, InQueues, Places, At
  <2>2. <<"idles", d, j>> = <<"idles", c, i>>
    BY <1>2, <1>3, <2>1
  <2> QED
    BY <2>2
<1>5. ASSUME NEW d \in Chn, NEW j \in DOMAIN pipe[d], pipe[d][j] = b
      PROVE  FALSE
  <2>1. <<"pipe", d, j>> \in Holders(b)
    BY <1>5 DEF Holders, InQueues, Places, At
  <2>2. <<"pipe", d, j>> = <<"idles", c, i>>
    BY <1>2, <1>3, <2>1
  <2> QED
    BY <2>2
<1>6. ASSUME NEW j \in DOMAIN todo, todo[j] = b
      PROVE  FALSE
  <2>1. <<"todo", None, j>> \in Holders(b)
    BY <1>6 DEF Holders, Places, At
  <2>2. <<"todo", None, j>> = <<"idles", c, i>>
    BY <1>2, <1>3, <2>1
  <2> QED
    BY <2>2
<1>7. ASSUME NEW j \in DOMAIN stack, stack[j].inb = b
      PROVE  FALSE
  <2>1. <<"inb", None, j>> \in Holders(b)
    BY <1>7 DEF Holders, Places
  <2>2. <<"inb", None, j>> = <<"idles", c, i>>
    BY <1>2, <1>3, <2>1
  <2> QED
    BY <2>2
<1>8. ASSUME NEW j \in DOMAIN stack, stack[j].own, stack[j].buf = b
      PROVE  FALSE
  <2>1. <<"buf", None, j>> \in Holders(b)
    BY <1>8 DEF Holders, Places
  <2>2. <<"buf", None, j>> = <<"idles", c, i>>
    BY <1>2, <1>3, <2>1
  <2> QED
    BY <2>2
<1>9. \A j \in DOMAIN stack : stack[j].own \/ stack[j].inb = stack[j].buf
  BY DEF MemInv, PlaceInv, FramesHold, Holding
<1> QED
  BY <1>4, <1>5, <1>6, <1>7, <1>8, <1>9 DEF InUse

(* A buffer the driver has, or whose last reference is gone, is nowhere. *)
LEMMA HeldByNone ==
    ASSUME CoreTypeOK, MemInv, NEW b \in Buffer, refcnt[b] = 0
    PROVE  /\ ~ InUse(b)
           /\ \A c \in Chn : \A i \in DOMAIN idles[c] : idles[c][i] # b
<1>1. Refs(b) = 0
  BY DEF MemInv, CountInv
<1>2. ~ (Refs(b) > 0)
  BY <1>1
<1>3. \A j \in DOMAIN stack : stack[j].own \/ stack[j].inb = stack[j].buf
  BY DEF MemInv, PlaceInv, FramesHold, Holding
<1> QED
  BY <1>2, <1>3, RefsShown DEF InUse

(* What an idle list holds *)
LEMMA IdleAlone ==
    ASSUME CoreTypeOK, MemInv, IdleInv, NEW c \in Chn, NEW i \in DOMAIN idles[c]
    PROVE  /\ idles[c][i] \in Buffer /\ ~ InUse(idles[c][i])
           /\ \A d \in Chn : \A j \in DOMAIN queued[d] : queued[d][j] # idles[c][i]
           /\ \A d \in Chn : \A j \in DOMAIN idles[d] : idles[d][j] = idles[c][i] => d = c /\ j = i
<1>1. idles[c] \in Seq(Buffer)
  BY QueueOf
<1>2. idles[c][i] \in Buffer /\ refcnt[idles[c][i]] = 1
  BY <1>1 DEF IdleInv
<1>3. \A d \in Chn : \A j \in DOMAIN queued[d] : refcnt[queued[d][j]] = 0
  BY DEF MemInv, QueuedInv
<1> QED
  BY <1>2, <1>3, HeldOnce

(* What the driver has *)
LEMMA QueuedAlone ==
    ASSUME CoreTypeOK, MemInv, NEW c \in Chn, NEW i \in DOMAIN queued[c]
    PROVE  /\ queued[c][i] \in Buffer /\ ~ InUse(queued[c][i])
           /\ \A d \in Chn : \A j \in DOMAIN idles[d] : idles[d][j] # queued[c][i]
           /\ \A d \in Chn : \A j \in DOMAIN queued[d] : queued[d][j] = queued[c][i] => d = c /\ j = i
<1>1. queued[c] \in Seq(Buffer)
  BY QueueOf
<1>2. queued[c][i] \in Buffer /\ refcnt[queued[c][i]] = 0
  BY <1>1 DEF MemInv, QueuedInv
<1>3. /\ \A d \in Chn : \A j \in DOMAIN queued[d] : Owner(queued[d][j]) = d
      /\ \A j \in DOMAIN queued[c] : queued[c][j] = queued[c][i] => j = i
  BY DEF MemInv, QueuedInv, PlaceInv, QueuedOwned
<1>4. \A d \in Chn : \A j \in DOMAIN queued[d] : queued[d][j] = queued[c][i] => d = c
  BY <1>3
<1> QED
  BY <1>2, <1>3, <1>4, HeldByNone

(* A channel with a buffer in its pipe has a source. *)
LEMMA PipeSource ==
    ASSUME CoreTypeOK, MemInv, NEW d \in Chn, pipe[d] # <<>>
    PROVE  Source[d] \in Chn
<1> DEFINE D == {e \in Chn : Source[e] \in Chn}
<1>1. pipe[d] \in Seq(Buffer)
  BY QueueOf
<1>2. 1 \in DOMAIN pipe[d] /\ pipe[d][1] \in Buffer
  BY <1>1
<1>3. d \in Below(Owner(pipe[d][1])) /\ Owner(pipe[d][1]) \in Chn
  BY <1>2, OwnerOf DEF MemInv, PlaceInv, PipeBelow
<1>4. \A c \in Chn : SinksIn(c, D)
  BY DEF SinksIn
<1>5. D \in SUBSET Chn
  OBVIOUS
<1> HIDE DEF D
<1>6. d \in D
  BY <1>3, <1>4, <1>5 DEF Below
<1> QED
  BY <1>6 DEF D

-----------------------------------------------------------------------------
(* Idle buffers. *)

(* The steps that move no buffer and change no picture *)
pictureVars == <<pic, lastf, done, nread, written, ndec>>

(* A step that leaves the picture variables alone keeps the idle buffers as they were. *)
LEMMA QuietPictures ==
    /\ stop_done /\ UNCHANGED <<drvVars, appVars>> => UNCHANGED pictureVars
    /\ pitcher_start_end \/ stop_chn_end \/ run_chn => UNCHANGED pictureVars
    /\ pitcher_loop_run \/ timer_func \/ main_exit => UNCHANGED pictureVars
    /\ DriverChange \/ sig_handler \/ Done \/ UNCHANGED vars => UNCHANGED pictureVars
    /\ \A c \in Chn :
         /\ process_chn_stopped(c) /\ UNCHANGED <<drvVars, appVars>> => UNCHANGED pictureVars
         /\ process_chn_active(c) => UNCHANGED pictureVars
         /\ check_ctrl_ready(c) \/ check_v4l2_ready(c) => UNCHANGED pictureVars
         /\ \A why \in {"timeout", "event"} : poll_func(c, why) => UNCHANGED pictureVars
<1> USE DEF pictureVars, coreVars, qVars, bufVars, drvVars, appVars
<1>1. stop_done /\ UNCHANGED <<drvVars, appVars>> => UNCHANGED pictureVars
  BY DEF stop_done
<1>2. pitcher_start_end \/ stop_chn_end \/ run_chn => UNCHANGED pictureVars
  BY DEF pitcher_start_end, stop_chn_end, run_chn
<1>3. pitcher_loop_run \/ timer_func \/ main_exit => UNCHANGED pictureVars
  BY DEF pitcher_loop_run, timer_func, main_exit
<1>4. DriverChange \/ sig_handler \/ Done \/ UNCHANGED vars => UNCHANGED pictureVars
  BY DEF DriverChange, sig_handler, Done, vars
<1>5. ASSUME NEW c \in Chn
      PROVE  /\ process_chn_stopped(c) /\ UNCHANGED <<drvVars, appVars>> => UNCHANGED pictureVars
             /\ process_chn_active(c) => UNCHANGED pictureVars
  BY DEF process_chn_stopped, process_chn_active
<1>6. ASSUME NEW c \in Chn
      PROVE  check_ctrl_ready(c) \/ check_v4l2_ready(c) => UNCHANGED pictureVars
  BY DEF check_ctrl_ready, check_v4l2_ready
<1>7. ASSUME NEW c \in Chn, NEW why \in {"timeout", "event"}
      PROVE  poll_func(c, why) => UNCHANGED pictureVars
  BY DEF poll_func
<1> QED
  BY <1>1, <1>2, <1>3, <1>4, <1>5, <1>6, <1>7

(* A step that leaves the buffers of the idle lists alone *)
LEMMA IdleKept ==
    ASSUME IdleInv,
           \A c \in Chn : \A i \in DOMAIN idles'[c] :
               \E j \in DOMAIN idles[c] :
                  /\ idles'[c][i] = idles[c][j] /\ refcnt'[idles[c][j]] = refcnt[idles[c][j]]
                  /\ lastf'[idles[c][j]] => lastf[idles[c][j]]
    PROVE  IdleInv'
BY DEF IdleInv

(* The same when no buffer changes. *)
LEMMA IdleSame ==
    ASSUME IdleInv, UNCHANGED <<idles, refcnt, lastf>>
    PROVE  IdleInv'
BY DEF IdleInv

(* A channel gives its idle buffers away. *)
LEMMA IdleEmptied ==
    ASSUME IdleInv, CoreTypeOK, NEW c \in Chn, idles' = [idles EXCEPT ![c] = <<>>],
           UNCHANGED <<refcnt, lastf>>
    PROVE  IdleInv'
<1>1. idles'[c] = <<>> /\ \A d \in Chn : d # c => idles'[d] = idles[d]
  BY DEF CoreTypeOK, QTypeOK
<1>2. \A i \in DOMAIN idles'[c] : FALSE
  BY <1>1
<1> QED
  BY <1>1, <1>2 DEF IdleInv

(* A channel takes the first of them. *)
LEMMA IdleTaken ==
    ASSUME IdleInv, CoreTypeOK, MemInv, NEW c \in Chn, Took(idles, idles', c), UNCHANGED refcnt,
           \A b \in Buffer : lastf'[b] => lastf[b] \/ b = Head(idles[c])
    PROVE  IdleInv'
<1>1. idles \in Queues
  BY DEF CoreTypeOK, QTypeOK, Queues
<1>2. /\ 1 \in DOMAIN idles[c] /\ Head(idles[c]) = idles[c][1]
      /\ \A d \in Chn : d # c => idles'[d] = idles[d]
      /\ \A i \in DOMAIN idles'[c] : i + 1 \in DOMAIN idles[c] /\ idles'[c][i] = idles[c][i + 1]
      /\ idles'[c] \in Seq(Buffer)
  BY <1>1, TakeHead
<1>3. ASSUME NEW d \in Chn, NEW i \in DOMAIN idles'[d]
      PROVE  \E j \in DOMAIN idles[d] :
                  /\ idles'[d][i] = idles[d][j] /\ refcnt'[idles[d][j]] = refcnt[idles[d][j]]
                  /\ lastf'[idles[d][j]] => lastf[idles[d][j]]
  <2> DEFINE j == IF d = c THEN i + 1 ELSE i
  <2>1. j \in DOMAIN idles[d] /\ idles'[d][i] = idles[d][j]
    BY <1>2
  <2>2. d = c => j # 1
    <3>1. (i \in Nat /\ i > 0) \/ d # c
      BY <1>2
    <3> QED
      BY <3>1
  <2> HIDE DEF j
  <2>3. idles[d][j] # idles[c][1] /\ idles[d][j] \in Buffer
    BY <1>2, <2>1, <2>2, IdleAlone
  <2> QED
    BY <1>2, <2>1, <2>3
<1> QED
  BY <1>3, IdleKept

(* Buffers change that are in use or with the driver. *)
LEMMA IdleElsewhere ==
    ASSUME IdleInv, CoreTypeOK, MemInv, UNCHANGED idles, NEW x \in Buffer,
           InUse(x) \/ \E c \in Chn : \E i \in DOMAIN queued[c] : queued[c][i] = x,
           \A b \in Buffer : b # x => refcnt'[b] = refcnt[b] /\ lastf'[b] = lastf[b]
    PROVE  IdleInv'
<1>1. ASSUME NEW c \in Chn, NEW i \in DOMAIN idles[c]
      PROVE  idles[c][i] # x /\ idles[c][i] \in Buffer
  BY IdleAlone
<1> QED
  BY <1>1, IdleKept

(* A channel is started. *)
LEMMA IdleStart ==
    ASSUME IdleInv, CoreTypeOK, MemInv, NEW c \in Chn, start_chn(c)
    PROVE  IdleInv'
<1>0. idles \in [Chn -> Seq(Buffer)] /\ refcnt \in [Buffer -> Nat] /\ lastf \in [Buffer -> BOOLEAN]
  BY DEF CoreTypeOK, QTypeOK, BufTypeOK
<1>1. CASE UNCHANGED <<idles, refcnt, lastf>>
  BY <1>1, IdleSame
<1>2. ASSUME NEW got \in alloc_buffer(c), unit_start(c, got) PROVE IdleInv'
  <2>1. got \in Seq(Buffer) /\ ToSet(got) \subseteq Buffer
    BY AllocType
  <2>2. lastf' = [b \in Buffer |-> lastf[b] /\ b \notin ToSet(got)]
    BY <1>2 DEF unit_start
  <2>3. CASE Kind[c] = "capture"
    <3>1. UNCHANGED <<idles, refcnt>>
      BY <1>2, <2>3 DEF unit_start, start_v4l2
    <3>2. \A d \in Chn : \A i \in DOMAIN idles[d] : idles[d][i] \in Buffer
      BY <1>0
    <3> QED
      BY <1>0, <2>2, <3>1, <3>2 DEF IdleInv
  <2>4. CASE Kind[c] # "capture"
    <3>1. /\ idles' = [idles EXCEPT ![c] = @ \o got]
          /\ refcnt' = [b \in Buffer |-> IF b \in ToSet(got) THEN 1 ELSE refcnt[b]]
      BY <1>2, <2>4 DEF unit_start
    <3>2. ASSUME NEW d \in Chn, NEW i \in DOMAIN idles[d]
          PROVE  idles[d][i] \in Buffer /\ refcnt'[idles[d][i]] = 1 /\ ~ lastf'[idles[d][i]]
      <4>1. idles[d][i] \in Buffer
        BY <1>0
      <4> QED
        BY <2>2, <3>1, <4>1, Zenon DEF IdleInv
    <3>3. ASSUME NEW i \in DOMAIN got PROVE refcnt'[got[i]] = 1 /\ ~ lastf'[got[i]]
      <4>1. got[i] \in Buffer /\ got[i] \in ToSet(got)
        BY <2>1 DEF ToSet
      <4> QED
        BY <2>2, <3>1, <4>1, Zenon
    <3>4. ASSUME NEW i \in DOMAIN (idles[c] \o got)
          PROVE  \/ \E j \in DOMAIN idles[c] : (idles[c] \o got)[i] = idles[c][j]
                 \/ \E j \in DOMAIN got : (idles[c] \o got)[i] = got[j]
      <4>1. idles[c] \in Seq(Buffer)
        BY <1>0
      <4> QED
        BY <2>1, <4>1, ConcatProperties
    <3>5. idles'[c] = idles[c] \o got /\ \A d \in Chn : d # c => idles'[d] = idles[d]
      BY <1>0, <3>1
    <3>6. ASSUME NEW i \in DOMAIN idles'[c]
          PROVE  refcnt'[idles'[c][i]] = 1 /\ ~ lastf'[idles'[c][i]]
      <4>1. CASE \E j \in DOMAIN idles[c] : idles'[c][i] = idles[c][j]
        BY <3>2, <4>1
      <4>2. CASE \E j \in DOMAIN got : idles'[c][i] = got[j]
        BY <3>3, <4>2
      <4> QED
        BY <3>4, <3>5, <4>1, <4>2
    <3>7. ASSUME NEW d \in Chn, NEW i \in DOMAIN idles'[d]
          PROVE  refcnt'[idles'[d][i]] = 1 /\ ~ lastf'[idles'[d][i]]
      BY <3>2, <3>5, <3>6, Zenon
    <3> QED
      BY <3>7 DEF IdleInv
  <2> QED
    BY <2>3, <2>4
<1>3. ASSUME NEW got \in alloc_buffer(c), streamon_fail(c, got)
      PROVE  UNCHANGED <<idles, refcnt, lastf>>
  BY <1>3 DEF streamon_fail, start_v4l2
<1> QED
  BY <1>1, <1>2, <1>3 DEF start_chn, bufVars

(* A released buffer is idle with the reference of the list. *)
LEMMA IdleRelease ==
    ASSUME IdleInv, CoreTypeOK, MemInv, release_buffer
    PROVE  IdleInv'
<1> DEFINE h == Head(todo)
           o == Owner(h)
           r == recycle(h)
<1>1. /\ todo # <<>> /\ lastf' = [lastf EXCEPT ![h] = FALSE]
      /\ refcnt' = [refcnt EXCEPT ![h] = IF r = "idle" THEN 1 ELSE 0]
      /\ idles' = [idles EXCEPT ![o] = IF r = "idle" THEN Append(@, h) ELSE @]
  BY DEF release_buffer
<1>2. /\ todo \in Seq(Buffer) /\ refcnt \in [Buffer -> Nat] /\ lastf \in [Buffer -> BOOLEAN]
      /\ idles \in [Chn -> Seq(Buffer)]
  BY Zenon DEF CoreTypeOK, CtlTypeOK, BufTypeOK, QTypeOK
<1>3. h \in Buffer /\ InUse(h)
  <2>1. h \in Buffer /\ 1 \in DOMAIN todo /\ h = todo[1]
    BY <1>1, <1>2, NumHead
  <2> QED
    BY <2>1 DEF InUse
<1>4. o \in Chn /\ idles[o] \in Seq(Buffer)
  BY <1>2, <1>3, OwnerOf
<1> HIDE DEF h, o, r
<1>5. ASSUME NEW d \in Chn, NEW i \in DOMAIN idles[d]
      PROVE  refcnt'[idles[d][i]] = 1 /\ ~ lastf'[idles[d][i]]
  <2>1. idles[d][i] # h /\ idles[d][i] \in Buffer
    BY <1>3, IdleAlone
  <2> QED
    BY <1>1, <1>2, <2>1 DEF IdleInv
<1>6. ASSUME r = "idle" PROVE refcnt'[h] = 1 /\ ~ lastf'[h]
  BY <1>1, <1>2, <1>3, <1>6
<1>7. \A i \in DOMAIN Append(idles[o], h) :
         Append(idles[o], h)[i] = h \/ (i \in DOMAIN idles[o] /\ Append(idles[o], h)[i] = idles[o][i])
  BY <1>3, <1>4, AppendProperties
<1>8. \A d \in Chn : idles'[d] = idles[d] \/ (d = o /\ r = "idle" /\ idles'[d] = Append(idles[o], h))
  BY <1>1, <1>2, <1>4
<1> QED
  BY <1>5, <1>6, <1>7, <1>8 DEF IdleInv

(* The top of the stack is in use. *)
LEMMA TopInUse ==
    ASSUME CoreTypeOK, stack # <<>>
    PROVE  top.buf \in Buffer /\ InUse(top.buf)
<1>1. Len(stack) \in DOMAIN stack /\ top = stack[Len(stack)] /\ top \in Frame
  BY StackShape DEF CoreTypeOK
<1> QED
  BY <1>1 DEF Frame, InUse

(* Every step keeps the idle buffers unreferenced and unmarked. *)
LEMMA IdleStep ==
    ASSUME PipelineInv, MemInv, IdleInv, [Next]_vars
    PROVE  IdleInv'
<1>1. CoreTypeOK /\ MainTypeOK /\ DoneInv
  BY DEF PipelineInv, TypeOK
<1>2. /\ todo \in Seq(Buffer) /\ refcnt \in [Buffer -> Nat] /\ lastf \in [Buffer -> BOOLEAN]
      /\ idles \in [Chn -> Seq(Buffer)] /\ queued \in [Chn -> Seq(Buffer)] /\ done \in [Chn -> Nat]
  BY <1>1, Zenon DEF CoreTypeOK, CtlTypeOK, BufTypeOK, QTypeOK
<1>3. UNCHANGED memVars /\ UNCHANGED pictureVars => IdleInv'
  <2>1. UNCHANGED memVars /\ UNCHANGED pictureVars => UNCHANGED <<idles, refcnt, lastf>>
    BY DEF memVars, pictureVars
  <2> QED
    BY <2>1, IdleSame
<1>4. ASSUME NEW c \in Chn, unit_stop(c) PROVE IdleInv'
  <2>1. idles' = [idles EXCEPT ![c] = <<>>] /\ UNCHANGED <<refcnt, lastf>>
    BY <1>4 DEF unit_stop
  <2> QED
    BY <1>1, <2>1, IdleEmptied, Zenon
<1>5. CASE put_shared
  <2>1. /\ todo # <<>> /\ refcnt[Head(todo)] # 1 /\ UNCHANGED <<idles, lastf>>
        /\ refcnt' = [refcnt EXCEPT ![Head(todo)] = IF @ = 0 THEN 0 ELSE @ - 1]
    BY <1>5 DEF put_shared, qVars
  <2>2. Head(todo) \in Buffer /\ 1 \in DOMAIN todo /\ Head(todo) = todo[1]
    BY <1>2, <2>1, NumHead
  <2>3. InUse(Head(todo))
    BY <2>2 DEF InUse
  <2>4. \A b \in Buffer : b # Head(todo) => refcnt'[b] = refcnt[b] /\ lastf'[b] = lastf[b]
    BY <1>2, <2>1
  <2> QED
    BY <1>1, <2>1, <2>2, <2>3, <2>4, IdleElsewhere
<1>6. CASE pipe_push_back
  <2>1. /\ stack # <<>> /\ refcnt' = [refcnt EXCEPT ![top.buf] = @ + 1] /\ UNCHANGED <<idles, lastf>>
    BY <1>6 DEF pipe_push_back, Running
  <2>2. top.buf \in Buffer /\ InUse(top.buf)
    BY <1>1, <2>1, TopInUse
  <2>3. \A b \in Buffer : b # top.buf => refcnt'[b] = refcnt[b] /\ lastf'[b] = lastf[b]
    BY <1>2, <2>1
  <2> QED
    BY <1>1, <2>1, <2>2, <2>3, IdleElsewhere
<1>7. CASE start_sink_chn
  <2> DEFINE d == Outs[top.chn][top.pos]
  <2>1. /\ stack # <<>> /\ top.pos <= Len(Outs[top.chn])
        /\ start_chn(d) \/ UNCHANGED <<idles, bufVars>>
    BY <1>7 DEF start_sink_chn, Running
  <2>2. d \in Chn
    <3>1. top \in Frame
      BY <1>1, <2>1, StackShape DEF CoreTypeOK
    <3>2. top.chn \in Chn /\ top.pos \in DOMAIN Outs[top.chn]
      BY <2>1, <3>1, CoreAssumption DEF Frame
    <3> QED
      BY <3>2, SinkOf
  <2> HIDE DEF d
  <2> QED
    BY <1>1, <2>1, <2>2, IdleStart, IdleSame DEF bufVars
<1>8. CASE push_return
  BY <1>8, IdleSame DEF push_return, qVars, bufVars
<1>9. CASE CoreStep
  <2>1. ASSUME NEW c \in Chn, process_chn_stopping(c) PROVE IdleInv'
    <3>1. unit_stop(c) \/ UNCHANGED <<idles, refcnt, lastf>>
      BY <2>1 DEF process_chn_stopping, qVars, bufVars
    <3> QED
      BY <1>4, <3>1, IdleSame
  <2>2. UNCHANGED <<drvVars, appVars>>
    BY <1>9 DEF CoreStep
  <2>3. ASSUME NEW c \in Chn, process_chn_stopped(c) PROVE IdleInv'
    BY <1>3, <2>2, <2>3, QuietSteps, QuietPictures
  <2>4. CASE stop_done
    BY <1>3, <2>2, <2>4, QuietSteps, QuietPictures
  <2>5. CASE release_buffer
    BY <1>1, <2>5, IdleRelease
  <2> QED
    BY <1>5, <1>6, <1>7, <1>8, <1>9, <2>1, <2>3, <2>4, <2>5 DEF CoreStep, CoreNext
<1>10. CASE pitcher_start
  <2>1. Cur \in Chn /\ (start_chn(Cur) \/ UNCHANGED <<idles, bufVars>>)
    BY <1>1, <1>10, CurChn DEF pitcher_start
  <2> QED
    BY <1>1, <2>1, IdleStart, IdleSame DEF bufVars
<1>11. CASE stop_chn
  <2>1. Cur \in Chn /\ (unit_stop(Cur) \/ UNCHANGED <<idles, refcnt, lastf>>)
    BY <1>1, <1>11, CurChn DEF stop_chn, coreVars, qVars, bufVars
  <2> QED
    BY <1>4, <2>1, IdleSame
<1>12. ASSUME NEW c \in Chn, is_decoder_output_finish(c) PROVE IdleInv'
  <2>1. Capture \in Chn
    BY <1>12, CoreAssumption, PipelineAssumption DEF is_decoder_output_finish, Active
  <2>2. start_chn(Capture) \/ UNCHANGED <<idles, bufVars>>
    BY <1>12 DEF is_decoder_output_finish, handle_decoder_resolution_change
  <2> QED
    BY <1>1, <2>1, <2>2, IdleStart, IdleSame DEF bufVars
<1>13. ASSUME NEW c \in Chn, teardown(c) PROVE IdleInv'
  <2>1. idles' = [idles EXCEPT ![c] = <<>>] /\ UNCHANGED <<refcnt, lastf>>
    BY <1>13 DEF teardown, bufVars
  <2> QED
    BY <1>1, <2>1, IdleEmptied, Zenon
<1>14. ASSUME NEW c \in Chn, ifile_run(c) PROVE IdleInv'
  <2> DEFINE b == Head(idles[c])
  <2>1. /\ Ready(c) /\ Kind[c] = "ifile" /\ idles' = [idles EXCEPT ![c] = Tail(@)] /\ refcnt' = refcnt
        /\ lastf' = [lastf EXCEPT ![b] = @ \/ nread[c] + 1 = FrameNum]
    BY <1>14 DEF ifile_run, Active
  <2>2. idles[c] # <<>>
    BY <2>1 DEF Ready, ifile_checkready
  <2>3. \A x \in Buffer : lastf'[x] => lastf[x] \/ x = b
    BY <1>2, <2>1
  <2> QED
    BY <1>1, <2>1, <2>2, <2>3, IdleTaken, Zenon DEF Took
<1>15. ASSUME NEW c \in Chn, convert_run(c) PROVE IdleInv'
  <2>1. /\ Ready(c) /\ Kind[c] \in {"convert", "g2d"} /\ UNCHANGED <<refcnt, lastf>>
        /\ idles' = idles \/ (c \notin Passthru /\ idles' = [idles EXCEPT ![c] = Tail(@)])
    BY <1>15 DEF convert_run, Active
  <2>2. c \notin Passthru => idles[c] # <<>>
    BY <2>1, Zenon DEF Ready, convert_checkready
  <2> QED
    BY <1>1, <2>1, <2>2, IdleTaken, IdleSame DEF Took
<1>16. ASSUME NEW c \in Chn, ofile_run(c) PROVE IdleInv'
  BY <1>16, IdleSame DEF ofile_run, bufVars
<1>17. ASSUME NEW c \in Chn, run_v4l2(c) PROVE IdleInv'
  <2>1. CASE done[c] > 0
    <3>1. /\ refcnt' = [refcnt EXCEPT ![Head(queued[c])] = @ + 1] /\ UNCHANGED <<idles, lastf>>
      BY <1>17, <2>1, Zenon DEF run_v4l2
    <3>2. queued[c] \in Seq(Buffer) /\ queued[c] # <<>>
      BY <1>1, <1>2, <2>1 DEF DoneInv
    <3>3. Head(queued[c]) \in Buffer /\ 1 \in DOMAIN queued[c] /\ Head(queued[c]) = queued[c][1]
      BY <3>2, NumHead
    <3>4. \A b \in Buffer : b # Head(queued[c]) => refcnt'[b] = refcnt[b] /\ lastf'[b] = lastf[b]
      BY <1>2, <3>1
    <3> QED
      BY <1>1, <3>1, <3>3, <3>4, IdleElsewhere
  <2>2. CASE ~ (done[c] > 0)
    BY <1>17, <2>2, IdleSame, Zenon DEF run_v4l2
  <2> QED
    BY <2>1, <2>2
<1>18. CASE DriverDecode \/ DriverEos
  <2>1. Output # None /\ UNCHANGED <<idles, refcnt>>
    BY <1>18, Zenon DEF DriverDecode, DriverEos
  <2>2. Capture \in Chn /\ queued[Capture] \in Seq(Buffer) /\ done[Capture] \in Nat
    BY <1>2, <2>1, PipelineAssumption
  <2>3. ASSUME NEW i \in DOMAIN queued[Capture], NEW l,
               lastf' = [lastf EXCEPT ![queued[Capture][i]] = l]
        PROVE  IdleInv'
    <3>1. queued[Capture][i] \in Buffer
      BY <2>2
    <3>2. \A b \in Buffer : b # queued[Capture][i] => refcnt'[b] = refcnt[b] /\ lastf'[b] = lastf[b]
      BY <1>2, <2>1, <2>3
    <3> QED
      BY <1>1, <2>1, <2>2, <3>1, <3>2, IdleElsewhere
  <2>4. ASSUME NEW p, NEW l, Free, Fill(p, l) PROVE IdleInv'
    <3>1. done[Capture] + 1 \in DOMAIN queued[Capture]
      BY <2>2, <2>4 DEF Free
    <3>2. lastf' = [lastf EXCEPT ![queued[Capture][done[Capture] + 1]] = l]
      BY <2>4 DEF Fill
    <3> QED
      BY <2>3, <3>1, <3>2, Zenon
  <2>5. CASE DriverDecode
    BY <2>4, <2>5, Zenon DEF DriverDecode
  <2>6. CASE DriverEos
    <3>1. \/ lastf' = lastf
          \/ Free /\ Fill(0, TRUE)
          \/ /\ done[Capture] > 0
             /\ lastf' = [lastf EXCEPT ![queued[Capture][done[Capture]]] = TRUE]
      BY <2>6, Zenon DEF DriverEos
    <3>2. done[Capture] > 0 => done[Capture] \in DOMAIN queued[Capture]
      BY <1>1, <2>2 DEF DoneInv
    <3>3. CASE lastf' = lastf
      BY <2>1, <3>3, IdleSame
    <3>4. CASE Free /\ Fill(0, TRUE)
      BY <2>4, <3>4, Zenon
    <3>5. CASE /\ done[Capture] > 0
               /\ lastf' = [lastf EXCEPT ![queued[Capture][done[Capture]]] = TRUE]
      BY <2>3, <3>2, <3>5, Zenon
    <3> QED
      BY <3>1, <3>3, <3>4, <3>5, Zenon
  <2> QED
    BY <1>18, <2>5, <2>6
<1>19. CASE MainNext
  BY <1>3, <1>9, <1>10, <1>11, <1>12, <1>13, <1>14, <1>15, <1>16, <1>17, <1>19,
     QuietSteps, QuietPictures DEF MainNext
<1>20. CASE DriverNext
  <2>1. DriverChange => IdleInv'
    BY <1>3, QuietSteps, QuietPictures DEF DriverNext
  <2> QED
    BY <1>18, <1>20, <2>1 DEF DriverNext
<1> QED
  BY <1>3, <1>19, <1>20, QuietSteps, QuietPictures DEF Next

-----------------------------------------------------------------------------
(* The steps in which no channel takes or sends a picture. *)

(* The suspended pushes after the step are earlier ones, perhaps further on. *)
FramesCarried ==
    \A i \in DOMAIN stack' : \E j \in DOMAIN stack :
        /\ stack'[i].chn = stack[j].chn /\ stack'[i].buf = stack[j].buf
        /\ stack'[i].pos >= stack[j].pos

(* Pictures, pipes and filled buffers stay, or a pipe or a queue is emptied. *)
Carried ==
    /\ UNCHANGED <<pic, nread, written, ndec>> /\ FramesCarried
    /\ \A c \in Chn : pipe'[c] = pipe[c] \/ pipe'[c] = <<>>
    /\ \A c \in Chn : \/ done'[c] = 0
                      \/ /\ done'[c] = done[c]
                         /\ \A i \in 1 .. done[c] : queued'[c][i] = queued[c][i]

(* An empty pipe rises from any picture to any later one. *)
LEMMA RisingEmpty ==
    ASSUME NEW P, NEW Q, NEW x, NEW y, NEW s, NEW t, NEW n, Rising(P, x, s, n, y)
    PROVE  Rising(Q, x, t, 0, y)
<1>1. \A i \in 1 .. 0 : FALSE
  OBVIOUS
<1> QED
  BY <1>1 DEF Rising

(* A push that is further on has no more sinks to serve. *)
LEMMA UnservedLater ==
    ASSUME NEW f \in Frame, NEW g \in Frame, f.chn = g.chn, f.pos >= g.pos,
           NEW d \in Chn, Unserved(f, d)
    PROVE  Unserved(g, d)
<1>1. g.chn \in Chn /\ f.pos \in Nat /\ g.pos \in Nat
  BY DEF Frame
<1>2. Len(Outs[g.chn]) \in Nat
  BY <1>1, CoreAssumption
<1> QED
  BY <1>1, <1>2 DEF Unserved

(* A carried step keeps the order: an emptied pipe has sent what was taken. *)
LEMMA OrderedCarried ==
    ASSUME PipelineInv, PipelineInv', Carried, NEW tk \in Counters, NEW sn \in Counters,
           Ordered(tk, sn)
    PROVE  Ordered(tk, sn)'
<1>1. /\ CoreTypeOK /\ CtlTypeOK /\ CtlTypeOK' /\ QTypeOK /\ pic' = pic /\ nread' = nread
      /\ written' = written /\ ndec' = ndec
  BY DEF PipelineInv, TypeOK, CoreTypeOK, Carried
<1>2. PipesRise(tk, sn)'
  <2> SUFFICES ASSUME NEW d \in Chn, Source[d] # None
               PROVE  Rising(pic', tk[d], pipe'[d], Len(pipe'[d]), sn[d])
    BY DEF PipesRise
  <2>1. Rising(pic, tk[d], pipe[d], Len(pipe[d]), sn[d])
    BY DEF Ordered, PipesRise
  <2>2. CASE pipe'[d] = pipe[d]
    BY <1>1, <2>1, <2>2
  <2>3. CASE pipe'[d] = <<>>
    BY <2>1, <2>3, RisingEmpty
  <2> QED
    BY <2>2, <2>3 DEF Carried
<1>3. SentTaken(tk, sn)'
  BY DEF Ordered, SentTaken
<1>4. FramesRise(tk, sn)'
  <2> SUFFICES ASSUME NEW i \in DOMAIN stack'
               PROVE  /\ pic'[stack'[i].buf] # 0 => pic'[stack'[i].buf] = tk[stack'[i].chn]
                      /\ \A d \in Chn : pic'[stack'[i].buf] # 0 /\ Unserved(stack'[i], d)
                                        => sn[d] < pic'[stack'[i].buf]
    BY DEF FramesRise, Pending, Unserved
  <2>1. PICK j \in DOMAIN stack : /\ stack'[i].chn = stack[j].chn /\ stack'[i].buf = stack[j].buf
                                  /\ stack'[i].pos >= stack[j].pos
    BY DEF Carried, FramesCarried
  <2>2. stack'[i] \in Frame /\ stack[j] \in Frame
    BY <1>1 DEF CtlTypeOK
  <2>3. /\ pic[stack[j].buf] # 0 => pic[stack[j].buf] = tk[stack[j].chn]
        /\ \A d \in Chn : Pending(stack[j], d) => sn[d] < pic[stack[j].buf]
    BY DEF Ordered, FramesRise
  <2>4. \A d \in Chn : Unserved(stack'[i], d) => Unserved(stack[j], d)
    BY <2>1, <2>2, UnservedLater
  <2> QED
    BY <1>1, <2>1, <2>3, <2>4 DEF Pending
<1>5. RootsRise(tk)'
  <2> SUFFICES ASSUME NEW c \in Chn
               PROVE  /\ Kind[c] = "ifile" => tk[c] = nread'[c]
                      /\ Kind[c] = "capture" => Rising(pic', tk[c], queued'[c], done'[c], ndec')
    BY DEF RootsRise
  <2>1. /\ Kind[c] = "ifile" => tk[c] = nread[c]
        /\ Kind[c] = "capture" => Rising(pic, tk[c], queued[c], done[c], ndec)
    BY DEF Ordered, RootsRise
  <2>2. CASE done'[c] = 0
    BY <1>1, <2>1, <2>2, RisingEmpty
  <2>3. CASE done'[c] = done[c] /\ \A i \in 1 .. done[c] : queued'[c][i] = queued[c][i]
    <3>1. done[c] \in Nat
      BY <1>1 DEF QTypeOK
    <3> QED
      BY <1>1, <2>1, <2>3, <3>1, RisingSame
  <2> QED
    BY <2>2, <2>3 DEF Carried
<1>6. FilesRise(tk)'
  BY <1>1 DEF Ordered, FilesRise
<1> QED
  BY <1>2, <1>3, <1>4, <1>5, <1>6 DEF Ordered

(* What the stack holds *)
LEMMA StackFrames ==
    ASSUME CtlTypeOK
    PROVE  \A i \in DOMAIN stack :
              /\ stack[i] \in Frame /\ stack[i].pos \in Nat /\ stack[i].pos > 0
              /\ stack[i].chn \in Chn /\ stack[i].buf \in Buffer
<1>1. \A i \in DOMAIN stack : stack[i] \in Frame
  BY DEF CtlTypeOK
<1>2. \A f \in Frame : f.pos \in Nat /\ f.pos > 0 /\ f.chn \in Chn /\ f.buf \in Buffer
  BY DEF Frame
<1> QED
  BY <1>1, <1>2

(* A step that leaves pictures, pipes and pushes alone is carried. *)
LEMMA CarriedSame ==
    ASSUME UNCHANGED <<pic, nread, written, ndec, pipe, stack, queued, done>>, CtlTypeOK
    PROVE  Carried
<1>1. FramesCarried
  <2>1. \A i \in DOMAIN stack : stack[i].pos \in Nat
    BY StackFrames
  <2>2. \A i \in DOMAIN stack : stack[i].pos >= stack[i].pos
    BY <2>1
  <2> QED
    BY <2>2 DEF FramesCarried
<1> QED
  BY <1>1 DEF Carried

(* Starting a channel gives the driver more buffers at most. *)
LEMMA StartQueues ==
    ASSUME CoreTypeOK, NEW c \in Chn, start_chn(c)
    PROVE  pic' = pic /\ \A d \in Chn : \A i \in DOMAIN queued[d] : queued'[d][i] = queued[d][i]
<1>0. queued \in [Chn -> Seq(Buffer)]
  BY DEF CoreTypeOK, QTypeOK
<1>1. CASE UNCHANGED <<pic, queued>>
  BY <1>1
<1>2. ASSUME NEW got \in alloc_buffer(c), queued' = [queued EXCEPT ![c] = @ \o got]
      PROVE  \A d \in Chn : \A i \in DOMAIN queued[d] : queued'[d][i] = queued[d][i]
  <2>1. got \in Seq(Buffer) /\ queued[c] \in Seq(Buffer)
    BY <1>0, AllocType
  <2>2. \A i \in DOMAIN queued[c] : (queued[c] \o got)[i] = queued[c][i]
    BY <2>1, ConcatProperties
  <2> QED
    BY <1>0, <1>2, <2>2
<1>3. ASSUME NEW got \in alloc_buffer(c), unit_start(c, got)
      PROVE  queued' = queued \/ queued' = [queued EXCEPT ![c] = @ \o got]
  BY <1>3 DEF unit_start, start_v4l2
<1>4. ASSUME NEW got \in alloc_buffer(c), streamon_fail(c, got)
      PROVE  queued' = [queued EXCEPT ![c] = @ \o got] /\ pic' = pic
  BY <1>4 DEF streamon_fail, start_v4l2
<1> QED
  BY <1>1, <1>2, <1>3, <1>4, Zenon DEF start_chn, bufVars

(* Starting a channel is carried (unit.c 24-39). *)
LEMMA CarriedStart ==
    ASSUME CoreTypeOK, DoneInv, NEW c \in Chn, start_chn(c), FramesCarried,
           UNCHANGED <<nread, written, ndec, pipe, done>>
    PROVE  Carried
<1>1. pic' = pic /\ \A d \in Chn : \A i \in DOMAIN queued[d] : queued'[d][i] = queued[d][i]
  BY StartQueues
<1>2. \A d \in Chn : \A i \in 1 .. done[d] : i \in DOMAIN queued[d]
  <2>1. \A d \in Chn : queued[d] \in Seq(Buffer) /\ done[d] \in Nat /\ done[d] <= Len(queued[d])
    BY DEF CoreTypeOK, QTypeOK, DoneInv
  <2> QED
    BY <2>1
<1> QED
  BY <1>1, <1>2 DEF Carried

(* Stopping a channel empties its pipe and its queue (unit.c 41-56). *)
LEMMA CarriedStop ==
    ASSUME CoreTypeOK, NEW c \in Chn, unit_stop(c), UNCHANGED <<nread, written, ndec>>
    PROVE  Carried
<1>0. pipe \in Queues /\ queued \in Queues /\ done \in [Chn -> Nat] /\ CtlTypeOK
  BY DEF CoreTypeOK, QTypeOK, Queues
<1>1. /\ UNCHANGED <<pic, stack>> /\ pipe' = [pipe EXCEPT ![c] = <<>>]
      /\ queued' = [queued EXCEPT ![c] = <<>>] /\ done' = [done EXCEPT ![c] = 0]
  BY DEF unit_stop, stop_v4l2
<1>2. FramesCarried
  <2>1. \A i \in DOMAIN stack : stack[i].pos \in Nat
    BY <1>0, StackFrames
  <2> QED
    BY <1>1, <2>1 DEF FramesCarried
<1> QED
  BY <1>0, <1>1, <1>2 DEF Carried, Queues

(* The frames hold what they held when the top one moves on. *)
LEMMA AdvancedSame ==
    ASSUME CtlTypeOK, stack # <<>>, NEW i \in DOMAIN stack
    PROVE  /\ Advanced[i].chn = stack[i].chn /\ Advanced[i].buf = stack[i].buf
           /\ Advanced[i].inb = stack[i].inb /\ Advanced[i].own = stack[i].own
<1>1. stack \in Seq(Frame) /\ DOMAIN Advanced = DOMAIN stack /\ Len(stack) \in DOMAIN stack
  BY StackShape DEF CtlTypeOK
<1>2. stack[i] \in Frame
  BY <1>1
<1> QED
  BY <1>1, <1>2 DEF Advanced, Frame

(* The sinks of a push are fed by the channel that pushes. *)
LEMMA UnservedSink ==
    ASSUME NEW f \in Frame, NEW d \in Chn, Unserved(f, d)
    PROVE  Source[d] = f.chn
<1>1. f.chn \in Chn
  BY DEF Frame
<1>2. PICK k \in 1 .. Len(Outs[f.chn]) : Outs[f.chn][k] = d
  BY DEF Unserved
<1>3. k \in DOMAIN Outs[f.chn]
  BY <1>1, <1>2, CoreAssumption
<1> QED
  BY <1>1, <1>2, <1>3, SinkOf

(* The top push moves on, or ends. *)
LEMMA AdvancedFrames ==
    ASSUME CtlTypeOK, stack # <<>>, stack' = Advanced
    PROVE  FramesCarried
<1>1. /\ DOMAIN stack' = DOMAIN stack /\ Len(stack) \in DOMAIN stack
      /\ stack'[Len(stack)].chn = stack[Len(stack)].chn
      /\ stack'[Len(stack)].pos = stack[Len(stack)].pos + 1
      /\ \A i \in DOMAIN stack : i # Len(stack) => stack'[i] = stack[i]
  BY AdvancedTop
<1>2. \A i \in DOMAIN stack : stack[i] \in Frame /\ stack[i].pos \in Nat
  BY StackFrames
<1>3. stack'[Len(stack)].buf = stack[Len(stack)].buf
  BY <1>1, AdvancedSame
<1>4. \A i \in DOMAIN stack :
         /\ stack'[i].chn = stack[i].chn /\ stack'[i].buf = stack[i].buf
         /\ stack'[i].pos >= stack[i].pos
  BY <1>1, <1>2, <1>3
<1> QED
  BY <1>1, <1>4 DEF FramesCarried

(* Every other step is carried. *)
LEMMA CarriedStep ==
    ASSUME PipelineInv, MemInv, [Next]_vars, ~ pipe_push_back, ~ DriverDecode, ~ DriverEos,
           \A c \in Chn : ~ ifile_run(c) /\ ~ convert_run(c) /\ ~ ofile_run(c) /\ ~ run_v4l2(c)
    PROVE  Carried
<1>1. CoreTypeOK /\ MainTypeOK /\ DoneInv /\ CtlTypeOK
  BY DEF PipelineInv, TypeOK, CoreTypeOK
<1>2. UNCHANGED memVars /\ UNCHANGED pictureVars => Carried
  <2>1. UNCHANGED memVars /\ UNCHANGED pictureVars
          => UNCHANGED <<pic, nread, written, ndec, pipe, stack, queued, done>>
    BY DEF memVars, pictureVars
  <2> QED
    BY <1>1, <2>1, CarriedSame
<1>3. \A i \in DOMAIN stack : stack[i] \in Frame /\ stack[i].pos \in Nat
  BY <1>1, StackFrames
<1>4. UNCHANGED stack => FramesCarried
  BY <1>3 DEF FramesCarried
<1>5. CASE CoreStep
  <2>1. UNCHANGED <<drvVars, appVars>> /\ UNCHANGED <<nread, written, ndec>>
    BY <1>5 DEF CoreStep, drvVars, appVars
  <2>2. ASSUME NEW c \in Chn, process_chn_stopping(c) PROVE Carried
    <3>1. unit_stop(c) \/ UNCHANGED <<pic, pipe, stack, queued, done>>
      BY <2>2 DEF process_chn_stopping, qVars, bufVars
    <3> QED
      BY <1>1, <2>1, <3>1, CarriedStop, CarriedSame
  <2>3. ASSUME NEW c \in Chn, process_chn_stopped(c) PROVE Carried
    BY <1>2, <2>1, <2>3, QuietSteps, QuietPictures
  <2>4. CASE stop_done
    BY <1>2, <2>1, <2>4, QuietSteps, QuietPictures
  <2>5. CASE put_shared
    BY <1>1, <2>1, <2>5, CarriedSame DEF put_shared, qVars
  <2>6. CASE release_buffer
    <3> DEFINE h == Head(todo)
               o == Owner(h)
               r == recycle(h)
    <3>1. /\ todo # <<>> /\ UNCHANGED <<pic, pipe, stack, done>>
          /\ queued' = [queued EXCEPT ![o] = IF r = "queue" THEN Append(@, h) ELSE @]
      BY <2>6 DEF release_buffer
    <3>2. /\ queued \in Queues /\ done \in [Chn -> Nat] /\ todo \in Seq(Buffer)
      BY <1>1 DEF CoreTypeOK, QTypeOK, Queues, CtlTypeOK
    <3>3. h \in Buffer
      BY <1>1, <3>1, TodoHead
    <3>4. o \in Chn
      BY <3>3, OwnerOf
    <3> HIDE DEF h, o, r
    <3>5. ASSUME NEW c \in Chn, NEW i \in 1 .. done[c] PROVE queued'[c][i] = queued[c][i]
      <4>1. queued[c] \in Seq(Buffer) /\ done[c] \in Nat /\ done[c] <= Len(queued[c])
        BY <1>1, <3>2 DEF DoneInv, Queues
      <4>2. i \in 1 .. Len(queued[c])
        BY <4>1
      <4>3. Append(queued[c], h)[i] = queued[c][i]
        BY <3>3, <4>1, <4>2, AppendProperties
      <4> QED
        BY <3>1, <3>2, <3>4, <4>3, Zenon DEF Queues
    <3> QED
      BY <1>4, <2>1, <3>1, <3>5, Zenon DEF Carried
  <2>7. CASE start_sink_chn
    <3> DEFINE d == Outs[top.chn][top.pos]
    <3>1. /\ stack # <<>> /\ top.pos <= Len(Outs[top.chn]) /\ stack' = Advanced
          /\ start_chn(d) \/ UNCHANGED <<queued, bufVars>>
          /\ UNCHANGED <<pipe, done>>
      BY <2>7 DEF start_sink_chn, Running
    <3>2. d \in Chn
      <4>1. top \in Frame
        BY <1>1, <3>1, StackShape
      <4>2. top.chn \in Chn /\ top.pos \in DOMAIN Outs[top.chn]
        BY <3>1, <4>1, CoreAssumption DEF Frame
      <4> QED
        BY <4>2, SinkOf
    <3> HIDE DEF d
    <3>3. FramesCarried
      BY <1>1, <1>3, <3>1, AdvancedFrames
    <3>4. CASE UNCHANGED <<queued, bufVars>>
      BY <2>1, <3>1, <3>3, <3>4 DEF Carried, bufVars
    <3> QED
      BY <1>1, <2>1, <3>1, <3>2, <3>3, <3>4, CarriedStart
  <2>8. CASE push_return
    <3>1. stack # <<>> /\ stack' = Front(stack) /\ UNCHANGED <<pic, pipe, queued, done>>
      BY <2>8 DEF push_return, Running, qVars, bufVars
    <3>2. DOMAIN stack' \subseteq DOMAIN stack /\ \A i \in DOMAIN stack' : stack'[i] = stack[i]
      BY <1>1, <3>1, StackShape
    <3>3. FramesCarried
      BY <1>3, <3>2 DEF FramesCarried
    <3> QED
      BY <2>1, <3>1, <3>3 DEF Carried
  <2> QED
    BY <1>5, <2>2, <2>3, <2>4, <2>5, <2>6, <2>7, <2>8 DEF CoreStep, CoreNext
<1>6. CASE pitcher_start
  <2>1. /\ Cur \in Chn /\ (start_chn(Cur) \/ UNCHANGED <<queued, bufVars>>)
        /\ UNCHANGED <<nread, written, ndec, pipe, done, stack>>
    BY <1>1, <1>6, CurChn DEF pitcher_start, appVars, drvVars, ctlVars
  <2>2. CASE UNCHANGED <<queued, bufVars>>
    BY <1>1, <2>1, <2>2, CarriedSame DEF bufVars
  <2> QED
    BY <1>1, <1>4, <2>1, <2>2, CarriedStart
<1>7. CASE stop_chn
  <2>1. /\ Cur \in Chn /\ (unit_stop(Cur) \/ UNCHANGED <<pic, pipe, stack, queued, done>>)
        /\ UNCHANGED <<nread, written, ndec>>
    BY <1>1, <1>7, CurChn DEF stop_chn, coreVars, qVars, bufVars, ctlVars, appVars, drvVars
  <2> QED
    BY <1>1, <2>1, CarriedStop, CarriedSame
<1>8. ASSUME NEW c \in Chn, is_decoder_output_finish(c) PROVE Carried
  <2>1. Capture \in Chn
    BY <1>8, CoreAssumption, PipelineAssumption DEF is_decoder_output_finish, Active
  <2>2. /\ start_chn(Capture) \/ UNCHANGED <<queued, bufVars>>
        /\ UNCHANGED <<nread, written, ndec, pipe, done, stack>>
    BY <1>8 DEF is_decoder_output_finish, handle_decoder_resolution_change, appVars, ctlVars
  <2>3. CASE UNCHANGED <<queued, bufVars>>
    BY <1>1, <2>2, <2>3, CarriedSame DEF bufVars
  <2> QED
    BY <1>1, <1>4, <2>1, <2>2, <2>3, CarriedStart
<1>9. ASSUME NEW c \in Chn, teardown(c) PROVE Carried
  <2>1. /\ pipe' = [pipe EXCEPT ![c] = <<>>] /\ UNCHANGED <<queued, done, pic, stack, nread, written, ndec>>
    BY <1>9 DEF teardown, bufVars, appVars, drvVars
  <2>2. pipe \in Queues
    BY <1>1 DEF CoreTypeOK, QTypeOK, Queues
  <2> QED
    BY <1>4, <2>1, <2>2 DEF Carried, Queues
<1>10. CASE MainNext
  BY <1>2, <1>5, <1>6, <1>7, <1>8, <1>9, <1>10, QuietSteps, QuietPictures DEF MainNext
<1>11. CASE DriverNext
  <2>1. DriverChange
    BY <1>11 DEF DriverNext
  <2> QED
    BY <1>2, <1>11, <2>1, QuietSteps, QuietPictures
<1> QED
  BY <1>2, <1>10, <1>11, QuietSteps, QuietPictures DEF Next

-----------------------------------------------------------------------------
(* The run callbacks: a channel takes a picture. *)

(* No push of the running channel is suspended. *)
LEMMA RunsOnce ==
    ASSUME PipelineInv, NEW c \in Chn, call = c
    PROVE  \A i \in DOMAIN stack : stack[i].chn # c
<1>1. \A i \in DOMAIN stack : Before(stack[i].chn, c)
  BY CoreAssumption DEF PipelineInv, ChainInv
<1> QED
  BY <1>1, BeforeOrder

(* What a channel has taken after the buffer b, which may have no picture *)
Picture(x, b) == IF pic[b] = 0 THEN x ELSE pic[b]

(* Channel c takes the picture p, or none when p is the last it took. *)
Takes(tk, sn, c, p) ==
    /\ call = c /\ p \in Nat /\ tk[c] <= p
    /\ \A i \in DOMAIN stack' :
          \/ i \in DOMAIN stack /\ stack'[i] = stack[i] /\ pic'[stack[i].buf] = pic[stack[i].buf]
          \/ /\ stack'[i].chn = c
             /\ pic'[stack'[i].buf] # 0 => pic'[stack'[i].buf] = p /\ tk[c] < p
    /\ \A d \in Chn \ {c} :
          /\ pipe'[d] = pipe[d] /\ \A i \in DOMAIN pipe[d] : pic'[pipe[d][i]] = pic[pipe[d][i]]
          /\ nread'[d] = nread[d] /\ written'[d] = written[d]
          /\ done'[d] = done[d]
          /\ \A i \in 1 .. done[d] : queued'[d][i] = queued[d][i] /\ pic'[queued[d][i]] = pic[queued[d][i]]
    /\ ndec' = ndec
    /\ Source[c] # None => Rising(pic', p, pipe'[c], Len(pipe'[c]), sn[c])
    /\ Kind[c] = "ifile" => p = nread'[c]
    /\ Kind[c] = "capture" => Rising(pic', p, queued'[c], done'[c], ndec)
    /\ \A i \in DOMAIN written'[c] : written'[c][i] <= p
    /\ \A i, j \in DOMAIN written'[c] : i < j => written'[c][i] < written'[c][j]

(* A channel takes a later picture and begins to push it. *)
LEMMA OrderedTakes ==
    ASSUME PipelineInv, PipelineInv', NEW tk \in Counters, NEW sn \in Counters, Ordered(tk, sn),
           NEW c \in Chn, NEW p, Takes(tk, sn, c, p)
    PROVE  [tk EXCEPT ![c] = p] \in Counters /\ Ordered([tk EXCEPT ![c] = p], sn)'
<1>0. /\ call = c /\ p \in Nat /\ tk[c] <= p
      /\ \A i \in DOMAIN stack' :
            \/ i \in DOMAIN stack /\ stack'[i] = stack[i] /\ pic'[stack[i].buf] = pic[stack[i].buf]
            \/ /\ stack'[i].chn = c
               /\ pic'[stack'[i].buf] # 0 => pic'[stack'[i].buf] = p /\ tk[c] < p
      /\ \A d \in Chn \ {c} :
            /\ pipe'[d] = pipe[d] /\ \A i \in DOMAIN pipe[d] : pic'[pipe[d][i]] = pic[pipe[d][i]]
            /\ nread'[d] = nread[d] /\ written'[d] = written[d]
            /\ done'[d] = done[d]
            /\ \A i \in 1 .. done[d] : queued'[d][i] = queued[d][i] /\ pic'[queued[d][i]] = pic[queued[d][i]]
      /\ ndec' = ndec
      /\ Source[c] # None => Rising(pic', p, pipe'[c], Len(pipe'[c]), sn[c])
      /\ Kind[c] = "ifile" => p = nread'[c]
      /\ Kind[c] = "capture" => Rising(pic', p, queued'[c], done'[c], ndec)
      /\ \A i \in DOMAIN written'[c] : written'[c][i] <= p
      /\ \A i, j \in DOMAIN written'[c] : i < j => written'[c][i] < written'[c][j]
  BY DEF Takes
<1> DEFINE t == [tk EXCEPT ![c] = p]
<1>1. /\ t \in Counters /\ t[c] = p /\ \A d \in Chn : d # c => t[d] = tk[d]
      /\ \A d \in Chn : tk[d] \in Nat /\ sn[d] \in Nat /\ t[d] \in Nat /\ tk[d] <= t[d]
  BY <1>0 DEF Counters
<1> HIDE DEF t
<1>2. CtlTypeOK /\ CtlTypeOK' /\ QTypeOK /\ AppTypeOK
  BY DEF PipelineInv, TypeOK, CoreTypeOK
<1>3. \A i \in DOMAIN stack' : stack'[i] \in Frame
  BY <1>2 DEF CtlTypeOK
<1>4. PipesRise(t, sn)'
  <2> SUFFICES ASSUME NEW d \in Chn, Source[d] # None
               PROVE  Rising(pic', t[d], pipe'[d], Len(pipe'[d]), sn[d])
    BY DEF PipesRise
  <2>1. CASE d = c
    BY <1>0, <1>1, <2>1
  <2>2. CASE d # c
    <3>1. Rising(pic, tk[d], pipe[d], Len(pipe[d]), sn[d])
      BY DEF Ordered, PipesRise
    <3>2. pipe[d] \in Seq(Buffer)
      BY <1>2 DEF QTypeOK
    <3>3. Len(pipe[d]) \in Nat /\ DOMAIN pipe[d] = 1 .. Len(pipe[d])
      BY <3>2
    <3>4. pipe'[d] = pipe[d] /\ \A i \in 1 .. Len(pipe[d]) : pic'[pipe'[d][i]] = pic[pipe[d][i]]
      BY <1>0, <2>2, <3>3
    <3> QED
      BY <1>1, <2>2, <3>1, <3>3, <3>4, RisingSame
  <2> QED
    BY <2>1, <2>2
<1>5. SentTaken(t, sn)'
  <2> SUFFICES ASSUME NEW d \in Chn, Source[d] # None PROVE sn[d] <= t[Source[d]]
    BY DEF SentTaken
  <2>1. Source[d] \in Chn
    BY CoreAssumption
  <2>2. sn[d] <= tk[Source[d]]
    BY DEF Ordered, SentTaken
  <2> QED
    BY <1>1, <2>1, <2>2
<1>6. FramesRise(t, sn)'
  <2> SUFFICES ASSUME NEW i \in DOMAIN stack'
               PROVE  /\ pic'[stack'[i].buf] # 0 => pic'[stack'[i].buf] = t[stack'[i].chn]
                      /\ \A d \in Chn : pic'[stack'[i].buf] # 0 /\ Unserved(stack'[i], d)
                                        => sn[d] < pic'[stack'[i].buf]
    BY DEF FramesRise, Pending, Unserved
  <2>1. CASE i \in DOMAIN stack /\ stack'[i] = stack[i] /\ pic'[stack[i].buf] = pic[stack[i].buf]
    <3>1. stack[i].chn # c /\ stack[i].chn \in Chn
      BY <1>0, <1>2, <2>1, RunsOnce, StackFrames
    <3>2. /\ pic[stack[i].buf] # 0 => pic[stack[i].buf] = tk[stack[i].chn]
          /\ \A d \in Chn : Pending(stack[i], d) => sn[d] < pic[stack[i].buf]
      BY <2>1 DEF Ordered, FramesRise
    <3> QED
      BY <1>1, <2>1, <3>1, <3>2 DEF Pending
  <2>2. CASE /\ stack'[i].chn = c
             /\ pic'[stack'[i].buf] # 0 => pic'[stack'[i].buf] = p /\ tk[c] < p
    <3>1. ASSUME NEW d \in Chn, Unserved(stack'[i], d) PROVE Source[d] = c
      BY <2>2, <3>1, SinkOf, CoreAssumption DEF Unserved
    <3>2. \A d \in Chn : Source[d] = c => sn[d] <= tk[c]
      BY CoreAssumption, Zenon DEF Ordered, SentTaken
    <3> QED
      BY <1>0, <1>1, <2>2, <3>1, <3>2
  <2> QED
    BY <1>0, <2>1, <2>2
<1>7. RootsRise(t)'
  <2> SUFFICES ASSUME NEW d \in Chn
               PROVE  /\ Kind[d] = "ifile" => t[d] = nread'[d]
                      /\ Kind[d] = "capture" => Rising(pic', t[d], queued'[d], done'[d], ndec')
    BY DEF RootsRise
  <2>1. CASE d = c
    BY <1>0, <1>1, <2>1
  <2>2. CASE d # c
    <3>1. /\ Kind[d] = "ifile" => tk[d] = nread[d]
          /\ Kind[d] = "capture" => Rising(pic, tk[d], queued[d], done[d], ndec)
      BY DEF Ordered, RootsRise
    <3>2. done[d] \in Nat
      BY <1>2 DEF QTypeOK
    <3>3. /\ nread'[d] = nread[d] /\ done'[d] = done[d]
          /\ \A i \in 1 .. done[d] : pic'[queued'[d][i]] = pic[queued[d][i]]
      BY <1>0, <2>2
    <3> QED
      BY <1>0, <1>1, <2>2, <3>1, <3>2, <3>3, RisingSame
  <2> QED
    BY <2>1, <2>2
<1>8. FilesRise(t)'
  <2> SUFFICES ASSUME NEW d \in Chn
               PROVE  /\ \A i \in DOMAIN written'[d] : written'[d][i] <= t[d]
                      /\ \A i, j \in DOMAIN written'[d] : i < j => written'[d][i] < written'[d][j]
    BY DEF FilesRise
  <2>1. /\ \A i \in DOMAIN written[d] : written[d][i] <= tk[d]
        /\ \A i, j \in DOMAIN written[d] : i < j => written[d][i] < written[d][j]
    BY DEF Ordered, FilesRise
  <2> QED
    BY <1>0, <1>1, <2>1
<1> QED
  BY <1>1, <1>4, <1>5, <1>6, <1>7, <1>8 DEF Ordered, t

(* A push adds one frame. *)
LEMMA EnteredFrame ==
    ASSUME CtlTypeOK, NEW c \in Chn, NEW b \in Buffer, NEW y \in Buffer \cup {None},
           NEW w \in BOOLEAN, EnterPush(c, b, y, w)
    PROVE  /\ Len(stack) \in Nat /\ DOMAIN stack = 1 .. Len(stack) /\ DOMAIN stack' = 1 .. Len(stack) + 1
           /\ \A i \in DOMAIN stack : stack'[i] = stack[i]
           /\ stack'[Len(stack) + 1] = [chn |-> c, buf |-> b, inb |-> y, own |-> w, pos |-> 1]
<1> DEFINE f == [chn |-> c, buf |-> b, inb |-> y, own |-> w, pos |-> 1]
<1>1. f \in Frame
  BY DEF Frame
<1>2. stack \in Seq(Frame) /\ stack' = Append(stack, f)
  BY DEF CtlTypeOK, EnterPush
<1> HIDE DEF f
<1>3. /\ Len(stack) \in Nat /\ DOMAIN stack = 1 .. Len(stack) /\ DOMAIN stack' = 1 .. Len(stack) + 1
      /\ \A i \in 1 .. Len(stack) : stack'[i] = stack[i] /\ stack'[Len(stack) + 1] = f
      /\ stack'[Len(stack) + 1] = f
  BY <1>1, <1>2, AppendProperties
<1> QED
  BY <1>3 DEF f

(* The frames after a run callback *)
LEMMA TakesFrames ==
    ASSUME CtlTypeOK, NEW c \in Chn, NEW b \in Buffer, NEW y \in Buffer \cup {None},
           NEW w \in BOOLEAN, EnterPush(c, b, y, w),
           \A i \in DOMAIN stack : pic'[stack[i].buf] = pic[stack[i].buf]
    PROVE  \A i \in DOMAIN stack' :
             \/ i \in DOMAIN stack /\ stack'[i] = stack[i] /\ pic'[stack[i].buf] = pic[stack[i].buf]
             \/ stack'[i].chn = c /\ stack'[i].buf = b
<1> DEFINE f == [chn |-> c, buf |-> b, inb |-> y, own |-> w, pos |-> 1]
<1>0. f.chn = c /\ f.buf = b
  OBVIOUS
<1>1. /\ Len(stack) \in Nat /\ DOMAIN stack = 1 .. Len(stack) /\ DOMAIN stack' = 1 .. Len(stack) + 1
      /\ \A i \in DOMAIN stack : stack'[i] = stack[i]
      /\ stack'[Len(stack) + 1] = f
  BY EnteredFrame, Zenon
<1> HIDE DEF f
<1>2. \A i \in DOMAIN stack' : i \in DOMAIN stack \/ i = Len(stack) + 1
  BY <1>1
<1> QED
  BY <1>0, <1>1, <1>2

(* The picture of a buffer that is not in use changes. *)
LEMMA PicturesKept ==
    ASSUME CoreTypeOK, NEW x \in Buffer, ~ InUse(x), NEW p, pic' = [pic EXCEPT ![x] = p]
    PROVE  /\ \A d \in Chn : \A i \in DOMAIN pipe[d] : pic'[pipe[d][i]] = pic[pipe[d][i]]
           /\ \A i \in DOMAIN stack : pic'[stack[i].buf] = pic[stack[i].buf]
<1>1. \A b \in Buffer : b # x => pic'[b] = pic[b]
  BY DEF CoreTypeOK, BufTypeOK
<1>2. \A d \in Chn : \A i \in DOMAIN pipe[d] : pipe[d][i] \in Buffer
  <2>1. \A d \in Chn : pipe[d] \in Seq(Buffer)
    BY QueueOf
  <2> QED
    BY <2>1
<1>3. \A i \in DOMAIN stack : stack[i].buf \in Buffer
  BY StackFrames DEF CoreTypeOK
<1> QED
  BY <1>1, <1>2, <1>3 DEF InUse

(* The next picture of an input file is read (mxc_v4l2_vpu_enc.c 1825-1871). *)
LEMMA TakesIfile ==
    ASSUME PipelineInv, MemInv, IdleInv, NEW tk \in Counters, NEW sn \in Counters,
           Ordered(tk, sn), NEW c \in Chn, ifile_run(c)
    PROVE  \E p \in Nat : p = nread[c] + 1 /\ Takes(tk, sn, c, p)
<1> DEFINE b == Head(idles[c])
<1>1. /\ call = c /\ Kind[c] = "ifile" /\ Ready(c)
      /\ nread' = [nread EXCEPT ![c] = @ + 1] /\ pic' = [pic EXCEPT ![b] = nread[c] + 1]
      /\ EnterPush(c, b, None, TRUE)
      /\ UNCHANGED <<pipe, queued, done, written, ndec>>
  BY Zenon DEF ifile_run, Active, drvVars
<1>2. /\ CoreTypeOK /\ CtlTypeOK /\ nread \in [Chn -> 0 .. FrameNum]
      /\ pic \in [Buffer -> Nat] /\ queued \in Queues /\ DoneInv /\ done \in [Chn -> Nat]
  BY Zenon DEF PipelineInv, TypeOK, CoreTypeOK, AppTypeOK, BufTypeOK, QTypeOK, Queues
<1>3. idles[c] # <<>> /\ idles[c] \in Seq(Buffer)
  BY <1>1, <1>2, QueueOf DEF Ready, ifile_checkready
<1>4. 1 \in DOMAIN idles[c] /\ b = idles[c][1] /\ b \in Buffer
  BY <1>3, NumHead
<1>5. ~ InUse(b) /\ \A d \in Chn : \A j \in DOMAIN queued[d] : queued[d][j] # b
  BY <1>2, <1>4, IdleAlone
<1> HIDE DEF b
<1>6. /\ \A d \in Chn : \A i \in DOMAIN pipe[d] : pic'[pipe[d][i]] = pic[pipe[d][i]]
      /\ \A i \in DOMAIN stack : pic'[stack[i].buf] = pic[stack[i].buf]
  BY <1>1, <1>2, <1>4, <1>5, PicturesKept, Zenon
<1>7. \A d \in Chn : \A i \in 1 .. done[d] : pic'[queued[d][i]] = pic[queued[d][i]]
  <2> SUFFICES ASSUME NEW d \in Chn, NEW i \in 1 .. done[d] PROVE pic'[queued[d][i]] = pic[queued[d][i]]
    OBVIOUS
  <2>1. queued[d] \in Seq(Buffer) /\ done[d] \in Nat /\ done[d] <= Len(queued[d])
    BY <1>2 DEF DoneInv, Queues
  <2>2. i \in DOMAIN queued[d] /\ queued[d][i] \in Buffer
    BY <2>1
  <2> QED
    BY <1>1, <1>2, <1>4, <1>5, <2>2
<1>8. PICK p \in Nat : p = nread[c] + 1
  BY <1>2, PipelineAssumption
<1>9. tk[c] = nread[c] /\ tk[c] < p /\ nread'[c] = p /\ pic'[b] = p
  <2>1. tk[c] = nread[c]
    BY <1>1 DEF Ordered, RootsRise
  <2> QED
    BY <1>1, <1>2, <1>4, <1>8, <2>1, PipelineAssumption
<1>10. Source[c] = None
  BY <1>1, WiringAssumption, CoreAssumption, Zenon
<1>11. \A i \in DOMAIN written[c] : written[c][i] <= tk[c] /\ written[c][i] \in Nat
  <2>1. written[c] \in Seq(Nat)
    BY DEF PipelineInv, TypeOK, AppTypeOK
  <2> QED
    BY <2>1 DEF Ordered, FilesRise
<1>12. \A i \in DOMAIN written[c] : written[c][i] <= p
  BY <1>8, <1>9, <1>11, <1>2, PipelineAssumption
<1>13. \A i \in DOMAIN stack' :
          \/ i \in DOMAIN stack /\ stack'[i] = stack[i] /\ pic'[stack[i].buf] = pic[stack[i].buf]
          \/ stack'[i].chn = c /\ stack'[i].buf = b
  BY <1>1, <1>2, <1>4, <1>6, TakesFrames, Zenon
<1>14. \A i, j \in DOMAIN written[c] : i < j => written[c][i] < written[c][j]
  BY DEF Ordered, FilesRise
<1>15. tk[c] \in Nat
  BY DEF Counters
<1>16. Takes(tk, sn, c, p)
  <2>1. Kind[c] # "capture" /\ tk[c] <= p
    BY <1>1, <1>8, <1>9, <1>15
  <2>2. \A d \in Chn \ {c} : nread'[d] = nread[d]
    BY <1>1, <1>2
  <2> QED
    BY <1>1, <1>6, <1>7, <1>9, <1>10, <1>12, <1>13, <1>14, <2>1, <2>2 DEF Takes
<1> QED
  BY <1>8, <1>16

(* A channel takes the first buffer of its pipe. *)
LEMMA TailRises ==
    ASSUME PipelineInv, MemInv, NEW tk \in Counters, NEW sn \in Counters, Ordered(tk, sn),
           NEW c \in Chn, Took(pipe, pipe', c),
           \A i \in DOMAIN pipe[c] : pic'[pipe[c][i]] = pic[pipe[c][i]]
    PROVE  /\ Source[c] \in Chn /\ Head(pipe[c]) \in Buffer /\ pic[Head(pipe[c])] \in Nat
           /\ \A d \in Chn : d # c => pipe'[d] = pipe[d]
           /\ pic[Head(pipe[c])] = 0 => Rising(pic', tk[c], pipe'[c], Len(pipe'[c]), sn[c])
           /\ pic[Head(pipe[c])] # 0 =>
                /\ Rising(pic', pic[Head(pipe[c])], pipe'[c], Len(pipe'[c]), sn[c])
                /\ tk[c] < pic[Head(pipe[c])]
<1> DEFINE n == Len(pipe[c])
           x == pic[Head(pipe[c])]
<1>1. CoreTypeOK /\ pipe \in Queues /\ pic \in [Buffer -> Nat] /\ pipe[c] \in Seq(Buffer)
  BY DEF PipelineInv, TypeOK, CoreTypeOK, QTypeOK, BufTypeOK, Queues
<1>2. pipe[c] # <<>> /\ Source[c] \in Chn
  BY <1>1, PipeSource DEF Took
<1>3. /\ Head(pipe[c]) \in Buffer /\ Head(pipe[c]) = pipe[c][1]
      /\ pipe'[c] = Tail(pipe[c]) /\ pipe'[c] \in Seq(Buffer)
      /\ \A d \in Chn : d # c => pipe'[d] = pipe[d]
      /\ \A i \in DOMAIN pipe'[c] : i + 1 \in DOMAIN pipe[c] /\ pipe'[c][i] = pipe[c][i + 1]
  BY <1>1, TakeHead
<1>4. n \in Nat /\ n > 0 /\ Len(pipe'[c]) = n - 1 /\ n - 1 \in Nat
  <2>1. Len(Tail(pipe[c])) = Len(pipe[c]) - 1 /\ Len(pipe[c]) \in Nat /\ Len(pipe[c]) > 0
    BY <1>1, <1>2, HeadType DEF Queues
  <2> QED
    BY <1>3, <2>1
<1>5. DOMAIN pipe[c] = 1 .. n /\ DOMAIN pipe'[c] = 1 .. n - 1
  BY <1>1, <1>3, <1>4
<1>6. Rising(pic, tk[c], pipe[c], n, sn[c])
  BY <1>2, CoreAssumption DEF Ordered, PipesRise
<1>7. tk[c] \in Nat /\ sn[c] \in Nat
  BY DEF Counters
<1>8. \A i \in 1 .. n : pic[pipe[c][i]] \in Nat
  BY <1>1, <1>5
<1>9. \A i \in 1 .. n - 1 : pipe'[c][i] = pipe[c][i + 1] /\ pic'[pipe'[c][i]] = pic[pipe'[c][i]]
  BY <1>3, <1>5
<1> HIDE DEF n
<1>10. /\ x = 0 => Rising(pic, tk[c], pipe'[c], n - 1, sn[c])
       /\ x # 0 => Rising(pic, x, pipe'[c], n - 1, sn[c]) /\ x > tk[c]
  <2>1. /\ pic[pipe[c][1]] = 0 => Rising(pic, tk[c], pipe'[c], n - 1, sn[c])
        /\ pic[pipe[c][1]] # 0 => Rising(pic, pic[pipe[c][1]], pipe'[c], n - 1, sn[c])
                                  /\ pic[pipe[c][1]] > tk[c]
    <3>1. \A i \in 1 .. n - 1 : pipe'[c][i] = pipe[c][i + 1]
      BY <1>9
    <3>2. PICK k \in Nat : k = n /\ k > 0
      BY <1>4
    <3>3. PICK P, s, t : P = pic /\ s = pipe[c] /\ t = pipe'[c]
      OBVIOUS
    <3>4. PICK u \in Nat, v \in Nat : u = tk[c] /\ v = sn[c]
      BY <1>7
    <3>5. /\ Rising(P, u, s, k, v) /\ (\A i \in 1 .. k : P[s[i]] \in Nat)
          /\ \A i \in 1 .. k - 1 : t[i] = s[i + 1]
      BY <1>6, <1>8, <3>1, <3>2, <3>3, <3>4
    <3>6. /\ P[s[1]] = 0 => Rising(P, u, t, k - 1, v)
          /\ P[s[1]] # 0 => Rising(P, P[s[1]], t, k - 1, v) /\ P[s[1]] > u
      <4>1. Rising(P, u, s, k, v)
        BY <3>5
      <4>2. \A i \in 1 .. k : P[s[i]] \in Nat
        BY <3>5
      <4>3. \A i \in 1 .. k - 1 : t[i] = s[i + 1]
        BY <3>5
      <4>4. k > 0
        BY <3>2
      <4>5. u \in Nat /\ v \in Nat /\ k \in Nat
        OBVIOUS
      <4> QED
        BY <4>1, <4>2, <4>3, <4>4, <4>5, RisingTail, Zenon
    <3> QED
      BY <3>2, <3>3, <3>4, <3>6
  <2> QED
    BY <1>3, <2>1
<1>11. x \in Nat
  BY <1>1, <1>3
<1> HIDE DEF x
<1>12. /\ x = 0 => Rising(pic', tk[c], pipe'[c], n - 1, sn[c])
       /\ x # 0 => Rising(pic', x, pipe'[c], n - 1, sn[c])
  BY <1>4, <1>9, <1>10, RisingSame
<1> QED
  BY <1>2, <1>3, <1>4, <1>7, <1>10, <1>11, <1>12 DEF x

(* The files and the queues when nothing is written or dequeued *)
LEMMA FilesKept ==
    ASSUME PipelineInv, NEW tk \in Counters, NEW sn \in Counters, Ordered(tk, sn), NEW c \in Chn,
           NEW p \in Nat, tk[c] <= p
    PROVE  /\ \A i \in DOMAIN written[c] : written[c][i] <= p
           /\ \A i, j \in DOMAIN written[c] : i < j => written[c][i] < written[c][j]
<1>1. written[c] \in Seq(Nat) /\ tk[c] \in Nat
  BY DEF PipelineInv, TypeOK, AppTypeOK, Counters
<1>2. \A i \in DOMAIN written[c] : written[c][i] \in Nat /\ written[c][i] <= tk[c]
  BY <1>1 DEF Ordered, FilesRise
<1>3. \A i, j \in DOMAIN written[c] : i < j => written[c][i] < written[c][j]
  BY DEF Ordered, FilesRise
<1> QED
  BY <1>1, <1>2, <1>3

(* A converter passes the picture of its pipe on. *)
LEMMA TakesConvert ==
    ASSUME PipelineInv, MemInv, IdleInv, NEW tk \in Counters, NEW sn \in Counters,
           Ordered(tk, sn), NEW c \in Chn, convert_run(c)
    PROVE  \E p \in Nat : p = Picture(tk[c], Head(pipe[c])) /\ Takes(tk, sn, c, p)
<1> DEFINE in == Head(pipe[c])
           b == IF c \in Passthru THEN in ELSE Head(idles[c])
<1>1. /\ call = c /\ Kind[c] \in {"convert", "g2d"} /\ Ready(c)
      /\ pipe' = [pipe EXCEPT ![c] = Tail(@)]
      /\ IF pic[in] = 0 THEN UNCHANGED <<pic, stack>>
         ELSE pic' = [pic EXCEPT ![b] = pic[in]] /\ EnterPush(c, b, in, c \notin Passthru)
      /\ UNCHANGED <<nread, queued, done, written, ndec>>
  BY DEF convert_run, Active, drvVars, appVars
<1>2. /\ CoreTypeOK /\ CtlTypeOK /\ pic \in [Buffer -> Nat] /\ queued \in Queues
      /\ DoneInv /\ done \in [Chn -> Nat] /\ pipe \in Queues
  BY DEF PipelineInv, TypeOK, CoreTypeOK, BufTypeOK, QTypeOK, Queues
<1>3. pipe[c] # <<>> /\ (c \in Passthru \/ idles[c] # <<>>) /\ idles[c] \in Seq(Buffer)
  BY <1>1, <1>2, QueueOf, Zenon DEF Ready, convert_checkready
<1>4. Took(pipe, pipe', c)
  BY <1>1, <1>3 DEF Took
<1>5. in \in Buffer /\ pic[in] \in Nat /\ tk[c] \in Nat
  BY <1>2, <1>4, TakeHead DEF Counters
<1>6. c \notin Passthru => /\ b \in Buffer /\ ~ InUse(b)
                           /\ \A d \in Chn : \A j \in DOMAIN queued[d] : queued[d][j] # b
  <2> SUFFICES ASSUME c \notin Passthru
               PROVE  /\ b \in Buffer /\ ~ InUse(b)
                      /\ \A d \in Chn : \A j \in DOMAIN queued[d] : queued[d][j] # b
    OBVIOUS
  <2>1. 1 \in DOMAIN idles[c] /\ b = idles[c][1]
    BY <1>3, NumHead
  <2> HIDE DEF b
  <2> QED
    BY <1>2, <2>1, IdleAlone
<1>7. b \in Buffer
  BY <1>5, <1>6
<1>8. /\ \A d \in Chn : \A i \in DOMAIN pipe[d] : pic'[pipe[d][i]] = pic[pipe[d][i]]
      /\ \A i \in DOMAIN stack : pic'[stack[i].buf] = pic[stack[i].buf]
      /\ \A d \in Chn : \A i \in DOMAIN queued[d] : pic'[queued[d][i]] = pic[queued[d][i]]
  <2>1. CASE pic' = pic
    BY <2>1
  <2>2. CASE pic' = [pic EXCEPT ![b] = pic[in]] /\ c \in Passthru
    <3>1. pic' = pic
      BY <1>2, <2>2
    <3> QED
      BY <3>1
  <2>3. CASE pic' = [pic EXCEPT ![b] = pic[in]] /\ c \notin Passthru
    <3>1. \A d \in Chn : \A i \in DOMAIN queued[d] : queued[d][i] \in Buffer
      BY <1>2 DEF Queues
    <3>2. ~ InUse(b) /\ \A d \in Chn : \A j \in DOMAIN queued[d] : queued[d][j] # b
      BY <1>6, <2>3
    <3> HIDE DEF b, in
    <3>3. \A d \in Chn : \A i \in DOMAIN queued[d] : pic'[queued[d][i]] = pic[queued[d][i]]
      BY <1>2, <1>7, <2>3, <3>1, <3>2
    <3>4. PICK q : q = pic[in]
      OBVIOUS
    <3> QED
      BY <1>2, <1>7, <2>3, <3>2, <3>3, <3>4, PicturesKept, Zenon
  <2> QED
    BY <1>1, <2>1, <2>2, <2>3
<1>9. \A d \in Chn : \A i \in 1 .. done[d] : pic'[queued[d][i]] = pic[queued[d][i]]
  <2> SUFFICES ASSUME NEW d \in Chn, NEW i \in 1 .. done[d] PROVE pic'[queued[d][i]] = pic[queued[d][i]]
    OBVIOUS
  <2>1. queued[d] \in Seq(Buffer) /\ done[d] \in Nat /\ done[d] <= Len(queued[d])
    BY <1>2 DEF DoneInv, Queues
  <2>2. i \in DOMAIN queued[d]
    BY <2>1
  <2> QED
    BY <1>8, <2>2
<1>10. /\ \A d \in Chn : d # c => pipe'[d] = pipe[d]
       /\ pic[in] = 0 => Rising(pic', tk[c], pipe'[c], Len(pipe'[c]), sn[c])
       /\ pic[in] # 0 => Rising(pic', pic[in], pipe'[c], Len(pipe'[c]), sn[c]) /\ tk[c] < pic[in]
  BY <1>4, <1>8, TailRises
<1>11. PICK p \in Nat : p = IF pic[in] = 0 THEN tk[c] ELSE pic[in]
  BY <1>5
<1>12. tk[c] <= p /\ Rising(pic', p, pipe'[c], Len(pipe'[c]), sn[c])
  BY <1>5, <1>10, <1>11
<1>13. \A i \in DOMAIN stack' :
          \/ i \in DOMAIN stack /\ stack'[i] = stack[i] /\ pic'[stack[i].buf] = pic[stack[i].buf]
          \/ /\ stack'[i].chn = c
             /\ pic'[stack'[i].buf] # 0 => pic'[stack'[i].buf] = p /\ tk[c] < p
  <2>1. CASE pic[in] = 0
    BY <1>1, <1>8, <2>1
  <2>2. CASE pic[in] # 0
    <3>1. EnterPush(c, b, in, c \notin Passthru) /\ (c \notin Passthru) \in BOOLEAN
      BY <1>1, <2>2, Zenon
    <3>2. pic'[b] = p /\ tk[c] < p
      BY <1>1, <1>2, <1>7, <1>10, <1>11, <2>2
    <3> HIDE DEF b, in
    <3>3. \A i \in DOMAIN stack' :
            \/ i \in DOMAIN stack /\ stack'[i] = stack[i] /\ pic'[stack[i].buf] = pic[stack[i].buf]
            \/ stack'[i].chn = c /\ stack'[i].buf = b
      BY <1>2, <1>5, <1>7, <1>8, <3>1, TakesFrames, Zenon
    <3> QED
      BY <3>2, <3>3
  <2> QED
    BY <2>1, <2>2
<1>14. /\ \A i \in DOMAIN written[c] : written[c][i] <= p
       /\ \A i, j \in DOMAIN written[c] : i < j => written[c][i] < written[c][j]
  BY <1>11, <1>12, FilesKept
<1> HIDE DEF in, b
<1>15. Takes(tk, sn, c, p)
  <2>1. Kind[c] # "capture" /\ Kind[c] # "ifile"
    BY <1>1
  <2> QED
    BY <1>1, <1>8, <1>9, <1>10, <1>11, <1>12, <1>13, <1>14, <2>1 DEF Takes
<1> QED
  BY <1>11, <1>15 DEF Picture, in

(* A later picture is appended to a file. *)
LEMMA WrittenAppend ==
    ASSUME NEW s \in Seq(Nat), NEW x \in Nat, NEW p \in Nat, x < p,
           \A i \in DOMAIN s : s[i] <= x,
           \A i, j \in DOMAIN s : i < j => s[i] < s[j]
    PROVE  /\ \A i \in DOMAIN Append(s, p) : Append(s, p)[i] <= p
           /\ \A i, j \in DOMAIN Append(s, p) : i < j => Append(s, p)[i] < Append(s, p)[j]
<1> DEFINE t == Append(s, p)
           n == Len(s)
<1>1. /\ n \in Nat /\ DOMAIN s = 1 .. n /\ DOMAIN t = 1 .. n + 1
      /\ \A i \in 1 .. n : t[i] = s[i]
      /\ t[n + 1] = p
  BY AppendProperties
<1>2. \A i \in 1 .. n : s[i] \in Nat
  BY <1>1
<1> HIDE DEF t, n
<1>3. ASSUME NEW i \in 1 .. n + 1 PROVE i = n + 1 \/ (i \in 1 .. n /\ t[i] = s[i] /\ s[i] < p)
  <2>1. i = n + 1 \/ i \in 1 .. n
    BY <1>1
  <2>2. ASSUME i \in 1 .. n PROVE t[i] = s[i] /\ s[i] < p
    <3>1. t[i] = s[i] /\ s[i] \in Nat /\ s[i] <= x
      BY <1>1, <1>2, <2>2, Zenon
    <3> QED
      BY <3>1
  <2> QED
    BY <2>1, <2>2
<1>4. \A i \in 1 .. n + 1 : t[i] <= p
  BY <1>1, <1>2, <1>3
<1>5. ASSUME NEW i \in 1 .. n + 1, NEW j \in 1 .. n + 1, i < j PROVE t[i] < t[j]
  <2>1. i \in 1 .. n /\ t[i] = s[i] /\ s[i] < p
    BY <1>1, <1>3, <1>5
  <2>2. CASE j = n + 1
    BY <1>1, <2>1, <2>2
  <2>3. CASE j \in 1 .. n
    BY <1>1, <1>5, <2>1, <2>3, Zenon
  <2> QED
    BY <1>3, <2>2, <2>3
<1> QED
  BY <1>1, <1>4, <1>5, Zenon DEF t

(* A picture is written to a file. *)
LEMMA TakesOfile ==
    ASSUME PipelineInv, MemInv, NEW tk \in Counters, NEW sn \in Counters,
           Ordered(tk, sn), NEW c \in Chn, ofile_run(c)
    PROVE  \/ pipe[c] = <<>> /\ Carried
           \/ /\ pipe[c] # <<>>
              /\ \E p \in Nat : p = Picture(tk[c], Head(pipe[c])) /\ Takes(tk, sn, c, p)
<1> DEFINE in == Head(pipe[c])
<1>1. /\ call = c /\ Kind[c] = "ofile"
      /\ IF pipe[c] = <<>> THEN UNCHANGED <<pipe, written>>
         ELSE /\ pipe' = [pipe EXCEPT ![c] = Tail(@)]
              /\ written' = [written EXCEPT ![c] = IF pic[in] = 0 THEN @ ELSE Append(@, pic[in])]
      /\ UNCHANGED <<nread, queued, done, stack, pic, ndec>>
  BY DEF ofile_run, Active, drvVars, bufVars
<1>2. /\ CoreTypeOK /\ CtlTypeOK /\ pic \in [Buffer -> Nat] /\ pipe \in Queues
      /\ written \in [Chn -> Seq(Nat)] /\ tk[c] \in Nat
  BY Zenon DEF PipelineInv, TypeOK, CoreTypeOK, BufTypeOK, QTypeOK, Queues, AppTypeOK, Counters
<1>3. CASE pipe[c] = <<>>
  BY <1>1, <1>2, <1>3, CarriedSame
<1>4. CASE pipe[c] # <<>>
  <2>1. Took(pipe, pipe', c)
    BY <1>1, <1>4 DEF Took
  <2>2. /\ in \in Buffer /\ pic[in] \in Nat
        /\ \A d \in Chn : d # c => pipe'[d] = pipe[d]
        /\ pic[in] = 0 => Rising(pic', tk[c], pipe'[c], Len(pipe'[c]), sn[c])
        /\ pic[in] # 0 => Rising(pic', pic[in], pipe'[c], Len(pipe'[c]), sn[c]) /\ tk[c] < pic[in]
    BY <1>1, <2>1, TailRises
  <2>3. PICK p \in Nat : p = IF pic[in] = 0 THEN tk[c] ELSE pic[in]
    BY <1>2, <2>2
  <2>4. tk[c] <= p /\ Rising(pic', p, pipe'[c], Len(pipe'[c]), sn[c])
    BY <1>2, <2>2, <2>3
  <2>5. /\ \A d \in Chn : d # c => written'[d] = written[d]
        /\ pic[in] = 0 => written'[c] = written[c]
        /\ pic[in] # 0 => written'[c] = Append(written[c], p)
    BY <1>1, <1>2, <1>4, <2>3
  <2>6. /\ \A i \in DOMAIN written'[c] : written'[c][i] <= p
        /\ \A i, j \in DOMAIN written'[c] : i < j => written'[c][i] < written'[c][j]
    <3>1. CASE pic[in] = 0
      BY <2>3, <2>4, <2>5, <3>1, FilesKept
    <3>2. CASE pic[in] # 0
      <4>1. /\ \A i \in DOMAIN written[c] : written[c][i] <= tk[c]
            /\ \A i, j \in DOMAIN written[c] : i < j => written[c][i] < written[c][j]
        <5>1. tk[c] <= tk[c]
          BY <1>2
        <5> QED
          BY <1>2, <5>1, FilesKept
      <4>2. tk[c] < p
        BY <2>2, <2>3, <3>2
      <4>3. written[c] \in Seq(Nat) /\ tk[c] \in Nat /\ written'[c] = Append(written[c], p)
        BY <1>2, <2>5, <3>2
      <4> QED
        BY <2>3, <4>1, <4>2, <4>3, WrittenAppend, Zenon
    <3> QED
      BY <3>1, <3>2
  <2> HIDE DEF in
  <2>7. Takes(tk, sn, c, p)
    <3>1. Kind[c] # "capture" /\ Kind[c] # "ifile"
      BY <1>1
    <3> QED
      BY <1>1, <2>2, <2>3, <2>4, <2>5, <2>6, <3>1 DEF Takes
  <2> QED
    BY <1>4, <2>3, <2>7 DEF Picture, in
<1> QED
  BY <1>3, <1>4

(* A decoded picture is dequeued. *)
LEMMA TakesCapture ==
    ASSUME PipelineInv, MemInv, NEW tk \in Counters, NEW sn \in Counters,
           Ordered(tk, sn), NEW c \in Chn, run_v4l2(c)
    PROVE  \/ ~ (done[c] > 0) /\ Carried
           \/ /\ done[c] > 0
              /\ \E p \in Nat : p = Picture(tk[c], Head(queued[c])) /\ Takes(tk, sn, c, p)
<1> DEFINE b == Head(queued[c])
<1>1. /\ call = c /\ Kind[c] = "capture"
      /\ IF done[c] > 0
         THEN /\ queued' = [queued EXCEPT ![c] = Tail(@)] /\ done' = [done EXCEPT ![c] = @ - 1]
              /\ stack' = stack \/ EnterPush(c, b, None, TRUE)
         ELSE UNCHANGED <<queued, done, stack>>
      /\ UNCHANGED <<pipe, pic, nread, written, ndec>>
  BY Zenon DEF run_v4l2, Active, drvVars, appVars
<1>2. /\ CoreTypeOK /\ CtlTypeOK /\ pic \in [Buffer -> Nat] /\ queued \in Queues /\ ndec \in Nat
      /\ done \in [Chn -> Nat] /\ DoneInv /\ tk[c] \in Nat
  BY DEF PipelineInv, TypeOK, CoreTypeOK, BufTypeOK, QTypeOK, Queues, DrvTypeOK, Counters
<1>3. CASE ~ (done[c] > 0)
  BY <1>1, <1>2, <1>3, CarriedSame
<1>4. CASE done[c] > 0
  <2>1. queued[c] \in Seq(Buffer) /\ queued[c] # <<>> /\ done[c] \in Nat /\ done[c] <= Len(queued[c])
    BY <1>2, <1>4 DEF DoneInv, Queues
  <2>2. Took(queued, queued', c)
    BY <1>1, <1>4, <2>1, Zenon DEF Took
  <2>3. /\ b \in Buffer /\ b = queued[c][1] /\ queued'[c] \in Seq(Buffer)
        /\ \A d \in Chn : d # c => queued'[d] = queued[d]
        /\ \A i \in DOMAIN queued'[c] : queued'[c][i] = queued[c][i + 1]
        /\ queued'[c] = Tail(queued[c])
    BY <1>2, <2>2, TakeHead
  <2>4. DOMAIN queued'[c] = 1 .. Len(queued[c]) - 1 /\ DOMAIN queued[c] = 1 .. Len(queued[c])
    BY <2>1, <2>3
  <2>5. done'[c] = done[c] - 1 /\ \A d \in Chn : d # c => done'[d] = done[d]
    BY <1>1, <1>2, <1>4
  <2>6. PICK k \in Nat : k = done[c] /\ k > 0
    BY <1>4, <2>1
  <2>7. PICK P, s, t : P = pic /\ s = queued[c] /\ t = queued'[c]
    OBVIOUS
  <2>8. PICK u \in Nat, v \in Nat : u = tk[c] /\ v = ndec
    BY <1>2
  <2>9. \A i \in 1 .. k : i \in DOMAIN queued[c]
    BY <2>1, <2>4, <2>6
  <2>10. \A i \in 1 .. k - 1 : i \in DOMAIN queued'[c]
    BY <2>1, <2>4, <2>6
  <2>11. Rising(P, u, s, k, v)
    BY <1>1, <2>6, <2>7, <2>8 DEF Ordered, RootsRise
  <2>12. \A i \in 1 .. k : P[s[i]] \in Nat
    <3>1. \A i \in 1 .. k : queued[c][i] \in Buffer
      BY <2>1, <2>9
    <3> QED
      BY <1>2, <2>7, <3>1
  <2>13. \A i \in 1 .. k - 1 : t[i] = s[i + 1]
    BY <2>3, <2>7, <2>10
  <2>14. /\ P[s[1]] = 0 => Rising(P, u, t, k - 1, v)
         /\ P[s[1]] # 0 => Rising(P, P[s[1]], t, k - 1, v) /\ P[s[1]] > u
    <3>1. k > 0 /\ k \in Nat /\ u \in Nat /\ v \in Nat
      BY <2>6
    <3> QED
      BY <2>11, <2>12, <2>13, <3>1, RisingTail, Zenon
  <2>15. /\ pic[b] = 0 => Rising(pic', tk[c], queued'[c], done'[c], ndec)
         /\ pic[b] # 0 => Rising(pic', pic[b], queued'[c], done'[c], ndec) /\ tk[c] < pic[b]
    <3>1. pic[b] = P[s[1]] /\ P[s[1]] \in Nat
      BY <1>2, <2>3, <2>7
    <3> QED
      BY <1>1, <2>5, <2>6, <2>7, <2>8, <2>14, <3>1
  <2>16. pic[b] \in Nat
    BY <1>2, <2>3
  <2>17. PICK p \in Nat : p = IF pic[b] = 0 THEN tk[c] ELSE pic[b]
    BY <1>2, <2>16
  <2>18. tk[c] <= p /\ Rising(pic', p, queued'[c], done'[c], ndec)
    BY <1>2, <2>15, <2>16, <2>17
  <2> HIDE DEF b
  <2>19. \A i \in DOMAIN stack' :
          \/ i \in DOMAIN stack /\ stack'[i] = stack[i] /\ pic'[stack[i].buf] = pic[stack[i].buf]
          \/ /\ stack'[i].chn = c
             /\ pic'[stack'[i].buf] # 0 => pic'[stack'[i].buf] = p /\ tk[c] < p
    <3>1. CASE stack' = stack
      BY <1>1, <3>1
    <3>2. CASE EnterPush(c, b, None, TRUE)
      <4>1. \A i \in DOMAIN stack : pic'[stack[i].buf] = pic[stack[i].buf]
        BY <1>1
      <4>2. \A i \in DOMAIN stack' :
              \/ i \in DOMAIN stack /\ stack'[i] = stack[i] /\ pic'[stack[i].buf] = pic[stack[i].buf]
              \/ stack'[i].chn = c /\ stack'[i].buf = b
        BY <1>2, <2>3, <3>2, <4>1, TakesFrames, Zenon
      <4>3. pic'[b] # 0 => pic'[b] = p /\ tk[c] < p
        BY <1>1, <2>15, <2>17
      <4> QED
        BY <4>2, <4>3
    <3> QED
      BY <1>1, <1>4, <3>1, <3>2, Zenon
  <2>20. /\ \A i \in DOMAIN written[c] : written[c][i] <= p
         /\ \A i, j \in DOMAIN written[c] : i < j => written[c][i] < written[c][j]
    BY <2>17, <2>18, FilesKept
  <2>21. Source[c] = None
    BY <1>1, WiringAssumption, CoreAssumption, Zenon
  <2>22. Takes(tk, sn, c, p)
    <3>1. Kind[c] # "ifile"
      BY <1>1
    <3> QED
      BY <1>1, <2>3, <2>5, <2>17, <2>18, <2>19, <2>20, <2>21, <3>1 DEF Takes
  <2> QED
    BY <1>4, <2>17, <2>22 DEF Picture, b
<1> QED
  BY <1>3, <1>4

-----------------------------------------------------------------------------
(* The driver fills a buffer. *)

(* The driver fills the next queued buffer. *)
LEMMA OrderedFill ==
    ASSUME PipelineInv, PipelineInv', MemInv, NEW tk \in Counters, NEW sn \in Counters,
           Ordered(tk, sn), Output # None, Free, NEW p \in Nat, NEW l, Fill(p, l),
           \/ p = 0 /\ ndec' = ndec
           \/ p = ndec + 1 /\ ndec' = ndec + 1,
           UNCHANGED <<pipe, stack, queued, nread, written>>
    PROVE  Ordered(tk, sn)'
<1> DEFINE n == done[Capture]
           b == queued[Capture][n + 1]
<1>1. /\ CoreTypeOK /\ CtlTypeOK /\ pic \in [Buffer -> Nat] /\ queued \in Queues /\ ndec \in Nat
      /\ done \in [Chn -> Nat] /\ DoneInv /\ QTypeOK
  BY DEF PipelineInv, TypeOK, CoreTypeOK, BufTypeOK, QTypeOK, Queues, DrvTypeOK
<1>2. Capture \in Chn /\ queued[Capture] \in Seq(Buffer) /\ n \in Nat /\ n < Len(queued[Capture])
  BY <1>1, PipelineAssumption DEF Free, Queues
<1>3. n + 1 \in DOMAIN queued[Capture] /\ b \in Buffer
  BY <1>2
<1>4. /\ pic' = [pic EXCEPT ![b] = p] /\ done' = [done EXCEPT ![Capture] = n + 1]
  BY DEF Fill
<1>5. /\ ~ InUse(b)
      /\ \A d \in Chn : \A j \in DOMAIN queued[d] : queued[d][j] = b => d = Capture /\ j = n + 1
  BY <1>1, <1>2, <1>3, QueuedAlone
<1> HIDE DEF b
<1>6. /\ \A d \in Chn : \A i \in DOMAIN pipe[d] : pic'[pipe[d][i]] = pic[pipe[d][i]]
      /\ \A i \in DOMAIN stack : pic'[stack[i].buf] = pic[stack[i].buf]
  BY <1>1, <1>3, <1>4, <1>5, PicturesKept, Zenon
<1>7. /\ Rising(pic, tk[Capture], queued[Capture], n, ndec)
      /\ tk[Capture] \in Nat
  BY <1>2, WiringAssumption DEF Ordered, RootsRise, Counters
<1>8. ASSUME NEW i \in 1 .. n PROVE pic[queued[Capture][i]] \in Nat /\ pic'[queued[Capture][i]] = pic[queued[Capture][i]]
  <2>1. i \in DOMAIN queued[Capture] /\ i # n + 1
    BY <1>2
  <2>2. queued[Capture][i] # b /\ queued[Capture][i] \in Buffer
    BY <1>2, <1>5, <2>1
  <2> QED
    BY <1>1, <1>3, <1>4, <2>2
<1>9. pic'[b] = p /\ done'[Capture] = n + 1 /\ \A d \in Chn : d # Capture => done'[d] = done[d]
  BY <1>1, <1>2, <1>3, <1>4
<1>10. Rising(pic', tk[Capture], queued[Capture], n + 1, ndec')
  <2>1. PICK P, Q, s : P = pic /\ Q = pic' /\ s = queued[Capture]
    OBVIOUS
  <2>2. PICK x \in Nat, y \in Nat, z \in Nat, k \in Nat : x = tk[Capture] /\ y = ndec /\ z = ndec' /\ k = n
    BY <1>1, <1>2, <1>7, Zenon
  <2>3. Rising(P, x, s, k, y) /\ \A i \in 1 .. k : P[s[i]] \in Nat /\ Q[s[i]] = P[s[i]]
    BY <1>7, <1>8, <2>1, <2>2
  <2>4. y <= z /\ (Q[s[k + 1]] = 0 \/ (Q[s[k + 1]] = z /\ y < z))
    <3>1. Q[s[k + 1]] = p
      BY <1>9, <2>1, <2>2 DEF b
    <3> QED
      BY <2>2, <3>1
  <2>5. Rising(Q, x, s, k + 1, z)
    <3>1. Rising(P, x, s, k, y)
      BY <2>3
    <3>2. \A i \in 1 .. k : P[s[i]] \in Nat
      BY <2>3
    <3>3. \A i \in 1 .. k : Q[s[i]] = P[s[i]]
      BY <2>3
    <3>4. y <= z
      BY <2>4
    <3>5. Q[s[k + 1]] = 0 \/ (Q[s[k + 1]] = z /\ y < z)
      BY <2>4
    <3>6. x \in Nat /\ y \in Nat /\ z \in Nat /\ k \in Nat
      OBVIOUS
    <3> QED
      BY <3>1, <3>2, <3>3, <3>4, <3>5, <3>6, RisingAppend, Zenon
  <2> QED
    BY <2>1, <2>2, <2>5
<1>11. PipesRise(tk, sn)'
  <2> SUFFICES ASSUME NEW d \in Chn, Source[d] # None
               PROVE  Rising(pic', tk[d], pipe'[d], Len(pipe'[d]), sn[d])
    BY DEF PipesRise
  <2>1. Rising(pic, tk[d], pipe[d], Len(pipe[d]), sn[d])
    BY DEF Ordered, PipesRise
  <2>2. pipe[d] \in Seq(Buffer)
    BY <1>1 DEF QTypeOK
  <2>3. Len(pipe[d]) \in Nat /\ DOMAIN pipe[d] = 1 .. Len(pipe[d])
    BY <2>2
  <2>4. pipe'[d] = pipe[d] /\ \A i \in 1 .. Len(pipe[d]) : pic'[pipe'[d][i]] = pic[pipe[d][i]]
    BY <1>6, <2>3
  <2> QED
    BY <2>1, <2>3, <2>4, RisingSame
<1>12. SentTaken(tk, sn)' /\ FilesRise(tk)'
  BY DEF Ordered, SentTaken, FilesRise
<1>13. FramesRise(tk, sn)'
  BY <1>6 DEF Ordered, FramesRise, Pending, Unserved
<1>14. RootsRise(tk)'
  BY <1>9, <1>10, WiringAssumption DEF Ordered, RootsRise
<1> QED
  BY <1>11, <1>12, <1>13, <1>14 DEF Ordered

(* The steps of the driver keep the order. *)
LEMMA OrderedDriver ==
    ASSUME PipelineInv, PipelineInv', MemInv, NEW tk \in Counters, NEW sn \in Counters,
           Ordered(tk, sn), DriverDecode \/ DriverEos
    PROVE  Ordered(tk, sn)'
<1>1. UNCHANGED <<pipe, stack, queued, nread, written>> /\ Output # None /\ ndec \in Nat /\ CtlTypeOK
  BY Zenon DEF DriverDecode, DriverEos, ctlVars, appVars, PipelineInv, TypeOK, CoreTypeOK, DrvTypeOK
<1>2. CASE DriverDecode
  <2>1. PICK p \in Nat : p = IF Head(script) = "frame" THEN ndec + 1 ELSE 0
    BY <1>1
  <2>2. Free /\ Fill(p, FALSE) /\ ndec' = IF Head(script) = "frame" THEN ndec + 1 ELSE ndec
    BY <1>2, <2>1, Zenon DEF DriverDecode
  <2> QED
    BY <1>1, <2>1, <2>2, OrderedFill, Zenon
<1>3. CASE DriverEos
  <2>1. /\ ndec' = ndec
        /\ UNCHANGED <<pic, done>> \/ (Free /\ Fill(0, TRUE))
    BY <1>3, Zenon DEF DriverEos
  <2>2. CASE UNCHANGED <<pic, done>>
    <3>1. Carried
      BY <1>1, <2>1, <2>2, CarriedSame
    <3> QED
      BY <3>1, OrderedCarried
  <2>3. CASE Free /\ Fill(0, TRUE)
    BY <1>1, <2>1, <2>3, OrderedFill, Zenon
  <2> QED
    BY <2>1, <2>2, <2>3, Zenon
<1> QED
  BY <1>2, <1>3

-----------------------------------------------------------------------------
(* A picture is pushed into a pipe. *)

(* The sinks a channel has not served after a push *)
LEMMA UnservedPush ==
    ASSUME CtlTypeOK, stack # <<>>, stack' = Advanced,
           top.pos > Len(Outs[top.chn]), top.pos <= 2 * Len(Outs[top.chn])
    PROVE  LET d == Outs[top.chn][top.pos - Len(Outs[top.chn])]
           IN  /\ d \in Chn /\ Source[d] = top.chn /\ Unserved(top, d)
               /\ ~ Unserved(stack'[Len(stack)], d)
               /\ \A e \in Chn : Unserved(stack'[Len(stack)], e) => Unserved(top, e)
<1> DEFINE n == Len(Outs[top.chn])
           k == top.pos - n
           d == Outs[top.chn][k]
           f == stack'[Len(stack)]
<1>1. top \in Frame /\ f \in Frame /\ f.chn = top.chn /\ f.pos = top.pos + 1
  BY AdvancedTop
<1>2. top.chn \in Chn /\ top.pos \in Nat
  BY <1>1 DEF Frame
<1>3. Outs[top.chn] \in Seq(Chn) /\ n \in Nat /\ DOMAIN Outs[top.chn] = 1 .. n
  BY <1>2, CoreAssumption
<1>4. k \in 1 .. n /\ n + k = top.pos
  BY <1>2, <1>3
<1>5. d \in Chn /\ Source[d] = top.chn
  BY <1>2, <1>3, <1>4, SinkOf
<1>6. Unserved(top, d)
  <2>1. top.pos <= n + k
    BY <1>2, <1>4
  <2> HIDE DEF k
  <2> QED
    BY <1>4, <2>1 DEF Unserved
<1>7. ASSUME Unserved(f, d) PROVE FALSE
  <2>1. PICK j \in 1 .. n : Outs[top.chn][j] = d /\ f.pos <= n + j
    BY <1>1, <1>7 DEF Unserved
  <2>2. j = k
    BY <1>2, <1>3, <1>4, <2>1, TopologyAssumption
  <2> QED
    BY <1>1, <1>2, <1>3, <1>4, <2>1, <2>2
<1>8. f.pos >= top.pos
  BY <1>1, <1>2
<1>9. \A e \in Chn : Unserved(f, e) => Unserved(top, e)
  BY <1>1, <1>8, UnservedLater
<1> QED
  BY <1>5, <1>6, <1>7, <1>9

(* Two suspended pushes are pushes of different channels. *)
LEMMA FramesApart ==
    ASSUME PipelineInv, NEW i \in DOMAIN stack, NEW j \in DOMAIN stack, i # j
    PROVE  stack[i].chn # stack[j].chn
<1>1. DOMAIN stack = 1 .. Len(stack) /\ Len(stack) \in Nat
  BY DEF PipelineInv, TypeOK, CoreTypeOK, CtlTypeOK
<1>2. i < j \/ j < i
  BY <1>1
<1> QED
  BY <1>2, BeforeOrder DEF PipelineInv, ChainInv

(* The picture follows the ones its sink was sent before (pipe.c 131-164). *)
LEMMA OrderedPush ==
    ASSUME PipelineInv, PipelineInv', MemInv, NEW tk \in Counters, NEW sn \in Counters,
           Ordered(tk, sn), pipe_push_back, UNCHANGED <<nread, written, ndec>>
    PROVE  LET d == Outs[top.chn][top.pos - Len(Outs[top.chn])]
           IN  \E s \in Counters : s = [sn EXCEPT ![d] = Picture(sn[d], top.buf)] /\ Ordered(tk, s)'
<1> DEFINE n == Len(Outs[top.chn])
           d == Outs[top.chn][top.pos - n]
           x == top.buf
           m == Len(stack)
<1>1. /\ stack # <<>> /\ top.pos > n /\ top.pos <= 2 * n
      /\ pipe' = [pipe EXCEPT ![d] = Append(@, x)]
      /\ stack' = Advanced
      /\ UNCHANGED <<queued, done, pic>>
  BY DEF pipe_push_back, Running
<1>2. CoreTypeOK /\ CtlTypeOK /\ CtlTypeOK' /\ pic \in [Buffer -> Nat] /\ pipe \in Queues
  BY DEF PipelineInv, TypeOK, CoreTypeOK, BufTypeOK, QTypeOK, Queues
<1>3. /\ d \in Chn /\ Source[d] = top.chn /\ Unserved(top, d) /\ ~ Unserved(stack'[m], d)
      /\ \A e \in Chn : Unserved(stack'[m], e) => Unserved(top, e)
  BY <1>1, <1>2, UnservedPush
<1>4. /\ m \in DOMAIN stack /\ top = stack[m] /\ DOMAIN stack' = DOMAIN stack
      /\ \A i \in DOMAIN stack : i # m => stack'[i] = stack[i]
      /\ stack'[m].chn = top.chn
  BY <1>1, <1>2, AdvancedTop
<1>5. stack'[m].buf = x
  BY <1>1, <1>2, <1>4, AdvancedSame
<1>6. x \in Buffer /\ top.chn \in Chn /\ Source[d] # None
  BY <1>2, <1>3, <1>4, StackFrames, CoreAssumption, Zenon
<1> HIDE DEF d, x, m, n
<1>7. pipe[d] \in Seq(Buffer) /\ pipe'[d] = Append(pipe[d], x) /\ \A e \in Chn : e # d => pipe'[e] = pipe[e]
  BY <1>1, <1>2, <1>3 DEF Queues
<1>8. /\ Len(pipe[d]) \in Nat /\ Len(pipe'[d]) = Len(pipe[d]) + 1
      /\ \A i \in 1 .. Len(pipe[d]) : pipe'[d][i] = pipe[d][i] /\ pic[pipe[d][i]] \in Nat
      /\ pipe'[d][Len(pipe[d]) + 1] = x
  <2>1. /\ Len(pipe[d]) \in Nat /\ Len(pipe'[d]) = Len(pipe[d]) + 1
        /\ \A i \in 1 .. Len(pipe[d]) : pipe'[d][i] = pipe[d][i]
        /\ pipe'[d][Len(pipe[d]) + 1] = x
    BY <1>6, <1>7, AppendProperties
  <2>2. \A i \in 1 .. Len(pipe[d]) : pipe[d][i] \in Buffer
    BY <1>7
  <2> QED
    BY <1>2, <2>1, <2>2
<1>9. pic[x] \in Nat /\ sn[d] \in Nat /\ tk[d] \in Nat
  BY <1>2, <1>3, <1>6 DEF Counters
<1>10. PICK q \in Nat : q = IF pic[x] = 0 THEN sn[d] ELSE pic[x]
  BY <1>9
<1>11. pic[x] # 0 => sn[d] < pic[x] /\ pic[x] = tk[top.chn]
  BY <1>3, <1>4 DEF Ordered, FramesRise, Pending, x
<1>12. PICK e0 \in Chn : e0 = d
  BY <1>3
<1>13. PICK r \in Counters : r = [sn EXCEPT ![e0] = q]
  BY <1>10, Zenon DEF Counters
<1>14. r[d] = q /\ \A e \in Chn : e # d => r[e] = sn[e]
  BY <1>12, <1>13 DEF Counters
<1>15. PipesRise(tk, r)'
  <2> SUFFICES ASSUME NEW e \in Chn, Source[e] # None
               PROVE  Rising(pic', tk[e], pipe'[e], Len(pipe'[e]), r[e])
    BY DEF PipesRise
  <2>1. Rising(pic, tk[e], pipe[e], Len(pipe[e]), sn[e])
    BY DEF Ordered, PipesRise
  <2>2. CASE e # d
    BY <1>1, <1>7, <1>14, <2>1, <2>2
  <2>3. CASE e = d
    <3>1. PICK P, Q, u, v : P = pic /\ Q = pic' /\ u = pipe[d] /\ v = pipe'[d]
      OBVIOUS
    <3>2. PICK a \in Nat, y \in Nat, k \in Nat : a = tk[d] /\ y = sn[d] /\ k = Len(pipe[d])
      BY <1>8, <1>9
    <3>3. Rising(P, a, u, k, y)
      BY <2>1, <2>3, <3>1, <3>2
    <3>4. \A i \in 1 .. k : P[u[i]] \in Nat
      BY <1>8, <3>1, <3>2
    <3>5. \A i \in 1 .. k : Q[v[i]] = P[u[i]]
      BY <1>1, <1>8, <3>1, <3>2
    <3>6. PICK z \in Nat : z = q
      BY <1>10
    <3>7. y <= z /\ (Q[v[k + 1]] = 0 \/ (Q[v[k + 1]] = z /\ y < z))
      <4>1. Q[v[k + 1]] = pic[x]
        BY <1>1, <1>8, <3>1, <3>2
      <4> QED
        BY <1>9, <1>10, <1>11, <3>2, <3>6, <4>1
    <3>8. Rising(Q, a, v, k + 1, z)
      <4>1. y <= z
        BY <3>7
      <4>2. Q[v[k + 1]] = 0 \/ (Q[v[k + 1]] = z /\ y < z)
        BY <3>7
      <4>3. a \in Nat /\ y \in Nat /\ z \in Nat /\ k \in Nat
        OBVIOUS
      <4> QED
        BY <3>3, <3>4, <3>5, <4>1, <4>2, <4>3, RisingAppend, Zenon
    <3> QED
      BY <1>1, <1>8, <1>14, <2>3, <3>1, <3>2, <3>6, <3>8
  <2> QED
    BY <2>2, <2>3
<1>16. SentTaken(tk, r)'
  <2> SUFFICES ASSUME NEW e \in Chn, Source[e] # None PROVE r[e] <= tk[Source[e]]
    BY DEF SentTaken
  <2>1. sn[e] <= tk[Source[e]]
    BY DEF Ordered, SentTaken
  <2>2. CASE e # d
    BY <1>14, <2>1, <2>2
  <2>3. CASE e = d
    <3>1. pic[x] # 0 => pic[x] <= tk[Source[d]]
      BY <1>3, <1>9, <1>11
    <3> QED
      BY <1>10, <1>14, <2>1, <2>3, <3>1
  <2> QED
    BY <2>2, <2>3
<1>17. FramesRise(tk, r)'
  <2> SUFFICES ASSUME NEW i \in DOMAIN stack'
               PROVE  /\ pic'[stack'[i].buf] # 0 => pic'[stack'[i].buf] = tk[stack'[i].chn]
                      /\ \A e \in Chn : pic'[stack'[i].buf] # 0 /\ Unserved(stack'[i], e)
                                        => r[e] < pic'[stack'[i].buf]
    BY DEF FramesRise, Pending, Unserved
  <2>1. /\ pic[stack[i].buf] # 0 => pic[stack[i].buf] = tk[stack[i].chn]
        /\ \A e \in Chn : pic[stack[i].buf] # 0 /\ Unserved(stack[i], e) => sn[e] < pic[stack[i].buf]
    BY <1>4 DEF Ordered, FramesRise, Pending
  <2>2. CASE i = m
    BY <1>1, <1>3, <1>4, <1>5, <1>14, <2>1, <2>2 DEF x
  <2>3. CASE i # m
    <3>1. stack'[i] = stack[i] /\ stack[i] \in Frame /\ stack[i].chn \in Chn
      BY <1>2, <1>4, <2>3, StackFrames
    <3>2. stack[i].chn # top.chn
      BY <1>4, <2>3, FramesApart
    <3>3. \A e \in Chn : Unserved(stack[i], e) => Source[e] = stack[i].chn
      BY <3>1, UnservedSink
    <3>4. \A e \in Chn : Unserved(stack[i], e) => e # d
      BY <1>3, <3>2, <3>3
    <3> QED
      BY <1>1, <1>14, <2>1, <3>1, <3>4
  <2> QED
    BY <2>2, <2>3
<1>18. RootsRise(tk)' /\ FilesRise(tk)'
  BY <1>1 DEF Ordered, RootsRise, FilesRise
<1>19. Ordered(tk, r)'
  BY <1>15, <1>16, <1>17, <1>18 DEF Ordered
<1>20. r = [sn EXCEPT ![d] = Picture(sn[d], x)]
  BY <1>10, <1>12, <1>13 DEF Picture
<1> QED
  BY <1>19, <1>20, Zenon DEF d, x, n

-----------------------------------------------------------------------------
(* The order of the pictures. *)

(* No picture has been read in the initial state. *)
LEMMA OrderedStart ==
    ASSUME Init
    PROVE  \E z \in Counters : (\A c \in Chn : z[c] = 0) /\ Ordered(z, z)
<1> DEFINE z == [c \in Chn |-> 0]
<1>1. z \in Counters /\ \A c \in Chn : z[c] = 0
  BY DEF Counters
<1>2. /\ \A c \in Chn : pipe[c] = <<>> /\ done[c] = 0 /\ nread[c] = 0 /\ written[c] = <<>>
      /\ stack = <<>> /\ ndec = 0
  BY DEF Init, CoreInit
<1> HIDE DEF z
<1>3. \A s : Rising(pic, 0, s, 0, 0)
  <2>1. \A i \in 1 .. 0 : FALSE
    OBVIOUS
  <2> QED
    BY <2>1 DEF Rising
<1>4. PipesRise(z, z) /\ RootsRise(z)
  BY <1>1, <1>2, <1>3 DEF PipesRise, RootsRise
<1>5. SentTaken(z, z)
  BY <1>1, CoreAssumption DEF SentTaken
<1>6. FramesRise(z, z) /\ FilesRise(z)
  BY <1>2 DEF FramesRise, FilesRise
<1> QED
  BY <1>1, <1>4, <1>5, <1>6 DEF Ordered

LEMMA IdlesStart ==
    ASSUME Init
    PROVE  IdleInv
BY DEF Init, CoreInit, IdleInv

LEMMA PictureStart ==
    ASSUME Init
    PROVE  PictureInv
BY OrderedStart, IdlesStart DEF PictureInv

(* A push is a step of the framework alone. *)
LEMMA PushAlone ==
    ASSUME PipelineInv, [Next]_vars, pipe_push_back
    PROVE  CoreStep
<1>1. Running /\ stack' = Advanced /\ stack # <<>> /\ call = None /\ call' \in Chn
  <2>1. Running /\ stack' = Advanced /\ top.pos > Len(Outs[top.chn]) /\ top.pos <= 2 * Len(Outs[top.chn])
        /\ call' = Outs[top.chn][top.pos - Len(Outs[top.chn])]
    BY DEF pipe_push_back
  <2>2. CtlTypeOK /\ stack # <<>>
    BY <2>1 DEF PipelineInv, TypeOK, CoreTypeOK, Running
  <2> QED
    BY <2>1, <2>2, UnservedPush DEF Running
<1>2. call' # None /\ call' # call
  BY <1>1, CoreAssumption
<1>3. \A c \in Chn : call # c
  BY <1>1, CoreAssumption
<1>4. ~ Idle
  BY <1>1 DEF Idle
<1>5. CASE MainNext
  BY <1>2, <1>3, <1>4, <1>5
    , Zenon DEF MainNext, pitcher_start, pitcher_start_end, stop_chn, stop_chn_end, run_chn, pitcher_loop_run,
         timer_func, main_exit, poll_func, teardown, process_chn_active, ifile_run, convert_run,
         ofile_run, run_v4l2, check_ctrl_ready, is_decoder_output_finish, check_v4l2_ready, Active
<1>6. CASE DriverNext \/ sig_handler \/ Done \/ UNCHANGED vars
  BY <1>2, <1>6, Zenon DEF DriverNext, DriverDecode, DriverChange, DriverEos, sig_handler, Done, vars, coreVars, ctlVars
<1> QED
  BY <1>5, <1>6 DEF Next

(* Every step keeps the order of the pictures. *)
LEMMA PictureStep ==
    ASSUME PipelineInv, PipelineInv', BufferInv, PictureInv, [Next]_vars
    PROVE  PictureInv'
<1>1. MemInv /\ IdleInv
  BY BufferParts DEF PipelineInv, TypeOK, PictureInv
<1>2. PICK tk \in Counters, sn \in Counters : Ordered(tk, sn)
  BY DEF PictureInv
<1>3. \E t, s \in Counters : Ordered(t, s)'
  <2> DEFINE Goal == \E t, s \in Counters : Ordered(t, s)'
  <2>0. ASSUME NEW c \in Chn, NEW p \in Nat, Takes(tk, sn, c, p) PROVE Goal
    <3>1. [tk EXCEPT ![c] = p] \in Counters /\ Ordered([tk EXCEPT ![c] = p], sn)'
      BY <1>2, <2>0, OrderedTakes
    <3> QED
      BY <3>1
  <2>1. CASE pipe_push_back
    <3>1. UNCHANGED <<nread, written, ndec>>
      BY <2>1, PushAlone DEF CoreStep, appVars, drvVars
    <3> QED
      BY <1>1, <1>2, <2>1, <3>1, OrderedPush
  <2>2. CASE DriverDecode \/ DriverEos
    BY <1>1, <1>2, <2>2, OrderedDriver
  <2>3. ASSUME NEW c \in Chn, ifile_run(c) PROVE Goal
    <3>1. \E p \in Nat : p = nread[c] + 1 /\ Takes(tk, sn, c, p)
      BY <1>1, <1>2, <2>3, TakesIfile
    <3> HIDE DEF Goal
    <3> QED
      BY <2>0, <3>1
  <2>4. ASSUME NEW c \in Chn, convert_run(c) PROVE Goal
    <3>1. \E p \in Nat : p = Picture(tk[c], Head(pipe[c])) /\ Takes(tk, sn, c, p)
      BY <1>1, <1>2, <2>4, TakesConvert
    <3> HIDE DEF Goal
    <3> QED
      BY <2>0, <3>1
  <2>5. ASSUME NEW c \in Chn, ofile_run(c) PROVE Goal
    <3>1. Carried \/ \E p \in Nat : Takes(tk, sn, c, p)
      BY <1>1, <1>2, <2>5, TakesOfile
    <3> QED
      BY <1>2, <2>0, <3>1, OrderedCarried
  <2>6. ASSUME NEW c \in Chn, run_v4l2(c) PROVE Goal
    <3>1. Carried \/ \E p \in Nat : Takes(tk, sn, c, p)
      BY <1>1, <1>2, <2>6, TakesCapture
    <3> QED
      BY <1>2, <2>0, <3>1, OrderedCarried
  <2>7. CASE /\ ~ pipe_push_back /\ ~ DriverDecode /\ ~ DriverEos
             /\ \A c \in Chn : ~ ifile_run(c) /\ ~ convert_run(c) /\ ~ ofile_run(c) /\ ~ run_v4l2(c)
    <3>1. Carried
      BY <1>1, <2>7, CarriedStep
    <3> QED
      BY <1>2, <3>1, OrderedCarried
  <2> QED
    BY <2>1, <2>2, <2>3, <2>4, <2>5, <2>6, <2>7
<1>4. IdleInv'
  BY <1>1, IdleStep
<1> QED
  BY <1>3, <1>4 DEF PictureInv

(* The buffers of a pipe hold later and later pictures, each later than what *)
(* its sink took and no later than what its source took, and a suspended     *)
(* push holds the picture its channel took last: in every reachable state,   *)
(* whatever the driver does and wherever a start fails or SIGINT arrives     *)
(* (pipe.c 131-164, core.c 258-277).                                         *)
THEOREM PictureInvariant == Spec => []PictureInv
<1>1. Init => PictureInv
  BY PictureStart
<1>2. PipelineInv /\ PipelineInv' /\ BufferInv /\ PictureInv /\ [Next]_vars => PictureInv'
  BY PictureStep
<1> QED
  BY <1>1, <1>2, PipelineInvariant, BufferInvariant, PTL DEF Spec

(* No picture is written twice to an output file and none overtakes another *)
(* on its way from an input file or from the decoder, through the            *)
(* converters and their skips, to the file (mxc_v4l2_vpu_enc.c 2100-2134).   *)
THEOREM PicturesRise == Spec => []Increasing
<1>1. PictureInv => Increasing
  BY DEF PictureInv, Ordered, FilesRise, Increasing
<1> QED
  BY <1>1, PictureInvariant, PTL
=============================================================================
