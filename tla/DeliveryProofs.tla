--------------------------- MODULE DeliveryProofs ---------------------------
(***************************************************************************)
(* That no picture is lost in VpuPipeline when the driver drains, for every *)
(* topology, buffer assignment, number of frames and script: the LAST flag, *)
(* the capture channel and its driver, the sources, and the pictures        *)
(* between what a channel was sent and what it took.                        *)
(***************************************************************************)
EXTENDS PipelineProofs

-----------------------------------------------------------------------------
(* The LAST flag and the empty buffers. *)

(* The source r of pictures will not give another one. *)
LastOf(r) ==
    \/ Kind[r] = "ifile" /\ nread[r] = FrameNum
    \/ r = Capture /\ drained /\ done[r] = 0

(* A buffer on its way carries the flag only when its owner gives no more   *)
(* pictures; a buffer with the driver only when it is the last filled one;  *)
(* and what is pushed without a picture carries it.                         *)
Marked == \A b \in Buffer : lastf[b] /\ refcnt[b] > 0 => LastOf(Owner(b))
QueueMarked ==
    Capture # None =>
        \A i \in 1 .. done[Capture] : lastf[queued[Capture][i]] => drained /\ i = done[Capture]
EmptyMarked ==
    /\ \A d \in Chn : \A i \in DOMAIN pipe[d] : pic[pipe[d][i]] = 0 => lastf[pipe[d][i]]
    /\ \A i \in DOMAIN stack : pic[stack[i].buf] = 0 => lastf[stack[i].buf]
MarkInv == Marked /\ QueueMarked /\ EmptyMarked

(* A buffer in a pipe or in a suspended push *)
Moving(b) ==
    \/ \E c \in Chn : \E i \in DOMAIN pipe[c] : pipe[c][i] = b
    \/ \E i \in DOMAIN stack : stack[i].buf = b \/ stack[i].inb = b

(* Flags are cleared at most, and not on the way. *)
FlagsCarried ==
    /\ drained => drained'
    /\ \A b \in Buffer : lastf'[b] => lastf[b]
    /\ \A b \in Buffer : lastf'[b] /\ refcnt'[b] > 0 => refcnt[b] > 0
    /\ \A b \in Buffer : Moving(b) => lastf'[b] = lastf[b]

(* What is on its way has a reference. *)
LEMMA MovingHeld ==
    ASSUME CoreTypeOK, MemInv, NEW b \in Buffer, Moving(b)
    PROVE  InUse(b) /\ refcnt[b] \in Nat /\ refcnt[b] > 0 /\ b \in live
<1>1. InUse(b)
  BY DEF Moving, InUse
<1>2. refcnt[b] \in Nat
  BY DEF CoreTypeOK, BufTypeOK
<1>3. refcnt[b] # 0
  BY <1>1, HeldByNone
<1> QED
  BY <1>1, <1>2, <1>3 DEF MemInv, LiveInv

(* No flag changes. *)
LEMMA FlagsSame ==
    ASSUME UNCHANGED lastf, drained => drained',
           \A b \in Buffer : refcnt'[b] > 0 => refcnt[b] > 0
    PROVE  FlagsCarried
BY DEF FlagsCarried

(* Starting a channel clears the flags of the buffers it allocates. *)
LEMMA FlagsStart ==
    ASSUME CoreTypeOK, MemInv, NEW c \in Chn, start_chn(c), drained => drained'
    PROVE  FlagsCarried
<1>0. refcnt \in [Buffer -> Nat] /\ lastf \in [Buffer -> BOOLEAN]
  BY DEF CoreTypeOK, BufTypeOK
<1>1. CASE UNCHANGED <<refcnt, lastf>>
  BY <1>1, FlagsSame
<1>2. ASSUME NEW got \in alloc_buffer(c), unit_start(c, got) PROVE FlagsCarried
  <2>1. \A b \in ToSet(got) : b \in Buffer /\ b \notin live
    BY AllocFresh DEF ToSet
  <2>2. lastf' = [b \in Buffer |-> lastf[b] /\ b \notin ToSet(got)]
    BY <1>2 DEF unit_start
  <2>3. refcnt' = refcnt \/ refcnt' = [b \in Buffer |-> IF b \in ToSet(got) THEN 1 ELSE refcnt[b]]
    BY <1>2 DEF unit_start, start_v4l2
  <2>4. \A b \in Buffer : Moving(b) => b \notin ToSet(got)
    BY <2>1, MovingHeld
  <2>5. \A b \in Buffer : Moving(b) => lastf'[b] = lastf[b]
    BY <1>0, <2>2, <2>4
  <2>6. \A b \in Buffer : lastf'[b] => lastf[b] /\ b \notin ToSet(got)
    BY <2>2, Zenon
  <2>7. \A b \in Buffer : b \notin ToSet(got) => refcnt'[b] = refcnt[b]
    BY <2>3
  <2> QED
    BY <2>5, <2>6, <2>7 DEF FlagsCarried
<1>3. ASSUME NEW got \in alloc_buffer(c), streamon_fail(c, got) PROVE UNCHANGED <<refcnt, lastf>>
  BY <1>3 DEF streamon_fail, start_v4l2
<1> QED
  BY <1>1, <1>2, <1>3 DEF start_chn, bufVars

(* The last reference of a buffer is the one that is put. *)
LEMMA HeldTodo ==
    ASSUME CoreTypeOK, MemInv, NEW b \in Buffer, refcnt[b] = 1, NEW i \in DOMAIN todo, todo[i] = b
    PROVE  ~ Moving(b)
<1>1. Cardinality(Holders(b)) = 1
  BY HoldersCard DEF MemInv, CountInv
<1>2. \A p, q \in Holders(b) : p = q
  <2>1. IsFiniteSet(Holders(b))
    BY HoldersFinite
  <2> QED
    BY <1>1, <2>1, FS_Singleton
<1>3. <<"todo", None, i>> \in Holders(b)
  BY DEF Holders, Places, At
<1>4. ASSUME NEW d \in Chn, NEW j \in DOMAIN pipe[d], pipe[d][j] = b
      PROVE  FALSE
  <2>1. <<"pipe", d, j>> \in Holders(b)
    BY <1>4 DEF Holders, InQueues, Places, At
  <2>2. <<"pipe", d, j>> = <<"todo", None, i>>
    BY <1>2, <1>3, <2>1
  <2> QED
    BY <2>2
<1>5. ASSUME NEW j \in DOMAIN stack, stack[j].inb = b
      PROVE  FALSE
  <2>1. <<"inb", None, j>> \in Holders(b)
    BY <1>5 DEF Holders, Places
  <2>2. <<"inb", None, j>> = <<"todo", None, i>>
    BY <1>2, <1>3, <2>1
  <2> QED
    BY <2>2
<1>6. ASSUME NEW j \in DOMAIN stack, stack[j].own, stack[j].buf = b
      PROVE  FALSE
  <2>1. <<"buf", None, j>> \in Holders(b)
    BY <1>6 DEF Holders, Places
  <2>2. <<"buf", None, j>> = <<"todo", None, i>>
    BY <1>2, <1>3, <2>1
  <2> QED
    BY <2>2
<1>7. \A j \in DOMAIN stack : stack[j].own \/ stack[j].inb = stack[j].buf
  BY DEF MemInv, PlaceInv, FramesHold, Holding
<1> QED
  BY <1>4, <1>5, <1>6, <1>7 DEF Moving

(* A released buffer is nowhere on its way. *)
LEMMA FlagsRelease ==
    ASSUME CoreTypeOK, MemInv, release_buffer, drained => drained'
    PROVE  FlagsCarried
<1> DEFINE h == Head(todo)
           r == recycle(h)
<1>1. /\ todo # <<>> /\ lastf' = [lastf EXCEPT ![h] = FALSE] /\ refcnt[h] = 1
      /\ refcnt' = [refcnt EXCEPT ![h] = IF r = "idle" THEN 1 ELSE 0]
  BY DEF release_buffer
<1>2. /\ todo \in Seq(Buffer) /\ refcnt \in [Buffer -> Nat] /\ lastf \in [Buffer -> BOOLEAN]
  BY DEF CoreTypeOK, CtlTypeOK, BufTypeOK
<1>3. h \in Buffer /\ 1 \in DOMAIN todo /\ h = todo[1]
  BY <1>1, <1>2, NumHead
<1> HIDE DEF h, r
<1>4. ~ Moving(h)
  BY <1>1, <1>3, HeldTodo
<1>5. \A b \in Buffer : b # h => lastf'[b] = lastf[b] /\ refcnt'[b] = refcnt[b]
  BY <1>1, <1>2
<1>6. ~ lastf'[h]
  BY <1>1, <1>2, <1>3
<1> QED
  BY <1>4, <1>5, <1>6 DEF FlagsCarried

(* The flags in the steps that are carried *)
LEMMA FlagsStep ==
    ASSUME PipelineInv, MemInv, [Next]_vars, ~ pipe_push_back, ~ DriverDecode, ~ DriverEos,
           \A c \in Chn : ~ ifile_run(c) /\ ~ convert_run(c) /\ ~ ofile_run(c) /\ ~ run_v4l2(c)
    PROVE  FlagsCarried
<1>1. CoreTypeOK /\ MainTypeOK /\ CtlTypeOK /\ BufTypeOK
  BY DEF PipelineInv, TypeOK, CoreTypeOK
<1>2. ASSUME UNCHANGED <<refcnt, lastf, drained>> PROVE FlagsCarried
  BY <1>2, FlagsSame
<1>3. CASE CoreStep
  <2>1. UNCHANGED drained
    BY <1>3 DEF CoreStep, drvVars
  <2>2. ASSUME NEW c \in Chn, process_chn_stopping(c) \/ process_chn_stopped(c) PROVE FlagsCarried
    BY <1>2, <2>1, <2>2, Zenon DEF process_chn_stopping, process_chn_stopped, unit_stop, bufVars
  <2>3. CASE stop_done \/ push_return
    BY <1>2, <2>1, <2>3 DEF stop_done, push_return, bufVars
  <2>4. CASE put_shared
    <3>1. /\ todo # <<>> /\ UNCHANGED lastf
          /\ refcnt' = [refcnt EXCEPT ![Head(todo)] = IF @ = 0 THEN 0 ELSE @ - 1]
      BY <2>4 DEF put_shared
    <3>2. Head(todo) \in Buffer /\ refcnt[Head(todo)] \in Nat /\ refcnt[Head(todo)] > 0
      BY <1>1, <3>1, TodoHead
    <3>3. \A b \in Buffer : refcnt'[b] > 0 => refcnt[b] > 0
      BY <1>1, <3>1, <3>2 DEF BufTypeOK
    <3> QED
      BY <2>1, <3>1, <3>3, FlagsSame
  <2>5. CASE release_buffer
    BY <1>1, <2>1, <2>5, FlagsRelease
  <2>6. CASE start_sink_chn
    <3> DEFINE d == Outs[top.chn][top.pos]
    <3>1. /\ stack # <<>> /\ top.pos <= Len(Outs[top.chn])
          /\ start_chn(d) \/ UNCHANGED bufVars
      BY <2>6 DEF start_sink_chn, Running
    <3>2. d \in Chn
      <4>1. top \in Frame
        BY <1>1, <3>1, StackShape
      <4>2. top.chn \in Chn /\ top.pos \in DOMAIN Outs[top.chn]
        BY <3>1, <4>1, CoreAssumption DEF Frame
      <4> QED
        BY <4>2, SinkOf
    <3> HIDE DEF d
    <3> QED
      BY <1>1, <1>2, <2>1, <3>1, <3>2, FlagsStart DEF bufVars
  <2> QED
    BY <1>3, <2>2, <2>3, <2>4, <2>5, <2>6 DEF CoreStep, CoreNext
<1>4. CASE pitcher_start
  <2>1. Cur \in Chn /\ (start_chn(Cur) \/ UNCHANGED bufVars) /\ UNCHANGED drained
    BY <1>1, <1>4, CurChn DEF pitcher_start, drvVars
  <2> QED
    BY <1>1, <1>2, <2>1, FlagsStart DEF bufVars
<1>5. ASSUME NEW c \in Chn, is_decoder_output_finish(c) PROVE FlagsCarried
  <2>1. Capture \in Chn
    BY <1>5, CoreAssumption, PipelineAssumption DEF is_decoder_output_finish, Active
  <2>2. (start_chn(Capture) \/ UNCHANGED bufVars) /\ UNCHANGED drained
    BY <1>5 DEF is_decoder_output_finish, handle_decoder_resolution_change
  <2> QED
    BY <1>1, <1>2, <2>1, <2>2, FlagsStart DEF bufVars
<1>6. CASE pitcher_start_end \/ stop_chn_end \/ run_chn \/ pitcher_loop_run \/ timer_func \/ main_exit
  BY <1>2, <1>6 DEF pitcher_start_end, stop_chn_end, run_chn, pitcher_loop_run, timer_func, main_exit,
                    coreVars, bufVars, drvVars
<1>7. CASE stop_chn
  BY <1>2, <1>7, Zenon DEF stop_chn, unit_stop, coreVars, bufVars, drvVars
<1>8. ASSUME NEW c \in Chn,
             \/ \E why \in {"timeout", "event"} : poll_func(c, why)
             \/ teardown(c) \/ process_chn_active(c) \/ check_ctrl_ready(c) \/ check_v4l2_ready(c)
      PROVE  FlagsCarried
  BY <1>2, <1>8 DEF poll_func, teardown, process_chn_active, check_ctrl_ready, check_v4l2_ready,
                    bufVars, drvVars
<1>9. CASE DriverChange \/ sig_handler \/ Done \/ UNCHANGED vars
  BY <1>2, <1>9 DEF DriverChange, sig_handler, Done, vars, coreVars, bufVars, drvVars
<1>10. CASE MainNext
  BY <1>3, <1>4, <1>5, <1>6, <1>7, <1>8, <1>10 DEF MainNext
<1> QED
  BY <1>9, <1>10 DEF Next, DriverNext

(* The frames after a channel has begun to push *)
LEMMA PushedFrames ==
    ASSUME CtlTypeOK, NEW c \in Chn, NEW b \in Buffer, NEW y \in Buffer \cup {None},
           NEW w \in BOOLEAN, EnterPush(c, b, y, w)
    PROVE  \A i \in DOMAIN stack' :
             \/ i \in DOMAIN stack /\ stack'[i] = stack[i]
             \/ stack'[i].chn = c /\ stack'[i].buf = b /\ stack'[i].inb = y /\ stack'[i].pos = 1
<1> DEFINE f == [chn |-> c, buf |-> b, inb |-> y, own |-> w, pos |-> 1]
<1>0. f.chn = c /\ f.buf = b /\ f.inb = y /\ f.pos = 1
  OBVIOUS
<1>1. /\ Len(stack) \in Nat /\ DOMAIN stack = 1 .. Len(stack) /\ DOMAIN stack' = 1 .. Len(stack) + 1
      /\ \A i \in DOMAIN stack : stack'[i] = stack[i]
      /\ stack'[Len(stack) + 1] = f
  BY EnteredFrame, Zenon
<1> HIDE DEF f
<1>2. \A i \in DOMAIN stack' : i \in DOMAIN stack \/ i = Len(stack) + 1
  BY <1>1
<1> QED
  BY <1>0, <1>1, <1>2

(* What was on its way still is, or what begins it carries a picture or the flag. *)
LEMMA EmptyCarried ==
    ASSUME CoreTypeOK, EmptyMarked,
           \A b \in Buffer : Moving(b) => lastf'[b] = lastf[b] /\ pic'[b] = pic[b],
           \A d \in Chn : \A i \in DOMAIN pipe'[d] :
              \/ \E j \in DOMAIN pipe[d] : pipe'[d][i] = pipe[d][j]
              \/ \E j \in DOMAIN stack : pipe'[d][i] = stack[j].buf,
           \A i \in DOMAIN stack' :
              \/ \E j \in DOMAIN stack : stack'[i].buf = stack[j].buf
              \/ pic'[stack'[i].buf] = 0 => lastf'[stack'[i].buf]
    PROVE  EmptyMarked'
<1>1. ASSUME NEW d \in Chn, NEW j \in DOMAIN pipe[d], pic'[pipe[d][j]] = 0 PROVE lastf'[pipe[d][j]]
  <2>1. pipe[d][j] \in Buffer
    BY QueueOf
  <2>2. Moving(pipe[d][j])
    BY DEF Moving
  <2> QED
    BY <1>1, <2>1, <2>2 DEF EmptyMarked
<1>2. ASSUME NEW j \in DOMAIN stack, pic'[stack[j].buf] = 0 PROVE lastf'[stack[j].buf]
  <2>1. stack[j].buf \in Buffer
    BY StackFrames DEF CoreTypeOK
  <2>2. Moving(stack[j].buf)
    BY DEF Moving
  <2> QED
    BY <1>2, <2>1, <2>2 DEF EmptyMarked
<1> QED
  BY <1>1, <1>2 DEF EmptyMarked

(* A carried step *)
LEMMA MarkCarried ==
    ASSUME PipelineInv, PipelineInv', MarkInv, Carried, FlagsCarried
    PROVE  MarkInv'
<1>1. CoreTypeOK /\ QTypeOK /\ BufTypeOK /\ BufTypeOK' /\ pic' = pic /\ nread' = nread
  BY DEF PipelineInv, TypeOK, CoreTypeOK, Carried
<1>2. ASSUME NEW r \in Chn, LastOf(r) PROVE LastOf(r)'
  <2>1. done'[r] = 0 \/ done'[r] = done[r]
    BY DEF Carried
  <2> QED
    BY <1>1, <1>2, <2>1 DEF LastOf, FlagsCarried
<1>3. Marked'
  <2> SUFFICES ASSUME NEW b \in Buffer, lastf'[b], refcnt'[b] > 0 PROVE LastOf(Owner(b))'
    BY DEF Marked
  <2>1. LastOf(Owner(b)) /\ Owner(b) \in Chn
    BY OwnerOf DEF MarkInv, Marked, FlagsCarried
  <2> QED
    BY <1>2, <2>1
<1>4. QueueMarked'
  <2> SUFFICES ASSUME Capture # None, NEW i \in 1 .. done'[Capture], lastf'[queued'[Capture][i]]
               PROVE  drained' /\ i = done'[Capture]
    BY DEF QueueMarked
  <2>1. Capture \in Chn
    BY PipelineAssumption
  <2>2. done'[Capture] # 0 /\ done[Capture] \in Nat
    BY <1>1, <2>1 DEF QTypeOK
  <2>3. done'[Capture] = done[Capture] /\ queued'[Capture][i] = queued[Capture][i]
    BY <2>1, <2>2 DEF Carried
  <2>4. queued[Capture][i] \in Buffer
    <3>1. queued[Capture] \in Seq(Buffer) /\ done[Capture] <= Len(queued[Capture])
      BY <1>1, <2>1 DEF QTypeOK, PipelineInv, DoneInv
    <3>2. i \in DOMAIN queued[Capture]
      BY <2>2, <2>3, <3>1
    <3> QED
      BY <3>1, <3>2
  <2> QED
    BY <2>3, <2>4 DEF MarkInv, QueueMarked, FlagsCarried
<1>5. EmptyMarked'
  <2>1. \A d \in Chn : \A i \in DOMAIN pipe'[d] : \E j \in DOMAIN pipe[d] : pipe'[d][i] = pipe[d][j]
    BY DEF Carried
  <2>2. \A i \in DOMAIN stack' : \E j \in DOMAIN stack : stack'[i].buf = stack[j].buf
    BY DEF Carried, FramesCarried
  <2> QED
    BY <1>1, <2>1, <2>2, EmptyCarried DEF MarkInv, FlagsCarried
<1> QED
  BY <1>3, <1>4, <1>5 DEF MarkInv

(* A picture is read; the last one of the file is marked. *)
LEMMA MarkIfile ==
    ASSUME PipelineInv, PipelineInv', MemInv, IdleInv, MarkInv, NEW c \in Chn, ifile_run(c)
    PROVE  MarkInv'
<1> DEFINE b == Head(idles[c])
<1>1. /\ call = c /\ Kind[c] = "ifile" /\ Ready(c)
      /\ nread' = [nread EXCEPT ![c] = @ + 1] /\ pic' = [pic EXCEPT ![b] = nread[c] + 1]
      /\ lastf' = [lastf EXCEPT ![b] = @ \/ nread[c] + 1 = FrameNum]
      /\ EnterPush(c, b, None, TRUE)
      /\ UNCHANGED <<pipe, queued, done, refcnt, drained>>
  BY Zenon DEF ifile_run, Active, drvVars
<1>2. /\ CoreTypeOK /\ CtlTypeOK /\ nread \in [Chn -> 0 .. FrameNum] /\ nread' \in [Chn -> 0 .. FrameNum]
      /\ pic \in [Buffer -> Nat] /\ lastf \in [Buffer -> BOOLEAN]
      /\ queued \in Queues /\ DoneInv /\ done \in [Chn -> Nat]
  BY Zenon DEF PipelineInv, TypeOK, CoreTypeOK, AppTypeOK, BufTypeOK, QTypeOK, Queues
<1>3. idles[c] # <<>> /\ idles[c] \in Seq(Buffer)
  BY <1>1, <1>2, QueueOf DEF Ready, ifile_checkready
<1>4. 1 \in DOMAIN idles[c] /\ b = idles[c][1] /\ b \in Buffer
  BY <1>3, NumHead
<1>5. ~ InUse(b) /\ ~ lastf[b] /\ Owner(b) = c /\ \A d \in Chn : \A j \in DOMAIN queued[d] : queued[d][j] # b
  BY <1>2, <1>4, IdleAlone DEF IdleInv, MemInv, PlaceInv, IdlesOwned
<1> HIDE DEF b
<1>6. /\ \A x \in Buffer : x # b => lastf'[x] = lastf[x] /\ pic'[x] = pic[x]
      /\ lastf'[b] => nread[c] + 1 = FrameNum
      /\ nread[c] \in Nat /\ pic'[b] = nread[c] + 1 /\ nread'[c] = nread[c] + 1 /\ nread'[c] <= FrameNum
      /\ \A r \in Chn : r # c => nread'[r] = nread[r]
  BY <1>1, <1>2, <1>4, <1>5, PipelineAssumption
<1>7. nread[c] # FrameNum
  BY <1>6, PipelineAssumption
<1>8. c # Capture
  BY <1>1, WiringAssumption
<1>9. Marked'
  <2> SUFFICES ASSUME NEW x \in Buffer, lastf'[x], refcnt'[x] > 0 PROVE LastOf(Owner(x))'
    BY DEF Marked
  <2>1. CASE x = b
    BY <1>1, <1>5, <1>6, <2>1 DEF LastOf
  <2>2. CASE x # b
    <3>1. LastOf(Owner(x)) /\ Owner(x) \in Chn
      BY <1>1, <1>6, <2>2, OwnerOf DEF MarkInv, Marked
    <3> QED
      BY <1>1, <1>6, <1>7, <1>8, <3>1 DEF LastOf
  <2> QED
    BY <2>1, <2>2
<1>10. QueueMarked'
  <2> SUFFICES ASSUME Capture # None, NEW i \in 1 .. done[Capture]
               PROVE  lastf'[queued[Capture][i]] = lastf[queued[Capture][i]]
    BY <1>1 DEF QueueMarked, MarkInv
  <2>1. Capture \in Chn
    BY PipelineAssumption
  <2>2. queued[Capture] \in Seq(Buffer) /\ done[Capture] \in Nat /\ done[Capture] <= Len(queued[Capture])
    BY <1>2, <2>1 DEF DoneInv, Queues
  <2>3. i \in DOMAIN queued[Capture] /\ queued[Capture][i] \in Buffer
    BY <2>2
  <2> QED
    BY <1>5, <1>6, <2>1, <2>3
<1>11. EmptyMarked'
  <2>1. \A x \in Buffer : Moving(x) => x # b
    BY <1>5 DEF Moving, InUse
  <2>2. \A i \in DOMAIN stack' :
           \/ \E j \in DOMAIN stack : stack'[i].buf = stack[j].buf
           \/ stack'[i].buf = b
    <3>1. \A i \in DOMAIN stack' :
             \/ i \in DOMAIN stack /\ stack'[i] = stack[i]
             \/ stack'[i].chn = c /\ stack'[i].buf = b /\ stack'[i].inb = None /\ stack'[i].pos = 1
      <4>1. CtlTypeOK
        BY <1>2
      <4>2. EnterPush(c, b, None, TRUE)
        BY <1>1, Zenon
      <4>3. b \in Buffer
        BY <1>4
      <4>4. None \in Buffer \cup {None}
        OBVIOUS
      <4>5. TRUE \in BOOLEAN
        OBVIOUS
      <4> QED
        BY <4>1, <4>2, <4>3, <4>4, <4>5, PushedFrames, Zenon
    <3> QED
      BY <3>1
  <2>3. pic'[b] # 0
    BY <1>6
  <2> QED
    BY <1>1, <1>2, <1>6, <2>1, <2>2, <2>3, EmptyCarried DEF MarkInv
<1> QED
  BY <1>9, <1>10, <1>11 DEF MarkInv

(* A picture is converted, or an empty buffer is dropped. *)
LEMMA MarkConvert ==
    ASSUME PipelineInv, MemInv, IdleInv, MarkInv, NEW c \in Chn, convert_run(c)
    PROVE  MarkInv'
<1> DEFINE in == Head(pipe[c])
           b == IF c \in Passthru THEN in ELSE Head(idles[c])
<1>1. /\ call = c /\ Kind[c] \in {"convert", "g2d"} /\ Ready(c)
      /\ pipe' = [pipe EXCEPT ![c] = Tail(@)]
      /\ IF pic[in] = 0 THEN UNCHANGED <<pic, stack>>
         ELSE pic' = [pic EXCEPT ![b] = pic[in]] /\ EnterPush(c, b, in, c \notin Passthru)
      /\ UNCHANGED <<nread, queued, done, lastf, refcnt, drained>>
  BY DEF convert_run, Active, drvVars, appVars
<1>2. CoreTypeOK /\ CtlTypeOK /\ pic \in [Buffer -> Nat] /\ pipe \in Queues
  BY Zenon DEF PipelineInv, TypeOK, CoreTypeOK, BufTypeOK, QTypeOK, Queues
<1>3. pipe[c] # <<>> /\ (c \in Passthru \/ idles[c] # <<>>) /\ idles[c] \in Seq(Buffer)
  BY <1>1, <1>2, QueueOf, Zenon DEF Ready, convert_checkready
<1>4. Took(pipe, pipe', c)
  BY <1>1, <1>3 DEF Took
<1>5. /\ in \in Buffer
      /\ \A d \in Chn : \A i \in DOMAIN pipe'[d] : \E j \in DOMAIN pipe[d] : pipe'[d][i] = pipe[d][j]
  BY <1>2, <1>4, TakeHead
<1>6. b \in Buffer /\ (b = in \/ ~ Moving(b))
  <2>1. CASE c \in Passthru
    BY <1>5, <2>1
  <2>2. CASE c \notin Passthru
    <3>1. 1 \in DOMAIN idles[c] /\ b = idles[c][1]
      BY <1>3, <2>2, NumHead
    <3> HIDE DEF b
    <3> QED
      BY <1>2, <3>1, IdleAlone DEF Moving, InUse
  <2> QED
    BY <2>1, <2>2
<1> HIDE DEF b, in
<1>7. \A x \in Buffer : Moving(x) => pic'[x] = pic[x]
  <2>1. \A x \in Buffer : x # b => pic'[x] = pic[x]
    BY <1>1, <1>2
  <2>2. b = in => pic'[b] = pic[b]
    BY <1>1, <1>2, <1>6
  <2> QED
    BY <1>6, <2>1, <2>2
<1>8. \A i \in DOMAIN stack' :
         \/ \E j \in DOMAIN stack : stack'[i].buf = stack[j].buf
         \/ pic'[stack'[i].buf] # 0
  <2>1. CASE pic[in] = 0
    BY <1>1, <2>1
  <2>2. CASE pic[in] # 0
    <3>1. EnterPush(c, b, in, c \notin Passthru) /\ pic'[b] = pic[in]
      BY <1>1, <1>2, <1>6, <2>2
    <3>2. \A i \in DOMAIN stack' :
             \/ i \in DOMAIN stack /\ stack'[i] = stack[i]
             \/ stack'[i].chn = c /\ stack'[i].buf = b /\ stack'[i].inb = in /\ stack'[i].pos = 1
      <4>1. CtlTypeOK
        BY <1>2
      <4>2. EnterPush(c, b, in, c \notin Passthru)
        BY <3>1
      <4>3. b \in Buffer
        BY <1>6
      <4>4. in \in Buffer \cup {None}
        BY <1>5
      <4>5. (c \notin Passthru) \in BOOLEAN
        BY Zenon
      <4> QED
        BY <4>1, <4>2, <4>3, <4>4, <4>5, PushedFrames, Zenon
    <3> QED
      BY <2>2, <3>1, <3>2
  <2> QED
    BY <2>1, <2>2
<1>9. EmptyMarked'
  BY <1>1, <1>2, <1>5, <1>7, <1>8, EmptyCarried DEF MarkInv
<1>10. Marked' /\ QueueMarked'
  BY <1>1 DEF MarkInv, Marked, QueueMarked, LastOf
<1> QED
  BY <1>9, <1>10 DEF MarkInv

(* A picture is written, or an empty buffer is dropped. *)
LEMMA MarkOfile ==
    ASSUME PipelineInv, MarkInv, NEW c \in Chn, ofile_run(c)
    PROVE  MarkInv'
<1>1. /\ pipe' = pipe \/ Took(pipe, pipe', c)
      /\ UNCHANGED <<nread, queued, done, lastf, refcnt, drained, pic, stack>>
  BY DEF ofile_run, bufVars, drvVars, Took
<1>2. CoreTypeOK /\ pipe \in Queues
  BY DEF PipelineInv, TypeOK, CoreTypeOK, QTypeOK, Queues
<1>3. \A d \in Chn : \A i \in DOMAIN pipe'[d] : \E j \in DOMAIN pipe[d] : pipe'[d][i] = pipe[d][j]
  <2>1. CASE Took(pipe, pipe', c)
    BY <1>2, <2>1, TakeHead
  <2> QED
    BY <1>1, <2>1
<1>4. EmptyMarked'
  BY <1>1, <1>2, <1>3, EmptyCarried DEF MarkInv
<1>5. Marked' /\ QueueMarked'
  BY <1>1 DEF MarkInv, Marked, QueueMarked, LastOf
<1> QED
  BY <1>4, <1>5 DEF MarkInv

(* A filled buffer is dequeued. *)
LEMMA MarkCapture ==
    ASSUME PipelineInv, MemInv, MarkInv, NEW c \in Chn, run_v4l2(c)
    PROVE  MarkInv'
<1> DEFINE b == Head(queued[c])
<1>1. /\ Kind[c] = "capture"
      /\ IF done[c] > 0
         THEN /\ queued' = [queued EXCEPT ![c] = Tail(@)] /\ done' = [done EXCEPT ![c] = @ - 1]
              /\ refcnt' = [refcnt EXCEPT ![b] = @ + 1]
              /\ IF pic[b] = 0 /\ ~ lastf[b] THEN stack' = stack ELSE EnterPush(c, b, None, TRUE)
         ELSE UNCHANGED <<queued, done, refcnt, stack>>
      /\ UNCHANGED <<pipe, pic, lastf, nread, drained>>
  BY Zenon DEF run_v4l2, Active, drvVars, appVars
<1>2. /\ CoreTypeOK /\ CtlTypeOK /\ queued \in Queues /\ refcnt \in [Buffer -> Nat]
      /\ done \in [Chn -> Nat] /\ DoneInv
  BY DEF PipelineInv, TypeOK, CoreTypeOK, BufTypeOK, QTypeOK, Queues
<1>3. c = Capture /\ Capture # None
  BY <1>1, WiringAssumption, CoreAssumption
<1>4. CASE ~ (done[c] > 0)
  <2>1. UNCHANGED <<queued, done, refcnt, stack, pipe, pic, lastf, nread, drained>>
    BY <1>1, <1>4, Zenon
  <2> QED
    BY <2>1 DEF MarkInv, Marked, QueueMarked, EmptyMarked, LastOf
<1>5. CASE done[c] > 0
  <2>1. queued[c] \in Seq(Buffer) /\ queued[c] # <<>> /\ done[c] \in Nat /\ done[c] <= Len(queued[c])
    BY <1>2, <1>5 DEF DoneInv, Queues
  <2>2. Took(queued, queued', c)
    BY <1>1, <1>5, <2>1, Zenon DEF Took
  <2>3. /\ b \in Buffer /\ b = queued[c][1] /\ 1 \in DOMAIN queued[c] /\ queued'[c] \in Seq(Buffer)
        /\ \A i \in DOMAIN queued'[c] : queued'[c][i] = queued[c][i + 1]
        /\ queued'[c] = Tail(queued[c])
    BY <1>2, <2>2, TakeHead
  <2>4. DOMAIN queued'[c] = 1 .. Len(queued[c]) - 1
    BY <2>1, <2>3
  <2>5. Owner(b) = c
    BY <2>3 DEF MemInv, PlaceInv, QueuedOwned
  <2>6. done'[c] = done[c] - 1
    BY <1>1, <1>2, <1>5
  <2>7. lastf[b] => drained /\ done[c] = 1
    <3>1. 1 \in 1 .. done[c]
      BY <1>5, <2>1
    <3> QED
      BY <1>3, <2>3, <3>1 DEF MarkInv, QueueMarked
  <2> HIDE DEF b
  <2>8. Marked'
    <3> SUFFICES ASSUME NEW x \in Buffer, lastf'[x], refcnt'[x] > 0 PROVE LastOf(Owner(x))'
      BY DEF Marked
    <3>1. CASE x = b
      BY <1>1, <1>3, <2>5, <2>6, <2>7, <3>1 DEF LastOf
    <3>2. CASE x # b
      <4>1. refcnt'[x] = refcnt[x]
        BY <1>1, <1>2, <1>5, <3>2
      <4>2. LastOf(Owner(x)) /\ Owner(x) \in Chn
        BY <1>1, <4>1, OwnerOf DEF MarkInv, Marked
      <4>3. ~ (done[Capture] = 0)
        BY <1>3, <1>5, <2>1
      <4> QED
        BY <1>1, <4>2, <4>3 DEF LastOf
    <3> QED
      BY <3>1, <3>2
  <2>9. QueueMarked'
    <3> SUFFICES ASSUME NEW i \in 1 .. done'[c], lastf'[queued'[c][i]]
                 PROVE  drained' /\ i = done'[c]
      BY <1>3 DEF QueueMarked
    <3>1. i \in Nat /\ i + 1 \in 1 .. done[c] /\ i \in DOMAIN queued'[c]
      BY <2>1, <2>4, <2>6
    <3>2. queued'[c][i] = queued[c][i + 1]
      BY <2>3, <3>1
    <3>3. drained /\ i + 1 = done[c]
      BY <1>1, <1>3, <3>1, <3>2 DEF MarkInv, QueueMarked
    <3> QED
      BY <1>1, <2>1, <2>6, <3>1, <3>3
  <2>10. EmptyMarked'
    <3>1. \A i \in DOMAIN stack' :
             \/ \E j \in DOMAIN stack : stack'[i].buf = stack[j].buf
             \/ pic'[stack'[i].buf] = 0 => lastf'[stack'[i].buf]
      <4>1. CASE pic[b] = 0 /\ ~ lastf[b]
        BY <1>1, <1>5, <4>1
      <4>2. CASE ~ (pic[b] = 0 /\ ~ lastf[b])
        <5>1. EnterPush(c, b, None, TRUE)
          BY <1>1, <1>5, <4>2, Zenon
        <5>2. \A i \in DOMAIN stack' :
                 \/ i \in DOMAIN stack /\ stack'[i] = stack[i]
                 \/ stack'[i].chn = c /\ stack'[i].buf = b /\ stack'[i].inb = None /\ stack'[i].pos = 1
          <6>1. CtlTypeOK
            BY <1>2
          <6>2. b \in Buffer
            BY <2>3
          <6>3. None \in Buffer \cup {None}
            OBVIOUS
          <6>4. TRUE \in BOOLEAN
            OBVIOUS
          <6> QED
            BY <5>1, <6>1, <6>2, <6>3, <6>4, PushedFrames, Zenon
        <5> QED
          BY <1>1, <4>2, <5>2
      <4> QED
        BY <4>1, <4>2
    <3> QED
      BY <1>1, <1>2, <3>1, EmptyCarried DEF MarkInv
  <2> QED
    BY <2>8, <2>9, <2>10 DEF MarkInv
<1> QED
  BY <1>4, <1>5

(* A buffer is pushed into a pipe. *)
LEMMA MarkPush ==
    ASSUME PipelineInv, MemInv, MarkInv, pipe_push_back, UNCHANGED <<nread, drained>>
    PROVE  MarkInv'
<1> DEFINE n == Len(Outs[top.chn])
           d == Outs[top.chn][top.pos - n]
           x == top.buf
<1>1. /\ stack # <<>> /\ top.pos > n /\ top.pos <= 2 * n
      /\ refcnt' = [refcnt EXCEPT ![x] = @ + 1]
      /\ pipe' = [pipe EXCEPT ![d] = Append(@, x)]
      /\ stack' = Advanced
      /\ UNCHANGED <<queued, done, pic, lastf>>
  BY DEF pipe_push_back, Running
<1>2. CoreTypeOK /\ CtlTypeOK /\ pipe \in Queues /\ refcnt \in [Buffer -> Nat]
  BY DEF PipelineInv, TypeOK, CoreTypeOK, BufTypeOK, QTypeOK, Queues
<1>3. d \in Chn
  BY <1>1, <1>2, UnservedPush
<1>4. Len(stack) \in DOMAIN stack /\ top = stack[Len(stack)] /\ DOMAIN stack' = DOMAIN stack
  BY <1>1, <1>2, AdvancedTop
<1>5. \A i \in DOMAIN stack' : stack'[i].buf = stack[i].buf
  BY <1>1, <1>2, <1>4, AdvancedSame
<1>6. x \in Buffer /\ Moving(x)
  BY <1>2, <1>4, StackFrames DEF Moving
<1>7. refcnt[x] > 0
  BY <1>2, <1>6, MovingHeld
<1> HIDE DEF d, x, n
<1>8. \A e \in Chn : \A i \in DOMAIN pipe'[e] :
         \/ \E j \in DOMAIN pipe[e] : pipe'[e][i] = pipe[e][j]
         \/ pipe'[e][i] = x
  <2>1. pipe[d] \in Seq(Buffer) /\ pipe'[d] = Append(pipe[d], x) /\ \A e \in Chn : e # d => pipe'[e] = pipe[e]
    BY <1>1, <1>2, <1>3 DEF Queues
  <2>2. \A i \in DOMAIN Append(pipe[d], x) :
           Append(pipe[d], x)[i] = x \/ (i \in DOMAIN pipe[d] /\ Append(pipe[d], x)[i] = pipe[d][i])
    BY <1>6, <2>1, AppendProperties
  <2> QED
    BY <2>1, <2>2, Zenon
<1>9. EmptyMarked'
  <2>1. \A e \in Chn : \A i \in DOMAIN pipe'[e] :
         \/ \E j \in DOMAIN pipe[e] : pipe'[e][i] = pipe[e][j]
         \/ \E j \in DOMAIN stack : pipe'[e][i] = stack[j].buf
    BY <1>4, <1>8 DEF x
  <2> QED
    BY <1>1, <1>2, <1>4, <1>5, <2>1, EmptyCarried, Zenon DEF MarkInv
<1>10. \A b \in Buffer : refcnt'[b] > 0 => refcnt[b] > 0
  BY <1>1, <1>2, <1>7
<1>11. Marked' /\ QueueMarked'
  BY <1>1, <1>10 DEF MarkInv, Marked, QueueMarked, LastOf
<1> QED
  BY <1>9, <1>11 DEF MarkInv

(* The driver fills a buffer or marks the last one it filled. *)
LEMMA MarkFilled ==
    ASSUME PipelineInv, MemInv, MarkInv, Capture \in Chn, ~ drained, NEW k \in Nat,
           k = done'[Capture], k <= done[Capture] + 1, k <= Len(queued[Capture]),
           UNCHANGED <<pipe, stack, queued, refcnt, nread>>,
           k \in DOMAIN queued[Capture] => (lastf'[queued[Capture][k]] => drained'),
           \A x \in Buffer : \/ lastf'[x] = lastf[x] /\ pic'[x] = pic[x]
                             \/ k \in DOMAIN queued[Capture] /\ x = queued[Capture][k]
    PROVE  MarkInv'
<1>1. /\ CoreTypeOK /\ queued[Capture] \in Seq(Buffer) /\ done[Capture] \in Nat
      /\ done[Capture] <= Len(queued[Capture])
  BY DEF PipelineInv, TypeOK, CoreTypeOK, QTypeOK, DoneInv
<1>2. \A j \in DOMAIN queued[Capture] :
         /\ queued[Capture][j] \in Buffer /\ ~ InUse(queued[Capture][j]) /\ refcnt[queued[Capture][j]] = 0
         /\ \A i \in DOMAIN queued[Capture] : queued[Capture][i] = queued[Capture][j] => i = j
  BY <1>1, QueuedAlone DEF MemInv, QueuedInv
<1>3. Marked'
  <2> SUFFICES ASSUME NEW x \in Buffer, lastf'[x], refcnt'[x] > 0 PROVE LastOf(Owner(x))'
    BY DEF Marked
  <2>1. ~ (refcnt[x] = 0)
    OBVIOUS
  <2>2. lastf[x]
    BY <1>2, <2>1
  <2>3. LastOf(Owner(x))
    BY <2>2 DEF MarkInv, Marked
  <2> QED
    BY <2>3 DEF LastOf
<1>4. QueueMarked'
  <2> SUFFICES ASSUME NEW i \in 1 .. k, lastf'[queued[Capture][i]]
               PROVE  drained' /\ i = k
    BY DEF QueueMarked
  <2>1. CASE i = k
    <3>1. k \in DOMAIN queued[Capture]
      BY <1>1, <2>1
    <3> QED
      BY <2>1, <3>1
  <2>2. CASE i # k
    <3>1. i \in 1 .. done[Capture] /\ i \in DOMAIN queued[Capture]
      BY <1>1, <2>2
    <3>2. lastf[queued[Capture][i]]
      BY <1>2, <2>2, <3>1
    <3>3. drained
      BY <3>1, <3>2, CoreAssumption DEF MarkInv, QueueMarked
    <3> QED
      BY <3>3
  <2> QED
    BY <2>1, <2>2
<1>5. EmptyMarked'
  <2>1. \A x \in Buffer : Moving(x) => lastf'[x] = lastf[x] /\ pic'[x] = pic[x]
    BY <1>2 DEF Moving, InUse
  <2> QED
    BY <1>1, <2>1, EmptyCarried DEF MarkInv
<1> QED
  BY <1>3, <1>4, <1>5 DEF MarkInv

(* The steps of the driver keep the marks. *)
LEMMA MarkDriver ==
    ASSUME PipelineInv, PipelineInv', MemInv, MarkInv, DriverDecode \/ DriverEos
    PROVE  MarkInv'
<1>1. /\ Output # None /\ ~ drained /\ UNCHANGED <<pipe, stack, queued, refcnt, nread>>
      /\ drained' \/ (DriverDecode /\ UNCHANGED drained)
  BY Zenon DEF DriverDecode, DriverEos, Streaming, ctlVars, appVars
<1>2. /\ Capture \in Chn /\ queued[Capture] \in Seq(Buffer) /\ done \in [Chn -> Nat]
      /\ done[Capture] \in Nat /\ done[Capture] <= Len(queued[Capture])
      /\ pic \in [Buffer -> Nat] /\ lastf \in [Buffer -> BOOLEAN]
  BY <1>1, PipelineAssumption, Zenon DEF PipelineInv, TypeOK, CoreTypeOK, QTypeOK, BufTypeOK, DoneInv
<1>3. ASSUME NEW p, NEW l, l => drained', Free, Fill(p, l) PROVE MarkInv'
  <2>1. PICK k \in Nat : k = done[Capture] + 1
    BY <1>2
  <2>2. k \in DOMAIN queued[Capture] /\ k <= Len(queued[Capture]) /\ queued[Capture][k] \in Buffer
    BY <1>2, <1>3, <2>1 DEF Free
  <2>3. /\ pic' = [pic EXCEPT ![queued[Capture][k]] = p] /\ lastf' = [lastf EXCEPT ![queued[Capture][k]] = l]
        /\ done' = [done EXCEPT ![Capture] = @ + 1]
    BY <1>3, <2>1 DEF Fill
  <2>4. done'[Capture] = k /\ k <= done[Capture] + 1
    BY <1>2, <2>1, <2>3
  <2>5. lastf'[queued[Capture][k]] => drained'
    BY <1>2, <1>3, <2>2, <2>3
  <2>6. \A x \in Buffer : \/ lastf'[x] = lastf[x] /\ pic'[x] = pic[x]
                          \/ k \in DOMAIN queued[Capture] /\ x = queued[Capture][k]
    BY <1>2, <2>2, <2>3
  <2> QED
    BY <1>1, <1>2, <2>2, <2>4, <2>5, <2>6, MarkFilled
<1>4. CASE DriverDecode
  <2>1. Free /\ Fill(IF Head(script) = "frame" THEN ndec + 1 ELSE 0, FALSE)
    BY <1>4, Zenon DEF DriverDecode
  <2> QED
    BY <1>3, <2>1, Zenon
<1>5. CASE DriverEos
  <2>1. drained'
    BY <1>5 DEF DriverEos
  <2>2. CASE Free /\ Fill(0, TRUE)
    BY <1>3, <2>1, <2>2, Zenon
  <2>3. PICK k \in Nat : k = done[Capture]
    BY <1>2
  <2>4. CASE UNCHANGED <<pic, lastf, done>>
    <3>1. \A x \in Buffer : lastf'[x] = lastf[x] /\ pic'[x] = pic[x]
      BY <2>4
    <3>2. k = done'[Capture] /\ k <= done[Capture] + 1 /\ k <= Len(queued[Capture])
      BY <1>2, <2>3, <2>4
    <3> QED
      BY <1>1, <1>2, <2>1, <3>1, <3>2, MarkFilled
  <2>5. CASE /\ done[Capture] > 0 /\ UNCHANGED <<pic, done>>
             /\ lastf' = [lastf EXCEPT ![queued[Capture][done[Capture]]] = TRUE]
    <3>1. k \in DOMAIN queued[Capture]
      BY <1>2, <2>3, <2>5
    <3>2. \A x \in Buffer : \/ lastf'[x] = lastf[x] /\ pic'[x] = pic[x]
                            \/ k \in DOMAIN queued[Capture] /\ x = queued[Capture][k]
      BY <1>2, <2>3, <2>5, <3>1, Zenon
    <3>3. k = done'[Capture] /\ k <= done[Capture] + 1 /\ k <= Len(queued[Capture])
      BY <1>2, <2>3, <2>5
    <3> QED
      BY <1>1, <1>2, <2>1, <3>2, <3>3, MarkFilled
  <2> QED
    BY <1>5, <2>2, <2>4, <2>5, Zenon DEF DriverEos
<1> QED
  BY <1>4, <1>5

(* Nothing is marked in the initial state. *)
LEMMA MarkStart ==
    ASSUME Init
    PROVE  MarkInv
<1>1. /\ \A b \in Buffer : ~ (refcnt[b] > 0)
      /\ \A c \in Chn : pipe[c] = <<>> /\ done[c] = 0
      /\ stack = <<>>
  BY DEF Init, CoreInit
<1>2. Capture # None => done[Capture] = 0 /\ \A i \in 1 .. 0 : FALSE
  BY <1>1, PipelineAssumption
<1> QED
  BY <1>1, <1>2 DEF MarkInv, Marked, QueueMarked, EmptyMarked

(* Every step keeps the marks. *)
LEMMA MarkStep ==
    ASSUME PipelineInv, PipelineInv', MemInv, IdleInv, MarkInv, [Next]_vars
    PROVE  MarkInv'
<1>1. CASE pipe_push_back
  <2>1. UNCHANGED <<nread, drained>>
    BY <1>1, PushAlone DEF CoreStep, appVars, drvVars
  <2> QED
    BY <1>1, <2>1, MarkPush
<1>2. CASE DriverDecode \/ DriverEos
  BY <1>2, MarkDriver
<1>3. ASSUME NEW c \in Chn, ifile_run(c) \/ convert_run(c) \/ ofile_run(c) \/ run_v4l2(c)
      PROVE  MarkInv'
  BY <1>3, MarkIfile, MarkConvert, MarkOfile, MarkCapture
<1>4. CASE /\ ~ pipe_push_back /\ ~ DriverDecode /\ ~ DriverEos
           /\ \A c \in Chn : ~ ifile_run(c) /\ ~ convert_run(c) /\ ~ ofile_run(c) /\ ~ run_v4l2(c)
  <2>1. Carried /\ FlagsCarried
    BY <1>4, CarriedStep, FlagsStep
  <2> QED
    BY <2>1, MarkCarried
<1> QED
  BY <1>1, <1>2, <1>3, <1>4

-----------------------------------------------------------------------------
(* How a step changes a channel. *)

(* Nothing of the channel changes but its buffers. *)
ChnSame(c) ==
    state'[c] = state[c] /\ end'[c] = end[c] /\ enable'[c] = enable[c] /\ done'[c] = done[c]

(* The calls of __start_chn *)
StartsChn(c) ==
    /\ start_chn(c) /\ UNCHANGED done
    /\ \/ pitcher_start /\ c \in Boot
       \/ CoreStep /\ start_sink_chn /\ state[c] = "STOPPED" /\ Source[c] \in Chn
       \/ \E o \in Chn : is_decoder_output_finish(o) /\ c = Capture /\ state[c] = "STOPPED"

(* The calls of pitcher_unit_stop *)
StopsUnit(c) == unit_stop(c) /\ closing = None /\ ((CoreStep /\ process_chn_stopping(c)) \/ stop_chn)

(* The callbacks of the unit *)
RunsUnit(c) ==
    \/ process_chn_active(c) \/ ifile_run(c) \/ convert_run(c) \/ ofile_run(c) \/ run_v4l2(c)
    \/ check_ctrl_ready(c) \/ check_v4l2_ready(c)

LEMMA StartOthers ==
    ASSUME CoreTypeOK, NEW d \in Chn, start_chn(d), UNCHANGED done, NEW c \in Chn, c # d
    PROVE  ChnSame(c)
<1>1. state \in [Chn -> State] /\ enable \in [Chn -> BOOLEAN] /\ end \in [Chn -> BOOLEAN]
  BY DEF CoreTypeOK, ChnTypeOK
<1>2. CASE UNCHANGED chnVars
  BY <1>2 DEF ChnSame, chnVars
<1>3. ASSUME NEW got \in alloc_buffer(d), unit_start(d, got) PROVE ChnSame(c)
  BY <1>1, <1>3 DEF unit_start, ChnSame
<1> QED
  BY <1>2, <1>3 DEF start_chn, streamon_fail

LEMMA StopOthers ==
    ASSUME CoreTypeOK, NEW d \in Chn, unit_stop(d), NEW c \in Chn, c # d
    PROVE  ChnSame(c) /\ pipe'[c] = pipe[c]
BY DEF CoreTypeOK, ChnTypeOK, QTypeOK, unit_stop, stop_v4l2, ChnSame

LEMMA ChnEffect ==
    ASSUME PipelineInv, [Next]_vars, NEW c \in Chn
    PROVE  \/ ChnSame(c)
           \/ StartsChn(c)
           \/ StopsUnit(c)
           \/ CoreStep /\ stop_done /\ closing = c
           \/ CoreStep /\ push_return /\ top.chn = c
           \/ RunsUnit(c)
           \/ \E o \in Chn : is_decoder_output_finish(o) /\ c = Capture
           \/ (DriverDecode \/ DriverEos) /\ c = Capture
<1> DEFINE G == \/ ChnSame(c)
                \/ StartsChn(c)
                \/ StopsUnit(c)
                \/ CoreStep /\ stop_done /\ closing = c
                \/ CoreStep /\ push_return /\ top.chn = c
                \/ RunsUnit(c)
                \/ \E o \in Chn : is_decoder_output_finish(o) /\ c = Capture
                \/ (DriverDecode \/ DriverEos) /\ c = Capture
<1>1. CoreTypeOK /\ MainTypeOK /\ CtlTypeOK
  BY DEF PipelineInv, TypeOK, CoreTypeOK
<1>2. /\ state \in [Chn -> State] /\ enable \in [Chn -> BOOLEAN] /\ end \in [Chn -> BOOLEAN]
      /\ done \in [Chn -> Nat]
  BY <1>1 DEF CoreTypeOK, ChnTypeOK, QTypeOK
<1>3. ASSUME UNCHANGED <<state, enable, end, done>> PROVE G
  BY <1>3 DEF ChnSame
<1>4. CASE CoreStep
  <2>1. ASSUME NEW d \in Chn, process_chn_stopping(d) PROVE G
    <3>1. CASE UNCHANGED <<chnVars, qVars>>
      BY <1>3, <3>1 DEF chnVars, qVars
    <3>2. CASE unit_stop(d) /\ d # c
      BY <1>1, <3>2, StopOthers
    <3>3. CASE unit_stop(d) /\ d = c
      <4>1. closing = None
        BY <2>1, CoreAssumption DEF process_chn_stopping, PipelineInv, LoopInv
      <4> QED
        BY <1>4, <2>1, <3>3, <4>1 DEF StopsUnit
    <3> QED
      BY <2>1, <3>1, <3>2, <3>3 DEF process_chn_stopping
  <2>2. ASSUME NEW d \in Chn, process_chn_stopped(d) PROVE G
    BY <1>3, <2>2 DEF process_chn_stopped, chnVars, qVars
  <2>3. CASE stop_done
    <3>1. closing # c => ChnSame(c)
      BY <1>2, <2>3 DEF stop_done, qVars, ChnSame
    <3> QED
      BY <1>4, <2>3, <3>1
  <2>4. CASE put_shared \/ release_buffer \/ pipe_push_back
    BY <1>3, <2>4 DEF put_shared, release_buffer, pipe_push_back, chnVars, qVars
  <2>5. CASE start_sink_chn
    <3> DEFINE d == Outs[top.chn][top.pos]
    <3>1. /\ stack # <<>> /\ top.pos <= Len(Outs[top.chn])
          /\ (state[d] = "STOPPED" /\ start_chn(d)) \/ UNCHANGED chnVars
          /\ UNCHANGED done
      BY <2>5 DEF start_sink_chn, Running
    <3>2. d \in Chn /\ Source[d] \in Chn
      <4>1. top \in Frame
        BY <1>1, <3>1, StackShape
      <4>2. top.chn \in Chn /\ top.pos \in DOMAIN Outs[top.chn]
        BY <3>1, <4>1, CoreAssumption DEF Frame
      <4> QED
        BY <4>2, SinkOf
    <3> HIDE DEF d
    <3>3. CASE UNCHANGED chnVars
      BY <1>3, <3>1, <3>3 DEF chnVars
    <3>4. CASE state[d] = "STOPPED" /\ start_chn(d)
      <4>1. d # c => ChnSame(c)
        BY <1>1, <3>1, <3>2, <3>4, StartOthers
      <4>2. d = c => StartsChn(c)
        BY <1>4, <2>5, <3>1, <3>2, <3>4 DEF StartsChn
      <4> QED
        BY <4>1, <4>2
    <3> QED
      BY <3>1, <3>3, <3>4
  <2>6. CASE push_return
    <3>1. top.chn # c => ChnSame(c)
      BY <1>2, <2>6, Zenon DEF push_return, qVars, ChnSame
    <3> QED
      BY <1>4, <2>6, <3>1
  <2> QED
    BY <1>4, <2>1, <2>2, <2>3, <2>4, <2>5, <2>6 DEF CoreStep, CoreNext
<1>5. CASE pitcher_start
  <2>1. Cur \in Chn /\ UNCHANGED done /\ (IF Cur \in Boot THEN start_chn(Cur) ELSE UNCHANGED chnVars)
    BY <1>1, <1>5, CurChn DEF pitcher_start
  <2>2. CASE Cur \notin Boot
    BY <1>3, <2>1, <2>2 DEF chnVars
  <2>3. CASE Cur \in Boot /\ Cur # c
    BY <1>1, <2>1, <2>3, StartOthers
  <2>4. CASE Cur \in Boot /\ Cur = c
    BY <1>5, <2>1, <2>4 DEF StartsChn
  <2> QED
    BY <2>2, <2>3, <2>4
<1>6. CASE stop_chn
  <2>1. Cur \in Chn /\ closing = None /\ (UNCHANGED coreVars \/ unit_stop(Cur))
    BY <1>1, <1>6, CurChn DEF stop_chn, Idle
  <2>2. CASE UNCHANGED coreVars
    BY <1>3, <2>2 DEF coreVars, chnVars, qVars
  <2>3. CASE unit_stop(Cur) /\ Cur # c
    BY <1>1, <2>1, <2>3, StopOthers
  <2>4. CASE unit_stop(Cur) /\ Cur = c
    BY <1>6, <2>1, <2>4 DEF StopsUnit
  <2> QED
    BY <2>1, <2>2, <2>3, <2>4
<1>7. CASE pitcher_start_end \/ stop_chn_end \/ run_chn \/ pitcher_loop_run \/ timer_func \/ main_exit
  BY <1>3, <1>7 DEF pitcher_start_end, stop_chn_end, run_chn, pitcher_loop_run, timer_func, main_exit,
                    coreVars, chnVars, qVars
<1>8. ASSUME NEW d \in Chn, teardown(d) \/ \E why \in {"timeout", "event"} : poll_func(d, why) PROVE G
  BY <1>3, <1>8 DEF teardown, poll_func, chnVars, qVars
<1>9. ASSUME NEW d \in Chn, RunsUnit(d) PROVE G
  <2>1. d # c => ChnSame(c)
    <3>1. CASE process_chn_active(d) \/ check_ctrl_ready(d) \/ check_v4l2_ready(d)
      BY <1>2, <3>1 DEF process_chn_active, check_ctrl_ready, check_v4l2_ready, qVars, ChnSame
    <3>2. CASE ifile_run(d) \/ convert_run(d) \/ ofile_run(d) \/ run_v4l2(d)
      BY <1>2, <3>2, Zenon DEF ifile_run, convert_run, ofile_run, run_v4l2, ChnSame
    <3> QED
      BY <1>9, <3>1, <3>2 DEF RunsUnit
  <2> QED
    BY <1>9, <2>1
<1>10. ASSUME NEW o \in Chn, is_decoder_output_finish(o) PROVE G
  <2>1. UNCHANGED done
    BY <1>10 DEF is_decoder_output_finish
  <2>2. Capture \in Chn \cup {None}
    BY PipelineAssumption
  <2>3. CASE c = Capture
    BY <1>10, <2>3
  <2>4. CASE c # Capture
    <3>1. CASE UNCHANGED <<state, enable>> /\ end' = [end EXCEPT ![Capture] = TRUE]
      BY <1>2, <2>1, <2>4, <3>1 DEF ChnSame
    <3>2. CASE UNCHANGED <<state, enable>> /\ end' = [end EXCEPT ![Capture] = @ \/ (outEos /\ ~ capReg)]
      BY <1>2, <2>1, <2>4, <3>2 DEF ChnSame
    <3>3. CASE start_chn(Capture) /\ Capture \in Chn
      BY <1>1, <2>1, <2>4, <3>3, StartOthers
    <3>4. Capture \in Chn
      BY <1>10, CoreAssumption, PipelineAssumption DEF is_decoder_output_finish, Active
    <3> QED
      BY <1>10, <3>1, <3>2, <3>3, <3>4, Zenon DEF is_decoder_output_finish, handle_decoder_resolution_change
  <2> QED
    BY <2>3, <2>4
<1>11. CASE DriverNext
  <2>1. CASE DriverDecode \/ DriverEos
    <3>1. Capture # c => ChnSame(c)
      BY <1>2, <2>1 DEF DriverDecode, DriverEos, Fill, chnVars, ChnSame
    <3> QED
      BY <2>1, <3>1
  <2>2. CASE DriverChange
    BY <1>3, <2>2 DEF DriverChange, coreVars, chnVars, qVars
  <2> QED
    BY <1>11, <2>1, <2>2 DEF DriverNext
<1>12. CASE sig_handler \/ Done \/ UNCHANGED vars
  BY <1>3, <1>12 DEF sig_handler, Done, vars, coreVars, chnVars, qVars
<1>13. CASE MainNext
  BY <1>4, <1>5, <1>6, <1>7, <1>8, <1>9, <1>10, <1>13 DEF MainNext, RunsUnit
<1> QED
  BY <1>11, <1>12, <1>13 DEF Next

-----------------------------------------------------------------------------
(* The main program and the capture channel, when the driver drains. *)

(* The channel is at its end, or on its way to stop. *)
Ending(c) == end[c] \/ state[c] = "STOPPING"

(* No channel runs before the loop does, and the loop has ended by a signal *)
(* or by itself.                                                            *)
QuietInv ==
    /\ phase \in {"start", "abort"} =>
          /\ \A c \in Chn : pipe[c] = <<>> /\ ~ end[c] /\ state[c] # "STOPPING"
          /\ resync \/ Output = None
    /\ phase \in {"teardown", "exit"} => g_exit

(* The capture channel and what its driver and the output channel know.  It *)
(* ends when the driver has drained or waits for a new setup, with nothing  *)
(* left to dequeue; every flag of the output channel comes from an event of *)
(* the driver.                                                              *)
CaptureInv ==
    Capture # None =>
        /\ resync \/ Output = None => done[Capture] = 0
        /\ Ending(Capture) /\ ~ g_exit => done[Capture] = 0 /\ (drained \/ resync)
        /\ state[Capture] = "STOPPED" /\ end[Capture] /\ ~ g_exit => drained
        /\ closing = Capture => ~ end[Capture]
        /\ state[Capture] = "STOPPED" => ~ enable[Capture] /\ done[Capture] = 0
        /\ ~ capReg => state[Capture] = "STOPPED" /\ Capture \notin Boot
        /\ event = "EOS" \/ outEos \/ capEos => drained
        /\ event = "SOURCE_CHANGE" \/ outRes \/ capRes => resync /\ Len(script) < Len(Script)
        /\ event = "SOURCE_CHANGE" => ~ outRes /\ ~ capRes
        /\ end[Capture] /\ ~ g_exit => drained \/ capRes

ScriptInv == Len(script) <= Len(Script)

DecoderInv == QuietInv /\ ScriptInv /\ CaptureInv

(* The steps that do not concern the decoder *)
DecoderVars == <<capReg, outRes, capRes, outEos, capEos, script, event, resync, drained>>

LEMMA DecoderFrame ==
    ASSUME [Next]_vars, ~ DriverDecode, ~ DriverChange, ~ DriverEos,
           \A o \in Chn : ~ is_decoder_output_finish(o) /\ ~ check_v4l2_ready(o)
    PROVE  UNCHANGED DecoderVars /\ (g_exit => g_exit')
<1>0. ASSUME UNCHANGED <<decVars, drvVars, appVars>> PROVE UNCHANGED DecoderVars /\ (g_exit => g_exit')
  <2>1. UNCHANGED DecoderVars /\ g_exit' = g_exit
    BY <1>0 DEF decVars, drvVars, appVars, DecoderVars
  <2> QED
    BY <2>1
<1>1. CASE CoreStep \/ pitcher_start \/ pitcher_start_end \/ stop_chn \/ stop_chn_end \/ run_chn
           \/ pitcher_loop_run \/ main_exit
  BY <1>0, <1>1 DEF CoreStep, pitcher_start, pitcher_start_end, stop_chn, stop_chn_end, run_chn,
                    pitcher_loop_run, main_exit
<1>2. CASE timer_func \/ sig_handler
  BY <1>2, Zenon DEF timer_func, sig_handler, decVars, drvVars, DecoderVars
<1>3. CASE Done \/ UNCHANGED vars
  BY <1>0, <1>3 DEF Done, vars
<1>4. ASSUME NEW c \in Chn,
             \/ \E why \in {"timeout", "event"} : poll_func(c, why)
             \/ teardown(c) \/ process_chn_active(c) \/ check_ctrl_ready(c)
             \/ convert_run(c) \/ run_v4l2(c)
      PROVE  UNCHANGED <<decVars, drvVars, appVars>>
  BY <1>4, Zenon DEF poll_func, teardown, process_chn_active, check_ctrl_ready, convert_run, run_v4l2
<1>5. ASSUME NEW c \in Chn, ifile_run(c) \/ ofile_run(c)
      PROVE  UNCHANGED DecoderVars /\ (g_exit => g_exit')
  <2>1. UNCHANGED <<decVars, drvVars>> /\ g_exit' = g_exit
    BY <1>5, Zenon DEF ifile_run, ofile_run
  <2> QED
    BY <2>1 DEF decVars, drvVars, DecoderVars
<1>6. CASE MainNext
  BY <1>0, <1>1, <1>2, <1>4, <1>5, <1>6 DEF MainNext
<1> QED
  BY <1>2, <1>3, <1>6 DEF Next, DriverNext

(* A unit's stop begins and ends outside the callbacks. *)
LEMMA ClosingEffect ==
    ASSUME PipelineInv, [Next]_vars
    PROVE  closing' = closing \/ closing' = None \/ \E c \in Chn : StopsUnit(c) /\ closing' = c
<1>1. CoreTypeOK /\ MainTypeOK
  BY DEF PipelineInv, TypeOK
<1>2. ASSUME NEW c \in Chn, CoreStep, process_chn_stopping(c)
      PROVE  closing' = closing \/ \E d \in Chn : StopsUnit(d) /\ closing' = d
  <2>1. closing = None
    BY <1>2, CoreAssumption DEF process_chn_stopping, PipelineInv, LoopInv
  <2> QED
    BY <1>2, <2>1, Zenon DEF process_chn_stopping, unit_stop, StopsUnit
<1>3. CASE stop_chn
  <2>1. Cur \in Chn /\ closing = None /\ (UNCHANGED coreVars \/ unit_stop(Cur))
    BY <1>1, <1>3, CurChn DEF stop_chn, Idle
  <2> QED
    BY <1>3, <2>1, Zenon DEF coreVars, ctlVars, unit_stop, StopsUnit
<1>4. CASE CoreStep
  BY <1>2, <1>4, Zenon DEF CoreStep, CoreNext, process_chn_stopped, stop_done, put_shared, release_buffer,
                    start_sink_chn, pipe_push_back, push_return
<1>5. CASE MainNext
  BY <1>3, <1>4, <1>5
    , Zenon DEF MainNext, pitcher_start, pitcher_start_end, stop_chn_end, run_chn, pitcher_loop_run,
         timer_func, main_exit, poll_func, teardown, process_chn_active, ifile_run, convert_run,
         ofile_run, run_v4l2, check_ctrl_ready, is_decoder_output_finish, check_v4l2_ready,
         coreVars, ctlVars
<1>6. CASE DriverNext \/ sig_handler \/ Done \/ UNCHANGED vars
  BY <1>6, Zenon DEF DriverNext, DriverDecode, DriverChange, DriverEos, sig_handler, Done, vars, coreVars, ctlVars
<1> QED
  BY <1>5, <1>6 DEF Next

(* What a started channel becomes *)
LEMMA StartedChn ==
    ASSUME PipelineInv, NEW c \in Chn, StartsChn(c), ~ ChnSame(c)
    PROVE  /\ state[c] # "ACTIVE" /\ state'[c] = "ACTIVE" /\ enable'[c]
           /\ end'[c] = (end[c] /\ ~ StartClearsEnd(c)) /\ done'[c] = done[c]
<1>1. state \in [Chn -> State] /\ enable \in [Chn -> BOOLEAN] /\ end \in [Chn -> BOOLEAN]
  BY DEF PipelineInv, TypeOK, CoreTypeOK, ChnTypeOK
<1>2. CASE UNCHANGED chnVars
  BY <1>2 DEF ChnSame, chnVars, StartsChn
<1>3. ASSUME state[c] # "ACTIVE", NEW got \in alloc_buffer(c), unit_start(c, got)
      PROVE  /\ state[c] # "ACTIVE" /\ state'[c] = "ACTIVE" /\ enable'[c]
             /\ end'[c] = (end[c] /\ ~ StartClearsEnd(c)) /\ done'[c] = done[c]
  BY <1>1, <1>3 DEF unit_start, StartsChn
<1> QED
  BY <1>2, <1>3 DEF StartsChn, start_chn, streamon_fail

(* A channel is started only when it is stopped. *)
LEMMA StartedStopped ==
    ASSUME PipelineInv, QuietInv, NEW c \in Chn, StartsChn(c), ~ ChnSame(c)
    PROVE  state[c] = "STOPPED"
<1>1. state[c] # "ACTIVE" /\ state[c] \in State
  BY StartedChn DEF PipelineInv, TypeOK, CoreTypeOK, ChnTypeOK
<1> QED
  BY <1>1 DEF StartsChn, pitcher_start, QuietInv, State

(* Nothing of the capture channel changes. *)
LEMMA CaptureSame ==
    ASSUME CaptureInv, Capture # None => ChnSame(Capture), UNCHANGED DecoderVars, g_exit => g_exit',
           closing' = closing \/ closing' = None \/ (closing' # Capture)
    PROVE  CaptureInv'
<1>1. UNCHANGED <<capReg, outRes, capRes, outEos, capEos, script, event, resync, drained>>
  BY DEF DecoderVars
<1>2. Capture = None => CaptureInv'
  BY DEF CaptureInv
<1>3. CASE Capture # None
  BY <1>1, <1>3, CoreAssumption, PipelineAssumption DEF CaptureInv, Ending, ChnSame
<1> QED
  BY <1>2, <1>3

(* The facts about the capture channel that its steps need *)
LEMMA CaptureChn ==
    ASSUME PipelineInv, Capture # None
    PROVE  /\ Capture \in Chn /\ Kind[Capture] = "capture" /\ Source[Capture] = None
           /\ state[Capture] \in State /\ end[Capture] \in BOOLEAN /\ done[Capture] \in Nat
           /\ ~ StartClearsEnd(Capture) /\ closing \in Chn \cup {None}
           /\ call = Capture => closing = None
<1>1. Capture \in Chn /\ Source[Capture] = None /\ Kind[Capture] = "capture"
  BY PipelineAssumption, WiringAssumption
<1>2. CoreTypeOK
  BY DEF PipelineInv, TypeOK
<1> QED
  BY <1>1, <1>2, CoreAssumption
     DEF CoreTypeOK, ChnTypeOK, QTypeOK, CtlTypeOK, StartClearsEnd, PipelineInv, LoopInv

(* A push of the capture channel that carries the flag is the last one. *)
LEMMA CapturePush ==
    ASSUME PipelineInv, MemInv, MarkInv, Capture # None, stack # <<>>, top.chn = Capture, lastf[top.buf]
    PROVE  drained /\ done[Capture] = 0
<1>1. CoreTypeOK /\ CtlTypeOK
  BY DEF PipelineInv, TypeOK, CoreTypeOK
<1>2. Len(stack) \in DOMAIN stack /\ top = stack[Len(stack)] /\ top \in Frame
  BY <1>1, StackShape
<1>3. top.buf \in Buffer /\ Moving(top.buf)
  BY <1>1, <1>2, StackFrames DEF Moving
<1>4. Holding(top)
  BY <1>2 DEF MemInv, PlaceInv, FramesHold
<1>5. top.inb = None
  <2> SUFFICES ASSUME top.inb # None PROVE FALSE
    OBVIOUS
  <2>1. Capture \in Below(Owner(top.inb)) /\ top.inb \in Buffer
    BY <1>2, <1>4 DEF Holding, Frame
  <2>2. Owner(top.inb) \in Chn
    BY <2>1, OwnerOf
  <2>3. Capture \notin Chn \ {Capture} /\ Source[Capture] = None
    BY CaptureChn
  <2>4. SinksIn(Owner(top.inb), Chn \ {Capture}) /\ \A e \in Chn \ {Capture} : SinksIn(e, Chn \ {Capture})
    BY <2>2, <2>3, CoreAssumption DEF SinksIn
  <2> QED
    BY <2>1, <2>3, <2>4, Zenon DEF Below
<1>6. Owner(top.buf) = Capture
  BY <1>3, <1>4, <1>5, CoreAssumption DEF Holding
<1>7. refcnt[top.buf] > 0
  BY <1>1, <1>3, MovingHeld
<1>8. LastOf(Capture)
  BY <1>3, <1>6, <1>7 DEF MarkInv, Marked
<1> QED
  BY <1>8, CaptureChn DEF LastOf

(* The output channel steers the capture channel. *)
LEMMA CaptureSteered ==
    ASSUME PipelineInv, DecoderInv, NEW o \in Chn, is_decoder_output_finish(o)
    PROVE  CaptureInv'
<1> SUFFICES ASSUME Capture # None PROVE CaptureInv'
  BY DEF CaptureInv
<1>1. /\ Capture \in Chn /\ state[Capture] \in State /\ end[Capture] \in BOOLEAN
      /\ ~ StartClearsEnd(Capture)
  BY CaptureChn
<1>2. /\ capEos' = (capEos \/ (outEos /\ capReg)) /\ outEos' = FALSE /\ outRes' = FALSE
      /\ capReg' = (capReg \/ capRes \/ outRes)
      /\ UNCHANGED <<done, closing, script, event, drained, g_exit>>
      /\ call = o
  BY DEF is_decoder_output_finish, ctlVars, appVars, Active
<1>3. closing = None
  BY <1>2, CoreAssumption DEF PipelineInv, LoopInv
<1>4. CaptureInv
  BY DEF DecoderInv
<1>5. CASE (capRes \/ outRes) /\ state[Capture] = "STOPPED"
  <2>1. start_chn(Capture) /\ capRes' = FALSE /\ resync' = (resync /\ state'[Capture] # "ACTIVE")
    BY <1>5 DEF is_decoder_output_finish, handle_decoder_resolution_change
  <2>2. StartsChn(Capture)
    BY <1>2, <1>5, <2>1 DEF StartsChn
  <2>3. event # "SOURCE_CHANGE" /\ done[Capture] = 0 /\ capReg'
    BY <1>2, <1>4, <1>5, Zenon DEF CaptureInv
  <2>4. CASE ChnSame(Capture)
    BY <1>2, <1>3, <1>4, <1>5, <2>1, <2>3, <2>4, CoreAssumption, Zenon DEF CaptureInv, Ending, ChnSame
  <2>5. CASE ~ ChnSame(Capture)
    <3>1. state'[Capture] = "ACTIVE" /\ enable'[Capture] /\ end'[Capture] = end[Capture]
      BY <1>1, <2>2, <2>5, StartedChn
    <3> QED
      BY <1>2, <1>3, <1>4, <1>5, <2>1, <2>3, <3>1, CoreAssumption, Zenon DEF CaptureInv, Ending
  <2> QED
    BY <2>4, <2>5
<1>6. CASE (capRes \/ outRes) /\ state[Capture] # "STOPPED"
  <2>1. /\ end' = [end EXCEPT ![Capture] = TRUE] /\ capRes' = TRUE /\ UNCHANGED <<state, enable, resync>>
    BY <1>6 DEF is_decoder_output_finish, handle_decoder_resolution_change
  <2>2. capReg'
    BY <1>2, <1>6, Zenon
  <2> QED
    BY <1>2, <1>3, <1>4, <1>6, <2>1, <2>2, CoreAssumption, Zenon DEF CaptureInv, Ending
<1>7. CASE ~ (capRes \/ outRes)
  <2>1. /\ end' = [end EXCEPT ![Capture] = @ \/ (outEos /\ ~ capReg)]
        /\ UNCHANGED <<state, enable, capRes, resync>>
    BY <1>7 DEF is_decoder_output_finish
  <2>2. end'[Capture] = (end[Capture] \/ (outEos /\ ~ capReg))
    BY <1>1, <2>1 DEF PipelineInv, TypeOK, CoreTypeOK, ChnTypeOK
  <2>3. outEos => drained
    BY <1>4 DEF CaptureInv
  <2>4. outEos /\ ~ capReg => done[Capture] = 0
    BY <1>4 DEF CaptureInv
  <2> QED
    BY <1>2, <1>3, <1>4, <1>7, <2>1, <2>2, <2>3, <2>4, CoreAssumption, Zenon DEF CaptureInv, Ending
<1> QED
  BY <1>5, <1>6, <1>7

(* The output channel dequeues an event. *)
LEMMA CaptureEvent ==
    ASSUME PipelineInv, DecoderInv, NEW o \in Chn, check_v4l2_ready(o)
    PROVE  CaptureInv'
<1> SUFFICES ASSUME Capture # None PROVE CaptureInv'
  BY DEF CaptureInv
<1>1. /\ Kind[o] = "output" /\ UNCHANGED <<closing, done, enable, g_exit, capReg, capRes, capEos, script, resync, drained>>
      /\ \/ UNCHANGED <<event, outEos, outRes>>
         \/ event' = "NONE" /\ outEos' = (event = "EOS") /\ outRes' = (event = "SOURCE_CHANGE")
      /\ \A c \in Chn : c # o => state'[c] = state[c] /\ end'[c] = end[c]
  BY DEF check_v4l2_ready, check_v4l2_events, Active, qVars, appVars, PipelineInv, TypeOK, CoreTypeOK, ChnTypeOK
<1>2. Capture \in Chn /\ Capture # o
  BY <1>1, CaptureChn
<1>3. state'[Capture] = state[Capture] /\ end'[Capture] = end[Capture]
  BY <1>1, <1>2
<1>4. CASE UNCHANGED <<event, outEos, outRes>>
  BY <1>1, <1>3, <1>4 DEF DecoderInv, CaptureInv, Ending
<1>5. CASE event' = "NONE" /\ outEos' = (event = "EOS") /\ outRes' = (event = "SOURCE_CHANGE")
  BY <1>1, <1>3, <1>5, Zenon DEF DecoderInv, CaptureInv, Ending
<1> QED
  BY <1>1, <1>4, <1>5

(* The driver's steps *)
LEMMA CaptureDriver ==
    ASSUME ~ LaxDriver, PipelineInv, DecoderInv, DriverDecode \/ DriverChange \/ DriverEos
    PROVE  CaptureInv' /\ ScriptInv'
<1>0. Output # None /\ Capture # None
  BY PipelineAssumption, Zenon DEF DriverDecode, DriverChange, DriverEos
<1>1. /\ Capture \in Chn /\ done[Capture] \in Nat /\ done \in [Chn -> Nat]
      /\ script \in Seq({"frame", "error", "change"}) /\ Len(script) \in Nat /\ Len(Script) \in Nat
  BY <1>0, CaptureChn, PipelineAssumption DEF PipelineInv, TypeOK, CoreTypeOK, QTypeOK, DrvTypeOK
<1>2. /\ UNCHANGED <<state, end, enable, closing, g_exit, capReg, outRes, capRes, outEos, capEos>>
  BY Zenon DEF DriverDecode, DriverChange, DriverEos, coreVars, chnVars, ctlVars, decVars, appVars
<1>3. script' = script \/ (script # <<>> /\ script' = Tail(script))
  BY Zenon DEF DriverDecode, DriverChange, DriverEos
<1>4. Len(script') <= Len(script) /\ (script' = Tail(script) /\ script # <<>> => Len(script') < Len(script))
      /\ Len(script') \in Nat
  <2>1. script # <<>> => Len(Tail(script)) = Len(script) - 1 /\ Len(script) > 0
    BY <1>1
  <2> QED
    BY <1>1, <1>3, <2>1
<1>5. ScriptInv'
  BY <1>1, <1>4 DEF DecoderInv, ScriptInv
<1>6. CaptureInv /\ ScriptInv
  BY DEF DecoderInv
<1>7. CASE DriverDecode
  <2>1. /\ enable[Capture] /\ ~ resync /\ ~ drained /\ UNCHANGED <<event, resync, drained>>
    BY <1>7 DEF DriverDecode, Streaming
  <2> QED
    BY <1>0, <1>2, <1>5, <1>6, <2>1 DEF CaptureInv, Ending
<1>8. CASE DriverChange
  <2>1. /\ event = "NONE" /\ ~ drained /\ script # <<>> /\ script' = Tail(script)
        /\ script = Script \/ ~ resync
        /\ done[Capture] = 0 /\ event' = "SOURCE_CHANGE" /\ resync' /\ UNCHANGED <<done, drained>>
    BY <1>8 DEF DriverChange, coreVars, qVars
  <2>2. ~ outRes /\ ~ capRes
    BY <1>0, <1>1, <1>6, <2>1 DEF CaptureInv
  <2>3. Len(script') < Len(Script)
    BY <1>1, <1>4, <1>6, <2>1 DEF ScriptInv
  <2> QED
    BY <1>0, <1>2, <1>5, <1>6, <2>1, <2>2, <2>3 DEF CaptureInv, Ending
<1>9. CASE DriverEos
  <2>1. /\ event = "NONE" /\ ~ drained /\ event' = "EOS" /\ drained' /\ UNCHANGED <<resync, script>>
        /\ done' = done \/ (enable[Capture] /\ ~ resync)
    BY <1>9, Zenon DEF DriverEos, Streaming
  <2> QED
    BY <1>0, <1>2, <1>5, <1>6, <2>1 DEF CaptureInv, Ending
<1> QED
  BY <1>7, <1>8, <1>9

(* The capture channel's own steps *)
LEMMA CaptureRuns ==
    ASSUME ~ LaxDriver, PipelineInv, DecoderInv, Capture # None, RunsUnit(Capture)
    PROVE  CaptureInv'
<1>1. /\ Capture \in Chn /\ Kind[Capture] = "capture" /\ state[Capture] \in State /\ done[Capture] \in Nat
      /\ call = Capture => closing = None
  BY CaptureChn
<1>2. /\ end \in [Chn -> BOOLEAN] /\ state \in [Chn -> State] /\ done \in [Chn -> Nat]
  BY DEF PipelineInv, TypeOK, CoreTypeOK, ChnTypeOK, QTypeOK
<1>3. process_chn_active(Capture) \/ run_v4l2(Capture)
  BY <1>1 DEF RunsUnit, ifile_run, convert_run, ofile_run, check_ctrl_ready, check_v4l2_ready, Active
<1>4. /\ call = Capture /\ state[Capture] = "ACTIVE"
      /\ UNCHANGED <<enable, closing, g_exit, capReg, outRes, capRes, outEos, capEos, script, event, resync, drained>>
  BY <1>3, Zenon DEF process_chn_active, run_v4l2, Active, decVars, drvVars, appVars
<1>5. CaptureInv
  BY DEF DecoderInv
<1>6. CASE process_chn_active(Capture)
  <2>1. /\ end'[Capture] = EndNow(Capture) /\ done' = done
        /\ state'[Capture] = IF EndNow(Capture) THEN "STOPPING" ELSE state[Capture]
    BY <1>1, <1>2, <1>6 DEF process_chn_active, qVars
  <2>2. EndNow(Capture) <=> end[Capture] \/ g_exit
    BY <1>1 DEF EndNow
  <2> QED
    BY <1>1, <1>4, <1>5, <2>1, <2>2, CoreAssumption DEF CaptureInv, Ending
<1>7. CASE run_v4l2(Capture)
  <2>1. ~ end[Capture] /\ ~ g_exit /\ state' = state
    BY <1>7 DEF run_v4l2, Ready, EndNow
  <2>2. CASE done[Capture] > 0
    <3>1. end' = end
      BY <1>7, <2>2, Zenon DEF run_v4l2
    <3>2. ~ (done[Capture] = 0)
      BY <1>1, <2>2
    <3> QED
      BY <1>1, <1>4, <1>5, <2>1, <3>1, <3>2, CoreAssumption DEF CaptureInv, Ending
  <2>3. CASE ~ (done[Capture] > 0)
    <3>1. end'[Capture] = Epipe /\ done' = done /\ done[Capture] = 0
      BY <1>1, <1>2, <1>7, <2>3 DEF run_v4l2
    <3>2. Epipe <=> drained
      BY DEF Epipe
    <3> QED
      BY <1>1, <1>4, <1>5, <2>1, <3>1, <3>2, CoreAssumption DEF CaptureInv, Ending
  <2> QED
    BY <2>2, <2>3
<1> QED
  BY <1>3, <1>6, <1>7

(* Every step keeps what is known of the capture channel. *)
LEMMA CaptureStep ==
    ASSUME ~ LaxDriver, PipelineInv, MemInv, StoppingInv, MarkInv, DecoderInv, [Next]_vars
    PROVE  CaptureInv'
<1>1. CASE DriverDecode \/ DriverChange \/ DriverEos
  BY <1>1, CaptureDriver
<1>2. ASSUME NEW o \in Chn, is_decoder_output_finish(o) PROVE CaptureInv'
  BY <1>2, CaptureSteered
<1>3. ASSUME NEW o \in Chn, check_v4l2_ready(o) PROVE CaptureInv'
  BY <1>3, CaptureEvent
<1>4. CASE /\ ~ DriverDecode /\ ~ DriverChange /\ ~ DriverEos
           /\ \A o \in Chn : ~ is_decoder_output_finish(o) /\ ~ check_v4l2_ready(o)
  <2> SUFFICES ASSUME Capture # None PROVE CaptureInv'
    BY DEF CaptureInv
  <2>1. UNCHANGED DecoderVars /\ (g_exit => g_exit')
    BY <1>4, DecoderFrame
  <2>2. UNCHANGED <<capReg, outRes, capRes, outEos, capEos, script, event, resync, drained>>
    BY <2>1 DEF DecoderVars
  <2>3. /\ Capture \in Chn /\ Kind[Capture] = "capture" /\ Source[Capture] = None
        /\ state[Capture] \in State /\ end[Capture] \in BOOLEAN /\ done[Capture] \in Nat
        /\ ~ StartClearsEnd(Capture)
    BY CaptureChn
  <2>4. /\ end \in [Chn -> BOOLEAN] /\ state \in [Chn -> State] /\ done \in [Chn -> Nat]
        /\ enable \in [Chn -> BOOLEAN]
    BY DEF PipelineInv, TypeOK, CoreTypeOK, ChnTypeOK, QTypeOK
  <2>5. CaptureInv /\ QuietInv
    BY DEF DecoderInv
  <2>6. CASE StopsUnit(Capture)
    <3>1. /\ closing' = Capture /\ ~ enable'[Capture] /\ ~ end'[Capture] /\ done'[Capture] = 0 /\ state' = state
      BY <2>3, <2>4, <2>6, Zenon DEF StopsUnit, unit_stop, stop_v4l2
    <3>2. state[Capture] = "STOPPING" /\ ~ g_exit => drained \/ resync
      BY <2>5 DEF CaptureInv, Ending
    <3>3. ~ capReg => state[Capture] = "STOPPED" /\ Capture \notin Boot
      BY <2>5 DEF CaptureInv
    <3> QED
      BY <2>1, <2>2, <2>5, <3>1, <3>2, <3>3 DEF CaptureInv, Ending
  <2>7. CASE StartsChn(Capture) /\ ~ ChnSame(Capture)
    <3>1. pitcher_start /\ Capture \in Boot
      BY <1>4, <2>3, <2>7, CoreAssumption DEF StartsChn
    <3>2. /\ state'[Capture] = "ACTIVE" /\ enable'[Capture] /\ end'[Capture] = end[Capture]
          /\ done'[Capture] = done[Capture]
      BY <2>3, <2>7, StartedChn
    <3>3. closing' = closing /\ ~ end[Capture]
      BY <2>3, <2>5, <3>1 DEF pitcher_start, ctlVars, QuietInv
    <3> QED
      BY <2>1, <2>2, <2>5, <3>1, <3>2, <3>3 DEF CaptureInv, Ending
  <2>8. CASE stop_done /\ closing = Capture
    <3>1. state'[Capture] = "STOPPED" /\ closing' = None /\ UNCHANGED <<enable, end, done>>
      BY <2>3, <2>4, <2>8 DEF stop_done, qVars
    <3>2. ~ enable[Capture] /\ queued[Capture] = <<>>
      BY <2>3, <2>8, CoreAssumption DEF StoppingInv, StopEmpties
    <3>3. done[Capture] = 0
      <4>1. done[Capture] <= Len(queued[Capture])
        BY <2>3 DEF PipelineInv, DoneInv
      <4> QED
        BY <2>3, <3>2, <4>1
    <3>4. ~ end[Capture]
      BY <2>5, <2>8 DEF CaptureInv
    <3> QED
      BY <2>1, <2>2, <2>3, <2>5, <3>1, <3>2, <3>3, <3>4, CoreAssumption DEF CaptureInv, Ending
  <2>9. CASE push_return /\ top.chn = Capture
    <3>1. /\ end'[Capture] = (end[Capture] \/ lastf[top.buf]) /\ stack # <<>> /\ closing = None
          /\ UNCHANGED <<state, enable, done, closing>>
      BY <2>3, <2>4, <2>9, Zenon DEF push_return, Running, qVars
    <3>2. lastf[top.buf] => drained /\ done[Capture] = 0
      BY <2>9, <3>1, CapturePush
    <3> QED
      BY <2>1, <2>2, <2>3, <2>5, <3>1, <3>2, CoreAssumption DEF CaptureInv, Ending
  <2>10. CASE RunsUnit(Capture)
    BY <2>10, CaptureRuns
  <2>11. CASE ChnSame(Capture)
    <3>1. closing' = closing \/ closing' = None \/ \E c \in Chn : StopsUnit(c) /\ closing' = c
      BY ClosingEffect
    <3>2. CASE closing' = Capture /\ closing # Capture
      <4>1. StopsUnit(Capture)
        BY <2>3, <3>1, <3>2, CoreAssumption
      <4> QED
        BY <2>6, <4>1
    <3> QED
      BY <2>1, <2>5, <2>11, <3>1, <3>2, CaptureSame
  <2> QED
    BY <1>4, <2>3, <2>6, <2>7, <2>8, <2>9, <2>10, <2>11, ChnEffect
<1> QED
  BY <1>1, <1>2, <1>3, <1>4

(* The phases of main *)
LEMMA PhaseEffect ==
    ASSUME [Next]_vars
    PROVE  \/ phase' = phase
           \/ phase = "start" /\ pitcher_start_end
           \/ phase = "abort" /\ stop_chn_end
           \/ timer_func /\ (phase' = "run" \/ (phase' = "teardown" /\ g_exit'))
           \/ phase = "teardown" /\ phase' = "exit" /\ g_exit' = g_exit
<1>1. CASE CoreStep \/ pitcher_start \/ stop_chn \/ run_chn \/ pitcher_loop_run
  BY <1>1 DEF CoreStep, pitcher_start, stop_chn, run_chn, pitcher_loop_run, mainVars
<1>2. CASE pitcher_start_end \/ stop_chn_end \/ timer_func \/ main_exit
  BY <1>2, Zenon DEF pitcher_start_end, stop_chn_end, timer_func, main_exit, appVars
<1>3. ASSUME NEW c \in Chn,
             \/ \E why \in {"timeout", "event"} : poll_func(c, why)
             \/ teardown(c) \/ process_chn_active(c) \/ check_ctrl_ready(c)
             \/ ifile_run(c) \/ convert_run(c) \/ ofile_run(c) \/ run_v4l2(c)
             \/ is_decoder_output_finish(c) \/ check_v4l2_ready(c)
      PROVE  phase' = phase
  BY <1>3, Zenon DEF poll_func, teardown, process_chn_active, check_ctrl_ready, ifile_run, convert_run,
              ofile_run, run_v4l2, is_decoder_output_finish, check_v4l2_ready, mainVars
<1>4. CASE MainNext
  BY <1>1, <1>2, <1>3, <1>4 DEF MainNext
<1>5. CASE DriverNext \/ sig_handler \/ Done \/ UNCHANGED vars
  BY <1>5, Zenon DEF DriverNext, DriverDecode, DriverChange, DriverEos, sig_handler, Done, vars, mainVars
<1> QED
  BY <1>4, <1>5 DEF Next

(* The exit flag is not taken back. *)
LEMMA ExitStays ==
    ASSUME [Next]_vars, g_exit
    PROVE  g_exit'
<1>1. CASE DriverDecode \/ DriverChange \/ DriverEos
  BY <1>1, Zenon DEF DriverDecode, DriverChange, DriverEos, appVars
<1>2. ASSUME NEW o \in Chn, is_decoder_output_finish(o) \/ check_v4l2_ready(o) PROVE g_exit'
  BY <1>2, Zenon DEF is_decoder_output_finish, check_v4l2_ready, appVars
<1> QED
  BY <1>1, <1>2, DecoderFrame

(* The pipes stay empty and the channels active until the loop runs. *)
LEMMA QuietStep ==
    ASSUME ~ LaxDriver, PipelineInv, DecoderInv, [Next]_vars
    PROVE  QuietInv'
<1>1. phase' \in {"teardown", "exit"} => g_exit'
  <2>1. phase' = phase /\ phase \in {"teardown", "exit"} => g_exit'
    BY ExitStays DEF DecoderInv, QuietInv
  <2>2. phase = "teardown" => g_exit'
    BY ExitStays DEF DecoderInv, QuietInv
  <2>3. pitcher_start_end \/ stop_chn_end => phase' \notin {"teardown", "exit"}
    BY DEF pitcher_start_end, stop_chn_end
  <2> QED
    BY <2>1, <2>2, <2>3, PhaseEffect
<1>2. ASSUME phase' \in {"start", "abort"}
      PROVE  /\ \A c \in Chn : pipe'[c] = <<>> /\ ~ end'[c] /\ state'[c] # "STOPPING"
             /\ resync' \/ Output = None
  <2>1. phase \in {"start", "abort"}
    BY <1>2, PhaseEffect, Zenon DEF timer_func, stop_chn_end
  <2>2. /\ \A c \in Chn : pipe[c] = <<>> /\ ~ end[c] /\ state[c] # "STOPPING"
        /\ resync \/ Output = None
        /\ phase # "run" /\ call = None /\ stack = <<>> /\ \A c \in Chn : call # c
    BY <2>1, CoreAssumption DEF DecoderInv, QuietInv, PipelineInv, LoopInv
  <2>3. /\ \A o \in Chn : ~ is_decoder_output_finish(o) /\ ~ RunsUnit(o)
        /\ ~ push_return /\ ~ pipe_push_back /\ ~ DriverDecode
    BY <2>2, Zenon DEF is_decoder_output_finish, RunsUnit, process_chn_active, ifile_run, convert_run, ofile_run,
                run_v4l2, check_ctrl_ready, check_v4l2_ready, Active, push_return, pipe_push_back, Running,
                DriverDecode, Streaming
  <2>4. resync' \/ Output = None
    <3>1. CASE DriverChange \/ DriverEos
      BY <2>2, <3>1, Zenon DEF DriverChange, DriverEos
    <3>2. CASE ~ DriverChange /\ ~ DriverEos
      BY <2>2, <2>3, <3>2, DecoderFrame DEF DecoderVars, RunsUnit
    <3> QED
      BY <3>1, <3>2
  <2>5. ASSUME NEW c \in Chn PROVE ~ end'[c] /\ state'[c] # "STOPPING"
    <3>1. CASE ChnSame(c)
      BY <2>2, <3>1 DEF ChnSame
    <3>2. CASE StartsChn(c) /\ ~ ChnSame(c)
      BY <2>2, <3>2, StartedChn, Zenon
    <3>3. CASE StopsUnit(c)
      BY <2>2, <3>3 DEF StopsUnit, unit_stop, stop_v4l2, PipelineInv, TypeOK, CoreTypeOK, ChnTypeOK
    <3>4. CASE stop_done /\ closing = c
      BY <2>2, <3>4 DEF stop_done, PipelineInv, TypeOK, CoreTypeOK, ChnTypeOK
    <3>5. CASE DriverEos
      BY <2>2, <3>5 DEF DriverEos, chnVars
    <3> QED
      BY <2>3, <3>1, <3>2, <3>3, <3>4, <3>5, ChnEffect
  <2>6. ASSUME NEW c \in Chn PROVE pipe'[c] = <<>>
    <3>1. CASE DriverDecode \/ DriverEos
      BY <2>2, <3>1, Zenon DEF DriverDecode, DriverEos
    <3>3. CASE ~ DriverDecode /\ ~ DriverEos
      <4>1. ~ stop_done => Calm
        BY <2>3, CalmStep
      <4>2. stop_done => pipe' = pipe
        BY DEF stop_done, qVars
      <4> QED
        BY <2>2, <4>1, <4>2 DEF Calm
    <3> QED
      BY <3>1, <3>3
  <2> QED
    BY <2>4, <2>5, <2>6
<1> QED
  BY <1>1, <1>2 DEF QuietInv

LEMMA DecoderStart ==
    ASSUME Init
    PROVE  DecoderInv
<1>1. \A c \in Chn : pipe[c] = <<>> /\ ~ end[c] /\ state[c] = "STOPPED" /\ ~ enable[c] /\ done[c] = 0
  BY DEF Init, CoreInit
<1>2. QuietInv /\ ScriptInv
  <2>1. Len(script) = Len(Script) /\ Len(Script) \in Nat
    BY PipelineAssumption DEF Init
  <2>2. (resync \/ Output = None) /\ phase = "start"
    BY Zenon DEF Init
  <2> QED
    BY <1>1, <2>1, <2>2 DEF QuietInv, ScriptInv
<1>3. CaptureInv
  <2> SUFFICES ASSUME Capture # None PROVE CaptureInv
    BY DEF CaptureInv
  <2>1. Capture \in Chn
    BY PipelineAssumption
  <2>2. ~ end[Capture] /\ state[Capture] = "STOPPED" /\ ~ enable[Capture] /\ done[Capture] = 0
    BY <1>1, <2>1
  <2>3. /\ capReg = (Capture # None /\ Capture \in Boot) /\ event = "NONE" /\ closing = None
        /\ outRes = FALSE /\ capRes = FALSE /\ outEos = FALSE /\ capEos = FALSE
    BY DEF Init, CoreInit
  <2> QED
    BY <2>2, <2>3, Zenon DEF CaptureInv, Ending
<1> QED
  BY <1>2, <1>3 DEF DecoderInv

LEMMA DecoderStep ==
    ASSUME ~ LaxDriver, PipelineInv, MemInv, StoppingInv, MarkInv, DecoderInv, [Next]_vars
    PROVE  DecoderInv'
<1>1. ScriptInv'
  <2>1. CASE DriverDecode \/ DriverChange \/ DriverEos
    BY <2>1, CaptureDriver
  <2>2. CASE ~ DriverDecode /\ ~ DriverChange /\ ~ DriverEos
    <3>1. script' = script
      <4>1. ASSUME NEW o \in Chn, is_decoder_output_finish(o) \/ check_v4l2_ready(o) PROVE script' = script
        BY <4>1 DEF is_decoder_output_finish, check_v4l2_ready
      <4> QED
        BY <2>2, <4>1, DecoderFrame DEF DecoderVars
    <3> QED
      BY <3>1 DEF DecoderInv, ScriptInv
  <2> QED
    BY <2>1, <2>2
<1> QED
  BY <1>1, CaptureStep, QuietStep DEF DecoderInv

-----------------------------------------------------------------------------
(* The sources of pictures, when the driver drains. *)

(* An input file ends when it has been read, and the decoder node when the  *)
(* driver has drained.                                                      *)
FilesRead == \A r \in Chn : Kind[r] = "ifile" /\ Ending(r) => nread[r] = FrameNum
SourcesUp ==
    /\ \A r \in Boot : Kind[r] = "ifile" => state[r] = "ACTIVE" \/ nread[r] = FrameNum
    /\ Output # None => state[Output] = "ACTIVE" \/ drained
SourcesInv ==
    /\ ~ g_exit => FilesRead
    /\ phase = "run" /\ ~ failed /\ ~ g_exit => SourcesUp

(* What is not taken back *)
LEMMA Lasting ==
    ASSUME PipelineInv, PipelineInv', MemInv, [Next]_vars
    PROVE  /\ drained => drained'
           /\ failed => failed'
           /\ \A r \in Chn : nread[r] = FrameNum => nread'[r] = FrameNum
<1>0. nread \in [Chn -> 0 .. FrameNum] /\ nread' \in [Chn -> 0 .. FrameNum] /\ FrameNum \in Nat
  BY PipelineAssumption DEF PipelineInv, TypeOK, AppTypeOK
<1>1. failed => failed'
  <2>1. CASE stop_done \/ pipe_push_back
    BY <2>1, Zenon DEF stop_done, pipe_push_back
  <2>2. CASE ~ stop_done /\ ~ pipe_push_back
    BY <2>2, CalmStep DEF Calm
  <2> QED
    BY <2>1, <2>2
<1>2. CASE pipe_push_back
  <2>1. UNCHANGED <<nread, drained>>
    BY <1>2, PushAlone DEF CoreStep, appVars, drvVars
  <2> QED
    BY <1>1, <2>1
<1>3. CASE DriverDecode \/ DriverEos
  <2>1. nread' = nread /\ (drained' = drained \/ drained')
    BY <1>3, Zenon DEF DriverDecode, DriverEos, appVars
  <2> QED
    BY <1>1, <2>1
<1>4. ASSUME NEW c \in Chn, ifile_run(c)
      PROVE  drained' = drained /\ \A r \in Chn : nread[r] = FrameNum => nread'[r] = FrameNum
  <2>1. nread' = [nread EXCEPT ![c] = @ + 1] /\ drained' = drained
    BY <1>4 DEF ifile_run, drvVars
  <2>2. nread'[c] = nread[c] + 1 /\ nread'[c] \in 0 .. FrameNum /\ nread[c] \in 0 .. FrameNum
    BY <1>0, <2>1
  <2>3. nread[c] # FrameNum
    BY <1>0, <2>2
  <2> QED
    BY <1>0, <2>1, <2>3
<1>5. ASSUME NEW c \in Chn, convert_run(c) \/ ofile_run(c) \/ run_v4l2(c)
      PROVE  UNCHANGED <<drained, nread>>
  BY <1>5, Zenon DEF convert_run, ofile_run, run_v4l2, drvVars, appVars
<1>6. CASE /\ ~ pipe_push_back /\ ~ DriverDecode /\ ~ DriverEos
           /\ \A c \in Chn : ~ ifile_run(c) /\ ~ convert_run(c) /\ ~ ofile_run(c) /\ ~ run_v4l2(c)
  <2>1. Carried /\ FlagsCarried
    BY <1>6, CarriedStep, FlagsStep
  <2> QED
    BY <1>1, <2>1 DEF Carried, FlagsCarried
<1> QED
  BY <1>1, <1>2, <1>3, <1>4, <1>5, <1>6

(* A channel is active and is not any more. *)
LEMMA Stopped ==
    ASSUME PipelineInv, StoppingInv, [Next]_vars, phase = "run", NEW c \in Chn,
           state[c] = "ACTIVE", state'[c] # "ACTIVE"
    PROVE  /\ RunsUnit(c) /\ state'[c] = "STOPPING"
<1>1. state \in [Chn -> State] /\ c # None
  BY CoreAssumption DEF PipelineInv, TypeOK, CoreTypeOK, ChnTypeOK
<1>2. ~ ChnSame(c)
  BY DEF ChnSame
<1>3. ~ StartsChn(c)
  BY <1>2, StartedChn
<1>4. ~ StopsUnit(c)
  BY Zenon DEF StopsUnit, unit_stop
<1>5. ~ (stop_done /\ closing = c)
  BY <1>1 DEF PipelineInv, ClosingInv
<1>6. ~ push_return
  BY DEF push_return
<1>7. ASSUME NEW o \in Chn, is_decoder_output_finish(o), c = Capture PROVE FALSE
  <2>1. state' = state
    BY <1>7 DEF is_decoder_output_finish, handle_decoder_resolution_change
  <2> QED
    BY <2>1
<1>8. ~ DriverDecode /\ ~ DriverEos
  BY Zenon DEF DriverDecode, DriverEos, chnVars
<1>9. RunsUnit(c)
  BY <1>2, <1>3, <1>4, <1>5, <1>6, <1>7, <1>8, ChnEffect
<1>10. state'[c] = "STOPPING"
  BY <1>1, <1>9, Zenon DEF RunsUnit, process_chn_active, ifile_run, convert_run, ofile_run, run_v4l2,
                    check_ctrl_ready, check_v4l2_ready
<1> QED
  BY <1>9, <1>10

(* An input file comes to its end when its last picture is read. *)
LEMMA FilesReadStep ==
    ASSUME PipelineInv, PipelineInv', MemInv, StoppingInv, QuietInv, FilesRead, [Next]_vars, ~ g_exit
    PROVE  FilesRead'
<1> SUFFICES ASSUME NEW r \in Chn, Kind[r] = "ifile", Ending(r)', nread'[r] # FrameNum PROVE FALSE
  BY DEF FilesRead
<1>1. ~ Ending(r)
  BY Lasting DEF FilesRead
<1>2. ~ end[r] /\ state[r] # "STOPPING"
  BY <1>1 DEF Ending
<1>3. /\ state \in [Chn -> State] /\ end \in [Chn -> BOOLEAN] /\ nread \in [Chn -> 0 .. FrameNum]
      /\ r # Capture
  BY PipelineAssumption, WiringAssumption DEF PipelineInv, TypeOK, CoreTypeOK, ChnTypeOK, AppTypeOK
<1>4. ~ ChnSame(r)
  BY <1>1 DEF Ending, ChnSame
<1>5. ~ StartsChn(r)
  BY <1>2, <1>4, StartedChn, Zenon DEF Ending
<1>6. ~ StopsUnit(r)
  BY <1>2, <1>3, Zenon DEF StopsUnit, unit_stop, stop_v4l2, Ending
<1>7. ~ (stop_done /\ closing = r)
  BY <1>2, <1>3 DEF stop_done, Ending
<1>8. ~ (push_return /\ top.chn = r)
  BY <1>2, <1>3 DEF push_return, Ending
<1>9. RunsUnit(r)
  BY <1>3, <1>4, <1>5, <1>6, <1>7, <1>8, ChnEffect
<1>10. process_chn_active(r) \/ ifile_run(r)
  BY <1>9 DEF RunsUnit, convert_run, ofile_run, run_v4l2, check_ctrl_ready, check_v4l2_ready, Active
<1>11. CASE process_chn_active(r)
  <2>1. ~ EndNow(r)
    BY <1>2 DEF EndNow
  <2> QED
    BY <1>2, <1>3, <1>11, <2>1 DEF process_chn_active, Ending
<1>12. CASE ifile_run(r)
  <2>1. /\ nread'[r] = nread[r] + 1 /\ end'[r] = (nread[r] + 1 = FrameNum) /\ state' = state
    BY <1>3, <1>12 DEF ifile_run
  <2> QED
    BY <1>2, <2>1, Zenon DEF Ending
<1> QED
  BY <1>10, <1>11, <1>12

LEMMA SourcesStep ==
    ASSUME PipelineInv, PipelineInv', MemInv, StoppingInv, DecoderInv, SourcesInv, [Next]_vars
    PROVE  SourcesInv'
<1> SUFFICES ASSUME ~ g_exit' PROVE FilesRead' /\ (phase' = "run" /\ ~ failed' => SourcesUp')
  BY DEF SourcesInv
<1>1. ~ g_exit
  BY ExitStays
<1>2. FilesRead /\ FilesRead'
  BY <1>1, FilesReadStep DEF SourcesInv, DecoderInv
<1>3. ASSUME phase' = "run", ~ failed' PROVE SourcesUp'
  <2>1. ~ failed
    BY <1>3, Lasting
  <2>2. CASE phase = "run"
    <3>1. SourcesUp
      BY <1>1, <2>1, <2>2 DEF SourcesInv
    <3>2. ASSUME NEW r \in Boot, Kind[r] = "ifile" PROVE state'[r] = "ACTIVE" \/ nread'[r] = FrameNum
      <4>1. r \in Chn
        BY PipelineAssumption
      <4>2. CASE nread[r] = FrameNum
        BY <4>1, <4>2, Lasting
      <4>3. CASE state[r] = "ACTIVE" /\ state'[r] # "ACTIVE"
        <5>1. state'[r] = "STOPPING"
          BY <2>2, <4>1, <4>3, Stopped
        <5> QED
          BY <1>2, <3>2, <4>1, <5>1 DEF FilesRead, Ending
      <4> QED
        BY <3>1, <3>2, <4>2, <4>3 DEF SourcesUp
    <3>3. ASSUME Output # None PROVE state'[Output] = "ACTIVE" \/ drained'
      <4>1. Output \in Chn /\ Kind[Output] = "output" /\ Capture # None
        BY <3>3, PipelineAssumption, FedAssumption
      <4>2. CASE drained
        BY <4>2, Lasting
      <4>3. CASE state[Output] = "ACTIVE" /\ state'[Output] # "ACTIVE"
        <5>1. RunsUnit(Output) /\ state'[Output] = "STOPPING"
          BY <2>2, <4>1, <4>3, Stopped
        <5>2. check_v4l2_ready(Output)
          BY <4>1, <5>1 DEF RunsUnit, process_chn_active, ifile_run, convert_run, ofile_run, run_v4l2,
                            check_ctrl_ready, Active
        <5>3. end[Capture] /\ ~ capRes
          BY <1>1, <4>1, <4>3, <5>2 DEF check_v4l2_ready, PipelineInv, TypeOK, CoreTypeOK, ChnTypeOK
        <5>4. drained
          BY <1>1, <4>1, <5>3 DEF DecoderInv, CaptureInv
        <5> QED
          BY <5>4, Lasting
      <4> QED
        BY <3>1, <3>3, <4>2, <4>3 DEF SourcesUp
    <3> QED
      BY <3>2, <3>3 DEF SourcesUp
  <2>3. CASE phase # "run"
    <3>1. pitcher_start_end \/ stop_chn_end
      BY <1>3, <2>3, PhaseEffect, Zenon DEF timer_func
    <3>2. ~ stop_chn_end
      BY <2>1 DEF stop_chn_end, StoppingInv, AbortInv, Aborted
    <3>3. pitcher_start_end
      BY <3>1, <3>2
    <3>4. /\ phase = "start" /\ AtEnd /\ UNCHANGED <<state, nread, drained>>
      BY <3>3 DEF pitcher_start_end, coreVars, chnVars, appVars, drvVars
    <3>5. ASSUME NEW c \in Boot PROVE state[c] = "ACTIVE"
      <4>1. c \in Chn
        BY PipelineAssumption
      <4>2. PICK i \in DOMAIN Order : Order[i] = c
        BY <4>1, TopologyAssumption
      <4>3. i < cursor
        <5>1. i \in 1 .. Len(Order) /\ Len(Order) \in Nat /\ cursor \in Nat
          BY CoreAssumption DEF PipelineInv, TypeOK, MainTypeOK
        <5> QED
          BY <3>4, <5>1 DEF AtEnd
      <4> QED
        BY <2>1, <3>4, <4>2, <4>3 DEF PipelineInv, StartInv
    <3> QED
      BY <3>4, <3>5, FedAssumption DEF SourcesUp
  <2> QED
    BY <2>2, <2>3
<1> QED
  BY <1>2, <1>3

LEMMA SourcesStart ==
    ASSUME Init
    PROVE  SourcesInv
<1>1. \A c \in Chn : ~ end[c] /\ state[c] = "STOPPED"
  BY DEF Init, CoreInit
<1>2. phase = "start"
  BY DEF Init
<1> QED
  BY <1>1, <1>2 DEF SourcesInv, FilesRead, Ending

-----------------------------------------------------------------------------
(* No picture is lost. *)

(* Every picture after x up to y is in one of the first n buffers of s. *)
Solid(P, x, s, n, y) == \A p \in Nat : x < p /\ p <= y => \E i \in 1 .. n : P[s[i]] = p

LEMMA SolidSame ==
    ASSUME NEW P, NEW Q, NEW x, NEW y, NEW s, NEW t, NEW n \in Nat, Solid(P, x, s, n, y),
           \A i \in 1 .. n : Q[t[i]] = P[s[i]]
    PROVE  Solid(Q, x, t, n, y)
BY DEF Solid

(* Nothing is missing between equal bounds. *)
LEMMA SolidEmpty ==
    ASSUME NEW P, NEW x \in Nat, NEW s
    PROVE  Solid(P, x, s, 0, x)
BY DEF Solid

(* Buffers without pictures: nothing is to come. *)
LEMMA SolidNone ==
    ASSUME NEW P, NEW x \in Nat, NEW y \in Nat, NEW s, NEW n \in Nat, x <= y, Solid(P, x, s, n, y),
           \A i \in 1 .. n : P[s[i]] = 0
    PROVE  x = y
<1>1. ASSUME x < y PROVE FALSE
  <2>1. \E i \in 1 .. n : P[s[i]] = y
    BY <1>1 DEF Solid
  <2> QED
    BY <1>1, <2>1
<1> QED
  BY <1>1

(* The first picture is the next one. *)
LEMMA SolidNext ==
    ASSUME NEW P, NEW x \in Nat, NEW y \in Nat, NEW s, NEW n \in Nat, n > 0,
           Rising(P, x, s, n, y), Solid(P, x, s, n, y), P[s[1]] \in Nat, P[s[1]] # 0
    PROVE  P[s[1]] = x + 1
<1>1. 1 \in 1 .. n /\ x < P[s[1]] /\ P[s[1]] <= y
  BY DEF Rising
<1>2. x + 1 \in Nat /\ x < x + 1 /\ x + 1 <= y
  BY <1>1
<1>3. PICK i \in 1 .. n : P[s[i]] = x + 1
  BY <1>2 DEF Solid
<1>4. CASE i = 1
  BY <1>3, <1>4
<1>5. CASE i # 1
  <2>1. 1 < i /\ P[s[i]] # 0
    BY <1>3, <1>5
  <2>2. P[s[1]] < P[s[i]]
    BY <1>1, <2>1 DEF Rising
  <2> QED
    BY <1>1, <1>3, <2>2
<1> QED
  BY <1>4, <1>5

(* What is left when the first buffer is taken *)
LEMMA SolidTail ==
    ASSUME NEW P, NEW x \in Nat, NEW y \in Nat, NEW s, NEW t, NEW n \in Nat, n > 0,
           Solid(P, x, s, n, y), P[s[1]] \in Nat, \A i \in 1 .. n - 1 : t[i] = s[i + 1]
    PROVE  /\ P[s[1]] = 0 => Solid(P, x, t, n - 1, y)
           /\ P[s[1]] > x => Solid(P, P[s[1]], t, n - 1, y)
<1>1. ASSUME NEW p \in Nat, p > x, p <= y, p # P[s[1]] PROVE \E i \in 1 .. n - 1 : P[t[i]] = p
  <2>1. PICK i \in 1 .. n : P[s[i]] = p
    BY <1>1 DEF Solid
  <2>2. i # 1
    BY <1>1, <2>1
  <2>3. PICK j \in 1 .. n - 1 : j + 1 = i
    BY <2>1, <2>2
  <2>4. t[j] = s[i]
    BY <2>3
  <2> QED
    BY <2>1, <2>3, <2>4
<1>2. ASSUME P[s[1]] = 0 PROVE Solid(P, x, t, n - 1, y)
  BY <1>1, <1>2 DEF Solid
<1>3. ASSUME P[s[1]] > x PROVE Solid(P, P[s[1]], t, n - 1, y)
  <2> SUFFICES ASSUME NEW p \in Nat, P[s[1]] < p, p <= y PROVE \E i \in 1 .. n - 1 : P[t[i]] = p
    BY DEF Solid
  <2>1. p > x /\ p # P[s[1]]
    BY <1>3
  <2> QED
    BY <1>1, <2>1
<1> QED
  BY <1>2, <1>3

(* The next picture, or an empty buffer, is appended. *)
LEMMA SolidAppend ==
    ASSUME NEW P, NEW Q, NEW x \in Nat, NEW y \in Nat, NEW z \in Nat, NEW s, NEW t, NEW n \in Nat,
           Solid(P, x, s, n, y), \A i \in 1 .. n : Q[t[i]] = P[s[i]],
           z = y \/ (z = y + 1 /\ Q[t[n + 1]] = z)
    PROVE  Solid(Q, x, t, n + 1, z)
<1> SUFFICES ASSUME NEW p \in Nat, x < p, p <= z PROVE \E i \in 1 .. n + 1 : Q[t[i]] = p
  BY DEF Solid
<1>1. CASE p <= y
  <2>1. PICK i \in 1 .. n : P[s[i]] = p
    BY <1>1 DEF Solid
  <2> QED
    BY <2>1
<1>2. CASE ~ (p <= y)
  <2>1. p = z /\ Q[t[n + 1]] = p /\ n + 1 \in 1 .. n + 1
    BY <1>2
  <2> QED
    BY <2>1
<1> QED
  BY <1>1, <1>2

(* The counters grow along the pipes. *)
Chained(tk, sn) ==
    \A d \in Chn : Source[d] # None => tk[d] <= sn[d] /\ sn[d] <= tk[Source[d]]

LEMMA OrderedChained ==
    ASSUME NEW tk, NEW sn, Ordered(tk, sn)
    PROVE  Chained(tk, sn)
BY DEF Ordered, PipesRise, SentTaken, Rising, Chained

(* Below a source nobody is ahead of it. *)
LEMMA BelowTaken ==
    ASSUME NEW tk \in Counters, NEW sn \in Counters, Chained(tk, sn),
           NEW r \in Chn, NEW d \in Below(r)
    PROVE  /\ d \in Chn /\ Source[d] \in Chn
           /\ tk[d] <= sn[d] /\ sn[d] <= tk[r] /\ tk[d] <= tk[r]
<1> DEFINE D == {e \in Chn : Source[e] # None /\ tk[e] <= sn[e] /\ sn[e] <= tk[r] /\ tk[e] <= tk[r]}
<1>1. \A e \in Chn : tk[e] \in Nat /\ sn[e] \in Nat
  BY DEF Counters
<1>2. SinksIn(r, D)
  BY <1>1, CoreAssumption DEF SinksIn, Chained
<1>3. ASSUME NEW e \in D PROVE SinksIn(e, D)
  <2> SUFFICES ASSUME NEW f \in Chn, Source[f] = e PROVE f \in D
    BY DEF SinksIn
  <2>1. e \in Chn /\ tk[e] <= tk[r] /\ Source[f] # None
    BY <1>3, CoreAssumption
  <2>2. tk[f] <= sn[f] /\ sn[f] <= tk[e]
    BY <2>1 DEF Chained
  <2> QED
    BY <1>1, <2>1, <2>2
<1>4. d \in D
  BY <1>2, <1>3 DEF Below
<1> QED
  BY <1>4, CoreAssumption

-----------------------------------------------------------------------------
(* Some suspended push has a picture for d. *)
Awaited(d) == \E i \in DOMAIN stack : Pending(stack[i], d)
Pictureless(d) == \A i \in DOMAIN pipe[d] : pic[pipe[d][i]] = 0

(* A pipe holds every picture its channel was sent and has not taken, or    *)
(* SIGINT has stopped the channel and nothing comes any more.               *)
Whole(tk, sn, d) ==
    \/ Solid(pic, tk[d], pipe[d], Len(pipe[d]), sn[d])
    \/ g_exit /\ Pictureless(d) /\ ~ Awaited(d)
Kept(tk, sn) == \A d \in Chn : Source[d] # None => Whole(tk, sn, d)

(* A channel was sent all its source has taken but what is being pushed. *)
Sent(tk, sn) ==
    \A d \in Chn : Source[d] # None => tk[Source[d]] = IF Awaited(d) THEN sn[d] + 1 ELSE sn[d]

(* The driver's pictures are dequeued or wait for it. *)
Decoded(tk) ==
    Capture # None => g_exit \/ Solid(pic, tk[Capture], queued[Capture], done[Capture], ndec)

(* A file has the pictures its channel has taken. *)
Recorded(tk) ==
    \A c \in Chn :
        /\ Kind[c] = "ofile" => tk[c] = Len(written[c]) /\ \A i \in DOMAIN written[c] : written[c][i] = i
        /\ Kind[c] # "ofile" => written[c] = <<>>

(* Behind a buffer with the LAST flag come no more pictures. *)
PipesLast(tk, sn) ==
    \A d \in Chn : \A i \in DOMAIN pipe[d] : lastf[pipe[d][i]] =>
        /\ sn[d] = tk[Owner(pipe[d][i])]
        /\ \A j \in DOMAIN pipe[d] : j > i => pic[pipe[d][j]] = 0
FramesLast(tk) ==
    \A i \in DOMAIN stack :
        /\ lastf[stack[i].buf] => tk[stack[i].chn] = tk[Owner(stack[i].buf)]
        /\ stack[i].inb # None /\ lastf[stack[i].inb] => tk[stack[i].chn] = tk[Owner(stack[i].inb)]
        /\ Source[stack[i].chn] # None => stack[i].inb # None

(* A channel that ends has taken everything, and its source sends no more. *)
EndedKept(tk, sn) ==
    \A d \in Chn : Source[d] # None /\ state[d] # "STOPPED" /\ Ending(d) =>
        /\ tk[d] = sn[d]
        /\ \/ state[Source[d]] # "ACTIVE"
           \/ \E r \in Chn : d \in Below(r) /\ LastOf(r) /\ tk[d] = tk[r]

Gapless(tk, sn) ==
    /\ Kept(tk, sn) /\ Sent(tk, sn) /\ Decoded(tk) /\ Recorded(tk)
    /\ ~ g_exit => PipesLast(tk, sn) /\ FramesLast(tk) /\ EndedKept(tk, sn)

(* All the sinks of a push that has just begun *)
LEMMA UnservedFirst ==
    ASSUME NEW f \in Frame, f.pos <= Len(Outs[f.chn]) + 1, NEW d \in Chn, Source[d] = f.chn
    PROVE  Unserved(f, d)
<1>1. f.chn \in Chn /\ f.pos \in Nat
  BY DEF Frame
<1>2. PICK k \in DOMAIN Outs[f.chn] : Outs[f.chn][k] = d
  BY <1>1, TopologyAssumption
<1>3. Outs[f.chn] \in Seq(Chn)
  BY <1>1, CoreAssumption
<1>4. Len(Outs[f.chn]) \in Nat /\ k \in 1 .. Len(Outs[f.chn])
  BY <1>2, <1>3
<1>5. f.pos <= Len(Outs[f.chn]) + k
  BY <1>1, <1>4
<1> QED
  BY <1>2, <1>4, <1>5 DEF Unserved

(* A push serves one sink. *)
LEMMA UnservedOthers ==
    ASSUME CtlTypeOK, stack # <<>>, stack' = Advanced,
           top.pos > Len(Outs[top.chn]), top.pos <= 2 * Len(Outs[top.chn]),
           NEW e \in Chn, e # Outs[top.chn][top.pos - Len(Outs[top.chn])], Unserved(top, e)
    PROVE  Unserved(stack'[Len(stack)], e)
<1> DEFINE n == Len(Outs[top.chn])
           f == stack'[Len(stack)]
<1>1. top \in Frame /\ f \in Frame /\ f.chn = top.chn /\ f.pos = top.pos + 1
  BY AdvancedTop
<1>2. top.chn \in Chn /\ top.pos \in Nat
  BY <1>1 DEF Frame
<1>3. Outs[top.chn] \in Seq(Chn) /\ n \in Nat
  BY <1>2, CoreAssumption
<1>4. PICK k \in 1 .. n : Outs[top.chn][k] = e /\ top.pos <= n + k
  BY DEF Unserved
<1>5. k # top.pos - n
  BY <1>4
<1>6. f.pos <= n + k
  <2>1. PICK x \in Nat, m \in Nat : x = top.pos /\ m = n
    BY <1>2, <1>3
  <2>2. k \in Nat /\ x <= m + k /\ k # x - m
    BY <1>4, <1>5, <2>1
  <2>3. x + 1 <= m + k
    BY <2>2
  <2> QED
    BY <1>1, <2>1, <2>3
<1>7. PICK g : g = f
  OBVIOUS
<1>8. g.chn = top.chn /\ g.pos <= n + k /\ k \in 1 .. n /\ Outs[top.chn][k] = e
  BY <1>1, <1>4, <1>6, <1>7
<1>9. Unserved(g, e)
  BY <1>8, Zenon DEF Unserved
<1> QED
  BY <1>7, <1>9

(* Nothing is unserved when a push returns. *)
LEMMA UnservedNone ==
    ASSUME NEW f \in Frame, f.pos > 2 * Len(Outs[f.chn]), NEW d \in Chn
    PROVE  ~ Unserved(f, d)
<1>1. f.chn \in Chn /\ f.pos \in Nat
  BY DEF Frame
<1>2. Outs[f.chn] \in Seq(Chn) /\ Len(Outs[f.chn]) \in Nat
  BY <1>1, CoreAssumption
<1> QED
  BY <1>1, <1>2 DEF Unserved

-----------------------------------------------------------------------------
(* The steps in which no channel takes or sends a picture. *)

(* The suspended pushes are the same, or one has returned, and have the     *)
(* same sinks to serve with pictures.                                       *)
FramesKept ==
    /\ \A i \in DOMAIN stack' :
          /\ i \in DOMAIN stack /\ stack'[i].chn = stack[i].chn
          /\ stack'[i].buf = stack[i].buf /\ stack'[i].inb = stack[i].inb
    /\ \A d \in Chn : Awaited(d)' => Awaited(d)
    /\ \A d \in Chn : Awaited(d) => Awaited(d)'

LEMMA StackEffect ==
    ASSUME [Next]_vars, ~ pipe_push_back,
           \A c \in Chn : ~ ifile_run(c) /\ ~ convert_run(c) /\ ~ ofile_run(c) /\ ~ run_v4l2(c)
    PROVE  stack' = stack \/ start_sink_chn \/ push_return
<1>1. CASE CoreStep
  <2>1. ASSUME NEW c \in Chn, process_chn_stopping(c) \/ process_chn_stopped(c) PROVE stack' = stack
    BY <2>1, Zenon DEF process_chn_stopping, process_chn_stopped, unit_stop
  <2>2. CASE stop_done \/ put_shared \/ release_buffer
    BY <2>2 DEF stop_done, put_shared, release_buffer
  <2> QED
    BY <1>1, <2>1, <2>2 DEF CoreStep, CoreNext
<1>2. CASE pitcher_start \/ pitcher_start_end \/ stop_chn \/ stop_chn_end \/ run_chn
  BY <1>2, Zenon DEF pitcher_start, pitcher_start_end, stop_chn, stop_chn_end, run_chn, unit_stop, coreVars, ctlVars
<1>3. CASE pitcher_loop_run \/ timer_func \/ main_exit
  BY <1>3 DEF pitcher_loop_run, timer_func, main_exit, coreVars, ctlVars
<1>4. ASSUME NEW c \in Chn,
             \/ \E why \in {"timeout", "event"} : poll_func(c, why)
             \/ teardown(c) \/ process_chn_active(c) \/ check_ctrl_ready(c)
             \/ is_decoder_output_finish(c) \/ check_v4l2_ready(c)
      PROVE  stack' = stack
  BY <1>4 DEF poll_func, teardown, process_chn_active, check_ctrl_ready, is_decoder_output_finish,
              check_v4l2_ready, ctlVars
<1>5. CASE MainNext
  BY <1>1, <1>2, <1>3, <1>4, <1>5 DEF MainNext
<1>6. CASE DriverNext \/ sig_handler \/ Done \/ UNCHANGED vars
  BY <1>6, Zenon DEF DriverNext, DriverDecode, DriverChange, DriverEos, sig_handler, Done, vars, coreVars, ctlVars
<1> QED
  BY <1>5, <1>6 DEF Next

(* Only a push serves a sink. *)
LEMMA FramesStay ==
    ASSUME PipelineInv, UNCHANGED pic, stack' = stack \/ start_sink_chn \/ push_return
    PROVE  FramesKept
<1>1. CtlTypeOK /\ stack \in Seq(Frame) /\ \A i \in DOMAIN stack : stack[i] \in Frame
  BY DEF PipelineInv, TypeOK, CoreTypeOK, CtlTypeOK
<1>2. CASE stack' = stack
  BY <1>2 DEF FramesKept, Awaited, Pending, Unserved
<1>3. CASE start_sink_chn
  <2>1. stack # <<>> /\ stack' = Advanced /\ top.pos <= Len(Outs[top.chn])
    BY <1>3 DEF start_sink_chn, Running
  <2>2. /\ DOMAIN stack' = DOMAIN stack /\ Len(stack) \in DOMAIN stack /\ top = stack[Len(stack)]
        /\ \A i \in DOMAIN stack : i # Len(stack) => stack'[i] = stack[i]
        /\ stack'[Len(stack)] \in Frame /\ stack'[Len(stack)].chn = top.chn
        /\ stack'[Len(stack)].pos = top.pos + 1 /\ top \in Frame
    BY <1>1, <2>1, AdvancedTop
  <2>3. \A i \in DOMAIN stack :
           stack'[i].chn = stack[i].chn /\ stack'[i].buf = stack[i].buf /\ stack'[i].inb = stack[i].inb
    BY <1>1, <2>1, AdvancedSame
  <2>4. ASSUME NEW d \in Chn PROVE Unserved(stack'[Len(stack)], d) <=> Unserved(top, d)
    <3>1. top.chn \in Chn /\ top.pos \in Nat /\ Len(Outs[top.chn]) \in Nat
      BY <2>2, CoreAssumption DEF Frame
    <3>2. ASSUME Source[d] = top.chn PROVE Unserved(top, d) /\ Unserved(stack'[Len(stack)], d)
      <4>1. top.pos <= Len(Outs[top.chn]) + 1
        BY <2>1, <3>1
      <4>2. Unserved(top, d)
        BY <2>2, <3>2, <4>1, UnservedFirst
      <4>3. PICK f \in Frame : f = stack'[Len(stack)]
        BY <2>2
      <4>4. f.pos <= Len(Outs[f.chn]) + 1 /\ Source[d] = f.chn
        BY <2>1, <2>2, <3>1, <3>2, <4>3
      <4>5. Unserved(f, d)
        BY <4>4, UnservedFirst
      <4> QED
        BY <4>2, <4>3, <4>5
    <3>3. Unserved(top, d) => Source[d] = top.chn
      BY <2>2, UnservedSink
    <3>4. Unserved(stack'[Len(stack)], d) => Source[d] = top.chn
      BY <2>2, UnservedSink
    <3> QED
      BY <3>2, <3>3, <3>4
  <2>5. ASSUME NEW d \in Chn, NEW i \in DOMAIN stack
        PROVE  /\ Unserved(stack'[i], d) => Unserved(stack[i], d)
               /\ Unserved(stack[i], d) => Unserved(stack'[i], d)
    BY <2>2, <2>4
  <2>6. ASSUME NEW d \in Chn
        PROVE  /\ Awaited(d)' => Awaited(d)
               /\ Awaited(d) => Awaited(d)'
    <3>1. Awaited(d)' <=> \E i \in DOMAIN stack' : pic'[stack'[i].buf] # 0 /\ Unserved(stack'[i], d)
      BY DEF Awaited, Pending, Unserved
    <3>2. Awaited(d) <=> \E i \in DOMAIN stack : pic[stack[i].buf] # 0 /\ Unserved(stack[i], d)
      BY DEF Awaited, Pending
    <3> QED
      BY <2>2, <2>3, <2>5, <3>1, <3>2
  <2> QED
    BY <2>2, <2>3, <2>6 DEF FramesKept
<1>4. CASE push_return
  <2>1. stack # <<>> /\ stack' = Front(stack) /\ top.pos > 2 * Len(Outs[top.chn])
    BY <1>4 DEF push_return, Running
  <2>2. /\ DOMAIN stack' \subseteq DOMAIN stack /\ \A i \in DOMAIN stack' : stack'[i] = stack[i]
        /\ top = stack[Len(stack)] /\ top \in Frame
    BY <1>1, <2>1, StackShape
  <2>3. \A i \in DOMAIN stack : i \in DOMAIN stack' \/ i = Len(stack)
    <3>1. Len(stack) \in Nat /\ DOMAIN stack = 1 .. Len(stack) /\ DOMAIN stack' = 1 .. Len(stack) - 1
      BY <1>1, <2>1 DEF Front
    <3> QED
      BY <3>1
  <2>4. \A d \in Chn : ~ Unserved(top, d)
    BY <2>1, <2>2, UnservedNone
  <2>5. ASSUME NEW d \in Chn
        PROVE  /\ Awaited(d)' => Awaited(d)
               /\ Awaited(d) => Awaited(d)'
    <3>1. Awaited(d)' <=> \E i \in DOMAIN stack' : pic'[stack'[i].buf] # 0 /\ Unserved(stack'[i], d)
      BY DEF Awaited, Pending, Unserved
    <3>2. Awaited(d) <=> \E i \in DOMAIN stack : pic[stack[i].buf] # 0 /\ Unserved(stack[i], d)
      BY DEF Awaited, Pending
    <3> QED
      BY <2>2, <2>3, <2>4, <3>1, <3>2
  <2> QED
    BY <2>2, <2>5 DEF FramesKept
<1> QED
  BY <1>2, <1>3, <1>4

(* A pipe is emptied when its channel stops and when the process ends. *)
LEMMA PipeEffect ==
    ASSUME PipelineInv, [Next]_vars, ~ pipe_push_back, NEW d \in Chn,
           \A c \in Chn : ~ ifile_run(c) /\ ~ convert_run(c) /\ ~ ofile_run(c) /\ ~ run_v4l2(c)
    PROVE  pipe'[d] = pipe[d] \/ StopsUnit(d) \/ teardown(d)
<1>0. CoreTypeOK /\ MainTypeOK /\ pipe \in Queues
  BY DEF PipelineInv, TypeOK, CoreTypeOK, QTypeOK, Queues
<1>1. CASE CoreStep
  <2>1. ASSUME NEW c \in Chn, process_chn_stopping(c) PROVE pipe'[d] = pipe[d] \/ StopsUnit(d)
    <3>1. CASE UNCHANGED qVars
      BY <3>1 DEF qVars
    <3>2. CASE unit_stop(c)
      <4>1. closing = None
        <5>1. call = c
          BY <2>1 DEF process_chn_stopping
        <5> QED
          BY <5>1, CoreAssumption DEF PipelineInv, LoopInv
      <4>2. c = d => StopsUnit(d)
        BY <1>1, <2>1, <3>2, <4>1 DEF StopsUnit
      <4>3. c # d => pipe'[d] = pipe[d]
        BY <1>0, <3>2, StopOthers
      <4> QED
        BY <4>2, <4>3
    <3> QED
      BY <2>1, <3>1, <3>2 DEF process_chn_stopping
  <2>2. ASSUME NEW c \in Chn, process_chn_stopped(c) PROVE pipe' = pipe
    BY <2>2 DEF process_chn_stopped, qVars
  <2>3. CASE stop_done \/ put_shared \/ release_buffer \/ start_sink_chn \/ push_return
    BY <2>3 DEF stop_done, put_shared, release_buffer, start_sink_chn, push_return, qVars
  <2> QED
    BY <1>1, <2>1, <2>2, <2>3 DEF CoreStep, CoreNext
<1>2. CASE stop_chn
  <2>1. CASE UNCHANGED coreVars
    BY <2>1 DEF coreVars, qVars
  <2>2. CASE unit_stop(Cur)
    <3>1. Cur \in Chn /\ closing = None
      BY <1>0, <1>2, CurChn DEF stop_chn, Idle
    <3>2. Cur # d => pipe'[d] = pipe[d]
      BY <1>0, <2>2, <3>1, StopOthers
    <3> QED
      BY <1>2, <2>2, <3>1, <3>2 DEF StopsUnit
  <2> QED
    BY <1>2, <2>1, <2>2 DEF stop_chn
<1>3. CASE pitcher_start \/ pitcher_start_end \/ stop_chn_end \/ run_chn \/ pitcher_loop_run \/ timer_func \/ main_exit
  BY <1>3 DEF pitcher_start, pitcher_start_end, stop_chn_end, run_chn, pitcher_loop_run, timer_func,
              main_exit, coreVars, qVars
<1>4. ASSUME NEW c \in Chn, teardown(c) PROVE pipe'[d] = pipe[d] \/ teardown(d)
  BY <1>0, <1>4, Zenon DEF teardown, Queues
<1>5. ASSUME NEW c \in Chn,
             \/ \E why \in {"timeout", "event"} : poll_func(c, why)
             \/ process_chn_active(c) \/ check_ctrl_ready(c)
             \/ is_decoder_output_finish(c) \/ check_v4l2_ready(c)
      PROVE  pipe' = pipe
  BY <1>5 DEF poll_func, process_chn_active, check_ctrl_ready, is_decoder_output_finish,
              check_v4l2_ready, qVars
<1>6. CASE MainNext
  BY <1>1, <1>2, <1>3, <1>4, <1>5, <1>6 DEF MainNext
<1>7. CASE DriverNext \/ sig_handler \/ Done \/ UNCHANGED vars
  BY <1>7, Zenon DEF DriverNext, DriverDecode, DriverChange, DriverEos, sig_handler, Done, vars, coreVars, qVars
<1> QED
  BY <1>6, <1>7 DEF Next

(* A pipe is emptied without loss: its channel has taken everything, or     *)
(* SIGINT has come and nothing is being pushed to it.                       *)
Cleared(d) ==
    /\ pipe'[d] = <<>>
    /\ \/ g_exit /\ ~ Awaited(d)
       \/ ~ g_exit /\ Ending(d) /\ state[d] # "STOPPED"

Settled ==
    /\ Carried /\ FramesKept /\ FlagsCarried /\ (g_exit => g_exit')
    /\ \A d \in Chn : Source[d] # None => pipe'[d] = pipe[d] \/ Cleared(d)
    /\ Capture # None /\ ~ g_exit => done'[Capture] = done[Capture]

(* The channel that runs has been served by the push above which it runs. *)
LEMMA NotAwaited ==
    ASSUME PipelineInv, ServedInv, NEW d \in Chn, call = d
    PROVE  ~ Awaited(d)
<1>1. CtlTypeOK /\ stack \in Seq(Frame) /\ \A i \in DOMAIN stack : stack[i] \in Frame
  BY DEF PipelineInv, TypeOK, CoreTypeOK, CtlTypeOK
<1> SUFFICES ASSUME NEW i \in DOMAIN stack, Unserved(stack[i], d) PROVE FALSE
  BY DEF Awaited, Pending
<1>2. stack # <<>>
  BY <1>1
<1> DEFINE n == Len(Outs[top.chn])
           j == top.pos - n - 1
<1>3. j \in 1 .. n /\ d = Outs[top.chn][j]
  BY <1>2 DEF ServedInv, ServedLast
<1>4. Len(stack) \in DOMAIN stack /\ top = stack[Len(stack)] /\ top \in Frame
  BY <1>1, <1>2, StackShape
<1>5. top.chn \in Chn /\ top.pos \in Nat
  BY <1>4 DEF Frame
<1>6. Outs[top.chn] \in Seq(Chn) /\ n \in Nat /\ DOMAIN Outs[top.chn] = 1 .. n
  BY <1>5, CoreAssumption
<1>7. Source[d] = top.chn
  BY <1>3, <1>5, <1>6, SinkOf
<1>8. Source[d] = stack[i].chn
  BY <1>1, UnservedSink
<1>9. stack[i] = top
  BY <1>4, <1>7, <1>8, FramesApart, Zenon
<1>10. PICK k \in 1 .. n : Outs[top.chn][k] = d /\ top.pos <= n + k
  BY <1>9 DEF Unserved
<1>11. k = j
  BY <1>3, <1>5, <1>6, <1>10, TopologyAssumption
<1> QED
  BY <1>5, <1>6, <1>10, <1>11

(* The driver keeps its filled buffers until they are dequeued. *)
LEMMA DoneKept ==
    ASSUME PipelineInv, DecoderInv, [Next]_vars, ~ g_exit, Capture # None, ~ run_v4l2(Capture),
           ~ DriverDecode, ~ DriverEos
    PROVE  done'[Capture] = done[Capture]
<1>1. /\ Capture \in Chn /\ Kind[Capture] = "capture" /\ done \in [Chn -> Nat]
  BY CaptureChn DEF PipelineInv, TypeOK, CoreTypeOK, QTypeOK
<1>2. CASE StopsUnit(Capture)
  <2>1. done'[Capture] = 0
    BY <1>1, <1>2 DEF StopsUnit, unit_stop, stop_v4l2
  <2>2. CASE process_chn_stopping(Capture)
    <3>1. Ending(Capture)
      BY <2>2 DEF process_chn_stopping, Ending
    <3> QED
      BY <2>1, <3>1 DEF DecoderInv, CaptureInv
  <2>3. CASE stop_chn
    <3>1. resync \/ Output = None
      BY <2>3 DEF stop_chn, DecoderInv, QuietInv
    <3> QED
      BY <2>1, <3>1 DEF DecoderInv, CaptureInv
  <2> QED
    BY <1>2, <2>2, <2>3 DEF StopsUnit
<1>3. CASE ChnSame(Capture) \/ StartsChn(Capture)
  BY <1>3 DEF ChnSame, StartsChn
<1>4. CASE stop_done \/ push_return
  BY <1>4 DEF stop_done, push_return, qVars
<1>5. CASE RunsUnit(Capture)
  BY <1>1, <1>5 DEF RunsUnit, process_chn_active, ifile_run, convert_run, ofile_run, check_ctrl_ready,
                    check_v4l2_ready, Active, qVars
<1>6. ASSUME NEW o \in Chn, is_decoder_output_finish(o) PROVE done'[Capture] = done[Capture]
  BY <1>6 DEF is_decoder_output_finish
<1> QED
  BY <1>1, <1>2, <1>3, <1>4, <1>5, <1>6, ChnEffect

LEMMA SettledStep ==
    ASSUME PipelineInv, MemInv, ServedInv, DecoderInv, [Next]_vars,
           ~ pipe_push_back, ~ DriverDecode, ~ DriverEos,
           \A c \in Chn : ~ ifile_run(c) /\ ~ convert_run(c) /\ ~ ofile_run(c) /\ ~ run_v4l2(c)
    PROVE  Settled
<1>1. Carried /\ FlagsCarried
  BY CarriedStep, FlagsStep
<1>2. FramesKept
  <2>1. UNCHANGED pic
    BY <1>1 DEF Carried
  <2> QED
    BY <2>1, StackEffect, FramesStay
<1>3. g_exit => g_exit'
  BY ExitStays
<1>4. ASSUME NEW d \in Chn, Source[d] # None PROVE pipe'[d] = pipe[d] \/ Cleared(d)
  <2>0. pipe \in Queues
    BY DEF PipelineInv, TypeOK, CoreTypeOK, QTypeOK, Queues
  <2>1. CASE StopsUnit(d)
    <3>1. pipe'[d] = <<>>
      BY <2>0, <2>1 DEF StopsUnit, unit_stop, Queues
    <3>2. CASE stop_chn
      BY <3>1, <3>2 DEF stop_chn, DecoderInv, QuietInv
    <3>3. CASE process_chn_stopping(d)
      <4>1. call = d /\ state[d] = "STOPPING"
        BY <3>3 DEF process_chn_stopping
      <4>2. ~ Awaited(d)
        BY <4>1, NotAwaited
      <4> QED
        BY <3>1, <4>1, <4>2 DEF Cleared, Ending
    <3> QED
      BY <2>1, <3>2, <3>3 DEF StopsUnit
  <2>2. CASE teardown(d)
    <3>1. pipe'[d] = <<>> /\ g_exit /\ stack = <<>>
      BY <2>0, <2>2 DEF teardown, Idle, DecoderInv, QuietInv, Queues
    <3> QED
      BY <3>1 DEF Cleared, Awaited
  <2> QED
    BY <2>1, <2>2, PipeEffect
<1>5. Capture # None /\ ~ g_exit => done'[Capture] = done[Capture]
  <2>1. Capture # None => Capture \in Chn
    BY PipelineAssumption
  <2> QED
    BY <2>1, DoneKept
<1> QED
  BY <1>1, <1>2, <1>3, <1>4, <1>5 DEF Settled

(* A callback that finds nothing to take *)
LEMMA SettledIdle ==
    ASSUME PipelineInv, Carried, UNCHANGED <<stack, lastf, refcnt, drained, pipe, done, g_exit>>
    PROVE  Settled
<1>1. FramesKept
  <2>1. UNCHANGED pic
    BY DEF Carried
  <2> QED
    BY <2>1, FramesStay
<1>2. FlagsCarried
  BY FlagsSame
<1> QED
  BY <1>1, <1>2 DEF Settled

(* Nothing is lost in these steps. *)
LEMMA GaplessSettled ==
    ASSUME PipelineInv, NEW tk \in Counters, NEW sn \in Counters,
           Ordered(tk, sn), Gapless(tk, sn), Settled
    PROVE  /\ Kept(tk, sn)' /\ Sent(tk, sn)' /\ Decoded(tk)' /\ Recorded(tk)'
           /\ ~ g_exit' => PipesLast(tk, sn)' /\ FramesLast(tk)'
<1>1. /\ CoreTypeOK /\ CtlTypeOK /\ pipe \in Queues /\ done \in [Chn -> Nat]
  BY DEF PipelineInv, TypeOK, CoreTypeOK, QTypeOK, Queues
<1>2. /\ pic' = pic /\ written' = written /\ ndec' = ndec /\ (g_exit => g_exit')
      /\ \A d \in Chn : Source[d] # None => pipe'[d] = pipe[d] \/ Cleared(d)
      /\ \A d \in Chn : (Awaited(d)' => Awaited(d)) /\ (Awaited(d) => Awaited(d)')
      /\ \A c \in Chn : \/ done'[c] = 0
                        \/ /\ done'[c] = done[c]
                           /\ \A i \in 1 .. done[c] : queued'[c][i] = queued[c][i]
  BY DEF Settled, Carried, FramesKept
<1>3. \A d \in Chn : pipe'[d] = pipe[d] \/ pipe'[d] = <<>>
  BY DEF Settled, Carried
<1>4. \A d \in Chn : tk[d] \in Nat /\ sn[d] \in Nat
  BY DEF Counters
<1>5. Kept(tk, sn)'
  <2> SUFFICES ASSUME NEW d \in Chn, Source[d] # None
               PROVE  \/ Solid(pic', tk[d], pipe'[d], Len(pipe'[d]), sn[d])
                      \/ g_exit' /\ Pictureless(d)' /\ ~ Awaited(d)'
    BY DEF Kept, Whole
  <2>1. Whole(tk, sn, d)
    BY DEF Gapless, Kept
  <2>2. CASE pipe'[d] = pipe[d]
    <3>1. Pictureless(d) => Pictureless(d)'
      BY <1>2, <2>2 DEF Pictureless
    <3> QED
      BY <1>2, <2>1, <2>2, <3>1 DEF Whole
  <2>3. CASE Cleared(d) /\ g_exit
    BY <1>2, <2>3 DEF Cleared, Pictureless
  <2>4. CASE Cleared(d) /\ ~ g_exit
    <3>1. tk[d] = sn[d]
      BY <2>4 DEF Cleared, Gapless, EndedKept
    <3>2. pipe'[d] = <<>> /\ Len(pipe'[d]) = 0
      BY <2>4 DEF Cleared
    <3> QED
      BY <1>4, <3>1, <3>2, SolidEmpty
  <2> QED
    BY <1>2, <2>2, <2>3, <2>4
<1>6. Sent(tk, sn)'
  BY <1>2 DEF Gapless, Sent
<1>7. Decoded(tk)'
  <2> SUFFICES ASSUME Capture # None, ~ g_exit'
               PROVE  Solid(pic', tk[Capture], queued'[Capture], done'[Capture], ndec')
    BY DEF Decoded
  <2>1. Capture \in Chn /\ ~ g_exit
    BY <1>2, PipelineAssumption
  <2>2. Solid(pic, tk[Capture], queued[Capture], done[Capture], ndec)
    BY <2>1 DEF Gapless, Decoded
  <2>3. done'[Capture] = done[Capture] /\ done[Capture] \in Nat
    BY <1>1, <2>1 DEF Settled
  <2>4. \A i \in 1 .. done[Capture] : pic'[queued'[Capture][i]] = pic[queued[Capture][i]]
    BY <1>2, <2>1, <2>3
  <2> QED
    BY <1>2, <2>2, <2>3, <2>4, SolidSame
<1>8. Recorded(tk)'
  BY <1>2 DEF Gapless, Recorded
<1>9. ASSUME ~ g_exit' PROVE PipesLast(tk, sn)'
  <2>1. PipesLast(tk, sn)
    BY <1>2, <1>9 DEF Gapless
  <2> SUFFICES ASSUME NEW d \in Chn, NEW i \in DOMAIN pipe'[d], lastf'[pipe'[d][i]]
               PROVE  /\ sn[d] = tk[Owner(pipe'[d][i])]
                      /\ \A j \in DOMAIN pipe'[d] : j > i => pic'[pipe'[d][j]] = 0
    BY DEF PipesLast
  <2>2. pipe'[d] = pipe[d]
    BY <1>3
  <2>3. pipe[d][i] \in Buffer
    BY <1>1, <2>2 DEF Queues
  <2>4. lastf[pipe[d][i]]
    BY <2>2, <2>3 DEF Settled, FlagsCarried
  <2> QED
    BY <1>2, <2>1, <2>2, <2>4 DEF PipesLast
<1>10. ASSUME ~ g_exit' PROVE FramesLast(tk)'
  <2>1. FramesLast(tk)
    BY <1>2, <1>10 DEF Gapless
  <2> SUFFICES ASSUME NEW i \in DOMAIN stack'
               PROVE  /\ lastf'[stack'[i].buf] => tk[stack'[i].chn] = tk[Owner(stack'[i].buf)]
                      /\ stack'[i].inb # None /\ lastf'[stack'[i].inb]
                            => tk[stack'[i].chn] = tk[Owner(stack'[i].inb)]
                      /\ Source[stack'[i].chn] # None => stack'[i].inb # None
    BY DEF FramesLast
  <2>2. /\ i \in DOMAIN stack /\ stack'[i].chn = stack[i].chn
        /\ stack'[i].buf = stack[i].buf /\ stack'[i].inb = stack[i].inb
    BY DEF Settled, FramesKept
  <2>3. stack[i].buf \in Buffer /\ (stack[i].inb # None => stack[i].inb \in Buffer)
    <3>1. stack[i] \in Frame
      BY <1>1, <2>2 DEF CtlTypeOK
    <3> QED
      BY <3>1 DEF Frame
  <2>4. /\ lastf'[stack[i].buf] => lastf[stack[i].buf]
        /\ stack[i].inb # None /\ lastf'[stack[i].inb] => lastf[stack[i].inb]
    BY <2>3 DEF Settled, FlagsCarried
  <2> QED
    BY <2>1, <2>2, <2>4 DEF FramesLast
<1> QED
  BY <1>5, <1>6, <1>7, <1>8, <1>9, <1>10

-----------------------------------------------------------------------------
(* A channel takes the next picture. *)

(* Channel c takes the picture after the last one it took, or a buffer      *)
(* without a picture, and begins to push what it took.                      *)
Draws(tk, sn, c, p) ==
    /\ Takes(tk, sn, c, p) /\ (p = tk[c] \/ p = tk[c] + 1)
    /\ ~ LastOf(c) /\ g_exit' = g_exit /\ (g_exit => Kind[c] = "ofile")
    /\ \A b \in Buffer : Moving(b) => lastf'[b] = lastf[b]
    /\ \A i \in DOMAIN stack : i \in DOMAIN stack' /\ stack'[i] = stack[i]
    /\ p # tk[c] /\ Kind[c] # "ofile" =>
          \E i \in DOMAIN stack' : stack'[i].chn = c /\ stack'[i].pos = 1 /\ pic'[stack'[i].buf] # 0
    /\ \/ pipe'[c] = pipe[c] /\ Source[c] = None
       \/ \A i \in DOMAIN pipe'[c] : i + 1 \in DOMAIN pipe[c] /\ pipe'[c][i] = pipe[c][i + 1]
    /\ \A i \in DOMAIN pipe[c] : pic'[pipe[c][i]] = pic[pipe[c][i]]
    /\ Source[c] # None => \/ Solid(pic', p, pipe'[c], Len(pipe'[c]), sn[c])
                           \/ g_exit /\ Pictureless(c)' /\ ~ Awaited(c)
    /\ c = Capture => Solid(pic', p, queued'[c], done'[c], ndec')
    /\ written'[c] = IF Kind[c] = "ofile" /\ p # tk[c] THEN Append(written[c], p) ELSE written[c]

(* What begins to be pushed with the LAST flag is the last of its owner. *)
BegunLast(c, t) ==
    \A i \in DOMAIN stack' : stack'[i].chn = c =>
        /\ lastf'[stack'[i].buf] => t[c] = t[Owner(stack'[i].buf)]
        /\ stack'[i].inb # None /\ lastf'[stack'[i].inb] => t[c] = t[Owner(stack'[i].inb)]
        /\ Source[c] # None => stack'[i].inb # None

(* Who waits for a push afterwards *)
LEMMA DrawsAwaited ==
    ASSUME PipelineInv, PipelineInv', NEW tk \in Counters, NEW sn \in Counters,
           NEW c \in Chn, NEW p \in Nat, Draws(tk, sn, c, p), NEW d \in Chn
    PROVE  /\ Source[d] # c => (Awaited(d)' => Awaited(d)) /\ (Awaited(d) => Awaited(d)')
           /\ Source[d] = c => ~ Awaited(d) /\ (Awaited(d)' => p # tk[c]) /\ (p # tk[c] => Awaited(d)')
<1>1. /\ \A i \in DOMAIN stack : stack[i] \in Frame
      /\ \A i \in DOMAIN stack' : stack'[i] \in Frame
  BY DEF PipelineInv, TypeOK, CoreTypeOK, CtlTypeOK
<1>2. /\ call = c /\ tk[c] \in Nat
      /\ \A i \in DOMAIN stack' :
          \/ i \in DOMAIN stack /\ stack'[i] = stack[i] /\ pic'[stack[i].buf] = pic[stack[i].buf]
          \/ /\ stack'[i].chn = c
             /\ pic'[stack'[i].buf] # 0 => pic'[stack'[i].buf] = p /\ tk[c] < p
  BY DEF Draws, Takes, Counters
<1>3. /\ \A i \in DOMAIN stack : i \in DOMAIN stack' /\ stack'[i] = stack[i]
      /\ p # tk[c] /\ Kind[c] # "ofile" =>
          \E i \in DOMAIN stack' : stack'[i].chn = c /\ stack'[i].pos = 1 /\ pic'[stack'[i].buf] # 0
  BY DEF Draws
<1>4. \A i \in DOMAIN stack : stack[i].chn # c
  BY <1>2, RunsOnce
<1>5. /\ \A i \in DOMAIN stack : Unserved(stack[i], d) => Source[d] = stack[i].chn
      /\ \A i \in DOMAIN stack' : Unserved(stack'[i], d) => Source[d] = stack'[i].chn
  BY <1>1, UnservedSink
<1>6. Awaited(d)' <=> \E i \in DOMAIN stack' : pic'[stack'[i].buf] # 0 /\ Unserved(stack'[i], d)
  BY DEF Awaited, Pending, Unserved
<1>7. Awaited(d) <=> \E i \in DOMAIN stack : pic[stack[i].buf] # 0 /\ Unserved(stack[i], d)
  BY DEF Awaited, Pending
<1>8. ASSUME Source[d] # c PROVE (Awaited(d)' => Awaited(d)) /\ (Awaited(d) => Awaited(d)')
  <2>1. Awaited(d)' => Awaited(d)
    BY <1>2, <1>5, <1>6, <1>7, <1>8
  <2>2. \A i \in DOMAIN stack : pic'[stack'[i].buf] = pic[stack[i].buf] /\ stack'[i] = stack[i]
    BY <1>2, <1>3, <1>4
  <2>3. Awaited(d) => Awaited(d)'
    BY <1>3, <1>6, <1>7, <2>2
  <2> QED
    BY <2>1, <2>3
<1>9. ASSUME Source[d] = c PROVE ~ Awaited(d) /\ (Awaited(d)' => p # tk[c]) /\ (p # tk[c] => Awaited(d)')
  <2>1. ~ Awaited(d)
    BY <1>4, <1>5, <1>7, <1>9
  <2>2. Awaited(d)' => p # tk[c]
    <3>1. ASSUME NEW i \in DOMAIN stack', pic'[stack'[i].buf] # 0, Unserved(stack'[i], d) PROVE p # tk[c]
      <4>1. stack'[i].chn = c
        BY <1>5, <1>9, <3>1
      <4>2. tk[c] < p
        BY <1>2, <1>4, <3>1, <4>1
      <4> QED
        BY <1>2, <4>2
    <3> QED
      BY <1>6, <3>1
  <2>3. ASSUME p # tk[c] PROVE Awaited(d)'
    <3>1. Kind[c] # "ofile"
      BY <1>9, WiringAssumption, CoreAssumption
    <3>2. PICK i \in DOMAIN stack' : stack'[i].chn = c /\ stack'[i].pos = 1 /\ pic'[stack'[i].buf] # 0
      BY <1>3, <2>3, <3>1
    <3>3. PICK f \in Frame : f = stack'[i]
      BY <1>1
    <3>4. Len(Outs[c]) \in Nat
      BY CoreAssumption
    <3>5. f.pos <= Len(Outs[f.chn]) + 1 /\ Source[d] = f.chn
      BY <1>9, <3>2, <3>3, <3>4
    <3>6. Unserved(f, d)
      BY <3>5, UnservedFirst
    <3> QED
      BY <1>6, <3>2, <3>3, <3>6
  <2> QED
    BY <2>1, <2>2, <2>3
<1> QED
  BY <1>8, <1>9

(* The next picture follows the ones in the file. *)
LEMMA RecordedAppend ==
    ASSUME NEW s \in Seq(Nat), NEW p \in Nat, p = Len(s) + 1, \A i \in DOMAIN s : s[i] = i
    PROVE  p = Len(Append(s, p)) /\ \A i \in DOMAIN Append(s, p) : Append(s, p)[i] = i
<1> DEFINE t == Append(s, p)
           n == Len(s)
<1>1. /\ n \in Nat /\ DOMAIN s = 1 .. n /\ DOMAIN t = 1 .. n + 1 /\ Len(t) = n + 1
      /\ \A i \in 1 .. n : t[i] = s[i]
      /\ t[n + 1] = p
  BY AppendProperties
<1> HIDE DEF t, n
<1>2. \A i \in 1 .. n + 1 : i \in 1 .. n \/ i = n + 1
  BY <1>1
<1>3. p = n + 1
  BY DEF n
<1> QED
  BY <1>1, <1>2, <1>3 DEF t

(* Nothing is lost when a channel takes a picture. *)
LEMMA GaplessDraws ==
    ASSUME PipelineInv, PipelineInv', MemInv, MarkInv, NEW tk \in Counters, NEW sn \in Counters,
           Gapless(tk, sn), NEW c \in Chn, NEW p \in Nat, Draws(tk, sn, c, p),
           NEW t \in Counters, t = [tk EXCEPT ![c] = p], ~ g_exit => BegunLast(c, t)
    PROVE  /\ Kept(t, sn)' /\ Sent(t, sn)' /\ Decoded(t)' /\ Recorded(t)'
           /\ ~ g_exit' => PipesLast(t, sn)' /\ FramesLast(t)'
<1>1. /\ CoreTypeOK /\ CtlTypeOK /\ pipe \in Queues /\ done \in [Chn -> Nat] /\ refcnt \in [Buffer -> Nat]
      /\ written \in [Chn -> Seq(Nat)] /\ (\A i \in DOMAIN stack : stack[i] \in Frame)
  <2>1. CoreTypeOK /\ AppTypeOK
    BY DEF PipelineInv, TypeOK
  <2>2. CtlTypeOK /\ QTypeOK /\ BufTypeOK
    BY <2>1 DEF CoreTypeOK
  <2>3. \A i \in DOMAIN stack : stack[i] \in Frame
    BY <2>2, StackFrames
  <2> QED
    BY <2>1, <2>2, <2>3 DEF AppTypeOK, QTypeOK, BufTypeOK, Queues
<1>2. /\ t[c] = p /\ \A d \in Chn : d # c => t[d] = tk[d]
      /\ \A d \in Chn : tk[d] \in Nat /\ sn[d] \in Nat
  BY DEF Counters
<1>3. /\ call = c
      /\ \A d \in Chn \ {c} :
            /\ pipe'[d] = pipe[d] /\ \A i \in DOMAIN pipe[d] : pic'[pipe[d][i]] = pic[pipe[d][i]]
            /\ written'[d] = written[d] /\ done'[d] = done[d]
            /\ \A i \in 1 .. done[d] : queued'[d][i] = queued[d][i] /\ pic'[queued[d][i]] = pic[queued[d][i]]
      /\ ndec' = ndec
      /\ \A i \in DOMAIN stack' :
          \/ i \in DOMAIN stack /\ stack'[i] = stack[i]
          \/ stack'[i].chn = c
  BY DEF Draws, Takes
<1>4. /\ p = tk[c] \/ p = tk[c] + 1
      /\ ~ LastOf(c) /\ g_exit' = g_exit /\ (g_exit => Kind[c] = "ofile")
      /\ \A b \in Buffer : Moving(b) => lastf'[b] = lastf[b]
  BY DEF Draws
<1>5. \A d \in Chn :
         /\ Source[d] # c => (Awaited(d)' => Awaited(d)) /\ (Awaited(d) => Awaited(d)')
         /\ Source[d] = c => ~ Awaited(d) /\ (Awaited(d)' => p # tk[c]) /\ (p # tk[c] => Awaited(d)')
  BY DrawsAwaited
<1>6. \A d \in Chn : Source[d] = c => Kind[c] # "ofile"
  BY WiringAssumption, CoreAssumption
<1>7. Kept(t, sn)'
  <2> SUFFICES ASSUME NEW d \in Chn, Source[d] # None
               PROVE  \/ Solid(pic', t[d], pipe'[d], Len(pipe'[d]), sn[d])
                      \/ g_exit' /\ Pictureless(d)' /\ ~ Awaited(d)'
    BY DEF Kept, Whole
  <2>1. g_exit /\ ~ Awaited(d) => ~ Awaited(d)'
    BY <1>4, <1>5, <1>6
  <2>2. CASE d = c
    BY <1>2, <1>4, <2>1, <2>2 DEF Draws
  <2>3. CASE d # c
    <3>1. pipe[d] \in Seq(Buffer)
      BY <1>1 DEF Queues
    <3>2. Len(pipe[d]) \in Nat /\ DOMAIN pipe[d] = 1 .. Len(pipe[d])
      BY <3>1
    <3>3. pipe'[d] = pipe[d] /\ \A i \in DOMAIN pipe[d] : pic'[pipe[d][i]] = pic[pipe[d][i]]
      BY <1>3, <2>3
    <3>4. Pictureless(d) => Pictureless(d)'
      BY <3>3 DEF Pictureless
    <3>5. ASSUME Solid(pic, tk[d], pipe[d], Len(pipe[d]), sn[d])
          PROVE  Solid(pic', tk[d], pipe'[d], Len(pipe'[d]), sn[d])
      BY <3>2, <3>3, <3>5, SolidSame
    <3>6. Whole(tk, sn, d)
      BY DEF Gapless, Kept
    <3> QED
      BY <1>2, <1>4, <2>1, <2>3, <3>4, <3>5, <3>6 DEF Whole
  <2> QED
    BY <2>2, <2>3
<1>8. Sent(t, sn)'
  <2> SUFFICES ASSUME NEW d \in Chn, Source[d] # None
               PROVE  t[Source[d]] = IF Awaited(d)' THEN sn[d] + 1 ELSE sn[d]
    BY DEF Sent
  <2>1. tk[Source[d]] = IF Awaited(d) THEN sn[d] + 1 ELSE sn[d]
    BY DEF Gapless, Sent
  <2>2. Source[d] \in Chn
    BY CoreAssumption
  <2>3. CASE Source[d] = c
    BY <1>2, <1>4, <1>5, <2>1, <2>3
  <2>4. CASE Source[d] # c
    BY <1>2, <1>5, <2>1, <2>2, <2>4
  <2> QED
    BY <2>3, <2>4
<1>9. Decoded(t)'
  <2> SUFFICES ASSUME Capture # None, ~ g_exit'
               PROVE  Solid(pic', t[Capture], queued'[Capture], done'[Capture], ndec')
    BY DEF Decoded
  <2>1. Capture \in Chn
    BY PipelineAssumption
  <2>2. CASE Capture = c
    BY <1>2, <2>2 DEF Draws
  <2>3. CASE Capture # c
    <3>1. Solid(pic, tk[Capture], queued[Capture], done[Capture], ndec)
      BY <1>4 DEF Gapless, Decoded
    <3>2. done'[Capture] = done[Capture] /\ done[Capture] \in Nat
      BY <1>1, <1>3, <2>1, <2>3
    <3>3. \A i \in 1 .. done[Capture] : pic'[queued'[Capture][i]] = pic[queued[Capture][i]]
      BY <1>3, <2>1, <2>3
    <3> QED
      BY <1>2, <1>3, <2>1, <2>3, <3>1, <3>2, <3>3, SolidSame
  <2> QED
    BY <2>2, <2>3
<1>10. Recorded(t)'
  <2> SUFFICES ASSUME NEW d \in Chn
               PROVE  /\ Kind[d] = "ofile" => /\ t[d] = Len(written'[d])
                                              /\ \A i \in DOMAIN written'[d] : written'[d][i] = i
                      /\ Kind[d] # "ofile" => written'[d] = <<>>
    BY DEF Recorded
  <2>1. /\ Kind[d] = "ofile" => tk[d] = Len(written[d]) /\ \A i \in DOMAIN written[d] : written[d][i] = i
        /\ Kind[d] # "ofile" => written[d] = <<>>
    BY DEF Gapless, Recorded
  <2>2. CASE d # c
    BY <1>2, <1>3, <2>1, <2>2
  <2>3. CASE d = c
    <3>1. CASE Kind[c] = "ofile" /\ p # tk[c]
      <4>1. written'[c] = Append(written[c], p) /\ p = tk[c] + 1
        BY <1>4, <3>1 DEF Draws
      <4>2. written[c] \in Seq(Nat) /\ p = Len(written[c]) + 1 /\ \A i \in DOMAIN written[c] : written[c][i] = i
        BY <1>1, <2>1, <2>3, <3>1, <4>1
      <4>3. p = Len(Append(written[c], p)) /\ \A i \in DOMAIN Append(written[c], p) : Append(written[c], p)[i] = i
        BY <4>2, RecordedAppend
      <4> QED
        BY <1>2, <2>3, <3>1, <4>1, <4>3
    <3>2. CASE ~ (Kind[c] = "ofile" /\ p # tk[c])
      <4>1. written'[c] = written[c]
        BY <3>2 DEF Draws
      <4> QED
        BY <1>2, <2>1, <2>3, <3>2, <4>1
    <3> QED
      BY <3>1, <3>2
  <2> QED
    BY <2>2, <2>3
<1>11. ASSUME NEW b \in Buffer, Moving(b), lastf'[b] PROVE lastf[b] /\ Owner(b) \in Chn /\ t[Owner(b)] = tk[Owner(b)]
  <2>1. lastf[b] /\ refcnt[b] > 0
    BY <1>1, <1>4, <1>11, MovingHeld
  <2>2. LastOf(Owner(b))
    BY <2>1 DEF MarkInv, Marked
  <2>3. Owner(b) \in Chn /\ Owner(b) # c
    BY <1>4, <2>2, OwnerOf
  <2> QED
    BY <1>2, <2>1, <2>3
<1>12. ASSUME ~ g_exit' PROVE PipesLast(t, sn)'
  <2>1. PipesLast(tk, sn)
    BY <1>4, <1>12 DEF Gapless
  <2> SUFFICES ASSUME NEW d \in Chn, NEW i \in DOMAIN pipe'[d], lastf'[pipe'[d][i]]
               PROVE  /\ sn[d] = t[Owner(pipe'[d][i])]
                      /\ \A j \in DOMAIN pipe'[d] : j > i => pic'[pipe'[d][j]] = 0
    BY DEF PipesLast
  <2>2. pipe[d] \in Seq(Buffer) /\ pipe'[d] \in Seq(Buffer)
    BY DEF PipelineInv, TypeOK, CoreTypeOK, QTypeOK
  <2>3. DOMAIN pipe[d] \subseteq Nat /\ DOMAIN pipe'[d] \subseteq Nat
    BY <2>2
  <2>4. \A k \in DOMAIN pipe[d] : pipe[d][k] \in Buffer /\ Moving(pipe[d][k])
    BY <2>2 DEF Moving
  <2>5. \A k \in DOMAIN pipe[d] : pic'[pipe[d][k]] = pic[pipe[d][k]]
    BY <1>3 DEF Draws
  <2>6. CASE pipe'[d] = pipe[d]
    <3>1. /\ lastf[pipe[d][i]] /\ t[Owner(pipe[d][i])] = tk[Owner(pipe[d][i])]
      BY <1>11, <2>4, <2>6
    <3> QED
      BY <2>1, <2>5, <2>6, <3>1 DEF PipesLast
  <2>7. CASE \A k \in DOMAIN pipe'[d] : k + 1 \in DOMAIN pipe[d] /\ pipe'[d][k] = pipe[d][k + 1]
    <3>1. i + 1 \in DOMAIN pipe[d] /\ pipe'[d][i] = pipe[d][i + 1]
      BY <2>7
    <3>2. /\ lastf[pipe[d][i + 1]] /\ t[Owner(pipe[d][i + 1])] = tk[Owner(pipe[d][i + 1])]
      BY <1>11, <2>4, <3>1
    <3>3. /\ sn[d] = tk[Owner(pipe[d][i + 1])]
          /\ \A k \in DOMAIN pipe[d] : k > i + 1 => pic[pipe[d][k]] = 0
      BY <2>1, <3>1, <3>2 DEF PipesLast
    <3>4. ASSUME NEW j \in DOMAIN pipe'[d], j > i PROVE pic'[pipe'[d][j]] = 0
      <4>1. j + 1 \in DOMAIN pipe[d] /\ pipe'[d][j] = pipe[d][j + 1] /\ j + 1 > i + 1
        BY <2>3, <2>7, <3>4
      <4> QED
        BY <2>5, <3>3, <4>1
    <3> QED
      BY <3>1, <3>2, <3>3, <3>4
  <2> QED
    BY <1>3, <2>6, <2>7 DEF Draws
<1>13. ASSUME ~ g_exit' PROVE FramesLast(t)'
  <2>1. FramesLast(tk) /\ BegunLast(c, t)
    BY <1>4, <1>13 DEF Gapless
  <2> SUFFICES ASSUME NEW i \in DOMAIN stack'
               PROVE  /\ lastf'[stack'[i].buf] => t[stack'[i].chn] = t[Owner(stack'[i].buf)]
                      /\ stack'[i].inb # None /\ lastf'[stack'[i].inb]
                            => t[stack'[i].chn] = t[Owner(stack'[i].inb)]
                      /\ Source[stack'[i].chn] # None => stack'[i].inb # None
    BY DEF FramesLast
  <2>2. CASE stack'[i].chn = c
    BY <2>1, <2>2 DEF BegunLast
  <2>3. CASE i \in DOMAIN stack /\ stack'[i] = stack[i]
    <3>1. stack[i].chn # c
      BY <1>3, <2>3, RunsOnce
    <3>2. /\ stack[i].chn \in Chn /\ stack[i].buf \in Buffer
          /\ stack[i].inb # None => stack[i].inb \in Buffer
      <4>1. stack[i] \in Frame
        BY <1>1, <2>3
      <4> QED
        BY <4>1 DEF Frame
    <3>3. Moving(stack[i].buf) /\ (stack[i].inb # None => Moving(stack[i].inb))
      BY <2>3 DEF Moving
    <3>4. lastf'[stack[i].buf] => lastf[stack[i].buf] /\ t[Owner(stack[i].buf)] = tk[Owner(stack[i].buf)]
      BY <1>11, <3>2, <3>3
    <3>5. stack[i].inb # None /\ lastf'[stack[i].inb]
             => lastf[stack[i].inb] /\ t[Owner(stack[i].inb)] = tk[Owner(stack[i].inb)]
      BY <1>11, <3>2, <3>3
    <3> QED
      BY <1>2, <2>1, <2>3, <3>1, <3>2, <3>4, <3>5 DEF FramesLast
  <2> QED
    BY <1>3, <2>2, <2>3
<1> QED
  BY <1>7, <1>8, <1>9, <1>10, <1>12, <1>13

(* A channel takes the first buffer of its pipe. *)
LEMMA TailSolid ==
    ASSUME PipelineInv, MemInv, NEW tk \in Counters, NEW sn \in Counters, Ordered(tk, sn),
           NEW c \in Chn, Whole(tk, sn, c), Took(pipe, pipe', c),
           \A i \in DOMAIN pipe[c] : pic'[pipe[c][i]] = pic[pipe[c][i]],
           NEW p \in Nat, p = Picture(tk[c], Head(pipe[c]))
    PROVE  /\ p = tk[c] \/ p = tk[c] + 1
           /\ pic[Head(pipe[c])] # 0 => p = tk[c] + 1
           /\ \A i \in DOMAIN pipe'[c] : i + 1 \in DOMAIN pipe[c] /\ pipe'[c][i] = pipe[c][i + 1]
           /\ \/ Solid(pic', p, pipe'[c], Len(pipe'[c]), sn[c])
              \/ g_exit /\ Pictureless(c)' /\ ~ Awaited(c)
           /\ 1 \in DOMAIN pipe[c] /\ Head(pipe[c]) = pipe[c][1] /\ Head(pipe[c]) \in Buffer
           /\ Source[c] \in Chn
<1> DEFINE h == Head(pipe[c])
<1>1. CoreTypeOK /\ pipe \in Queues /\ pic \in [Buffer -> Nat] /\ pipe[c] \in Seq(Buffer)
  BY Zenon DEF PipelineInv, TypeOK, CoreTypeOK, QTypeOK, BufTypeOK, Queues
<1>2. pipe[c] # <<>> /\ Source[c] \in Chn
  BY <1>1, PipeSource DEF Took
<1>3. /\ h \in Buffer /\ 1 \in DOMAIN pipe[c] /\ h = pipe[c][1]
      /\ pipe'[c] = Tail(pipe[c]) /\ pipe'[c] \in Seq(Buffer)
      /\ \A i \in DOMAIN pipe'[c] : i + 1 \in DOMAIN pipe[c] /\ pipe'[c][i] = pipe[c][i + 1]
  BY <1>1, TakeHead
<1>4. PICK k \in Nat : k = Len(pipe[c]) /\ k > 0 /\ k - 1 \in Nat /\ Len(pipe'[c]) = k - 1
  <2>1. Len(Tail(pipe[c])) = Len(pipe[c]) - 1 /\ Len(pipe[c]) \in Nat /\ Len(pipe[c]) > 0
    BY <1>1, <1>2, HeadType DEF Queues
  <2> QED
    BY <1>3, <2>1
<1>5. DOMAIN pipe[c] = 1 .. k /\ DOMAIN pipe'[c] = 1 .. k - 1
  BY <1>1, <1>3, <1>4
<1>6. pic[h] \in Nat /\ p = IF pic[h] = 0 THEN tk[c] ELSE pic[h]
  BY <1>1, <1>3 DEF Picture
<1>7. CASE g_exit /\ Pictureless(c) /\ ~ Awaited(c)
  <2>1. pic[h] = 0
    BY <1>3, <1>7 DEF Pictureless
  <2>2. Pictureless(c)'
    BY <1>3, <1>7 DEF Pictureless
  <2> QED
    BY <1>2, <1>3, <1>6, <1>7, <2>1, <2>2
<1>8. CASE Solid(pic, tk[c], pipe[c], Len(pipe[c]), sn[c])
  <2>1. PICK P, Q, s, t : P = pic /\ Q = pic' /\ s = pipe[c] /\ t = pipe'[c]
    OBVIOUS
  <2>2. PICK u \in Nat, v \in Nat : u = tk[c] /\ v = sn[c]
    BY DEF Counters
  <2>3. Solid(P, u, s, k, v)
    BY <1>4, <1>8, <2>1, <2>2
  <2>4. Rising(P, u, s, k, v)
    BY <1>2, <1>4, <2>1, <2>2, CoreAssumption DEF Ordered, PipesRise
  <2>5. P[s[1]] \in Nat /\ P[s[1]] = pic[h]
    BY <1>3, <1>6, <2>1
  <2>6. \A i \in 1 .. k - 1 : t[i] = s[i + 1]
    BY <1>3, <1>5, <2>1
  <2>7. k > 0
    BY <1>4
  <2>8. ASSUME P[s[1]] # 0 PROVE P[s[1]] = u + 1
    <3>1. P[s[1]] \in Nat
      BY <2>5
    <3> QED
      BY <2>3, <2>4, <2>7, <2>8, <3>1, SolidNext
  <2>9. /\ P[s[1]] = 0 => Solid(P, u, t, k - 1, v)
        /\ P[s[1]] > u => Solid(P, P[s[1]], t, k - 1, v)
    BY <2>3, <2>5, <2>6, <2>7, SolidTail, Zenon
  <2>10. Solid(P, p, t, k - 1, v) /\ (p = u \/ p = u + 1) /\ (P[s[1]] # 0 => p = u + 1)
    <3>1. CASE P[s[1]] = 0
      <4>1. p = u
        BY <1>6, <2>2, <2>5, <3>1
      <4> QED
        BY <2>9, <3>1, <4>1
    <3>2. CASE P[s[1]] # 0
      <4>1. p = P[s[1]] /\ p = u + 1 /\ p > u
        BY <1>6, <2>5, <2>8, <3>2
      <4> QED
        BY <2>9, <4>1
    <3> QED
      BY <3>1, <3>2
  <2>11. \A i \in 1 .. k - 1 : Q[t[i]] = P[t[i]]
    BY <1>3, <1>5, <2>1, Zenon
  <2>12. k - 1 \in Nat
    BY <1>4
  <2>13. Solid(Q, p, t, k - 1, v)
    BY <2>10, <2>11, <2>12, SolidSame
  <2> QED
    BY <1>2, <1>3, <1>4, <2>1, <2>2, <2>5, <2>10, <2>13
<1> QED
  BY <1>7, <1>8 DEF Whole

(* The last buffer of a pipe that carries a picture is the last picture. *)
LEMMA HeadLast ==
    ASSUME PipelineInv, PipelineInv', NEW tk \in Counters, NEW sn \in Counters, NEW c \in Chn,
           PipesLast(tk, sn), NEW p \in Nat, p <= sn[c], 1 \in DOMAIN pipe[c], lastf[pipe[c][1]],
           \A i \in DOMAIN pipe[c] : pic'[pipe[c][i]] = pic[pipe[c][i]],
           \A i \in DOMAIN pipe'[c] : i + 1 \in DOMAIN pipe[c] /\ pipe'[c][i] = pipe[c][i + 1],
           Solid(pic', p, pipe'[c], Len(pipe'[c]), sn[c])
    PROVE  p = sn[c] /\ sn[c] = tk[Owner(pipe[c][1])]
<1>1. /\ sn[c] = tk[Owner(pipe[c][1])]
      /\ \A j \in DOMAIN pipe[c] : j > 1 => pic[pipe[c][j]] = 0
  BY DEF PipesLast
<1>2. pipe'[c] \in Seq(Buffer)
  BY DEF PipelineInv, TypeOK, CoreTypeOK, QTypeOK
<1>3. PICK n \in Nat : n = Len(pipe'[c]) /\ DOMAIN pipe'[c] = 1 .. n
  BY <1>2
<1>4. \A i \in 1 .. n : pic'[pipe'[c][i]] = 0
  <2> SUFFICES ASSUME NEW i \in 1 .. n PROVE pic'[pipe'[c][i]] = 0
    OBVIOUS
  <2>1. i + 1 \in DOMAIN pipe[c] /\ pipe'[c][i] = pipe[c][i + 1] /\ i + 1 > 1
    BY <1>3
  <2> QED
    BY <1>1, <2>1
<1>5. sn[c] \in Nat
  BY DEF Counters
<1>6. p = sn[c]
  BY <1>3, <1>4, <1>5, SolidNone
<1> QED
  BY <1>1, <1>6

(* An input file is read (mxc_v4l2_vpu_enc.c 1825-1871). *)
LEMMA DrawsIfile ==
    ASSUME PipelineInv, MemInv, IdleInv, NEW tk \in Counters, NEW sn \in Counters, Ordered(tk, sn),
           NEW c \in Chn, ifile_run(c), NEW p \in Nat, p = nread[c] + 1, Takes(tk, sn, c, p)
    PROVE  Draws(tk, sn, c, p) /\ \A t \in Counters : BegunLast(c, t)
<1> DEFINE b == Head(idles[c])
           fin == nread[c] + 1 = FrameNum
<1>1. /\ call = c /\ Kind[c] = "ifile" /\ Ready(c)
      /\ pic' = [pic EXCEPT ![b] = nread[c] + 1] /\ lastf' = [lastf EXCEPT ![b] = @ \/ fin]
      /\ EnterPush(c, b, None, TRUE)
      /\ UNCHANGED <<pipe, queued, done, written, ndec, g_exit>>
  BY Zenon DEF ifile_run, Active, drvVars
<1>2. /\ CoreTypeOK /\ CtlTypeOK /\ nread \in [Chn -> 0 .. FrameNum] /\ pic \in [Buffer -> Nat]
      /\ lastf \in [Buffer -> BOOLEAN] /\ FileInv /\ end[c] \in BOOLEAN
  BY DEF PipelineInv, TypeOK, CoreTypeOK, AppTypeOK, BufTypeOK, ChnTypeOK
<1>3. idles[c] # <<>> /\ idles[c] \in Seq(Buffer) /\ ~ g_exit /\ ~ end[c]
  BY <1>1, <1>2, QueueOf DEF Ready, ifile_checkready, EndNow
<1>4. 1 \in DOMAIN idles[c] /\ b = idles[c][1] /\ b \in Buffer
  BY <1>3, NumHead
<1>5. ~ InUse(b) /\ Owner(b) = c
  BY <1>2, <1>4, IdleAlone DEF MemInv, PlaceInv, IdlesOwned
<1>6. ~ LastOf(c)
  <2>1. c # Capture
    BY <1>1, WiringAssumption
  <2> QED
    BY <1>1, <1>2, <1>3, <2>1 DEF LastOf, FileInv
<1>7. tk[c] = nread[c]
  BY <1>1 DEF Ordered, RootsRise
<1> HIDE DEF b, fin
<1>8. \A x \in Buffer : x # b => lastf'[x] = lastf[x]
  BY <1>1, <1>2
<1>9. \A x \in Buffer : Moving(x) => lastf'[x] = lastf[x]
  <2>1. \A x \in Buffer : Moving(x) => x # b
    BY <1>5 DEF Moving, InUse
  <2> QED
    BY <1>8, <2>1
<1>10. PICK f : f = [chn |-> c, buf |-> b, inb |-> None, own |-> TRUE, pos |-> 1]
  OBVIOUS
<1>11. /\ Len(stack) \in Nat /\ DOMAIN stack = 1 .. Len(stack) /\ DOMAIN stack' = 1 .. Len(stack) + 1
       /\ \A i \in DOMAIN stack : stack'[i] = stack[i]
       /\ stack'[Len(stack) + 1] = f
  BY <1>1, <1>2, <1>4, <1>10, EnteredFrame, Zenon
<1>12. /\ Len(stack) + 1 \in DOMAIN stack' /\ DOMAIN stack \subseteq DOMAIN stack'
       /\ f.chn = c /\ f.pos = 1 /\ f.buf = b /\ f.inb = None
  BY <1>10, <1>11
<1>13. pic'[b] = p /\ p # 0
  BY <1>1, <1>2, <1>4, <1>7, PipelineAssumption
<1>14. Source[c] = None
  BY <1>1, WiringAssumption, CoreAssumption, Zenon
<1>15. \A i \in DOMAIN pipe[c] : pic'[pipe[c][i]] = pic[pipe[c][i]]
  BY <1>1, <1>2, <1>4, <1>5, PicturesKept, Zenon
<1>16. Draws(tk, sn, c, p)
  <2>1. c # Capture /\ Kind[c] # "ofile"
    BY <1>1, WiringAssumption
  <2>2. \E i \in DOMAIN stack' : stack'[i].chn = c /\ stack'[i].pos = 1 /\ pic'[stack'[i].buf] # 0
    BY <1>11, <1>12, <1>13
  <2> QED
    BY <1>1, <1>3, <1>6, <1>7, <1>9, <1>11, <1>12, <1>14, <1>15, <2>1, <2>2 DEF Draws
<1>17. ASSUME NEW t \in Counters PROVE BegunLast(c, t)
  <2>1. \A i \in DOMAIN stack' : i \in DOMAIN stack \/ i = Len(stack) + 1
    BY <1>11
  <2>2. \A i \in DOMAIN stack' : stack'[i].chn = c => stack'[i] = f
    BY <1>1, <1>11, <2>1, RunsOnce
  <2> QED
    BY <1>5, <1>12, <1>14, <2>2 DEF BegunLast
<1> QED
  BY <1>16, <1>17

(* The buffer a converter writes to: the one it passes on, or an idle one. *)
LEMMA ConvertBuffer ==
    ASSUME PipelineInv, MemInv, IdleInv, NEW c \in Chn, convert_run(c),
           NEW in, in = Head(pipe[c]), NEW b, b = IF c \in Passthru THEN in ELSE Head(idles[c])
    PROVE  /\ Took(pipe, pipe', c) /\ in \in Buffer /\ b \in Buffer
           /\ b = in \/ (~ lastf[b] /\ ~ InUse(b))
           /\ \A i \in DOMAIN pipe[c] : pic'[pipe[c][i]] = pic[pipe[c][i]]
<1>1. /\ Kind[c] \in {"convert", "g2d"} /\ Ready(c)
      /\ pipe' = [pipe EXCEPT ![c] = Tail(@)]
      /\ pic' = pic \/ pic' = [pic EXCEPT ![b] = pic[in]]
  BY DEF convert_run, Active
<1>2. CoreTypeOK /\ pic \in [Buffer -> Nat] /\ pipe \in Queues
  BY Zenon DEF PipelineInv, TypeOK, CoreTypeOK, BufTypeOK, QTypeOK, Queues
<1>3. pipe[c] # <<>> /\ (c \in Passthru \/ idles[c] # <<>>) /\ idles[c] \in Seq(Buffer)
  BY <1>1, <1>2, QueueOf, Zenon DEF Ready, convert_checkready
<1>4. Took(pipe, pipe', c) /\ in \in Buffer
  <2>1. Took(pipe, pipe', c)
    BY <1>1, <1>3 DEF Took
  <2> QED
    BY <1>2, <2>1, TakeHead
<1>5. CASE b = in
  <2>1. pic' = pic
    BY <1>1, <1>2, <1>4, <1>5
  <2> QED
    BY <1>4, <1>5, <2>1
<1>6. CASE b # in
  <2>1. 1 \in DOMAIN idles[c] /\ b = idles[c][1]
    BY <1>3, <1>6, NumHead
  <2>2. b \in Buffer /\ ~ InUse(b) /\ ~ lastf[b]
    BY <1>2, <2>1, IdleAlone DEF IdleInv
  <2>3. PICK q : q = pic[in]
    OBVIOUS
  <2>4. \A i \in DOMAIN pipe[c] : pic'[pipe[c][i]] = pic[pipe[c][i]]
    BY <1>1, <1>2, <2>2, <2>3, PicturesKept
  <2> QED
    BY <1>4, <2>2, <2>4
<1> QED
  BY <1>5, <1>6

(* A converter passes a picture on. *)
LEMMA DrawsConvert ==
    ASSUME PipelineInv, PipelineInv', MemInv, IdleInv, NEW tk \in Counters, NEW sn \in Counters,
           Ordered(tk, sn), Gapless(tk, sn), NEW c \in Chn, convert_run(c), NEW p \in Nat,
           p = Picture(tk[c], Head(pipe[c])), Takes(tk, sn, c, p),
           NEW t \in Counters, t = [tk EXCEPT ![c] = p]
    PROVE  Draws(tk, sn, c, p) /\ BegunLast(c, t)
<1>1. PICK in, b : in = Head(pipe[c]) /\ b = IF c \in Passthru THEN in ELSE Head(idles[c])
  OBVIOUS
<1>2. PICK w \in BOOLEAN : w = (c \notin Passthru)
  BY Zenon
<1>3. /\ call = c /\ Kind[c] \in {"convert", "g2d"} /\ Ready(c)
      /\ IF pic[in] = 0 THEN UNCHANGED <<pic, stack>>
         ELSE pic' = [pic EXCEPT ![b] = pic[in]] /\ EnterPush(c, b, in, w)
      /\ UNCHANGED <<lastf, queued, done, written, ndec, g_exit>>
  BY <1>1, <1>2 DEF convert_run, Active, drvVars, appVars
<1>4. ~ g_exit
  BY <1>3 DEF Ready, EndNow
<1>5. /\ Took(pipe, pipe', c) /\ in \in Buffer /\ b \in Buffer
      /\ b = in \/ ~ lastf[b]
      /\ \A i \in DOMAIN pipe[c] : pic'[pipe[c][i]] = pic[pipe[c][i]]
  BY <1>1, ConvertBuffer
<1>6. CoreTypeOK /\ CtlTypeOK /\ pic \in [Buffer -> Nat] /\ tk[c] \in Nat
  BY DEF PipelineInv, TypeOK, CoreTypeOK, BufTypeOK, Counters
<1>7. Source[c] \in Chn /\ Source[c] # None
  BY <1>5, <1>6, PipeSource, CoreAssumption DEF Took
<1>8. Whole(tk, sn, c)
  BY <1>7 DEF Gapless, Kept
<1>9. /\ p = tk[c] \/ p = tk[c] + 1
      /\ pic[in] # 0 => p = tk[c] + 1
      /\ \A i \in DOMAIN pipe'[c] : i + 1 \in DOMAIN pipe[c] /\ pipe'[c][i] = pipe[c][i + 1]
      /\ Solid(pic', p, pipe'[c], Len(pipe'[c]), sn[c])
      /\ 1 \in DOMAIN pipe[c] /\ in = pipe[c][1]
  BY <1>1, <1>4, <1>5, <1>8, TailSolid
<1>10. c # Capture /\ Kind[c] # "ofile" /\ Kind[c] # "ifile" /\ ~ LastOf(c)
  <2>1. c # Capture /\ Kind[c] # "ofile" /\ Kind[c] # "ifile"
    BY <1>3, WiringAssumption
  <2> QED
    BY <2>1 DEF LastOf
<1>11. p = IF pic[in] = 0 THEN tk[c] ELSE pic[in]
  BY <1>1 DEF Picture
<1>12. PICK f : f = [chn |-> c, buf |-> b, inb |-> in, own |-> w, pos |-> 1]
  OBVIOUS
<1>13. /\ f.chn = c /\ f.pos = 1 /\ f.buf = b /\ f.inb = in
  BY <1>12
<1>14. ASSUME pic[in] # 0
       PROVE  /\ Len(stack) + 1 \in DOMAIN stack' /\ stack'[Len(stack) + 1] = f
              /\ \A i \in DOMAIN stack : i \in DOMAIN stack' /\ stack'[i] = stack[i]
              /\ \A i \in DOMAIN stack' : i \in DOMAIN stack \/ stack'[i] = f
  <2>1. EnterPush(c, b, in, w)
    BY <1>3, <1>14
  <2>2. in \in Buffer \cup {None}
    BY <1>5
  <2>3. /\ Len(stack) \in Nat /\ DOMAIN stack = 1 .. Len(stack) /\ DOMAIN stack' = 1 .. Len(stack) + 1
        /\ \A i \in DOMAIN stack : stack'[i] = stack[i]
        /\ stack'[Len(stack) + 1] = f
    BY <1>5, <1>6, <1>12, <2>1, <2>2, EnteredFrame, Zenon
  <2> QED
    BY <2>3
<1>15. \A i \in DOMAIN stack : i \in DOMAIN stack' /\ stack'[i] = stack[i]
  BY <1>3, <1>14
<1>16. Draws(tk, sn, c, p)
  <2>1. p # tk[c] => \E i \in DOMAIN stack' : /\ stack'[i].chn = c /\ stack'[i].pos = 1
                                              /\ pic'[stack'[i].buf] # 0
    <3> SUFFICES ASSUME p # tk[c]
                 PROVE  \E i \in DOMAIN stack' : /\ stack'[i].chn = c /\ stack'[i].pos = 1
                                                 /\ pic'[stack'[i].buf] # 0
      OBVIOUS
    <3>1. pic[in] # 0
      BY <1>11
    <3>2. pic'[b] = pic[in]
      BY <1>3, <1>5, <1>6, <3>1
    <3> QED
      BY <1>13, <1>14, <3>1, <3>2
  <2> QED
    BY <1>3, <1>4, <1>5, <1>7, <1>9, <1>10, <1>15, <2>1 DEF Draws
<1>17. BegunLast(c, t)
  <2> SUFFICES ASSUME NEW i \in DOMAIN stack', stack'[i].chn = c
               PROVE  /\ lastf'[stack'[i].buf] => t[c] = t[Owner(stack'[i].buf)]
                      /\ stack'[i].inb # None /\ lastf'[stack'[i].inb] => t[c] = t[Owner(stack'[i].inb)]
                      /\ Source[c] # None => stack'[i].inb # None
    BY DEF BegunLast
  <2>1. i \notin DOMAIN stack
    BY <1>3, <1>15, RunsOnce
  <2>2. stack'[i] = f
    BY <1>3, <1>14, <2>1
  <2>3. ASSUME lastf[in] PROVE t[c] = t[Owner(in)]
    <3>1. p <= sn[c]
      BY <1>7 DEF Takes, Rising
    <3>2. PipesLast(tk, sn)
      BY <1>4 DEF Gapless
    <3>3. p = sn[c] /\ sn[c] = tk[Owner(pipe[c][1])]
      <4>1. lastf[pipe[c][1]]
        BY <1>9, <2>3
      <4> QED
        BY <1>5, <1>9, <3>1, <3>2, <4>1, HeadLast
    <3>4. t[c] = p /\ \A d \in Chn : d # c => t[d] = tk[d]
      BY DEF Counters
    <3>5. Owner(in) \in Chn
      BY <1>5, OwnerOf
    <3> QED
      BY <1>9, <3>3, <3>4, <3>5
  <2>4. in # None
    BY <1>5, CoreAssumption
  <2> QED
    BY <1>3, <1>5, <1>13, <2>2, <2>3, <2>4
<1> QED
  BY <1>16, <1>17

(* A picture is written to a file, also after SIGINT. *)
LEMMA DrawsOfile ==
    ASSUME PipelineInv, MemInv, NEW tk \in Counters, NEW sn \in Counters,
           Ordered(tk, sn), Gapless(tk, sn), NEW c \in Chn, ofile_run(c), pipe[c] # <<>>,
           NEW p \in Nat, p = Picture(tk[c], Head(pipe[c])), Takes(tk, sn, c, p)
    PROVE  Draws(tk, sn, c, p) /\ \A t \in Counters : BegunLast(c, t)
<1>1. PICK in : in = Head(pipe[c])
  OBVIOUS
<1>2. /\ call = c /\ Kind[c] = "ofile"
      /\ pipe' = [pipe EXCEPT ![c] = Tail(@)]
      /\ written' = [written EXCEPT ![c] = IF pic[in] = 0 THEN @ ELSE Append(@, pic[in])]
      /\ UNCHANGED <<pic, lastf, stack, g_exit>>
  BY <1>1 DEF ofile_run, Active, bufVars
<1>3. Took(pipe, pipe', c)
  BY <1>2 DEF Took
<1>4. /\ CoreTypeOK /\ written \in [Chn -> Seq(Nat)] /\ pic \in [Buffer -> Nat] /\ tk[c] \in Nat
  BY DEF PipelineInv, TypeOK, CoreTypeOK, AppTypeOK, BufTypeOK, Counters
<1>5. Source[c] \in Chn /\ Source[c] # None
  BY <1>4, PipeSource, CoreAssumption
<1>6. Whole(tk, sn, c)
  BY <1>5 DEF Gapless, Kept
<1>7. /\ p = tk[c] \/ p = tk[c] + 1
      /\ pic[in] # 0 => p = tk[c] + 1
      /\ \A i \in DOMAIN pipe'[c] : i + 1 \in DOMAIN pipe[c] /\ pipe'[c][i] = pipe[c][i + 1]
      /\ \/ Solid(pic', p, pipe'[c], Len(pipe'[c]), sn[c])
         \/ g_exit /\ Pictureless(c)' /\ ~ Awaited(c)
  <2>1. \A i \in DOMAIN pipe[c] : pic'[pipe[c][i]] = pic[pipe[c][i]]
    BY <1>2
  <2> QED
    BY <1>1, <1>3, <1>6, <2>1, TailSolid
<1>8. c # Capture /\ ~ LastOf(c)
  <2>1. c # Capture /\ Kind[c] # "ifile"
    BY <1>2, WiringAssumption
  <2> QED
    BY <2>1 DEF LastOf
<1>9. p = IF pic[in] = 0 THEN tk[c] ELSE pic[in]
  BY <1>1 DEF Picture
<1>10. written'[c] = IF p # tk[c] THEN Append(written[c], p) ELSE written[c]
  <2>1. CASE pic[in] = 0
    BY <1>2, <1>4, <1>9, <2>1
  <2>2. CASE pic[in] # 0
    <3>1. p # tk[c] /\ p = pic[in]
      BY <1>4, <1>7, <1>9, <2>2
    <3> QED
      BY <1>2, <1>4, <2>2, <3>1
  <2> QED
    BY <2>1, <2>2
<1>11. Draws(tk, sn, c, p)
  BY <1>2, <1>5, <1>7, <1>8, <1>10 DEF Draws
<1>12. ASSUME NEW t \in Counters PROVE BegunLast(c, t)
  BY <1>2, RunsOnce DEF BegunLast
<1> QED
  BY <1>11, <1>12

(* A filled buffer is dequeued. *)
LEMMA DrawsCapture ==
    ASSUME PipelineInv, MemInv, NEW tk \in Counters, NEW sn \in Counters,
           Ordered(tk, sn), Gapless(tk, sn), NEW c \in Chn, run_v4l2(c), done[c] > 0,
           NEW p \in Nat, p = Picture(tk[c], Head(queued[c])), Takes(tk, sn, c, p)
    PROVE  Draws(tk, sn, c, p) /\ \A t \in Counters : BegunLast(c, t)
<1>1. PICK b : b = Head(queued[c])
  OBVIOUS
<1>2. /\ call = c /\ Kind[c] = "capture" /\ Ready(c)
      /\ queued' = [queued EXCEPT ![c] = Tail(@)] /\ done' = [done EXCEPT ![c] = @ - 1]
      /\ IF pic[b] = 0 /\ ~ lastf[b] THEN UNCHANGED stack ELSE EnterPush(c, b, None, TRUE)
      /\ UNCHANGED <<pipe, pic, lastf, written, ndec, g_exit>>
  BY <1>1, Zenon DEF run_v4l2, Active, drvVars, appVars
<1>3. ~ g_exit
  BY <1>2 DEF Ready, EndNow
<1>4. /\ CoreTypeOK /\ CtlTypeOK /\ pic \in [Buffer -> Nat] /\ queued \in Queues /\ ndec \in Nat
      /\ done[c] \in Nat /\ done[c] <= Len(queued[c]) /\ tk[c] \in Nat /\ queued[c] \in Seq(Buffer)
  BY Zenon DEF PipelineInv, TypeOK, CoreTypeOK, BufTypeOK, QTypeOK, Queues, DrvTypeOK, Counters, DoneInv
<1>5. c = Capture /\ Source[c] = None /\ Kind[c] # "ifile" /\ Kind[c] # "ofile" /\ c # None
  BY <1>2, WiringAssumption, PipelineAssumption, CoreAssumption
<1>6. ~ LastOf(c)
  <2>1. done[c] # 0
    BY <1>4
  <2> QED
    BY <1>5, <2>1 DEF LastOf
<1>7. Took(queued, queued', c) /\ queued[c] # <<>>
  BY <1>2, <1>4 DEF Took
<1>8. /\ b \in Buffer /\ 1 \in DOMAIN queued[c] /\ b = queued[c][1] /\ queued'[c] = Tail(queued[c])
      /\ \A i \in DOMAIN queued'[c] : queued'[c][i] = queued[c][i + 1]
  BY <1>1, <1>4, <1>7, TakeHead
<1>9. Owner(b) = c
  BY <1>8 DEF MemInv, PlaceInv, QueuedOwned
<1>10. PICK k \in Nat : k = done[c] /\ k > 0 /\ done'[c] = k - 1 /\ k - 1 \in Nat /\ k <= Len(queued[c])
  BY <1>2, <1>4, PipelineAssumption DEF PipelineInv, TypeOK, CoreTypeOK, QTypeOK
<1>11. p = IF pic[b] = 0 THEN tk[c] ELSE pic[b]
  BY <1>1 DEF Picture
<1>12. /\ Solid(pic', p, queued'[c], done'[c], ndec')
       /\ p = tk[c] \/ p = tk[c] + 1
       /\ p # tk[c] => pic[b] # 0
  <2>1. PICK P, s, t : P = pic /\ s = queued[c] /\ t = queued'[c]
    OBVIOUS
  <2>2. PICK u \in Nat, v \in Nat : u = tk[c] /\ v = ndec
    BY <1>4
  <2>3. Solid(P, u, s, k, v)
    BY <1>3, <1>5, <1>10, <2>1, <2>2 DEF Gapless, Decoded
  <2>4. Rising(P, u, s, k, v)
    BY <1>2, <1>10, <2>1, <2>2 DEF Ordered, RootsRise
  <2>5. P[s[1]] \in Nat /\ P[s[1]] = pic[b]
    BY <1>4, <1>8, <2>1
  <2>6. \A i \in 1 .. k - 1 : t[i] = s[i + 1]
    <3>1. DOMAIN queued'[c] = 1 .. Len(queued[c]) - 1
      BY <1>4, <1>7, <1>8
    <3>2. Len(queued[c]) \in Nat
      BY <1>4
    <3>3. \A i \in 1 .. k - 1 : i \in DOMAIN queued'[c]
      BY <1>10, <3>1, <3>2
    <3> QED
      BY <1>8, <2>1, <3>3
  <2>7. k > 0
    BY <1>10
  <2>8. ASSUME P[s[1]] # 0 PROVE P[s[1]] = u + 1
    <3>1. P[s[1]] \in Nat
      BY <2>5
    <3> QED
      BY <2>3, <2>4, <2>7, <2>8, <3>1, SolidNext
  <2>9. /\ P[s[1]] = 0 => Solid(P, u, t, k - 1, v)
        /\ P[s[1]] > u => Solid(P, P[s[1]], t, k - 1, v)
    BY <2>3, <2>5, <2>6, <2>7, SolidTail, Zenon
  <2>10. Solid(P, p, t, k - 1, v) /\ (p = u \/ p = u + 1) /\ (p # u => P[s[1]] # 0)
    <3>1. CASE P[s[1]] = 0
      <4>1. p = u
        BY <1>11, <2>2, <2>5, <3>1
      <4> QED
        BY <2>9, <3>1, <4>1
    <3>2. CASE P[s[1]] # 0
      <4>1. p = P[s[1]] /\ p = u + 1 /\ p > u
        BY <1>11, <2>5, <2>8, <3>2
      <4> QED
        BY <2>9, <3>2, <4>1
    <3> QED
      BY <3>1, <3>2
  <2> QED
    BY <1>2, <1>10, <2>1, <2>2, <2>5, <2>10
<1>13. PICK f : f = [chn |-> c, buf |-> b, inb |-> None, own |-> TRUE, pos |-> 1]
  OBVIOUS
<1>14. /\ f.chn = c /\ f.pos = 1 /\ f.buf = b /\ f.inb = None
  BY <1>13
<1>15. ASSUME EnterPush(c, b, None, TRUE)
       PROVE  /\ Len(stack) + 1 \in DOMAIN stack' /\ stack'[Len(stack) + 1] = f
              /\ \A i \in DOMAIN stack : i \in DOMAIN stack' /\ stack'[i] = stack[i]
              /\ \A i \in DOMAIN stack' : i \in DOMAIN stack \/ stack'[i] = f
  <2>1. /\ Len(stack) \in Nat /\ DOMAIN stack = 1 .. Len(stack) /\ DOMAIN stack' = 1 .. Len(stack) + 1
        /\ \A i \in DOMAIN stack : stack'[i] = stack[i]
        /\ stack'[Len(stack) + 1] = f
    BY <1>4, <1>8, <1>13, <1>15, EnteredFrame, Zenon
  <2> QED
    BY <2>1
<1>16. \A i \in DOMAIN stack : i \in DOMAIN stack' /\ stack'[i] = stack[i]
  BY <1>2, <1>15, Zenon
<1>17. Draws(tk, sn, c, p)
  <2>1. p # tk[c] => \E i \in DOMAIN stack' : /\ stack'[i].chn = c /\ stack'[i].pos = 1
                                              /\ pic'[stack'[i].buf] # 0
    <3> SUFFICES ASSUME p # tk[c]
                 PROVE  \E i \in DOMAIN stack' : /\ stack'[i].chn = c /\ stack'[i].pos = 1
                                                 /\ pic'[stack'[i].buf] # 0
      OBVIOUS
    <3>1. pic'[b] # 0 /\ EnterPush(c, b, None, TRUE)
      BY <1>2, <1>12, Zenon
    <3> QED
      BY <1>14, <1>15, <3>1
  <2> QED
    BY <1>2, <1>3, <1>5, <1>6, <1>12, <1>16, <2>1 DEF Draws
<1>18. ASSUME NEW t \in Counters PROVE BegunLast(c, t)
  <2> SUFFICES ASSUME NEW i \in DOMAIN stack', stack'[i].chn = c
               PROVE  /\ lastf'[stack'[i].buf] => t[c] = t[Owner(stack'[i].buf)]
                      /\ stack'[i].inb # None /\ lastf'[stack'[i].inb] => t[c] = t[Owner(stack'[i].inb)]
                      /\ Source[c] # None => stack'[i].inb # None
    BY DEF BegunLast
  <2>1. i \notin DOMAIN stack
    BY <1>2, <1>16, RunsOnce
  <2>2. stack'[i] = f
    BY <1>2, <1>15, <2>1, Zenon
  <2> QED
    BY <1>5, <1>9, <1>14, <2>2
<1> QED
  BY <1>17, <1>18

-----------------------------------------------------------------------------
(* A buffer is pushed into a pipe. *)

(* The sink that is served next *)
ServedNext(d) == d = Outs[top.chn][top.pos - Len(Outs[top.chn])]

(* Its count of the pictures it was sent *)
SendsTo(d, sn, s) == s = [sn EXCEPT ![d] = Picture(sn[d], top.buf)]

(* Who waits for a push afterwards *)
LEMMA PushAwaited ==
    ASSUME PipelineInv, pipe_push_back, NEW d, ServedNext(d)
    PROVE  /\ d \in Chn /\ Source[d] = top.chn /\ ~ Awaited(d)'
           /\ pic[top.buf] # 0 => Awaited(d)
           /\ Awaited(d) => pic[top.buf] # 0
           /\ \A e \in Chn : e # d => (Awaited(e)' => Awaited(e)) /\ (Awaited(e) => Awaited(e)')
<1> DEFINE n == Len(Outs[top.chn])
           m == Len(stack)
<1>1. stack # <<>> /\ top.pos > n /\ top.pos <= 2 * n /\ stack' = Advanced /\ pic' = pic
  BY DEF pipe_push_back, Running
<1>2. CtlTypeOK
  BY DEF PipelineInv, TypeOK, CoreTypeOK
<1>3. /\ d \in Chn /\ Source[d] = top.chn /\ Unserved(top, d) /\ ~ Unserved(stack'[m], d)
      /\ \A e \in Chn : Unserved(stack'[m], e) => Unserved(top, e)
  BY <1>1, <1>2, UnservedPush DEF ServedNext
<1>4. \A e \in Chn : e # d /\ Unserved(top, e) => Unserved(stack'[m], e)
  BY <1>1, <1>2, UnservedOthers DEF ServedNext
<1>5. /\ m \in DOMAIN stack /\ top = stack[m] /\ DOMAIN stack' = DOMAIN stack
      /\ \A i \in DOMAIN stack : i # m => stack'[i] = stack[i]
  BY <1>1, <1>2, AdvancedTop
<1>6. stack'[m].buf = top.buf
  BY <1>1, <1>2, <1>5, AdvancedSame
<1> HIDE DEF m, n
<1>7. \A i \in DOMAIN stack : i # m => ~ Unserved(stack[i], d)
  <2> SUFFICES ASSUME NEW i \in DOMAIN stack, i # m, Unserved(stack[i], d) PROVE FALSE
    OBVIOUS
  <2>1. stack[i] \in Frame /\ stack[i].chn # top.chn
    BY <1>2, <1>5, StackFrames, FramesApart
  <2> QED
    BY <1>3, <2>1, UnservedSink
<1>8. \A e : Awaited(e)' = \E i \in DOMAIN stack' : pic[stack'[i].buf] # 0 /\ Unserved(stack'[i], e)
  BY <1>1 DEF Awaited, Pending, Unserved
<1>9. \A e : Awaited(e) = \E i \in DOMAIN stack : pic[stack[i].buf] # 0 /\ Unserved(stack[i], e)
  BY DEF Awaited, Pending
<1>10. ~ Awaited(d)'
  BY <1>3, <1>5, <1>7, <1>8, Zenon
<1>11. (pic[top.buf] # 0 => Awaited(d)) /\ (Awaited(d) => pic[top.buf] # 0)
  BY <1>3, <1>5, <1>7, <1>9, Zenon
<1>12. ASSUME NEW e \in Chn, e # d PROVE (Awaited(e)' => Awaited(e)) /\ (Awaited(e) => Awaited(e)')
  <2>1. \A i \in DOMAIN stack : /\ stack'[i].buf = stack[i].buf
                                /\ Unserved(stack'[i], e) => Unserved(stack[i], e)
                                /\ Unserved(stack[i], e) => Unserved(stack'[i], e)
    BY <1>3, <1>4, <1>5, <1>6, <1>12
  <2> QED
    BY <1>5, <1>8, <1>9, <2>1, Zenon
<1> QED
  BY <1>3, <1>10, <1>11, <1>12

(* What the pushed buffer carries is the next picture of its sink. *)
LEMMA PushNext ==
    ASSUME PipelineInv, NEW tk \in Counters, NEW sn \in Counters, Ordered(tk, sn), Sent(tk, sn),
           pipe_push_back, NEW d, ServedNext(d), NEW s \in Counters, SendsTo(d, sn, s)
    PROVE  /\ s[d] = tk[top.chn] /\ \A e \in Chn : e # d => s[e] = sn[e]
           /\ pic[top.buf] = 0 => s[d] = sn[d]
           /\ pic[top.buf] # 0 => s[d] = sn[d] + 1 /\ pic[top.buf] = s[d]
<1>1. /\ d \in Chn /\ Source[d] = top.chn
      /\ pic[top.buf] # 0 => Awaited(d)
      /\ Awaited(d) => pic[top.buf] # 0
  BY PushAwaited
<1>2. stack # <<>> /\ CtlTypeOK
  BY DEF pipe_push_back, Running, PipelineInv, TypeOK, CoreTypeOK
<1>3. Len(stack) \in DOMAIN stack /\ top = stack[Len(stack)] /\ top.chn \in Chn
  BY <1>2, AdvancedTop, StackFrames
<1>4. pic[top.buf] # 0 => pic[top.buf] = tk[top.chn]
  BY <1>3 DEF Ordered, FramesRise
<1>5. tk[top.chn] = IF Awaited(d) THEN sn[d] + 1 ELSE sn[d]
  BY <1>1, <1>3, CoreAssumption, Zenon DEF Sent
<1>6. s[d] = (IF pic[top.buf] = 0 THEN sn[d] ELSE pic[top.buf]) /\ \A e \in Chn : e # d => s[e] = sn[e]
  BY <1>1 DEF Counters, Picture, SendsTo
<1> QED
  BY <1>1, <1>4, <1>5, <1>6

(* The pipe of a sink after a push *)
LEMMA PipePushed ==
    ASSUME pipe \in Queues, NEW d \in Chn, NEW x \in Buffer, pipe' = [pipe EXCEPT ![d] = Append(@, x)]
    PROVE  /\ \A e \in Chn : e # d => pipe'[e] = pipe[e]
           /\ \E n \in Nat : /\ n = Len(pipe[d]) /\ Len(pipe'[d]) = n + 1 /\ pipe'[d][n + 1] = x
                             /\ DOMAIN pipe[d] = 1 .. n /\ DOMAIN pipe'[d] = 1 .. n + 1
                             /\ \A i \in 1 .. n : pipe'[d][i] = pipe[d][i]
<1>1. pipe[d] \in Seq(Buffer) /\ pipe'[d] = Append(pipe[d], x) /\ \A e \in Chn : e # d => pipe'[e] = pipe[e]
  BY DEF Queues
<1>2. /\ Len(pipe[d]) \in Nat /\ Len(pipe'[d]) = Len(pipe[d]) + 1 /\ pipe'[d][Len(pipe[d]) + 1] = x
      /\ \A i \in 1 .. Len(pipe[d]) : pipe'[d][i] = pipe[d][i]
      /\ DOMAIN pipe'[d] = 1 .. Len(pipe[d]) + 1
  BY <1>1, AppendProperties
<1>3. DOMAIN pipe[d] = 1 .. Len(pipe[d])
  BY <1>1
<1> QED
  BY <1>1, <1>2, <1>3

(* Channel h puts the next picture, or none, into the pipe of d. *)
Pushes(tk, sn, s, d, x, h) ==
    /\ UNCHANGED <<pic, lastf, g_exit>> /\ pipe' = [pipe EXCEPT ![d] = Append(@, x)]
    /\ Source[d] = h /\ ~ Awaited(d)' /\ (pic[x] # 0 => Awaited(d))
    /\ \A e \in Chn : e # d => (Awaited(e)' => Awaited(e)) /\ (Awaited(e) => Awaited(e)')
    /\ s[d] = tk[h] /\ \A e \in Chn : e # d => s[e] = sn[e]
    /\ pic[x] = 0 => s[d] = sn[d]
    /\ pic[x] # 0 => s[d] = sn[d] + 1 /\ pic[x] = s[d]
    /\ FramesLast(tk) /\ lastf[x] => tk[h] = tk[Owner(x)]

(* Nothing is lost. *)
LEMMA PipesPushed ==
    ASSUME pipe \in Queues, MemInv, NEW tk \in Counters, NEW sn \in Counters, NEW s \in Counters,
           Gapless(tk, sn), Chained(tk, s), NEW d \in Chn, NEW x \in Buffer, NEW h \in Chn,
           Pushes(tk, sn, s, d, x, h)
    PROVE  Kept(tk, s)' /\ Sent(tk, s)' /\ (~ g_exit' => PipesLast(tk, s)')
<1>1. pipe' = [pipe EXCEPT ![d] = Append(@, x)] /\ UNCHANGED <<pic, lastf, g_exit>>
  BY DEF Pushes
<1>2. /\ Source[d] = h /\ ~ Awaited(d)' /\ (pic[x] # 0 => Awaited(d))
      /\ \A e \in Chn : e # d => (Awaited(e)' => Awaited(e)) /\ (Awaited(e) => Awaited(e)')
  BY DEF Pushes
<1>3. /\ s[d] = tk[h] /\ \A e \in Chn : e # d => s[e] = sn[e]
      /\ pic[x] = 0 => s[d] = sn[d]
      /\ pic[x] # 0 => s[d] = sn[d] + 1 /\ pic[x] = s[d]
  BY DEF Pushes
<1>4. FramesLast(tk) /\ lastf[x] => tk[h] = tk[Owner(x)]
  BY DEF Pushes
<1>5. \A e \in Chn : e # d => pipe'[e] = pipe[e]
  BY <1>1, PipePushed
<1>8. PICK n \in Nat : /\ n = Len(pipe[d]) /\ Len(pipe'[d]) = n + 1 /\ pipe'[d][n + 1] = x
                       /\ DOMAIN pipe[d] = 1 .. n /\ DOMAIN pipe'[d] = 1 .. n + 1
                       /\ \A i \in 1 .. n : pipe'[d][i] = pipe[d][i]
  BY <1>1, PipePushed, Zenon
<1>9. tk[d] \in Nat /\ sn[d] \in Nat /\ s[d] \in Nat
  BY DEF Counters
<1>10. Kept(tk, s)'
  <2> SUFFICES ASSUME NEW e \in Chn, Source[e] # None
               PROVE  \/ Solid(pic', tk[e], pipe'[e], Len(pipe'[e]), s[e])
                      \/ g_exit' /\ Pictureless(e)' /\ ~ Awaited(e)'
    BY <1>1, <1>2, <1>3, <1>4 DEF Kept, Whole
  <2>1. \/ Solid(pic, tk[e], pipe[e], Len(pipe[e]), sn[e])
        \/ g_exit /\ Pictureless(e) /\ ~ Awaited(e)
    BY <1>1, <1>2, <1>3, <1>4 DEF Gapless, Kept, Whole
  <2>2. CASE e # d
    <3>1. Pictureless(e) => Pictureless(e)'
      BY <1>1, <1>2, <1>3, <1>4, <1>5, <2>2 DEF Pictureless
    <3> QED
      BY <1>1, <1>2, <1>3, <1>4, <1>5, <2>1, <2>2, <3>1
  <2>3. CASE e = d /\ Solid(pic, tk[d], pipe[d], Len(pipe[d]), sn[d])
    <3>1. PICK P, Q, u, v : P = pic /\ Q = pic' /\ u = pipe[d] /\ v = pipe'[d]
      OBVIOUS
    <3>2. PICK a \in Nat, y \in Nat, z \in Nat : a = tk[d] /\ y = sn[d] /\ z = s[d]
      BY <1>1, <1>2, <1>3, <1>4, <1>9
    <3>3. Solid(P, a, u, n, y)
      BY <1>1, <1>2, <1>3, <1>4, <1>8, <2>3, <3>1, <3>2
    <3>4. \A i \in 1 .. n : Q[v[i]] = P[u[i]]
      BY <1>1, <1>2, <1>3, <1>4, <1>8, <3>1
    <3>5. z = y \/ (z = y + 1 /\ Q[v[n + 1]] = z)
      BY <1>1, <1>2, <1>3, <1>4, <1>8, <3>1, <3>2
    <3>6. Solid(Q, a, v, n + 1, z)
      BY <1>1, <1>2, <1>3, <1>4, <3>3, <3>4, <3>5, SolidAppend, Zenon
    <3> QED
      BY <1>1, <1>2, <1>3, <1>4, <1>8, <2>3, <3>1, <3>2, <3>6
  <2>4. CASE e = d /\ g_exit /\ Pictureless(d) /\ ~ Awaited(d)
    <3>1. pic[x] = 0
      BY <1>1, <1>2, <1>3, <1>4, <2>4
    <3>2. \A i \in DOMAIN pipe'[d] : i \in DOMAIN pipe[d] \/ i = n + 1
      BY <1>1, <1>2, <1>3, <1>4, <1>8
    <3>3. Pictureless(d)'
      BY <1>1, <1>2, <1>3, <1>4, <1>8, <2>4, <3>1, <3>2 DEF Pictureless
    <3> QED
      BY <1>1, <1>2, <1>3, <1>4, <2>4, <3>3
  <2> QED
    BY <1>1, <1>2, <1>3, <1>4, <2>1, <2>2, <2>3, <2>4
<1>11. Sent(tk, s)'
  <2> SUFFICES ASSUME NEW e \in Chn, Source[e] # None
               PROVE  tk[Source[e]] = IF Awaited(e)' THEN s[e] + 1 ELSE s[e]
    BY <1>1, <1>2, <1>3, <1>4 DEF Sent
  <2>1. tk[Source[e]] = IF Awaited(e) THEN sn[e] + 1 ELSE sn[e]
    BY <1>1, <1>2, <1>3, <1>4 DEF Gapless, Sent
  <2>2. CASE e # d
    BY <1>1, <1>2, <1>3, <1>4, <2>1, <2>2
  <2>3. CASE e = d
    BY <1>1, <1>2, <1>3, <1>4, <2>3
  <2> QED
    BY <1>1, <1>2, <1>3, <1>4, <2>2, <2>3
<1>12. ASSUME ~ g_exit' PROVE PipesLast(tk, s)'
  <2>1. PipesLast(tk, sn) /\ FramesLast(tk)
    BY <1>1, <1>2, <1>3, <1>4, <1>12 DEF Gapless
  <2> SUFFICES ASSUME NEW e \in Chn, NEW i \in DOMAIN pipe'[e], lastf[pipe'[e][i]]
               PROVE  /\ s[e] = tk[Owner(pipe'[e][i])]
                      /\ \A j \in DOMAIN pipe'[e] : j > i => pic[pipe'[e][j]] = 0
    BY <1>1, <1>2, <1>3, <1>4 DEF PipesLast
  <2>2. CASE e # d
    BY <1>1, <1>2, <1>3, <1>4, <1>5, <2>1, <2>2 DEF PipesLast
  <2>3. CASE e = d /\ i = n + 1
    <3>1. pipe'[e][i] = x /\ lastf[x]
      BY <1>1, <1>2, <1>3, <1>4, <1>8, <2>3
    <3>2. tk[h] = tk[Owner(x)]
      BY <1>1, <1>2, <1>3, <1>4, <2>1, <3>1
    <3>3. \A j \in DOMAIN pipe'[e] : ~ (j > i)
      BY <1>1, <1>2, <1>3, <1>4, <1>8, <2>3
    <3> QED
      BY <1>1, <1>2, <1>3, <1>4, <2>3, <3>1, <3>2, <3>3
  <2>4. CASE e = d /\ i # n + 1
    <3>1. i \in DOMAIN pipe[d] /\ pipe'[d][i] = pipe[d][i]
      BY <1>1, <1>2, <1>3, <1>4, <1>8, <2>4
    <3>2. /\ sn[d] = tk[Owner(pipe[d][i])]
          /\ \A j \in DOMAIN pipe[d] : j > i => pic[pipe[d][j]] = 0
      BY <1>1, <1>2, <1>3, <1>4, <2>1, <2>4, <3>1 DEF PipesLast
    <3>3. pic[x] = 0
      <4>1. pipe[d][i] \in Buffer
        BY <1>1, <1>2, <1>3, <1>4, <3>1 DEF Queues
      <4>2. PICK r \in Chn : r = Owner(pipe[d][i])
        BY <1>1, <1>2, <1>3, <1>4, <4>1, OwnerOf
      <4>3. d \in Below(r)
        BY <1>1, <1>2, <1>3, <1>4, <3>1, <4>2 DEF MemInv, PlaceInv, PipeBelow
      <4>4. Chained(tk, s)
        OBVIOUS
      <4>5. s[d] <= tk[r]
        BY <1>1, <1>2, <1>3, <1>4, <4>3, <4>4, BelowTaken
      <4> QED
        BY <1>1, <1>2, <1>3, <1>4, <1>9, <3>2, <4>2, <4>5
    <3>4. \A j \in DOMAIN pipe'[d] : j = n + 1 \/ (j \in DOMAIN pipe[d] /\ pipe'[d][j] = pipe[d][j])
      BY <1>1, <1>2, <1>3, <1>4, <1>8
    <3>5. \A j \in DOMAIN pipe'[d] : j > i => pic[pipe'[d][j]] = 0
      BY <1>1, <1>2, <1>3, <1>4, <1>8, <3>2, <3>3, <3>4
    <3> QED
      BY <1>1, <1>2, <1>3, <1>4, <2>4, <3>1, <3>2, <3>3, <3>5
  <2> QED
    BY <1>1, <1>2, <1>3, <1>4, <2>2, <2>3, <2>4
<1> QED
  BY <1>1, <1>2, <1>3, <1>4, <1>10, <1>11, <1>12

(* Nothing is lost in a push. *)
LEMMA GaplessPush ==
    ASSUME PipelineInv, PipelineInv', MemInv, NEW tk \in Counters, NEW sn \in Counters,
           Ordered(tk, sn), Gapless(tk, sn), pipe_push_back, UNCHANGED <<written, ndec, g_exit>>,
           NEW d, ServedNext(d), NEW s \in Counters, SendsTo(d, sn, s), Ordered(tk, s)'
    PROVE  /\ Kept(tk, s)' /\ Sent(tk, s)' /\ Decoded(tk)' /\ Recorded(tk)'
           /\ ~ g_exit' => PipesLast(tk, s)' /\ FramesLast(tk)'
<1>1. PICK x : x = top.buf
  OBVIOUS
<1>2. /\ stack # <<>> /\ stack' = Advanced /\ pipe' = [pipe EXCEPT ![d] = Append(@, x)]
      /\ UNCHANGED <<pic, lastf, queued, done>>
  BY <1>1 DEF pipe_push_back, Running, ServedNext
<1>3. CtlTypeOK /\ pipe \in Queues /\ pic \in [Buffer -> Nat]
  BY DEF PipelineInv, TypeOK, CoreTypeOK, QTypeOK, BufTypeOK, Queues
<1>4. /\ d \in Chn /\ Source[d] = top.chn /\ ~ Awaited(d)'
      /\ pic[x] # 0 => Awaited(d)
      /\ \A e \in Chn : e # d => (Awaited(e)' => Awaited(e)) /\ (Awaited(e) => Awaited(e)')
  BY <1>1, PushAwaited
<1>5. /\ s[d] = tk[top.chn] /\ \A e \in Chn : e # d => s[e] = sn[e]
      /\ pic[x] = 0 => s[d] = sn[d]
      /\ pic[x] # 0 => s[d] = sn[d] + 1 /\ pic[x] = s[d]
  <2>1. Sent(tk, sn)
    BY DEF Gapless
  <2>2. /\ s[d] = tk[top.chn] /\ \A e \in Chn : e # d => s[e] = sn[e]
        /\ pic[top.buf] = 0 => s[d] = sn[d]
        /\ pic[top.buf] # 0 => s[d] = sn[d] + 1 /\ pic[top.buf] = s[d]
    BY <2>1, PushNext
  <2> QED
    BY <1>1, <2>2, Zenon
<1>6. Len(stack) \in DOMAIN stack /\ top = stack[Len(stack)] /\ x \in Buffer /\ DOMAIN stack' = DOMAIN stack
  BY <1>1, <1>2, <1>3, AdvancedTop, StackFrames
<1>7. Chained(tk, s)
  BY DEF Ordered, PipesRise, SentTaken, Rising, Chained
<1>8. PICK h \in Chn : h = top.chn
  BY <1>3, <1>6, StackFrames
<1>9. FramesLast(tk) /\ lastf[x] => tk[h] = tk[Owner(x)]
  BY <1>1, <1>6, <1>8 DEF FramesLast
<1>10. Kept(tk, s)' /\ Sent(tk, s)' /\ (~ g_exit' => PipesLast(tk, s)')
  <2>1. Pushes(tk, sn, s, d, x, h)
    BY <1>2, <1>4, <1>5, <1>8, <1>9 DEF Pushes
  <2>2. d \in Chn /\ x \in Buffer /\ pipe \in Queues
    BY <1>3, <1>4, <1>6
  <2> QED
    BY <1>7, <2>1, <2>2, PipesPushed
<1>11. Decoded(tk)' /\ Recorded(tk)'
  BY <1>2 DEF Gapless, Decoded, Recorded, Solid
<1>12. ASSUME ~ g_exit' PROVE FramesLast(tk)'
  <2>1. FramesLast(tk)
    BY <1>12 DEF Gapless
  <2>2. \A i \in DOMAIN stack' : /\ i \in DOMAIN stack /\ stack'[i].chn = stack[i].chn
                                 /\ stack'[i].buf = stack[i].buf /\ stack'[i].inb = stack[i].inb
    BY <1>2, <1>3, <1>6, AdvancedSame
  <2> QED
    BY <1>2, <2>1, <2>2 DEF FramesLast
<1> QED
  BY <1>10, <1>11, <1>12

-----------------------------------------------------------------------------
(* The driver. *)

(* The driver fills the next buffer, or marks the last one it filled: the   *)
(* k-th of the queue.                                                       *)
Fills(k) ==
    /\ k = done'[Capture] /\ k <= Len(queued[Capture])
    /\ UNCHANGED <<pipe, stack, queued, written, g_exit>>
    /\ \A x \in Buffer : \/ lastf'[x] = lastf[x] /\ pic'[x] = pic[x]
                         \/ k \in DOMAIN queued[Capture] /\ x = queued[Capture][k]
    /\ \/ k = done[Capture] /\ UNCHANGED <<pic, ndec>>
       \/ k = done[Capture] + 1 /\ (ndec' = ndec \/ (ndec' = ndec + 1 /\ pic'[queued[Capture][k]] = ndec'))

LEMMA GaplessFilled ==
    ASSUME PipelineInv, MemInv, NEW tk \in Counters, NEW sn \in Counters, Gapless(tk, sn),
           Capture \in Chn, NEW k \in Nat, Fills(k)
    PROVE  /\ Kept(tk, sn)' /\ Sent(tk, sn)' /\ Decoded(tk)' /\ Recorded(tk)'
           /\ ~ g_exit' => PipesLast(tk, sn)' /\ FramesLast(tk)'
<1>0. /\ k = done'[Capture] /\ k <= Len(queued[Capture])
      /\ UNCHANGED <<pipe, stack, queued, written, g_exit>>
      /\ \A x \in Buffer : \/ lastf'[x] = lastf[x] /\ pic'[x] = pic[x]
                           \/ k \in DOMAIN queued[Capture] /\ x = queued[Capture][k]
  BY DEF Fills
<1>1. /\ CoreTypeOK /\ queued[Capture] \in Seq(Buffer) /\ done[Capture] \in Nat /\ ndec \in Nat
      /\ pipe \in Queues /\ CtlTypeOK
  BY DEF PipelineInv, TypeOK, CoreTypeOK, QTypeOK, DrvTypeOK, Queues
<1>2. \A j \in DOMAIN queued[Capture] :
         /\ queued[Capture][j] \in Buffer /\ ~ InUse(queued[Capture][j])
         /\ \A i \in DOMAIN queued[Capture] : queued[Capture][i] = queued[Capture][j] => i = j
  BY <1>1, QueuedAlone
<1>3. \A x \in Buffer : Moving(x) => lastf'[x] = lastf[x] /\ pic'[x] = pic[x]
  BY <1>0, <1>2 DEF Moving, InUse
<1>4. \A d \in Chn : \A i \in DOMAIN pipe[d] :
         lastf'[pipe[d][i]] = lastf[pipe[d][i]] /\ pic'[pipe[d][i]] = pic[pipe[d][i]]
  <2> SUFFICES ASSUME NEW d \in Chn, NEW i \in DOMAIN pipe[d]
               PROVE  lastf'[pipe[d][i]] = lastf[pipe[d][i]] /\ pic'[pipe[d][i]] = pic[pipe[d][i]]
    OBVIOUS
  <2>1. pipe[d][i] \in Buffer
    BY <1>1 DEF Queues
  <2>2. Moving(pipe[d][i])
    BY DEF Moving
  <2> QED
    BY <1>3, <2>1, <2>2
<1>5. \A i \in DOMAIN stack :
         /\ lastf'[stack[i].buf] = lastf[stack[i].buf] /\ pic'[stack[i].buf] = pic[stack[i].buf]
         /\ stack[i].inb # None => lastf'[stack[i].inb] = lastf[stack[i].inb]
  <2> SUFFICES ASSUME NEW i \in DOMAIN stack
               PROVE  /\ lastf'[stack[i].buf] = lastf[stack[i].buf] /\ pic'[stack[i].buf] = pic[stack[i].buf]
                      /\ stack[i].inb # None => lastf'[stack[i].inb] = lastf[stack[i].inb]
    OBVIOUS
  <2>1. stack[i] \in Frame
    BY <1>1, StackFrames
  <2>2. stack[i].buf \in Buffer /\ (stack[i].inb # None => stack[i].inb \in Buffer)
    BY <2>1 DEF Frame
  <2>3. Moving(stack[i].buf) /\ Moving(stack[i].inb)
    BY DEF Moving
  <2> QED
    BY <1>3, <2>2, <2>3
<1>6. \A d \in Chn : (Awaited(d)' => Awaited(d)) /\ (Awaited(d) => Awaited(d)')
  BY <1>0, <1>5 DEF Awaited, Pending, Unserved
<1>7. Kept(tk, sn)'
  <2> SUFFICES ASSUME NEW d \in Chn, Source[d] # None
               PROVE  \/ Solid(pic', tk[d], pipe'[d], Len(pipe'[d]), sn[d])
                      \/ g_exit' /\ Pictureless(d)' /\ ~ Awaited(d)'
    BY DEF Kept, Whole
  <2>1. CASE Solid(pic, tk[d], pipe[d], Len(pipe[d]), sn[d])
    <3>1. Len(pipe[d]) \in Nat /\ DOMAIN pipe[d] = 1 .. Len(pipe[d])
      BY <1>1 DEF Queues
    <3>2. \A i \in 1 .. Len(pipe[d]) : pic'[pipe'[d][i]] = pic[pipe[d][i]]
      BY <1>0, <1>4, <3>1
    <3> QED
      BY <1>0, <2>1, <3>1, <3>2, SolidSame
  <2>2. CASE g_exit /\ Pictureless(d) /\ ~ Awaited(d)
    <3>1. Pictureless(d)'
      BY <1>0, <1>4, <2>2 DEF Pictureless
    <3> QED
      BY <1>0, <1>6, <2>2, <3>1
  <2> QED
    BY <2>1, <2>2 DEF Gapless, Kept, Whole
<1>8. Sent(tk, sn)'
  BY <1>6 DEF Gapless, Sent
<1>9. Recorded(tk)'
  BY <1>0 DEF Gapless, Recorded
<1>10. Decoded(tk)'
  <2> SUFFICES ASSUME ~ g_exit PROVE Solid(pic', tk[Capture], queued'[Capture], done'[Capture], ndec')
    BY <1>0 DEF Decoded
  <2>1. Solid(pic, tk[Capture], queued[Capture], done[Capture], ndec)
    BY CoreAssumption DEF Gapless, Decoded
  <2>2. CASE k = done[Capture] /\ UNCHANGED <<pic, ndec>>
    BY <1>0, <2>1, <2>2
  <2>3. CASE k = done[Capture] + 1 /\ (ndec' = ndec \/ (ndec' = ndec + 1 /\ pic'[queued[Capture][k]] = ndec'))
    <3>1. PICK P, Q, u : P = pic /\ Q = pic' /\ u = queued[Capture]
      OBVIOUS
    <3>2. PICK a \in Nat, y \in Nat, z \in Nat, n \in Nat :
             a = tk[Capture] /\ y = ndec /\ z = ndec' /\ n = done[Capture]
      <4>1. tk[Capture] \in Nat /\ ndec' \in Nat
        BY <1>1, <2>3 DEF Counters
      <4> QED
        BY <1>1, <4>1
    <3>3. Solid(P, a, u, n, y)
      BY <2>1, <3>1, <3>2
    <3>4. \A i \in 1 .. n : Q[u[i]] = P[u[i]]
      <4>1. k \in DOMAIN u /\ \A i \in 1 .. n : i \in DOMAIN u /\ i # k
        BY <1>0, <1>1, <2>3, <3>1, <3>2
      <4> QED
        BY <1>0, <1>1, <1>2, <3>1, <4>1
    <3>5. z = y \/ (z = y + 1 /\ Q[u[n + 1]] = z)
      BY <2>3, <3>1, <3>2
    <3>6. Solid(Q, a, u, n + 1, z)
      BY <3>3, <3>4, <3>5, SolidAppend, Zenon
    <3> QED
      BY <1>0, <2>3, <3>1, <3>2, <3>6
  <2> QED
    BY <2>2, <2>3 DEF Fills
<1>11. ASSUME ~ g_exit' PROVE PipesLast(tk, sn)' /\ FramesLast(tk)'
  <2>1. PipesLast(tk, sn) /\ FramesLast(tk)
    BY <1>0, <1>11 DEF Gapless
  <2>2. PipesLast(tk, sn)'
    BY <1>0, <1>4, <2>1 DEF PipesLast
  <2>3. FramesLast(tk)'
    BY <1>0, <1>5, <2>1 DEF FramesLast
  <2> QED
    BY <2>2, <2>3
<1> QED
  BY <1>7, <1>8, <1>9, <1>10, <1>11

(* Nothing is lost in the steps of the driver. *)
LEMMA GaplessDriver ==
    ASSUME PipelineInv, MemInv, NEW tk \in Counters, NEW sn \in Counters, Gapless(tk, sn),
           DriverDecode \/ DriverEos
    PROVE  /\ Kept(tk, sn)' /\ Sent(tk, sn)' /\ Decoded(tk)' /\ Recorded(tk)'
           /\ ~ g_exit' => PipesLast(tk, sn)' /\ FramesLast(tk)'
<1> DEFINE Goal == /\ Kept(tk, sn)' /\ Sent(tk, sn)' /\ Decoded(tk)' /\ Recorded(tk)'
                   /\ ~ g_exit' => PipesLast(tk, sn)' /\ FramesLast(tk)'
<1>1. Output # None /\ UNCHANGED <<pipe, stack, queued, written, g_exit>>
  BY Zenon DEF DriverDecode, DriverEos, ctlVars, appVars
<1>2. /\ Capture \in Chn /\ queued[Capture] \in Seq(Buffer) /\ done \in [Chn -> Nat]
      /\ done[Capture] \in Nat /\ done[Capture] <= Len(queued[Capture]) /\ ndec \in Nat
      /\ pic \in [Buffer -> Nat] /\ lastf \in [Buffer -> BOOLEAN]
  BY <1>1, PipelineAssumption DEF PipelineInv, TypeOK, CoreTypeOK, QTypeOK, BufTypeOK, DrvTypeOK, DoneInv
<1>3. ASSUME NEW p \in Nat, NEW l \in BOOLEAN, Free, Fill(p, l),
             ndec' = ndec \/ (ndec' = ndec + 1 /\ p = ndec')
      PROVE  Goal
  <2>1. PICK k \in Nat : k = done[Capture] + 1
    BY <1>2
  <2>2. k \in DOMAIN queued[Capture] /\ k <= Len(queued[Capture]) /\ queued[Capture][k] \in Buffer
    BY <1>2, <1>3, <2>1 DEF Free
  <2>3. /\ pic' = [pic EXCEPT ![queued[Capture][k]] = p] /\ lastf' = [lastf EXCEPT ![queued[Capture][k]] = l]
        /\ done' = [done EXCEPT ![Capture] = @ + 1]
    BY <1>3, <2>1 DEF Fill
  <2>4. k = done'[Capture]
    BY <1>2, <2>1, <2>3
  <2>5. pic'[queued[Capture][k]] = p
    BY <1>2, <2>2, <2>3
  <2>6. \A x \in Buffer : \/ lastf'[x] = lastf[x] /\ pic'[x] = pic[x]
                          \/ k \in DOMAIN queued[Capture] /\ x = queued[Capture][k]
    BY <1>2, <2>2, <2>3
  <2>7. \/ k = done[Capture] /\ UNCHANGED <<pic, ndec>>
        \/ k = done[Capture] + 1 /\ (ndec' = ndec \/ (ndec' = ndec + 1 /\ pic'[queued[Capture][k]] = ndec'))
    BY <1>3, <2>1, <2>5
  <2>8. k <= Len(queued[Capture]) /\ Capture \in Chn
    BY <1>2, <2>2
  <2> QED
    <3>1. Fills(k)
      BY <1>1, <2>4, <2>6, <2>7, <2>8 DEF Fills
    <3> QED
      BY <2>8, <3>1, GaplessFilled
<1> SUFFICES Goal
  OBVIOUS
<1> HIDE DEF Goal
<1>4. CASE DriverDecode
  <2>1. PICK p \in Nat : p = IF Head(script) = "frame" THEN ndec + 1 ELSE 0
    BY <1>2
  <2>2. Free /\ Fill(p, FALSE) /\ (ndec' = ndec \/ (ndec' = ndec + 1 /\ p = ndec'))
    BY <1>4, <2>1, Zenon DEF DriverDecode
  <2> QED
    BY <1>3, <2>2, Zenon
<1>5. CASE DriverEos
  <2>1. ndec' = ndec
    BY <1>5 DEF DriverEos
  <2>2. CASE Free /\ Fill(0, TRUE)
    BY <1>3, <2>1, <2>2, Zenon
  <2>3. PICK k \in Nat : k = done[Capture]
    BY <1>2
  <2>4. ASSUME pic' = pic, done' = done,
               \A x \in Buffer : \/ lastf'[x] = lastf[x] /\ pic'[x] = pic[x]
                                 \/ k \in DOMAIN queued[Capture] /\ x = queued[Capture][k]
        PROVE  Goal
    <3>1. k = done'[Capture]
      BY <2>3, <2>4
    <3>2. k <= Len(queued[Capture]) /\ Capture \in Chn
      BY <1>2, <2>3
    <3>3. \/ k = done[Capture] /\ UNCHANGED <<pic, ndec>>
          \/ k = done[Capture] + 1 /\ (ndec' = ndec \/ (ndec' = ndec + 1 /\ pic'[queued[Capture][k]] = ndec'))
      BY <2>1, <2>3, <2>4
    <3> QED
      <4>1. Fills(k)
        BY <1>1, <2>4, <3>1, <3>2, <3>3 DEF Fills
      <4> QED
        BY <3>2, <4>1, GaplessFilled DEF Goal
  <2>5. CASE UNCHANGED <<pic, lastf, done>>
    BY <2>4, <2>5
  <2>6. CASE /\ done[Capture] > 0 /\ UNCHANGED <<pic, done>>
             /\ lastf' = [lastf EXCEPT ![queued[Capture][done[Capture]]] = TRUE]
    <3>1. k \in DOMAIN queued[Capture]
      BY <1>2, <2>3, <2>6
    <3>2. \A x \in Buffer : \/ lastf'[x] = lastf[x] /\ pic'[x] = pic[x]
                            \/ k \in DOMAIN queued[Capture] /\ x = queued[Capture][k]
      BY <1>2, <2>3, <2>6, <3>1, Zenon
    <3> QED
      BY <2>4, <2>6, <3>2, Zenon
  <2> QED
    BY <1>5, <2>2, <2>5, <2>6, Zenon DEF DriverEos
<1> QED
  BY <1>4, <1>5

-----------------------------------------------------------------------------
(* A channel that ends has taken everything. *)

(* A source that gives no more pictures stays so. *)
LEMMA LastStays ==
    ASSUME PipelineInv, PipelineInv', MemInv, [Next]_vars, NEW r \in Chn, LastOf(r)
    PROVE  LastOf(r)'
<1>1. /\ drained => drained'
      /\ nread[r] = FrameNum => nread'[r] = FrameNum
  BY Lasting
<1>2. CASE Kind[r] = "ifile" /\ nread[r] = FrameNum
  BY <1>1, <1>2 DEF LastOf
<1>3. CASE r = Capture /\ drained /\ done[r] = 0
  <2>1. done \in [Chn -> Nat] /\ Capture # None
    BY <1>3, CoreAssumption DEF PipelineInv, TypeOK, CoreTypeOK, QTypeOK
  <2>2. done'[r] = 0
    <3>1. CASE ChnSame(r) \/ StartsChn(r)
      BY <1>3, <3>1 DEF ChnSame, StartsChn
    <3>2. CASE StopsUnit(r)
      BY <2>1, <3>2 DEF StopsUnit, unit_stop, stop_v4l2
    <3>3. CASE stop_done \/ push_return
      BY <1>3, <3>3 DEF stop_done, push_return, qVars
    <3>4. CASE RunsUnit(r)
      <4>1. ~ (done[r] > 0)
        BY <1>3
      <4>2. CASE run_v4l2(r)
        <5>1. UNCHANGED done
          BY <4>1, <4>2, Zenon DEF run_v4l2
        <5> QED
          BY <1>3, <5>1
      <4>3. CASE ~ run_v4l2(r)
        BY <1>3, <3>4, <4>3
          , Zenon DEF RunsUnit, process_chn_active, ifile_run, convert_run, ofile_run,
               check_ctrl_ready, check_v4l2_ready, qVars
      <4> QED
        BY <4>2, <4>3
    <3>5. CASE \E o \in Chn : is_decoder_output_finish(o)
      BY <1>3, <3>5 DEF is_decoder_output_finish
    <3>6. CASE DriverDecode \/ DriverEos
      BY <1>3, <3>6 DEF DriverDecode, DriverEos, Streaming
    <3> QED
      BY <3>1, <3>2, <3>3, <3>4, <3>5, <3>6, ChnEffect
  <2> QED
    BY <1>1, <1>3, <2>2 DEF LastOf
<1> QED
  BY <1>2, <1>3 DEF LastOf

(* A channel becomes active only when it was stopped. *)
LEMMA Activated ==
    ASSUME PipelineInv, QuietInv, [Next]_vars, NEW c \in Chn, state[c] # "ACTIVE", state'[c] = "ACTIVE"
    PROVE  state[c] = "STOPPED"
<1>1. state \in [Chn -> State]
  BY DEF PipelineInv, TypeOK, CoreTypeOK, ChnTypeOK
<1>2. CASE ChnSame(c) \/ StartsChn(c)
  BY <1>2, StartedStopped DEF ChnSame
<1>3. CASE StopsUnit(c) \/ push_return
  BY <1>3, Zenon DEF StopsUnit, unit_stop, push_return
<1>4. CASE stop_done /\ closing = c
  BY <1>1, <1>4 DEF stop_done
<1>5. CASE RunsUnit(c)
  BY <1>1, <1>5
    , Zenon DEF RunsUnit, process_chn_active, ifile_run, convert_run, ofile_run, run_v4l2,
         check_ctrl_ready, check_v4l2_ready, Active
<1>6. CASE \E o \in Chn : is_decoder_output_finish(o) /\ c = Capture
  BY <1>6 DEF is_decoder_output_finish, handle_decoder_resolution_change
<1>7. CASE DriverDecode \/ DriverEos
  BY <1>7, Zenon DEF DriverDecode, DriverEos, chnVars
<1> QED
  BY <1>2, <1>3, <1>4, <1>5, <1>6, <1>7, ChnEffect

(* The counters only grow, not for a source that gives no more pictures and *)
(* not below a channel that is not active.                                  *)
Moves(tk, sn, t, s) ==
    /\ \A c \in Chn : tk[c] <= t[c] /\ sn[c] <= s[c]
    /\ \A r \in Chn : LastOf(r) => LastOf(r)' /\ t[r] = tk[r]
    /\ \A e \in Chn : Source[e] # None /\ state[Source[e]] # "ACTIVE" => s[e] = sn[e]
    /\ Chained(t, s)

(* Who has taken the last picture of its source takes no other. *)
LEMMA LastTaken ==
    ASSUME NEW tk \in Counters, NEW sn \in Counters, NEW t \in Counters, NEW s \in Counters,
           Moves(tk, sn, t, s), NEW r \in Chn, NEW d \in Below(r), LastOf(r),
           tk[d] = tk[r] \/ (sn[d] = tk[r] /\ t[d] = s[d])
    PROVE  t[d] = s[d] /\ LastOf(r)' /\ t[d] = t[r]
<1>1. /\ d \in Chn /\ t[d] <= s[d] /\ s[d] <= t[r]
  BY BelowTaken DEF Moves
<1>2. LastOf(r)' /\ t[r] = tk[r] /\ tk[d] <= t[d] /\ sn[d] <= s[d]
  BY <1>1 DEF Moves
<1>3. tk[d] \in Nat /\ sn[d] \in Nat /\ t[d] \in Nat /\ s[d] \in Nat /\ tk[r] \in Nat /\ t[r] \in Nat
  BY <1>1 DEF Counters
<1> QED
  BY <1>1, <1>2, <1>3

(* A channel that was ending *)
LEMMA EndingStays ==
    ASSUME PipelineInv, QuietInv, [Next]_vars, ~ g_exit, NEW tk \in Counters, NEW sn \in Counters,
           EndedKept(tk, sn), NEW t \in Counters, NEW s \in Counters, Moves(tk, sn, t, s),
           NEW d \in Chn, Source[d] # None, state[d] # "STOPPED", Ending(d)
    PROVE  /\ t[d] = s[d]
           /\ \/ state'[Source[d]] # "ACTIVE"
              \/ \E r \in Chn : d \in Below(r) /\ LastOf(r)' /\ t[d] = t[r]
<1>1. /\ tk[d] = sn[d]
      /\ \/ state[Source[d]] # "ACTIVE"
         \/ \E r \in Chn : d \in Below(r) /\ LastOf(r) /\ tk[d] = tk[r]
  BY DEF EndedKept
<1>2. CASE \E r \in Chn : d \in Below(r) /\ LastOf(r) /\ tk[d] = tk[r]
  <2>1. PICK r \in Chn : d \in Below(r) /\ LastOf(r) /\ tk[d] = tk[r]
    BY <1>2
  <2>2. t[d] = s[d] /\ LastOf(r)' /\ t[d] = t[r]
    BY <2>1, LastTaken
  <2> QED
    BY <2>1, <2>2
<1>3. CASE state[Source[d]] # "ACTIVE"
  <2>1. s[d] = sn[d] /\ tk[d] <= t[d] /\ t[d] <= s[d]
    BY <1>3 DEF Moves, Chained
  <2>2. tk[d] \in Nat /\ sn[d] \in Nat /\ t[d] \in Nat /\ s[d] \in Nat
    BY DEF Counters
  <2>3. t[d] = s[d]
    BY <1>1, <2>1, <2>2
  <2>4. Source[d] \in Chn
    BY CoreAssumption
  <2>5. phase = "run"
    <3>1. phase \in Phases
      BY DEF PipelineInv, TypeOK, MainTypeOK
    <3> QED
      BY <3>1 DEF QuietInv, Ending, Phases
  <2>6. state[Source[d]] # "STOPPED"
    BY <2>4, <2>5 DEF PipelineInv, StopOrder
  <2>7. state'[Source[d]] # "ACTIVE"
    BY <1>3, <2>4, <2>6, Activated
  <2> QED
    BY <2>3, <2>7
<1> QED
  BY <1>1, <1>2, <1>3

(* Nothing is left when the pipe is empty or holds no picture. *)
LEMMA PipeTaken ==
    ASSUME PipelineInv', NEW t \in Counters, NEW s \in Counters, Chained(t, s), Kept(t, s)', ~ g_exit',
           NEW d \in Chn, Source[d] # None, \A i \in DOMAIN pipe'[d] : pic'[pipe'[d][i]] = 0
    PROVE  t[d] = s[d]
<1>1. Solid(pic', t[d], pipe'[d], Len(pipe'[d]), s[d])
  BY DEF Kept, Whole
<1>2. pipe'[d] \in Seq(Buffer)
  BY DEF PipelineInv, TypeOK, CoreTypeOK, QTypeOK
<1>3. PICK n \in Nat : n = Len(pipe'[d]) /\ DOMAIN pipe'[d] = 1 .. n
  BY <1>2
<1>4. t[d] <= s[d] /\ t[d] \in Nat /\ s[d] \in Nat
  BY DEF Chained, Counters
<1>5. \A i \in 1 .. n : pic'[pipe'[d][i]] = 0
  BY <1>3
<1>6. Solid(pic', t[d], pipe'[d], n, s[d])
  BY <1>1, <1>3
<1> QED
  BY <1>4, <1>5, <1>6, SolidNone

(* A channel takes a buffer with the LAST flag from its pipe. *)
LEMMA LastDrawn ==
    ASSUME PipelineInv, PipelineInv', MemInv, MarkInv, ~ g_exit',
           NEW tk \in Counters, NEW sn \in Counters, PipesLast(tk, sn),
           NEW t \in Counters, NEW s \in Counters, Moves(tk, sn, t, s), Kept(t, s)',
           NEW d \in Chn, Took(pipe, pipe', d), lastf[Head(pipe[d])], UNCHANGED pic
    PROVE  /\ t[d] = s[d]
           /\ \E r \in Chn : d \in Below(r) /\ LastOf(r)' /\ t[d] = t[r]
<1>1. CoreTypeOK /\ pipe \in Queues
  BY DEF PipelineInv, TypeOK, CoreTypeOK, QTypeOK, Queues
<1>2. /\ Head(pipe[d]) \in Buffer /\ 1 \in DOMAIN pipe[d] /\ Head(pipe[d]) = pipe[d][1]
      /\ \A i \in DOMAIN pipe'[d] : i + 1 \in DOMAIN pipe[d] /\ pipe'[d][i] = pipe[d][i + 1]
  BY <1>1, TakeHead
<1>3. PICK b \in Buffer : b = pipe[d][1] /\ lastf[b]
  BY <1>2
<1>4. PICK r \in Chn : r = Owner(b)
  BY OwnerOf
<1>5. d \in Below(r)
  BY <1>2, <1>3, <1>4 DEF MemInv, PlaceInv, PipeBelow
<1>6. /\ sn[d] = tk[r]
      /\ \A j \in DOMAIN pipe[d] : j > 1 => pic[pipe[d][j]] = 0
  BY <1>2, <1>3, <1>4 DEF PipesLast
<1>7. LastOf(r)
  <2>1. Moving(b)
    BY <1>2, <1>3 DEF Moving
  <2>2. refcnt[b] > 0
    BY <1>1, <2>1, MovingHeld
  <2> QED
    BY <1>3, <1>4, <2>2 DEF MarkInv, Marked
<1>8. \A i \in DOMAIN pipe'[d] : pic'[pipe'[d][i]] = 0
  <2> SUFFICES ASSUME NEW i \in DOMAIN pipe'[d] PROVE pic[pipe'[d][i]] = 0
    OBVIOUS
  <2>1. pipe'[d] \in Seq(Buffer)
    BY DEF PipelineInv, TypeOK, CoreTypeOK, QTypeOK
  <2>2. i \in Nat /\ i > 0
    BY <2>1
  <2>3. i + 1 > 1 /\ i + 1 \in DOMAIN pipe[d] /\ pipe'[d][i] = pipe[d][i + 1]
    BY <1>2, <2>2
  <2> QED
    BY <1>6, <2>3
<1>9. Source[d] # None
  BY <1>1, <1>2, PipeSource, CoreAssumption DEF Took
<1>10. t[d] = s[d]
  BY <1>8, <1>9, PipeTaken DEF Moves
<1>11. t[d] = s[d] /\ LastOf(r)' /\ t[d] = t[r]
  BY <1>5, <1>6, <1>7, <1>10, LastTaken
<1> QED
  BY <1>5, <1>11

(* A channel comes to its end: its source does not run any more and its     *)
(* pipe is empty, or what it takes from its pipe carries the LAST flag      *)
(* (mxc_v4l2_vpu_enc.c 295-313, 2130, 2672).                                *)
EndReached(d) ==
    /\ Kind[d] \in {"convert", "g2d", "ofile"}
    /\ \/ /\ pipe[d] = <<>> /\ pipe' = pipe /\ state[Source[d]] # "ACTIVE"
          /\ \A c \in Chn : c # d => state'[c] = state[c]
       \/ Took(pipe, pipe', d) /\ UNCHANGED pic /\ lastf[Head(pipe[d])]
       \/ stack # <<>> /\ top.chn = d /\ lastf[top.inb]

LEMMA EndReachedBy ==
    ASSUME PipelineInv, QuietInv, MarkInv, [Next]_vars, ~ g_exit, NEW d \in Chn, Source[d] # None,
           ~ (Ending(d) /\ state[d] # "STOPPED"), Ending(d)', state'[d] # "STOPPED"
    PROVE  EndReached(d)
<1>1. /\ Kind[d] \in {"convert", "g2d", "ofile"} /\ d # Capture
      /\ state \in [Chn -> State] /\ end \in [Chn -> BOOLEAN]
  BY WiringAssumption DEF PipelineInv, TypeOK, CoreTypeOK, ChnTypeOK
<1>2. ~ ChnSame(d)
  BY DEF ChnSame, Ending
<1>3. ASSUME StartsChn(d) PROVE FALSE
  <2>1. state'[d] = "ACTIVE" /\ end'[d] = (end[d] /\ ~ StartClearsEnd(d))
    BY <1>2, <1>3, StartedChn
  <2>2. StartClearsEnd(d)
    BY <1>1 DEF StartClearsEnd
  <2> QED
    BY <2>1, <2>2, Zenon DEF Ending
<1>4. ASSUME StopsUnit(d) PROVE FALSE
  <2>1. state' = state /\ (end'[d] => end[d])
    BY <1>1, <1>4 DEF StopsUnit, unit_stop, stop_v4l2
  <2> QED
    BY <2>1 DEF Ending
<1>5. ASSUME stop_done, closing = d PROVE FALSE
  BY <1>1, <1>5 DEF stop_done
<1>6. CASE push_return /\ top.chn = d
  <2>1. /\ stack # <<>> /\ state' = state
        /\ end'[d] => end[d] \/ (Kind[d] = "capture" /\ lastf[top.buf]) \/ (Kind[d] = "g2d" /\ lastf[top.inb])
    BY <1>1, <1>6 DEF push_return, Running
  <2>2. lastf[top.inb]
    BY <1>1, <2>1 DEF Ending
  <2> QED
    BY <1>1, <1>6, <2>1, <2>2 DEF EndReached
<1>7. ASSUME state[d] = "ACTIVE", EndNow(d) PROVE is_source_end(d)
  BY <1>7 DEF EndNow, Ending
<1>8. CASE process_chn_active(d)
  <2>1. /\ state[d] = "ACTIVE" /\ end' = [end EXCEPT ![d] = EndNow(d)]
        /\ state' = [state EXCEPT ![d] = IF EndNow(d) THEN "STOPPING" ELSE @] /\ pipe' = pipe
    BY <1>8 DEF process_chn_active, Active, qVars
  <2>2. EndNow(d)
    BY <1>1, <2>1 DEF Ending
  <2>3. pipe[d] = <<>> /\ state[Source[d]] # "ACTIVE"
    BY <1>7, <2>1, <2>2 DEF is_source_end
  <2>4. \A c \in Chn : c # d => state'[c] = state[c]
    BY <1>1, <2>1
  <2> QED
    BY <1>1, <2>1, <2>3, <2>4 DEF EndReached
<1>9. CASE ofile_run(d) /\ pipe[d] = <<>>
  <2>1. /\ state[d] = "ACTIVE" /\ end' = [end EXCEPT ![d] = EndNow(d)]
        /\ state' = [state EXCEPT ![d] = IF EndNow(d) THEN "STOPPING" ELSE @] /\ pipe' = pipe
    BY <1>9 DEF ofile_run, Active
  <2>2. EndNow(d)
    BY <1>1, <2>1 DEF Ending
  <2>3. pipe[d] = <<>> /\ state[Source[d]] # "ACTIVE"
    BY <1>7, <2>1, <2>2 DEF is_source_end
  <2>4. \A c \in Chn : c # d => state'[c] = state[c]
    BY <1>1, <2>1
  <2> QED
    BY <1>1, <2>1, <2>3, <2>4 DEF EndReached
<1>10. CASE ofile_run(d) /\ pipe[d] # <<>>
  <2>1. /\ state[d] = "ACTIVE" /\ end' = [end EXCEPT ![d] = EndNow(d) \/ lastf[Head(pipe[d])]]
        /\ state' = [state EXCEPT ![d] = IF EndNow(d) THEN "STOPPING" ELSE @]
        /\ pipe' = [pipe EXCEPT ![d] = Tail(@)] /\ UNCHANGED pic
    BY <1>10 DEF ofile_run, Active, bufVars
  <2>2. ~ EndNow(d)
    BY <1>7, <1>10, <2>1 DEF is_source_end
  <2>3. state'[d] = "ACTIVE" /\ end'[d] = lastf[Head(pipe[d])]
    <3>1. lastf[Head(pipe[d])] \in BOOLEAN
      <4>1. pipe[d] \in Seq(Buffer) /\ lastf \in [Buffer -> BOOLEAN]
        BY DEF PipelineInv, TypeOK, CoreTypeOK, QTypeOK, BufTypeOK
      <4>2. Head(pipe[d]) \in Buffer
        BY <1>10, <4>1
      <4> QED
        BY <4>1, <4>2
    <3> QED
      BY <1>1, <2>1, <2>2, <3>1
  <2>4. lastf[Head(pipe[d])]
    BY <2>3 DEF Ending
  <2> QED
    BY <1>1, <1>10, <2>1, <2>4 DEF EndReached, Took
<1>11. CASE convert_run(d)
  <2>1. PICK in : in = Head(pipe[d])
    OBVIOUS
  <2>2. /\ Ready(d) /\ Kind[d] \in {"convert", "g2d"} /\ state' = state
        /\ pipe' = [pipe EXCEPT ![d] = Tail(@)]
        /\ pic[in] = 0 => UNCHANGED pic
        /\ pic[in] # 0 => UNCHANGED end
    BY <1>11, <2>1 DEF convert_run, Active
  <2>3. pic[in] = 0 /\ UNCHANGED pic
    BY <2>2 DEF Ending
  <2>4. pipe[d] # <<>> /\ pipe[d] \in Seq(Buffer)
    BY <2>2, Zenon DEF Ready, convert_checkready, PipelineInv, TypeOK, CoreTypeOK, QTypeOK
  <2>5. 1 \in DOMAIN pipe[d] /\ in = pipe[d][1]
    BY <2>1, <2>4, NumHead
  <2>6. lastf[in]
    BY <2>3, <2>5 DEF MarkInv, EmptyMarked
  <2> QED
    BY <1>1, <2>1, <2>2, <2>3, <2>4, <2>6 DEF EndReached, Took
<1>12. ~ (ifile_run(d) \/ run_v4l2(d) \/ check_ctrl_ready(d) \/ check_v4l2_ready(d))
  BY <1>1, Zenon DEF ifile_run, run_v4l2, check_ctrl_ready, check_v4l2_ready, Active
<1> QED
  BY <1>1, <1>2, <1>3, <1>4, <1>5, <1>6, <1>8, <1>9, <1>10, <1>11, <1>12, ChnEffect DEF RunsUnit

(* What it has taken then *)
LEMMA EndedThen ==
    ASSUME PipelineInv, PipelineInv', MemInv, MarkInv, ~ g_exit',
           NEW tk \in Counters, NEW sn \in Counters, PipesLast(tk, sn), FramesLast(tk),
           NEW t \in Counters, NEW s \in Counters, Moves(tk, sn, t, s), Kept(t, s)',
           NEW d \in Chn, Source[d] # None, EndReached(d)
    PROVE  /\ t[d] = s[d]
           /\ \/ state'[Source[d]] # "ACTIVE"
              \/ \E r \in Chn : d \in Below(r) /\ LastOf(r)' /\ t[d] = t[r]
<1>1. CASE /\ pipe[d] = <<>> /\ pipe' = pipe /\ state[Source[d]] # "ACTIVE"
           /\ \A c \in Chn : c # d => state'[c] = state[c]
  <2>1. \A i \in DOMAIN pipe'[d] : pic'[pipe'[d][i]] = 0
    BY <1>1
  <2>2. t[d] = s[d]
    BY <2>1, PipeTaken DEF Moves
  <2>3. Source[d] \in Chn /\ Source[d] # d
    <3>1. PICK i \in DOMAIN Order : Order[i] = d
      BY TopologyAssumption
    <3>2. i \in Nat
      BY CoreAssumption
    <3> QED
      BY <3>1, <3>2, CoreAssumption, TopologyAssumption
  <2> QED
    BY <1>1, <2>2, <2>3
<1>2. CASE Took(pipe, pipe', d) /\ UNCHANGED pic /\ lastf[Head(pipe[d])]
  BY <1>2, LastDrawn
<1>3. CASE stack # <<>> /\ top.chn = d /\ lastf[top.inb]
  <2>1. CtlTypeOK /\ CoreTypeOK
    BY DEF PipelineInv, TypeOK, CoreTypeOK
  <2>2. Len(stack) \in DOMAIN stack /\ top = stack[Len(stack)] /\ top \in Frame
    BY <1>3, <2>1, AdvancedTop
  <2>3. top.inb # None /\ tk[d] = tk[Owner(top.inb)]
    BY <1>3, <2>2 DEF FramesLast
  <2>4. PICK b \in Buffer : b = top.inb /\ lastf[b]
    BY <1>3, <2>2, <2>3 DEF Frame
  <2>5. PICK r \in Chn : r = Owner(b)
    BY OwnerOf
  <2>6. d \in Below(r)
    BY <1>3, <2>2, <2>3, <2>4, <2>5 DEF MemInv, PlaceInv, FramesHold, Holding
  <2>7. LastOf(r)
    <3>1. Moving(b)
      BY <2>2, <2>4 DEF Moving
    <3>2. refcnt[b] > 0
      BY <2>1, <3>1, MovingHeld
    <3> QED
      BY <2>4, <2>5, <3>2 DEF MarkInv, Marked
  <2>8. tk[d] = tk[r]
    BY <2>3, <2>4, <2>5
  <2>9. t[d] = s[d] /\ LastOf(r)' /\ t[d] = t[r]
    BY <2>6, <2>7, <2>8, LastTaken
  <2> QED
    BY <2>6, <2>9
<1> QED
  BY <1>1, <1>2, <1>3 DEF EndReached

(* Every step keeps what is known of the channels that end. *)
LEMMA EndedStep ==
    ASSUME PipelineInv, PipelineInv', MemInv, QuietInv, MarkInv, [Next]_vars, ~ g_exit',
           NEW tk \in Counters, NEW sn \in Counters, Gapless(tk, sn),
           NEW t \in Counters, NEW s \in Counters, Moves(tk, sn, t, s), Kept(t, s)'
    PROVE  EndedKept(t, s)'
<1>1. ~ g_exit
  BY ExitStays
<1>2. PipesLast(tk, sn) /\ FramesLast(tk) /\ EndedKept(tk, sn)
  BY <1>1 DEF Gapless
<1> SUFFICES ASSUME NEW d \in Chn, Source[d] # None, state'[d] # "STOPPED", Ending(d)'
             PROVE  /\ t[d] = s[d]
                    /\ \/ state'[Source[d]] # "ACTIVE"
                       \/ \E r \in Chn : d \in Below(r) /\ LastOf(r)' /\ t[d] = t[r]
  BY DEF EndedKept, Below, SinksIn
<1>3. CASE Ending(d) /\ state[d] # "STOPPED"
  BY <1>1, <1>2, <1>3, EndingStays
<1>4. CASE ~ (Ending(d) /\ state[d] # "STOPPED")
  <2>1. EndReached(d)
    BY <1>1, <1>4, EndReachedBy
  <2> QED
    BY <1>2, <2>1, EndedThen
<1> QED
  BY <1>3, <1>4

-----------------------------------------------------------------------------
(* Every picture arrives. *)

GaplessInv == \E tk, sn \in Counters : Ordered(tk, sn) /\ Gapless(tk, sn)

(* Nothing has been read, sent or written in the initial state. *)
LEMMA GaplessStart ==
    ASSUME Init
    PROVE  GaplessInv
<1>1. PICK z \in Counters : (\A c \in Chn : z[c] = 0) /\ Ordered(z, z)
  BY OrderedStart
<1>2. /\ \A c \in Chn : pipe[c] = <<>> /\ done[c] = 0 /\ written[c] = <<>> /\ state[c] = "STOPPED"
      /\ stack = <<>> /\ ndec = 0
  BY DEF Init, CoreInit
<1>3. \A s : Solid(pic, 0, s, 0, 0)
  BY SolidEmpty
<1>4. Kept(z, z) /\ Decoded(z)
  BY <1>1, <1>2, <1>3, PipelineAssumption DEF Kept, Whole, Decoded
<1>5. Sent(z, z)
  <2>1. \A d \in Chn : ~ Awaited(d)
    BY <1>2 DEF Awaited
  <2> QED
    BY <1>1, <2>1, CoreAssumption DEF Sent
<1>6. Recorded(z)
  BY <1>1, <1>2 DEF Recorded
<1>7. PipesLast(z, z) /\ FramesLast(z) /\ EndedKept(z, z)
  BY <1>2 DEF PipesLast, FramesLast, EndedKept
<1> QED
  BY <1>1, <1>4, <1>5, <1>6, <1>7 DEF GaplessInv, Gapless

(* The counters after a step: they grow, but not behind the last picture,   *)
(* and a stopped channel sends nothing.                                     *)
Grows(tk, sn, t, s) ==
    /\ \A c \in Chn : tk[c] <= t[c] /\ sn[c] <= s[c]
    /\ \A r \in Chn : LastOf(r) => t[r] = tk[r]
    /\ \A e \in Chn : Source[e] # None /\ state[Source[e]] # "ACTIVE" => s[e] = sn[e]

LEMMA GaplessMoves ==
    ASSUME PipelineInv, PipelineInv', MemInv, QuietInv, MarkInv, [Next]_vars,
           NEW tk \in Counters, NEW sn \in Counters, Gapless(tk, sn),
           NEW t \in Counters, NEW s \in Counters, Ordered(t, s)',
           Kept(t, s)' /\ Sent(t, s)' /\ Decoded(t)' /\ Recorded(t)',
           ~ g_exit' => PipesLast(t, s)' /\ FramesLast(t)', Grows(tk, sn, t, s)
    PROVE  GaplessInv'
<1>1. Chained(t, s)
  BY DEF Ordered, PipesRise, SentTaken, Rising, Chained
<1>2. \A r \in Chn : LastOf(r) => LastOf(r)'
  BY LastStays
<1>3. Moves(tk, sn, t, s)
  BY <1>1, <1>2 DEF Moves, Grows
<1>4. ASSUME ~ g_exit' PROVE EndedKept(t, s)'
  BY <1>3, <1>4, EndedStep
<1>5. Gapless(t, s)'
  BY <1>4 DEF Gapless
<1>6. \E u, v \in Counters : Ordered(u, v)' /\ Gapless(u, v)'
  BY <1>5
<1> QED
  BY <1>6 DEF GaplessInv, Counters

(* Nothing is taken or sent. *)
LEMMA GaplessStill ==
    ASSUME PipelineInv, PipelineInv', MemInv, QuietInv, MarkInv, [Next]_vars,
           NEW tk \in Counters, NEW sn \in Counters, Gapless(tk, sn), Ordered(tk, sn)',
           Kept(tk, sn)' /\ Sent(tk, sn)' /\ Decoded(tk)' /\ Recorded(tk)',
           ~ g_exit' => PipesLast(tk, sn)' /\ FramesLast(tk)'
    PROVE  GaplessInv'
<1>1. Grows(tk, sn, tk, sn)
  BY DEF Grows, Counters
<1> QED
  BY <1>1, GaplessMoves

(* A picture is taken. *)
LEMMA GaplessTaken ==
    ASSUME PipelineInv, PipelineInv', MemInv, QuietInv, MarkInv, [Next]_vars,
           NEW tk \in Counters, NEW sn \in Counters, Ordered(tk, sn), Gapless(tk, sn),
           NEW c \in Chn, NEW p \in Nat, Draws(tk, sn, c, p),
           NEW t \in Counters, t = [tk EXCEPT ![c] = p], BegunLast(c, t)
    PROVE  GaplessInv'
<1>1. Ordered(t, sn)'
  <2>1. Takes(tk, sn, c, p)
    BY DEF Draws
  <2>2. Ordered([tk EXCEPT ![c] = p], sn)'
    BY <2>1, OrderedTakes, Zenon
  <2> QED
    BY <2>2
<1>2. Kept(t, sn)' /\ Sent(t, sn)' /\ Decoded(t)' /\ Recorded(t)'
  BY GaplessDraws, Zenon
<1>3. ~ g_exit' => PipesLast(t, sn)' /\ FramesLast(t)'
  BY GaplessDraws, Zenon
<1>4. t[c] = p /\ (\A e \in Chn : e # c => t[e] = tk[e]) /\ \A e \in Chn : tk[e] \in Nat /\ sn[e] \in Nat
  BY DEF Counters
<1>5. (p = tk[c] \/ p = tk[c] + 1) /\ ~ LastOf(c)
  BY DEF Draws
<1>6. Grows(tk, sn, t, sn)
  BY <1>4, <1>5 DEF Grows
<1> QED
  BY <1>1, <1>2, <1>6, <1>3, GaplessMoves, Zenon

(* A picture is sent. *)
LEMMA GaplessSent ==
    ASSUME PipelineInv, PipelineInv', MemInv, QuietInv, MarkInv, [Next]_vars,
           NEW tk \in Counters, NEW sn \in Counters, Ordered(tk, sn), Gapless(tk, sn), pipe_push_back
    PROVE  GaplessInv'
<1>1. UNCHANGED <<nread, written, ndec, g_exit>>
  BY PushAlone DEF CoreStep, appVars, drvVars
<1>2. PICK d : ServedNext(d)
  BY DEF ServedNext
<1>3. PICK s \in Counters : SendsTo(d, sn, s) /\ Ordered(tk, s)'
  <2>1. LET e == Outs[top.chn][top.pos - Len(Outs[top.chn])]
        IN  \E s \in Counters : s = [sn EXCEPT ![e] = Picture(sn[e], top.buf)] /\ Ordered(tk, s)'
    BY <1>1, OrderedPush
  <2> QED
    BY <1>2, <2>1, Zenon DEF ServedNext, SendsTo
<1>4. /\ Kept(tk, s)' /\ Sent(tk, s)' /\ Decoded(tk)' /\ Recorded(tk)'
      /\ ~ g_exit' => PipesLast(tk, s)' /\ FramesLast(tk)'
  BY <1>1, <1>2, <1>3, GaplessPush
<1>5. /\ \A e \in Chn : e # d => s[e] = sn[e]
      /\ s[d] = sn[d] \/ s[d] = sn[d] + 1
      /\ d \in Chn /\ Source[d] = top.chn
  BY <1>2, <1>3, PushNext, PushAwaited DEF Gapless
<1>6. \A c \in Chn : tk[c] <= tk[c] /\ sn[c] <= s[c]
  BY <1>5 DEF Counters
<1>7. state[top.chn] = "ACTIVE"
  <2>1. stack # <<>> /\ CtlTypeOK
    BY DEF pipe_push_back, Running, PipelineInv, TypeOK, CoreTypeOK
  <2>2. Len(stack) \in DOMAIN stack /\ top = stack[Len(stack)]
    BY <2>1, StackShape
  <2>3. phase = "run"
    BY <2>1 DEF PipelineInv, LoopInv
  <2> QED
    BY <2>2, <2>3 DEF PipelineInv, StopOrder
<1>8. Grows(tk, sn, tk, s)
  BY <1>5, <1>6, <1>7 DEF Grows
<1> QED
  BY <1>3, <1>4, <1>8, GaplessMoves

(* Every step keeps the pictures without a gap. *)
LEMMA GaplessStep ==
    ASSUME PipelineInv, PipelineInv', MemInv, ServedInv, IdleInv, MarkInv, DecoderInv, GaplessInv, [Next]_vars
    PROVE  GaplessInv'
<1>1. PICK tk \in Counters, sn \in Counters : Ordered(tk, sn) /\ Gapless(tk, sn)
  BY DEF GaplessInv
<1>2. QuietInv
  BY DEF DecoderInv
<1>3. ASSUME NEW c \in Chn, NEW p \in Nat, Draws(tk, sn, c, p),
             \A t \in Counters : t = [tk EXCEPT ![c] = p] => BegunLast(c, t)
      PROVE  GaplessInv'
  <2>1. PICK t \in Counters : t = [tk EXCEPT ![c] = p]
    BY Zenon DEF Counters
  <2>2. BegunLast(c, t)
    BY <1>3, <2>1, Zenon
  <2> QED
    BY <1>1, <1>2, <1>3, <2>1, <2>2, GaplessTaken, Zenon
<1>4. ASSUME Settled PROVE GaplessInv'
  <2>1. Ordered(tk, sn)'
    BY <1>1, <1>4, OrderedCarried DEF Settled
  <2>2. /\ Kept(tk, sn)' /\ Sent(tk, sn)' /\ Decoded(tk)' /\ Recorded(tk)'
        /\ ~ g_exit' => PipesLast(tk, sn)' /\ FramesLast(tk)'
    BY <1>1, <1>4, GaplessSettled
  <2> QED
    BY <1>1, <1>2, <2>1, <2>2, GaplessStill
<1>5. CASE pipe_push_back
  BY <1>1, <1>2, <1>5, GaplessSent
<1>6. CASE DriverDecode \/ DriverEos
  <2>1. Ordered(tk, sn)'
    BY <1>1, <1>6, OrderedDriver
  <2>2. /\ Kept(tk, sn)' /\ Sent(tk, sn)' /\ Decoded(tk)' /\ Recorded(tk)'
        /\ ~ g_exit' => PipesLast(tk, sn)' /\ FramesLast(tk)'
    BY <1>1, <1>6, GaplessDriver
  <2> QED
    BY <1>1, <1>2, <2>1, <2>2, GaplessStill
<1>7. ASSUME NEW c \in Chn, ifile_run(c) PROVE GaplessInv'
  <2>1. PICK p \in Nat : p = nread[c] + 1 /\ Takes(tk, sn, c, p)
    BY <1>1, <1>7, TakesIfile
  <2>2. Draws(tk, sn, c, p) /\ \A t \in Counters : BegunLast(c, t)
    BY <1>1, <1>7, <2>1, DrawsIfile
  <2> QED
    BY <1>3, <2>2
<1>8. ASSUME NEW c \in Chn, convert_run(c) PROVE GaplessInv'
  <2>1. PICK p \in Nat : p = Picture(tk[c], Head(pipe[c])) /\ Takes(tk, sn, c, p)
    BY <1>1, <1>8, TakesConvert
  <2>2. PICK t \in Counters : t = [tk EXCEPT ![c] = p]
    BY Zenon DEF Counters
  <2>3. Draws(tk, sn, c, p) /\ BegunLast(c, t)
    BY <1>1, <1>8, <2>1, <2>2, DrawsConvert, Zenon
  <2> QED
    BY <1>1, <1>2, <2>2, <2>3, GaplessTaken, Zenon
<1>9. ASSUME NEW c \in Chn, ofile_run(c) PROVE GaplessInv'
  <2>1. CASE pipe[c] = <<>> /\ Carried
    <3>1. UNCHANGED <<stack, lastf, refcnt, drained, pipe, done, g_exit>>
      BY <1>9, <2>1 DEF ofile_run, drvVars, bufVars, appVars
    <3> QED
      BY <1>4, <2>1, <3>1, SettledIdle
  <2>2. CASE pipe[c] # <<>> /\ \E p \in Nat : p = Picture(tk[c], Head(pipe[c])) /\ Takes(tk, sn, c, p)
    <3>1. PICK p \in Nat : p = Picture(tk[c], Head(pipe[c])) /\ Takes(tk, sn, c, p)
      BY <2>2
    <3>2. Draws(tk, sn, c, p) /\ \A t \in Counters : BegunLast(c, t)
      BY <1>1, <1>9, <2>2, <3>1, DrawsOfile
    <3> QED
      BY <1>3, <3>2
  <2> QED
    BY <1>1, <1>9, <2>1, <2>2, TakesOfile
<1>10. ASSUME NEW c \in Chn, run_v4l2(c) PROVE GaplessInv'
  <2>1. CASE ~ (done[c] > 0) /\ Carried
    <3>1. UNCHANGED <<stack, lastf, refcnt, drained, pipe, done, g_exit>>
      BY <1>10, <2>1, Zenon DEF run_v4l2, drvVars, bufVars, appVars, qVars
    <3> QED
      BY <1>4, <2>1, <3>1, SettledIdle
  <2>2. CASE done[c] > 0 /\ \E p \in Nat : p = Picture(tk[c], Head(queued[c])) /\ Takes(tk, sn, c, p)
    <3>1. PICK p \in Nat : p = Picture(tk[c], Head(queued[c])) /\ Takes(tk, sn, c, p)
      BY <2>2
    <3>2. Draws(tk, sn, c, p) /\ \A t \in Counters : BegunLast(c, t)
      BY <1>1, <1>10, <2>2, <3>1, DrawsCapture
    <3> QED
      BY <1>3, <3>2
  <2> QED
    BY <1>1, <1>10, <2>1, <2>2, TakesCapture
<1>11. CASE /\ ~ pipe_push_back /\ ~ DriverDecode /\ ~ DriverEos
            /\ \A c \in Chn : ~ ifile_run(c) /\ ~ convert_run(c) /\ ~ ofile_run(c) /\ ~ run_v4l2(c)
  BY <1>4, <1>11, SettledStep
<1> QED
  BY <1>5, <1>6, <1>7, <1>8, <1>9, <1>10, <1>11

(* The pictures, the LAST flags, the decoder and the sources together *)
DeliveryInv == IdleInv /\ MarkInv /\ DecoderInv /\ SourcesInv /\ GaplessInv

LEMMA DeliveryStep ==
    ASSUME ~ LaxDriver, PipelineInv, PipelineInv', BufferInv, DeliveryInv, [Next]_vars
    PROVE  DeliveryInv'
<1>1. MemInv /\ StoppingInv /\ ServedInv
  BY BufferParts DEF PipelineInv, TypeOK
<1>2. IdleInv /\ MarkInv /\ DecoderInv /\ SourcesInv /\ GaplessInv
  BY DEF DeliveryInv
<1>3. IdleInv'
  BY <1>1, <1>2, IdleStep
<1>4. MarkInv'
  BY <1>1, <1>2, MarkStep
<1>5. DecoderInv'
  BY <1>1, <1>2, DecoderStep
<1>6. SourcesInv'
  BY <1>1, <1>2, SourcesStep
<1>7. GaplessInv'
  BY <1>1, <1>2, GaplessStep
<1> QED
  BY <1>3, <1>4, <1>5, <1>6, <1>7 DEF DeliveryInv

(* With a driver that drains, every picture a channel was sent is in its    *)
(* pipe or taken, the LAST flag is behind the last picture of a source, and *)
(* a channel ends only when it has taken all its source will send: in every *)
(* reachable state, wherever SIGINT arrives, a start fails or the capture   *)
(* channel is stopped and started again (mxc_v4l2_vpu_enc.c 295-313,        *)
(* 426-540, core.c 258-277).                                                *)
THEOREM DeliveryInvariant == ~ LaxDriver => (Spec => []DeliveryInv)
<1> SUFFICES ASSUME ~ LaxDriver PROVE Spec => []DeliveryInv
  OBVIOUS
<1>1. Init => DeliveryInv
  BY IdlesStart, MarkStart, DecoderStart, SourcesStart, GaplessStart DEF DeliveryInv
<1>2. PipelineInv /\ PipelineInv' /\ BufferInv /\ DeliveryInv /\ [Next]_vars => DeliveryInv'
  BY DeliveryStep
<1> QED
  BY <1>1, <1>2, PipelineInvariant, BufferInvariant, PTL DEF Spec

-----------------------------------------------------------------------------
(* The files are complete when everything has stopped. *)

(* Nothing waits in the pipes: each channel has taken what its source has. *)
LEMMA EqualBelow ==
    ASSUME NEW tk, NEW r \in Chn, NEW d \in Below(r),
           \A e \in Chn : Source[e] # None => tk[e] = tk[Source[e]]
    PROVE  tk[d] = tk[r]
<1> DEFINE D == {e \in Chn : tk[e] = tk[r]}
<1>1. SinksIn(r, D)
  BY CoreAssumption, Zenon DEF SinksIn
<1>2. \A e \in D : SinksIn(e, D)
  BY CoreAssumption, Zenon DEF SinksIn
<1>3. d \in D
  BY <1>1, <1>2 DEF Below
<1> QED
  BY <1>3

LEMMA AllTaken ==
    ASSUME PipelineInv, NEW tk \in Counters, NEW sn \in Counters, Ordered(tk, sn), Gapless(tk, sn),
           ~ g_exit, stack = <<>>, \A c \in Chn : pipe[c] = <<>>
    PROVE  \A d \in Chn : Source[d] # None => tk[d] = tk[Source[d]]
<1> SUFFICES ASSUME NEW d \in Chn, Source[d] # None PROVE tk[d] = tk[Source[d]]
  OBVIOUS
<1>1. ~ Awaited(d)
  BY DEF Awaited
<1>2. tk[Source[d]] = sn[d]
  BY <1>1 DEF Gapless, Sent
<1>3. Solid(pic, tk[d], pipe[d], 0, sn[d])
  BY DEF Gapless, Kept, Whole
<1>4. tk[d] \in Nat /\ sn[d] \in Nat /\ tk[d] <= sn[d]
  BY OrderedChained DEF Chained, Counters
<1>5. \A i \in 1 .. 0 : pic[pipe[d][i]] = 0
  OBVIOUS
<1>6. tk[d] = sn[d]
  BY <1>3, <1>4, <1>5, SolidNone
<1> QED
  BY <1>2, <1>6

LEMMA CaptureTaken ==
    ASSUME PipelineInv, NEW tk \in Counters, NEW sn \in Counters, Ordered(tk, sn), Gapless(tk, sn),
           ~ g_exit, Capture # None, done[Capture] = 0
    PROVE  tk[Capture] = ndec
<1>1. Capture \in Chn /\ Kind[Capture] = "capture" /\ ndec \in Nat
  BY CaptureChn DEF PipelineInv, TypeOK, DrvTypeOK
<1>2. Solid(pic, tk[Capture], queued[Capture], 0, ndec)
  BY DEF Gapless, Decoded
<1>3. tk[Capture] \in Nat /\ tk[Capture] <= ndec
  BY <1>1 DEF Ordered, RootsRise, Rising, Counters
<1>4. \A i \in 1 .. 0 : pic[queued[Capture][i]] = 0
  OBVIOUS
<1> QED
  BY <1>1, <1>2, <1>3, <1>4, SolidNone

LEMMA DeliveryComplete ==
    ASSUME PipelineInv, BufferInv, DeliveryInv
    PROVE  Delivered
<1>1. PICK tk \in Counters, sn \in Counters : Ordered(tk, sn) /\ Gapless(tk, sn)
  BY DEF DeliveryInv, GaplessInv
<1>2. \A c \in Chn : /\ Kind[c] = "ofile" => tk[c] = Len(written[c])
                     /\ \A i \in DOMAIN written[c] : written[c][i] = i
  BY <1>1 DEF Gapless, Recorded
<1>3. InOrder
  BY <1>2 DEF InOrder
<1>4. Complete
  <2> SUFFICES ASSUME phase = "run", \A c \in Chn : state[c] = "STOPPED", ~ g_exit, ~ failed
               PROVE  /\ Output # None => drained
                      /\ \A c \in Chn : Kind[c] = "ofile" =>
                            Len(written[c]) = (IF Output = None THEN FrameNum ELSE ndec)
    BY DEF Complete
  <2>1. SourcesUp /\ CaptureInv
    BY DEF DeliveryInv, SourcesInv, DecoderInv
  <2>2. \A c \in Chn : pipe[c] = <<>>
    BY DEF BufferInv, PipeServed
  <2>3. stack = <<>>
    <3>1. CtlTypeOK /\ \A i \in DOMAIN stack : state[stack[i].chn] = "ACTIVE"
      BY DEF PipelineInv, StopOrder, TypeOK, CoreTypeOK
    <3>2. ASSUME stack # <<>> PROVE FALSE
      <4>1. Len(stack) \in DOMAIN stack /\ top = stack[Len(stack)] /\ top \in Frame
        BY <3>1, <3>2, StackShape
      <4>2. top.chn \in Chn /\ state[top.chn] = "ACTIVE"
        BY <3>1, <4>1 DEF Frame
      <4> QED
        BY <4>2
    <3> QED
      BY <3>2
  <2>4. \A d \in Chn : Source[d] # None => tk[d] = tk[Source[d]]
    BY <1>1, <2>2, <2>3, AllTaken
  <2>5. ASSUME Output # None PROVE drained
    BY <2>1, <2>5, PipelineAssumption DEF SourcesUp
  <2>6. ASSUME NEW c \in Chn, Kind[c] = "ofile", Output = None PROVE Len(written[c]) = FrameNum
    <3>1. PICK r \in Boot : Kind[r] = "ifile" /\ c \in Below(r)
      BY <2>6, FedAssumption
    <3>2. r \in Chn /\ nread[r] = FrameNum
      BY <2>1, <3>1, PipelineAssumption DEF SourcesUp
    <3>3. tk[r] = nread[r]
      BY <1>1, <3>1, <3>2 DEF Ordered, RootsRise
    <3>4. tk[c] = tk[r]
      BY <2>4, <3>1, <3>2, EqualBelow
    <3> QED
      BY <1>2, <2>6, <3>2, <3>3, <3>4
  <2>7. ASSUME NEW c \in Chn, Kind[c] = "ofile", Output # None PROVE Len(written[c]) = ndec
    <3>1. Capture # None /\ c \in Below(Capture)
      BY <2>7, FedAssumption, PipelineAssumption
    <3>2. Capture \in Chn /\ done[Capture] = 0
      BY <2>1, <3>1, CaptureChn DEF CaptureInv
    <3>3. tk[Capture] = ndec
      BY <1>1, <3>1, <3>2, CaptureTaken
    <3>4. tk[c] = tk[Capture]
      BY <2>4, <3>1, <3>2, EqualBelow
    <3> QED
      BY <1>2, <2>7, <3>3, <3>4
  <2> QED
    BY <2>5, <2>6, <2>7
<1> QED
  BY <1>3, <1>4 DEF Delivered

(* Every output file receives the pictures of its source in order, without  *)
(* a gap or a repetition, and when the channels have stopped by themselves  *)
(* it has all of them and the decoder's driver has reported its end of      *)
(* stream; only SIGINT or a failed start cuts a file short                  *)
(* (mxc_v4l2_vpu_enc.c 295-313, 426-540, 2100-2134).                        *)
THEOREM PicturesDelivered == ~ LaxDriver => (Spec => []Delivered)
<1> SUFFICES ASSUME ~ LaxDriver PROVE Spec => []Delivered
  OBVIOUS
<1>1. PipelineInv /\ BufferInv /\ DeliveryInv => Delivered
  BY DeliveryComplete
<1>2. Spec => []DeliveryInv
  BY DeliveryInvariant
<1> QED
  BY <1>1, <1>2, PipelineInvariant, BufferInvariant, PTL
=============================================================================
