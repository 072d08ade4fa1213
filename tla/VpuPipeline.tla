---------------------------- MODULE VpuPipeline ----------------------------
(***************************************************************************)
(* mxc_v4l2_vpu_test.out as one process: main(), the control channel, the   *)
(* file, convert, g2d and decoder nodes of mxc_v4l2_vpu_enc.c on top of     *)
(* PitcherCore, the timer pass of core.c, the poll callbacks of the loop,   *)
(* SIGINT, and the decoder driver as the environment.                       *)
(***************************************************************************)
EXTENDS PitcherCore

CONSTANTS FrameNum,   \* frames an ifile node reads
          Passthru,   \* convert and g2d channels with equal input and output format
          Boot,       \* channels registered before pitcher_start
          Output,     \* output channel of the decoder node, or None
          Capture,    \* its capture channel, or None
          Script,     \* what the decoder driver yields: "frame", "error", "change"
          LaxDriver,  \* the driver may signal a change or the end without draining
          MaxSignals  \* bound: 1 lets SIGINT arrive, 0 does not

ASSUME PipelineAssumption ==
    /\ FrameNum \in Nat \ {0}
    /\ Passthru \subseteq Chn /\ Boot \subseteq Chn
    /\ \A c \in Boot : Source[c] \in Boot \cup {None}
    /\ Capture # None => Source[Capture] = None
    /\ \A c \in Chn : Kind[c] = "output" => c = Output
    /\ Output # None => Capture # None
    /\ Output \in Chn \cup {None} /\ Capture \in Chn \cup {None}
    /\ Script \in Seq({"frame", "error", "change"})
    /\ LaxDriver \in BOOLEAN
    /\ MaxSignals \in {0, 1}

(* Files and the decoder are at the ends of the pipes, and there is one     *)
(* decoder node; the bitstream that feeds it is not a pipe of the model.    *)
ASSUME WiringAssumption ==
    /\ \A c \in Chn : Source[c] # None =>
          Kind[c] \in {"convert", "g2d", "ofile"} /\ Kind[Source[c]] \notin {"ctrl", "output", "ofile"}
    /\ \A c \in Chn : Kind[c] = "capture" <=> c = Capture

VARIABLES phase,     \* where main() is
          cursor,    \* position in core->chns of the enumeration
          visiting,  \* the channel at cursor is being processed
          count,     \* some channel of this pass is not stopped
          polled,    \* poll callbacks made in this turn of the loop
          g_exit,    \* set by the signal handler
          nread,     \* frames read by each ifile (file->frame_count)
          written,   \* what each ofile has written
          capReg,    \* decoder->capture.chnno >= 0
          outRes,    \* output.resolution_change
          capRes,    \* capture.resolution_change
          outEos,    \* output.eos_received
          capEos,    \* capture.eos_received
          deciding,  \* is_decoder_output_finish is past its handling of events
          script,    \* driver: what is still to come
          ndec,      \* driver: frames decoded
          event,     \* driver: the pending V4L2 event
          resync,    \* driver: waits for the capture queue to be set up again
          drained    \* driver: the last buffer is out, DQBUF fails with EPIPE

mainVars == <<phase, cursor, visiting, count, polled>>
decVars == <<capReg, outRes, capRes, outEos, capEos, deciding>>
drvVars == <<script, ndec, event, resync, drained>>
appVars == <<g_exit, nread, written>>
vars == <<coreVars, mainVars, decVars, drvVars, appVars>>

Phases == {"start", "abort", "run", "teardown", "exit"}
Events == {"NONE", "EOS", "SOURCE_CHANGE"}

MainTypeOK ==
    /\ phase \in Phases /\ cursor \in Nat \ {0} /\ visiting \in BOOLEAN /\ count \in BOOLEAN
    /\ polled \subseteq Chn \X {"timeout", "event"}
DecTypeOK ==
    /\ capReg \in BOOLEAN /\ outRes \in BOOLEAN /\ capRes \in BOOLEAN
    /\ outEos \in BOOLEAN /\ capEos \in BOOLEAN /\ deciding \in BOOLEAN
DrvTypeOK ==
    /\ script \in Seq({"frame", "error", "change"}) /\ ndec \in Nat /\ event \in Events
    /\ resync \in BOOLEAN /\ drained \in BOOLEAN
AppTypeOK ==
    /\ g_exit \in BOOLEAN /\ nread \in [Chn -> 0 .. FrameNum] /\ written \in [Chn -> Seq(Nat)]
(* The values every variable ranges over; an input file is never read past  *)
(* its last frame (mxc_v4l2_vpu_enc.c 1825-1871).                           *)
TypeOK == CoreTypeOK /\ MainTypeOK /\ DecTypeOK /\ DrvTypeOK /\ AppTypeOK

Init ==
    /\ CoreInit
    /\ phase = "start" /\ cursor = 1 /\ visiting = FALSE /\ count = FALSE
    /\ polled = {} /\ deciding = FALSE
    /\ g_exit = FALSE /\ nread = [c \in Chn |-> 0] /\ written = [c \in Chn |-> <<>>]
    /\ capReg = (Capture # None /\ Capture \in Boot)
    /\ outRes = FALSE /\ capRes = FALSE /\ outEos = FALSE /\ capEos = FALSE
    /\ script = Script /\ ndec = 0 /\ event = "NONE"
    /\ resync = (Output # None) /\ drained = FALSE

AtEnd == cursor > Len(Order)
Cur == Order[cursor]

-----------------------------------------------------------------------------
(* pitcher_start: __start_chn on every registered channel; if one failed,   *)
(* __stop_chn on all of them; then the loop runs in either case.            *)

pitcher_start ==
    /\ phase = "start" /\ Idle /\ ~ AtEnd
    /\ IF Cur \in Boot THEN start_chn(Cur)
       ELSE UNCHANGED <<chnVars, idles, queued, bufVars, failed>>
    /\ cursor' = cursor + 1
    /\ UNCHANGED <<pipe, done, ctlVars, phase, visiting, count, polled, decVars, drvVars, appVars>>

pitcher_start_end ==
    /\ phase = "start" /\ Idle /\ AtEnd
    /\ phase' = IF failed THEN "abort" ELSE "run"
    /\ cursor' = 1
    /\ UNCHANGED <<coreVars, visiting, count, polled, decVars, drvVars, appVars>>

(* __stop_chn, whatever the channel was doing *)
stop_chn ==
    /\ phase = "abort" /\ Idle /\ ~ AtEnd
    /\ cursor' = cursor + 1
    /\ IF state[Cur] = "STOPPED"
       THEN UNCHANGED coreVars
       ELSE unit_stop(Cur) /\ call' = call
    /\ UNCHANGED <<phase, visiting, count, polled, decVars, drvVars, appVars>>

stop_chn_end ==
    /\ phase = "abort" /\ Idle /\ AtEnd
    /\ phase' = "run" /\ cursor' = 1
    /\ UNCHANGED <<coreVars, visiting, count, polled, decVars, drvVars, appVars>>

-----------------------------------------------------------------------------
(* The loop: one timer pass over the channels (core.c __timer_func and      *)
(* __run_chn), then poll callbacks of channels with a file descriptor.      *)

run_chn ==
    /\ phase = "run" /\ Idle /\ ~ AtEnd
    /\ IF visiting \/ state[Cur] = "STOPPED"
       THEN /\ count' = (count \/ state[Cur] # "STOPPED")
            /\ cursor' = cursor + 1
            /\ visiting' = FALSE
            /\ UNCHANGED call
       ELSE /\ call' = Cur
            /\ visiting' = TRUE
            /\ UNCHANGED <<count, cursor>>
    /\ UNCHANGED <<chnVars, qVars, bufVars, stack, todo, closing, failed,
                   phase, polled, decVars, drvVars, appVars>>

(* Variant: the capture channel of the decoder is polled as well. *)
PollFuncCapture(c, why) ==
    /\ phase = "run" /\ Idle /\ AtEnd
    /\ Kind[c] \in {"output", "capture"} /\ state[c] # "STOPPED"
    /\ <<c, why>> \notin polled
    /\ why = "timeout" => \A d \in Chn : <<d, "event">> \notin polled
    /\ call' = c
    /\ polled' = polled \cup {<<c, why>>}
    /\ UNCHANGED <<chnVars, qVars, bufVars, stack, todo, closing, failed,
                   phase, cursor, visiting, count, decVars, drvVars, appVars>>

(* __process_poll: first the channels whose timeout is over, then those     *)
(* with an event; one channel may be called for both.  The two queues of a  *)
(* decoder share a descriptor, and only the output channel is registered    *)
(* for it (init_decoder_node clears the events of the capture channel).     *)
poll_func(c, why) ==
    /\ phase = "run" /\ Idle /\ AtEnd
    /\ Kind[c] = "output" /\ state[c] # "STOPPED"
    /\ <<c, why>> \notin polled
    /\ why = "timeout" => \A d \in Chn : <<d, "event">> \notin polled
    /\ call' = c
    /\ polled' = polled \cup {<<c, why>>}
    /\ UNCHANGED <<chnVars, qVars, bufVars, stack, todo, closing, failed,
                   phase, cursor, visiting, count, decVars, drvVars, appVars>>

(* A turn cut short by an event: the millisecond of the timer is not over,  *)
(* and the next turn goes straight to the poll callbacks.                   *)
pitcher_loop_run ==
    /\ phase = "run" /\ Idle /\ AtEnd /\ count
    /\ \E d \in Chn : <<d, "event">> \in polled
    /\ polled' = {}
    /\ UNCHANGED <<coreVars, phase, cursor, visiting, count, decVars, drvVars, appVars>>

(* The next turn of the loop, unless the last pass found every channel      *)
(* stopped: then main() leaves the loop and sets the exit flag.             *)
timer_func ==
    /\ phase = "run" /\ Idle /\ AtEnd
    /\ phase' = IF count THEN "run" ELSE "teardown"
    /\ g_exit' = (g_exit \/ ~ count)
    /\ cursor' = 1 /\ count' = FALSE /\ polled' = {}
    /\ UNCHANGED <<coreVars, visiting, decVars, drvVars, nread, written>>

(* After the loop: pitcher_stop finds every channel stopped; the pipes and  *)
(* then the units are deleted, which puts whatever they still hold.         *)
Leftover(c) == pipe[c] \o idles[c]

(* Variant: the pipes are freed without giving up what they hold. *)
TeardownDrops(c) ==
    /\ phase = "teardown" /\ Idle /\ Leftover(c) # <<>>
    /\ pipe' = [pipe EXCEPT ![c] = <<>>]
    /\ idles' = [idles EXCEPT ![c] = <<>>]
    /\ UNCHANGED <<chnVars, queued, done, bufVars, ctlVars, failed,
                   mainVars, decVars, drvVars, appVars>>

teardown(c) ==
    /\ phase = "teardown" /\ Idle /\ Leftover(c) # <<>>
    /\ todo' = Leftover(c)
    /\ pipe' = [pipe EXCEPT ![c] = <<>>]
    /\ idles' = [idles EXCEPT ![c] = <<>>]
    /\ UNCHANGED <<chnVars, queued, done, bufVars, call, stack, closing, failed,
                   mainVars, decVars, drvVars, appVars>>

main_exit ==
    /\ phase = "teardown" /\ Idle /\ \A c \in Chn : Leftover(c) = <<>>
    /\ phase' = "exit"
    /\ UNCHANGED <<coreVars, cursor, visiting, count, polled, decVars, drvVars, appVars>>

sig_handler ==
    /\ MaxSignals = 1 /\ phase \in {"start", "abort", "run"} /\ ~ g_exit
    /\ g_exit' = TRUE
    /\ UNCHANGED <<coreVars, mainVars, decVars, drvVars, nread, written>>

-----------------------------------------------------------------------------
(* check_ready of the units. *)

Active(c, kinds) == call = c /\ state[c] = "ACTIVE" /\ Kind[c] \in kinds

(* The end flag after check_ready. *)
EndNow(c) == \/ end[c]
             \/ g_exit
             \/ Kind[c] \in {"convert", "g2d", "ofile"} /\ is_source_end(c)

(* DQBUF fails with EPIPE when the queue is drained *)
Epipe == drained \/ (LaxDriver /\ resync)

ifile_checkready(c) == idles[c] # <<>>

(* convert_checkready and g2d_cvt_checkready *)
convert_checkready(c) == pipe[c] # <<>> /\ (c \in Passthru \/ idles[c] # <<>>)

(* check_v4l2_ready on the capture queue; POLLIN also reports EPIPE *)
capture_checkready(c) == capEos \/ done[c] > 0 \/ Epipe

Ready(c) ==
    /\ ~ EndNow(c)
    /\ CASE Kind[c] = "ifile" -> ifile_checkready(c)
         [] Kind[c] \in {"convert", "g2d"} -> convert_checkready(c)
         [] Kind[c] = "capture" -> capture_checkready(c)

(* __process_chn_active on a unit that is not ready; at its end the channel *)
(* starts to stop.                                                          *)
process_chn_active(c) ==
    /\ Active(c, {"ifile", "convert", "g2d", "capture"}) /\ ~ Ready(c)
    /\ end' = [end EXCEPT ![c] = EndNow(c)]
    /\ state' = [state EXCEPT ![c] = IF EndNow(c) THEN "STOPPING" ELSE @]
    /\ call' = None
    /\ UNCHANGED <<enable, qVars, bufVars, stack, todo, closing, failed,
                   mainVars, decVars, drvVars, appVars>>

-----------------------------------------------------------------------------
(* The run callbacks. *)

(* Variants: the end of the file is noticed one frame late; the last buffer *)
(* is not pushed.                                                           *)
IfileRunLate(c) ==
    LET b == Head(idles[c])
        fin == nread[c] = FrameNum
    IN  /\ Active(c, {"ifile"}) /\ Ready(c)
        /\ idles' = [idles EXCEPT ![c] = Tail(@)]
        /\ nread' = [nread EXCEPT ![c] = @ + 1]
        /\ pic' = [pic EXCEPT ![b] = nread[c] + 1]
        /\ lastf' = [lastf EXCEPT ![b] = @ \/ fin]
        /\ end' = [end EXCEPT ![c] = fin]
        /\ EnterPush(c, b, None, TRUE)
        /\ call' = None
        /\ UNCHANGED <<state, enable, pipe, queued, done, refcnt, live, todo, closing, failed,
                       mainVars, decVars, drvVars, g_exit, written>>

IfileRunDropsLast(c) ==
    LET b == Head(idles[c])
        fin == nread[c] + 1 = FrameNum
    IN  /\ Active(c, {"ifile"}) /\ Ready(c)
        /\ idles' = [idles EXCEPT ![c] = Tail(@)]
        /\ nread' = [nread EXCEPT ![c] = @ + 1]
        /\ pic' = [pic EXCEPT ![b] = nread[c] + 1]
        /\ lastf' = [lastf EXCEPT ![b] = @ \/ fin]
        /\ end' = [end EXCEPT ![c] = fin]
        /\ IF fin THEN todo' = <<b>> /\ UNCHANGED stack
                  ELSE EnterPush(c, b, None, TRUE) /\ UNCHANGED todo
        /\ call' = None
        /\ UNCHANGED <<state, enable, pipe, queued, done, refcnt, live, closing, failed,
                       mainVars, decVars, drvVars, g_exit, written>>

ifile_run(c) ==
    LET b == Head(idles[c])
        fin == nread[c] + 1 = FrameNum
    IN  /\ Active(c, {"ifile"}) /\ Ready(c)
        /\ idles' = [idles EXCEPT ![c] = Tail(@)]
        /\ nread' = [nread EXCEPT ![c] = @ + 1]
        /\ pic' = [pic EXCEPT ![b] = nread[c] + 1]
        /\ lastf' = [lastf EXCEPT ![b] = @ \/ fin]
        /\ end' = [end EXCEPT ![c] = fin]
        /\ EnterPush(c, b, None, TRUE)
        /\ call' = None
        /\ UNCHANGED <<state, enable, pipe, queued, done, refcnt, live, todo, closing, failed,
                       mainVars, decVars, drvVars, g_exit, written>>

(* convert_run and g2d_cvt_run.  An empty input buffer is dropped (and ends *)
(* a g2d unit); equal formats pass the input buffer on; otherwise the       *)
(* picture is converted into an idle buffer, which carries no LAST flag.    *)
convert_run(c) ==
    LET in == Head(pipe[c])
        b == IF c \in Passthru THEN in ELSE Head(idles[c])
    IN  /\ Active(c, {"convert", "g2d"}) /\ Ready(c)
        /\ pipe' = [pipe EXCEPT ![c] = Tail(@)]
        /\ call' = None
        /\ IF pic[in] = 0
           THEN /\ todo' = <<in>>
                /\ end' = [end EXCEPT ![c] = Kind[c] = "g2d"]
                /\ UNCHANGED <<idles, pic, stack>>
           ELSE /\ idles' = IF c \in Passthru THEN idles ELSE [idles EXCEPT ![c] = Tail(@)]
                /\ pic' = [pic EXCEPT ![b] = pic[in]]
                /\ EnterPush(c, b, in, c \notin Passthru)
                /\ UNCHANGED <<todo, end>>
        /\ UNCHANGED <<state, enable, queued, done, refcnt, live, lastf, closing, failed,
                       mainVars, decVars, drvVars, appVars>>

(* ofile_checkready always answers ready, so one buffer is still written by *)
(* a unit that has come to its end.                                         *)
ofile_run(c) ==
    /\ Active(c, {"ofile"})
    /\ call' = None
    /\ state' = [state EXCEPT ![c] = IF EndNow(c) THEN "STOPPING" ELSE @]
    /\ IF pipe[c] = <<>>
       THEN /\ end' = [end EXCEPT ![c] = EndNow(c)]
            /\ UNCHANGED <<pipe, todo, written>>
       ELSE LET b == Head(pipe[c])
            IN  /\ pipe' = [pipe EXCEPT ![c] = Tail(@)]
                /\ todo' = <<b>>
                /\ written' = [written EXCEPT ![c] = IF pic[b] = 0 THEN @ ELSE Append(@, pic[b])]
                /\ end' = [end EXCEPT ![c] = EndNow(c) \/ lastf[b]]
    /\ UNCHANGED <<enable, idles, queued, done, bufVars, stack, closing, failed,
                   mainVars, decVars, drvVars, g_exit, nread>>

(* Variants: the dequeued buffer is not referenced; the newest filled       *)
(* buffer is taken first.                                                   *)
RunV4l2NoGet(c) ==
    LET b == Head(queued[c])
    IN  /\ Active(c, {"capture"}) /\ Ready(c)
        /\ call' = None
        /\ IF done[c] > 0
           THEN /\ queued' = [queued EXCEPT ![c] = Tail(@)]
                /\ done' = [done EXCEPT ![c] = @ - 1]
                /\ end' = end
                /\ IF pic[b] = 0 /\ ~ lastf[b]
                   THEN todo' = <<b>> /\ UNCHANGED stack
                   ELSE EnterPush(c, b, None, TRUE) /\ UNCHANGED todo
           ELSE /\ end' = [end EXCEPT ![c] = Epipe]
                /\ UNCHANGED <<queued, done, stack, todo>>
        /\ UNCHANGED <<state, enable, pipe, idles, bufVars, closing, failed,
                       mainVars, decVars, drvVars, appVars>>

RunV4l2Newest(c) ==
    LET b == queued[c][done[c]]
    IN  /\ Active(c, {"capture"}) /\ Ready(c)
        /\ call' = None
        /\ IF done[c] > 0
           THEN /\ queued' = [queued EXCEPT ![c] = RemoveAt(@, done[c])]
                /\ done' = [done EXCEPT ![c] = @ - 1]
                /\ refcnt' = [refcnt EXCEPT ![b] = @ + 1]
                /\ end' = end
                /\ IF pic[b] = 0 /\ ~ lastf[b]
                   THEN todo' = <<b>> /\ UNCHANGED stack
                   ELSE EnterPush(c, b, None, TRUE) /\ UNCHANGED todo
           ELSE /\ end' = [end EXCEPT ![c] = Epipe]
                /\ UNCHANGED <<queued, done, refcnt, stack, todo>>
        /\ UNCHANGED <<state, enable, pipe, idles, live, pic, lastf, closing, failed,
                       mainVars, decVars, drvVars, appVars>>

(* run_v4l2 on the capture queue: DQBUF yields a filled buffer, or EPIPE    *)
(* after the last one, or nothing.  A buffer with the ERROR flag (no        *)
(* picture, not the last) is not pushed.                                    *)
run_v4l2(c) ==
    LET b == Head(queued[c])
    IN  /\ Active(c, {"capture"}) /\ Ready(c)
        /\ call' = None
        /\ IF done[c] > 0
           THEN /\ queued' = [queued EXCEPT ![c] = Tail(@)]
                /\ done' = [done EXCEPT ![c] = @ - 1]
                /\ refcnt' = [refcnt EXCEPT ![b] = @ + 1]
                /\ end' = end
                /\ IF pic[b] = 0 /\ ~ lastf[b]
                   THEN todo' = <<b>> /\ UNCHANGED stack
                   ELSE EnterPush(c, b, None, TRUE) /\ UNCHANGED todo
           ELSE /\ end' = [end EXCEPT ![c] = Epipe]
                /\ UNCHANGED <<queued, done, refcnt, stack, todo>>
        /\ UNCHANGED <<state, enable, pipe, idles, live, pic, lastf, closing, failed,
                       mainVars, decVars, drvVars, appVars>>

(* check_ctrl_ready: the control channel ends when every node has stopped. *)
check_ctrl_ready(c) ==
    /\ Active(c, {"ctrl"})
    /\ call' = None
    /\ state' = [state EXCEPT ![c] =
                   IF \A d \in Chn \ {c} : state[d] = "STOPPED" THEN "STOPPING" ELSE @]
    /\ UNCHANGED <<enable, end, qVars, bufVars, stack, todo, closing, failed,
                   mainVars, decVars, drvVars, appVars>>

-----------------------------------------------------------------------------
(* The output channel of the decoder node, which steers the capture channel. *)

(* Variants: the change counts as handled while the capture channel still   *)
(* drains; the running capture channel is not told to end.                  *)
ResolutionChangeForgotten ==
    IF state[Capture] = "STOPPED"
    THEN /\ start_chn(Capture)
         /\ capRes' = FALSE
         /\ resync' = (resync /\ state'[Capture] # "ACTIVE")
    ELSE /\ end' = [end EXCEPT ![Capture] = TRUE]
         /\ capRes' = FALSE
         /\ UNCHANGED <<state, enable, idles, queued, bufVars, failed, resync>>

ResolutionChangeWaits ==
    IF state[Capture] = "STOPPED"
    THEN /\ start_chn(Capture)
         /\ capRes' = FALSE
         /\ resync' = (resync /\ state'[Capture] # "ACTIVE")
    ELSE /\ capRes' = TRUE
         /\ UNCHANGED <<state, enable, end, idles, queued, bufVars, failed, resync>>

(* handle_decoder_resolution_change: once the capture channel has stopped   *)
(* it is started for the new format, before that it is told to end.         *)
(* pitcher_start_chn reports no failure, so the flag is cleared either way. *)
handle_decoder_resolution_change ==
    IF state[Capture] = "STOPPED"
    THEN /\ start_chn(Capture)
         /\ capRes' = FALSE
         /\ resync' = (resync /\ state'[Capture] # "ACTIVE")
    ELSE /\ end' = [end EXCEPT ![Capture] = TRUE]
         /\ capRes' = TRUE
         /\ UNCHANGED <<state, enable, idles, queued, bufVars, failed, resync>>

(* The first half of is_decoder_output_finish.  The channel also feeds the  *)
(* bitstream to the driver; that side is not modelled here.                 *)
is_decoder_output_finish(c) ==
    /\ Active(c, {"output"}) /\ ~ deciding
    /\ deciding' = TRUE
    /\ capEos' = (capEos \/ (outEos /\ capReg))
    /\ outEos' = FALSE /\ outRes' = FALSE
    /\ capReg' = (capReg \/ capRes \/ outRes)
    /\ IF capRes \/ outRes
       THEN handle_decoder_resolution_change
       ELSE /\ end' = [end EXCEPT ![Capture] = @ \/ (outEos /\ ~ capReg)]
            /\ UNCHANGED <<state, enable, idles, queued, bufVars, failed, capRes, resync>>
    /\ UNCHANGED <<pipe, done, ctlVars, mainVars, appVars, script, ndec, event, drained>>

(* __check_v4l2_events: at most one event is dequeued *)
check_v4l2_events ==
    /\ event' = "NONE"
    /\ outEos' = (event = "EOS")
    /\ outRes' = (event = "SOURCE_CHANGE")

(* Variant: the exit flag is not looked at. *)
CheckReadyNoExit(c) ==
    LET isEnd == end[Capture] /\ ~ capRes
    IN  /\ Active(c, {"output"}) /\ deciding
        /\ deciding' = FALSE
        /\ call' = None
        /\ end' = [end EXCEPT ![c] = isEnd]
        /\ state' = [state EXCEPT ![c] = IF isEnd THEN "STOPPING" ELSE @]
        /\ IF isEnd THEN UNCHANGED <<event, outEos, outRes>> ELSE check_v4l2_events
        /\ UNCHANGED <<enable, qVars, bufVars, stack, todo, closing, failed, mainVars,
                       appVars, capReg, capRes, capEos, script, ndec, resync, drained>>

(* The decision, then check_v4l2_ready: at the end the channel stops,       *)
(* otherwise it dequeues one event.                                         *)
check_v4l2_ready(c) ==
    LET isEnd == g_exit \/ (end[Capture] /\ ~ capRes)
    IN  /\ Active(c, {"output"}) /\ deciding
        /\ deciding' = FALSE
        /\ call' = None
        /\ end' = [end EXCEPT ![c] = isEnd]
        /\ state' = [state EXCEPT ![c] = IF isEnd THEN "STOPPING" ELSE @]
        /\ IF isEnd THEN UNCHANGED <<event, outEos, outRes>> ELSE check_v4l2_events
        /\ UNCHANGED <<enable, qVars, bufVars, stack, todo, closing, failed, mainVars,
                       appVars, capReg, capRes, capEos, script, ndec, resync, drained>>

-----------------------------------------------------------------------------
(* The decoder driver.  It decodes into the queued capture buffers in       *)
(* order.  After a source change it waits until the capture queue is set up *)
(* again; the stream may end anywhere.  A driver that drains as the V4L2    *)
(* decoder interface asks signals a change when its pictures are dequeued   *)
(* and marks the last buffer; one that does not (LaxDriver) may signal the  *)
(* change over filled buffers, and end with EPIPE alone.                    *)

Streaming == enable[Capture] /\ ~ resync /\ ~ drained
Free == Len(queued[Capture]) > done[Capture]
Fill(p, l) ==
    LET b == queued[Capture][done[Capture] + 1]
    IN  /\ pic' = [pic EXCEPT ![b] = p]
        /\ lastf' = [lastf EXCEPT ![b] = l]
        /\ done' = [done EXCEPT ![Capture] = @ + 1]

DriverDecode ==
    /\ Output # None /\ Streaming /\ Free
    /\ script # <<>> /\ Head(script) \in {"frame", "error"}
    /\ script' = Tail(script)
    /\ ndec' = IF Head(script) = "frame" THEN ndec + 1 ELSE ndec
    /\ Fill(IF Head(script) = "frame" THEN ndec + 1 ELSE 0, FALSE)
    /\ UNCHANGED <<chnVars, pipe, idles, queued, refcnt, live, ctlVars, failed,
                   mainVars, decVars, appVars, event, resync, drained>>

DriverChange ==
    /\ Output # None /\ enable[Output] /\ event = "NONE" /\ ~ drained
    /\ script # <<>> /\ Head(script) = "change"
    /\ script = Script \/ ~ resync
    /\ LaxDriver \/ done[Capture] = 0
    /\ script' = Tail(script)
    /\ event' = "SOURCE_CHANGE" /\ resync' = TRUE
    /\ UNCHANGED <<coreVars, mainVars, decVars, appVars, ndec, drained>>

DriverEos ==
    /\ Output # None /\ enable[Output] /\ event = "NONE" /\ ~ drained
    /\ event' = "EOS" /\ drained' = TRUE
    /\ \/ /\ (LaxDriver /\ ~ resync) \/ script = Script
          /\ UNCHANGED <<pic, lastf, done>>
       \/ Streaming /\ Free /\ Fill(0, TRUE)
       \/ /\ Streaming /\ done[Capture] > 0
          /\ lastf' = [lastf EXCEPT ![queued[Capture][done[Capture]]] = TRUE]
          /\ UNCHANGED <<pic, done>>
    /\ UNCHANGED <<chnVars, pipe, idles, queued, refcnt, live, ctlVars, failed,
                   mainVars, decVars, appVars, script, ndec, resync>>

-----------------------------------------------------------------------------
CoreStep == CoreNext /\ UNCHANGED <<mainVars, decVars, drvVars, appVars>>

(* The loop thread *)
MainNext ==
    \/ CoreStep
    \/ pitcher_start \/ pitcher_start_end \/ stop_chn \/ stop_chn_end
    \/ run_chn \/ pitcher_loop_run \/ timer_func \/ main_exit
    \/ \E c \in Chn : \/ \E why \in {"timeout", "event"} : poll_func(c, why)
                      \/ teardown(c)
                      \/ process_chn_active(c)
                      \/ ifile_run(c) \/ convert_run(c) \/ ofile_run(c) \/ run_v4l2(c)
                      \/ check_ctrl_ready(c)
                      \/ is_decoder_output_finish(c) \/ check_v4l2_ready(c)

DriverNext == DriverDecode \/ DriverChange \/ DriverEos

Done == phase = "exit" /\ UNCHANGED vars

Next == MainNext \/ DriverNext \/ sig_handler \/ Done

Spec == Init /\ [][Next]_vars

(* The loop thread keeps running and the driver keeps decoding; nothing     *)
(* makes a signal arrive.  The events of a stream are finite and edge       *)
(* triggered, so the timer is not starved by them.                          *)
FairSpec == /\ Spec
            /\ WF_vars(MainNext) /\ WF_vars(DriverNext)
            /\ SF_vars(timer_func)
-----------------------------------------------------------------------------
(* Properties. *)

(* Who holds a reference to a buffer: a place in an idle list, an input     *)
(* pipe or the list of buffers to put, or a suspended push that took the    *)
(* buffer or reads it as its input.                                         *)
At(s, b) == {j \in DOMAIN s : s[j] = b}
Places(kind, c, A) == {<<kind, c, i>> : i \in A}
InQueues(kind, q, b) == UNION {Places(kind, c, At(q[c], b)) : c \in Chn}
Holders(b) ==
    InQueues("idles", idles, b) \cup InQueues("pipe", pipe, b)
    \cup Places("todo", None, At(todo, b))
    \cup Places("buf", None, {j \in DOMAIN stack : stack[j].own /\ stack[j].buf = b})
    \cup Places("inb", None, {j \in DOMAIN stack : stack[j].inb = b})

(* The reference count of a buffer is the number of its holders at every    *)
(* moment, however the nested runs of pipe->notify interleave gets and puts *)
(* (obj.c, pipe.c 131-164, unit.c 275-331).                                 *)
RefcountExact == \A b \in Buffer : refcnt[b] = Cardinality(Holders(b))

(* A buffer somebody holds, or the driver has, is not freed: the release    *)
(* callback decides on deletion from flags of the owning channel that other *)
(* channels' runs change (buffer.c 58-80 and the recycle callbacks).        *)
NoDangling ==
    /\ \A b \in Buffer : Holders(b) # {} => b \in live
    /\ \A c \in Chn : ToSet(queued[c]) \subseteq live

(* pitcher_start met a failure and stopped the active channels abruptly. *)
Aborted == failed /\ Boot \cap MayFail # {}

(* Unless pitcher_start was aborted, a buffer without a holder is with the  *)
(* driver or freed: pitcher_put_unit_buffer_idle, which drops a buffer when *)
(* the unit is disabled, is never reached that way (unit.c 319-331).        *)
NoLeak ==
    \A b \in live : \/ refcnt[b] > 0
                    \/ \E c \in Chn : b \in ToSet(queued[c])
                    \/ Aborted

(* While the loop runs, a channel stops after its sinks (core.c 415-432),   *)
(* and a channel whose push is suspended is still active when it resumes.   *)
StopOrder ==
    phase = "run" =>
        /\ \A c, d \in Chn : Source[d] = c /\ state[c] = "STOPPED" => state[d] = "STOPPED"
        /\ \A i \in DOMAIN stack : state[stack[i].chn] = "ACTIVE"

(* When a channel has stopped, every buffer it allocated has come back and  *)
(* is freed, also the ones its sinks were holding (core.c 415-432, unit.c   *)
(* 230-257, v4l2.c 963-1005).                                               *)
ReclaimedAtStop ==
    \A c \in Chn : state[c] = "STOPPED" /\ ~ failed => live \cap ToSet(Bufs[c]) = {}

(* Buffers are safe: counted exactly, alive while anybody holds them, never  *)
(* lost, and all freed when their channel has stopped.                      *)
BuffersSafe == RefcountExact /\ NoDangling /\ NoLeak /\ ReclaimedAtStop

(* A buffer is never left in the pipe of a stopped channel, where nobody    *)
(* would read it: the sinks a push found running do not stop before their   *)
(* turn (core.c 258-277, 723-739).                                          *)
PipeServed == \A c \in Chn : pipe[c] # <<>> /\ ~ failed => state[c] # "STOPPED"

(* Every output file receives the pictures in order, without a gap or a     *)
(* repetition, whichever path they take and whenever the process is told to *)
(* stop (mxc_v4l2_vpu_enc.c 2100-2134).                                     *)
InOrder == \A c \in Chn : \A i \in DOMAIN written[c] : written[c][i] = i

(* With a driver that signals a change over filled buffers pictures may be  *)
(* lost, but none is repeated or overtakes another.                         *)
Increasing ==
    \A c \in Chn : \A i, j \in DOMAIN written[c] : i < j => written[c][i] < written[c][j]

(* When all channels have stopped by themselves, every output file has      *)
(* every picture of the source, and a decoder has not stopped before the    *)
(* driver's end of stream, in spite of the stops and restarts of its        *)
(* capture channel on the way (mxc_v4l2_vpu_enc.c 295-313, 426-540).        *)
Complete ==
    phase = "run" /\ (\A c \in Chn : state[c] = "STOPPED") /\ ~ g_exit /\ ~ failed
    => /\ Output # None => drained
       /\ \A c \in Chn : Kind[c] = "ofile" =>
             Len(written[c]) = (IF Output = None THEN FrameNum ELSE ndec)

(* Every output file receives every picture, once and in order, and only an *)
(* interruption or a failure cuts it short (mxc_v4l2_vpu_enc.c 2100-2134).  *)
Delivered == InOrder /\ Complete

(* Unless pitcher_start was aborted, the process ends with no buffer        *)
(* allocated, even when a sink could not be restarted and its pipe was      *)
(* never read; what remains are the slots of a capture queue whose          *)
(* VIDIOC_STREAMON failed (mxc_v4l2_vpu_enc.c 3752-3781, pipe.c 54-75).     *)
NoLeakAtExit ==
    phase = "exit" /\ ~ Aborted => live = UNION {ToSet(queued[c]) : c \in Chn}

(* The pipeline comes to its end: no stage waits for a buffer another stage *)
(* keeps, and the end of the source reaches main (core.c 472-487).          *)
Terminates == <>(phase = "exit")

(* Unless a channel could not be started, the program ends by itself, also  *)
(* under a driver that signals changes over filled buffers and reports its  *)
(* end with EPIPE alone (mxc_v4l2_vpu_enc.c 496-540, core.c 472-487).       *)
EndsOrFails == <>(phase = "exit" \/ failed)

(* SIGINT ends the process, also when a channel could not start or restart  *)
(* and the pipeline is stuck (mxc_v4l2_vpu_enc.c 247-262).                  *)
SignalStops == g_exit ~> phase = "exit"

-----------------------------------------------------------------------------
(* The strengthening of StopOrder that every step preserves. *)

(* c is registered before d *)
Before(c, d) == \E i, j \in DOMAIN Order : i < j /\ Order[i] = c /\ Order[j] = d

(* The suspended pushes and the channel entered next follow the pipes, so   *)
(* no channel is entered while it is suspended.                             *)
ChainInv ==
    /\ \A i, j \in DOMAIN stack : i < j => Before(stack[i].chn, stack[j].chn)
    /\ call # None => \A i \in DOMAIN stack : Before(stack[i].chn, call)

(* Channels run only while the loop does, and a unit is stopped between     *)
(* two calls.                                                               *)
LoopInv ==
    /\ phase # "run" => call = None /\ stack = <<>>
    /\ phase = "start" => closing = None /\ todo = <<>>
    /\ closing # None => call = None

(* How far the passes of pitcher_start have come. *)
StartInv ==
    /\ phase = "start" =>
          /\ \A c \in Chn \ Boot : state[c] = "STOPPED"
          /\ failed \/ \A i \in DOMAIN Order :
                i < cursor /\ Order[i] \in Boot => state[Order[i]] = "ACTIVE"
    /\ phase = "abort" =>
          \A i \in DOMAIN Order :
             i < cursor /\ Order[i] # closing => state[Order[i]] = "STOPPED"

(* A channel whose unit is being stopped has no running sink. *)
ClosingInv ==
    phase = "run" /\ closing # None =>
        /\ state[closing] = "STOPPING"
        /\ \A d \in Chn : Source[d] = closing => state[d] = "STOPPED"

(* A file that has been read to its end says so. *)
FileInv == \A c \in Chn : Kind[c] = "ifile" /\ nread[c] = FrameNum => end[c]

(* The driver fills only buffers it was given. *)
DoneInv == \A c \in Chn : done[c] <= Len(queued[c])

PipelineInv == /\ TypeOK /\ FileInv /\ DoneInv
               /\ StopOrder /\ ChainInv /\ LoopInv /\ StartInv /\ ClosingInv

-----------------------------------------------------------------------------
(* The strengthening of BuffersSafe, PipeServed and NoLeakAtExit. *)

(* The channels a buffer of c can reach: the least set that holds the sinks *)
(* of c and the sinks of its members.                                       *)
SinksIn(c, D) == \A d \in Chn : Source[d] = c => d \in D
Below(c) == {d \in Chn : \A D \in SUBSET Chn :
                SinksIn(c, D) /\ (\A e \in D : SinksIn(e, D)) => d \in D}

(* The decoder node is registered before pitcher_start, and every file that *)
(* is written to is fed by an input file or by the decoder.                 *)
ASSUME FedAssumption ==
    /\ Output = None =>
          \A d \in Chn : Kind[d] = "ofile" => \E r \in Boot : Kind[r] = "ifile" /\ d \in Below(r)
    /\ Output # None =>
          /\ Output \in Boot /\ Kind[Output] = "output"
          /\ \A d \in Chn : Kind[d] = "ofile" => d \in Below(Capture)

(* A buffer lies only where its owner or a channel below it can put it. *)
IdlesOwned == \A c \in Chn : \A i \in DOMAIN idles[c] : Owner(idles[c][i]) = c
QueuedOwned == \A c \in Chn : \A i \in DOMAIN queued[c] : Owner(queued[c][i]) = c
PipeBelow == \A d \in Chn : \A i \in DOMAIN pipe[d] : d \in Below(Owner(pipe[d][i]))

(* A suspended push holds a reference to what it pushes. *)
Holding(f) ==
    /\ f.own \/ f.inb = f.buf
    /\ f.own => Owner(f.buf) = f.chn
    /\ f.inb # None => f.chn \in Below(Owner(f.inb))
FramesHold == \A i \in DOMAIN stack : Holding(stack[i])

PlaceInv == IdlesOwned /\ QueuedOwned /\ PipeBelow /\ FramesHold

(* The driver has each of its buffers once, and nobody else refers to it. *)
QueuedInv ==
    /\ \A c \in Chn : \A i \in DOMAIN queued[c] : refcnt[queued[c][i]] = 0
    /\ \A c \in Chn : \A i, j \in DOMAIN queued[c] : queued[c][i] = queued[c][j] => i = j

(* The list of buffers to put is complete before a channel runs. *)
PutsFirst == call # None => todo = <<>>

(* A unit that is being stopped is disabled and its queues are empty. *)
StopEmpties ==
    closing # None =>
        /\ phase \in {"run", "abort"} /\ ~ enable[closing]
        /\ pipe[closing] = <<>> /\ idles[closing] = <<>> /\ queued[closing] = <<>>

(* Only an abort disables a unit whose channel is still active. *)
EnabledInv ==
    \A c \in Chn : state[c] = "ACTIVE" => enable[c] \/ (closing = c /\ phase = "abort")

AbortInv == phase = "abort" \/ (phase = "start" /\ failed) => Aborted

StoppingInv == PutsFirst /\ StopEmpties /\ EnabledInv /\ AbortInv

(* The sinks a push has started and not yet served are still running. *)
SinksUp(f) ==
    LET n == Len(Outs[f.chn])
    IN  \A k \in 1 .. n :
           k < f.pos /\ f.pos <= k + n /\ ~ failed => state[Outs[f.chn][k]] # "STOPPED"

(* What runs above a suspended push is the sink it served last. *)
ServedLast ==
    \A d \in Chn :
        stack # <<>> /\ (call = d \/ closing = d) =>
           LET n == Len(Outs[top.chn])
           IN  top.pos - n - 1 \in 1 .. n /\ d = Outs[top.chn][top.pos - n - 1]

ServedInv == (\A i \in DOMAIN stack : SinksUp(stack[i])) /\ ServedLast

(* Nothing is left to put or to read when the process has ended. *)
ExitInv == phase = "exit" => Idle /\ \A c \in Chn : pipe[c] = <<>> /\ idles[c] = <<>>

BufferInv == /\ BuffersSafe /\ PipeServed
             /\ PlaceInv /\ QueuedInv /\ StoppingInv /\ ServedInv /\ ExitInv

=============================================================================
