----------------------------- MODULE PipeSkip -----------------------------
(***************************************************************************)
(* The frame rate between a camera and an encoder: connect_node of          *)
(* mxc_v4l2_vpu_enc.c computes the share of frames to leave out, core.c     *)
(* and pipe.c reduce it, and every push decides with a counter.             *)
(***************************************************************************)
EXTENDS Integers

CONSTANTS Rates,     \* frame rates given on the command line
          Jpeg,      \* the encoder produces JPEG
          MaxPushed  \* bound on the frames pushed

ASSUME SkipAssumption == Rates \subseteq Nat \ {0} /\ Jpeg \in BOOLEAN /\ MaxPushed \in Nat

VARIABLES src,          \* --framerate of the camera
          dst,          \* --framerate of the encoder
          connected,    \* connect_node is done
          numerator,    \* pipe->skip
          denominator,
          idx,
          pushed,       \* frames the camera pushed
          kept          \* frames appended to the pipe

ratioVars == <<numerator, denominator, idx>>
skipVars == <<src, dst, connected, ratioVars, pushed, kept>>

(* The values the variables range over; the counter of the pipe stays below *)
(* the denominator and no more frames arrive than are sent (pipe.c 113-129).*)
SkipTypeOK ==
    /\ src \in Rates /\ dst \in Rates /\ connected \in BOOLEAN
    /\ denominator \in Nat \ {0} /\ numerator \in 0 .. denominator
    /\ idx \in 0 .. denominator - 1
    /\ pushed \in 0 .. MaxPushed /\ kept \in 0 .. pushed

(* A pipe with nothing to skip. *)
pitcher_new_pipe ==
    /\ src \in Rates /\ dst \in Rates /\ connected = FALSE
    /\ numerator = 0 /\ denominator = 1 /\ idx = 0
    /\ pushed = 0 /\ kept = 0

(* The division loop of pitcher_set_pipe_skip on a pair of numbers. *)
gcd[p \in Nat \X Nat] == IF p[2] = 0 THEN p[1] ELSE gcd[<<p[2], p[1] % p[2]>>]

pitcher_set_pipe_skip(n, d) ==
    IF d = 0 \/ n > d THEN UNCHANGED <<numerator, denominator>>
    ELSE LET m == IF n = 0 THEN 1 ELSE gcd[<<d, n>>]
         IN  numerator' = n \div m /\ denominator' = d \div m

pitcher_set_skip(n, d) == pitcher_set_pipe_skip(IF n > d THEN d ELSE n, d)

(* init_encoder_node clears the rate of a JPEG encoder. *)
framerate == IF Jpeg THEN 0 ELSE dst

(* pitcher_connect, then the share of frames to skip *)
connect_node ==
    /\ ~ connected /\ connected' = TRUE
    /\ IF src > framerate
       THEN pitcher_set_skip(src - framerate, src)
       ELSE UNCHANGED <<numerator, denominator>>
    /\ UNCHANGED <<src, dst, idx, pushed, kept>>

(* Variant: the frames of a window are skipped first. *)
NeedSkipFirst == numerator # 0 /\ idx < numerator

(* __check_is_need_skip *)
check_is_need_skip == numerator # 0 /\ idx >= denominator - numerator

(* Variant: the counter is compared before it wraps. *)
IdxLate == IF numerator = 0 THEN idx ELSE IF idx >= denominator THEN 0 ELSE idx + 1

(* The counter of the window; it only runs while frames are skipped. *)
next_idx == IF numerator = 0 THEN idx ELSE (idx + 1) % denominator

(* pitcher_pipe_push_back, as far as it decides about the frame *)
pipe_push_back ==
    /\ connected /\ pushed < MaxPushed
    /\ pushed' = pushed + 1
    /\ kept' = IF check_is_need_skip THEN kept ELSE kept + 1
    /\ idx' = next_idx
    /\ UNCHANGED <<src, dst, connected, numerator, denominator>>

Stopped == pushed = MaxPushed /\ UNCHANGED skipVars

SkipNext == connect_node \/ pipe_push_back \/ Stopped

SkipSpec == pitcher_new_pipe /\ [][SkipNext]_skipVars

-----------------------------------------------------------------------------
(* The encoder asks for fewer frames than the camera delivers. *)
Slower == src > dst

(* Whenever the requested rates divide the frames sent so far evenly, the   *)
(* encoder has received exactly its share of them: skipping by windows,     *)
(* with the ratio reduced by its common divisor, neither drifts nor waits   *)
(* for a longer window (pipe.c 113-129 and 188-216).                        *)
RateExact ==
    connected /\ Slower /\ (pushed * dst) % src = 0 => kept * src = pushed * dst

(* The encoder is never behind its rate: frames are kept first and skipped  *)
(* at the end of a window, and without a lower rate none is skipped         *)
(* (pipe.c 120, mxc_v4l2_vpu_enc.c 3502).                                   *)
NeverBehind ==
    connected => IF Slower THEN kept * src >= pushed * dst ELSE kept = pushed

(* The encoder has its exact share whenever the rates divide the frames,    *)
(* and is never behind it in between.                                       *)
RateKept == RateExact /\ NeverBehind

(* --framerate of the encoder is "set frame rate(fps)": with a rate above   *)
(* 0 a camera that has run for a second has delivered frames.               *)
RateHonoured == pushed >= src => kept > 0
=============================================================================
