------------------------------ MODULE RngDriver ------------------------------
(***************************************************************************)
(* The open, ioctl and release handlers of src/module_test/                *)
(* rng_test_driver.c, for several files used by several threads at once.   *)
(* External are the SHW layer, where each open file is a registered user,  *)
(* and the VFS, which calls release when a file has been closed and the    *)
(* last ioctl on it has returned.                                          *)
(*                                                                         *)
(* Copies from and to user space may fault, memory may run out and the SHW *)
(* layer may refuse; each is a choice.  fsl_shw_get_random and             *)
(* fsl_shw_add_entropy may sleep, so their callers are split there.  The   *)
(* SHW layer is taken to refuse a request without a buffer.                *)
(***************************************************************************)
EXTENDS Naturals

CONSTANTS
    Threads,    \* every one may use every file
    Files,      \* open file descriptions
    Ctxs,       \* pieces of memory for user contexts
    NoCtx       \* the NULL private pointer

ASSUME RngDriverAssumption == NoCtx \notin Ctxs

VARIABLES
    heap,       \* the contexts allocated
    users,      \* the contexts registered with the SHW layer
    file,       \* the VFS's state of each file
    private,    \* the private pointer of each file
    call        \* the ioctl each thread is in

rngVars == <<heap, users, file, private, call>>

Commands == {"READ_REG", "WRITE_REG", "ADD_ENTROPY", "GET_RANDOM", "OTHER"}

Codes == {"OK", "FAIL", "BAD_ADDRESS", "NO_MEMORY"}

\* at: where the handler is.  ctx: user_ctx.  buf: data_buffer or entropy is
\* allocated.  fed: where the entropy given to the RNG came from.  rng: the
\* function_return_code in the driver's copy; user: the one in the caller's.
Idle == [at |-> "user"]
Call == {Idle} \union
    [at: {"begin", "shw", "finish", "return"}, cmd: Commands, file: Files,
     ctx: Ctxs \union {NoCtx}, buf: BOOLEAN, fed: {"none", "caller", "heap"},
     rng: {"none", "ok", "err"}, user: {"none", "ok", "err"}, code: Codes]

RngTypeOK ==
    /\ heap \subseteq Ctxs
    /\ users \subseteq Ctxs
    /\ file \in [Files -> {"closed", "open", "closing"}]
    /\ private \in [Files -> Ctxs \union {NoCtx}]
    /\ call \in [Threads -> Call]

RngInit ==
    /\ heap = {}
    /\ users = {}
    /\ file = [f \in Files |-> "closed"]
    /\ private = [f \in Files |-> NoCtx]
    /\ call = [p \in Threads |-> Idle]

-----------------------------------------------------------------------------
(* Files *)

OpenShared(f) ==
    /\ file[f] = "closed"
    /\ \E c \in Ctxs \ heap :
         /\ heap' = heap \union {c}
         /\ \/ /\ users' = users \union {c}
               /\ private' = [g \in Files |-> IF g = f \/ file[g] # "closed" THEN c ELSE private[g]]
               /\ file' = [file EXCEPT ![f] = "open"]
            \/ UNCHANGED <<users, private, file>>
    /\ UNCHANGED call

\* The context is allocated and registered, or allocated and refused, in which
\* case nothing frees it; without memory nothing changes.
rng_test_open(f) ==
    /\ file[f] = "closed"
    /\ \E c \in Ctxs \ heap :
         /\ heap' = heap \union {c}
         /\ \/ /\ users' = users \union {c}
               /\ private' = [private EXCEPT ![f] = c]
               /\ file' = [file EXCEPT ![f] = "open"]
            \/ UNCHANGED <<users, private, file>>
    /\ UNCHANGED call

\* A thread closes the file; another may still be in an ioctl on it.
Close(f) ==
    /\ file[f] = "open"
    /\ file' = [file EXCEPT ![f] = "closing"]
    /\ UNCHANGED <<heap, users, private, call>>

InUse(f) == \E p \in Threads : call[p] # Idle /\ call[p].file = f

rng_test_release(f) ==
    /\ file[f] = "closing"
    /\ ~InUse(f)
    /\ users' = users \ {private[f]}
    /\ heap' = heap \ {private[f]}
    /\ private' = [private EXCEPT ![f] = NoCtx]
    /\ file' = [file EXCEPT ![f] = "closed"]
    /\ UNCHANGED call

-----------------------------------------------------------------------------
(* Steps of a handler, as sets of what call[p] may become *)

Returns(c, code) == [c EXCEPT !.at = "return", !.code = code]

\* A copy_to_user of the structure that ends a handler.
CopiesOut(c) == {Returns([c EXCEPT !.user = c.rng], "OK"), Returns(c, "BAD_ADDRESS")}

\* rng_read_register and rng_write_register answer at once.
RegisterReply(c) ==
    {Returns(c, "BAD_ADDRESS")}
      \union CopiesOut([c EXCEPT !.rng = "ok"]) \union CopiesOut([c EXCEPT !.rng = "err"])

rng_test_read_register(c) == RegisterReply(c)

rng_test_write_register(c) == RegisterReply(c)

\* rng_test_get_random up to the SHW layer; it does not look at data_buffer.
rng_test_get_random(c) ==
    {Returns(c, "BAD_ADDRESS")}
      \union {[c EXCEPT !.at = "shw", !.buf = b] : b \in BOOLEAN}

\* rng_test_add_entropy up to the SHW layer; the buffer is as it was allocated.
rng_test_add_entropy(c) ==
    {Returns(c, "BAD_ADDRESS"), Returns(c, "NO_MEMORY"),
     [c EXCEPT !.at = "shw", !.buf = TRUE, !.fed = "heap"]}

GetRandomKeeps(c) ==
    IF c.rng = "ok"
      THEN {Returns([c EXCEPT !.user = u, !.buf = FALSE], code) :
              u \in {"none", c.rng}, code \in {"OK", "BAD_ADDRESS"}}
      ELSE CopiesOut(c)

\* The rest of rng_test_get_random: the structure goes back, then, if the RNG
\* said OK, the data, whose copy decides what is returned; the buffer is freed.
GetRandomEnds(c) ==
    LET d == [c EXCEPT !.buf = FALSE]
    IN  IF c.rng = "ok"
          THEN {Returns([d EXCEPT !.user = u], code) :
                  u \in {"none", c.rng}, code \in {"OK", "BAD_ADDRESS"}}
          ELSE CopiesOut(d)

AddEntropyEnds(c) == CopiesOut([c EXCEPT !.buf = FALSE])

\* What the SHW layer may answer.
ShwAnswers(c) == IF c.buf THEN {"ok", "err"} ELSE {"err"}

\* The switch of rng_test_ioctl.
Dispatch(c) ==
    CASE c.cmd = "GET_RANDOM" /\ c.ctx # NoCtx -> rng_test_get_random(c)
      [] c.cmd = "ADD_ENTROPY" /\ c.ctx # NoCtx -> rng_test_add_entropy(c)
      [] c.cmd = "READ_REG" -> rng_test_read_register(c)
      [] c.cmd = "WRITE_REG" -> rng_test_write_register(c)
      [] OTHER -> {Returns(c, "FAIL")}

-----------------------------------------------------------------------------
\* A thread calls ioctl; the handler takes user_ctx from the file.
rng_test_ioctl(p) ==
    /\ call[p] = Idle
    /\ \E f \in Files, cmd \in Commands :
         /\ file[f] = "open"
         /\ call' = [call EXCEPT ![p] =
              [at |-> "begin", cmd |-> cmd, file |-> f, ctx |-> private[f], buf |-> FALSE,
               fed |-> "none", rng |-> "none", user |-> "none", code |-> "OK"]]
    /\ UNCHANGED <<heap, users, file, private>>

Begin(p) ==
    /\ call[p].at = "begin"
    /\ \E c \in Dispatch(call[p]) : call' = [call EXCEPT ![p] = c]
    /\ UNCHANGED <<heap, users, file, private>>

\* The SHW layer answers, after the thread may have slept.
ShwAnswer(p) ==
    /\ call[p].at = "shw"
    /\ \E a \in ShwAnswers(call[p]) :
         call' = [call EXCEPT ![p].at = "finish", ![p].rng = a]
    /\ UNCHANGED <<heap, users, file, private>>

Finish(p) ==
    /\ call[p].at = "finish"
    /\ \E c \in IF call[p].cmd = "GET_RANDOM" THEN GetRandomEnds(call[p])
                                              ELSE AddEntropyEnds(call[p]) :
         call' = [call EXCEPT ![p] = c]
    /\ UNCHANGED <<heap, users, file, private>>

Return(p) ==
    /\ call[p].at = "return"
    /\ call' = [call EXCEPT ![p] = Idle]
    /\ UNCHANGED <<heap, users, file, private>>

RngNext ==
    \/ \E f \in Files : rng_test_open(f) \/ Close(f) \/ rng_test_release(f)
    \/ \E p \in Threads : rng_test_ioctl(p) \/ Begin(p) \/ ShwAnswer(p) \/ Finish(p) \/ Return(p)

RngSpec == RngInit /\ [][RngNext]_rngVars

-----------------------------------------------------------------------------
(* Properties *)

\* The SHW layer's users are the contexts of the files that are open or closing,
\* one each and allocated, and an ioctl in progress, also one that sleeps while
\* its file is closed, works on the context of its file.
ContextsExact ==
    LET live == {f \in Files : file[f] # "closed"}
    IN  /\ users = {private[f] : f \in live}
        /\ users \subseteq heap
        /\ \A f, g \in live : private[f] = private[g] => f = g
        /\ \A p \in Threads :
             call[p] # Idle => call[p].file \in live /\ call[p].ctx = private[call[p].file]

\* Whatever fails on the way, an ioctl ends with its buffer freed.
BufferFreed == \A p \in Threads : call[p].at = "return" => ~call[p].buf

-----------------------------------------------------------------------------
(* What the source says and TLC refutes. *)

\* rng_test_add_entropy_t.entropy is the "Location of entropy add to RNG": what
\* the RNG is given comes from the caller.
EntropyFromCaller == \A p \in Threads : call[p] # Idle => call[p].fed # "heap"

\* rng_test_get_random means to "Copy return code back (by copying whole request
\* structure": when it returns OK, the caller has the RNG's return code.
CodeCopied ==
    \A p \in Threads :
      call[p].at = "return" /\ call[p].cmd = "GET_RANDOM" /\ call[p].code = "OK" =>
        call[p].user # "none"
=============================================================================
