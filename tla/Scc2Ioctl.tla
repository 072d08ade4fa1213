------------------------------ MODULE Scc2Ioctl ------------------------------
(***************************************************************************)
(* The ioctls of src/module_test/scc2_test_driver.c, called by several     *)
(* processes at once and serialised by scc2_test_mutex.  The SCC2 driver   *)
(* and its partitions are external: a partition is free, allocated or      *)
(* engaged; its RAM stays mapped, reads as zero and ignores writes unless  *)
(* it is engaged, and is cleared when it is released.                      *)
(*                                                                         *)
(* The contents of a partition are two halves, moved one at a time by      *)
(* copy_from_user, copy_to_user and the SCC2's own DMA, so that a transfer *)
(* can be overtaken or cut short by a fault.  The other copies of a        *)
(* handler are steps in which only the caller's own structure moves.       *)
(***************************************************************************)
EXTENDS Integers

CONSTANTS
    Procs,
    NoProc,
    Parts,      \* partitions of the SCC2, named by their virt_address
    Values,     \* what a caller stores in a partition
    Zero        \* what a cleared partition holds

ASSUME Scc2IoctlAssumption == NoProc \notin Procs /\ Zero \notin Values

VARIABLES
    scc2_test_mutex,    \* the process that holds the mutex
    part,               \* the state of each partition
    red,                \* the contents of each partition
    call                \* the ioctl each process is in

vars == <<scc2_test_mutex, part, red, call>>

\* The commands of scc2_test_driver.h; OTHER is any other number.
Commands == {"GET_CONFIGURATION", "READ_REG", "WRITE_REG", "ENCRYPT", "DECRYPT",
             "SET_ALARM", "ZEROIZE", "ALLOC_PART", "ENGAGE_PART", "ENCRYPT_PART",
             "DECRYPT_PART", "RELEASE_PART", "LOAD_PART", "READ_PART", "OTHER"}

IOCTL_SCC2_OK == 0
IOCTL_SCC2_INVALID_CMD == 25
IOCTL_SCC2_IMPROPER_ADDR == 14
IOCTL_SCC2_NO_MEMORY == 12

\* What copy_from_user and copy_to_user return when they fault: the number of
\* bytes left, some positive number.
Rest == 1

Codes == {IOCTL_SCC2_OK, -IOCTL_SCC2_INVALID_CMD, -IOCTL_SCC2_IMPROPER_ADDR,
          IOCTL_SCC2_NO_MEMORY, Rest}

Halves == 1 .. 2
Contents == [Halves -> Values \union {Zero}]
Cleared == [h \in Halves |-> Zero]

\* at: where the handler is.  part, val: what the caller's structure names.
\* black: the data read; saw: the partition when the mutex was taken.
\* scc: scc_status in the driver's copy; user: the one in the caller's.
Idle == [at |-> "user"]
Call == {Idle} \union
    [at: {"lock", "begin", "move", "finish", "unlock"}, cmd: Commands, part: Parts,
     val: Values, half: 1 .. 3, black: Contents, saw: Contents, status: Codes,
     scc: {"none", "ok", "err"}, user: {"none", "ok", "err"}, dma: BOOLEAN]

TypeOK ==
    /\ scc2_test_mutex \in Procs \union {NoProc}
    /\ part \in [Parts -> {"free", "allocated", "engaged"}]
    /\ red \in [Parts -> Contents]
    /\ call \in [Procs -> Call]

Init ==
    /\ scc2_test_mutex = NoProc
    /\ part = [x \in Parts |-> "free"]
    /\ red = [x \in Parts |-> Cleared]
    /\ call = [p \in Procs |-> Idle]

-----------------------------------------------------------------------------
(* Steps of a handler, as sets of what call[p] may become *)

\* The handler is over and returns st to scc2_test_ioctl.
Returns(c, st) == [c EXCEPT !.at = "unlock", !.status = st]

Answer(ok) == IF ok THEN "ok" ELSE "err"

\* The last copy_to_user of a handler, which returns what that leaves.
CopiesOut(c) == {Returns([c EXCEPT !.user = c.scc], IOCTL_SCC2_OK), Returns(c, Rest)}

scc2_test_get_configuration(c) ==
    {Returns([c EXCEPT !.user = "ok"], IOCTL_SCC2_OK), Returns(c, -IOCTL_SCC2_IMPROPER_ADDR)}

\* The answer of the register commands.  The structure is copied out also when
\* it could not be copied in, and whether that copy succeeds makes no difference.
RegisterReply(c) ==
    {Returns([c EXCEPT !.scc = "ok", !.user = u], IOCTL_SCC2_OK) : u \in {"ok", "none"}}
      \union {Returns([c EXCEPT !.scc = "err", !.user = u], -IOCTL_SCC2_IMPROPER_ADDR) :
                 u \in {"err", "none"}}

scc2_test_read_register(c) == RegisterReply(c)

scc2_test_write_register(c) == RegisterReply(c)

\* scc2_test_load_data and scc2_test_read_data up to the transfer.
Transfer(c) == {Returns(c, Rest), [c EXCEPT !.at = "move"]}

\* scc2_test_encrypt_part up to the SCC2: the structure, the DMA buffer and, to
\* decrypt, the black data.  A region is refused unless its partition is engaged.
scc2_test_encrypt_part(c) ==
    LET d == [c EXCEPT !.dma = TRUE]
        refused == {[d EXCEPT !.at = "finish", !.scc = "err"]}
        faulted == {[d EXCEPT !.at = "finish", !.status = Rest]}
        started == {[d EXCEPT !.at = "move", !.scc = "ok"]}
    IN  {Returns(c, Rest), Returns(c, IOCTL_SCC2_NO_MEMORY)}
          \union refused
          \union (IF c.cmd = "DECRYPT_PART" THEN faulted ELSE {})
          \union (IF part[c.part] = "engaged" THEN started ELSE {})

\* What the transfers of c read or write.
Reads(c) == c.cmd \in {"READ_PART", "ENCRYPT_PART"}
Writes(c) == c.cmd \in {"LOAD_PART", "DECRYPT_PART"} /\ part[c.part] = "engaged"

FinishEarly(c) ==
    IF c.status # 0 THEN {Returns(c, c.status)} ELSE CopiesOut([c EXCEPT !.dma = FALSE])

\* The end of scc2_test_encrypt_part: do_encrypt_part copies the black data out
\* whatever the SCC2 said; the buffer is freed; the structure goes back.
Finish(c) ==
    LET d == [c EXCEPT !.dma = FALSE]
    IN  IF c.status # 0
          THEN {Returns(d, c.status)}
          ELSE CopiesOut(d)

-----------------------------------------------------------------------------
(* The handlers *)

\* An application calls ioctl with any command, partition and value.
Call_ioctl(p) ==
    /\ call[p] = Idle
    /\ \E cmd \in Commands, x \in Parts, v \in Values :
         call' = [call EXCEPT ![p] =
           [at |-> "lock", cmd |-> cmd, part |-> x, val |-> v, half |-> 1,
            black |-> Cleared, saw |-> Cleared, status |-> IOCTL_SCC2_OK,
            scc |-> "none", user |-> "none", dma |-> FALSE]]
    /\ UNCHANGED <<scc2_test_mutex, part, red>>

LockAlways(p) ==
    /\ call[p].at = "lock"
    /\ scc2_test_mutex' = p
    /\ call' = [call EXCEPT ![p].at = "begin", ![p].saw = red[call[p].part]]
    /\ UNCHANGED <<part, red>>

\* mutex_lock at the start of scc2_test_ioctl.
Lock(p) ==
    /\ call[p].at = "lock"
    /\ scc2_test_mutex = NoProc
    /\ scc2_test_mutex' = p
    /\ call' = [call EXCEPT ![p].at = "begin", ![p].saw = red[call[p].part]]
    /\ UNCHANGED <<part, red>>

\* The switch of scc2_test_ioctl, for the handlers that leave partitions alone.
\* ENCRYPT, DECRYPT and ZEROIZE have no case.
Dispatch(c) ==
    CASE c.cmd = "GET_CONFIGURATION" -> scc2_test_get_configuration(c)
      [] c.cmd = "READ_REG" -> scc2_test_read_register(c)
      [] c.cmd = "WRITE_REG" -> scc2_test_write_register(c)
      [] c.cmd = "SET_ALARM" -> {Returns(c, IOCTL_SCC2_OK)}
      [] c.cmd \in {"LOAD_PART", "READ_PART"} -> Transfer(c)
      [] c.cmd \in {"ENCRYPT_PART", "DECRYPT_PART"} -> scc2_test_encrypt_part(c)
      [] c.cmd \in {"ALLOC_PART", "ENGAGE_PART", "RELEASE_PART"} -> {Returns(c, Rest)}
      [] OTHER -> {Returns(c, -IOCTL_SCC2_INVALID_CMD)}

Begin(p) ==
    /\ call[p].at = "begin"
    /\ \E c \in Dispatch(call[p]) : call' = [call EXCEPT ![p] = c]
    /\ UNCHANGED <<scc2_test_mutex, part, red>>

At(p, cmd) == call[p].at = "begin" /\ call[p].cmd = cmd

\* The handler answers ok, or err if the SCC2 refuses, and copies that out.
Replies(p, ok) ==
    \E c \in CopiesOut([call[p] EXCEPT !.scc = Answer(ok)]) : call' = [call EXCEPT ![p] = c]

scc2_test_alloc_part(p) ==
    /\ At(p, "ALLOC_PART")
    /\ \/ \E x \in Parts :
            /\ part[x] = "free"
            /\ part' = [part EXCEPT ![x] = "allocated"]
            /\ Replies(p, TRUE)
       \/ UNCHANGED part /\ Replies(p, FALSE)
    /\ UNCHANGED <<scc2_test_mutex, red>>

scc2_test_engage_part(p) ==
    /\ At(p, "ENGAGE_PART")
    /\ \/ /\ part[call[p].part] = "allocated"
          /\ part' = [part EXCEPT ![call[p].part] = "engaged"]
          /\ Replies(p, TRUE)
       \/ UNCHANGED part /\ Replies(p, FALSE)
    /\ UNCHANGED <<scc2_test_mutex, red>>

\* scc_release_partition clears the partition.
scc2_test_release_part(p) ==
    /\ At(p, "RELEASE_PART")
    /\ \/ /\ part[call[p].part] # "free"
          /\ part' = [part EXCEPT ![call[p].part] = "free"]
          /\ red' = [red EXCEPT ![call[p].part] = Cleared]
          /\ Replies(p, TRUE)
       \/ UNCHANGED <<part, red>> /\ Replies(p, FALSE)
    /\ UNCHANGED scc2_test_mutex

\* One half is moved: by copy_from_user in scc2_test_load_data, by copy_to_user
\* in scc2_test_read_data, by the SCC2 in do_encrypt_part and do_decrypt_part.
Move(p) ==
    /\ call[p].at = "move" /\ call[p].half \in Halves
    /\ LET c == call[p]
           d == [c EXCEPT !.half = @ + 1,
                          !.black[c.half] = IF Reads(c) THEN red[c.part][c.half] ELSE @]
       IN  /\ red' = IF Writes(c) THEN [red EXCEPT ![c.part][c.half] = c.val] ELSE red
           /\ call' = [call EXCEPT ![p] = d]
    /\ UNCHANGED <<scc2_test_mutex, part>>

CopyEndsRetries(p) ==
    /\ call[p].at = "move" /\ call[p].cmd \in {"LOAD_PART", "READ_PART"}
    /\ LET c == call[p]
       IN  call' = [call EXCEPT ![p] = IF c.half \in Halves
                                         THEN [c EXCEPT !.half = 1]
                                         ELSE Returns([c EXCEPT !.scc = "ok"], IOCTL_SCC2_OK)]
    /\ UNCHANGED <<scc2_test_mutex, part, red>>

\* A copy of scc2_test_load_data or scc2_test_read_data faults on the way, or
\* is complete; neither handler copies scc_status out.
CopyEnds(p) ==
    /\ call[p].at = "move" /\ call[p].cmd \in {"LOAD_PART", "READ_PART"}
    /\ LET c == call[p]
       IN  call' = [call EXCEPT ![p] = IF c.half \in Halves
                                         THEN Returns([c EXCEPT !.scc = "ok"], Rest)
                                         ELSE Returns([c EXCEPT !.scc = "ok"], IOCTL_SCC2_OK)]
    /\ UNCHANGED <<scc2_test_mutex, part, red>>

\* The SCC2 is done; do_encrypt_part copies to the caller.
RegionEnds(p) ==
    /\ call[p].at = "move" /\ call[p].cmd \in {"ENCRYPT_PART", "DECRYPT_PART"}
    /\ call[p].half \notin Halves
    /\ call' = [call EXCEPT ![p].at = "finish"]
    /\ UNCHANGED <<scc2_test_mutex, part, red>>

FinishPart(p) ==
    /\ call[p].at = "finish"
    /\ \E c \in Finish(call[p]) : call' = [call EXCEPT ![p] = c]
    /\ UNCHANGED <<scc2_test_mutex, part, red>>

\* mutex_unlock and the return to the application.
Unlock(p) ==
    /\ call[p].at = "unlock"
    /\ scc2_test_mutex' = NoProc
    /\ call' = [call EXCEPT ![p] = Idle]
    /\ UNCHANGED <<part, red>>

-----------------------------------------------------------------------------
Handler(p) ==
    \/ Begin(p)
    \/ scc2_test_alloc_part(p)
    \/ scc2_test_engage_part(p)
    \/ scc2_test_release_part(p)
    \/ Move(p)
    \/ CopyEnds(p)
    \/ RegionEnds(p)
    \/ FinishPart(p)
    \/ Unlock(p)

Next == \E p \in Procs : Call_ioctl(p) \/ Lock(p) \/ Handler(p)

\* A handler in the kernel runs on, and a kernel mutex is handed to its waiters
\* in turn; an application need not call ioctl.
Fairness == \A p \in Procs : WF_vars(Handler(p)) /\ SF_vars(Lock(p))

Spec == Init /\ [][Next]_vars /\ Fairness

-----------------------------------------------------------------------------
(* Properties *)

\* The data an ioctl hands to its caller with a return of 0, and with OK in
\* scc_status if it writes that, are what the partition held when the ioctl took
\* scc2_test_mutex; the data it stored with that answer are all there when it
\* ends.  No two transfers mix, and none runs into a release.
Untorn ==
    \A p \in Procs :
      LET c == call[p]
      IN  c.at = "unlock" /\ c.cmd \in {"LOAD_PART", "READ_PART", "ENCRYPT_PART", "DECRYPT_PART"} =>
            (c.status = 0 /\ c.user # "err" =>
               /\ Reads(c) => c.black = c.saw
               /\ Writes(c) => red[c.part] = [h \in Halves |-> c.val]
               /\ c.cmd = "DECRYPT_PART" => Writes(c))

\* Whatever fails on the way, an ioctl ends with the DMA buffer of
\* scc2_test_encrypt_part freed, and only the holder of the mutex has one.
DmaFreed ==
    \A p \in Procs :
      /\ call[p].at = "unlock" => ~call[p].dma
      /\ call[p].at # "user" /\ call[p].at # "unlock" =>
           (call[p].dma => scc2_test_mutex = p)

\* Every ioctl returns: scc2_test_mutex is given back on every path of the
\* switch, an invalid command's included.
Returned == \A p \in Procs : call[p].at # "user" ~> call[p].at = "user"

-----------------------------------------------------------------------------
(* What the source says and TLC refutes. *)

\* scc_status is the "Returned status of call to scc2 driver": an ioctl on a
\* partition's data that returns 0 has written it.
Reported ==
    \A p \in Procs :
      call[p].at = "unlock" /\ call[p].status = 0
        /\ call[p].cmd \in {"LOAD_PART", "READ_PART", "ENCRYPT_PART", "DECRYPT_PART"} =>
          call[p].user # "none"

\* scc2_test_ioctl "handles the following valid commands", SCC2_ENCRYPT and
\* SCC2_DECRYPT among them: none is answered as an invalid command.
ValidHandled ==
    \A p \in Procs :
      call[p].at = "unlock" /\ call[p].status = -IOCTL_SCC2_INVALID_CMD =>
        call[p].cmd \notin {"GET_CONFIGURATION", "READ_REG", "WRITE_REG", "ENCRYPT", "DECRYPT"}
=============================================================================
