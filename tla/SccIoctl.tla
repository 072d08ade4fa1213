------------------------------- MODULE SccIoctl -------------------------------
(***************************************************************************)
(* The ioctls of src/module_test/scc_test_driver.c, called by several      *)
(* processes at once: the driver has no lock.  The SCC driver below it is  *)
(* external; each of its functions is atomic and checks the owner itself.  *)
(*                                                                         *)
(* Copies from and to user space may fault, kmalloc may fail and the SCC   *)
(* may refuse; each is a choice.  A handler that consults the SCC twice,   *)
(* or sleeps in it holding memory, is split there; otherwise it is one     *)
(* step and one more for the return to the caller.                         *)
(***************************************************************************)
EXTENDS Integers

CONSTANTS
    Procs,
    Slots,      \* RED key slots of the SCC
    Owners,     \* owner_id values
    NoOwner     \* a free slot

ASSUME SccIoctlAssumption == NoOwner \notin Owners

VARIABLES
    slot,       \* the owner of each slot
    call        \* the ioctl each process is in

vars == <<slot, call>>

Commands == {"GET_CONFIGURATION", "READ_REG", "WRITE_REG", "ENCRYPT", "DECRYPT",
             "ALLOC_SLOT", "DEALLOC_SLOT", "LOAD_SLOT", "ENCRYPT_SLOT",
             "GET_SLOT_INFO", "SET_ALARM", "ZEROIZE", "INVALID"}

IOCTL_SCC_OK == 0
IOCTL_SCC_INVALID_CMD == 25
IOCTL_SCC_IMPROPER_ADDR == 14
IOCTL_SCC_NO_MEMORY == 12
IOCTL_SCC_FAILURE == 29
ENOMEM == 12

\* What copy_from_user and copy_to_user return when they fault: the number of
\* bytes left, some positive number.
Rest == 1

Codes == {IOCTL_SCC_OK, -IOCTL_SCC_INVALID_CMD, -IOCTL_SCC_IMPROPER_ADDR,
          -IOCTL_SCC_NO_MEMORY, IOCTL_SCC_FAILURE, ENOMEM, Rest}

\* at: where the handler is.  arg: what the caller's structure asks for.
\* scc: the SCC's answer in the driver's copy; user: the one in the caller's.
\* did: the SCC has done what was asked and the caller has the data.
Idle == [at |-> "user"]
Call == {Idle} \union
    [at: {"begin", "crypt", "finish", "load", "encrypt", "return"}, cmd: Commands,
     owner: Owners, slot: Slots, status: Codes, scc: {"none", "ok", "err"},
     user: {"none", "ok", "err"}, mem: SUBSET {"area_in", "area_out", "key_data"},
     did: BOOLEAN]

TypeOK ==
    /\ slot \in [Slots -> Owners \union {NoOwner}]
    /\ call \in [Procs -> Call]

Init ==
    /\ slot = [s \in Slots |-> NoOwner]
    /\ call = [p \in Procs |-> Idle]

-----------------------------------------------------------------------------
(* Steps of a handler, as sets of what call[p] may become *)

\* The handler returns st to the caller.
Returns(c, st) == [c EXCEPT !.at = "return", !.status = st]

\* The last copy_to_user of a handler: the caller sees scc, or nothing.
CopiesOut(c, st, fault) ==
    {Returns([c EXCEPT !.user = c.scc], st), Returns(c, fault)}

Answer(ok) == IF ok THEN "ok" ELSE "err"

scc_test_get_configuration(c) ==
    {Returns([c EXCEPT !.user = "ok", !.did = TRUE], IOCTL_SCC_OK),
     Returns(c, -IOCTL_SCC_IMPROPER_ADDR)}

\* The answer of the register commands.  The structure is copied out also when
\* it could not be copied in.
RegisterReply(c) ==
    CopiesOut([c EXCEPT !.scc = "err"], -IOCTL_SCC_IMPROPER_ADDR, IOCTL_SCC_FAILURE)
      \union CopiesOut([c EXCEPT !.scc = "ok", !.did = TRUE], IOCTL_SCC_OK, IOCTL_SCC_FAILURE)

scc_test_read_register(c) == RegisterReply(c)

scc_test_write_register(c) == RegisterReply(c)

\* scc_test_cipher up to scc_crypt: the structure, two areas, the input.
scc_test_cipher(c) ==
    {[c EXCEPT !.at = "finish", !.scc = "err", !.status = -IOCTL_SCC_IMPROPER_ADDR]}
      \union {[c EXCEPT !.at = "finish", !.scc = "err", !.mem = got,
                        !.status = -IOCTL_SCC_NO_MEMORY] :
                 got \in SUBSET {"area_in", "area_out"}}
      \union {[c EXCEPT !.at = "crypt", !.mem = {"area_in", "area_out"}]}

\* scc_crypt and the copy of its output.
Crypt(c) ==
    {[c EXCEPT !.at = "finish", !.scc = "ok", !.did = TRUE]}
      \union {[c EXCEPT !.at = "finish", !.scc = scc, !.did = FALSE, !.status = ENOMEM] :
                 scc \in {"ok", "err"}}

FinishEarly(c) ==
    IF c.status = -IOCTL_SCC_NO_MEMORY
      THEN CopiesOut(c, c.status, IOCTL_SCC_FAILURE)
      ELSE CopiesOut([c EXCEPT !.mem = {}], c.status, IOCTL_SCC_FAILURE)

\* The structure goes back and both areas are freed.
Finish(c) == CopiesOut([c EXCEPT !.mem = {}], c.status, IOCTL_SCC_FAILURE)

\* A handler that starts with copy_from_user and returns what that leaves.
CopyInFault(c) == {Returns(c, Rest)}

\* The end of the slot handlers.
SlotReply(c) == CopiesOut(c, 0, Rest)

-----------------------------------------------------------------------------
(* The SCC driver *)

\* scc_get_slot_info, and the check of every function that names a slot.
Owned(c) == slot[c.slot] = c.owner

\* What a function that names a slot may answer: it may refuse for other reasons.
Answers(c) == {Owned(c), FALSE}

-----------------------------------------------------------------------------
(* The handlers *)

\* An application calls ioctl with any command, owner and slot.
scc_test_ioctl(p) ==
    /\ call[p] = Idle
    /\ \E cmd \in Commands, o \in Owners, s \in Slots :
         call' = [call EXCEPT ![p] =
           [at |-> "begin", cmd |-> cmd, owner |-> o, slot |-> s, status |-> 0,
            scc |-> "none", user |-> "none", mem |-> {}, did |-> FALSE]]
    /\ UNCHANGED slot

\* The handlers that touch no slot: the switch of scc_test_ioctl.
Dispatch(c) ==
    CASE c.cmd = "GET_CONFIGURATION" -> scc_test_get_configuration(c)
      [] c.cmd = "READ_REG" -> scc_test_read_register(c)
      [] c.cmd = "WRITE_REG" -> scc_test_write_register(c)
      [] c.cmd \in {"ENCRYPT", "DECRYPT"} -> scc_test_cipher(c)
      [] c.cmd = "SET_ALARM" -> {Returns([c EXCEPT !.did = TRUE], 0)}
      [] c.cmd = "INVALID" -> {Returns(c, -IOCTL_SCC_INVALID_CMD)}
      [] OTHER -> {}

Begin(p) ==
    /\ call[p].at = "begin"
    /\ \E c \in Dispatch(call[p]) : call' = [call EXCEPT ![p] = c]
    /\ UNCHANGED slot

Cipher(p) ==
    /\ \/ /\ call[p].at = "crypt"
          /\ \E c \in Crypt(call[p]) : call' = [call EXCEPT ![p] = c]
       \/ /\ call[p].at = "finish"
          /\ \E c \in Finish(call[p]) : call' = [call EXCEPT ![p] = c]
    /\ UNCHANGED slot

At(p, cmd) == call[p].at = "begin" /\ call[p].cmd = cmd

\* The structure of a slot command cannot be read.
SlotFault(p) ==
    /\ call[p].at = "begin"
    /\ call[p].cmd \in {"ALLOC_SLOT", "DEALLOC_SLOT", "LOAD_SLOT", "ENCRYPT_SLOT", "GET_SLOT_INFO"}
    /\ \E c \in CopyInFault(call[p]) : call' = [call EXCEPT ![p] = c]
    /\ UNCHANGED slot

scc_test_zeroize(p) ==
    /\ At(p, "ZEROIZE")
    /\ \E ok \in BOOLEAN :
         \E c \in SlotReply([call[p] EXCEPT !.scc = Answer(ok), !.did = ok]) :
              call' = [call EXCEPT ![p] = c]
    /\ UNCHANGED slot

scc_test_alloc_slot(p) ==
    /\ At(p, "ALLOC_SLOT")
    /\ \/ \E s \in Slots :
            /\ slot[s] = NoOwner
            /\ slot' = [slot EXCEPT ![s] = call[p].owner]
            /\ \E c \in SlotReply([call[p] EXCEPT !.slot = s, !.scc = "ok", !.did = TRUE]) :
                 call' = [call EXCEPT ![p] = c]
       \/ /\ UNCHANGED slot
          /\ \E c \in SlotReply([call[p] EXCEPT !.scc = "err"]) : call' = [call EXCEPT ![p] = c]

scc_test_dealloc_slot(p) ==
    /\ At(p, "DEALLOC_SLOT")
    /\ \E ok \in Answers(call[p]) :
         /\ slot' = IF ok THEN [slot EXCEPT ![call[p].slot] = NoOwner] ELSE slot
         /\ \E c \in SlotReply([call[p] EXCEPT !.scc = Answer(ok), !.did = ok]) :
              call' = [call EXCEPT ![p] = c]

scc_test_get_slot_info(p) ==
    /\ At(p, "GET_SLOT_INFO")
    /\ \E ok \in Answers(call[p]) :
         \E c \in SlotReply([call[p] EXCEPT !.scc = Answer(ok), !.did = ok]) :
           call' = [call EXCEPT ![p] = c]
    /\ UNCHANGED slot

\* scc_test_load_slot up to the load: the owner is checked, then memory is taken
\* and the key copied in.  A key that cannot be read leaves scc_status at the
\* answer of the check, and the fault's status is overwritten by the last copy.
scc_test_load_slot(p) ==
    /\ At(p, "LOAD_SLOT")
    /\ LET c == call[p]
           k == [c EXCEPT !.scc = "ok", !.mem = {"key_data"}]
       IN  \E d \in IF ~Owned(c)
                      THEN SlotReply([c EXCEPT !.scc = "err"])
                      ELSE SlotReply([c EXCEPT !.scc = "err"])   \* no memory
                             \union SlotReply(k)                 \* no key
                             \union {[k EXCEPT !.at = "load"]} :
             call' = [call EXCEPT ![p] = d]
    /\ UNCHANGED slot

\* scc_load_slot or scc_decrypt_slot, after other processes may have run.
Load(p) ==
    /\ call[p].at = "load"
    /\ \E ok \in Answers(call[p]) :
         \E c \in SlotReply([call[p] EXCEPT !.scc = Answer(ok), !.did = ok]) :
           call' = [call EXCEPT ![p] = c]
    /\ UNCHANGED slot

\* scc_test_encrypt_slot up to the encryption.
scc_test_encrypt_slot(p) ==
    /\ At(p, "ENCRYPT_SLOT")
    /\ LET c == call[p]
       IN  \E d \in IF ~Owned(c)
                      THEN SlotReply([c EXCEPT !.scc = "err"])
                      ELSE SlotReply([c EXCEPT !.scc = "err"])   \* no memory
                             \union {[c EXCEPT !.at = "encrypt", !.scc = "ok",
                                               !.mem = {"key_data"}]} :
             call' = [call EXCEPT ![p] = d]
    /\ UNCHANGED slot

EncryptStale(p) ==
    /\ call[p].at = "encrypt"
    /\ \E ok \in Answers(call[p]) :
         \E c \in SlotReply([call[p] EXCEPT !.did = ok]) : call' = [call EXCEPT ![p] = c]
    /\ UNCHANGED slot

\* scc_encrypt_slot, after other processes may have run, and the two copies out;
\* the second is made only if the first succeeded.
Encrypt(p) ==
    /\ call[p].at = "encrypt"
    /\ \E ok \in Answers(call[p]) :
         LET replied == SlotReply([call[p] EXCEPT !.scc = Answer(ok), !.did = ok])
         IN  \E c \in IF ok THEN replied \union {Returns(call[p], Rest)} ELSE replied :
               call' = [call EXCEPT ![p] = c]
    /\ UNCHANGED slot

\* The ioctl is over; key_data, if any, is never freed.
Return(p) ==
    /\ call[p].at = "return"
    /\ call' = [call EXCEPT ![p] = Idle]
    /\ UNCHANGED slot

-----------------------------------------------------------------------------
ProcNext(p) ==
    \/ scc_test_ioctl(p)
    \/ Begin(p)
    \/ Cipher(p)
    \/ SlotFault(p)
    \/ scc_test_zeroize(p)
    \/ scc_test_alloc_slot(p)
    \/ scc_test_dealloc_slot(p)
    \/ scc_test_get_slot_info(p)
    \/ scc_test_load_slot(p)
    \/ Load(p)
    \/ scc_test_encrypt_slot(p)
    \/ Encrypt(p)
    \/ Return(p)

Next == \E p \in Procs : ProcNext(p)

Spec == Init /\ [][Next]_vars

-----------------------------------------------------------------------------
(* Properties *)

\* Whatever fails on the way, an ioctl leaves none of scc_test_cipher's two
\* areas allocated.
AreasFreed ==
    \A p \in Procs :
      call[p].at = "return" => call[p].mem \intersect {"area_in", "area_out"} = {}

\* An ioctl that returns 0 with the SCC's OK in the caller's structure has done
\* what it was asked for, also when the slot was taken away between the check
\* and the use.  LOAD_SLOT is the exception LoadTruthful is about.
Truthful ==
    \A p \in Procs :
      call[p].at = "return" /\ call[p].cmd # "LOAD_SLOT" =>
        (call[p].status = 0 /\ call[p].user = "ok" => call[p].did)

-----------------------------------------------------------------------------
(* What the source says and TLC refutes. *)

\* scc_load_slot_access.scc_status is the "Returned status of call to scc driver":
\* a LOAD_SLOT that returns 0 with scc_status OK has loaded the key.
LoadTruthful ==
    \A p \in Procs :
      call[p].at = "return" /\ call[p].cmd = "LOAD_SLOT" =>
        (call[p].status = 0 /\ call[p].user = "ok" => call[p].did)

\* The error codes "are the values returned by scc_ioctl and placed into errno by
\* ioctl", and scc_test_zeroize has "0 on success, -errno on failure": an ioctl
\* returns 0 or a negative code.
ErrnoSigned ==
    \A p \in Procs : call[p].at = "return" => call[p].status <= 0
=============================================================================
