--------------------------- MODULE SccIoctlProofs ---------------------------
(***************************************************************************)
(* What SccIoctl promises, for any number of processes, slots and owners.  *)
(* Both properties are about the return of an ioctl; the invariant says,   *)
(* for every place a handler can be, which memory it holds and what it may *)
(* already have told the caller (Good).                                    *)
(***************************************************************************)
EXTENDS SccIoctl, TLAPS

Areas == {"area_in", "area_out"}

\* The records of handlers in progress.
Busy == [at: {"begin", "crypt", "finish", "load", "encrypt", "return"}, cmd: Commands,
         owner: Owners, slot: Slots, status: Codes, scc: {"none", "ok", "err"},
         user: {"none", "ok", "err"}, mem: SUBSET {"area_in", "area_out", "key_data"},
         did: BOOLEAN]

\* Until it returns a handler has told the caller nothing, areas are held only
\* around scc_crypt, and what Finish will report is true.
Good(c) ==
    /\ c.at # "return" => c.user = "none"
    /\ c.at \in {"begin", "load", "encrypt", "return"} => c.mem \intersect Areas = {}
    /\ c.at \in {"begin", "crypt"} => c.status = 0
    /\ c.at = "finish" => (c.status = 0 /\ c.scc = "ok" => c.did)
    /\ c.at = "load" => c.cmd = "LOAD_SLOT"
    /\ c.at = "return" /\ c.cmd # "LOAD_SLOT" => (c.status = 0 /\ c.user = "ok" => c.did)

Inv == TypeOK /\ \A p \in Procs : call[p] # Idle => Good(call[p])

-----------------------------------------------------------------------------
\* The codes are numbers, and only IOCTL_SCC_OK is 0.
LEMMA CodesNonzero ==
    /\ IOCTL_SCC_OK \in Codes /\ IOCTL_SCC_OK = 0
    /\ -IOCTL_SCC_INVALID_CMD \in Codes /\ -IOCTL_SCC_INVALID_CMD # 0
    /\ -IOCTL_SCC_IMPROPER_ADDR \in Codes /\ -IOCTL_SCC_IMPROPER_ADDR # 0
    /\ -IOCTL_SCC_NO_MEMORY \in Codes /\ -IOCTL_SCC_NO_MEMORY # 0
    /\ IOCTL_SCC_FAILURE \in Codes /\ IOCTL_SCC_FAILURE # 0
    /\ ENOMEM \in Codes /\ ENOMEM # 0
    /\ Rest \in Codes /\ Rest # 0
  BY DEF Codes, IOCTL_SCC_OK, IOCTL_SCC_INVALID_CMD, IOCTL_SCC_IMPROPER_ADDR,
         IOCTL_SCC_NO_MEMORY, IOCTL_SCC_FAILURE, ENOMEM, Rest

\* A process that is not in the application has the record of its handler.
LEMMA BusyOrIdle ==
    ASSUME NEW c \in Call
    PROVE  /\ c.at \in {"begin", "crypt", "finish", "load", "encrypt", "return"} => c \in Busy
           /\ c # Idle => c \in Busy
           /\ c \in Busy => c # Idle
  BY DEF Call, Busy, Idle

\* A handler ends without a last copy, with a code that is not 0 or with its
\* work done.
LEMMA ReturnsGood ==
    ASSUME NEW c \in Busy, NEW st \in Codes, c.mem \intersect Areas = {},
           st = 0 /\ c.user = "ok" => c.did
    PROVE  Returns(c, st) \in Busy /\ Good(Returns(c, st))
  <1> DEFINE d == Returns(c, st)
  <1>1. /\ d \in Busy /\ d.at = "return" /\ d.status = st
        /\ d.mem = c.mem /\ d.user = c.user /\ d.did = c.did
    BY DEF Returns, Busy
  <1> HIDE DEF d
  <1>2. Good(d)
    BY <1>1 DEF Good
  <1> QED
    BY <1>1, <1>2 DEF d

\* A handler ends with its last copy to the caller.
LEMMA CopiesGood ==
    ASSUME NEW c \in Busy, NEW st \in Codes, NEW fault \in Codes, fault # 0,
           c.mem \intersect Areas = {},
           c.cmd # "LOAD_SLOT" => (st = 0 /\ c.scc = "ok" => c.did),
           NEW d \in CopiesOut(c, st, fault)
    PROVE  d \in Busy /\ Good(d)
  <1>1. CASE d = Returns(c, fault)
    BY <1>1, ReturnsGood
  <1>2. CASE d = Returns([c EXCEPT !.user = c.scc], st)
    <2>1. /\ d \in Busy /\ d.at = "return" /\ d.status = st /\ d.cmd = c.cmd
          /\ d.mem = c.mem /\ d.user = c.scc /\ d.did = c.did
      BY <1>2 DEF Returns, Busy
    <2> QED
      BY <2>1 DEF Good
  <1> QED
    BY <1>1, <1>2 DEF CopiesOut

\* The end of a slot handler.
LEMMA SlotReplyGood ==
    ASSUME NEW c \in Busy, c.mem \intersect Areas = {},
           c.cmd # "LOAD_SLOT" => (c.scc = "ok" => c.did),
           NEW d \in SlotReply(c)
    PROVE  d \in Busy /\ Good(d)
  BY CodesNonzero, CopiesGood DEF SlotReply, IOCTL_SCC_OK

\* The switch of scc_test_ioctl.
LEMMA DispatchGood ==
    ASSUME NEW c \in Busy, Good(c), c.at = "begin", NEW d \in Dispatch(c)
    PROVE  d \in Busy /\ Good(d)
  <1>0. c.mem \intersect Areas = {} /\ c.user = "none"
    BY DEF Good
  <1>1. ASSUME NEW st \in Codes, st # 0, d = Returns(c, st) PROVE d \in Busy /\ Good(d)
    BY <1>0, <1>1, ReturnsGood
  <1>2. ASSUME d \in scc_test_get_configuration(c) PROVE d \in Busy /\ Good(d)
    <2>1. CASE d = Returns(c, -IOCTL_SCC_IMPROPER_ADDR)
      BY <1>1, <2>1, CodesNonzero
    <2>2. CASE d = Returns([c EXCEPT !.user = "ok", !.did = TRUE], IOCTL_SCC_OK)
      <3> DEFINE e == [c EXCEPT !.user = "ok", !.did = TRUE]
      <3>1. e \in Busy /\ e.mem = c.mem /\ e.did
        BY DEF Busy
      <3> QED
        BY <1>0, <2>2, <3>1, CodesNonzero, ReturnsGood
    <2> QED
      BY <1>2, <2>1, <2>2 DEF scc_test_get_configuration
  <1>3. ASSUME d \in RegisterReply(c) PROVE d \in Busy /\ Good(d)
    <2>1. CASE d \in CopiesOut([c EXCEPT !.scc = "err"], -IOCTL_SCC_IMPROPER_ADDR, IOCTL_SCC_FAILURE)
      <3> DEFINE e == [c EXCEPT !.scc = "err"]
      <3>1. e \in Busy /\ e.mem = c.mem
        BY DEF Busy
      <3> QED
        BY <1>0, <2>1, <3>1, CodesNonzero, CopiesGood
    <2>2. CASE d \in CopiesOut([c EXCEPT !.scc = "ok", !.did = TRUE], IOCTL_SCC_OK, IOCTL_SCC_FAILURE)
      <3> DEFINE e == [c EXCEPT !.scc = "ok", !.did = TRUE]
      <3>1. e \in Busy /\ e.mem = c.mem /\ e.did
        BY DEF Busy
      <3> QED
        BY <1>0, <2>2, <3>1, CodesNonzero, CopiesGood
    <2> QED
      BY <1>3, <2>1, <2>2 DEF RegisterReply
  <1>4. ASSUME d \in scc_test_cipher(c) PROVE d \in Busy /\ Good(d)
    <2>1. CASE d = [c EXCEPT !.at = "finish", !.scc = "err", !.status = -IOCTL_SCC_IMPROPER_ADDR]
      <3>1. d \in Busy /\ d.at = "finish" /\ d.scc = "err" /\ d.user = c.user
        BY <2>1, CodesNonzero DEF Busy
      <3> QED
        BY <1>0, <3>1 DEF Good
    <2>2. ASSUME NEW got \in SUBSET Areas,
                 d = [c EXCEPT !.at = "finish", !.scc = "err", !.mem = got,
                               !.status = -IOCTL_SCC_NO_MEMORY]
          PROVE  d \in Busy /\ Good(d)
      <3>1. d \in Busy /\ d.at = "finish" /\ d.scc = "err" /\ d.user = c.user
        BY <2>2, CodesNonzero DEF Busy, Areas
      <3> QED
        BY <1>0, <3>1 DEF Good
    <2>3. CASE d = [c EXCEPT !.at = "crypt", !.mem = Areas]
      <3>1. d \in Busy /\ d.at = "crypt" /\ d.status = c.status /\ d.user = c.user
        BY <2>3 DEF Busy, Areas
      <3> QED
        BY <1>0, <3>1 DEF Good
    <2> QED
      BY <1>4, <2>1, <2>2, <2>3 DEF scc_test_cipher, Areas
  <1>5. ASSUME d = Returns([c EXCEPT !.did = TRUE], 0) PROVE d \in Busy /\ Good(d)
    <2> DEFINE e == [c EXCEPT !.did = TRUE]
    <2>1. e \in Busy /\ e.mem = c.mem /\ e.did
      BY DEF Busy
    <2> QED
      BY <1>0, <1>5, <2>1, CodesNonzero, ReturnsGood
  <1> QED
    BY <1>1, <1>2, <1>3, <1>4, <1>5, CodesNonzero
       DEF Dispatch, scc_test_read_register, scc_test_write_register

\* scc_crypt and the end of scc_test_cipher.
LEMMA CipherGood ==
    ASSUME NEW c \in Busy, Good(c), NEW d,
           (c.at = "crypt" /\ d \in Crypt(c)) \/ (c.at = "finish" /\ d \in Finish(c))
    PROVE  d \in Busy /\ Good(d)
  <1>1. CASE c.at = "crypt" /\ d \in Crypt(c)
    <2>1. c.user = "none"
      BY <1>1 DEF Good
    <2>2. \/ d = [c EXCEPT !.at = "finish", !.scc = "ok", !.did = TRUE]
          \/ \E scc \in {"ok", "err"} :
               d = [c EXCEPT !.at = "finish", !.scc = scc, !.did = FALSE, !.status = ENOMEM]
      BY <1>1 DEF Crypt
    <2>3. CASE d = [c EXCEPT !.at = "finish", !.scc = "ok", !.did = TRUE]
      <3>1. d \in Busy /\ d.at = "finish" /\ d.user = c.user /\ d.did
        BY <2>3 DEF Busy
      <3> QED
        BY <2>1, <3>1 DEF Good
    <2>4. ASSUME NEW scc \in {"ok", "err"},
                 d = [c EXCEPT !.at = "finish", !.scc = scc, !.did = FALSE, !.status = ENOMEM]
          PROVE  d \in Busy /\ Good(d)
      <3>1. d \in Busy /\ d.at = "finish" /\ d.user = c.user /\ d.status # 0
        BY <2>4, CodesNonzero DEF Busy
      <3> QED
        BY <2>1, <3>1 DEF Good
    <2> QED
      BY <2>2, <2>3, <2>4
  <1>2. CASE c.at = "finish" /\ d \in Finish(c)
    <2> DEFINE e == [c EXCEPT !.mem = {}]
    <2>1. e \in Busy /\ e.mem = {} /\ e.scc = c.scc /\ e.did = c.did /\ c.status \in Codes
      BY DEF Busy
    <2>2. c.status = 0 /\ c.scc = "ok" => c.did
      BY <1>2 DEF Good
    <2> QED
      BY <1>2, <2>1, <2>2, CodesNonzero, CopiesGood DEF Finish
  <1> QED
    BY <1>1, <1>2

-----------------------------------------------------------------------------
\* Init establishes the invariant: every process is in the application.
LEMMA InitInv == Init => Inv
  <1> SUFFICES ASSUME Init PROVE Inv
    OBVIOUS
  <1>1. Idle \in Call
    BY DEF Call
  <1> QED
    BY <1>1 DEF Init, Inv, TypeOK

\* A step that leads p to a good record and keeps the type of the slots.
LEMMA MovesGood ==
    ASSUME Inv, NEW p \in Procs, NEW d, d \in Busy, Good(d), call' = [call EXCEPT ![p] = d],
           slot' \in [Slots -> Owners \union {NoOwner}]
    PROVE  Inv'
  <1>1. d \in Call
    BY DEF Busy, Call
  <1>2. TypeOK'
    BY <1>1 DEF Inv, TypeOK
  <1>3. \A q \in Procs : call'[q] # Idle => Good(call'[q])
    BY DEF Inv, TypeOK
  <1> QED
    BY <1>2, <1>3 DEF Inv

\* The handler is at the beginning of its command.
LEMMA AtBegin ==
    ASSUME Inv, NEW p \in Procs, call[p].at = "begin"
    PROVE  /\ call[p] \in Busy /\ Good(call[p])
           /\ call[p].mem \intersect Areas = {}
           /\ call[p].user = "none"
  <1>1. call[p] \in Busy /\ call[p] # Idle
    BY BusyOrIdle DEF Inv, TypeOK
  <1> QED
    BY <1>1 DEF Inv, Good

\* The answer of the SCC put into a handler's record, with what it did.
LEMMA AnswerGood ==
    ASSUME NEW c \in Busy, c.mem \intersect Areas = {}, NEW ok \in BOOLEAN,
           NEW d \in SlotReply([c EXCEPT !.scc = Answer(ok), !.did = ok])
    PROVE  d \in Busy /\ Good(d)
  <1> DEFINE e == [c EXCEPT !.scc = Answer(ok), !.did = ok]
  <1>1. Answer(ok) \in {"ok", "err"} /\ (Answer(ok) = "ok" <=> ok)
    BY DEF Answer
  <1>2. CASE ok
    <2>1. e \in Busy /\ e.mem = c.mem /\ e.did
      BY <1>1, <1>2 DEF Busy
    <2> QED
      BY <2>1, SlotReplyGood
  <1>3. CASE ~ok
    <2>1. e \in Busy /\ e.mem = c.mem /\ e.scc = "err"
      BY <1>3 DEF Busy, Answer
    <2> QED
      BY <2>1, SlotReplyGood
  <1> QED
    BY <1>2, <1>3

\* The SCC refused, or there was no memory.
LEMMA RefusedGood ==
    ASSUME NEW c \in Busy, c.mem \intersect Areas = {},
           NEW d \in SlotReply([c EXCEPT !.scc = "err"])
    PROVE  d \in Busy /\ Good(d)
  <1> DEFINE e == [c EXCEPT !.scc = "err"]
  <1>1. e \in Busy /\ e.mem = c.mem /\ e.scc = "err"
    BY DEF Busy
  <1> QED
    BY <1>1, SlotReplyGood

\* The commands that do not touch the slots.
LEMMA PlainStep ==
    ASSUME Inv, NEW p \in Procs,
           scc_test_ioctl(p) \/ Begin(p) \/ Cipher(p) \/ SlotFault(p) \/ scc_test_zeroize(p) \/ Return(p)
    PROVE  Inv'
  <1>0. slot' \in [Slots -> Owners \union {NoOwner}] /\ call[p] \in Call
    BY DEF scc_test_ioctl, Begin, Cipher, SlotFault, scc_test_zeroize, Return, Inv, TypeOK
  <1>1. CASE scc_test_ioctl(p)
    <2>1. PICK cmd \in Commands, o \in Owners, s \in Slots :
            call' = [call EXCEPT ![p] =
              [at |-> "begin", cmd |-> cmd, owner |-> o, slot |-> s, status |-> 0,
               scc |-> "none", user |-> "none", mem |-> {}, did |-> FALSE]]
      BY <1>1 DEF scc_test_ioctl
    <2> DEFINE d == [at |-> "begin", cmd |-> cmd, owner |-> o, slot |-> s, status |-> 0,
                     scc |-> "none", user |-> "none", mem |-> {}, did |-> FALSE]
    <2>2. d \in Busy
      BY CodesNonzero DEF Busy
    <2>3. Good(d)
      BY DEF Good
    <2> HIDE DEF d
    <2>4. call' = [call EXCEPT ![p] = d]
      BY <2>1 DEF d
    <2> QED
      BY <1>0, <2>2, <2>3, <2>4, MovesGood
  <1>2. CASE Begin(p)
    <2>1. call[p].at = "begin"
      BY <1>2 DEF Begin
    <2>2. PICK d \in Dispatch(call[p]) : call' = [call EXCEPT ![p] = d]
      BY <1>2 DEF Begin
    <2>3. d \in Busy /\ Good(d)
      BY <2>1, <2>2, AtBegin, DispatchGood
    <2> QED
      BY <1>0, <2>2, <2>3, MovesGood
  <1>3. CASE Cipher(p)
    <2>1. call[p].at \in {"crypt", "finish"}
      BY <1>3 DEF Cipher
    <2>2. call[p] \in Busy /\ Good(call[p])
      BY <1>0, <2>1, BusyOrIdle DEF Inv
    <2>3. PICK d : /\ \/ call[p].at = "crypt" /\ d \in Crypt(call[p])
                      \/ call[p].at = "finish" /\ d \in Finish(call[p])
                   /\ call' = [call EXCEPT ![p] = d]
      BY <1>3 DEF Cipher
    <2>4. d \in Busy /\ Good(d)
      BY <2>2, <2>3, CipherGood
    <2> QED
      BY <1>0, <2>3, <2>4, MovesGood
  <1>4. CASE SlotFault(p)
    <2>1. call[p].at = "begin" /\ call' = [call EXCEPT ![p] = Returns(call[p], Rest)]
      BY <1>4 DEF SlotFault, CopyInFault
    <2>2. Returns(call[p], Rest) \in Busy /\ Good(Returns(call[p], Rest))
      BY <2>1, AtBegin, CodesNonzero, ReturnsGood
    <2> QED
      BY <1>0, <2>1, <2>2, MovesGood
  <1>5. CASE scc_test_zeroize(p)
    <2>1. call[p].at = "begin"
      BY <1>5 DEF scc_test_zeroize, At
    <2>2. PICK ok \in BOOLEAN :
            \E c \in SlotReply([call[p] EXCEPT !.scc = Answer(ok), !.did = ok]) :
              call' = [call EXCEPT ![p] = c]
      BY <1>5 DEF scc_test_zeroize
    <2> QED
      BY <1>0, <2>1, <2>2, AtBegin, AnswerGood, MovesGood
  <1>6. CASE Return(p)
    <2>1. call' = [call EXCEPT ![p] = Idle] /\ Idle \in Call
      BY <1>6 DEF Return, Call
    <2> QED
      BY <1>0, <2>1 DEF Inv, TypeOK
  <1> QED
    BY <1>1, <1>2, <1>3, <1>4, <1>5, <1>6

\* The commands on slots.
LEMMA SlotStep ==
    ASSUME Inv, NEW p \in Procs,
           \/ scc_test_alloc_slot(p) \/ scc_test_dealloc_slot(p) \/ scc_test_get_slot_info(p)
           \/ scc_test_load_slot(p) \/ Load(p) \/ scc_test_encrypt_slot(p) \/ Encrypt(p)
    PROVE  Inv'
  <1>0. call[p] \in Call /\ slot \in [Slots -> Owners \union {NoOwner}]
    BY DEF Inv, TypeOK
  <1>a. Answers(call[p]) \subseteq BOOLEAN
    BY DEF Answers, Owned
  <1>1. CASE scc_test_alloc_slot(p)
    <2>1. call[p].at = "begin"
      BY <1>1 DEF scc_test_alloc_slot, At
    <2>2. call[p] \in Busy /\ call[p].mem \intersect Areas = {} /\ call[p].owner \in Owners
      BY <2>1, AtBegin DEF Busy
    <2>3. CASE UNCHANGED slot /\ \E c \in SlotReply([call[p] EXCEPT !.scc = "err"]) :
                                   call' = [call EXCEPT ![p] = c]
      BY <1>0, <2>2, <2>3, RefusedGood, MovesGood
    <2>4. ASSUME NEW s \in Slots, slot' = [slot EXCEPT ![s] = call[p].owner],
                 NEW c \in SlotReply([call[p] EXCEPT !.slot = s, !.scc = "ok", !.did = TRUE]),
                 call' = [call EXCEPT ![p] = c]
          PROVE  Inv'
      <3> DEFINE e == [call[p] EXCEPT !.slot = s, !.scc = "ok", !.did = TRUE]
      <3>1. e \in Busy /\ e.mem = call[p].mem /\ e.did
        BY <2>2 DEF Busy
      <3>2. c \in Busy /\ Good(c)
        BY <2>2, <2>4, <3>1, SlotReplyGood
      <3>3. slot' \in [Slots -> Owners \union {NoOwner}]
        BY <1>0, <2>2, <2>4
      <3> QED
        BY <2>4, <3>2, <3>3, MovesGood
    <2> QED
      BY <1>1, <2>3, <2>4 DEF scc_test_alloc_slot
  <1>2. CASE scc_test_dealloc_slot(p) \/ scc_test_get_slot_info(p)
    <2>1. call[p].at = "begin"
      BY <1>2 DEF scc_test_dealloc_slot, scc_test_get_slot_info, At
    <2>2. PICK ok \in Answers(call[p]) :
            \E c \in SlotReply([call[p] EXCEPT !.scc = Answer(ok), !.did = ok]) :
              call' = [call EXCEPT ![p] = c]
      BY <1>2 DEF scc_test_dealloc_slot, scc_test_get_slot_info
    <2>3. slot' \in [Slots -> Owners \union {NoOwner}]
      BY <1>0, <1>2 DEF scc_test_dealloc_slot, scc_test_get_slot_info
    <2> QED
      BY <1>a, <2>1, <2>2, <2>3, AtBegin, AnswerGood, MovesGood
  <1>3. CASE Load(p) \/ Encrypt(p)
    <2>1. call[p].at \in {"load", "encrypt"} /\ slot' = slot
      BY <1>3 DEF Load, Encrypt
    <2>2. call[p] \in Busy /\ call[p].mem \intersect Areas = {} /\ call[p].user = "none"
      BY <1>0, <2>1, BusyOrIdle DEF Inv, Good
    <2>3. PICK d :
            /\ \/ \E ok \in Answers(call[p]) :
                    d \in SlotReply([call[p] EXCEPT !.scc = Answer(ok), !.did = ok])
               \/ d = Returns(call[p], Rest)
            /\ call' = [call EXCEPT ![p] = d]
      BY <1>3 DEF Load, Encrypt
    <2>4. d \in Busy /\ Good(d)
      BY <1>a, <2>2, <2>3, AnswerGood, ReturnsGood, CodesNonzero
    <2> QED
      BY <1>0, <2>1, <2>3, <2>4, MovesGood
  <1>4. CASE scc_test_load_slot(p)
    <2> DEFINE c == call[p]
               k == [c EXCEPT !.scc = "ok", !.mem = {"key_data"}]
    <2>1. c.at = "begin" /\ c.cmd = "LOAD_SLOT" /\ slot' = slot
      BY <1>4 DEF scc_test_load_slot, At
    <2>2. c \in Busy /\ c.mem \intersect Areas = {} /\ c.user = "none"
      BY <2>1, AtBegin
    <2>3. k \in Busy /\ k.mem = {"key_data"} /\ k.cmd = "LOAD_SLOT" /\ k.user = "none"
      BY <2>1, <2>2 DEF Busy
    <2>4. k.mem \intersect Areas = {}
      BY <2>3 DEF Areas
    <2>5. PICK d : /\ \/ d \in SlotReply([c EXCEPT !.scc = "err"])
                      \/ d \in SlotReply(k)
                      \/ d = [k EXCEPT !.at = "load"]
                   /\ call' = [call EXCEPT ![p] = d]
      BY <1>4 DEF scc_test_load_slot
    <2>6. CASE d \in SlotReply([c EXCEPT !.scc = "err"])
      BY <1>0, <2>1, <2>2, <2>5, <2>6, RefusedGood, MovesGood
    <2>7. CASE d \in SlotReply(k)
      BY <1>0, <2>1, <2>3, <2>4, <2>5, <2>7, SlotReplyGood, MovesGood
    <2>8. CASE d = [k EXCEPT !.at = "load"]
      <3> HIDE DEF k
      <3>1. d \in Busy /\ d.at = "load" /\ d.mem = k.mem /\ d.cmd = k.cmd /\ d.user = k.user
        BY <2>3, <2>8 DEF Busy
      <3>2. Good(d)
        BY <2>3, <2>4, <3>1 DEF Good
      <3> QED
        BY <1>0, <2>1, <2>5, <3>1, <3>2, MovesGood
    <2> QED
      BY <2>5, <2>6, <2>7, <2>8
  <1>5. CASE scc_test_encrypt_slot(p)
    <2> DEFINE c == call[p]
    <2>1. c.at = "begin" /\ slot' = slot
      BY <1>5 DEF scc_test_encrypt_slot, At
    <2>2. c \in Busy /\ c.mem \intersect Areas = {} /\ c.user = "none"
      BY <2>1, AtBegin
    <2>3. PICK d : /\ \/ d \in SlotReply([c EXCEPT !.scc = "err"])
                      \/ d = [c EXCEPT !.at = "encrypt", !.scc = "ok", !.mem = {"key_data"}]
                   /\ call' = [call EXCEPT ![p] = d]
      BY <1>5 DEF scc_test_encrypt_slot
    <2>4. CASE d \in SlotReply([c EXCEPT !.scc = "err"])
      BY <1>0, <2>1, <2>2, <2>3, <2>4, RefusedGood, MovesGood
    <2>5. CASE d = [c EXCEPT !.at = "encrypt", !.scc = "ok", !.mem = {"key_data"}]
      <3>1. d \in Busy /\ d.at = "encrypt" /\ d.mem = {"key_data"} /\ d.user = c.user
        BY <2>2, <2>5 DEF Busy
      <3>2. Good(d)
        BY <2>2, <3>1 DEF Good, Areas
      <3> QED
        BY <1>0, <2>1, <2>3, <3>1, <3>2, MovesGood
    <2> QED
      BY <2>3, <2>4, <2>5
  <1> QED
    BY <1>1, <1>2, <1>3, <1>4, <1>5

-----------------------------------------------------------------------------
\* Every step of scc_test_ioctl keeps the invariant.
LEMMA NextInv == Inv /\ [Next]_vars => Inv'
  <1> SUFFICES ASSUME Inv, [Next]_vars PROVE Inv'
    OBVIOUS
  <1>1. CASE UNCHANGED vars
    BY <1>1 DEF vars, Inv, TypeOK
  <1>2. CASE Next
    BY <1>2, PlainStep, SlotStep DEF Next, ProcNext
  <1> QED
    BY <1>1, <1>2

\* The inductive invariant of the ioctls of scc_test_driver.c.
THEOREM SccInvariant == Spec => []Inv
  BY InitInv, NextInv, PTL DEF Spec

\* A process at the end of its ioctl has a good record.
LEMMA AtReturn ==
    ASSUME Inv, NEW p \in Procs, call[p].at = "return"
    PROVE  Good(call[p])
  <1>1. call[p] # Idle
    BY BusyOrIdle DEF Inv, TypeOK
  <1> QED
    BY <1>1 DEF Inv

\* No path of scc_test_cipher leaves an area allocated.
THEOREM AreasSafe == Spec => []AreasFreed
  <1>1. Inv => AreasFreed
    BY AtReturn DEF AreasFreed, Good, Areas
  <1> QED
    BY <1>1, SccInvariant, PTL

\* Success is reported only for what the SCC has done, also when another process
\* takes the slot between the check of its owner and its use.
THEOREM TruthSafe == Spec => []Truthful
  <1>1. Inv => Truthful
    BY AtReturn DEF Truthful, Good
  <1> QED
    BY <1>1, SccInvariant, PTL
=============================================================================
