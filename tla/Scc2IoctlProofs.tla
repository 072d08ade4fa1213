--------------------------- MODULE Scc2IoctlProofs ---------------------------
(***************************************************************************)
(* What Scc2Ioctl promises, for any number of processes and partitions.    *)
(* The mutex belongs to the one process that is inside a handler, so       *)
(* nobody else changes the partition of a transfer; Fine says how far the  *)
(* transfer has come, for every place a handler can be.                    *)
(***************************************************************************)
EXTENDS Scc2Ioctl, TLAPS

\* The records of ioctls in progress, and the places behind the mutex.
Busy == [at: {"lock", "begin", "move", "finish", "unlock"}, cmd: Commands, part: Parts,
         val: Values, half: 1 .. 3, black: Contents, saw: Contents, status: Codes,
         scc: {"none", "ok", "err"}, user: {"none", "ok", "err"}, dma: BOOLEAN]

Inside == {"begin", "move", "finish", "unlock"}

Reading == {"READ_PART", "ENCRYPT_PART"}
Writing == {"LOAD_PART", "DECRYPT_PART"}
Region == {"ENCRYPT_PART", "DECRYPT_PART"}

\* The halves below n are moved, for a partition in state s with contents r.
Moved(c, s, r, n) ==
    /\ c.cmd \in Reading => r = c.saw /\ \A h \in Halves : h < n => c.black[h] = c.saw[h]
    /\ c.cmd \in Writing /\ s = "engaged" => \A h \in Halves : h < n => r[h] = c.val
    /\ c.cmd = "DECRYPT_PART" => s = "engaged"

Fine(c, s, r) ==
    /\ c.at \in {"lock", "begin"} => c.half = 1 /\ c.status = 0
    /\ c.at \in {"lock", "begin", "unlock"} => ~c.dma
    /\ c.at = "move" /\ c.cmd \notin Region => ~c.dma
    /\ c.at = "begin" => c.saw = r
    /\ c.at = "move" => c.cmd \in Reading \union Writing /\ c.status = 0 /\ Moved(c, s, r, c.half)
    /\ c.at = "finish" => c.cmd \in Region
    /\ c.at = "finish" /\ c.status = 0 /\ c.scc # "err" => Moved(c, s, r, 3)
    /\ c.at = "unlock" /\ c.cmd \in Reading \union Writing =>
         (c.status = 0 /\ c.user # "err" => Moved(c, s, r, 3))

MutexInv == \A p \in Procs : call[p].at \in Inside => scc2_test_mutex = p

FineInv ==
    \A p \in Procs : call[p] # Idle => Fine(call[p], part[call[p].part], red[call[p].part])

Inv == TypeOK /\ MutexInv /\ FineInv

-----------------------------------------------------------------------------
\* The codes are numbers, and only IOCTL_SCC2_OK is 0.
LEMMA CodesNonzero ==
    /\ IOCTL_SCC2_OK \in Codes /\ IOCTL_SCC2_OK = 0
    /\ -IOCTL_SCC2_INVALID_CMD \in Codes /\ -IOCTL_SCC2_INVALID_CMD # 0
    /\ -IOCTL_SCC2_IMPROPER_ADDR \in Codes /\ -IOCTL_SCC2_IMPROPER_ADDR # 0
    /\ IOCTL_SCC2_NO_MEMORY \in Codes /\ IOCTL_SCC2_NO_MEMORY # 0
    /\ Rest \in Codes /\ Rest # 0
  BY DEF Codes, IOCTL_SCC2_OK, IOCTL_SCC2_INVALID_CMD, IOCTL_SCC2_IMPROPER_ADDR,
         IOCTL_SCC2_NO_MEMORY, Rest

\* A process that is not in the application has the record of its ioctl.
LEMMA BusyOrIdle ==
    ASSUME NEW c \in Call
    PROVE  /\ c.at \in Inside \union {"lock"} => c \in Busy
           /\ c # Idle => c \in Busy
           /\ c \in Busy => c # Idle /\ c.at # "user"
           /\ Idle.at = "user"
  BY DEF Call, Busy, Idle, Inside

\* What a handler's record keeps on the way out.
SameJob(c, d) ==
    /\ d.cmd = c.cmd /\ d.part = c.part /\ d.val = c.val
    /\ d.black = c.black /\ d.saw = c.saw

\* What is moved for one record is moved for another of the same job.
LEMMA MovedSame ==
    ASSUME NEW c, NEW d, SameJob(c, d), NEW s, NEW r, NEW n, Moved(c, s, r, n)
    PROVE  Moved(d, s, r, n)
  BY DEF Moved, SameJob

\* A handler that returns st.
LEMMA ReturnsFine ==
    ASSUME NEW c \in Busy, NEW st \in Codes, ~c.dma, NEW s, NEW r,
           c.cmd \in Reading \union Writing /\ st = 0 /\ c.user # "err" => Moved(c, s, r, 3)
    PROVE  /\ Returns(c, st) \in Busy /\ Fine(Returns(c, st), s, r)
           /\ Returns(c, st).at = "unlock" /\ Returns(c, st).part = c.part
  <1> DEFINE d == Returns(c, st)
  <1>1. /\ d \in Busy /\ d.at = "unlock" /\ d.status = st /\ d.dma = c.dma /\ d.user = c.user
        /\ SameJob(c, d)
    BY DEF Returns, Busy, SameJob
  <1> HIDE DEF d
  <1>2. d.cmd = c.cmd /\ d.part = c.part
    BY <1>1 DEF SameJob
  <1>3. c.cmd \in Reading \union Writing /\ st = 0 /\ c.user # "err" => Moved(d, s, r, 3)
    BY <1>1, MovedSame
  <1>4. Fine(d, s, r)
    BY <1>1, <1>2, <1>3 DEF Fine
  <1> QED
    BY <1>1, <1>2, <1>4 DEF d

\* A handler that ends with its last copy to the caller.
LEMMA CopiesFine ==
    ASSUME NEW c \in Busy, ~c.dma, NEW s, NEW r,
           c.cmd \in Reading \union Writing /\ c.scc # "err" => Moved(c, s, r, 3),
           NEW d \in CopiesOut(c)
    PROVE  d \in Busy /\ Fine(d, s, r) /\ d.at = "unlock" /\ d.part = c.part
  <1>1. CASE d = Returns(c, Rest)
    BY <1>1, ReturnsFine, CodesNonzero
  <1>2. CASE d = Returns([c EXCEPT !.user = c.scc], IOCTL_SCC2_OK)
    <2> DEFINE e == [c EXCEPT !.user = c.scc]
    <2>1. e \in Busy /\ e.dma = c.dma /\ e.user = c.scc /\ SameJob(c, e)
      BY DEF Busy, SameJob
    <2> HIDE DEF e
    <2>2. e.cmd = c.cmd /\ e.part = c.part
      BY <2>1 DEF SameJob
    <2>3. e.cmd \in Reading \union Writing /\ e.user # "err" => Moved(e, s, r, 3)
      BY <2>1, <2>2, MovedSame
    <2>4. d = Returns(e, IOCTL_SCC2_OK)
      BY <1>2 DEF e
    <2> QED
      BY <2>1, <2>2, <2>3, <2>4, ReturnsFine, CodesNonzero
  <1> QED
    BY <1>1, <1>2 DEF CopiesOut

\* The switch of scc2_test_ioctl.
LEMMA DispatchFine ==
    ASSUME NEW c \in Busy, c.at = "begin", NEW r, Fine(c, part[c.part], r), NEW d \in Dispatch(c)
    PROVE  d \in Busy /\ Fine(d, part[c.part], r) /\ d.at \in Inside /\ d.part = c.part
  <1> DEFINE s == part[c.part]
  <1> HIDE DEF s
  <1>0. ~c.dma /\ c.half = 1 /\ c.status = 0 /\ c.saw = r
    BY DEF Fine, s
  <1>1. ASSUME NEW st \in Codes, c.cmd \in Reading \union Writing => st # 0, d = Returns(c, st)
        PROVE  d \in Busy /\ Fine(d, s, r) /\ d.at \in Inside /\ d.part = c.part
    BY <1>0, <1>1, ReturnsFine DEF Inside
  <1>2. ASSUME NEW e \in Busy, NEW st \in Codes, ~e.dma, SameJob(c, e),
               c.cmd \notin Reading \union Writing, d = Returns(e, st)
        PROVE  d \in Busy /\ Fine(d, s, r) /\ d.at \in Inside /\ d.part = c.part
    BY <1>2, ReturnsFine DEF Inside, SameJob
  <1>3. CASE c.cmd = "GET_CONFIGURATION"
    <2> DEFINE e == [c EXCEPT !.user = "ok"]
    <2>1. e \in Busy /\ ~e.dma /\ SameJob(c, e)
      BY <1>0 DEF Busy, SameJob
    <2>2. d = Returns(e, IOCTL_SCC2_OK) \/ d = Returns(c, -IOCTL_SCC2_IMPROPER_ADDR)
      BY <1>3 DEF Dispatch, scc2_test_get_configuration
    <2> QED
      BY <1>1, <1>2, <1>3, <2>1, <2>2, CodesNonzero DEF s, Reading, Writing
  <1>4. CASE c.cmd \in {"READ_REG", "WRITE_REG"}
    <2>1. d \in RegisterReply(c)
      BY <1>4 DEF Dispatch, scc2_test_read_register, scc2_test_write_register
    <2>2. PICK a \in {"ok", "err"}, u \in {"ok", "err", "none"}, st \in Codes :
            d = Returns([c EXCEPT !.scc = a, !.user = u], st)
      BY <2>1, CodesNonzero DEF RegisterReply
    <2> DEFINE e == [c EXCEPT !.scc = a, !.user = u]
    <2>3. e \in Busy /\ ~e.dma /\ SameJob(c, e)
      BY <1>0 DEF Busy, SameJob
    <2> QED
      BY <1>2, <1>4, <2>2, <2>3 DEF s, Reading, Writing
  <1>5. CASE c.cmd = "SET_ALARM"
    <2>1. d = Returns(c, IOCTL_SCC2_OK)
      BY <1>5 DEF Dispatch
    <2> QED
      BY <1>1, <1>5, <2>1, CodesNonzero DEF s, Reading, Writing
  <1>6. CASE c.cmd \in {"LOAD_PART", "READ_PART"}
    <2>1. d = Returns(c, Rest) \/ d = [c EXCEPT !.at = "move"]
      BY <1>6 DEF Dispatch, Transfer
    <2>2. CASE d = [c EXCEPT !.at = "move"]
      <3>1. /\ d \in Busy /\ d.at = "move" /\ SameJob(c, d) /\ d.status = 0 /\ d.half = 1 /\ ~d.dma
        BY <1>0, <2>2 DEF Busy, SameJob
      <3>2. d.cmd = c.cmd /\ d.part = c.part /\ d.saw = c.saw
        BY <3>1 DEF SameJob
      <3>3. Moved(d, s, r, 1)
        BY <1>0, <1>6, <3>2 DEF Moved, Halves
      <3>4. Fine(d, s, r)
        BY <1>6, <3>1, <3>2, <3>3 DEF Fine, Reading, Writing
      <3> QED
        BY <3>1, <3>2, <3>4 DEF s, Inside
    <2> QED
      BY <1>1, <2>1, <2>2, CodesNonzero DEF s
  <1>7. CASE c.cmd \in Region
    <2> DEFINE e == [c EXCEPT !.dma = TRUE]
    <2>0. d \in scc2_test_encrypt_part(c)
      BY <1>7 DEF Dispatch, Region
    <2>1. e \in Busy /\ SameJob(c, e) /\ e.status = 0 /\ e.half = 1
      BY <1>0 DEF Busy, SameJob
    <2> HIDE DEF e
    <2>2. \/ d = Returns(c, Rest) \/ d = Returns(c, IOCTL_SCC2_NO_MEMORY)
          \/ d = [e EXCEPT !.at = "finish", !.scc = "err"]
          \/ d = [e EXCEPT !.at = "finish", !.status = Rest]
          \/ s = "engaged" /\ d = [e EXCEPT !.at = "move", !.scc = "ok"]
      BY <2>0 DEF scc2_test_encrypt_part, e, s
    <2>3. CASE \/ d = [e EXCEPT !.at = "finish", !.scc = "err"]
               \/ d = [e EXCEPT !.at = "finish", !.status = Rest]
      <3>1. /\ d \in Busy /\ d.at = "finish" /\ SameJob(e, d)
            /\ d.scc = "err" \/ d.status # 0
        <4>1. CASE d = [e EXCEPT !.at = "finish", !.scc = "err"]
          BY <2>1, <4>1 DEF Busy, SameJob
        <4>2. CASE d = [e EXCEPT !.at = "finish", !.status = Rest]
          BY <2>1, <4>2, CodesNonzero DEF Busy, SameJob
        <4> QED
          BY <2>3, <4>1, <4>2
      <3>2. d.cmd = c.cmd /\ d.part = c.part
        BY <2>1, <3>1 DEF SameJob
      <3>3. Fine(d, s, r)
        BY <1>7, <3>1, <3>2 DEF Fine
      <3> QED
        BY <3>1, <3>2, <3>3 DEF s, Inside
    <2>4. CASE s = "engaged" /\ d = [e EXCEPT !.at = "move", !.scc = "ok"]
      <3>1. /\ d \in Busy /\ d.at = "move" /\ SameJob(e, d) /\ d.status = 0 /\ d.half = 1
        BY <2>1, <2>4 DEF Busy, SameJob
      <3>2. d.cmd = c.cmd /\ d.part = c.part /\ d.saw = c.saw
        BY <2>1, <3>1 DEF SameJob
      <3>3. Moved(d, s, r, 1)
        BY <1>0, <2>4, <3>2 DEF Moved, Halves
      <3>4. Fine(d, s, r)
        BY <1>7, <3>1, <3>2, <3>3 DEF Fine, Reading, Writing, Region
      <3> QED
        BY <3>1, <3>2, <3>4 DEF s, Inside
    <2> QED
      BY <1>1, <2>2, <2>3, <2>4, CodesNonzero DEF s
  <1>8. CASE c.cmd \in {"ALLOC_PART", "ENGAGE_PART", "RELEASE_PART"}
    <2>1. d = Returns(c, Rest)
      BY <1>8 DEF Dispatch
    <2> QED
      BY <1>1, <2>1, CodesNonzero DEF s
  <1>9. CASE c.cmd \in {"ENCRYPT", "DECRYPT", "ZEROIZE", "OTHER"}
    <2>1. d = Returns(c, -IOCTL_SCC2_INVALID_CMD)
      BY <1>9 DEF Dispatch
    <2> QED
      BY <1>1, <2>1, CodesNonzero DEF s
  <1>10. c.cmd \in Commands
    BY DEF Busy
  <1> QED
    BY <1>3, <1>4, <1>5, <1>6, <1>7, <1>8, <1>9, <1>10 DEF Commands, Region

-----------------------------------------------------------------------------
\* Init establishes the invariant: every process is in the application.
LEMMA InitInv == Init => Inv
  <1> SUFFICES ASSUME Init PROVE Inv
    OBVIOUS
  <1>1. Idle \in Call /\ Idle.at \notin Inside /\ Cleared \in Contents
    BY DEF Call, Idle, Inside, Cleared, Contents
  <1> QED
    BY <1>1 DEF Init, Inv, TypeOK, MutexInv, FineInv

\* What the invariant says of a process behind the mutex.
LEMMA InsideFine ==
    ASSUME Inv, NEW p \in Procs, call[p].at \in Inside
    PROVE  /\ call[p] \in Busy
           /\ Fine(call[p], part[call[p].part], red[call[p].part])
           /\ scc2_test_mutex = p
           /\ \A q \in Procs : q # p => call[q].at \notin Inside
           /\ call[p].part \in Parts
  <1>1. call[p] \in Busy /\ call[p] # Idle
    BY BusyOrIdle DEF Inv, TypeOK
  <1>2. call[p].part \in Parts
    BY <1>1 DEF Busy
  <1> QED
    BY <1>1, <1>2 DEF Inv, FineInv, MutexInv

\* A step of the process behind the mutex: the others wait or are in the
\* application, and what is said of them is not about partitions.
LEMMA HolderStep ==
    ASSUME Inv, NEW p \in Procs, call[p].at \in Inside, NEW d \in Busy, d.at \in Inside,
           call' = [call EXCEPT ![p] = d], scc2_test_mutex' = scc2_test_mutex,
           part' \in [Parts -> {"free", "allocated", "engaged"}],
           red' \in [Parts -> Contents],
           Fine(d, part'[d.part], red'[d.part])
    PROVE  Inv'
  <1>1. d \in Call
    BY DEF Busy, Call
  <1>2. TypeOK'
    BY <1>1 DEF Inv, TypeOK
  <1>3. call'[p] = d /\ \A q \in Procs : q # p => call'[q] = call[q]
    BY DEF Inv, TypeOK
  <1>4. MutexInv'
    BY <1>3, InsideFine DEF MutexInv
  <1>5. ASSUME NEW q \in Procs, call'[q] # Idle
        PROVE  Fine(call'[q], part'[call'[q].part], red'[call'[q].part])
    <2>1. CASE q = p
      BY <1>3, <2>1
    <2>2. CASE q # p
      <3>1. call'[q] = call[q] /\ call[q].at \notin Inside /\ call[q] \in Call
        BY <1>3, <2>2, InsideFine DEF Inv, TypeOK
      <3>2. call[q] \in Busy
        BY <1>5, <3>1, BusyOrIdle
      <3>3. call[q].at = "lock"
        BY <3>1, <3>2 DEF Busy, Inside
      <3>4. Fine(call[q], part[call[q].part], red[call[q].part])
        BY <1>5, <3>1 DEF Inv, FineInv
      <3> QED
        BY <3>1, <3>3, <3>4 DEF Fine
    <2> QED
      BY <2>1, <2>2
  <1> QED
    BY <1>2, <1>4, <1>5 DEF Inv, FineInv

\* Taking and giving back the mutex.
LEMMA MutexStep ==
    ASSUME Inv, NEW p \in Procs, Call_ioctl(p) \/ Lock(p) \/ Unlock(p)
    PROVE  Inv'
  <1>0. /\ call \in [Procs -> Call] /\ part' = part /\ red' = red
        /\ part \in [Parts -> {"free", "allocated", "engaged"}] /\ red \in [Parts -> Contents]
        /\ scc2_test_mutex \in Procs \union {NoProc}
    BY DEF Inv, TypeOK, Call_ioctl, Lock, Unlock
  <1>1. ASSUME NEW d \in Call, call' = [call EXCEPT ![p] = d],
               scc2_test_mutex' \in Procs \union {NoProc},
               d.at \in Inside => scc2_test_mutex' = p,
               \A q \in Procs : q # p /\ call[q].at \in Inside => scc2_test_mutex' = q,
               d # Idle => Fine(d, part[d.part], red[d.part])
        PROVE  Inv'
    <2>1. call'[p] = d /\ \A q \in Procs : q # p => call'[q] = call[q]
      BY <1>0, <1>1
    <2>2. TypeOK'
      BY <1>0, <1>1 DEF TypeOK
    <2>3. MutexInv'
      BY <1>1, <2>1 DEF MutexInv
    <2>4. \A q \in Procs : call'[q] # Idle => Fine(call'[q], part[call'[q].part], red[call'[q].part])
      BY <1>1, <2>1 DEF Inv, FineInv
    <2>5. FineInv'
      BY <1>0, <2>4 DEF FineInv
    <2> QED
      BY <2>2, <2>3, <2>5 DEF Inv
  <1>2. CASE Call_ioctl(p)
    <2>1. PICK cmd \in Commands, x \in Parts, v \in Values :
            call' = [call EXCEPT ![p] =
              [at |-> "lock", cmd |-> cmd, part |-> x, val |-> v, half |-> 1,
               black |-> Cleared, saw |-> Cleared, status |-> IOCTL_SCC2_OK,
               scc |-> "none", user |-> "none", dma |-> FALSE]]
      BY <1>2 DEF Call_ioctl
    <2> DEFINE d == [at |-> "lock", cmd |-> cmd, part |-> x, val |-> v, half |-> 1,
                     black |-> Cleared, saw |-> Cleared, status |-> IOCTL_SCC2_OK,
                     scc |-> "none", user |-> "none", dma |-> FALSE]
    <2>2. Cleared \in Contents
      BY DEF Cleared, Contents
    <2>3. d \in Call /\ d.at \notin Inside /\ d.at = "lock" /\ d.half = 1 /\ d.status = 0 /\ ~d.dma
      BY <2>2, CodesNonzero DEF Call, Inside
    <2>4. call' = [call EXCEPT ![p] = d]
      BY <2>1
    <2> HIDE DEF d
    <2>5. Fine(d, part[d.part], red[d.part])
      BY <2>3 DEF Fine
    <2>6. scc2_test_mutex' = scc2_test_mutex
      BY <1>2 DEF Call_ioctl
    <2> QED
      BY <1>0, <1>1, <2>3, <2>4, <2>5, <2>6 DEF Inv, MutexInv
  <1>3. CASE Lock(p)
    <2> DEFINE c == call[p]
               d == [c EXCEPT !.at = "begin", !.saw = red[c.part]]
    <2>1. c.at = "lock" /\ scc2_test_mutex = NoProc /\ scc2_test_mutex' = p
      BY <1>3 DEF Lock
    <2>2. c \in Busy /\ c # Idle
      BY <1>0, <2>1, BusyOrIdle
    <2>3. red[c.part] \in Contents
      BY <1>0, <2>2 DEF Busy
    <2>4. /\ d \in Busy /\ d.at = "begin" /\ d.half = c.half /\ d.status = c.status
          /\ d.dma = c.dma /\ d.saw = red[c.part] /\ d.part = c.part
      BY <2>2, <2>3 DEF Busy
    <2>5. call' = [call EXCEPT ![p] = d]
      BY <1>0, <1>3 DEF Lock
    <2>6. c.half = 1 /\ c.status = 0 /\ ~c.dma
      BY <2>1, <2>2 DEF Inv, FineInv, Fine
    <2>7. \A q \in Procs : call[q].at \notin Inside
      BY <2>1, Scc2IoctlAssumption DEF Inv, MutexInv
    <2> HIDE DEF c, d
    <2>8. Fine(d, part[d.part], red[d.part]) /\ d \in Call
      BY <2>4, <2>6 DEF Fine, Busy, Call
    <2> QED
      BY <1>1, <2>1, <2>5, <2>7, <2>8
  <1>4. CASE Unlock(p)
    <2>1. call[p].at \in Inside /\ call' = [call EXCEPT ![p] = Idle] /\ scc2_test_mutex' = NoProc
      BY <1>4 DEF Unlock, Inside
    <2>2. Idle \in Call /\ Idle.at \notin Inside
      BY DEF Call, Idle, Inside
    <2> QED
      BY <1>1, <2>1, <2>2, InsideFine
  <1> QED
    BY <1>2, <1>3, <1>4

\* The switch and the commands on partitions.
LEMMA CommandStep ==
    ASSUME Inv, NEW p \in Procs,
           \/ Begin(p) \/ scc2_test_alloc_part(p) \/ scc2_test_engage_part(p)
           \/ scc2_test_release_part(p)
    PROVE  Inv'
  <1> DEFINE c == call[p]
  <1>0. /\ c.at = "begin" /\ c.at \in Inside /\ scc2_test_mutex' = scc2_test_mutex
    BY DEF Begin, scc2_test_alloc_part, scc2_test_engage_part, scc2_test_release_part, At, Inside
  <1>1. /\ c \in Busy /\ Fine(c, part[c.part], red[c.part]) /\ c.part \in Parts
    BY <1>0, InsideFine
  <1>2. /\ part \in [Parts -> {"free", "allocated", "engaged"}] /\ red \in [Parts -> Contents]
    BY DEF Inv, TypeOK
  <1>3. CASE Begin(p)
    <2>1. part' = part /\ red' = red
      BY <1>3 DEF Begin
    <2>2. PICK d \in Dispatch(c) : call' = [call EXCEPT ![p] = d]
      BY <1>3 DEF Begin
    <2> HIDE DEF c
    <2>3. d \in Busy /\ Fine(d, part[c.part], red[c.part]) /\ d.at \in Inside /\ d.part = c.part
      BY <1>0, <1>1, <2>2, DispatchFine
    <2> QED
      BY <1>0, <1>2, <2>1, <2>2, <2>3, HolderStep DEF c
  <1>4. ASSUME NEW ok \in BOOLEAN, Replies(p, ok), c.cmd \notin Reading \union Writing,
               part' \in [Parts -> {"free", "allocated", "engaged"}],
               red' \in [Parts -> Contents]
        PROVE  Inv'
    <2> DEFINE e == [c EXCEPT !.scc = Answer(ok)]
    <2>1. PICK d \in CopiesOut(e) : call' = [call EXCEPT ![p] = d]
      BY <1>4 DEF Replies
    <2>2. ~c.dma /\ Answer(ok) \in {"ok", "err"}
      BY <1>0, <1>1 DEF Fine, Answer
    <2>3. e \in Busy /\ ~e.dma /\ e.cmd = c.cmd /\ e.part = c.part
      BY <1>1, <2>2 DEF Busy
    <2> HIDE DEF e
    <2>4. \A s, r : d \in Busy /\ Fine(d, s, r) /\ d.at = "unlock"
      BY <1>4, <2>1, <2>3, CopiesFine
    <2> QED
      BY <1>0, <1>4, <2>1, <2>4, HolderStep DEF Inside
  <1>5. ASSUME NEW x \in Parts, NEW st \in {"free", "allocated", "engaged"}
        PROVE  /\ [part EXCEPT ![x] = st] \in [Parts -> {"free", "allocated", "engaged"}]
               /\ [red EXCEPT ![x] = Cleared] \in [Parts -> Contents]
    BY <1>2 DEF Cleared, Contents
  <1>6. CASE scc2_test_alloc_part(p)
    <2>1. c.cmd \notin Reading \union Writing /\ red' = red
      BY <1>6 DEF scc2_test_alloc_part, At, Reading, Writing
    <2>2. /\ part' = part \/ \E x \in Parts : part' = [part EXCEPT ![x] = "allocated"]
          /\ Replies(p, TRUE) \/ Replies(p, FALSE)
      BY <1>6 DEF scc2_test_alloc_part
    <2> QED
      BY <1>2, <1>4, <1>5, <2>1, <2>2
  <1>7. CASE scc2_test_engage_part(p)
    <2>1. c.cmd \notin Reading \union Writing /\ red' = red
      BY <1>7 DEF scc2_test_engage_part, At, Reading, Writing
    <2>2. /\ part' = part \/ part' = [part EXCEPT ![c.part] = "engaged"]
          /\ Replies(p, TRUE) \/ Replies(p, FALSE)
      BY <1>7 DEF scc2_test_engage_part
    <2> QED
      BY <1>1, <1>2, <1>4, <1>5, <2>1, <2>2
  <1>8. CASE scc2_test_release_part(p)
    <2>1. c.cmd \notin Reading \union Writing
      BY <1>8 DEF scc2_test_release_part, At, Reading, Writing
    <2>2. /\ part' = part \/ part' = [part EXCEPT ![c.part] = "free"]
          /\ red' = red \/ red' = [red EXCEPT ![c.part] = Cleared]
          /\ Replies(p, TRUE) \/ Replies(p, FALSE)
      BY <1>8 DEF scc2_test_release_part
    <2> QED
      BY <1>1, <1>2, <1>4, <1>5, <2>1, <2>2
  <1> QED
    BY <1>3, <1>6, <1>7, <1>8

\* One half is moved: nobody else has touched the partition, so what was moved
\* before is still as it was.
LEMMA MoveStep ==
    ASSUME Inv, NEW p \in Procs, Move(p)
    PROVE  Inv'
  <1> DEFINE c == call[p]
             s == part[c.part]
             r == red[c.part]
             b == IF Reads(c) THEN r[c.half] ELSE c.black[c.half]
             d == [c EXCEPT !.half = c.half + 1, !.black = [c.black EXCEPT ![c.half] = b]]
             r2 == IF Writes(c) THEN [r EXCEPT ![c.half] = c.val] ELSE r
  <1>0. /\ c.at = "move" /\ c.at \in Inside /\ c.half \in Halves
        /\ scc2_test_mutex' = scc2_test_mutex /\ part' = part
    BY DEF Move, Inside
  <1>1. /\ c \in Busy /\ Fine(c, s, r) /\ c.part \in Parts
    BY <1>0, InsideFine
  <1>2. /\ part \in [Parts -> {"free", "allocated", "engaged"}] /\ red \in [Parts -> Contents]
    BY DEF Inv, TypeOK
  <1>3. call' = [call EXCEPT ![p] = d] /\ red' = IF Writes(c) THEN [red EXCEPT ![c.part][c.half] = c.val] ELSE red
    BY DEF Move
  <1>4. /\ c.val \in Values /\ c.half \in 1 .. 3 /\ c.black \in Contents /\ c.saw \in Contents
        /\ r \in Contents
    BY <1>1, <1>2 DEF Busy
  <1>5. /\ r2 \in Contents /\ [c.black EXCEPT ![c.half] = b] \in Contents
        /\ c.half + 1 \in 1 .. 3
    BY <1>0, <1>4 DEF Contents, Halves
  <1>6. red' \in [Parts -> Contents] /\ red'[c.part] = r2
    <2>1. red' = [red EXCEPT ![c.part] = r2]
      BY <1>1, <1>2, <1>3
    <2> QED
      BY <1>1, <1>2, <1>5, <2>1
  <1>7. /\ d \in Busy /\ d.at = "move" /\ d.cmd = c.cmd /\ d.part = c.part /\ d.val = c.val
        /\ d.saw = c.saw /\ d.status = c.status /\ d.half = c.half + 1 /\ d.dma = c.dma
        /\ d.black = [c.black EXCEPT ![c.half] = b]
    BY <1>0, <1>1, <1>5 DEF Busy
  <1>8. /\ c.cmd \in Reading \union Writing /\ c.status = 0 /\ Moved(c, s, r, c.half)
        /\ c.cmd \notin Region => ~c.dma
    BY <1>0, <1>1 DEF Fine
  <1> HIDE DEF d
  <1>9. Moved(d, s, r2, d.half)
    <2>1. ASSUME c.cmd \in Reading
          PROVE  r2 = c.saw /\ \A h \in Halves : h < c.half + 1 => d.black[h] = c.saw[h]
      <3>1. Reads(c) /\ ~Writes(c)
        BY <2>1 DEF Reads, Writes, Reading
      <3>2. r2 = c.saw /\ b = c.saw[c.half]
        BY <1>8, <2>1, <3>1 DEF Moved
      <3>3. \A h \in Halves : h < c.half => c.black[h] = c.saw[h]
        BY <1>8, <2>1 DEF Moved
      <3>4. \A h \in Halves : d.black[h] = IF h = c.half THEN c.saw[c.half] ELSE c.black[h]
        BY <1>4, <1>7, <3>2 DEF Contents
      <3> HIDE DEF c
      <3> QED
        BY <1>0, <3>2, <3>3, <3>4 DEF Halves
    <2>2. ASSUME c.cmd \in Writing, s = "engaged"
          PROVE  \A h \in Halves : h < c.half + 1 => r2[h] = c.val
      <3>1. Writes(c)
        BY <2>2 DEF Writes, Writing
      <3>2. \A h \in Halves : h < c.half => r[h] = c.val
        BY <1>8, <2>2 DEF Moved
      <3>3. \A h \in Halves : r2[h] = IF h = c.half THEN c.val ELSE r[h]
        BY <1>4, <3>1 DEF Contents
      <3> HIDE DEF c, r, r2
      <3> QED
        BY <1>0, <3>2, <3>3 DEF Halves
    <2>3. c.cmd = "DECRYPT_PART" => s = "engaged"
      BY <1>8 DEF Moved
    <2> HIDE DEF c, s, r2
    <2> QED
      BY <1>7, <2>1, <2>2, <2>3 DEF Moved
  <1>10. Fine(d, s, r2)
    BY <1>7, <1>8, <1>9 DEF Fine
  <1> QED
    BY <1>0, <1>2, <1>3, <1>6, <1>7, <1>10, HolderStep

\* A transfer ends, and the handler after it.
LEMMA EndStep ==
    ASSUME Inv, NEW p \in Procs, CopyEnds(p) \/ RegionEnds(p) \/ FinishPart(p)
    PROVE  Inv'
  <1> DEFINE c == call[p]
             s == part[c.part]
             r == red[c.part]
  <1>0. /\ c.at \in Inside /\ scc2_test_mutex' = scc2_test_mutex /\ part' = part /\ red' = red
    BY DEF CopyEnds, RegionEnds, FinishPart, Inside
  <1>1. /\ c \in Busy /\ Fine(c, s, r) /\ c.part \in Parts /\ c.half \in 1 .. 3
    BY <1>0, InsideFine DEF Busy
  <1>2. /\ part \in [Parts -> {"free", "allocated", "engaged"}] /\ red \in [Parts -> Contents]
    BY DEF Inv, TypeOK
  <1>3. ASSUME NEW d \in Busy, d.at \in Inside, Fine(d, s, r), d.part = c.part,
               call' = [call EXCEPT ![p] = d]
        PROVE  Inv'
    BY <1>0, <1>2, <1>3, HolderStep
  <1>4. c.half \notin Halves => c.half = 3
    BY <1>1 DEF Halves
  <1>5. CASE CopyEnds(p)
    <2> DEFINE e == [c EXCEPT !.scc = "ok"]
               st == IF c.half \in Halves THEN Rest ELSE IOCTL_SCC2_OK
    <2>1. c.at = "move" /\ c.cmd \in {"LOAD_PART", "READ_PART"}
      BY <1>5 DEF CopyEnds
    <2>2. call' = [call EXCEPT ![p] = Returns(e, st)]
      BY <1>5 DEF CopyEnds
    <2>3. e \in Busy /\ SameJob(c, e) /\ e.dma = c.dma
      BY <1>1 DEF Busy, SameJob
    <2>4. Moved(c, s, r, c.half)
      BY <1>1, <2>1 DEF Fine
    <2>5. st \in Codes /\ (st = 0 => c.half = 3)
      BY <1>4, CodesNonzero
    <2>6. st = 0 => Moved(e, s, r, 3)
      BY <2>3, <2>4, <2>5, MovedSame
    <2>7. ~c.dma
      BY <1>1, <2>1 DEF Fine, Region
    <2> HIDE DEF e, st
    <2>8. /\ Returns(e, st) \in Busy /\ Fine(Returns(e, st), s, r)
          /\ Returns(e, st).at \in Inside /\ Returns(e, st).part = c.part
      BY <2>3, <2>5, <2>6, <2>7, ReturnsFine DEF SameJob, Inside
    <2> QED
      BY <1>3, <2>2, <2>8
  <1>6. CASE RegionEnds(p)
    <2> DEFINE d == [c EXCEPT !.at = "finish"]
    <2>1. c.at = "move" /\ c.cmd \in Region /\ c.half = 3
      BY <1>4, <1>6 DEF RegionEnds, Region
    <2>2. call' = [call EXCEPT ![p] = d]
      BY <1>6 DEF RegionEnds
    <2>3. d \in Busy /\ d.at = "finish" /\ SameJob(c, d)
      BY <1>1 DEF Busy, SameJob
    <2>4. Moved(c, s, r, 3)
      BY <1>1, <2>1 DEF Fine
    <2> HIDE DEF d
    <2>5. Moved(d, s, r, 3) /\ d.cmd = c.cmd /\ d.part = c.part
      BY <2>3, <2>4, MovedSame DEF SameJob
    <2>6. Fine(d, s, r)
      BY <2>1, <2>3, <2>5 DEF Fine
    <2> QED
      BY <1>3, <2>2, <2>3, <2>5, <2>6 DEF Inside
  <1>7. CASE FinishPart(p)
    <2> DEFINE e == [c EXCEPT !.dma = FALSE]
    <2>1. c.at = "finish"
      BY <1>7 DEF FinishPart
    <2>2. PICK d \in Finish(c) : call' = [call EXCEPT ![p] = d]
      BY <1>7 DEF FinishPart
    <2>3. e \in Busy /\ SameJob(c, e) /\ ~e.dma /\ e.scc = c.scc /\ c.status \in Codes
      BY <1>1 DEF Busy, SameJob
    <2>4. c.status = 0 /\ c.scc # "err" => Moved(c, s, r, 3)
      BY <1>1, <2>1 DEF Fine
    <2> HIDE DEF e
    <2>5. c.status = 0 /\ e.scc # "err" => Moved(e, s, r, 3)
      BY <2>3, <2>4, MovedSame
    <2>6. CASE c.status # 0
      <3>1. d = Returns(e, c.status)
        BY <2>2, <2>6 DEF Finish, e
      <3>2. d \in Busy /\ Fine(d, s, r) /\ d.at \in Inside /\ d.part = e.part
        BY <2>3, <2>6, <3>1, ReturnsFine DEF Inside
      <3> QED
        BY <1>3, <2>2, <2>3, <3>2 DEF SameJob
    <2>7. CASE c.status = 0
      <3>1. d \in CopiesOut(e)
        BY <2>2, <2>7 DEF Finish, e
      <3>2. d \in Busy /\ Fine(d, s, r) /\ d.at \in Inside /\ d.part = e.part
        BY <2>3, <2>5, <2>7, <3>1, CopiesFine DEF Inside
      <3> QED
        BY <1>3, <2>2, <2>3, <3>2 DEF SameJob
    <2> QED
      BY <2>6, <2>7
  <1> QED
    BY <1>5, <1>6, <1>7

-----------------------------------------------------------------------------
\* Every step of scc2_test_ioctl keeps the invariant.
LEMMA NextInv == Inv /\ [Next]_vars => Inv'
  <1> SUFFICES ASSUME Inv, [Next]_vars PROVE Inv'
    OBVIOUS
  <1>1. CASE UNCHANGED vars
    BY <1>1 DEF vars, Inv, TypeOK, MutexInv, FineInv
  <1>2. CASE Next
    BY <1>2, MutexStep, CommandStep, MoveStep, EndStep DEF Next, Handler
  <1> QED
    BY <1>1, <1>2

\* The inductive invariant of the ioctls of scc2_test_driver.c.
THEOREM Scc2Invariant == Spec => []Inv
  BY InitInv, NextInv, PTL DEF Spec

\* A process at its mutex_unlock has a fine record.
LEMMA AtUnlock ==
    ASSUME Inv, NEW p \in Procs, call[p].at = "unlock"
    PROVE  Fine(call[p], part[call[p].part], red[call[p].part])
  BY InsideFine DEF Inside

\* The transfers of scc2_test_ioctl are whole, whatever the other processes call:
\* scc2_test_mutex is enough, although copies sleep while it is held.
THEOREM TransfersWhole == Spec => []Untorn
  <1>1. ASSUME Inv PROVE Untorn
    <2> SUFFICES ASSUME NEW p \in Procs, call[p].at = "unlock",
                        call[p].cmd \in {"LOAD_PART", "READ_PART", "ENCRYPT_PART", "DECRYPT_PART"},
                        call[p].status = 0, call[p].user # "err"
                 PROVE  /\ Reads(call[p]) => call[p].black = call[p].saw
                        /\ Writes(call[p]) =>
                             red[call[p].part] = [h \in Halves |-> call[p].val]
                        /\ call[p].cmd = "DECRYPT_PART" => Writes(call[p])
      BY DEF Untorn
    <2> DEFINE c == call[p]
    <2>1. Moved(c, part[c.part], red[c.part], 3)
      BY <1>1, AtUnlock DEF Fine, Reading, Writing
    <2>2. c.black \in Contents /\ c.saw \in Contents /\ red[c.part] \in Contents
      BY <1>1, InsideFine DEF Inside, Busy, Inv, TypeOK
    <2>3. \A h \in Halves : h < 3
      BY DEF Halves
    <2>4. Reads(c) => c.black = c.saw
      BY <2>1, <2>2, <2>3 DEF Moved, Reads, Reading, Contents
    <2>5. Writes(c) => red[c.part] = [h \in Halves |-> c.val]
      BY <2>1, <2>2, <2>3 DEF Moved, Writes, Writing, Contents
    <2>6. c.cmd = "DECRYPT_PART" => Writes(c)
      BY <2>1 DEF Moved, Writes
    <2> QED
      BY <2>4, <2>5, <2>6
  <1> QED
    BY <1>1, Scc2Invariant, PTL

\* No path of scc2_test_encrypt_part leaves its DMA buffer allocated, and only
\* the holder of scc2_test_mutex has one.
THEOREM DmaSafe == Spec => []DmaFreed
  <1>1. ASSUME Inv PROVE DmaFreed
    <2> SUFFICES ASSUME NEW p \in Procs
                 PROVE  /\ call[p].at = "unlock" => ~call[p].dma
                        /\ call[p].at # "user" /\ call[p].at # "unlock" =>
                             (call[p].dma => scc2_test_mutex = p)
      BY DEF DmaFreed
    <2>1. call[p].at = "unlock" => ~call[p].dma
      BY <1>1, AtUnlock DEF Fine
    <2>2. ASSUME call[p].at # "user", call[p].dma PROVE scc2_test_mutex = p
      <3>1. call[p] # Idle /\ call[p] \in Busy
        BY <1>1, <2>2, BusyOrIdle DEF Inv, TypeOK
      <3>2. call[p].at # "lock"
        BY <1>1, <2>2, <3>1 DEF Inv, FineInv, Fine
      <3>3. call[p].at \in Inside
        BY <3>1, <3>2 DEF Busy, Inside
      <3> QED
        BY <1>1, <3>3, InsideFine
    <2> QED
      BY <2>1, <2>2
  <1> QED
    BY <1>1, Scc2Invariant, PTL
=============================================================================
