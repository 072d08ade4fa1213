--------------------------- MODULE MemAllocProofs ---------------------------
(***************************************************************************)
(* What MemAlloc promises, for any number of processes, any addresses,     *)
(* sizes and page size, and with no bound on the drift of open_count.  The *)
(* types and the nodes hold always.  Everything else holds only as long as *)
(* open, release and rmmod have not met (serial), so the invariant has it  *)
(* under that condition, with what makes it inductive: one process at most *)
(* is inside open or release, the count it has read is still the count,    *)
(* and while a release frees the list no file is left that could map it.   *)
(***************************************************************************)
EXTENDS MemAlloc, FiniteSetTheorems, TLAPS

\* memalloc_init and memalloc_cleanup keep node in step with mod.
NodeInv ==
    /\ mod \in {"out", "going"} => node = {}
    /\ mod = "class" => node = {"chrdev"}
    /\ mod = "device" => node = {"chrdev", "class"}
    /\ mod = "in" => node = {"chrdev", "class", "device"}

\* Nothing that is gone has been used, and no file is left that could be.
Unhurt == ~oops /\ \A p \in Procs : file[p] # "stale"

\* Which handler a process can be in, by the state of its file.
CallInv ==
    \A p \in Procs :
        /\ call[p].at \in {"close", "free", "unlink"} <=> file[p] = "closed"
        /\ call[p].at = "open" => file[p] = "none"
        /\ call[p].at \in {"kzalloc", "dma", "remap"} => file[p] = "open"
        /\ maps[p] # {} => file[p] \in {"open", "mapped"}

\* open and release are entered one at a time, with the count as it is.
Alone ==
    /\ \A p, q \in Busy : p = q
    /\ \A p \in Procs : call[p].at \in {"open", "close"} => call[p].count = open_count

\* Before memalloc_init is through, and after rmmod, nobody is in the driver
\* and there is no buffer; the module starts with a count of 0.
LoadedInv ==
    /\ mod # "in" => heap_list = {} /\ \A p \in Procs : file[p] = "none" /\ call[p].at = "user"
    /\ mod \in {"class", "device"} => open_count = 0

ListInv ==
    /\ dma = {e.phys : e \in heap_list \ Unlinking}
    /\ Unlinking \subseteq heap_list
    /\ \A e, f \in heap_list : e.phys = f.phys => e = f

CountInv ==
    mod = "in" =>
        /\ open_count = Cardinality(Live)
        /\ Live = {} /\ heap_list # {} => Freeing # {}
        /\ Live # {} => Freeing = {}

SerialInv == Unhurt /\ CallInv /\ Alone /\ LoadedInv /\ ListInv /\ CountInv

Inv == TypeOK /\ NodeInv /\ (serial => SerialInv)

-----------------------------------------------------------------------------
(* Types *)

\* The records that handlers leave in call.
LEMMA CallRecords ==
    ASSUME NEW n \in Nat, NEW c \in Int, NEW a \in Addrs
    PROVE  /\ Idle \in Call
           /\ [at |-> "open", count |-> c] \in Call
           /\ [at |-> "close", count |-> c] \in Call
           /\ [at |-> "free"] \in Call
           /\ [at |-> "kzalloc", size |-> n] \in Call
           /\ [at |-> "dma", size |-> n] \in Call
           /\ [at |-> "unlink", size |-> n, phys |-> a] \in Call
           /\ [at |-> "remap", size |-> n, phys |-> a] \in Call
  BY DEF Call

\* What a handler finds in call.
LEMMA CallFields ==
    ASSUME TypeOK, NEW p \in Procs
    PROVE  /\ call[p] \in Call
           /\ call[p].at = "user" <=> call[p] = Idle
           /\ call[p].at \in {"open", "close"} => call[p].count \in Int
           /\ call[p].at \in {"kzalloc", "dma"} => call[p].size \in Nat
           /\ call[p].at \in {"unlink", "remap"} => [phys |-> call[p].phys, size |-> call[p].size] \in Region
           /\ call[p].at \in {"user", "open", "close", "free", "kzalloc", "dma", "unlink", "remap"}
  <1>1. call[p] \in Call
    BY DEF TypeOK
  <1> QED
    BY <1>1 DEF Call, Idle, Region

\* A page-aligned length is a length.
LEMMA PageAlignNat ==
    ASSUME NEW n \in Nat
    PROVE  PAGE_ALIGN(n) \in Nat
  <1>1. (n + PAGE_SIZE - 1) \in Nat
    BY MemAllocAssumption DEF MemAllocAssumption
  <1>2. (n + PAGE_SIZE - 1) % Wrap \in Nat
    BY <1>1, MemAllocAssumption DEF MemAllocAssumption
  <1>3. ((n + PAGE_SIZE - 1) % Wrap) \div PAGE_SIZE \in Nat
    BY <1>2, MemAllocAssumption DEF MemAllocAssumption
  <1> QED
    BY <1>3, MemAllocAssumption DEF MemAllocAssumption, PAGE_ALIGN

\* insmod and rmmod keep the types and the nodes.
LEMMA LoadTypes ==
    ASSUME TypeOK, NodeInv,
           \/ memalloc_init_chrdev \/ memalloc_init_class \/ memalloc_init_device
           \/ memalloc_cleanup \/ CleanupFree
    PROVE  TypeOK' /\ NodeInv'
  <1>1. ASSUME Gone PROVE file' \in [Procs -> {"none", "open", "mapped", "closed", "stale"}]
    BY <1>1 DEF Gone, TypeOK
  <1>2. CASE memalloc_init_chrdev
    BY <1>2 DEF memalloc_init_chrdev, TypeOK, NodeInv
  <1>3. CASE memalloc_init_class
    BY <1>1, <1>3 DEF memalloc_init_class, Gone, TypeOK, NodeInv
  <1>4. CASE memalloc_init_device
    BY <1>1, <1>4 DEF memalloc_init_device, Gone, TypeOK, NodeInv
  <1>5. CASE memalloc_cleanup
    <2>1. serial' \in BOOLEAN
      BY <1>5 DEF memalloc_cleanup, TypeOK
    <2>2. NodeInv'
      BY <1>5 DEF memalloc_cleanup, TypeOK, NodeInv
    <2> QED
      BY <1>5, <2>1, <2>2 DEF memalloc_cleanup, TypeOK
  <1>6. CASE CleanupFree
    BY <1>1, <1>6 DEF CleanupFree, memalloc_free_buffers, Gone, TypeOK, NodeInv
  <1> QED
    BY <1>2, <1>3, <1>4, <1>5, <1>6

\* open, close and munmap keep the types; node and mod are left alone.
LEMMA FileTypes ==
    ASSUME TypeOK, NodeInv, NEW p \in Procs,
           \/ memalloc_open(p) \/ OpenCounted(p) \/ Close(p) \/ Munmap(p)
           \/ ReleaseCounted(p) \/ FreeHead(p) \/ UnlinkHead(p)
    PROVE  TypeOK' /\ NodeInv'
  <1>0. mod' = mod /\ node' = node /\ mem_lock' = mem_lock
    BY DEF memalloc_open, OpenCounted, Close, Munmap, ReleaseCounted, FreeHead, UnlinkHead
  <1>1. NodeInv'
    BY <1>0 DEF NodeInv
  <1>2. ASSUME NEW at \in {"open", "close"}, ReadCount(p, at)
        PROVE  call' \in [Procs -> Call] /\ serial' \in BOOLEAN
    <2>1. [at |-> at, count |-> open_count] \in Call
      BY CallRecords DEF TypeOK, Call
    <2>2. call' \in [Procs -> Call]
      BY <1>2, <2>1 DEF ReadCount, TypeOK
    <2>3. serial' \in BOOLEAN
      BY <1>2 DEF ReadCount, TypeOK
    <2> QED
      BY <2>2, <2>3
  <1>3. Idle \in Call /\ [at |-> "free"] \in Call
    BY DEF Call
  <1>4. CASE memalloc_open(p)
    BY <1>0, <1>1, <1>2, <1>4 DEF memalloc_open, TypeOK
  <1>5. CASE OpenCounted(p)
    <2>1. open_count' \in Int
      BY <1>5, CallFields DEF OpenCounted, Resumes
    <2> QED
      BY <1>0, <1>1, <1>3, <1>5, <2>1 DEF OpenCounted, TypeOK
  <1>6. CASE Close(p)
    <2>1. file' \in [Procs -> {"none", "open", "mapped", "closed", "stale"}]
      BY <1>6 DEF Close, memalloc_release, TypeOK
    <2>2. call' \in [Procs -> Call] /\ serial' \in BOOLEAN
      BY <1>2, <1>6 DEF Close, memalloc_release, TypeOK
    <2> QED
      BY <1>0, <1>1, <1>6, <2>1, <2>2 DEF Close, TypeOK
  <1>7. CASE Munmap(p)
    <2>1. PICK r \in maps[p] :
            /\ maps' = [maps EXCEPT ![p] = @ \ {r}]
            /\ IF file[p] = "mapped" /\ maps[p] = {r}
                 THEN memalloc_release(p)
                 ELSE UNCHANGED <<file, call, serial>>
      BY <1>7 DEF Munmap
    <2>2. maps' \in [Procs -> SUBSET Region]
      BY <2>1 DEF TypeOK
    <2>3. file' \in [Procs -> {"none", "open", "mapped", "closed", "stale"}]
      BY <2>1 DEF memalloc_release, TypeOK
    <2>4. call' \in [Procs -> Call] /\ serial' \in BOOLEAN
      BY <1>2, <2>1 DEF memalloc_release, TypeOK
    <2> QED
      BY <1>0, <1>1, <1>7, <2>2, <2>3, <2>4 DEF Munmap, TypeOK
  <1>8. CASE ReleaseCounted(p)
    <2>1. open_count' \in Int
      <3>1. call[p].at = "close" /\ open_count' = call[p].count - 1
        BY <1>8 DEF ReleaseCounted, Resumes
      <3>2. call[p].count \in Int
        BY <3>1, CallFields
      <3> QED
        BY <3>1, <3>2
    <2>2. call' \in [Procs -> Call] /\ file' \in [Procs -> {"none", "open", "mapped", "closed", "stale"}]
      BY <1>3, <1>8 DEF ReleaseCounted, Frees, Released, TypeOK
    <2> QED
      BY <1>0, <1>1, <1>8, <2>1, <2>2 DEF ReleaseCounted, TypeOK
  <1>9. CASE FreeHead(p)
    <2>1. CASE heap_list = {} /\ Released(p) /\ UNCHANGED dma
      BY <1>0, <1>1, <1>3, <1>9, <2>1 DEF FreeHead, Released, TypeOK
    <2>2. ASSUME NEW e \in heap_list,
                 dma' = dma \ {e.phys},
                 call' = [call EXCEPT ![p] = [at |-> "unlink", size |-> e.size, phys |-> e.phys]],
                 UNCHANGED file
          PROVE  TypeOK' /\ NodeInv'
      <3>1. e \in Region
        BY DEF TypeOK
      <3>2. [at |-> "unlink", size |-> e.size, phys |-> e.phys] \in Call
        BY <3>1 DEF Region, Call
      <3>3. call' \in [Procs -> Call]
        BY <2>2, <3>2 DEF TypeOK
      <3>4. dma' \subseteq Addrs
        BY <2>2 DEF TypeOK
      <3> QED
        BY <1>0, <1>1, <1>9, <2>2, <3>3, <3>4 DEF FreeHead, TypeOK
    <2> QED
      BY <1>9, <2>1, <2>2 DEF FreeHead
  <1>10. CASE UnlinkHead(p)
    <2>1. heap_list' \subseteq Region /\ oops' \in BOOLEAN
      BY <1>10 DEF UnlinkHead, TypeOK
    <2> QED
      BY <1>0, <1>1, <1>3, <1>10, <2>1 DEF UnlinkHead, TypeOK
  <1> QED
    BY <1>4, <1>5, <1>6, <1>7, <1>8, <1>9, <1>10

\* ioctl, mmap and the use of a stale file keep the types; node and mod are
\* left alone.
LEMMA CallTypes ==
    ASSUME TypeOK, NodeInv, NEW p \in Procs,
           \/ HardReset(p) \/ FreeMemory(p) \/ AllocMemory(p) \/ AllocEntry(p)
           \/ AllocBuffer(p) \/ memalloc_mmap(p) \/ Remap(p) \/ StaleUse(p)
    PROVE  TypeOK' /\ NodeInv'
  <1>0. mod' = mod /\ node' = node /\ file' = file /\ open_count' = open_count /\ serial' = serial
    BY DEF HardReset, FreeMemory, AllocMemory, AllocEntry, AllocBuffer, memalloc_mmap, Remap, StaleUse
  <1>1. NodeInv'
    BY <1>0 DEF NodeInv
  <1>2. Idle \in Call
    BY DEF Call
  <1>3. CASE HardReset(p)
    BY <1>0, <1>1, <1>3 DEF HardReset, memalloc_free_buffers, TypeOK
  <1>4. CASE FreeMemory(p)
    BY <1>0, <1>1, <1>4 DEF FreeMemory, TypeOK
  <1>5. CASE AllocMemory(p)
    <2>1. PICK n \in Sizes : call' = [call EXCEPT ![p] = [at |-> "kzalloc", size |-> n]]
      BY <1>5 DEF AllocMemory
    <2>2. [at |-> "kzalloc", size |-> n] \in Call
      BY MemAllocAssumption DEF MemAllocAssumption, Call
    <2> QED
      BY <1>0, <1>1, <1>5, <2>1, <2>2 DEF AllocMemory, TypeOK
  <1>6. CASE AllocEntry(p)
    <2>1. [call[p] EXCEPT !.at = "dma"] \in Call
      BY <1>6 DEF AllocEntry, Resumes, TypeOK, Call, Idle
    <2> QED
      BY <1>0, <1>1, <1>2, <1>6, <2>1 DEF AllocEntry, TypeOK
  <1>7. CASE AllocBuffer(p)
    <2>1. PAGE_ALIGN(call[p].size) \in Nat
      BY <1>7, CallFields, PageAlignNat DEF AllocBuffer, Resumes
    <2>2. dma' \subseteq Addrs /\ heap_list' \subseteq Region
      BY <1>7, <2>1 DEF AllocBuffer, TypeOK, Region
    <2> QED
      BY <1>0, <1>1, <1>2, <1>7, <2>2 DEF AllocBuffer, TypeOK
  <1>8. CASE memalloc_mmap(p)
    <2>1. PICK a \in Addrs, n \in Sizes : \E e \in FindEntryByBus(a) :
             call' = [call EXCEPT ![p] = [at |-> "remap", size |-> n, phys |-> e.phys]]
      BY <1>8 DEF memalloc_mmap
    <2>2. [at |-> "remap", size |-> n, phys |-> a] \in Call
      BY MemAllocAssumption DEF MemAllocAssumption, Call
    <2>3. call' \in [Procs -> Call]
      BY <2>1, <2>2 DEF FindEntryByBus, TypeOK
    <2> QED
      BY <1>0, <1>1, <1>8, <2>3 DEF memalloc_mmap, TypeOK
  <1>9. CASE Remap(p)
    <2>1. [phys |-> call[p].phys, size |-> call[p].size] \in Region
      BY <1>9, CallFields DEF Remap, Resumes
    <2>2. maps' \in [Procs -> SUBSET Region]
      BY <1>9, <2>1 DEF Remap, TypeOK
    <2> QED
      BY <1>0, <1>1, <1>2, <1>9, <2>2 DEF Remap, TypeOK
  <1>10. CASE StaleUse(p)
    <2>1. oops' \in BOOLEAN
      BY <1>10 DEF StaleUse
    <2> QED
      BY <1>0, <1>1, <1>10, <2>1 DEF StaleUse, TypeOK
  <1> QED
    BY <1>3, <1>4, <1>5, <1>6, <1>7, <1>8, <1>9, <1>10

-----------------------------------------------------------------------------
(* Files *)

\* The set of live files is finite, so its cardinality is a number.
LEMMA LiveFinite == IsFiniteSet(Live) /\ Cardinality(Live) \in Nat
  <1>1. Live \subseteq Procs
    BY DEF Live
  <1> QED
    BY <1>1, MemAllocAssumption, FS_Subset, FS_CardinalityType DEF MemAllocAssumption

\* Counting a file in adds it to the live ones.
LEMMA LiveAdd ==
    ASSUME NEW p \in Procs, p \notin Live, Live' = Live \union {p}
    PROVE  Cardinality(Live') = Cardinality(Live) + 1 /\ Live' # {}
  BY LiveFinite, FS_AddElement

\* Counting one out takes it away; it was the last one if the count was 1.
LEMMA LiveRemove ==
    ASSUME NEW p \in Live, Live' = Live \ {p}
    PROVE  /\ Cardinality(Live') = Cardinality(Live) - 1
           /\ Cardinality(Live) = 1 <=> Live' = {}
  <1>1. /\ IsFiniteSet(Live \ {p})
        /\ Cardinality(Live \ {p}) = Cardinality(Live) - 1
    BY LiveFinite, FS_RemoveElement
  <1>2. Cardinality(Live \ {p}) = 0 <=> Live \ {p} = {}
    BY <1>1, FS_EmptySet
  <1> QED
    BY <1>1, <1>2, LiveFinite

\* With one process inside open or release, Busy, Freeing and Unlinking say
\* what that process does; they need no more than the state of the calls.
LEMMA NoneBusy ==
    ASSUME Busy = {}
    PROVE  Freeing = {} /\ Unlinking = {}
  BY DEF Busy, Freeing, Unlinking

\* A step that leaves the files alone and moves p between handlers of ioctl and
\* mmap is not seen by open and release.
LEMMA QuietCall ==
    ASSUME TypeOK, CallInv, Unhurt, Alone, NEW p \in Procs, file[p] = "open",
           file' = file, \A q \in Procs : q # p => maps'[q] = maps[q],
           open_count' = open_count, oops' = oops,
           call[p].at \in {"user", "kzalloc", "dma", "remap"},
           call'[p].at \in {"user", "kzalloc", "dma", "remap"},
           \A q \in Procs : q # p => call'[q] = call[q]
    PROVE  /\ Live' = Live /\ Busy' = Busy /\ Freeing' = Freeing /\ Unlinking' = Unlinking
           /\ CallInv' /\ Unhurt' /\ Alone'
  <1>1. Live' = Live
    BY DEF Live
  <1>2. Busy' = Busy /\ Freeing' = Freeing
    BY DEF Busy, Freeing
  <1>3. Unlinking' = Unlinking
    <2>1. p \notin Freeing
      BY DEF Freeing
    <2>2. \A q \in Freeing : call'[q] = call[q]
      BY <2>1 DEF Freeing
    <2> QED
      BY <1>2, <2>2 DEF Unlinking
  <1>4. CallInv' /\ Unhurt'
    BY DEF CallInv, Unhurt
  <1>5. Alone'
    BY <1>2 DEF Alone
  <1> QED
    BY <1>1, <1>2, <1>3, <1>4, <1>5

-----------------------------------------------------------------------------
(* Steps that open, release and rmmod take one at a time *)

\* insmod and rmmod: nobody is in the driver, and nobody gets in.
LEMMA LoadSerial ==
    ASSUME TypeOK, SerialInv, serial',
           \/ memalloc_init_chrdev \/ memalloc_init_class \/ memalloc_init_device
           \/ memalloc_cleanup \/ CleanupFree
    PROVE  SerialInv'
  <1> USE DEF SerialInv
  <1>1. \A p \in Procs : file[p] = "none" /\ call[p] = Idle /\ call[p].at = "user"
    <2>1. CASE mod # "in"
      BY <2>1, CallFields DEF LoadedInv
    <2>2. CASE mod = "in"
      <3>1. memalloc_cleanup
        BY <2>2 DEF CleanupFree, memalloc_init_chrdev, memalloc_init_class, memalloc_init_device
      <3>2. \A p \in Procs : file[p] = "none" /\ call[p] = Idle
        BY <3>1 DEF memalloc_cleanup
      <3> QED
        BY <3>2 DEF Idle
    <2> QED
      BY <2>1, <2>2
  <1>2. file' = file /\ call' = call /\ maps' = maps /\ oops' = oops
    <2>1. ASSUME Gone PROVE file' = file
      BY <1>1, <2>1 DEF Gone, TypeOK
    <2> QED
      BY <2>1 DEF memalloc_cleanup, CleanupFree, memalloc_init_chrdev, memalloc_init_class,
                  memalloc_init_device
  <1>3. Live = {} /\ Busy = {} /\ Live' = {} /\ Busy' = {}
    BY <1>1, <1>2 DEF Live, Busy
  <1>4. Freeing = {} /\ Unlinking = {} /\ Freeing' = {} /\ Unlinking' = {}
    BY <1>1, <1>2 DEF Freeing, Unlinking
  <1>5. heap_list = {} /\ dma = {}
    <2>1. heap_list = {}
      BY <1>3, <1>4 DEF LoadedInv, CountInv
    <2> QED
      BY <2>1 DEF ListInv
  <1>6. heap_list' = {} /\ dma' = {}
    BY <1>5 DEF memalloc_cleanup, CleanupFree, memalloc_init_chrdev, memalloc_init_class,
                memalloc_init_device, memalloc_free_buffers
  <1>7. Unhurt' /\ CallInv' /\ Alone' /\ ListInv'
    BY <1>1, <1>2, <1>3, <1>4, <1>6 DEF Unhurt, CallInv, Alone, ListInv
  <1>8. mod' \in {"class", "device", "in"} => open_count' = 0
    BY <1>1, <1>3, FS_EmptySet DEF memalloc_cleanup, CleanupFree, memalloc_init_chrdev, memalloc_init_class,
                memalloc_init_device, LoadedInv, Gone
  <1>9. Cardinality(Live') = 0
    BY <1>3, FS_EmptySet
  <1>10. LoadedInv' /\ CountInv'
    BY <1>1, <1>2, <1>3, <1>4, <1>6, <1>8, <1>9 DEF LoadedInv, CountInv
  <1> QED
    BY <1>7, <1>10

\* p enters release, and its file stays counted.
LEMMA ReleaseSerial ==
    ASSUME TypeOK, SerialInv, serial', NEW p \in Procs,
           file[p] \in {"open", "mapped"}, call[p] = Idle, memalloc_release(p),
           maps' \in [Procs -> SUBSET Region], maps'[p] = {},
           \A q \in Procs : q # p => maps'[q] = maps[q],
           UNCHANGED <<mod, node, open_count, heap_list, dma, oops>>
    PROVE  SerialInv'
  <1> USE DEF SerialInv
  <1>1. Busy = {} /\ mod = "in"
    BY DEF memalloc_release, ReadCount, LoadedInv
  <1>2. /\ file' = [file EXCEPT ![p] = "closed"]
        /\ call' = [call EXCEPT ![p] = [at |-> "close", count |-> open_count]]
    BY DEF memalloc_release, ReadCount
  <1>3. /\ file'[p] = "closed" /\ call'[p].at = "close" /\ call'[p].count = open_count
        /\ \A q \in Procs : q # p => file'[q] = file[q] /\ call'[q] = call[q]
    BY <1>2 DEF TypeOK
  <1>4. Live' = Live
    BY <1>3 DEF Live
  <1>5. Freeing = {} /\ Unlinking = {} /\ Freeing' = {} /\ Unlinking' = {}
    BY <1>1, <1>3 DEF Busy, Freeing, Unlinking
  <1>6. Busy' = {p}
    BY <1>1, <1>3 DEF Busy
  <1>7. Unhurt' /\ CallInv'
    BY <1>3 DEF Unhurt, CallInv
  <1>8. \A q \in Procs : q # p => ~(call'[q].at \in {"open", "close"})
    BY <1>1, <1>3 DEF Busy, Unhurt
  <1>9. Alone'
    BY <1>3, <1>6, <1>8 DEF Alone
  <1>10. LoadedInv' /\ ListInv' /\ CountInv'
    BY <1>1, <1>4, <1>5 DEF LoadedInv, ListInv, CountInv
  <1> QED
    BY <1>7, <1>9, <1>10

\* A file that stays open, or mapped, is still counted.
LEMMA KeptSerial ==
    ASSUME TypeOK, SerialInv, NEW p \in Procs,
           file[p] \in {"open", "mapped"}, call' = call,
           file' \in [Procs -> {"none", "open", "mapped", "closed", "stale"}],
           file'[p] \in {"open", "mapped"}, \A q \in Procs : q # p => file'[q] = file[q],
           call[p] = Idle,
           \A q \in Procs : q # p => maps'[q] = maps[q],
           UNCHANGED <<mod, node, open_count, heap_list, dma, oops>>
    PROVE  SerialInv'
  <1> USE DEF SerialInv
  <1>0. call[p].at = "user"
    BY DEF Idle
  <1>1. Live' = Live
    BY DEF Live
  <1>2. Busy' = Busy /\ Freeing' = Freeing
    BY <1>0 DEF Busy, Freeing
  <1>3. Unlinking' = Unlinking
    BY <1>2 DEF Unlinking
  <1>4. Unhurt' /\ CallInv' /\ Alone'
    BY <1>0, <1>2 DEF Unhurt, CallInv, Alone
  <1>5. mod = "in"
    BY DEF LoadedInv
  <1> QED
    BY <1>1, <1>2, <1>3, <1>4, <1>5 DEF LoadedInv, ListInv, CountInv

\* open, close and munmap.
LEMMA FileSerial ==
    ASSUME TypeOK, NodeInv, SerialInv, serial', NEW p \in Procs,
           memalloc_open(p) \/ OpenCounted(p) \/ Close(p) \/ Munmap(p)
    PROVE  SerialInv'
  <1>1. CASE memalloc_open(p)
    <2> USE DEF SerialInv
    <2>1. Busy = {} /\ mod = "in"
      BY <1>1 DEF memalloc_open, ReadCount, NodeInv, TypeOK
    <2>2. /\ file' = file /\ file[p] = "none"
          /\ call'[p].at = "open" /\ call'[p].count = open_count
          /\ \A q \in Procs : q # p => call'[q] = call[q]
      BY <1>1 DEF memalloc_open, ReadCount, TypeOK
    <2>3. Live' = Live
      BY <2>2 DEF Live
    <2>4. Freeing = {} /\ Unlinking = {} /\ Freeing' = {} /\ Unlinking' = {}
      BY <2>1, <2>2 DEF Busy, Freeing, Unlinking
    <2>5. Busy' = {p}
      BY <2>1, <2>2 DEF Busy
    <2>6. \A q \in Procs : q # p => ~(call'[q].at \in {"open", "close"})
      BY <2>1, <2>2 DEF Busy, Unhurt
    <2>7. Unhurt' /\ CallInv'
      BY <1>1, <2>2 DEF memalloc_open, Unhurt, CallInv
    <2>8. Alone'
      BY <1>1, <2>2, <2>5, <2>6 DEF memalloc_open, Alone
    <2>9. LoadedInv' /\ ListInv' /\ CountInv'
      BY <1>1, <2>1, <2>3, <2>4 DEF memalloc_open, LoadedInv, ListInv, CountInv
    <2> QED
      BY <2>7, <2>8, <2>9
  <1>2. CASE OpenCounted(p)
    <2> USE DEF SerialInv
    <2>1. file[p] = "none" /\ call[p].at = "open" /\ call[p].count = open_count
      BY <1>2 DEF OpenCounted, Resumes, CallInv, Alone
    <2>2. /\ file'[p] = "open" /\ call'[p].at = "user" /\ open_count' = open_count + 1
          /\ \A q \in Procs : q # p => file'[q] = file[q] /\ call'[q] = call[q]
      BY <1>2, <2>1 DEF OpenCounted, Idle, TypeOK
    <2>3. \A q \in Busy : q = p
      BY <2>1 DEF Busy, Alone
    <2>4. Freeing = {} /\ Unlinking = {}
      BY <2>1, <2>3 DEF Busy, Freeing, Unlinking
    <2>5. Busy' = {} /\ Freeing' = {} /\ Unlinking' = {}
      BY <2>2, <2>3 DEF Busy, Freeing, Unlinking
    <2>6. p \notin Live /\ Live' = Live \union {p}
      BY <2>1, <2>2 DEF Live
    <2>7. Cardinality(Live') = Cardinality(Live) + 1 /\ Live' # {}
      BY <2>6, LiveAdd
    <2>8. mod = "in"
      BY <2>1 DEF LoadedInv
    <2>9. \A q \in Procs : ~(call'[q].at \in {"open", "close"})
      BY <2>2, <2>3 DEF Busy, Unhurt
    <2>10. maps' = maps /\ oops' = oops /\ mod' = mod /\ heap_list' = heap_list /\ dma' = dma
      BY <1>2 DEF OpenCounted
    <2>11. Unhurt' /\ CallInv'
      BY <2>1, <2>2, <2>10 DEF Unhurt, CallInv
    <2>12. Alone'
      BY <2>5, <2>9 DEF Alone
    <2>13. LoadedInv' /\ ListInv' /\ CountInv'
      BY <2>2, <2>4, <2>5, <2>7, <2>8, <2>10 DEF LoadedInv, ListInv, CountInv
    <2> QED
      BY <2>11, <2>12, <2>13
  <1>3. CASE Close(p)
    <2>1. file[p] = "open" /\ call[p] = Idle /\ maps' = maps
      BY <1>3 DEF Close, InUser
    <2>2. CASE maps[p] = {}
      <3>1. memalloc_release(p) /\ maps'[p] = {} /\ maps' \in [Procs -> SUBSET Region]
        BY <1>3, <2>1, <2>2 DEF Close, TypeOK
      <3>2. UNCHANGED <<mod, node, open_count, heap_list, dma, oops>>
        BY <1>3 DEF Close
      <3> QED
        BY <2>1, <3>1, <3>2, ReleaseSerial
    <2>3. CASE maps[p] # {}
      <3>1. file' = [file EXCEPT ![p] = "mapped"] /\ call' = call
        BY <1>3, <2>3 DEF Close
      <3>2. UNCHANGED <<mod, node, open_count, heap_list, dma, oops>>
        BY <1>3 DEF Close
      <3>3. /\ file' \in [Procs -> {"none", "open", "mapped", "closed", "stale"}]
            /\ file'[p] = "mapped" /\ \A q \in Procs : q # p => file'[q] = file[q]
        BY <3>1 DEF TypeOK
      <3> QED
        BY <2>1, <3>1, <3>2, <3>3, KeptSerial
    <2> QED
      BY <2>2, <2>3
  <1>4. CASE Munmap(p)
    <2>1. file[p] \in {"open", "mapped"} /\ call[p] = Idle
      BY <1>4 DEF Munmap
    <2>2. UNCHANGED <<mod, node, open_count, heap_list, dma, oops>>
      BY <1>4 DEF Munmap
    <2>3. PICK r \in maps[p] :
            /\ maps' = [maps EXCEPT ![p] = @ \ {r}]
            /\ IF file[p] = "mapped" /\ maps[p] = {r}
                 THEN memalloc_release(p)
                 ELSE UNCHANGED <<file, call, serial>>
      BY <1>4 DEF Munmap
    <2>4. /\ maps' \in [Procs -> SUBSET Region] /\ maps'[p] = maps[p] \ {r}
          /\ \A q \in Procs : q # p => maps'[q] = maps[q]
      BY <2>3 DEF TypeOK
    <2>5. CASE file[p] = "mapped" /\ maps[p] = {r}
      <3>1. maps'[p] = {} /\ memalloc_release(p)
        BY <2>3, <2>4, <2>5
      <3> QED
        BY <2>1, <2>2, <2>4, <3>1, ReleaseSerial
    <2>6. CASE ~(file[p] = "mapped" /\ maps[p] = {r})
      <3>1. file' = file /\ call' = call
        BY <2>3, <2>6
      <3>2. file' \in [Procs -> {"none", "open", "mapped", "closed", "stale"}]
        BY <3>1 DEF TypeOK
      <3> QED
        BY <2>1, <2>2, <2>4, <3>1, <3>2, KeptSerial
    <2> QED
      BY <2>5, <2>6
  <1> QED
    BY <1>1, <1>2, <1>3, <1>4

\* The only process in release counts its file out and frees what is left if
\* it was the last.
LEMMA CountedSerial ==
    ASSUME TypeOK, SerialInv, NEW p \in Procs, ReleaseCounted(p)
    PROVE  SerialInv'
  <1> USE DEF SerialInv
  <1>1. /\ call[p].at = "close" /\ call[p].count = open_count /\ file[p] = "closed"
        /\ maps[p] = {}
    BY DEF ReleaseCounted, Resumes, CallInv, Alone
  <1>2. open_count' = open_count - 1 /\ open_count \in Int
    BY <1>1 DEF ReleaseCounted, TypeOK
  <1>3. \/ /\ open_count = 1
           /\ file' = file /\ call'[p].at = "free"
        \/ /\ open_count # 1
           /\ file'[p] = "none" /\ call'[p].at = "user"
    <2>1. open_count - 1 = 0 <=> open_count = 1
      BY <1>2
    <2> QED
      BY <1>1, <2>1 DEF ReleaseCounted, Frees, Released, Idle, TypeOK
  <1>4. \A q \in Procs : q # p => file'[q] = file[q] /\ call'[q] = call[q]
    BY <1>1 DEF ReleaseCounted, Frees, Released, TypeOK
  <1>5. maps' = maps /\ oops' = oops /\ mod' = mod /\ heap_list' = heap_list /\ dma' = dma
    BY DEF ReleaseCounted
  <1>6. \A q \in Busy : q = p
    BY <1>1 DEF Busy, Alone, Unhurt
  <1>7. Freeing = {} /\ Unlinking = {}
    BY <1>1, <1>6 DEF Busy, Freeing, Unlinking
  <1>8. Unlinking' = {} /\ (open_count = 1 => Freeing' = {p}) /\ (open_count # 1 => Freeing' = {})
    BY <1>1, <1>3, <1>4, <1>6 DEF Busy, Freeing, Unlinking, Unhurt
  <1>9. \A q \in Busy' : q = p
    BY <1>4, <1>6 DEF Busy
  <1>10. \A q \in Procs : ~(call'[q].at \in {"open", "close"})
    BY <1>3, <1>4, <1>6 DEF Busy, Unhurt
  <1>11. p \in Live /\ Live' = Live \ {p}
    BY <1>1, <1>3, <1>4 DEF Live
  <1>12. /\ Cardinality(Live') = Cardinality(Live) - 1
         /\ Cardinality(Live) = 1 <=> Live' = {}
    BY <1>11, LiveRemove
  <1>13. mod = "in" /\ open_count = Cardinality(Live)
    BY <1>1 DEF LoadedInv, CountInv
  <1>14. Unhurt' /\ CallInv'
    BY <1>1, <1>3, <1>4, <1>5 DEF Unhurt, CallInv
  <1>15. Alone'
    BY <1>9, <1>10 DEF Alone
  <1>16. LoadedInv' /\ ListInv'
    BY <1>5, <1>7, <1>8, <1>13 DEF LoadedInv, ListInv
  <1>17. CountInv'
    BY <1>2, <1>8, <1>12, <1>13 DEF CountInv
  <1> QED
    BY <1>14, <1>15, <1>16, <1>17

\* While a release frees the list, it is alone and no file is left.
LEMMA FreeingAlone ==
    ASSUME TypeOK, SerialInv, NEW p \in Procs, call[p].at \in {"free", "unlink"}
    PROVE  /\ file[p] = "closed" /\ maps[p] = {} /\ mod = "in"
           /\ Busy = {p} /\ Freeing = {p} /\ Live = {}
           /\ \A q \in Procs : call[q].at \notin {"open", "close", "remap"} /\ maps[q] = {}
  <1> USE DEF SerialInv
  <1>1. file[p] = "closed" /\ maps[p] = {}
    BY DEF CallInv
  <1>2. mod = "in"
    BY <1>1 DEF LoadedInv
  <1>3. Busy = {p} /\ Freeing = {p}
    BY <1>1 DEF Busy, Freeing, Alone
  <1>4. Live = {}
    BY <1>2, <1>3 DEF CountInv
  <1>5. ASSUME NEW q \in Procs
        PROVE  call[q].at \notin {"open", "close", "remap"} /\ maps[q] = {}
    <2>1. call[q].at \notin {"open", "close"}
      BY <1>3 DEF Busy, Unhurt
    <2>2. file[q] \notin {"open", "mapped"}
      BY <1>4 DEF Live
    <2> QED
      BY <2>1, <2>2 DEF CallInv
  <1> QED
    BY <1>1, <1>2, <1>3, <1>4, <1>5

\* A turn of memalloc_free_buffers, or its end.
LEMMA FreeSerial ==
    ASSUME TypeOK, SerialInv, NEW p \in Procs, FreeHead(p) \/ UnlinkHead(p)
    PROVE  SerialInv'
  <1> USE DEF SerialInv
  <1>1. call[p].at \in {"free", "unlink"}
    BY DEF FreeHead, UnlinkHead, Resumes
  <1>2. /\ file[p] = "closed" /\ maps[p] = {} /\ mod = "in"
        /\ Busy = {p} /\ Freeing = {p} /\ Live = {}
        /\ \A q \in Procs : call[q].at \notin {"open", "close", "remap"} /\ maps[q] = {}
    BY <1>1, FreeingAlone
  <1>3. mod' = mod /\ maps' = maps /\ open_count' = open_count
    BY DEF FreeHead, UnlinkHead
  <1>4. CASE FreeHead(p) /\ heap_list = {} /\ Released(p) /\ UNCHANGED dma
    <2>1. /\ file'[p] = "none" /\ call'[p].at = "user"
          /\ \A q \in Procs : q # p => file'[q] = file[q] /\ call'[q] = call[q]
      BY <1>4 DEF Released, Idle, TypeOK
    <2>2. oops' = oops /\ heap_list' = heap_list /\ dma' = dma
      BY <1>4 DEF FreeHead
    <2>3. Unlinking = {}
      BY <1>2, <1>4 DEF Unlinking, ListInv
    <2>4. Live' = {} /\ Busy' = {} /\ Freeing' = {} /\ Unlinking' = {}
      BY <1>2, <2>1 DEF Live, Busy, Freeing, Unlinking
    <2>5. Unhurt' /\ CallInv'
      BY <1>2, <1>3, <2>1, <2>2 DEF Unhurt, CallInv
    <2>6. Alone'
      BY <1>2, <2>1, <2>4 DEF Alone
    <2>7. LoadedInv' /\ ListInv' /\ CountInv'
      BY <1>2, <1>3, <1>4, <2>2, <2>3, <2>4 DEF LoadedInv, ListInv, CountInv
    <2> QED
      BY <2>5, <2>6, <2>7
  <1>5. ASSUME FreeHead(p), NEW e \in heap_list, dma' = dma \ {e.phys}, UNCHANGED file,
               call' = [call EXCEPT ![p] = [at |-> "unlink", size |-> e.size, phys |-> e.phys]]
        PROVE  SerialInv'
    <2>1. /\ call'[p].at = "unlink" /\ call'[p].size = e.size /\ call'[p].phys = e.phys
          /\ \A q \in Procs : q # p => call'[q] = call[q]
      BY <1>5 DEF TypeOK
    <2>2. oops' = oops /\ heap_list' = heap_list
      BY <1>5 DEF FreeHead
    <2>3. call[p].at = "free" /\ Unlinking = {}
      BY <1>2, <1>5 DEF FreeHead, Resumes, Unlinking
    <2>4. Live' = {} /\ Busy' = {p} /\ Freeing' = {p}
      BY <1>2, <1>5, <2>1 DEF Live, Busy, Freeing
    <2>5. e = [phys |-> e.phys, size |-> e.size]
      BY DEF TypeOK, Region
    <2>6. Unlinking' = {e}
      BY <2>1, <2>4, <2>5 DEF Unlinking
    <2>7. ListInv'
      <3>1. dma = {f.phys : f \in heap_list}
        BY <2>3 DEF ListInv
      <3>2. dma \ {e.phys} = {f.phys : f \in heap_list \ {e}}
        BY <3>1 DEF ListInv
      <3> QED
        BY <1>5, <2>2, <2>6, <3>2 DEF ListInv
    <2>8. Unhurt' /\ CallInv'
      BY <1>2, <1>3, <1>5, <2>1, <2>2 DEF Unhurt, CallInv
    <2>9. Alone'
      BY <1>2, <2>1, <2>4 DEF Alone
    <2>10. LoadedInv' /\ CountInv'
      BY <1>2, <1>3, <2>2, <2>4 DEF LoadedInv, CountInv
    <2> QED
      BY <2>7, <2>8, <2>9, <2>10
  <1>6. CASE UnlinkHead(p)
    <2> DEFINE e == [phys |-> call[p].phys, size |-> call[p].size]
    <2>1. /\ file' = file /\ dma' = dma /\ heap_list' = heap_list \ {e}
          /\ oops' = (e \notin heap_list)
          /\ call[p].at = "unlink"
      BY <1>6 DEF UnlinkHead, Resumes
    <2>2. call'[p].at = "free" /\ \A q \in Procs : q # p => call'[q] = call[q]
      BY <1>6 DEF UnlinkHead, TypeOK
    <2>3. Unlinking = {e}
      BY <1>2, <2>1 DEF Unlinking
    <2>4. e \in heap_list
      BY <2>3 DEF ListInv
    <2>5. ~oops'
      BY <2>1, <2>4
    <2>6. Live' = {} /\ Busy' = {p} /\ Freeing' = {p} /\ Unlinking' = {}
      BY <1>2, <2>1, <2>2 DEF Live, Busy, Freeing, Unlinking
    <2>7. ListInv'
      BY <2>1, <2>3, <2>6 DEF ListInv
    <2>8. Unhurt' /\ CallInv'
      BY <1>2, <1>3, <2>1, <2>2, <2>5 DEF Unhurt, CallInv
    <2>9. Alone'
      BY <1>2, <2>2, <2>6 DEF Alone
    <2>10. LoadedInv' /\ CountInv'
      BY <1>2, <1>3, <2>1, <2>6 DEF LoadedInv, CountInv
    <2> QED
      BY <2>7, <2>8, <2>9, <2>10
  <1> QED
    BY <1>4, <1>5, <1>6 DEF FreeHead

-----------------------------------------------------------------------------
(* ioctl and mmap *)

\* A handler of ioctl or mmap is in an open file: none is being released, and
\* the module is in.
LEMMA OpenFile ==
    ASSUME TypeOK, SerialInv, NEW p \in Procs, file[p] = "open"
    PROVE  /\ mod = "in" /\ Live # {} /\ Freeing = {} /\ Unlinking = {}
           /\ dma = {e.phys : e \in heap_list}
  <1> USE DEF SerialInv
  <1>1. mod = "in" /\ Live # {}
    BY DEF LoadedInv, Live
  <1>2. Freeing = {} /\ Unlinking = {}
    BY <1>1 DEF CountInv, Unlinking
  <1> QED
    BY <1>1, <1>2 DEF ListInv

\* The handlers of ioctl and mmap, and every other use of an open file, under
\* any interleaving of their sleeping steps.
LEMMA CallSerial ==
    ASSUME TypeOK, TypeOK', SerialInv, NEW p \in Procs,
           \/ HardReset(p) \/ FreeMemory(p) \/ AllocMemory(p) \/ AllocEntry(p)
           \/ AllocBuffer(p) \/ memalloc_mmap(p) \/ Remap(p) \/ StaleUse(p)
    PROVE  SerialInv'
  <1> USE DEF SerialInv
  <1>0. ~StaleUse(p)
    BY DEF StaleUse, Unhurt
  <1>1. UNCHANGED <<mod, node, open_count, file, oops>>
    BY <1>0 DEF HardReset, FreeMemory, AllocMemory, AllocEntry, AllocBuffer, memalloc_mmap, Remap
  <1>2. call[p].at \in {"user", "kzalloc", "dma", "remap"} /\ file[p] = "open"
    <2>1. CASE HardReset(p) \/ FreeMemory(p) \/ AllocMemory(p) \/ memalloc_mmap(p)
      BY <2>1 DEF HardReset, FreeMemory, AllocMemory, memalloc_mmap, InUser, Idle
    <2>2. CASE AllocEntry(p) \/ AllocBuffer(p) \/ Remap(p)
      BY <2>2 DEF AllocEntry, AllocBuffer, Remap, Resumes, CallInv
    <2> QED
      BY <1>0, <2>1, <2>2
  <1>3. /\ call'[p].at \in {"user", "kzalloc", "dma", "remap"}
        /\ \A q \in Procs : q # p => call'[q] = call[q]
    <2>1. CASE HardReset(p) \/ FreeMemory(p)
      BY <1>2, <2>1 DEF HardReset, FreeMemory
    <2>2. CASE AllocMemory(p)
      BY <2>2 DEF AllocMemory, TypeOK
    <2>3. CASE memalloc_mmap(p)
      BY <2>3 DEF memalloc_mmap, TypeOK
    <2>4. CASE AllocEntry(p)
      <3>1. [call[p] EXCEPT !.at = "dma"].at = "dma"
        BY <2>4 DEF AllocEntry, Resumes, TypeOK, Call, Idle
      <3>2. CASE call' = [call EXCEPT ![p].at = "dma"]
        <4>1. call'[p] = [call[p] EXCEPT !.at = "dma"] /\ \A q \in Procs : q # p => call'[q] = call[q]
          BY <3>2 DEF TypeOK
        <4> QED
          BY <3>1, <4>1
      <3>3. CASE call' = [call EXCEPT ![p] = Idle]
        BY <3>3 DEF Idle, TypeOK
      <3> QED
        BY <2>4, <3>2, <3>3 DEF AllocEntry
    <2>5. CASE AllocBuffer(p) \/ Remap(p)
      BY <2>5 DEF AllocBuffer, Remap, Idle, TypeOK
    <2> QED
      BY <1>0, <2>1, <2>2, <2>3, <2>4, <2>5
  <1>4. \A q \in Procs : q # p => maps'[q] = maps[q]
    <2>1. CASE Remap(p)
      BY <2>1 DEF Remap, TypeOK
    <2>2. CASE ~Remap(p)
      BY <1>0, <2>2 DEF HardReset, FreeMemory, AllocMemory, AllocEntry, AllocBuffer, memalloc_mmap
    <2> QED
      BY <2>1, <2>2
  <1>5. /\ Live' = Live /\ Busy' = Busy /\ Freeing' = Freeing /\ Unlinking' = Unlinking
        /\ CallInv' /\ Unhurt' /\ Alone'
    BY <1>1, <1>2, <1>3, <1>4, QuietCall
  <1>6. /\ mod = "in" /\ Live # {} /\ Freeing = {} /\ Unlinking = {}
        /\ dma = {e.phys : e \in heap_list}
    BY <1>2, OpenFile
  <1>7. LoadedInv' /\ CountInv'
    BY <1>1, <1>5, <1>6 DEF LoadedInv, CountInv
  <1>8. ListInv'
    <2>1. CASE heap_list' = heap_list /\ dma' = dma
      BY <1>5, <2>1 DEF ListInv
    <2>2. CASE HardReset(p)
      BY <1>5, <1>6, <2>2 DEF HardReset, memalloc_free_buffers, ListInv
    <2>3. CASE FreeMemory(p)
      <3>1. PICK e \in heap_list : heap_list' = heap_list \ {e} /\ dma' = dma \ {e.phys}
        BY <2>3 DEF FreeMemory, FindEntryByBus
      <3> QED
        BY <1>5, <1>6, <3>1 DEF ListInv
    <2>4. CASE AllocBuffer(p)
      <3>1. CASE heap_list' = heap_list /\ dma' = dma
        BY <2>1, <3>1
      <3>2. ASSUME NEW a \in Addrs \ dma, dma' = dma \union {a},
                   heap_list' = heap_list \union {[phys |-> a, size |-> PAGE_ALIGN(call[p].size)]}
            PROVE  ListInv'
        <4> DEFINE new == [phys |-> a, size |-> PAGE_ALIGN(call[p].size)]
        <4>1. new.phys = a /\ new \in heap_list' /\ heap_list' = heap_list \union {new}
          BY <3>2
        <4> HIDE DEF new
        <4>2. dma' = {e.phys : e \in heap_list'}
          BY <1>6, <3>2, <4>1
        <4>3. \A e \in heap_list : e.phys # a
          BY <1>6, <3>2
        <4>4. \A e, f \in heap_list' : e.phys = f.phys => e = f
          BY <4>1, <4>3 DEF ListInv
        <4> QED
          BY <1>5, <1>6, <4>2, <4>4 DEF ListInv
      <3> QED
        BY <2>4, <3>1, <3>2 DEF AllocBuffer
    <2> QED
      BY <1>0, <2>1, <2>2, <2>3, <2>4 DEF AllocMemory, AllocEntry, memalloc_mmap, Remap
  <1> QED
    BY <1>5, <1>7, <1>8

-----------------------------------------------------------------------------
\* Nothing is loaded at the start.
LEMMA InitInv == Init => Inv
  <1> SUFFICES ASSUME Init PROVE Inv
    OBVIOUS
  <1>1. Idle \in Call
    BY DEF Call
  <1>2. TypeOK
    <2>1. oops \in BOOLEAN /\ serial \in BOOLEAN
      BY DEF Init
    <2>2. maps \in [Procs -> SUBSET Region] /\ call \in [Procs -> Call]
      BY <1>1 DEF Init
    <2>3. mod \in {"out", "class", "device", "in", "going"} /\ node \subseteq {"chrdev", "class", "device"}
      BY DEF Init
    <2>4. open_count \in Int /\ heap_list \subseteq Region /\ dma \subseteq Addrs
      BY DEF Init
    <2> QED
      BY <2>1, <2>2, <2>3, <2>4 DEF Init, TypeOK
  <1>3. \A p \in Procs : file[p] = "none" /\ call[p].at = "user" /\ maps[p] = {}
    BY DEF Init, Idle
  <1>4. Live = {} /\ Busy = {} /\ Freeing = {} /\ Unlinking = {}
    BY <1>3 DEF Live, Busy, Freeing, Unlinking
  <1>5. Unhurt
    BY <1>3 DEF Init, Unhurt
  <1>6. CallInv /\ Alone /\ LoadedInv /\ ListInv /\ CountInv /\ NodeInv
    BY <1>3, <1>4 DEF Init, CallInv, Alone, LoadedInv, ListInv, CountInv, NodeInv
  <1> QED
    BY <1>2, <1>5, <1>6 DEF Inv, SerialInv

\* A step of which open, release or rmmod meets another ends the condition; no
\* step restores it.
LEMMA SerialKept ==
    ASSUME Next, serial'
    PROVE  serial
  <1>1. ASSUME NEW p \in Procs, ProcNext(p) PROVE serial
    <2>1. CASE memalloc_open(p) \/ Close(p) \/ Munmap(p)
      BY <2>1 DEF memalloc_open, Close, Munmap, memalloc_release, ReadCount
    <2>2. CASE ~(memalloc_open(p) \/ Close(p) \/ Munmap(p))
      BY <1>1, <2>2 DEF ProcNext, OpenCounted, ReleaseCounted, FreeHead, UnlinkHead, HardReset, FreeMemory,
                 AllocMemory, AllocEntry, AllocBuffer, memalloc_mmap, Remap, StaleUse
    <2> QED
      BY <2>1, <2>2
  <1>2. CASE memalloc_cleanup
    BY <1>2 DEF memalloc_cleanup
  <1>3. CASE memalloc_init_chrdev \/ memalloc_init_class \/ memalloc_init_device \/ CleanupFree
    BY <1>3 DEF memalloc_init_chrdev, memalloc_init_class, memalloc_init_device, CleanupFree
  <1> QED
    BY <1>1, <1>2, <1>3 DEF Next

\* Every step of the module and of the processes keeps the invariant.
LEMMA NextInv == Inv /\ [Next]_vars => Inv'
  <1> SUFFICES ASSUME Inv, [Next]_vars PROVE Inv'
    OBVIOUS
  <1>1. CASE UNCHANGED vars
    <2>1. Live' = Live /\ Busy' = Busy /\ Freeing' = Freeing
      BY <1>1 DEF vars, Live, Busy, Freeing
    <2>2. Unlinking' = Unlinking
      BY <1>1, <2>1 DEF vars, Unlinking
    <2>3. TypeOK' /\ NodeInv' /\ serial' = serial
      BY <1>1 DEF vars, Inv, TypeOK, NodeInv
    <2>4. Unhurt' = Unhurt /\ CallInv' = CallInv /\ Alone' = Alone /\ LoadedInv' = LoadedInv
      BY <1>1, <2>1 DEF vars, Unhurt, CallInv, Alone, LoadedInv
    <2>5. ListInv' = ListInv /\ CountInv' = CountInv
      BY <1>1, <2>1, <2>2 DEF vars, ListInv, CountInv
    <2> QED
      BY <2>3, <2>4, <2>5 DEF Inv, SerialInv
  <1>2. CASE Next
    <2>1. TypeOK' /\ NodeInv'
      BY <1>2, LoadTypes, FileTypes, CallTypes DEF Inv, Next, ProcNext
    <2>2. ASSUME serial' PROVE SerialInv'
      <3>1. TypeOK /\ NodeInv /\ SerialInv
        BY <1>2, <2>2, SerialKept DEF Inv
      <3> QED
        BY <1>2, <2>1, <2>2, <3>1, LoadSerial, FileSerial, CountedSerial, FreeSerial, CallSerial DEF Next, ProcNext
    <2> QED
      BY <2>1, <2>2 DEF Inv
  <1> QED
    BY <1>1, <1>2

\* The inductive invariant of memalloc.c holds in every reachable state: the
\* types and the nodes always, the list, the count and who may be in release as
\* long as open, release and rmmod have not met.
THEOREM PoolInvariant == Spec => []Inv
  BY InitInv, NextInv, PTL DEF Spec

\* Every variable of memalloc.c keeps its type, whoever meets; open_count never
\* leaves Int, although it may be wrong.
THEOREM TypesSafe == Spec => []TypeOK
  <1>1. Inv => TypeOK
    BY DEF Inv
  <1> QED
    BY <1>1, PoolInvariant, PTL

\* As long as open, release and rmmod have not met, the list and the DMA
\* allocator agree under every interleaving of the sleeping handlers of
\* memalloc.c, an unloaded module has left nothing behind and nothing that is
\* gone has been used.
THEOREM PoolSafe == Spec => []PoolExact
  <1>1. ASSUME Inv PROVE PoolExact
    <2>1. ASSUME serial, mod = "out" PROVE node = {} /\ dma = {}
      BY <1>1, <2>1 DEF Inv, SerialInv, NodeInv, LoadedInv, ListInv
    <2> QED
      BY <1>1, <2>1 DEF Inv, SerialInv, ListInv, Unhurt, PoolExact
  <1> QED
    BY <1>1, PoolInvariant, PTL

\* As long as open, release and rmmod have not met, open_count is the number of
\* files still to be counted out, and with the last of them every buffer goes.
THEOREM LastCloseSafe == Spec => []LastCloseFrees
  <1>1. Inv => LastCloseFrees
    BY DEF Inv, SerialInv, CountInv, LastCloseFrees
  <1> QED
    BY <1>1, PoolInvariant, PTL

\* As long as open, release and rmmod have not met, no turn of the loop in which
\* memalloc_release frees the list takes memory that is mapped or being mapped.
THEOREM ReleaseKeepsMaps == Spec => ReleaseSafe
  <1>1. Inv /\ [Next]_vars => [serial => TakesNoMap]_vars
    <2> SUFFICES ASSUME Inv, serial PROVE TakesNoMap
      OBVIOUS
    <2>1. ASSUME NEW p \in Procs, call[p].at = "free", NEW q \in Procs
          PROVE  maps[q] = {} /\ call[q].at # "remap"
      BY <2>1, FreeingAlone DEF Inv
    <2> QED
      BY <2>1 DEF TakesNoMap
  <1> QED
    BY <1>1, PoolInvariant, PTL DEF Spec, ReleaseSafe

=============================================================================
