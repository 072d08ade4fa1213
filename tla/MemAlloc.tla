------------------------------ MODULE MemAlloc ------------------------------
(***************************************************************************)
(* src/module_test/memalloc.c: a character device that hands physically    *)
(* contiguous buffers to the processes that have it open.  The buffers of  *)
(* all openers are on one list; they are given back one at a time, by a    *)
(* hard reset, when the last file is released or when the module goes.     *)
(*                                                                         *)
(* What each handler is protected by decides where it is split.  ioctl     *)
(* runs under the big kernel lock, which the kernel drops while kzalloc or *)
(* dma_alloc_coherent sleeps, so an allocation is three steps.  mmap runs  *)
(* under mem_lock only, which no other handler takes, so a mapping is two. *)
(* open and release run under no lock at all: reading open_count, writing  *)
(* it back and each half of a turn of memalloc_free_buffers are steps.     *)
(*                                                                         *)
(* Nothing can be said of the buffers once two of these unlocked updates   *)
(* have met: a count is lost, or a file is opened under a release that is  *)
(* freeing.  serial records that none has, and that rmmod found no file    *)
(* open; it is what a lock around open and release, and an owner in        *)
(* memalloc_fops, would give.                                              *)
(*                                                                         *)
(* A file is released when its descriptor is closed and no mapping made    *)
(* through it is left.  memalloc_fops has no owner: open files do not keep *)
(* the module loaded, and using one after rmmod runs code that is gone.    *)
(***************************************************************************)
EXTENDS Integers, FiniteSets

CONSTANTS
    Procs,      \* processes; each has at most one file of the device
    Addrs,      \* the bus addresses dma_alloc_coherent may return
    Sizes,      \* the lengths, in bytes, that processes ask for or map
    PAGE_SIZE,
    Wrap,       \* 2^32: u32 sizes are counted modulo this
    MaxDrift,   \* bound: how far lost updates may move open_count
    NoProc      \* nobody holds mem_lock

ASSUME MemAllocAssumption ==
    /\ IsFiniteSet(Procs)
    /\ NoProc \notin Procs
    /\ Sizes \subseteq Nat
    /\ PAGE_SIZE \in Nat \ {0}
    /\ Wrap \in Nat \ {0}
    /\ MaxDrift \in Nat

VARIABLES
    mod,        \* "out", "class" and "device" (memalloc_init), "in", "going"
    node,       \* what the module has registered: "chrdev", "class", "device"
    open_count,
    heap_list,  \* the entries of the list; their order is never looked at
    dma,        \* the addresses the DMA allocator has given out
    mem_lock,   \* the process inside memalloc_mmap, or NoProc
    file,       \* "none", "open", "mapped" (closed, but still mapped),
                \* "closed" (being released), "stale" (its module is gone)
    maps,       \* the mappings each process has made through its file
    call,       \* where the handler each process is in has got to
    oops,       \* code or an entry that is gone has been used
    serial      \* history: no two open, release, rmmod have met so far

vars == <<mod, node, open_count, heap_list, dma, mem_lock, file, maps, call, oops, serial>>

Region == [phys: Addrs, size: Nat]
Idle == [at |-> "user"]
Call == {Idle} \union [at: {"open", "close"}, count: Int]
               \union [at: {"free"}]
               \union [at: {"kzalloc", "dma"}, size: Nat]
               \union [at: {"unlink", "remap"}, size: Nat, phys: Addrs]

TypeOK ==
    /\ mod \in {"out", "class", "device", "in", "going"}
    /\ node \subseteq {"chrdev", "class", "device"}
    /\ open_count \in Int
    /\ heap_list \subseteq Region
    /\ dma \subseteq Addrs
    /\ mem_lock \in Procs \union {NoProc}
    /\ file \in [Procs -> {"none", "open", "mapped", "closed", "stale"}]
    /\ maps \in [Procs -> SUBSET Region]
    /\ call \in [Procs -> Call]
    /\ oops \in BOOLEAN
    /\ serial \in BOOLEAN

Init ==
    /\ mod = "out"
    /\ node = {}
    /\ open_count = 0
    /\ heap_list = {}
    /\ dma = {}
    /\ mem_lock = NoProc
    /\ file = [p \in Procs |-> "none"]
    /\ maps = [p \in Procs |-> {}]
    /\ call = [p \in Procs |-> Idle]
    /\ oops = FALSE
    /\ serial = TRUE

-----------------------------------------------------------------------------
(* The pool of buffers *)

PAGE_ALIGN(n) == (((n + PAGE_SIZE - 1) % Wrap) \div PAGE_SIZE) * PAGE_SIZE

\* The entries FindEntryByBus can return for an address.
FindEntryByBus(a) == {e \in heap_list : e.phys = a}

\* As one step, where the caller has the big kernel lock or is the last.
memalloc_free_buffers ==
    /\ heap_list' = {}
    /\ dma' = dma \ {e.phys : e \in heap_list}

\* p may call into the driver through its descriptor.
InUser(p) ==
    /\ ~oops
    /\ mod \in {"in", "going"}
    /\ file[p] = "open"
    /\ call[p] = Idle

\* A handler of p goes on, in code that is still there.
Resumes(p, at) ==
    /\ ~oops
    /\ file[p] # "stale"
    /\ call[p].at = at

\* The processes inside open or release.
Busy == {p \in Procs : file[p] # "stale" /\ call[p].at \in {"open", "close", "free", "unlink"}}

\* open and release read open_count; only a count that was lost lets it drift.
ReadCount(p, at) ==
    /\ serial \/ open_count \in -MaxDrift .. MaxDrift
    /\ call' = [call EXCEPT ![p] = [at |-> at, count |-> open_count]]
    /\ serial' = (serial /\ Busy = {})

-----------------------------------------------------------------------------
(* Loading and unloading *)

\* Every file still open now belongs to code that is gone.
Gone ==
    /\ mod' = "out"
    /\ file' = [p \in Procs |-> IF file[p] = "none" /\ call[p] = Idle THEN "none" ELSE "stale"]

memalloc_init_chrdev ==
    /\ ~oops
    /\ mod = "out"
    /\ mod' = "class"
    /\ node' = {"chrdev"}
    /\ open_count' = 0
    /\ heap_list' = {}
    /\ mem_lock' = NoProc
    /\ UNCHANGED <<dma, file, maps, call, oops, serial>>

memalloc_init_class ==
    /\ ~oops
    /\ mod = "class"
    /\ \/ /\ mod' = "device"
          /\ node' = node \union {"class"}
          /\ UNCHANGED file
       \/ /\ Gone                              \* error1
          /\ node' = node \ {"chrdev"}
    /\ UNCHANGED <<open_count, heap_list, dma, mem_lock, maps, call, oops, serial>>

memalloc_init_device ==
    /\ ~oops
    /\ mod = "device"
    /\ \/ /\ mod' = "in"
          /\ node' = node \union {"device"}
          /\ UNCHANGED file
       \/ /\ Gone                              \* error2, then error1
          /\ node' = node \ {"class", "chrdev"}
    /\ UNCHANGED <<open_count, heap_list, dma, mem_lock, maps, call, oops, serial>>

\* rmmod: nothing counts the open files, so it is never refused.  What is open
\* stays usable until the exit function is through.
memalloc_cleanup ==
    /\ ~oops
    /\ mod = "in"
    /\ mod' = "going"
    /\ node' = node \ {"device", "class", "chrdev"}
    /\ serial' = (serial /\ \A p \in Procs : file[p] = "none" /\ call[p] = Idle)
    /\ UNCHANGED <<open_count, heap_list, dma, mem_lock, file, maps, call, oops>>

CleanupFree ==
    /\ ~oops
    /\ mod = "going"
    /\ memalloc_free_buffers
    /\ Gone
    /\ UNCHANGED <<node, open_count, mem_lock, maps, call, oops, serial>>

\* A process uses, closes or is still inside a file of an unloaded module.
StaleUse(p) ==
    /\ ~oops
    /\ file[p] = "stale"
    /\ oops' = TRUE
    /\ UNCHANGED <<mod, node, open_count, heap_list, dma, mem_lock, file, maps, call, serial>>

-----------------------------------------------------------------------------
(* open, close and munmap *)

\* A process finds the device by the node that device_create has made.
memalloc_open(p) ==
    /\ ~oops
    /\ "device" \in node
    /\ file[p] = "none"
    /\ call[p] = Idle
    /\ ReadCount(p, "open")
    /\ UNCHANGED <<mod, node, open_count, heap_list, dma, mem_lock, file, maps, oops>>

OpenCounted(p) ==
    /\ Resumes(p, "open")
    /\ open_count' = call[p].count + 1
    /\ file' = [file EXCEPT ![p] = "open"]
    /\ call' = [call EXCEPT ![p] = Idle]
    /\ UNCHANGED <<mod, node, heap_list, dma, mem_lock, maps, oops, serial>>

\* The last reference to p's file is gone.
memalloc_release(p) ==
    /\ ReadCount(p, "close")
    /\ file' = [file EXCEPT ![p] = "closed"]

\* close(): the last reference only if nothing is mapped.
Close(p) ==
    /\ InUser(p)
    /\ IF maps[p] = {}
         THEN memalloc_release(p)
         ELSE /\ file' = [file EXCEPT ![p] = "mapped"]
              /\ UNCHANGED <<call, serial>>
    /\ UNCHANGED <<mod, node, open_count, heap_list, dma, mem_lock, maps, oops>>

\* munmap(), which drops the mapping's reference to the file.
Munmap(p) ==
    /\ ~oops
    /\ file[p] \in {"open", "mapped"}
    /\ call[p] = Idle
    /\ \E r \in maps[p] :
         /\ maps' = [maps EXCEPT ![p] = @ \ {r}]
         /\ IF file[p] = "mapped" /\ maps[p] = {r}
              THEN memalloc_release(p)
              ELSE UNCHANGED <<file, call, serial>>
    /\ UNCHANGED <<mod, node, open_count, heap_list, dma, mem_lock, oops>>

Released(p) ==
    /\ file' = [file EXCEPT ![p] = "none"]
    /\ call' = [call EXCEPT ![p] = Idle]

Frees(p) ==
    /\ call' = [call EXCEPT ![p] = [at |-> "free"]]
    /\ UNCHANGED file

\* Variants: the test is made on the count before it is lowered; no test is made.
ReleaseCountedLate(p) ==
    /\ Resumes(p, "close")
    /\ open_count' = call[p].count - 1
    /\ IF call[p].count = 0 THEN Frees(p) ELSE Released(p)
    /\ UNCHANGED <<mod, node, heap_list, dma, mem_lock, maps, oops, serial>>

ReleaseUntested(p) ==
    /\ Resumes(p, "close")
    /\ open_count' = call[p].count - 1
    /\ Frees(p)
    /\ UNCHANGED <<mod, node, heap_list, dma, mem_lock, maps, oops, serial>>

\* The test is on the value written, whatever others have written since it was read.
ReleaseCounted(p) ==
    /\ Resumes(p, "close")
    /\ open_count' = call[p].count - 1
    /\ IF call[p].count - 1 = 0 THEN Frees(p) ELSE Released(p)
    /\ UNCHANGED <<mod, node, heap_list, dma, mem_lock, maps, oops, serial>>

\* memalloc_free_buffers in memalloc_release: the memory of the first entry ...
FreeHead(p) ==
    /\ Resumes(p, "free")
    /\ \/ /\ heap_list = {}
          /\ Released(p)
          /\ UNCHANGED dma
       \/ \E e \in heap_list :
            /\ dma' = dma \ {e.phys}
            /\ call' = [call EXCEPT ![p] = [at |-> "unlink", size |-> e.size, phys |-> e.phys]]
            /\ UNCHANGED file
    /\ UNCHANGED <<mod, node, open_count, heap_list, mem_lock, maps, oops, serial>>

\* ... then the entry, which somebody else may have deleted.
UnlinkHead(p) ==
    LET e == [phys |-> call[p].phys, size |-> call[p].size]
    IN  /\ Resumes(p, "unlink")
        /\ heap_list' = heap_list \ {e}
        /\ oops' = (e \notin heap_list)
        /\ call' = [call EXCEPT ![p] = [at |-> "free"]]
        /\ UNCHANGED <<mod, node, open_count, dma, mem_lock, file, maps, serial>>

-----------------------------------------------------------------------------
(* ioctl *)

\* MEMALLOC_IOCHARDRESET: the buffers of every opener go.
HardReset(p) ==
    /\ InUser(p)
    /\ memalloc_free_buffers
    /\ UNCHANGED <<mod, node, open_count, mem_lock, file, maps, call, oops, serial>>

FreeMemoryListed(p) ==
    /\ InUser(p)
    /\ \E a \in Addrs : \E e \in FindEntryByBus(a) : dma' = dma \ {e.phys}
    /\ UNCHANGED <<mod, node, open_count, heap_list, mem_lock, file, maps, call, oops, serial>>

\* MEMALLOC_IOCSFREEBUFFER; an unknown address is -EINVAL and changes nothing.
FreeMemory(p) ==
    /\ InUser(p)
    /\ \E a \in Addrs : \E e \in FindEntryByBus(a) :
         /\ heap_list' = heap_list \ {e}
         /\ dma' = dma \ {e.phys}
    /\ UNCHANGED <<mod, node, open_count, mem_lock, file, maps, call, oops, serial>>

\* MEMALLOC_IOCXGETBUFFER, up to the first call that may sleep.
AllocMemory(p) ==
    /\ InUser(p)
    /\ \E n \in Sizes : call' = [call EXCEPT ![p] = [at |-> "kzalloc", size |-> n]]
    /\ UNCHANGED <<mod, node, open_count, heap_list, dma, mem_lock, file, maps, oops, serial>>

AllocEntry(p) ==
    /\ Resumes(p, "kzalloc")
    /\ \/ call' = [call EXCEPT ![p].at = "dma"]
       \/ call' = [call EXCEPT ![p] = Idle]    \* no entry: -ENOMEM
    /\ UNCHANGED <<mod, node, open_count, heap_list, dma, mem_lock, file, maps, oops, serial>>

AllocBuffer(p) ==
    LET n == PAGE_ALIGN(call[p].size)
    IN  /\ Resumes(p, "dma")
        /\ \/ \E a \in Addrs \ dma :
                /\ n > 0
                /\ dma' = dma \union {a}
                /\ heap_list' = heap_list \union {[phys |-> a, size |-> n]}
           \/ UNCHANGED <<dma, heap_list>>     \* -ENOMEM; the entry is not freed
        /\ call' = [call EXCEPT ![p] = Idle]
        /\ UNCHANGED <<mod, node, open_count, mem_lock, file, maps, oops, serial>>

-----------------------------------------------------------------------------
(* mmap *)

\* MapBuffer up to remap_pfn_range; no entry or another size is -EINVAL.
memalloc_mmap(p) ==
    /\ InUser(p)
    /\ mem_lock = NoProc
    /\ \E a \in Addrs, n \in Sizes : \E e \in FindEntryByBus(a) :
         /\ n = e.size
         /\ call' = [call EXCEPT ![p] = [at |-> "remap", size |-> n, phys |-> e.phys]]
    /\ mem_lock' = p
    /\ UNCHANGED <<mod, node, open_count, heap_list, dma, file, maps, oops, serial>>

Remap(p) ==
    /\ Resumes(p, "remap")
    /\ \/ maps' = [maps EXCEPT ![p] = @ \union {[phys |-> call[p].phys, size |-> call[p].size]}]
       \/ UNCHANGED maps                       \* -EAGAIN
    /\ mem_lock' = NoProc
    /\ call' = [call EXCEPT ![p] = Idle]
    /\ UNCHANGED <<mod, node, open_count, heap_list, dma, file, oops, serial>>

-----------------------------------------------------------------------------
ProcNext(p) ==
    \/ memalloc_open(p)
    \/ OpenCounted(p)
    \/ Close(p)
    \/ Munmap(p)
    \/ ReleaseCounted(p)
    \/ FreeHead(p)
    \/ UnlinkHead(p)
    \/ HardReset(p)
    \/ FreeMemory(p)
    \/ AllocMemory(p)
    \/ AllocEntry(p)
    \/ AllocBuffer(p)
    \/ memalloc_mmap(p)
    \/ Remap(p)
    \/ StaleUse(p)

Next ==
    \/ memalloc_init_chrdev
    \/ memalloc_init_class
    \/ memalloc_init_device
    \/ memalloc_cleanup
    \/ CleanupFree
    \/ \E p \in Procs : ProcNext(p)

Spec == Init /\ [][Next]_vars

-----------------------------------------------------------------------------
(* Properties *)

\* The files that are counted in open_count: release has not lowered it yet.
Live == {p \in Procs : file[p] \in {"open", "mapped"} \/ (file[p] = "closed" /\ call[p].at = "close")}

\* The processes inside memalloc_free_buffers, and the entries whose memory they
\* have given back and which they have not yet taken off the list.
Freeing == {p \in Procs : file[p] # "stale" /\ call[p].at \in {"free", "unlink"}}
Unlinking == {[phys |-> call[p].phys, size |-> call[p].size] :
                 p \in {q \in Freeing : call[q].at = "unlink"}}

\* As long as open, release and rmmod have not met: but for the entry a release
\* is just taking off it, the list says exactly which memory is out at the DMA
\* allocator, each buffer once, whatever allocations, frees and resets are
\* interleaved; an unloaded module, or one that failed to load, has left nothing
\* registered and nothing allocated (the goto ladder of memalloc_init,
\* memalloc_cleanup); and neither an entry nor a driver that is gone is used.
PoolExact ==
    serial =>
        /\ dma = {e.phys : e \in heap_list \ Unlinking}
        /\ Unlinking \subseteq heap_list
        /\ \A e, f \in heap_list : e.phys = f.phys => e = f
        /\ mod = "out" => node = {} /\ dma = {}
        /\ ~oops

\* As long as open, release and rmmod have not met, open_count is the number of
\* files memalloc_release has still to count, and with the last of them every
\* buffer goes, also the ones a sleeping allocation adds late: what is left is
\* being freed.
LastCloseFrees ==
    serial /\ mod = "in" =>
        /\ open_count = Cardinality(Live)
        /\ Live = {} /\ heap_list # {} => Freeing # {}

\* The memory memalloc_release gives back in a step is mapped by nobody, and no
\* mapping of it is being made.
TakesNoMap ==
    \A p \in Procs : call[p].at = "free" /\ call'[p].at = "unlink" =>
        \A q \in Procs :
            /\ \A r \in maps[q] : r.phys \notin dma \ dma'
            /\ call[q].at = "remap" => call[q].phys \notin dma \ dma'

\* As long as open, release and rmmod have not met, no release takes memory from
\* under a mapping, although it runs over several steps and holds no lock.
ReleaseSafe == [][serial => TakesNoMap]_vars

-----------------------------------------------------------------------------
(* What the source says and TLC refutes. *)

\* MapBuffer compares the length of the mapping with the entry "if userspace
\* tries to mmap beyond end of our buffer, fail"; so what it maps is a buffer
\* of that length.  No lock keeps the buffer until it is mapped.
MapBufferHolds ==
    \A p \in Procs :
      file[p] = "open" /\ call[p].at = "remap" =>
        [phys |-> call[p].phys, size |-> call[p].size] \in heap_list

\* memalloc_release: with the last file, "Free the buffers" (memalloc.c:193).
\* Without serial: two updates of open_count lose one, and buffers stay.
BuffersFreed ==
    mod = "in" /\ (\A p \in Procs : file[p] = "none" /\ call[p] = Idle) => dma = {}

\* Without serial: a file opened between the test and the last turn of
\* memalloc_free_buffers has its buffers taken, mapped or not.
ReleaseAlwaysSafe == [][TakesNoMap]_vars

=============================================================================
