# Verification of imx-test: the pitcher pipeline and the kernel test modules

imx-test is NXP's collection of board test programs. Most of them are short
sequential probes of one device. Two parts have logic of their own:

* `src/test/mxc_v4l2_vpu_test`: a small streaming framework ("pitcher") and an
  application, `mxc_v4l2_vpu_test.out`, that builds pipelines of files, decoders,
  encoders, converters and displays on it;
* `src/module_test`: kernel modules that several processes may use at once. The
  largest are a DMA buffer allocator (memalloc) and character devices that hand
  a security block to user space (scc, scc2, rng, spdc).

This directory models the framework, the decoder and file pipelines of the
application, the frame rate between a camera and an encoder, and those five
kernel modules.

File names without a directory are relative to `src/test/mxc_v4l2_vpu_test/`,
`module_test/` stands for `src/module_test/`.

## Inventory

| Part | State | Operations | Interacts with |
|---|---|---|---|
| queue (`pitcher/queue.c`) | list of nodes, pool of idle nodes, two counters | init, push, pop, enumerate, clear, find, destroy | everything below keeps its members in queues; callbacks run inside a pass |
| objects, buffers (`obj.c`, `buffer.c`) | reference count, flags, owner's recycle callback | get, put, release | the last put, made by any channel, runs the owner's callback |
| pipe (`pipe.c`) | queue of buffers, skip ratio | push, pop, clear, delete | a push calls `notify`, which runs the sink at once |
| unit (`unit.c`) | idle buffers, input, outputs, enable | start, stop, run, push output, get and put idle | callbacks of the node that owns it |
| channel, core (`core.c`) | STOPPED, ACTIVE, STOPPING; list of channels; list of pipes | register, connect, start, stop, run, push | timer pass, poll callbacks, `notify` |
| loop (`loop.c`) | timers, poll nodes, stop flag | add, delete, run | calls the core's timer function and poll function |
| v4l2 component (`v4l2.c`) | slots, buffers, error buffers, end, eos, resolution change | start, stop, check, run, recycle, flush | a V4L2 driver; its output and capture channels share a descriptor |
| application (`mxc_v4l2_vpu_enc.c`) | nodes, exit flag, end flag of each node | nodes' start, check_ready, run, stop; main; signal handler | decoder output channel steers its capture channel |
| wayland sink (`waylandsink.c`) | render queue, links, two threads | start, run, render, release, stop | puts buffers of other units from its own threads |
| parsers (`parse.c`, `*_parse.c`) | list of frames found in a stream | scan, push, seek | feeds the parser node |
| old decoder tool (`mxc_vpu_dec.c`) | two threads and shared flags | stream in, stream out | V4L2 driver |
| memalloc (`module_test/memalloc.c`) | open count, list of buffers, class and device, `mem_lock` | init, cleanup, open, release, allocate, free, hard reset, mmap | DMA allocator, mappings of processes, module loader |
| scc driver (`module_test/scc_test_driver.c`) | registration, major number, use count; memory and status of each ioctl | init, cleanup, open, release, mmap, twelve ioctls | SCC driver (slots, cipher, alarm callbacks), character device table |
| scc2 driver (`module_test/scc2_test_driver.c`) | registration, `scc2_test_mutex`; memory and status of each ioctl | init, cleanup, open, release, ioctls | SCC2 driver (partitions, DMA, alarm callbacks) |
| rng driver (`module_test/rng_test_driver.c`) | registration, a user context for each file | init, cleanup, open, release, ioctls | SHW layer (registered users) |
| spdc driver (`module_test/spdc_test_driver.c`) | registration, class and device, use count | init, cleanup, open, release, ioctls | framebuffer driver |

The remaining directories of the repository (memtool, framebuffer, audio, UART,
PXP, IPU tests, smaller kernel modules, shell suites) are listed in
`PROJECT.json` with the reason they are not modelled.

What is hard here:

* **Nesting.** One thread runs the loop, but `pipe->notify` runs the sink while
  the pusher is suspended, to any depth. References to buffers are taken and
  given up at several depths of one C stack.
* **Distributed stopping.** No one stops the pipeline. Each unit finds out by
  itself that it is at its end (file read, source gone, exit flag, driver), and a
  channel waits in STOPPING until its sinks have stopped.
* **Restarts.** The decoder's capture channel is stopped and started in the
  middle of a stream when the resolution changes; a push starts stopped sinks.
* **Decisions from stale flags.** The recycle callback decides between keeping,
  queueing and deleting a buffer from flags of the owner that changed since the
  buffer was pushed.
* **Failure.** Starting can fail at allocation or at STREAMON, and the result is
  not reported to most callers.
* **The driver** decodes concurrently and reports changes and the end by events,
  flags and errno.
* **SIGINT** sets a flag between any two calls.
* **Handlers that sleep.** An ioctl or mmap of the kernel modules sleeps in an
  allocation, a copy or the driver below, and other processes run the same
  handlers meanwhile. memalloc and scc look at a buffer or slot first and use it
  later; scc2 holds a mutex across its copies.
* **Handlers without a lock.** open and release of memalloc change `open_count`
  and walk the list of buffers under no lock, and meet each other and every other
  handler.
* **Unwinding.** Every init has steps that fail one after the other, every ioctl
  has exits with memory in hand.
* **Lifetime.** Files, mappings and callbacks outlive what they point to unless a
  count says otherwise: the open count of memalloc, the use count of a module,
  the registered users of the SHW layer.

`PROJECT.json` lists these as hazards, each at its line, with the properties
that cover it or why none does.

## Modules

| Module | Models |
|---|---|
| `AbstractQueue` | what a queue promises: a FIFO, and a pass that offers each item once and may remove it, while items are appended |
| `PitcherQueue`, `MCQueue` | `queue.c` with heap cells, both lists, both counters and the running `list_for_each_entry_safe` |
| `PitcherCore` | channels, units, pipes and buffers: `core.c`, `unit.c`, `pipe.c`, `buffer.c`, `obj.c`, the capture side of `v4l2.c` |
| `VpuPipeline`, `MCPipeline` | the program on top of it: `main`, timer pass and poll callbacks, ifile, convert, g2d, ofile, control and decoder nodes, SIGINT, and the decoder driver as environment |
| `PitcherLoop`, `MCLoop` | `loop.c` with what `core.c` makes of it: poll nodes, epoll set, batch of events, timer and clock, turn by turn |
| `PipeSkip`, `MCSkip` | the skip ratio: `connect_node`, `pitcher_set_skip`, `pitcher_set_pipe_skip`, `__check_is_need_skip` |
| `MemAlloc`, `MCMemAlloc` | `memalloc.c`: loading, files, buffers and mappings |
| `TestModules`, `MCTestModules` | loading, opening and unloading scc, scc2, rng and spdc over one table of character devices |
| `SccIoctl`, `MCSccIoctl` | the ioctls of `scc_test_driver.c` |
| `Scc2Ioctl`, `MCScc2Ioctl` | the ioctls of `scc2_test_driver.c` |
| `RngDriver`, `MCRngDriver` | files and ioctls of `rng_test_driver.c` |
| `PipeProofs` (`PitcherQueue` and `PipeSkip`), `PipelineProofs`, `DeliveryProofs` (`VpuPipeline`), `LoopProofs`, `MemAllocProofs`, `TestModulesProofs` (`TestModules` and `RngDriver`), `SccIoctlProofs`, `Scc2IoctlProofs` | invariants of the modules each extends, for all constants |

### State and actions: the pipeline

`PitcherQueue`: `queue` and `idles` are the two linked lists as sequences of
cells, `heap` the cells allocated, `it` the current pass (operation, node and
saved successor). A pass is two actions: `enumerate_begin` and, for each return
of the callback, `enumerate_return(rm)`; between them callbacks may append. The
callbacks of `pitcher_queue_clear` in this program never touch the list they run
over, so no push is enabled during a clear.

`PitcherCore`: `stack` is the C stack of suspended `pitcher_push_back_output`
calls; a frame names the channel, the buffer, the input buffer that
`pitcher_unit_run` still holds and how far the push has come. `call` is the
channel whose `__process_chn_run` is entered next, `todo` the buffers the running
code is about to put one by one, `closing` the channel whose
`pitcher_unit_stop` is running. With these four variables each action is one
stretch of code between two calls, and SIGINT and the driver can act between any
two of them. A buffer is in `idles`, in `pipe`, in a frame, in `todo`, with the
driver (`queued`, the first `done` of them filled), or not in `live`.

`VpuPipeline`: `phase` follows `main`; `cursor` and `visiting` the pass of
`__timer_func` over the channels; `polled` the poll callbacks of one turn of the
loop. `pitcher_loop_run` is a turn that an event cuts short before the timer is
due. The decoder's flags keep their names (`capRes` is
`capture.resolution_change` and so on). `is_decoder_output_finish` is split in
two, because SIGINT may arrive between its handling of events and its decision.

`PitcherLoop` looks at the same loop from below. `pools` is the list of nodes,
`heap` the nodes allocated, `interest` the pointer epoll holds for each
descriptor, `edge` the descriptors with an unreported edge and `batch` the rest of
`events[]`. `pc` says where the turn is (timer, pass over the channels, pass over
the nodes, `epoll_wait`, events); `pos` and `isLast` are the entry and the saved
successor of the running `list_for_each_entry_safe`; `stack` the nested
`__process_chn_run` calls. A unit is reduced to what it can do to the loop: push,
report its end, fail to start. `clock` advances between any two steps, so a node
registered during a turn has a later time than `loop->tv`, and the unsigned
difference wraps (`Due`). `epoll_wait` may return early, as it does on a signal.
`del_poll` frees the one node of its channel: the code removes every node with
that key, and `EpollExact` says there is at most one.

`PipeSkip` is one pipe between two nodes: `connect_node` sets the ratio once,
before any frame, then every push decides.

The driver is external: `DriverDecode`, `DriverChange` and `DriverEos` are
written from what `v4l2.c` expects of it. `Script` is what the stream holds, and
the stream may also end early. Without `LaxDriver` it drains before it signals a
change and reports the end by a last buffer; with it, it may signal a change over
filled buffers and report EPIPE whenever it waits for a new capture queue.

### State and actions: the kernel modules

A handler is atomic up to the points where it can sleep, or runs under no lock, and
something it holds or has looked at is used afterwards; there it is split. Copies to and from user
space, allocations and calls into the drivers below may fail, each by choice, and
an ioctl is called with any command and any argument.

`MemAlloc`: `mod` and `node` follow `memalloc_init` through its goto ladder,
`heap_list` and `dma` are the driver's and the DMA allocator's view of the same
buffers, `file` and `maps` what each process has. `AllocMemory`, `AllocEntry` and
`AllocBuffer` are one ioctl, which gives up the big kernel lock where it sleeps;
`memalloc_mmap` and `Remap` are one mmap, under `mem_lock`, which no other handler
takes. open and release have no lock, so each reads the count in one step
(`memalloc_open`, `memalloc_release`) and writes it in the next (`OpenCounted`,
`ReleaseCounted`), and a turn of the loop that frees the list is `FreeHead`, which
gives back the memory, and `UnlinkHead`, which takes off the entry. A closed file
that is still mapped is released by the last `Munmap`. `memalloc_cleanup` is never
refused (`memalloc_fops` has no owner): files stay usable until `CleanupFree`, then
they are stale, and using one sets `oops`, after which nothing is modelled.
`serial` is a history variable: it is TRUE until an open or release begins while
another is in progress, or rmmod finds somebody in the driver. What the code
promises of its buffers holds up to then and not longer.

`TestModules`: `chrdev` says which driver a major number leads to, `reg_handle`
and `major_node` what the drivers have kept of their registration, `use` the use
counts, `monitors` the alarm callbacks the SCC driver holds. A failing init is one
action with its cleanup (spdc's three steps are separate). `Rmmod` is refused when
the use count is not 0; the exit function is a later step, and in between
`try_module_get` fails, which scc and spdc ignore. `scc_mmap_entry` lowers the use
count, since `scc_test_release` is what is registered for mmap. `OtherDriver` is
any other character device.

`SccIoctl`: `slot` is the SCC's table of owners, `call` the ioctl of each process:
place, command, the status it will return, `scc` the answer in the driver's copy
of the structure, `user` the one the caller can see, `mem` the memory it holds and
`did` whether the SCC has done what was asked. The steps of a handler are
operators that give the set of records it may continue with. There is no lock.

`Scc2Ioctl`: the same, under `scc2_test_mutex`. `red` is what a partition holds,
in two halves, each moved by its own step, so that a transfer can be overtaken or
cut short. `saw` keeps what the partition held when the mutex was taken; only the
property reads it.

`RngDriver`: `private` is the context each file points to, `users` those
registered with the SHW layer, `heap` those allocated. `rng_test_release` is called
by the VFS when the file is closed and no ioctl is left in it.

### Abstractions

* Pictures are numbers; 0 is an empty buffer. Formats, planes and memory are out.
* A channel that is registered later (the decoder's capture channel and what
  follows it) is in `Order` from the start, STOPPED and not in `Boot`.
* A unit's input is taken, its picture written and its end flag set in one
  action; the puts that follow are separate steps (`todo`).
* Left out of `VpuPipeline`: the bitstream side of the decoder (its input pipe,
  QBUF, flush and seek), POLLERR and `pitcher_is_error`, the skip ratio (which
  only a camera in front of an encoder sets),
  `file->loop`, empty and partial files, failing QBUF and STREAMOFF, the
  reconnection that `check_ctrl_ready` does, and the forced exit of a decoder
  that was given no frame. At most one V4L2 event is pending at a time.
* The LAST test in `__recycle_v4l2_buffer` never fires, since
  `__release_buffer` clears the flags first; it has no counterpart in `recycle`.
* At its end, but still enabled, a component queues a buffer to the driver before
  the callback asks for its deletion (`v4l2.c` 717-728). It dequeues nothing any
  more and STREAMOFF takes the buffer back, so `recycle` only deletes it.
* A capture unit whose STREAMON failed is not started again in the model: every
  further start fails earlier (`start_v4l2`). In the code a start that got so far
  would write new buffers over the slots (`v4l2.c` 775-781) and lose the old ones.
  No instance below reaches such a start.
* In both topologies sinks take what is pushed in the same call, so a pipe holds
  more than one buffer only when a sink could not be started. Back-pressure over
  a pipe comes with the bitstream side.
* External to the kernel modules and written from how they use them: the SCC and
  SCC2 drivers, the SHW layer, the os_driver layer, the VFS and the module loader.
  A function of the SCC driver is atomic and checks the owner of a slot itself.
  The RAM of a partition stays mapped; unless the partition is engaged it reads as
  zero and ignores writes. The SHW layer refuses a request without a buffer.
* An address of `MemAlloc` stands for a region: regions of different addresses do
  not overlap. Each process has one file of a device at a time.
* What a faulting copy returns, the number of bytes left, is one positive number.

## Runs

All runs are exhaustive.

| Run | Instance | Distinct states |
|---|---|---|
| `queue` | 4 cells, 2 items, pool limit 2 | 17,688 |
| `transcode` | ifile into g2d (pass-through) and convert, each to an ofile; 2 buffers each; 4 frames; SIGINT; three channels may fail to start | 8,985 |
| `decoder` | decoder, convert, ofile; 2 + 1 buffers; stream with two changes of resolution, an error buffer and three frames, which may end anywhere; SIGINT | 50,076 |
| `decoder_lax` | the same with `LaxDriver`; capture, convert and ofile may fail to start or restart, also at STREAMON | 284,277 |
| `loop` | camera and encoder with a descriptor each, 2 nodes, a millisecond of 2 ticks, 6 ticks | 278,424 |
| `skip` | all rates from 1 to 12, 24 frames | 3,744 |
| `skip_jpeg` | the same with a JPEG encoder; stops at the violation | |
| `memalloc` | 2 processes, 2 addresses, lengths 2, 3, 4 and 7 with pages of 2 and words that wrap at 8; `MaxDrift` 1 | 4,317,214 |
| `modules` | 2 processes, 2 major numbers, scc asking for one of them, another driver | 3,042,598 |
| `scc` | 2 processes, 2 slots, 2 owners | 167,939 |
| `scc2` | 2 processes, 1 partition, 2 values | 92,721 |
| `rng` | 2 threads, 2 files, 3 contexts | 15,926 |

What they check:

* `queue`: node conservation, exact counters and pool limit, validity of the
  saved successor, clear empties the queue, and refinement of `AbstractQueue`.
* `BuffersSafe` has four parts. `RefcountExact`: a buffer's count is the number of
  its holders, at every depth of nesting. `NoDangling`: nothing held or queued is
  freed. `NoLeak`: nothing is alive that nobody holds. `ReclaimedAtStop`: when a
  channel has stopped, all its buffers are freed. `NoLeakAtExit`: also after
  failures nothing is left, except the slots of a capture queue whose STREAMON
  failed.
* `StopOrder`: sinks stop first, and a suspended push finds its channel active.
  `PipeServed`: no buffer is left in the pipe of a stopped channel.
* `Delivered` is `InOrder` and `Complete`: the output files receive every picture,
  once and in order. `Increasing` is what remains under the lax driver.
* `Terminates`, `EndsOrFails`, `SignalStops`: the process ends, by itself unless a
  channel could not start, and at SIGINT in any case.
* `loop`: `EpollExact` (list, heap and epoll set agree, one node for each
  descriptor), `BatchSafe` (a pending event never points to a freed node),
  `Served` (a running channel keeps its descriptor registered, also when it was
  restarted over its old node), `ExitClean` (the loop ends with every channel
  stopped, and only a node registered anew by a push can be left).
* `skip`: `RateKept` is `RateExact` (the encoder has its exact share as often as
  the rates allow) and `NeverBehind`.
* `skip_jpeg` shows `RateHonoured` violated. `init_encoder_node` sets the rate of
  a JPEG encoder to 0, and `connect_node` computes the ratio afterwards: behind a
  camera every frame is skipped, whatever `--framerate` was given.
* `memalloc`, all three as long as `serial` holds: `PoolExact` (but for the entry
  being taken off, the driver's list is exactly what the DMA allocator has given
  out, an unloaded module has left nothing, and nothing that is gone is used),
  `LastCloseFrees` (the open count is the number of files still to be counted out,
  and with the last one every buffer goes, also one that a sleeping allocation added
  late), `ReleaseSafe` (no turn of the freeing loop takes memory that is mapped or
  being mapped). Allocations, frees, resets, mappings and unmappings interleave
  freely; only open, release and rmmod may not meet. The run goes on after they
  have met, where the refutations below come from and only the types hold.
  `MaxDrift` lets the count be lost by one either way then; while `serial` holds it
  bounds nothing.
* `modules`: `NodeRemoved` (no major number, class or device of a module that is
  not loaded, whichever step of its init failed), `UnloadSafe` (rmmod of
  spdc is accepted only at a moment when nobody has it open; a file opened after
  that, while the module is going, is not counted, since the result of
  `try_module_get` is ignored, and outlives the module).
* `scc`: `AreasFreed` (both cipher areas are freed on every path), `Truthful` (0
  and an OK status mean that the SCC has done the work, although the slot can
  change hands between the check of its owner and its use; LOAD_SLOT with an
  unreadable key is the exception, see `LoadTruthful` below).
* `scc2`: `Untorn` (what is read is what the partition held when the mutex was
  taken, what is stored is stored whole), `DmaFreed`, `Returned` (every ioctl
  returns: the mutex is given back on every path).
* `rng`: `ContextsExact` (registered users, private pointers and ioctls in progress
  agree, also when a file is closed under a sleeping ioctl), `BufferFreed`.

Why the bounds are enough. Two buffers per producer let one be downstream
while the other is filled or idle, and four frames make every buffer go round
twice. In the decoder instances the capture queue is set up twice, so a buffer of
the first generation can meet the second. Two outputs on one channel are the
smallest fan-out, and a pass-through unit the smallest case of one buffer
referenced by two pipes. Four cells and a pool limit of two let the pool
overflow. Six ticks of half a millisecond are three periods of the timer: the
encoder can stop, be restarted and stop again before the loop ends, within a
millisecond and over several. Rates up to 12 have every kind of common divisor,
and 24 frames are two full windows. `MaxSignals` bounds SIGINT to one, since the
flag is never cleared.

In the kernel modules two processes are the smallest number that can interfere,
and the proofs are for any number. Two addresses let one be given out again while
the other is in use; of the lengths, 2 and 4 are whole pages, 3 is rounded up and
7 wraps to 0 in `PAGE_ALIGN`. Two major numbers let a driver take the number that
another one asks for; `MaxDebt` bounds by how much mmaps and uncounted opens lower
a use count below 0, which adds nothing once rmmod is refused or accepted wrongly.
With one partition every two transfers collide. Three contexts for two files let
one leak while both files are open.

Fairness. `FairSpec` assumes that the loop thread keeps taking steps
(`WF(MainNext)`: `pitcher_loop_run` does not block longer than its timeout) and
that the driver keeps decoding what it was given (`WF(DriverNext)`). No fairness
is assumed of SIGINT. Events can cut turns of the loop short (`pitcher_loop_run`),
and `loop.c` rounds the time of a turn down to milliseconds, so weak fairness would
let a stream of events keep the timer from ever being due. `SF(timer_func)` says
that this does not happen: descriptors are edge-triggered, a driver that has
nothing to do reports nothing, and frames are further apart than a millisecond.
`Scc2Ioctl` assumes that a handler in the kernel runs on (`WF(Handler)`) and that
a kernel mutex is handed to its waiters in turn (`SF(Lock)`). Nothing makes an
application call ioctl.

Deadlock is checked except in `queue` (a destroyed queue has no operation left),
`memalloc` and `modules` (after code of an unloaded module has run, nothing is
modelled) and `rng` (contexts that leak are never given back, and with none left
no file can be opened).

### What was observed and is not asserted

In the pipeline:

* In the instance of `decoder_lax` `Complete` fails. `is_decoder_output_finish`
  decides before the next event is dequeued: if the capture queue reports EPIPE
  while a SOURCE_CHANGE event is pending, the decoder takes the change for the end
  of the stream. Pictures in buffers filled before a change is handled can be
  lost. The program ends properly in both cases.
* `Terminates` does not hold in `decoder_lax`: `__start_chn` returns 0 also when
  the unit did not start, so the error branch of
  `handle_decoder_resolution_change` is not reached and the decoder waits until
  it is interrupted. `EndsOrFails` and `SignalStops` are what holds.
* When `pitcher_start` meets a failure it stops the channels in order of
  registration. A buffer put back after its owner's unit was disabled is
  dropped by `pitcher_put_unit_buffer_idle`; `NoLeak` and `NoLeakAtExit` exclude
  this case (`Aborted`).
* At the end of `loop` a poll node can be left: the encoder is restarted by a push
  and stops again, its node is younger than a millisecond when the last timer pass
  finds every channel stopped, and the pass over the nodes skips it.
  `pitcher_close_loop` then reads the descriptor through the channel, which
  unregistering has freed before.
* That no node of the first start can be left depends on the interval. With
  `LOOP_TIMEOUT_DEFAULT` 2 (and `MaxClock` 9) TLC refutes `ExitClean`: timer and node
  keep different remainders of their two milliseconds, the node is not due in the
  turn in which the timer ends the loop, and it stays.
* That the decoder's capture channel has no poll callback of its own
  (`init_decoder_node` clears its events) matters: with one, it could end, drain
  and stop between two visits of the output channel, which would never see
  `capture.end`. The mutant `PollFuncCapture` shows it.

In the kernel modules some comments promise more than the code does. Each of the
following is a definition in its module that TLC refutes in the instance of the
module's run; add it to the INVARIANTS of the module's cfg to see the trace.

| Definition | Code | What TLC shows |
|---|---|---|
| `MapBufferHolds` | `memalloc.c` `MapBuffer` | a buffer is freed, and its address may be given out again with another size, between the check of its entry and `remap_pfn_range`: only mmap takes `mem_lock` |
| `BuffersFreed` | `memalloc_release` | a close has read a count of 1, an open makes it 2, the close writes 0 and frees although there is an opener, whose own close then writes -1 and frees nothing |
| `ReleaseAlwaysSafe` (a PROPERTY) | `memalloc_release` | a file opened after `--open_count` gave 0 allocates and maps, and the release that is still freeing takes the memory |
| `MonitorUndone` | `scc_test_init` | the alarm callback is registered also when init fails and never taken back, so it outlives the module |
| `OthersKept` | `scc_test_cleanup` | after a failed registration the cleanup unregisters the major number of the driver that has it |
| `SccInUse` | `setup_user_driver_interaction` | `scc_test_release` is registered for mmap: one mmap and the use count is below the open files |
| `Scc2InUse` | `scc2_test_open` | nothing is counted |
| `LoadTruthful` | `scc_test_load_slot` | with an unreadable key it returns 0 and the status of the owner's check |
| `ErrnoSigned` | scc ioctls | faults and `ENOMEM` are returned as positive numbers |
| `Reported` | `scc2_test_load_data`, `scc2_test_read_data` | `scc_status` is set but not copied to the caller |
| `ValidHandled` | `scc2_test_ioctl` | `ENCRYPT` and `DECRYPT` are documented as valid and have no case |
| `EntropyFromCaller` | `rng_test_add_entropy` | what the RNG is given is the buffer as allocated |
| `CodeCopied` | `rng_test_get_random` | the copy of the data overwrites the result of the failed copy of the structure |

With `SCC_MAJOR` 0 (the default is 240; 0 asks the kernel to choose) `NodeRemoved`
fails too: the number chosen is never saved, so rmmod leaves the device registered. Also seen while modelling, and without a property: `scc_test_load_slot`
and `scc_test_encrypt_slot` never free `key_data`; a slot is lost when its number
cannot be copied to the caller; `AllocMemory` leaks its entry when the DMA
allocation fails, and `rng_test_open` its context when the registration does;
`spdc_test_ioctl` overwrites the -EFAULT of `put_user`.

Hazards without a property are in `PROJECT.json` with the reason. Smaller ones
seen in parts that are not modelled: `wayland_sink_stop` waits three seconds for
its thread and then signals it (`waylandsink.c:899`); `loop.c:130` rounds the
elapsed time down while the node's time advances to now, so frequent events delay
the timer (the reason for `SF(timer_func)`); `loop.c:383` frees a node that epoll
still points to when the list has no memory; `core.c:141` passes a channel where a
unit is expected; `core.c:580` does not give a channel number back when
registration fails after it; `v4l2.c:1269` has popped its input before it knows
that the driver takes it; the threads of `mxc_vpu_dec.c:1497` hand over with plain
flags.

### Mutants

Each property of each run has a variant of a modelled operation that breaks it,
kept next to the operation (`StoppingAtOnce`, `FreePollNodeKeepsFd`, `LockAlways`
and so on) and listed in `PROJECT.json`.

## Proofs

TLAPS checks, for every value of the constants that satisfies the named
assumptions:

* `PipeProofs`: `QueueInvariant`, and from it `QueueTypes`, `NodesSafe`,
  `CountersSafe`, `CursorSafe` and `ClearSafe`, and the refinement
  `QueueImplementsFifo`. Assumptions: the list head is not
  a cell, the pool limit is a natural number, there is an item. The invariant is
  the conjunction of type correctness, node conservation, exact counters and
  `CursorValid`. None is inductive alone: that a removed node returns to the pool
  exactly once needs that the pass stands on a queued node, and that needs the
  node's position to be unique. Lemmas say what `RemoveAt` and `Append` do to a
  sequence without repetitions. The refinement goes step by step: a push appends
  one item to the abstract queue, a removal takes the item at the position of the
  node, and the abstract pass is at the position of the concrete one (`CursorValid`
  and the unique position give that number); taking cells from the pool or giving
  them back is a stutter.
  For the frames a pipe leaves out, `SkipTypes` and `RateIsKept`, for all rates above
  0; the second for encoders other than JPEG, whose rate `init_encoder_node` clears
  (run `skip_jpeg`).
* `PipelineProofs`: `PipelineInvariant`, and from it `TypesSafe` and
  `StopOrderSafe`; `BufferInvariant`, and from it `BuffersAreSafe`, `PipesServed`
  and `ExitLeavesNothing`; `PictureInvariant`, and from it `PicturesRise`.
  `DeliveryProofs`: `DeliveryInvariant`, and from it `PicturesDelivered`, both for a
  driver that drains (`~ LaxDriver`).
  Assumptions (`CoreAssumption`, `TopologyAssumption`, `PipelineAssumption`,
  `WiringAssumption`, `FedAssumption`): every channel is registered once and after
  its source; a pipe leads to one channel, so the outputs of a channel differ
  (`pitcher_connect` makes a new pipe for each input); a buffer belongs to one unit,
  which allocates it at one place of its list; the channels present at the start
  are closed under sources; a decoder's capture channel has no source. For the
  pictures also: files are at the ends of the pipes, and the one capture channel is
  the decoder's; for `Complete`, the decoder node is registered before
  `pitcher_start`, and every output file is below an input file or below the
  decoder, if there is one. Any number of channels, fan-outs, buffers, frames and
  any script are covered, with failures and signals.
* `LoopProofs`: `LoopInvariant`, and from it `LoopTypes`, `EpollSafe`,
  `EventsSafe` and `ChannelsServed`; `LoopEndsStopped` for any interval, and
  `LoopEndsClean` for the interval of `loop.c` (`LOOP_TIMEOUT_DEFAULT = 1`).
  Assumption (`LoopAssumption`): every channel is registered, and after the channel
  it reads from; the intervals are positive, the size of a batch is a number.
  `BatchSafe` needs that the events of a batch belong to different nodes
  (`BatchInv`) and that an edge is only held for a registered descriptor
  (`EdgeInv`): then a callback that frees its own node leaves the others alone.
  `PlaceInv` keeps the position of each pass on an entry, `TimeInv` bounds the
  clocks for the types.
* `MemAllocProofs`: `PoolInvariant`, and from it `TypesSafe`, `PoolSafe`,
  `LastCloseSafe` and `ReleaseKeepsMaps`. Assumption (`MemAllocAssumption`): there
  are finitely many processes, a page has a size. `NodeInv` says what each step of
  `memalloc_init` has registered; it and the types hold always. The rest is
  `SerialInv`, under the condition `serial`, and so are the three properties.
  `CallInv` ties the handler a process is in to the state of its file; `Alone` says
  that one process at most is inside open or release and that the count it has read
  is still the count, which is exactly what fails when two of them meet;
  `LoadedInv` says that before and after the module is in nobody is in it and there
  are no buffers. `ReleaseSafe` follows because the count is then exact: a release
  that frees was the last, so no file is left that could map or be mapped
  (`FreeingAlone`). `MaxDrift` plays no part in the proofs.
* `TestModulesProofs`: `ModulesInvariant`, and from it `NodesSafe` and
  `UnloadIsSafe`, all for `SCC_MAJOR # 0`. The cleanups go by a number the driver
  has kept, so `RegInv` says that every number that leads to a driver is that one,
  and `KeptInv` that the variables the cleanups look at agree with it. `UseInv` is
  the exact use count of spdc while it is loaded.
  For the files and ioctls of the RNG driver, `RngInvariant`, and from it
  `ContextsSafe` and `BufferSafe`. `UsersInv` restates `ContextsExact` file by file;
  `CallInv` ties a sleeping ioctl to its file, and the VFS releases none that is in
  use; `BufInv` says a handler starts without a buffer.
* `SccIoctlProofs`: `SccInvariant`, and from it `AreasSafe` and `TruthSafe`. Both
  are about the return of an ioctl. `Good` says for each place of a handler which
  memory it holds and that it has told the caller nothing yet. No assumption on
  processes, slots or owners is used but that no owner is `NoOwner`.
* `Scc2IoctlProofs`: `Scc2Invariant`, and from it `TransfersWhole` and `DmaSafe`.
  `MutexInv` says that a process inside the switch holds the mutex; hence a
  partition changes only by the one handler inside, and `Fine` says how many halves
  it has moved (`Moved`).

The argument for `StopOrder`. A channel goes to STOPPED when no sink is alive
(`process_chn_stopping`), but its unit is stopped over several steps, during which
puts run (`ClosingInv`: nothing can start a sink meanwhile, since nothing
is pushed). A sink is started only by a push of its source, which must be
ACTIVE: frames of `stack` stay ACTIVE because the channels entered from a push
come later in the order of registration than every suspended one (`ChainInv`), so
no suspended channel is entered again and only the entered channel changes its
own state. The decoder's output channel also starts the capture channel, which
has no source. `StartInv` carries the order through the passes of
`pitcher_start`, where channels are started sources first and, after a failure,
stopped in the same order; `LoopInv` keeps the two phases apart. Type correctness
needs that a file read to its end says so (`FileInv`) and that the driver fills
only buffers it was given (`DoneInv`).

The argument for the buffers (`BufferInv`, which TLC checks on the three instances
of the pipeline). `RefcountExact` counts holders, and a step moves a reference from
one holder to another or adds or drops one; the lemmas on `Num` (how often a buffer
occurs in a list) and `Refs` (the sum over all lists) turn each step into an
equation between numbers. That a released buffer may be freed needs to know who
else can refer to it: `PlaceInv` says that a buffer lies only with its owner or at a
channel below the owner in the graph of pipes (`Below`), and that a suspended push
holds a reference to what it pushes; `QueuedInv` that a buffer with the driver has no
other reference. When a unit is stopped, everything below it is stopped already
(`StopOrder`), so a buffer of it can only be in its own lists or among the puts
(`StoppingInv`): hence `ReclaimedAtStop`, and hence the callback that keeps a buffer
never sees a disabled unit unless `pitcher_start` was aborted (`EnabledInv`,
`AbortInv`). `PipeServed` needs `ServedInv`: between the two passes of a push over
its outputs the sinks it has started and not served stay up, since what runs in
between is the sink served last and what lies below that one. `ExitInv` carries the
empty lists from the teardown to the exit.

The argument for the order of the pictures (`PictureInv`). It needs two numbers per
channel that are no variables of the model: the last picture a channel took (read
from its file, dequeued, taken from its pipe) and the last one it was sent. The
invariant says that such numbers exist (`\E tk, sn \in Counters : Ordered(tk, sn)`),
and each step of the proof gives the new ones: a channel that runs takes a later
picture (`TakesIfile`, `TakesConvert`, `TakesOfile`, `TakesCapture`), a push
sends the picture of the suspended frame (`OrderedPush`), every other step keeps
them (`OrderedCarried`; a channel that is stopped loses its pipe, and what it has
taken still is not later than what it was sent). `Rising` says that the pictures of
a queue lie between the two numbers and rise; `FramesRise` that a suspended push
holds the picture its channel took last, which is later than what the sinks it has
not served were sent. Since no push of the running channel is suspended (`ChainInv`),
what it takes next does not change what a suspended push holds. That a buffer that
is read into or converted into is not at the same time in a pipe needs `IdleInv`: an
idle buffer has the one reference of the list, so by `RefcountExact` it lies nowhere
else.

The argument for `Delivered` (`DeliveryInv`). The same two numbers serve, with more
known of them (`Gapless`): a pipe holds every picture between what its channel took
and what it was sent (`Kept`, with `Solid` for a queue without a gap), a channel was
sent all its source took except the picture a suspended push still has for it
(`Sent`), what the driver decoded was dequeued or waits (`Decoded`), and an output
file has as many pictures as its channel took (`Recorded`). After SIGINT a pipe may
be cleared, and then nothing follows the gap (`Whole`): so `InOrder` holds also for an
interrupted run. The rest says that nobody stops too early.

* `MarkInv`: the LAST flag is on a buffer only when its owner, a file read to its end
  or the drained decoder, gives no more pictures (`LastOf`), and what is pushed
  without a picture carries the flag. So behind a flagged buffer there are no
  pictures (`PipesLast`, `FramesLast`).
* `EndedKept`: a channel comes to its end by a flagged buffer or by an empty pipe
  under a source that is not active; in both cases it has taken everything that was
  sent, and nothing is sent to it afterwards (`EndedStep`).
* `DecoderInv`: with a driver that drains, the capture channel ends only when the
  driver has drained or waits for a new setup, with nothing left to dequeue; every
  flag of the output channel goes back to an event; so the decoder node does not end
  at a change of resolution.
* `SourcesInv`: without SIGINT or a failed start, a source that is registered at the
  start is active until its file is read or the driver has drained.

When all channels have stopped, nothing is suspended (`StopOrder`) and the pipes are
empty (`PipeServed`), so the numbers are equal along every path (`EqualBelow`) and the
files have what the source gave. `~ LaxDriver` is needed: run `decoder_lax` has
behaviours in which pictures are lost.

The argument for `ExitClean` (`StopInv` and `LeftInv`, checked by TLC in the instance
of `loop`). A timer pass without a living channel stops the loop, but a push can
revive a channel behind the pass. `PassInv` says that then the channel the pass is at
is alive and is counted when its run is over: the calls in progress follow the order
of registration (`CallsInv`), so nothing that runs above it can stop it. After that
nothing runs (`EndInv`), and one pass over the nodes is left. A node of a channel
that no push starts is not younger than the timer (`AgeInv`); with the default
interval of one millisecond neither keeps a remainder, so such a node is due when the
timer is (`DueInv`), and the last pass frees it (`LastPassInv`).

The argument for the rate (`SkipInv`). `GcdDefined` and `GcdCorrect` say that the
division loop is well defined, that its result divides both numbers, and that what
divides a multiple of both divides the same multiple of it; the induction is by the
least number for which that fails (`LeastNumber`, from the well-foundedness of the
naturals). So `RatioInv` holds: the two rates are multiples of the ratio in the pipe
by the same factor. `WindowInv` counts what was kept after q whole windows and part
of the next. `WindowComplete` shows that a frame count the rates divide ends a
window, which needs that the factor is the greatest one.

Only model-checked: the liveness properties (fairness is beyond the prover),
`Returned` among them, and that the runs terminate.

## Not modelled

* In the pipeline: the bitstream side of the decoder, the encoder and camera nodes
  beyond what `PitcherLoop` needs of them, disconnecting and unregistering, QBUF
  failures, seek, the wayland sink with its two threads, the old decoder tool.
* Parsers, format conversion, pattern and register tools: sequential work on data,
  without control state.
* The ioctls of spdc hand one structure each to the framebuffer driver and keep no
  state. `scc_test_mmap` is never registered. The other kernel modules do one DMA
  transfer or probe one device.
* The headers in `src/include` that belong to daemons which are not in the
  repository.

## Plan

1. `V4l2Buffers`: slots, buffers and error buffers of both queues of `v4l2.c`
   with QBUF failures; then the bitstream side of the decoder in `VpuPipeline`:
   input pipe, flush, EOS, seek, the parser node.
2. Encoder and camera nodes, reconnection, disconnecting and unregistering, the
   channel table.
3. `WaylandSink`: render and display threads against the loop thread, with the
   three-second joins.
4. `StreamThreads`: the hand-shake of the two threads of `mxc_vpu_dec.c`.
