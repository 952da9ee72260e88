# TLA+ models of libsophon

libsophon drives Sophon TPU cards: a Linux driver (`driver/`), a runtime library on
its ioctls (`bmlib/`), and libraries and tools above that. This directory holds TLA+
specifications of the parts of the driver and of the multimedia libraries where the
difficulty is in concurrency, TLC configurations that check them on small instances, and
TLAPS proofs of their safety properties for every instance. All paths below are relative
to the repository.

Contents: 1 the system, 2 the modules, 3 the checks, 4 fairness, 5 proofs,
6 disagreements found, 7 what is not modelled, 8 plan.

## 1. The system and its parts

A program opens the character device of a card (one *handle* per open file) and its
threads submit *APIs*: messages the firmware of the card executes. Two channels lead
to the card, XPU and CPU; each is a ring of words in the card's memory with a write
pointer moved by the driver and a read pointer moved by the firmware, and an interrupt
back. Data is moved between host and card by one CDMA engine. Next to that, the card
has pools of JPEG, video and post-processing cores, and its firmware runs libraries that
programs load and look functions up in. A program decodes video through a library that
keeps a thread per open decoder.

| part | code | state it keeps | operations | talks to |
|---|---|---|---|---|
| message fifo | `bm_msgfifo.c`, `bmdrv_post_api_process` in `bm_drv.c` | ring words, WP, RP, `sw_rp` | wait for free words, copy and publish, release, invalidate | firmware (shared memory, RP), API submission (`api_mutex`), interrupt handler |
| API submission, completion, sync | `bm_api.c`, `bm_msgfifo.c`, `bm_thread.c` | sequence numbers of device, handle and thread; `api_fifo`, `api_list`; device sync counters; completions | send, query, thread/handle/device sync; interrupt handler | message fifo, handles (`gmem_mutex`), threads of programs |
| handles | `bm_fops.c` | `handle_list`, one `bm_handle_info` and its `bm_thread_info`s per open file | open, close | all parts with a state per handle |
| libraries of the firmware | `bm_api.c` | a list of loads with the thread of each, a list of functions with their numbers, `f_id` | load, unload, get function, clear at close | send (they run inside it), firmware |
| memory copies, CDMA | `bm_memcpy.c`, `bm_cdma.c`, `bm1684/bm1684_cdma.c` | bit maps of staging slots, `cdma_mutex`, `cdma_done`, engine registers | copy s2d, d2s, c2c, with an IOMMU; interrupt | engine, ARM9 of the card (`TOP_CDMA_LOCK`) |
| interrupt dispatch | `bm_irq.c` | pending status words | one threaded handler calls the parts' handlers | all parts with interrupts |
| global memory | `bm_gmem.c`, `bm_genalloc.c` | heaps; `gmem_used` per handle | allocate, free, account | ion/genalloc of the kernel |
| JPEG cores | `bm1684/bm1684_jpu.c`, `bmvid/jpeg/driver/` | semaphore, list of cores with `inuse` and `filp`, `interrupt_flag` per core | take, wait, reset, give back (ioctls); release of a file; interrupt. The library: one picture | cores, processes that end |
| post-processing cores | `vpp/bm1684_vpp.c` | semaphore, bit map, `got_event_vpp` per core | run a batch; interrupt handler | cores |
| video codec cores | `vpu/vpu.c` | instances, interrupt queues | driven from user space | vendor code |
| bmcpu, clocks, trace, sysfs, buses | remaining files of `driver/` | registers, lists | control and display | hardware |
| video decoder interface | `bmvid/video/decoder/` | input queue, output frames, status and end flags | feed, get and return frames, flush, delete; decoding thread | VPU cores |
| runtime library | `bmlib/` | handle, memory pool of the C model | wrappers of the ioctls | driver |
| model runtime, operators, rest of multimedia, bm-smi | `tpu-runtime/`, `tpu-cpuop/`, `bmvid/`, `bm-smi/` | networks, buffers | sequential, user space | runtime library |

What is hard, and what each part must keep:

* *Message fifo.* Four actors (sender, close, firmware, interrupt handler) move along
  the same ring with different pointers, and a message may wrap anywhere. No word may be
  overwritten before its last reader has passed; every reader must stay on message
  boundaries; a closed file must not appear in a message that is still to be executed.
* *Submission and completion.* The handler matches a finished message with an entry by
  position (XPU) or by number (CPU), while threads append entries, markers are mixed
  in, handles go away and waits time out. Entries must match messages; each message has
  exactly one interrupt; numbers complete in order; a sync that returns success must be
  right; a sync must end.
* *Copies.* Staging slots are handed out and back on every path, also after errors;
  sleepers must be woken; the engine is shared with threads and with the ARM9; a copy
  that reports success must have moved its data.
* *Cores.* The semaphore counts what a list or a bit map says otherwise, under another
  lock or none; calls are interrupted by signals after they have acted, and are made again;
  pictures and batches time out and their interrupts come late; processes end with a core.
  A core must have one owner, the semaphore must agree with the cores, a call that
  reports its picture or batch as done must be right, and a core must come back.
* *Libraries.* A load or unload decides in one critical section, acts in another and sends
  its message after that; a message may find no room; a close edits the list of functions
  without its lock. The firmware must have loaded
  what some thread still needs, and know each function by the number in the list.
* *Video decoder.* A thread and a program share two queues, two condition variables with
  waits that are not loops, and two flags read without a lock. Frames must be counted
  exactly, the end of the stream must mean that all was decoded, calls must return.

`PROJECT.json` lists these hazards one by one at their source lines.

## 2. The modules

| module | models | role |
|---|---|---|
| `MsgFifo` | one channel's ring, word by word | detailed specification |
| `MsgQueue` | a queue of messages, executed one at a time and given back in order | what the ring promises; `MsgFifo` implements it |
| `MsgChannel` | a channel with room for a number of messages | what `MsgFifo` provides and `BmApi` relies on |
| `NumberSets` | the members of a set of numbers in ascending order | used by `MsgFifo` and `BmApi` |
| `BmApi` | submission, completion, query and the three syncs on both channels | detailed specification, ring abstracted to a sequence of messages |
| `Memcpy` | copies, staging slots, CDMA engine | detailed specification |
| `Jpu` | the pool of JPEG cores and the library's use of it for a picture | detailed specification |
| `Vpp` | the pool of post-processing cores and `vpp_handle_setup` | detailed specification |
| `LibRegistry` | loads, unloads and look-ups of libraries and functions | detailed specification |
| `VideoDecoder` | the thread of an open decoder and the calls of its program | detailed specification |
| `Parts` | one of the last four in each behaviour | composition for the runs |
| `MsgFifoProofs`, `BmApiProofs`, `MemcpyProofs`, `CoreProofs`, `LibRegistryProofs`, `VideoDecoderProofs`, `PartsProofs` | | TLAPS proofs of the specifications; `CoreProofs` is about both `Jpu` and `Vpp` |
| `NumberSetProofs` | | lemmas about least members, orders and places in `NumberSets` |
| `MCMsgFifo`, `MCBmApi`, `MCMemcpy`, `MCParts` | | instances for TLC |

`BmApi` takes a ring for a sequence of at most `RingMsgs` messages, which `MsgFifo` has
word by word. `MsgChannel` is where the two levels meet: the words provide such a channel,
and what `BmApi` does to each of its rings are steps of one (section 5). `Jpu`, `Vpp`, `LibRegistry` and
`VideoDecoder` share no state with each other or with the rest: their names carry a prefix,
so that `Parts` can hold all four, and each of its behaviours is a behaviour of one of
them. `LibRegistry` takes of a send only that its message is executed or finds no room.

**MsgFifo.** `mem, wp, hw_rp, sw_rp` are the ring and its pointers. `pc, api, idx` is
the thread that holds `api_mutex` and copies a message, one word per step (`CopyWord`),
with `PublishWp` as the write of WP. `cur, end, file` are the locals of the walk of
`bmdev_invalidate_pending_apis`, one message per step. `run, irqs` belong to the
firmware. `pend` is a history variable, the words published and not released. A word is
`[api, off]`: which message it was written for, and at which offset. The handle is one
word instead of two, and `HeaderWords` covers both header lengths. The walk exists only
on the XPU channel (`bm_msgfifo.c:288`), whose messages have no opt header; that the walk
counts with the short header is therefore right. A time-out that races with the release
(line 627 tests only the wait, not the words) ends the send as any time-out does.

**BmApi.** A system call is a thread's `pc` with its locals `loc`; each critical section
is one step, and what the code does between two of them may interleave with everything
else. `ring, executed, irq` is the card's side; `handler` is the threaded interrupt
handler, which holds `api_fifo_mutex` of its channel from `IrqStart` to its end and
handles one entry per step. `CountedIrq` tells the bm1682, which counts interrupts, from
the bm1684, whose firmware waits until its interrupt is cleared. `api_done_flag` of a
marker in `api_list` is never initialised: any value is possible. `loc.owed` is a history
variable: the numbers a sync owes its caller when it begins. Assumptions: a program
queries an API from the thread that sent it and not again after success; an address that
an entry names is not handed out by `kmalloc` for a new handle; the uninitialised
`global_api_seq` of a marker equals no number in use; the kernel calls `release` only when
no system call uses the file. A device sync that fails as `api_fifo` is full changes
nothing and has no action.

**Memcpy.** A copy makes `Passes` passes, each through a slot (`bitmap`, `stagemem_done`);
`stage` and `dest` say what data is where. `LockMutex`, `StartCdma`, `TransferDone` and the
time-outs are `bm1684_cdma_transfer`; `EngineDone` and `CdmaIrq` are the engine and the
interrupt; `Arm9` is the other user of the engine. Assumptions about hardware: reading
`TOP_CDMA_LOCK` as 0 takes it (the host only ever writes 0); disabling the engine at
the start of a transfer gives up what it was doing; no interrupt without
`CDMA_INT_ENABLE`; the engine's data arrives at its end.

**Jpu.** A thread decodes or encodes one picture after another: `JpuDown` and `JpuTake` are
`JDI_IOCTL_GET_INSTANCE_CORE_INDEX`, in two steps as the semaphore and the list have
different locks; `JpuStartPic`, `JpuWait`, `JpuCheck` and `JpuTimeout` are the library's
loop of starting, waiting and reading the status register; `JpuClose` is
`JDI_IOCTL_CLOSE_INSTANCE_CORE_INDEX`. Every way in which a signal changes the result of a
call that has acted is an alternative. A decoder at the end of its stream waits for a core it has
not started. A picture ends done, with an error, or cut off: an encoder whose buffer for the
bitstream is full asks the core to stop. An encoder's wait does not end with an error. `JpuRelease` is `bm_jpu_release` of an ended process,
after which another one may open the file. `JpuDone` and `JpuIrq` are a core and the interrupt handler.
`jpu_drawn` and `jpu_cut` tell whose current picture was finished or cut off; `jpu_unmatched`
that a thread has closed a core it did not have: the close ups the
semaphore all the same, and from then on the pool cannot be exact.

**Vpp.** One step per access to shared state of `vpp_handle_setup`, down to the two
`test_and_set_bit`s and the two steps in which a core is given back. The handler clears the core's
interrupt and sets the event in two steps. `vpp_late` holds the cores on which a wait has
timed out.

**LibRegistry.** One step per critical section of the `dyn_` functions, one for the message,
two for `f_id++`. `lib_list` counts the loads per library and thread. `lib_loaded` and
`lib_known` are the firmware. The close removes the functions of a library one by one without
`bm_get_func_mutex` (`LibClearFuncs`): a look-up that meets it may miss an entry, and an edit
(`LibEdit`) that meets it may leave any part of the list; from then on the list is torn
(`lib_torn`) and every later edit may do so. `LibUpset` holds the libraries for which a message found no
room, two functions drew one number (`lib_failed`), or two calls met in a way no lock
excludes (`lib_raced`), and all libraries once the list is torn; `lib_raced` is computed from the
state after each step (`LibRaces`).

**VideoDecoder.** The thread `process_vpu_msg_w5` from the top of its loop: purge, wait for
input, wait for frames, sequence header, start, result, show, drain, end. `dec_call` is
the call of the program's feeding thread, with its unlocked check of the flags and the enqueue as two steps;
frames are taken and given back at any time. A signal on a condition variable moves a waiting
thread on (`DecSignalInput`, `DecSignalOutput`), and one without a waiter is lost. `dec_locked`
tells that the thread has left its loop with `inputCond` locked. The core finishes
commands in order or never. Each command may give a frame, nothing, or a failed change of
sequence; one for the end of the stream also `SEQ_END`, and until it does, the thread starts more of
them. A sequence header for which there is no memory stops the decoder with `seqInitFlag` set.

In all modules a definition named after another one with a suffix (`FreeSlotsNoGap`) is a
deliberately wrong variant of it, used to see that each property is able to fail.

## 3. The checks

| run | cfg | states | question |
|---|---|---|---|
| `fifo_safety` | `MCMsgFifo.cfg` | 2.1 M | is the ring right under all interleavings, with wraps at every word? |
| `fifo_live` | `MCMsgFifoLive.cfg` | 177 k | does the ring implement `MsgQueue`, with its fairness? do waiting senders and closes end? |
| `api_xpu` | `MCBmApiXpu.cfg` | 1.4 M | do entries, interrupts, numbers and syncs of the XPU channel agree, with closes and time-outs? |
| `api_list` | `MCBmApiList.cfg` | 4.0 M | does the list of the CPU channel survive queries, time-outs and markers? |
| `api_live` | `MCBmApiLive.cfg` | 25 k | are messages executed and released, do thread syncs end? |
| `memcpy_slots` | `MCMemcpySlots.cfg` | 1.2 M | are slots accounted for and sleepers woken, with every failure? |
| `memcpy_ends` | `MCMemcpyCopies.cfg` | 26 k | does success mean moved data, is the engine exclusive, does every copy end? |
| `parts` | `MCParts.cfg` | 813 k | do the two pools, the registry and the decoder keep what section 1 asks, with signals, time-outs, failures and closes? are cores given back, do the decoder's calls return? |
| `device_sync_returns_early`, `handle_sync_returns_early`, `thread_sync_after_failed_send`, `copy_succeeds_too_early` | | | section 6 |

Each passing property has a mutant in `PROJECT.json`: a plausible slip in the code
for which the same run fails.

Bounds, and why they suffice:

* *Ring of 11 words*, header of 4, messages of 4, 5 and 7 words and a quit message: lengths
  with different remainders make messages begin and end at every word; two messages
  fit at once (5 and 5 words fill the ring, 4 and 7 are one too many), so that a free
  word more or less matters, and the third has to wait.
  Nothing is counted, so the run covers behaviours of any length. The fair run has a
  ring of 9 words, a message that needs all 8 free ones and one that needs one more and
  can only time out. For other sizes there are the proofs.
* *`api_xpu`*: two threads, two handles, three APIs, one marker, a ring of 2 messages
  and a `kfifo` of 2 entries. Two handles are needed for a close next to a live handle,
  two threads for shared and separate numbers; a `kfifo` smaller than ring plus marker
  makes both limits reachable. `RingMsgs` = 2 lets two messages finish before one interrupt.
* *`api_list`*: ring of one message and four APIs, so that four entries with different
  flags (done, waited for, finished) and a marker meet in the list.
* *`api_live`*: one thread per channel, without failing sends, for which
  `thread_sync_after_failed_send` shows that a thread sync need not end.
* *Copies*: four threads on two slots are the least with two sleepers and two owners;
  two threads with two-pass copies of every kind are the least in which a pass of one
  thread comes between two passes of another.

* *Parts*: one JPEG core for two threads of one process and one of another; with more cores
  the same conflicts need more threads. The semaphore is cut off at 3 (`JpuMaxSem`), two above the
  cores, and no picture begins after an unmatched close, as the properties then claim nothing.
  Three threads for the two post-processing cores are the least
  in which one looks for a bit while both cores change hands. Two threads, two libraries of
  one function each, one load per thread and library (`LibMaxLoads`), two
  function numbers (`LibMaxId`). The calls of the model do not ask whether a library is upset; the
run adds an action constraint, `MCLibQuiet`, by which no thread begins another call for a library that
is upset, or a close when all are: of these the properties say nothing. Calls under way when a library becomes
upset, and all calls for the other one, go on. The proofs have no such bound. A decoder with an input queue of 2, a
  core that queues 2 commands and 1 frame, so that each of the waits is reached; all of them are
  parameters of the proofs.

`CHECK_DEADLOCK FALSE` in the runs of `BmApi`, `Memcpy` and `Parts`: the numbers of APIs, markers,
copies and functions are bounded, a decoder ends, and then the system stops. `MsgFifo` has no such
bound, and is checked for deadlock.

## 4. Fairness

* `MsgFifo`: weak fairness of the sender, of the close, of the firmware and of the
  interrupt handler: they run when they can, and interrupts are delivered. Time-outs and
  new calls are never owed.
* `BmApi`: strong fairness of a thread inside the driver, as it competes for mutexes,
  which the kernel hands on to sleeping waiters; weak fairness of the firmware and of the
  handler in progress; strong fairness of `IrqStart`: there is one threaded handler for
  both channels, and `bmdrv_do_irq` goes through all bits of the status word each
  time.
* `Memcpy`: weak fairness of threads, engine and interrupt; strong fairness of
  `StartCdma`, as the loop on `TOP_CDMA_LOCK` polls every microsecond; the ARM9 gives the
  engine back. Each thread makes a bounded number of copies, so weak fairness
  is enough for mutex and slots; no claim is made about starvation by an endless stream
  of copies.
* `Vpp`: weak fairness of the threads in a call together (`VppCall`): as long as one of them can
  go on, one does. Nothing is assumed of the cores or of the interrupt handler, as every wait ends by
  itself.
* `VideoDecoder`: weak fairness of the decoding thread, of the rest of a call that has
  begun, and of the core. Nothing makes the program feed, drain or close.

`PartsFairness` is the last two, in the behaviours of their parts.

Exceptions that properties make, and why: `JpuPoolExact`, `JpuCoresExclusive` and
`JpuPictureDone` end with an unmatched close; `JpuPictureDone` leaves out pictures that were cut off:
`jpu_EncWaitForInt` clears the bits for a full buffer and for the stop, `JPU_EncGetOutputInfo`
(`jpuapi.c:1644`) then finds no error bit, and the truncated picture is reported like a
finished one. `VppBatchDone` leaves out cores on which a wait has timed
out, `LibLoadedExact` and `LibFunctionsKnown` leave out libraries that are upset, which are all
of them once the list of functions is torn,
`DecEndAfterAll` programs that fed a packet after an end of stream, and `DecCallsReturn` a call that
needs the input lock (an enqueue, a request for all frames, a flush, also that of a delete)
and finds it kept by a thread that has ended before the first sequence header. In each case the
model reaches the state as the code does, and the property shows that there is no
other way to it.

## 5. Proofs

Eight modules prove safety for all values of the constants; the assumptions are the `ASSUME`s of the
specifications. Each proof has the same layout: an inductive invariant, a lemma per action
or group of actions, and the theorems from it. Every safety invariant and action property of the
passing runs is a theorem, some under a condition that the run meets and the theorem names. Liveness is out of the prover's reach.

`NumberSetProofs` has what several proofs need of sets of numbers: a set has a least member
(`LeastOf`: the first free slot or core, the first packet), `InOrder` lists a set
ascending, each member once (`InOrderFacts`, `InOrderAscends`, `PlaceOf`), and what becomes of the list
when a member is added at the top or removed at the bottom and all are shifted down (`InOrderAdd`,
`InOrderRest`).

### Message fifo

`MsgFifoProofs` proves, for every `FifoWords`, `HeaderWords`, set of messages, payload sizes
and files that meet `FifoAssumption` (the header has at least four words and fits into the ring):

* `NoOverwrite`: `Spec => []QueuedIntact`. No word of a published message is overwritten before
  its release, except a handle that a close zeroes and the result word of the firmware.
* `FreeSlotsExact`: `Spec => []OccupancyExact`.
* `ReadersStayAligned`: `Spec => []ReadersAligned`.
* `TypeCorrect`: `Spec => []TypeOK`.
* `Invariance`: `Spec => []IInv`, on which they rest.
* `ClosedFilesInvalidated`, `WalksAligned` and `ResultsAreForMessages`: `ClosedFileInvalidated`,
  `PointersAligned` and `ResultIsForMessage`, from `ReadersInvariance`.

*The argument.* `QueuedIntact` is not inductive: the release and the firmware follow a size
they read from the ring, so the readers must be known to stand at headers, and a copy
in progress must be known to write free words only. `IInv` adds: the occupied words are
a sequence of whole messages (`Framed`), WP is at its end (`WpAtEnd`), the readers are at
message starts (`ReadersAligned`), each finished message not released has one interrupt
(`OneIrqEach`), the firmware executes the message at RP (`Executing`), the message being
copied has room and its words so far are in place (`Copying`), and no word belongs to a
message that cannot fit (`MemFits`). The last one is for the walk of a close, which may
have been overtaken and read words that mean nothing: it may then zero a free word,
never one that counts, and it stays inside the ring. `Window` is the central lemma: a write
at a free slot changes no occupied one, because different distances below `FifoWords` are
different slots (`AddInjective`). There is one lemma per action that changes the ring.

The walk of a close runs next to firmware and handler, which may move both read pointers past it, and
the handler forgets what it releases. `ReadInv` therefore keeps the words that were queued when the walk
began (`Walking`): as the close holds `api_mutex`, nobody writes over them, so that the walk finds
headers where it looks even behind `sw_rp`; the words queued now are the last ones of them; and those
between the start and the walk that carry the file's handle have been zeroed (`WalkedOver`). At the end these
are all that the firmware has not executed. `ResultsWritten` says where results are.

*What the ring is for others.* `QueueImplemented`: `Spec => Queue!QSafe`, with the mapping of
`fifo_live`: the queue is the messages whose first words (`Starts`) are in use, in the order of these
words (`Messages`), and those before RP are done (`Finished`). A published message is one start
more, above all others; a fetch changes neither; the end of a message moves RP over one start, because `Framed`
puts none inside a message; a release takes away the first start and shifts the others by
the length of the message. `StartsFacts` collects what each of these steps needs, and `QueueStep` has one lemma per
action. `ChannelProvided` counts messages instead of words: if all have the length `W`, the words in use
are `W` times the messages queued (`Filled`), and `bmdev_wait_msgfifo` lets a sender on exactly when there
are fewer than `Room` messages, where `W * Room < FifoWords <= W * (Room + 1)`; one word always
stays free. The lengths are assumed equal as `BmApi` has messages of one size; `QueueImplemented` has no
such assumption.

### Submission, completion and sync

`BmApiProofs` proves for any number of threads and handles, any size of ring and `kfifo`, both kinds
of interrupt and every mix of calls and time-outs:

* `TypeCorrect`, with the limits of ring and `kfifo`; `EntriesAreMessages`: the entry at the head of
  `api_fifo` is that of the API that was executed; `InterruptsCounted` and `MarkersTaken`: no executed
  message and no marker stays without an interrupt;
* `CpuEntriesFound` and `QueriesKeepEntries`: the list of the CPU channel has what the handler and a query
  look for, whatever scans, time-outs and markers have left in it;
* `XpuMarkersSound` and `CpuMarkersSound`: a marker completes after the APIs its device sync found;
* `ChannelsImplemented`: `Spec => ChannelsKept`. Each ring is a channel of `MsgChannel` with room for `RingMsgs`
  messages, which is what `ChannelProvided` gives: no thread writes without room, although others send while
  it waits, and the handler releases nothing that has not been executed.

*The argument.* None of them is inductive. `Core` has a part for each thing that must agree: who is
inside a call on which handle (`CallsInv`); that a sender holds the mutex of its channel, draws
its number under it and has room in the ring when it writes (`SendersInv`), so that the
numbers of a ring ascend (`NumbersInv`); interrupts against messages (`InterruptsInv`); that markers complete in
the order of their numbers (`MarkersInv`) and what each device sync in progress is owed is in front
of its marker (`DeviceSyncInv`); the list with its flags, in which an entry waits for each message
(`ListInv`), and the entry of each query (`QueryInv`). A scan of the list frees any number of entries in one
step; `ScanPicks` shows that what remains is a selection of the list in its order (`Picks`), from which
the lemmas `Picked...` carry each part over to the new list.

The second half of the module adds what holds when no thread sends on the CPU channel (`NoCpu`): `ThreadSyncsSound`,
`HandleSyncsSound` and `CompletionsInOrder`. With one channel, numbers complete in the order in which they
were drawn: every entry of an open handle in `api_fifo` is above what its handle and thread have
completed, and at most what they sent last (`CompletedInv`), so that a sync that sees its number completed has
seen the smaller ones too (`SyncInv`). The proof covers the numbers a failed send takes back, and handles closed
and opened again with APIs outstanding. The assumption is needed: with both channels in use handle sync
returns early (section 6).

### Copies

`MemcpyProofs`: `MemcpyTypesHold`, `SlotsAreAccounted`, `NoWakeupIsLost`, without conditions on
what may fail or time out; `EngineIsExclusive` if no wait for the engine times out; `CopiesAreSound` if
in addition no wait for its lock times out under an IOMMU copy, which ignores the result (`LongEnough`).
`SlotsAccounted` is inductive with types. `NoLostWakeup` is not, as it only says that some wakeup
is left: the invariant (`WakeupsSuffice`) counts, and has at most as many free slots as
completions and threads on their way, while anybody sleeps. The data needs one transfer at a
time (`OneTransfer`), with which the data in a slot (`DataInv`) and the passes done
(`PassSound`) are followed through a copy.

### JPEG cores

`CoreProofs`: `JpuTypesHold`, `JpuPoolIsExact`, `JpuCoresAreExclusive`, `JpuPictureIsDone`. The invariant
`JpuInv` has types, every core in the list (`JpuListed`), and four parts that hold until an unmatched
close (`JpuMatched`): the semaphore with the threads before `JpuTake` counts the free cores
(`JpuCounted`), so that such a thread finds one; a thread at work has taken a core (`JpuOwned`); that core is in use,
marked with the thread's file, and nobody else's (`JpuExclusive`); and `JpuOwnPicture`: the core of a thread that
waits works for nobody else, and its status tells only of the thread's picture (`JpuOwn`), while a core nobody
waits for is idle and has its status cleared (`JpuQuiet`). The last
makes `interrupt_flag` harmless: a flag of an earlier picture ends a wait, whose check then
finds the status clear, also for a decoder that waits at the end of its stream for nothing.

### Post-processing cores

`CoreProofs`: `VppTypesHold`, `VppPoolIsSound`, `VppBatchIsDone`. `VppPoolInv` has: the semaphore and the
threads in a call add up to two (`VppCounted`); the bits set are the cores held (`VppMapExact`); and
when a thread has found bit 0 set, nobody else holds core 1 or looks for it (`VppBitOne`), which
the number of threads in a call gives, as a core is given back bit first, semaphore second.
`VppBatchInv` follows an event from the core through the handler to the thread.

### Libraries

`LibRegistryProofs`: `LibTypesHold`, `LibLoadedIsExact`, `LibFunctionsAreKnown`. `LibCallInv` says what each step
of a call may rely on, whatever has been torn or lost; `LibModsInv` relates list and firmware for each
library that is not upset, with the calls under way; `LibNumbersInv` says that only functions of upset
libraries share a number, in the list or in a message about to be sent. An edit that does not tear the list is
a plain one (`LibEditFacts`), and libraries stay upset (`LibUpsetGrows`), so that the step lemmas are about
libraries that are upset neither before nor after the step.

### Video decoder

`VideoDecoderProofs`: `DecTypesHold`, `DecFramesAreExact`, `DecEndIsAfterAll`. `DecShapeInv` relates the
place of the thread with its status; `DecOrderInv` says that, unless a packet was fed after
an end of stream, none is behind one on the way from the input queue over the pending packet to the
core.

### The parts together

In a behaviour of `Parts` one part takes all the steps and the variables of the others stay as they
began (`part` never changes); the parts do not run interleaved, and nothing is claimed about that. By
the lemma `PartsBehave` such a behaviour satisfies each part's specification, and with it
`PartsTypesHold` and `PartsAreSafe` state the invariants proved above of the specification
that the run `parts` checks.

### Only model-checked

Liveness: the fairness of `MsgQueue` in `QueueSpec`, of which the safety is proved, and the properties of `fifo_live`,
`api_live`, `memcpy_ends` and `parts` that end in something that happens. `BmApi`'s syncs and order of
completion where threads use both channels, for which section 6 has what fails. That `BmApi` and
`MsgFifo` compose is the pair of theorems above: no module runs both at once, word by word.

## 6. Disagreements between code and documents

* **Device sync** (`device_sync_returns_early`). `bmlib/include/bmlib_runtime.h:1427` promises that the
  thread blocks "until all the outstanding APIs of the device are finished".
  `bmdrv_device_sync_api` returns 0 as soon as it finds either channel empty
  (`bm_api.c:951`, `959`), and waits for no marker it has already inserted.
* **Handle sync** (`handle_sync_returns_early`). The manual says all APIs of the handle are
  completed on return; the code compares the number completed last with the number sent last
  (`bm_api.c:881`), and on two channels numbers complete in any order.
* **Thread sync** (`thread_sync_after_failed_send`). A failed send takes back
  `last_api_seq` by one (`bm_api.c:744`, `770`); the numbers are shared by all threads, so
  the thread then waits for a number that is not its own, until its time-out.
* **Copies** (`copy_succeeds_too_early`). `cdma_done` is not reinitialised before a transfer: a
  late interrupt of a transfer that timed out completes the next one
  (`bm1684_cdma.c:173`), and a copy returns 0 with the staging slot's old contents.

Seen while modelling, with the same cause and without a run of their own: thread sync may return
early, and handle sync may not end, with two channels in use; a device sync with APIs
on both channels may wait behind a finished entry of the CPU list. Not in the
scope of the syncs: in IOMMU mode the copy ignores the result of the transfer
(`bm_memcpy.c:316`); with a time-out the trace item of a transfer is
lost (`bm1684_cdma.c:185`).

## 7. Not modelled

Of the modelled parts: the older ids of `bmdrv_api_load_lib_process`, and a look-up by a thread that has not loaded
the library; `ksend_api` next to other senders (it follows the path of a send; its unload message is in
`LibRegistry`); the quit message of a reset of the bmcpu; failing `kmalloc`s; trace items and statistics; the polling variant
(`SYNC_API_INT_MODE` 0); the bm1682's CDMA transfer, which has no `TOP_CDMA_LOCK`; the page
tables of the IOMMU mode; `mmap`. An `EngineExclusive` with engine time-outs is
not claimed: line 186 gives the engine back without stopping it. `bm1686_vpp.c`, a code path for another
chip. In the decoder: the bitstream modes with a ring for the stream, the reset of a hung core, a change of
sequence that succeeds, seeking. In the JPEG library: formats, the ring of the bitstream,
buffers; the exchange in which an encoder finds its buffer full and asks the core to stop is one event of the core.

Of the whole: the parts in `PROJECT.json` with status `not_modelled`, each with its reason. Most
are register access and formatting, kernel or vendor code, or sequential user-space
code; the others are in the plan.

## 8. Plan

Done: `MsgFifo` with `MsgQueue`, `BmApi`, `Memcpy`, `LibRegistry`, `Jpu`, `Vpp`, `VideoDecoder`, and proofs for
all of them. Next, in this order:

1. `MemPool`: the best-fit allocator of the C model as functions on sequences, compared with a
   reference definition; invariant: free and used slots tile the memory.
2. `Gmem`: accounts of handles against allocations.
3. `Clkrst`, the bmcpu reset and its quit message against senders.
4. The other bitstream modes of the decoder; the codec cores' interrupt queues.

Theorems worth proving next: the tiling of `MemPool`; how far ahead of a completed number a sync of
`BmApi` may run where both channels are used; an abstract specification of the pools
of cores, with `Jpu` and `Vpp` as two of its implementations.

To check or prove: `tlc -config MCMsgFifo.cfg MCMsgFifo`, likewise for the other
configurations (all within four minutes on two cores); `tlapm` on each module named `...Proofs`.
