# Formal models of gcnlle

gcnlle runs GameCube programs on a PC: a recompiler translates PowerPC code to C ahead of time
(`src/recompiler`), and a runtime (`src/runtime`) executes the result against low-level models
of the console's hardware. This directory holds TLA+ models of the runtime, its threads and its
devices, the TLC configurations that check them on small instances, and TLAPS proofs of the
properties that matter most, for every value of the constants.

## 1. The system

### Parts and how they interact

One **CPU thread** runs everything the guest can time. The dispatch loop (`dispatch.c`) delivers
a pending interrupt, executes one block, charges its cycles to the time base, the decrementer
and the devices' clock, and calls the devices' ticks in a fixed order (DSP, AI, VI, DI, GX; VI's
beam polls SI). The code of a block is the firmware's or a title's translation, an overlay
variant or the interpreter, whichever fits the bytes of the page. Devices are plain structures;
their registers are reached through `mmio.c`; a device reports an interrupt by setting or
clearing its cause bit at the processor interface (`pi.c`).

Beside the CPU thread there are, in the default Windows build:

| thread | code | shared with the CPU thread |
|---|---|---|
| DSP worker (`GCN_DSP_THREAD=1`) | `dsp.c` `dsp_thread_main` | the DSP core, two cycle counters, quit/parked/waiting flags |
| GX decode worker (`GCN_GX_PIPELINE`, on by default) | `gx.c` `gx_pipe_worker` | the GX state and staging buffer, a byte ring, offsets, an epoch, flags, the PI's cause register, the stale bits of code pages, the external frame buffer (under a lock) |
| raster workers (`GCN_GX_THREADS`) | `gx_raster.c` `gx_mt_worker` | the job of one triangle, a claim word, a row counter, an epoch |
| audio worker | `host_audio.c` `audio_worker_main` | a sample ring under a lock |
| window thread (`GCN_WINDOW`) | `host_window.c` `window_thread_proc` | a mailbox of one frame under a lock, a wake bit, the quit flag, the pad state |

The lock-free protocols follow one pattern. A side that has nothing to do spins, then sets a
flag (parked or waiting) and sleeps in `WaitOnAddress` on a word, given the value it last saw
there; the other side changes the word, looks at the flag, and calls `WakeByAddress` only if it
is set. What can go wrong is the same each time: a wake left out that was needed, a word that
does not change when it should (quit), an order of a store and a load that the hardware does not
keep.

The GPU's work is done by the software rasteriser, or by the **resident renderer**
(`gx_vulkan.c`), which keeps the frame buffer on the host's GPU, records triangles and copies,
and runs them together at the next fence. The two take turns on one guest-visible frame buffer.

### Components, their state, and what makes them correct

* **DSP worker** (`dsp.c`): two cycle counters, flags, the debt `s_owed_ppc`. Correct if the
  core is touched by one thread at a time, if each granted cycle is handed to it once and before
  the guest next looks at it, and if no interrupt request of the core is lost.
* **GX FIFO pipeline** (`gx.c`): ring, `produced`, `retired`, `done_upto`, epoch, staging
  buffer, scanner carry, sync and poisoned modes. Correct if commands are decoded once and in
  order, a tick does not return before the fences in it have been decoded, and all this across
  the switches between pipelined and synchronous mode.
* **Raster row pool** (`gx_raster.c`): `s_mt_grab` (fork id, rows, next row in one 64-bit word),
  `s_mt_rows_done`, `s_mt_epoch`, `s_mt_job`. Correct if each block row of each triangle is
  scanned once, with its own triangle's state, before the next triangle begins. Its main thread
  is whichever thread decodes; `GxExclusive` keeps the two apart.
* **Resident renderer** (`gx_vulkan.c`): an open batch, a draw arena, caches of staged textures
  and palettes, two rings of pending copies, the flags that say where the frame buffer is.
  Correct if the guest sees what a renderer would show that ran every command at once.
* **Host window** (`host_window.c`, `vi.c`): a frame buffer the GPU rewrites, a mailbox, a
  message. Correct if only whole copies are shown, newest last, and the last finished frame gets
  there.
* **Audio output** (`host_audio.c`): a bounded ring with a start cushion and a device that may
  fail. Correct if no frame is lost or repeated while the device is open and the producer never
  waits for a device that is gone.
* **PI and the devices on it** (`pi.c`, `di.c`, `exi.c`, `si.c`, `vi.c`, `ai.c`, `dsp.c`,
  `cp.c`, `gp.c`, `pe.c`): register files with interrupts. Correct if a cause is neither lost
  nor invented, a command completes once and with its own data, the beam polls the controllers
  in every frame, audio plays from inside its buffer, and no burst of the graphics FIFO is
  overwritten or consumed twice.
* **Memory cards and SRAM** (`memcard.c`, `memcard_image.c`, `exi.c`): a command machine and
  files rewritten in place. Correct if what was saved survives the end of the process, which a
  rewrite in place can give only outside it.
* **Which code runs** (`dispatch.c`, `native_code.c`, `aot_module.c`, `overlay_module.c`,
  `interpreter.c`): caches of "this page holds that code". Correct if no translation runs for
  other bytes than its own.
* **Exceptions and time** (`dispatch.c`, `cpu_glue.c`): SRR0 and SRR1, MSR[EE], the decrementer,
  the time base. Correct if handlers return to what was interrupted, alarms are kept and clocks
  do not drift apart.
* **Snapshots** (`snapshot.c`): what is drained and what is copied. Correct if the saved machine
  is one the running machine was.

`PROJECT.json` lists every component with its sources and status, and under `hazards` what is
hard to test in each, at its line, with the properties that cover it.

## 2. The modules

| module | models | builds on |
|---|---|---|
| `DspClock`, `DspBudget` | abstract: what `dsp.c` promises of the DSP's cycles and interrupt, whoever runs it | |
| `DspWorker` | `dsp.c` with `GCN_DSP_THREAD=1`; implements `DspBudget` | `DspClock` |
| `GxStream`, `GxConsumer` | the command stream; abstract: the FIFO consumed on the CPU thread | |
| `GxPipe` | `gx.c`'s pipeline; implements `GxConsumer` | `GxStream` |
| `SerialScan` | abstract: a triangle's rows scanned before the next triangle | |
| `RowPool` | `gx_raster.c`'s worker pool; implements `SerialScan` | |
| `HostAudio` | `host_audio.c`: producer, ring, worker, device, start and stop | |
| `Screen` | abstract: what the window promises | |
| `Presenter` | GPU copies, field boundary, mailbox, window thread; implements `Screen` | |
| `GxImage`, `Renderer` | a frame buffer as a checksum; abstract: a renderer that runs each command at once | |
| `Resident` | `gx_vulkan.c`'s resident renderer; implements `Renderer` | `GxImage` |
| `Pi` | `pi.c`: INTSR, pushed by two threads | |
| `Di` | `di.c`: commands, completion, reset, lid, disc swaps | `Pi` |
| `Memcard`, `Exi` | a card's command machine; `exi.c`: chip selects, SRAM, both save files | `Pi` |
| `Si`, `Vi` | controller polls; the beam that schedules them | `Pi` |
| `Ai` | sample counter and its interrupt | `Pi` |
| `Dsp` | the CSR, audio DMA and ARAM DMA as the guest sees them | `Pi` |
| `Fifo` | gather pipe, CP, GX tick, PE signals | `Pi` |
| `Code` | which code runs for a page: page fence, title chunks, overlays, checksums | |
| `Cpu` | block boundary, exceptions, rfi, decrementer, time base | `Pi` |
| `Console` | the devices, `Code` and `Cpu` composed on one PI | all of `Di` to `Cpu` |
| `DspWorker_proofs`, `GxPipe_proofs`, `RowPool_proofs`, `HostAudio_proofs`, `Presenter_proofs`, `Resident_proofs` | invariants and refinements, proved | each its module |
| `Component_proofs` | lemmas: the invariant of each of `Dsp`, `Ai`, `Vi`, `Fifo`, `Di`, `Exi`, `Code`, `Cpu` is kept by its own actions | these |
| `Console_proofs` | theorems of the composed console | `Component_proofs` |
| `*MC` | the instances TLC checks | |

### How state and actions correspond to the code

Each variable is a C object, or a record of the fields of one, and is named after it in its
comment. The map in `PROJECT.json` gives the lines of every definition. Definitions marked
"Mutant" are not part of the specification: each is the form a definition would take with a
plausible bug in it, and each property is known to fail when its mutant replaces the original.

**The thread protocols** (`DspWorker`, `GxPipe`, `RowPool`, `HostAudio`, `Presenter`). An action
is one access to shared memory, or one critical section, together with the private computation
up to the next. Names start with `W_` for the worker or window, `G_` for the GX worker, `C_` or
`M_` for the CPU or main thread; program counters (`wpc`, `gpc`, `cpc`, `pc`) name the place in
the C function.

* `WaitOnAddress` compares and sleeps in one step (the operating system's promise), may return
  spuriously, and may time out where the code gives a limit. A wake does nothing to a thread
  that is not asleep.
* Memory order: the stores that precede a load of another word are sequentially consistent in
  the code, with one exception, the DSP worker's release of `consumed`, a plain move on x86-64.
  `DspWorker` gives that store a one-entry buffer (`cbuf`, `W_StoreVisible`).
* `DspWorker`: a halted core skips its cycles; a running one may raise its interrupt, and may
  execute HALT, in any call; a CSR write sets or clears `halted` and may acknowledge `dspint`.
  The guest is one of the entry points of `dsp.c` chosen freely. The mapping to `DspBudget` calls
  what is about to be granted, or granted and not yet run, *due*: at every register access it
  must be nothing. What the contract leaves out is said in section 3.
* `GxPipe`: `Chunk` cells stand for the 32 bytes of a burst. A command is plain, a fence, or a
  primitive (which the scanner cannot size). The scanner and the decoder work from the bytes
  they hold, not from the stream, so that they could disagree. The mapping to `GxConsumer` hides
  ring, worker and mode; it keeps chunks fetched, commands decoded, whether a tick is in
  progress, and what a peek returned.
* `RowPool`: `image[k]` is the history of row k. A claim compares the whole word, fork id
  included, and ids are taken modulo `ForkIds`, so the wrap of the 32-bit id is part of the
  model.
* `HostAudio`: the lock makes a critical section one action; between two of them the worker
  calls the device, and any call may fail. Frames are numbered, so that order, loss and
  repetition show.
* `Presenter`: the GPU, the copy to the mailbox and the copy out of it go row by row, and a row
  holds the number of the copy that wrote it. Window creation, growth of any of the three
  buffers and the posting of a message may fail; `lost` records the newest copy such a failure
  stopped. `Screen` numbers copies; a torn frame maps to none.

**The resident renderer** (`Resident`). An action is one call of `gx_render.h`: a primitive, a
copy to the frame buffer in memory or to a texture, a palette load, a fence, a peek, a guest
read or write, a save. Every submission waits for its fence (`resident_submit_async` has no
caller), so the GPU's part of it is one step. The record `vk` holds `s_vk` and the software
planes. `due` is a history: what the frame buffer and memory are once all that is recorded has
run, and the mapping to `Renderer` takes the abstract ones from it; what the guest reads must
come from it. A content is a checksum that tells apart painting once more, once less or in
another order. The guest obeys the rule the code relies on: it waits for a fence before it
touches what a copy writes.

**The console** (`Console`). Everything here runs on the CPU thread, except the GX worker's PE
signals and page reports, and one action is one register access, one tick of a device, one block
boundary or one call-back, in any order. The guest drives the devices in its `program`; the
others stay as at power-on. Histories (`acked`, `sincePoll`, `heard`, `unread`, `interrupted`,
`owed`) record what a property compares with. The process may end at any point, in the middle of
a save too, and boot reads what the files hold. The guest follows the programming rules the
console's own software does where the code has no answer to another: it lets a FIFO overflow
interrupt stop it, and its handlers store SRR0 and SRR1 before they let interrupts in.
`NeverStale` excuses the pages it owes an `icbi` for.

## 3. What is checked

| run | states | shows |
|---|---|---|
| `dsp_worker` | 224,802 | exclusion on the registers, no grant slept through, every grant executed, `DspBudget` implemented: each granted cycle handed to the core once and before the guest looks, the interrupt latched once |
| `gx_pipe` | 435,546 | worker and CPU never in the GX state together, scanner and decoder agree, the carry never overflows, no wake missed, `GxConsumer` implemented; every wait and the shutdown end, what is pushed is decoded; the same with the former resume gate (`GCN_GX_PIPE_UNSAFE_RESUME`), under which the carry may overflow and the fallback takes over |
| `row_pool` | 627,116 | the job is frozen under its workers, no wake missed, the join ends, `SerialScan` implemented |
| `host_audio` | 17,496 | frames in order, cushion before start, no endless sleep on a full ring, stop completes |
| `presenter` | 139,657 | `Screen` implemented: whole copies, newest last, the last finished frame arrives or was given up, a closed window ends the run; never two messages queued |
| `resident` | 129,760 | `Renderer` implemented by the GPU path with its caches, its copies and its changes to software and back |
| `console` | 776,462 | see the next table |
| `dsp_missed_drain_wake`, `dsp_retired_before_delete`, `resident_snapshot`, `reports_kept`, `decrementer_kept` | violation | see below |

The console's properties, in the words of the devices:

| property | says |
|---|---|
| `LinesAgree` | INTSR shows each device's line, but for causes the guest cleared since the device last pushed |
| `DiOwnDisc` | what a read lands is of the disc it was asked of; the drive is ready only for a disc whose ID was read; TSTART promises a completion, or a reset dropped the command |
| `PolledEveryFrame` | the controllers are polled in every frame, however the guest changes periods and field lengths |
| `AiOnTime` | the sample interrupt fires in the tick that passes its time, across the counter's wrap |
| `AidInBuffer` | the audio DMA plays inside the buffer it was loaded with |
| `FifoExact` | what is consumed is what was stored, each burst once and in order; distance and pointers agree |
| `NeverStale`, `MissesTrue` | no translation runs for other bytes than its own unless the guest owes an `icbi`; a miss is named by the checksum of the page's bytes (a copy by the GX worker excepted, see below) |
| `ResumesInterrupted`, `TakenAtBoundary` | handlers return to what was interrupted, at any nesting; a block runs with interrupts enabled only if none was waiting at the boundary before it |
| `TimeKept`, `AlarmsKept` | the time base and the devices' clock stay together; a decrementer alarm is pending until taken or withdrawn |
| `SurvivesRestart` | settings and card outlive the process, unless it ended inside a save or a save failed |

The violations are disagreements between what a comment or document promises and what the code
does:

1. **A drain may sleep through its wake** (`dsp.c:87-93` argues that this is impossible). It is
   for the CPU's wake of the worker (`NoMissedGrantWake`, proved), not for the worker's wake of
   the CPU: the release store of `consumed` (117) may still be in the store buffer when the
   worker loads `waiting` (118). A sequentially consistent store, as in `gx.c:1015`, removes it.
2. **The core may be deleted before its worker is retired.** `quit` is not the word the worker
   sleeps on, so the wake of `gcn_dsp_free` is lost on a worker about to sleep; the join times
   out and the core goes. `gx.c` bumps its epoch in the same place, and `WaitsEnd` holds there.
3. **A snapshot may miss the frame buffer on the GPU.** `gcn_snapshot_save` lands the batch, but
   nothing downloads the frame buffer, so the software planes it saves are those of the last
   fallback. (It does not drain the DSP worker either, although `snapshot.c:321-322` says so: it
   may copy a running core.)
4. **A page report may be lost.** `native_code.c` sets and clears bits of a byte shared by eight
   pages with plain read-modify-writes from two threads; `pi.c` made the same thing atomic for
   INTSR.
5. **A pending decrementer does not survive a snapshot**: it is in a static that the snapshot
   does not write, and the next one is a full turn of the counter away.

Seen while modelling, and not a run: the generation of `gx.c:1546-1551` keeps an unfinished
frame off the screen only until the guest starts the next one; copies made before VI looks are
shown, whole but early. A frame the window could not take (`vi.c:190` counts it as presented) is
not offered again. `host_window.c` has no handler for a lost focus, so a key held at that moment
stays pressed in the game. `cp.c:192-199` raises the overflow line one burst late.
`overlay_module.h:19-21` says a variant is recomputed after a write into its page; only `icbi`
does that. `gx.c:348-350` describes an order of the PE signal that the worker does not keep; the
atomics of `pi.c` make it harmless.

### Where the threaded DSP differs from the default one

`DspBudget` is a contract on cycles and on the interrupt. It is not the claim of `dsp.c:62-63`
that at every observation point "the guest therefore sees exactly the synchronous state": that
holds of the cycles granted, not of the core. Three things differ, all of them allowed by the
contract, and open in it:

* **Calls.** The default build makes one call of `dsp_lle_update` at each cap; the worker makes
  one for all the grants it finds (`dsp.c:98, 115`). `RunCycles` steps the core 8 times per call
  with no look at the idle loop and may then give up the rest of the budget
  (`DSPInterpreter.cpp:170-218`), so two grants in one call may execute 8 instructions of a
  waiting core where two calls execute 16, and such a loop may be counting
  (`dsp.c:312-315`). So "the same total executes regardless of where flushes land" (270-271) is
  true of budgets only.
* **HALT.** The core may halt itself in a call (`DSPIntBranch.cpp:127-131`). Where a merged call
  does so, `fed` counts the whole call, while the default build would have skipped the second.
* **The interrupt.** It is raised when the worker runs, and latched when the CPU next comes by a
  latch (`dsp.c:72-76, 125-127` say so). Also, `dsp.c:294-299` calls it an invariant that a step
  of the core is followed at once by the latch; with the worker, an access behind a drain that
  had no residue to run (a declined lazy flush, or less than a cycle owed) reads the mailbox
  before the latch. A read of the CSR latches first (465).

What is shown is that no request is lost or latched twice, that the guest never looks at a core
with granted cycles outstanding, and that cycles are dropped only where a halted core with
nothing due would skip them.

### Bounds

* `dsp_worker`: `Ratio = 3` (6 in the code), `BatchCap = 6` (4096), `FlushMin = 2`, `Costs = {2,
  5}`, `MaxCharged = 12`. Residues of 0, 1 and 2 occur; a cap that one block does not reach and
  two may; a lazy flush declined, empty, and run; up to two grants outstanding.
* `gx_pipe`: chunks of 2 cells (32 bytes), sizable commands up to 4 cells, so spanning three
  chunks as the 69-byte maximum does; ring of 10, staging of 8, carry of 6, 3 chunks to a tick.
  The proportions keep the code's inequalities: the carry holds a partial command and a chunk,
  the ring wraps, one primitive outgrows the carry, another staging. The streams cover every
  order of a load, a fence and a primitive.
* `row_pool`: two workers and the main thread, three triangles of at most two rows, two fork
  ids: a worker suspended in the first fork meets a word of the third with its id.
* `host_audio`: ring of 3 frames, cushion of 2, batch of 2, device of 2, seven frames. Neither a
  batch nor a packet divides the ring, so both copies are split; the ring fills with half a
  batch left over; it is gone round twice.
* `presenter`: two rows, which is enough to tear; four copies and three finished frames, so that
  a third frame meets a mailbox being read, a message of the first still queued, and a bit
  cleared after a failure.
* `resident`: two cache entries for textures and one for palettes, an arena of 3 bytes for
  textures of 2, 2 and 1 (versions do not all fit together, so the epoch rolls in the middle of
  a triangle), a draw arena of 4, two pending copies to memory and one to a texture (both rings
  fill), `Attempts = 8` as in the code. Five scenes of four
  or five operations each: draws against writes to the textures; the same with palettes; draws
  with copies and peeks; draws with software fallbacks; fallbacks with copies and saves.
* `console`: eleven programs, each one or two devices with what they share (the PI's
  acknowledge, a resume in another process). Devices share only INTSR, so a pair shows what two
  can do to each other. Two disc commands, one disc; a card of two sectors and one settings
  word; fields of 2 or 3 half lines; a counter modulo 3; buffers of up to 2 blocks; a ring of 3
  bursts, 2 stores to a burst; two pages, of which one may hold an overlay, with three contents;
  one handler nested in another; a time base modulo 2 and a decrementer modulo 4, so that wraps
  happen.

The 64-bit counters of the code do not overflow; the 32-bit epochs are unbounded in the models
(a worker would have to sleep through exactly 2^32 bumps). `MaxCharged`, `MaxTriangles`,
`MaxFrames`, `MaxCopies`, `MaxCommands`, the finite streams and the scenes' lengths keep the
state spaces finite. `CHECK_DEADLOCK FALSE` is set where a run ends: with the threads joined,
the window closed, or the guest's budget spent.

### Fairness

* `DspWorker`: weak fairness of the worker's steps, of the store becoming visible, and of the
  CPU thread's steps inside a call. The guest need never make a call.
* `GxPipe`: weak fairness of each thread. The 100 ms limit on the CPU's sleep is an action
  without fairness: progress does not rest on it.
* `RowPool`: weak fairness of the main thread and of a worker that owns a row. A worker that
  owns none need never run again.
* `HostAudio`: weak fairness of both threads inside a call and of a started device. A call of
  the device may fail but returns; neither spurious wakes nor the five-second limits are relied
  on. What the code does when the join's limit runs out is listed as a hazard; the model ends
  there.
* `Presenter`: weak fairness of the CPU and window threads and of a copy the GPU has begun,
  strong fairness of the dispatch loop's look at the quit flag, which it comes by again and
  again. The copies of a run are finitely many; with a GPU that never leaves the frame-buffer
  lock alone the field boundary could wait for ever, as an SRW lock is not a fair one.
* `Resident` and `Console` state safety only: what must happen in them happens in a tick, and
  the properties say in which one.

The host schedules every runnable thread eventually, which justifies each of these; thread
priorities make it no stronger.

## 4. What is proved

For every value of the constants that satisfies the named assumptions of the modules.

* **`DspWorker`.** `IInv` is `TypeOK` and: the counters are ordered `consumed <= wconsumed <=
  granted`, with the buffered store between (`CounterOrder`); a running worker has something to
  run (`RunsSomething`); after a drain and until the next grant `consumed = granted`
  (`DrainedIsIdle`); the parked flag is set wherever the worker may sleep (`ParkedIsSet`);
  `NoMissedGrantWake`; and each place of the CPU belongs to the call it is in (`OpOfPc`).
  Exclusion follows: a running worker has `wconsumed < granted`, a drained CPU has them equal.
  Neither half is inductive alone. From it: `Typing`, `Exclusion`, `GrantWake`, and
  `Refinement`, that every step is a step of `DspBudget` or a stutter. The worker's call is its
  `Run` of all the worker has seen granted, whatever the core does in it.
* **`RowPool`.** `IInv` adds: rows owned are pairwise distinct and below the next one
  (`ClaimsHold`); in a fork, rows counted plus rows owned are the rows claimed, and a row is
  marked exactly if it is neither unclaimed nor owned and unscanned (`ForkHolds`); outside a
  fork nobody owns a row and the old word has none left (`QuietHolds`). The middle part is what
  makes the join's count mean that nobody is still in the job. From it: `Typing`, `Frozen`,
  `Wake`, `Refinement`. The proof holds for a single fork id too: a claim that succeeds on a
  repeated word is a valid claim on the present one.
* **`GxPipe`.** `PipeInv` places everything on one line, the stream. The staging buffer is the
  stretch from the last command decoded to the last cell pulled (`BufRight`), the ring the one
  from there to the last cell pushed (`RingRight`), the carry the one from the last whole command
  scanned to the last cell scanned (`CarryRight`): three adjoining `Segment`s. `Control` says
  where the threads may be meanwhile: the offsets are ordered and the worker is behind with its
  report exactly while it has something in hand (`OffsetsOrdered`); each wait has the target and
  the way back that belong together (`WaitRight`); after a drain, and in sync mode, nothing is
  outstanding (`DrainedIsIdle`); who sleeps says so, and if what it waits for has come, another
  thread is on its way to wake it (`FlagsRight`, `EpochRight`, `AnswerComes`). `SizableOnly`: a
  worker is never given the beginning of a primitive, which is why it stops at the scanner's
  place. `FenceDue` and `FenceMet`: a tick ends with every fence of its bytes decoded. That the
  scanner's and the worker's own loops over their bytes stop there is an induction over the
  cells. From it: `Typing`, `Exclusion`, `Agreement`, `Unpoisoned` (with the gate of the present
  code; `unsafe` is excused, as in the property), `Wakes`, and `Refinement`, that every step is
  a step of `GxConsumer` or a stutter. The hypotheses are the inequalities of the code's sizes
  (`CapAssumption`: ring, staging buffer and carry each hold a chunk on top of the longest
  sizable command less one cell) and that a stream is a sequence of commands that fills whole
  chunks (`StreamsAssumption`).
* **`HostAudio`.** `AudioInv` numbers the frames: the first `Len(heard)` are with the device
  (`HeardRight`), the next in the packet (`PacketRight`), the rest in the ring from the place that
  is read next (`RingRight`), and together they are what was received from the guest
  (`AllThere`). The write index is the read index plus the count, once round at most
  (`Types`): that is what makes both copies, each split where it passes the end of the ring, put
  a frame where it belongs for any sizes of ring, batch and packet. `StartRight` says what is
  true of a device before and after its start. From it: `Typing`, `Order`, `Cushion`.
* **`Presenter`.** `PresenterInv`: a writer and a reader never hold a lock together
  (`LocksHold`); each buffer is one whole copy but for the rows that the copy under way has done
  (`XfbRight`, `MailRight`, `OutRight`, `RgbRight`, `ScreenRight`), and no row is newer
  downstream (`InStep`); at most one of queue, window and CPU thread has a message, and then the
  bit is set (`OneMessage`). From it: `Typing`, and `Refinement`, that the run begins as
  `Screen` does and every step is one of its steps or a stutter. Screen's liveness is not part
  of the theorem.
* **`Resident`.** A state of the backend stands for the frame buffer and the memory there will be
  when everything recorded has run and landed (`Present`, `TotalMemory`); `ResidentInv` says that
  these are what is due, and `Good`, why they stay so. A packet that waits points below the top of
  its arena (`WaitsGood`); an entry that is current and clean finds its bytes where it says, and
  no two current entries share a place (`EntryGood`, `KindGood`); so a version staged above the
  top, or an arena begun again when nothing waits, changes nothing recorded. Within a draw, each
  area of the primitive has an entry of its own that holds memory's bytes until the last
  triangle (`AllHold`): the entry used longest ago is none of them as long as a draw's areas fit
  the cache together (`CacheAssumption`), which is what the 32 entries and 8 texture units of the
  code give. From it: `Typing` and `Refinement`. Submission, emission, synchronisation, uploads
  and new epochs, in whichever call they come, change neither; a primitive paints once per
  triangle, from the bytes memory holds when it is given. Triangles, commands, copies and
  bindings are folds: the proof first shows that a fold goes along a trace of its steps
  (`FoldExists`, `FoldTrace`), by induction over sets of places, and then what each step keeps.
  Nothing is assumed of the bytes, so any content may be in any place; that the checksum tells
  contents apart is what makes the runs see a difference.
* **`Console`.** Each theorem rests on an invariant of one component, which the lemmas of
  `Component_proofs` show to be kept by that component's own actions;
  `Console_proofs` shows that every other action leaves its variables alone, and combines them.
  * `ConsoleTyping` from `Typed`, the conjunction of one type invariant per device; INTSR and
    its histories have the devices' causes as domain (`CausesOnly`), whichever device pushes.
    What the types depend on: the guest has a longest field and a longest poll period to choose
    from, and a budget of disc commands.
  * `ConsoleNeverStale` from `CodeInv`: the page fence is right about each page it lets through
    (`FenceRight`), a chunk taken as verified holds the title's bytes or is owed an `icbi`
    (`ChunkRight`), likewise an overlay (`ResidentRight`).
  * `ConsoleAidInBuffer` from `AidInv`: the types, and the property itself, which is inductive
    with them.
  * `ConsoleResumesInterrupted` from `ReturnInv`: interrupts stay out while a handler still
    needs SRR0 and SRR1 (`HeldClosed`). `ConsoleTimeKept` from `TimeInv`: the two clocks are
    apart by a multiple of the time base's turn. `ConsoleTakenAtBoundary` from `FlagInv`: an
    exception taken and not entered yet keeps interrupts out.
  * `ConsoleDiOwnDisc` from `DiInv`: the registers keep their types and the cover is open
    exactly when there is no disc (`CoverRight`).
  * `ConsoleSurvivesRestart` from `ExiInv`: the selection in the card's CSR is the one that was
    begun (`SelectionBegun`); the settings are in their file unless a save is under way or due
    (`SettingsKept`), and so is the card unless it is selected (`Kept`) or changed (`Clean`).
    For a card in channel 0.
  * `ConsoleLinesAgree` from `LinesInv`, the one that is about all devices at once. Every device
    pushes its own cause and no other (`Only`), so each part (`DiPart` to `ExiPart`) only needs
    the device's own steps: each ends with a push of the level it has just worked out, or leaves
    the level as it was. The pixel engine pushes two lines one after the other from the worker's
    thread; `PePart` says what holds in between, and that the guest is kept out meanwhile. The
    hypothesis `RestartsAlone` is about the model: a restart resets the EXI and the word, so a
    program with restarts drives nothing else.
  * `ConsoleFifoExact` from `FifoInv`: the overflow line rises one burst after its watermark,
    and there is room for that one (`RoomLeft`); a line that is up is in the word (`CpSeen`),
    which is what the guest looks at. `FifoTrusted` says that the guest does not acknowledge the
    interrupt it relies on.
  * `ConsoleAiOnTime` from `AiInv`: so many samples from now the counter is where the guest asked
    for (`AiAhead`). `ConsolePolledEveryFrame` from `BeamInv`, which counts the half lines since
    the last poll against the beam, for fields longer than the poll delay (`FieldsPolled`; a
    shorter field is over before its first poll). `ConsoleMissesTrue` from `MemoInv`: what a miss
    takes is the set of stale bits that is still there when it stores.

The recursive definitions that proofs depend on (`Ends`, `Scan`, the decoders' loops) are
recursive functions. Each is shown to satisfy its equation, and what it computes follows by
induction with a set of numbers in the place of the predicate (`SetInduction`, from the least
element of the set).

Only model-checked: all liveness (`GrantsExecuted`, `WaitsEnd`, `PushedIsDecoded`, `JoinEnds`,
`CallsEnd`, the liveness of `Screen`), which rests on fairness and ENABLED. What the checksum of
`GxImage` tells apart is by evaluation too. The refinements proved are those of the initial
states and the next-state relations; the abstract specifications of `DspWorker`, `GxPipe`,
`RowPool` and `Resident` have no fairness, so for them that is the whole property.

## 5. Running

    tlc -config ConsoleMC.cfg ConsoleMC        # likewise the other modules named ...MC
    tlc -config ConsoleReportsKept.cfg ConsoleMC
    tlapm Console_proofs.tla                   # likewise the other modules named ..._proofs

`ConsoleMC` and `GxPipeMC` take about two minutes with two workers, the others one or less. With
two threads the proofs of `Resident_proofs` take a quarter of an hour, those of `GxPipe_proofs`
and `Component_proofs` about six minutes each, those of the other modules one or two.

## 6. Plan

Order: what matters most first. Done: 1 to 11.

1. DSP worker: model, the contract on its cycles, proofs.
2. GX pipeline: model, abstract consumer, proofs.
3. Raster row pool: model, serial scan, proofs.
4. Audio output, with proofs.
5. PI with DI behind it.
6. EXI with the memory card and the two files; the process ending in a save.
7. CP, GP and PE: pointers, distance, watermarks, breakpoint, signals.
8. AID and ARAM DMA with the CSR; AI, SI and VI.
9. Which code runs for a page; exceptions and time. The console composed of 5 to 9, with proofs.
10. The resident renderer against an abstract one, with proofs.
11. The way of a frame to the window against an abstract screen, with proofs.

Left: the keyboard's pad state, which the window thread writes field by field while the CPU
thread polls it; display lists and the guest memory the GX worker reads late.

## 7. Not modelled

* Arithmetic: the rasteriser's pixel pipeline, the interpreter's instructions, the DSP core's
  instructions, shaders, YUV conversion. This is most of the source (`gx_raster.c`, `emitter.c`,
  `decoder.c`, `cpu.c`, `interpreter.c`, the shader tables of `gx_vulkan.c`). Its references are
  outside the repository, its difficulty is in data, and a model of it would repeat the program.
* The recompiler but for the stores it inlines, the containers, the oracle and the tools:
  sequential batch programs over large inputs.
* Platform calls, the debug server's sockets and commands, event rings, statistics, dumps and
  traces; boot and shutdown order but for the parts that start and stop the threads above.
* Within the modelled parts: the DSP's unbatched legacy path; the pipeline's lockstep probe, a
  FIFO with GP reads off or its read pointer outside memory, display lists; the resident
  renderer's shadow and co-run modes and device errors (they end the program); the RTC, the UART
  and the font ROM of EXI, the directory operations of a card; the bytes a controller sends; the
  format of a snapshot; CP's breakpoint interrupt, which the code never raises; memory
  reservations, the locked cache and the FPU. `PROJECT.json` says so of each component.
