------------------------------- MODULE GxPipe -------------------------------
(***************************************************************************)
(* The GX pipeline of runtime/src/gx.c. The CPU thread's gcn_gx_tick       *)
(* fetches chunks from the FIFO and pushes them into a ring; a worker      *)
(* pulls them into its staging buffer and decodes them. A scanner on the   *)
(* CPU side sizes the commands as they go by, so that the tick can wait    *)
(* for the worker to pass a PE command. At a primitive, which it cannot    *)
(* size, it drains the worker, takes the staging buffer over and decodes   *)
(* on the CPU ("sync mode"), until what is left in the staging buffer fits *)
(* the scanner's carry again.                                              *)
(*                                                                         *)
(* One action per access to the shared words; all of their stores that are *)
(* followed by a load that matters are sequentially consistent in the code *)
(* (SEQ_CST stores and locked read-modify-writes), and so is the model.    *)
(* Offsets count cells from the first chunk pushed.                        *)
(***************************************************************************)
EXTENDS GxStream

CONSTANTS
    Budget,       \* GCN_GX_DRAIN_BYTES_PER_TICK, in chunks
    RingCap,      \* GX_PIPE_CAP
    BufCap,       \* GX_BUF_CAP, of the staging buffer
    CarryCap,     \* sizeof s_scan_carry
    UnsafeStreams \* streams also played with GCN_GX_PIPE_UNSAFE_RESUME set

ASSUME BudgetAssumption   == Budget \in Nat \ {0}
ASSUME UnsafeAssumption   == UnsafeStreams \subseteq Streams
\* The ring holds whole chunks and a chunk past a command one cell short; so
\* does the staging buffer, and the carry too.
ASSUME CapAssumption ==
    /\ RingCap % Chunk = 0
    /\ \A cap \in {RingCap, BufCap, CarryCap} :
           cap \in Nat /\ cap >= MaxSizable - 1 + Chunk

VARIABLES
    stream, taken,                      \* the FIFO: its contents, the chunks consumed
    unsafe,                             \* the former resume gate is chosen
    produced, retired, doneUpto,        \* s_pipe_produced, _retired, _done_upto
    parked, waiting, epoch, quit, failed,   \* the other shared words
    ring,                               \* s_pipe_ring: the chunk in each slot
    buf,                                \* gx->buf: the staging buffer's cells
    decoded,                            \* the commands decoded; 0 for garbage
    cpc, left, fence, wait, seen,       \* the CPU thread
    carry, scanPos, poisoned, syncmode, \* its scanner and mode
    wpc, wproduced, wepoch, pulled      \* the worker

fifo    == <<stream, taken, unsafe>>
offsets == <<produced, retired, doneUpto>>
flags   == <<parked, waiting, epoch, quit, failed>>
gx      == <<buf, decoded>>
cpu     == <<cpc, left, fence, wait, seen>>
scanner == <<carry, scanPos, poisoned, syncmode>>
worker  == <<wpc, wproduced, wepoch, pulled>>
vars    == <<fifo, offsets, flags, ring, gx, cpu, scanner, worker>>

WaitPcs   == {"wait", "waitset", "waitcall", "asleep", "waitunset"}
CpuPcs    == WaitPcs \cup
             {"guest", "scan", "fill", "publish", "bump", "checkparked", "wake", "consume",
              "entersync", "sync", "syncrun", "resume", "peek",
              "quit", "quitbump", "quitwake", "join", "done", "aborted"}
WorkerPcs == {"load", "quitcheck", "epochload", "spin", "spinquit", "park", "parkwait",
              "asleep", "unpark", "pull", "run", "retire", "doneupto", "check", "wake",
              "exited"}

NumSlots == RingCap \div Chunk
Slot(offset) == (offset \div Chunk) % NumSlots

\* What a CPU wait is for: the word it watches, the value it wants, where it
\* returns to, and `expect`.
Wait(on, target, ret) == [on |-> on, target |-> target, ret |-> ret, expect |-> 0]
Watched == IF wait.on = "retired" THEN retired ELSE doneUpto

Init ==
    /\ stream \in Streams /\ taken = 0
    /\ unsafe \in BOOLEAN /\ (unsafe => stream \in UnsafeStreams)
    /\ produced = 0 /\ retired = 0 /\ doneUpto = 0
    /\ parked = FALSE /\ waiting = FALSE /\ epoch = 0 /\ quit = FALSE /\ failed = FALSE
    /\ ring = [slot \in 0..(NumSlots - 1) |-> 0]
    /\ buf = <<>> /\ decoded = <<>>
    /\ cpc = "guest" /\ left = 0 /\ fence = 0 /\ seen = 0
    /\ wait = Wait("retired", 0, "guest")
    /\ carry = <<>> /\ scanPos = 0 /\ poisoned = FALSE /\ syncmode = FALSE
    /\ wpc = "load" /\ wproduced = 0 /\ wepoch = 0 /\ pulled = 0

-----------------------------------------------------------------------------
(* Commands in a buffer of cells. *)

Cell(p) == Layout[stream][p]

\* What a decoder takes for the next command at cell k of the cells c: bytes that
\* do not begin a command are unknown ones, a byte each.
SizeAt(c, k) == IF Cell(c[k]).offset = 0 THEN Cell(c[k]).size ELSE 1
KindAt(c, k) == IF Cell(c[k]).offset = 0 THEN Cell(c[k]).kind ELSE "plain"
Holds(c, k)  == k + SizeAt(c, k) - 1 <= Len(c)

\* The command it thereby executes, or 0 for garbage.
CmdAt(c, k) ==
    IF Cell(c[k]).offset = 0 /\ \A j \in 1..(SizeAt(c, k) - 1) : c[k + j] = c[k] + j
    THEN Cell(c[k]).cmd
    ELSE 0

\* Mutant: a fence is recorded at its start.
ScanFenceStart(c) ==
    LET Stop(k, prim) == [off |-> k - 1, fence |-> 0, prim |-> prim]
        from[k \in 1..(Len(c) + 1)] ==
            IF k > Len(c) THEN Stop(k, FALSE)
            ELSE IF KindAt(c, k) = "prim" THEN Stop(k, TRUE)
            ELSE IF ~ Holds(c, k) THEN Stop(k, FALSE)
            ELSE LET rest == from[k + SizeAt(c, k)] IN
                 IF KindAt(c, k) = "fence" /\ rest.fence = 0
                 THEN [rest EXCEPT !.fence = k - 1]
                 ELSE rest
    IN  from[1]

\* gx_scan_chunk on the carry c: how much of it is whole commands, where the last
\* fence among them ends (0 if none), whether a primitive stopped the scan.
Scan(c) ==
    LET Stop(k, prim) == [off |-> k - 1, fence |-> 0, prim |-> prim]
        from[k \in 1..(Len(c) + 1)] ==
            IF k > Len(c) THEN Stop(k, FALSE)
            ELSE IF KindAt(c, k) = "prim" THEN Stop(k, TRUE)
            ELSE IF ~ Holds(c, k) THEN Stop(k, FALSE)
            ELSE LET rest == from[k + SizeAt(c, k)] IN
                 IF KindAt(c, k) = "fence" /\ rest.fence = 0
                 THEN [rest EXCEPT !.fence = k + SizeAt(c, k) - 1]
                 ELSE rest
    IN  from[1]

\* One command of gx_run on the staging buffer.
CanDecode == buf # <<>> /\ Holds(buf, 1)

Decode ==
    /\ decoded' = Append(decoded, CmdAt(buf, 1))
    /\ buf' = SubSeq(buf, SizeAt(buf, 1) + 1, Len(buf))

-----------------------------------------------------------------------------
(* gx_pipe_worker. *)

WorkerAt(from, to) == wpc = from /\ wpc' = to

\* A worker step that only reads the shared words.
WorkerLooks == UNCHANGED <<fifo, offsets, flags, ring, gx, cpu, scanner, pulled>>

W_Load ==
    /\ wpc = "load"
    /\ wproduced' = produced
    /\ wpc' = IF produced = pulled THEN "quitcheck" ELSE "pull"
    /\ UNCHANGED wepoch /\ WorkerLooks

W_QuitCheck ==
    /\ wpc = "quitcheck"
    /\ wpc' = IF quit THEN "exited" ELSE "epochload"
    /\ UNCHANGED <<wproduced, wepoch>> /\ WorkerLooks

W_EpochLoad ==
    /\ WorkerAt("epochload", "spin")
    /\ wepoch' = epoch
    /\ UNCHANGED wproduced /\ WorkerLooks

W_Spin ==
    /\ wpc = "spin"
    /\ wpc' = IF produced # pulled THEN "load" ELSE "spinquit"
    /\ UNCHANGED <<wproduced, wepoch>> /\ WorkerLooks

\* Nothing to do: spin once more, or after enough spins park.
W_SpinQuit ==
    /\ wpc = "spinquit"
    /\ IF quit THEN wpc' = "load" ELSE wpc' \in {"spin", "park"}
    /\ UNCHANGED <<wproduced, wepoch>> /\ WorkerLooks

SetParked(value) ==
    /\ parked' = value
    /\ UNCHANGED <<fifo, offsets, waiting, epoch, quit, failed, ring, gx, cpu, scanner,
                   wproduced, wepoch, pulled>>

W_Park == WorkerAt("park", "parkwait") /\ SetParked(TRUE)

\* Mutant: waits for whatever the epoch is by now.
W_ParkWaitFresh ==
    /\ WorkerAt("parkwait", "asleep")
    /\ UNCHANGED <<wproduced, wepoch>> /\ WorkerLooks

\* WaitOnAddress(&s_pipe_epoch, expect) sleeps only if it still holds expect.
W_ParkWait ==
    /\ wpc = "parkwait"
    /\ wpc' = IF epoch = wepoch THEN "asleep" ELSE "unpark"
    /\ UNCHANGED <<wproduced, wepoch>> /\ WorkerLooks

\* WaitOnAddress may return without a wake.
W_SpuriousWake ==
    /\ WorkerAt("asleep", "unpark")
    /\ UNCHANGED <<wproduced, wepoch>> /\ WorkerLooks

W_Unpark == WorkerAt("unpark", "epochload") /\ SetParked(FALSE)

\* Mutant: pulls whatever is published.
TakeNoRoom == Min({(wproduced - pulled) \div Chunk, NumSlots - Slot(pulled)})

\* What a pull takes, in chunks: what is published, up to the end of the ring
\* and to the room in the staging buffer.
Take ==
    LET avail == (wproduced - pulled) \div Chunk
        cont  == NumSlots - Slot(pulled)
        room  == (BufCap - Len(buf)) \div Chunk
    IN  Min({avail, cont, room})

\* The CPU thread, if asleep, is woken.
WakeCpu == cpc' = IF cpc = "asleep" THEN "waitunset" ELSE cpc

PulledCells(n) ==
    [j \in 1..(n * Chunk) |->
        ChunkCells(ring[Slot(pulled) + ((j - 1) \div Chunk)])[((j - 1) % Chunk) + 1]]

\* With no room for a chunk the worker fails and ends.
W_Pull ==
    /\ wpc = "pull"
    /\ IF Take = 0
       THEN /\ failed' = TRUE
            /\ wpc' = "exited"
            /\ WakeCpu
            /\ UNCHANGED <<buf, pulled>>
       ELSE /\ buf' = buf \o PulledCells(Take)
            /\ pulled' = pulled + Take * Chunk
            /\ wpc' = "run"
            /\ UNCHANGED <<failed, cpc>>
    /\ UNCHANGED <<fifo, offsets, parked, waiting, epoch, quit, ring, decoded, left, fence,
                   wait, seen, scanner, wproduced, wepoch>>

\* gx_run, one command a step: the GX state, and the PE and PI for a fence.
W_Decode ==
    /\ wpc = "run" /\ CanDecode
    /\ Decode
    /\ UNCHANGED <<fifo, offsets, flags, ring, cpu, scanner, worker>>

W_RunEnd ==
    /\ WorkerAt("run", "retire") /\ ~ CanDecode
    /\ UNCHANGED <<wproduced, wepoch>> /\ WorkerLooks

W_Retire ==
    /\ WorkerAt("retire", "doneupto")
    /\ retired' = pulled - Len(buf)
    /\ UNCHANGED <<fifo, produced, doneUpto, flags, ring, gx, cpu, scanner, wproduced,
                   wepoch, pulled>>

W_DoneUpto ==
    /\ WorkerAt("doneupto", "check")
    /\ doneUpto' = pulled
    /\ UNCHANGED <<fifo, produced, retired, flags, ring, gx, cpu, scanner, wproduced,
                   wepoch, pulled>>

W_Check ==
    /\ wpc = "check"
    /\ wpc' = IF waiting THEN "wake" ELSE "load"
    /\ UNCHANGED <<wproduced, wepoch>> /\ WorkerLooks

W_Wake ==
    /\ WorkerAt("wake", "load")
    /\ WakeCpu
    /\ UNCHANGED <<fifo, offsets, flags, ring, gx, left, fence, wait, seen, scanner,
                   wproduced, wepoch, pulled>>

WorkerStep ==
    \/ W_Load \/ W_QuitCheck \/ W_EpochLoad \/ W_Spin \/ W_SpinQuit
    \/ W_Park \/ W_ParkWait \/ W_Unpark
    \/ W_Pull \/ W_Decode \/ W_RunEnd
    \/ W_Retire \/ W_DoneUpto \/ W_Check \/ W_Wake

-----------------------------------------------------------------------------
(* The CPU thread: waiting for the worker. *)

CpuAt(from, to) == cpc = from /\ cpc' = to

\* A CPU step that moves nothing but its program counter and its wait.
CpuOnly == UNCHANGED <<fifo, offsets, flags, ring, gx, left, fence, seen, scanner, worker>>

\* gx_pipe_wait_retired and gx_pipe_drain_worker.
BeginWait(on, target, ret) == cpc' = "wait" /\ wait' = Wait(on, target, ret)

\* Mutant: waits for every byte pushed to be retired, a partial command included.
BeginDrainRetired(ret) == BeginWait("retired", produced, ret)

\* Mutant: nothing is waited for.
BeginDrainSkipped(ret) == cpc' = ret /\ UNCHANGED wait

BeginDrain(ret) == BeginWait("done", produced, ret)

\* The wait's loop: a failed worker aborts the program, a word past the target
\* ends the wait, else spin or get ready to sleep.
C_Wait ==
    /\ cpc = "wait"
    /\ wait' = [wait EXCEPT !.expect = Watched]
    /\ IF failed THEN cpc' = "aborted"
       ELSE IF Watched >= wait.target THEN cpc' = wait.ret
       ELSE cpc' \in {"wait", "waitset"}
    /\ CpuOnly

SetWaiting(value) ==
    /\ waiting' = value
    /\ UNCHANGED <<fifo, offsets, parked, epoch, quit, failed, ring, gx, left, fence, wait,
                   seen, scanner, worker>>

C_WaitSet == CpuAt("waitset", "waitcall") /\ SetWaiting(TRUE)

C_WaitCall ==
    /\ cpc = "waitcall"
    /\ cpc' = IF Watched = wait.expect THEN "asleep" ELSE "waitunset"
    /\ UNCHANGED wait /\ CpuOnly

\* The 100 ms limit, or a wake nobody asked for.
C_WaitTimeout == CpuAt("asleep", "waitunset") /\ UNCHANGED wait /\ CpuOnly

C_WaitUnset == CpuAt("waitunset", "wait") /\ SetWaiting(FALSE)

-----------------------------------------------------------------------------
(* The CPU thread: gcn_gx_tick. *)

ChunksLeft == (SizeOf(stream) \div Chunk) - taken

\* What a tick may consume is settled when it begins: the CP registers the loop
\* looks at (distance, breakpoint) move with the CPU thread only. A failed
\* worker aborts the program.
C_Tick(n) ==
    /\ cpc = "guest"
    /\ n <= ChunksLeft
    /\ left' = n
    /\ cpc' = IF failed THEN "aborted"
              ELSE IF syncmode \/ poisoned THEN "sync" ELSE "scan"
    /\ UNCHANGED <<fifo, offsets, flags, ring, gx, fence, wait, seen, scanner, worker>>

AfterLoop == IF syncmode \/ poisoned THEN "sync" ELSE "guest"

\* The end of the pipeline loop: wait until the last fence pushed is retired.
C_LoopEnd ==
    /\ cpc = "scan"
    /\ left = 0 \/ syncmode \/ poisoned
    /\ fence' = 0
    /\ IF fence = 0
       THEN cpc' = AfterLoop /\ UNCHANGED wait
       ELSE BeginWait("retired", fence, AfterLoop)
    /\ UNCHANGED <<fifo, offsets, flags, ring, gx, left, seen, scanner, worker>>

\* gx_scan_chunk on the next chunk. A carry that overflows or a primitive makes
\* the tick drain and go on synchronously, with this chunk; otherwise the chunk
\* is pushed when the ring has room.
C_Scan ==
    /\ cpc = "scan" /\ left > 0 /\ ~ syncmode /\ ~ poisoned
    /\ LET cells == carry \o ChunkCells(taken + 1)
           scan  == Scan(cells)
       IN  IF Len(cells) > CarryCap
           THEN /\ poisoned' = TRUE
                /\ BeginDrain("entersync")
                /\ UNCHANGED <<carry, scanPos, fence>>
           ELSE /\ carry' = SubSeq(cells, scan.off + 1, Len(cells))
                /\ scanPos' = scanPos + scan.off
                /\ UNCHANGED poisoned
                /\ IF scan.prim
                   THEN BeginDrain("entersync") /\ UNCHANGED fence
                   ELSE /\ BeginWait("retired", produced + Chunk - RingCap, "fill")
                        /\ fence' = IF scan.fence = 0 THEN fence ELSE scanPos + scan.fence
    /\ UNCHANGED <<fifo, offsets, flags, ring, gx, left, seen, syncmode, worker>>

\* gx_pipe_push_chunk, once there is room.
C_Fill ==
    /\ CpuAt("fill", "publish")
    /\ ring' = [ring EXCEPT ![Slot(produced)] = taken + 1]
    /\ UNCHANGED <<fifo, offsets, flags, gx, left, fence, wait, seen, scanner, worker>>

C_Publish ==
    /\ CpuAt("publish", "bump")
    /\ produced' = produced + Chunk
    /\ UNCHANGED <<fifo, retired, doneUpto, flags, ring, gx, left, fence, wait, seen,
                   scanner, worker>>

\* Mutant: the epoch stays.
BumpEpochNone ==
    UNCHANGED <<fifo, offsets, flags, ring, gx, left, fence, wait, seen, scanner, worker>>

BumpEpoch ==
    /\ epoch' = epoch + 1
    /\ UNCHANGED <<fifo, offsets, parked, waiting, quit, failed, ring, gx, left, fence,
                   wait, seen, scanner, worker>>

C_Bump == CpuAt("bump", "checkparked") /\ BumpEpoch

C_CheckParked ==
    /\ cpc = "checkparked"
    /\ cpc' = IF parked THEN "wake" ELSE "consume"
    /\ UNCHANGED wait /\ CpuOnly

WakeWorker ==
    /\ wpc' = IF wpc = "asleep" THEN "unpark" ELSE wpc
    /\ UNCHANGED <<fifo, offsets, flags, ring, gx, left, fence, wait, seen, scanner,
                   wproduced, wepoch, pulled>>

C_Wake == CpuAt("wake", "consume") /\ WakeWorker

\* gcn_cp_gpu_consume_chunk: the CP's read pointer and its interrupts, at the PI.
C_Consume ==
    /\ CpuAt("consume", "scan")
    /\ taken' = taken + 1
    /\ left' = left - 1
    /\ UNCHANGED <<stream, unsafe, offsets, flags, ring, gx, fence, wait, seen, scanner, worker>>

C_EnterSync ==
    /\ CpuAt("entersync", "scan")
    /\ syncmode' = TRUE
    /\ UNCHANGED <<fifo, offsets, flags, ring, gx, left, fence, wait, seen, carry, scanPos,
                   poisoned, worker>>

-----------------------------------------------------------------------------
(* The CPU thread: the synchronous loop. *)

\* A chunk goes straight into the staging buffer, if there is room for it.
C_SyncFetch ==
    /\ CpuAt("sync", "syncrun")
    /\ left > 0 /\ Len(buf) + Chunk <= BufCap
    /\ buf' = buf \o ChunkCells(taken + 1)
    /\ taken' = taken + 1
    /\ left' = left - 1
    /\ UNCHANGED <<stream, unsafe, offsets, flags, ring, decoded, fence, wait, seen, scanner, worker>>

C_SyncDecode ==
    /\ cpc = "syncrun" /\ CanDecode
    /\ Decode
    /\ UNCHANGED <<fifo, offsets, flags, ring, cpu, scanner, worker>>

C_SyncRunEnd ==
    /\ CpuAt("syncrun", "sync") /\ ~ CanDecode
    /\ UNCHANGED wait /\ CpuOnly

C_SyncEnd ==
    /\ CpuAt("sync", "resume")
    /\ left = 0 \/ Len(buf) + Chunk > BufCap
    /\ left' = 0
    /\ UNCHANGED <<fifo, offsets, flags, ring, gx, fence, wait, seen, scanner, worker>>

\* Mutant: no room is kept for the next chunk.
CanResumeFits(n) == n <= CarryCap

\* gcn_gx_pipeline_carry_can_resume, or the gate it replaced.
CanResume(n) == n <= IF unsafe THEN CarryCap ELSE CarryCap - Chunk

\* Mutant: the scanner goes on with the carry it had.
C_ResumeStaleCarry ==
    /\ CpuAt("resume", "guest")
    /\ syncmode' = (syncmode /\ (poisoned \/ ~ CanResume(Len(buf))))
    /\ UNCHANGED <<fifo, offsets, flags, ring, gx, left, fence, wait, seen, carry, scanPos,
                   poisoned, worker>>

\* gx_pipe_try_resume: what is left in the staging buffer becomes the carry.
C_Resume ==
    /\ CpuAt("resume", "guest")
    /\ IF syncmode /\ ~ poisoned /\ CanResume(Len(buf))
       THEN /\ carry' = buf
            /\ scanPos' = produced - Len(buf)
            /\ syncmode' = FALSE
       ELSE UNCHANGED <<carry, scanPos, syncmode>>
    /\ UNCHANGED <<fifo, offsets, flags, ring, gx, left, fence, wait, seen, poisoned, worker>>

-----------------------------------------------------------------------------
(* The CPU thread: the drains outside of ticks. *)

\* gcn_gx_pipeline_drain before an EFB read of the guest, a FIFO reset, a
\* snapshot or a debugger's look at RAM or screen.
C_PeekDrain ==
    /\ cpc = "guest"
    /\ BeginDrain("peek")
    /\ UNCHANGED <<fifo, offsets, flags, ring, gx, left, fence, seen, scanner, worker>>

C_Peek ==
    /\ CpuAt("peek", "guest")
    /\ seen' = Len(decoded)
    /\ UNCHANGED <<fifo, offsets, flags, ring, gx, left, fence, wait, scanner, worker>>

\* gcn_gx_pipeline_shutdown, at the end of the run.
C_ShutdownDrain ==
    /\ cpc = "guest"
    /\ BeginDrain("quit")
    /\ UNCHANGED <<fifo, offsets, flags, ring, gx, left, fence, seen, scanner, worker>>

C_Quit ==
    /\ CpuAt("quit", "quitbump")
    /\ quit' = TRUE
    /\ UNCHANGED <<fifo, offsets, parked, waiting, epoch, failed, ring, gx, left, fence,
                   wait, seen, scanner, worker>>

C_QuitBump == CpuAt("quitbump", "quitwake") /\ BumpEpoch

C_QuitWake == CpuAt("quitwake", "join") /\ WakeWorker

C_Join == CpuAt("join", "done") /\ wpc = "exited" /\ UNCHANGED wait /\ CpuOnly

-----------------------------------------------------------------------------
\* What the guest, the debugger and the host decide to do next.
GuestStep == (\E n \in 0..Budget : C_Tick(n)) \/ C_PeekDrain \/ C_ShutdownDrain

\* What the CPU thread does on its own once it is inside gx.c.
CpuStep ==
    \/ C_Wait \/ C_WaitSet \/ C_WaitCall \/ C_WaitUnset
    \/ C_LoopEnd \/ C_Scan \/ C_Fill \/ C_Publish \/ C_Bump \/ C_CheckParked \/ C_Wake
    \/ C_Consume \/ C_EnterSync
    \/ C_SyncFetch \/ C_SyncDecode \/ C_SyncRunEnd \/ C_SyncEnd \/ C_Resume
    \/ C_Peek \/ C_Quit \/ C_QuitBump \/ C_QuitWake \/ C_Join

Next == WorkerStep \/ W_SpuriousWake \/ GuestStep \/ CpuStep \/ C_WaitTimeout

Spec == Init /\ [][Next]_vars

\* The host schedules both threads. Nothing rests on the guest, on spurious wakes
\* or on the 100 ms limit.
Fairness == WF_vars(WorkerStep) /\ WF_vars(CpuStep)

FairSpec == Spec /\ Fairness

-----------------------------------------------------------------------------
(* Properties. *)

TypeOK ==
    /\ stream \in Streams /\ taken \in Nat /\ taken * Chunk <= SizeOf(stream)
    /\ unsafe \in BOOLEAN
    /\ produced \in Nat /\ retired \in Int /\ doneUpto \in Nat
    /\ parked \in BOOLEAN /\ waiting \in BOOLEAN /\ epoch \in Nat
    /\ quit \in BOOLEAN /\ failed \in BOOLEAN
    /\ ring \in [0..(NumSlots - 1) -> Nat]
    /\ \A p \in Range(buf) \cup Range(carry) : p \in 1..SizeOf(stream)
    /\ Len(buf) <= BufCap /\ Len(carry) <= CarryCap
    /\ decoded \in Seq(Nat) /\ seen \in Nat
    /\ cpc \in CpuPcs /\ left \in 0..Budget /\ fence \in Nat
    /\ wait.on \in {"retired", "done"} /\ wait.target \in Int /\ wait.ret \in CpuPcs
    /\ scanPos \in Int /\ poisoned \in BOOLEAN /\ syncmode \in BOOLEAN
    /\ wpc \in WorkerPcs /\ wproduced \in Nat /\ wepoch \in Nat /\ pulled \in Nat

\* "After that the worker is parked-idle and the CPU owns all GX state race-free"
\* (gx.c, gx_pipe_enter_syncmode): the CPU thread never decodes, resumes or peeks
\* while the worker is at the staging buffer or the GX state.
GxExclusive ==
    ~ (wpc \in {"pull", "run", "retire"} /\ cpc \in {"sync", "syncrun", "resume", "peek"})

\* "Scanner carry == worker leftover by construction" (gx.c, the pipeline's design
\* comment): whenever the worker has caught up, the CPU's copy of the unfinished
\* command and the worker's are the same cells at the same offset.
ScannerAgrees ==
    /\ cpc \in {"guest", "scan"} /\ ~ syncmode /\ ~ poisoned
    /\ pulled = produced /\ wpc \notin {"pull", "run"}
    => carry = buf /\ scanPos = produced - Len(buf)

\* "Cannot happen" (gx_scan_chunk): the carry overflows and the pipeline is given
\* up for good, unless the former resume gate is chosen; nor does the worker ever run
\* out of room and abort the program.
NeverPoisoned == (poisoned => unsafe) /\ ~ failed

\* A side asleep although what it waits for has happened is about to be woken:
\* the checks of parked and waiting never leave out the wake that was needed.
NoMissedWake ==
    /\ wpc = "asleep" /\ (produced # pulled \/ quit) =>
           cpc \in {"bump", "checkparked", "wake", "quitbump", "quitwake"}
    /\ cpc = "asleep" /\ Watched >= wait.target => wpc \in {"doneupto", "check", "wake"}

\* No wait of the CPU thread, for room in the ring, a fence or a drain, lasts
\* forever: the partial command the worker may be left with is never waited for.
\* Nor does the join in gcn_gx_pipeline_shutdown: a worker told to quit ends.
Waiting == cpc \in WaitPcs
WaitsEnd ==
    /\ Waiting ~> ~ Waiting
    /\ cpc = "quit" ~> cpc = "done"

\* Every chunk pushed is decoded.
PushedIsDecoded == produced # doneUpto ~> produced = doneUpto

\* Where the CPU thread stands in the FIFO, counting a chunk as fetched from when
\* the worker may see it; and whether it is in a tick.
Fetched ==
    Chunk * (IF cpc \in {"bump", "checkparked", "wake", "consume"} THEN taken + 1 ELSE taken)
Ticking ==
    \/ cpc \in {"scan", "fill", "publish", "bump", "checkparked", "wake", "consume",
                "entersync", "sync", "syncrun", "resume"}
    \/ cpc \in WaitPcs /\ wait.ret \in {"fill", "entersync", "sync", "guest"}

Consumer == INSTANCE GxConsumer WITH fetched <- Fetched, ticking <- Ticking

\* What the guest is promised: order, completeness, "PE signal lands THIS tick,
\* like sync" (gcn_gx_tick), and "A CPU peek is an ordered GPU synchronization
\* point" (pe.c).
ImplementsConsumer == Consumer!Spec
=============================================================================
