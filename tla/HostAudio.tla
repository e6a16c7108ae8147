----------------------------- MODULE HostAudio -----------------------------
(***************************************************************************)
(* Audio output (runtime/src/host_audio.c): the CPU thread puts the frames *)
(* of the guest's audio DMA into batches and the batches into a ring; a    *)
(* worker opens the device, waits for a cushion, and then hands the device *)
(* a packet each time it signals that it has played something. The ring    *)
(* and its two condition variables are guarded by s_audio_lock: an action  *)
(* is one critical section, or one call of the device in between. Frames   *)
(* are numbered in the order in which the guest makes them.                *)
(***************************************************************************)
EXTENDS Naturals, Sequences

CONSTANTS
    RingFrames,     \* GCN_AUDIO_RING_FRAMES
    StartFrames,    \* GCN_AUDIO_START_FRAMES
    BatchFrames,    \* GCN_AUDIO_INPUT_BATCH_FRAMES
    BlockFrames,    \* frames of one callback, normally one AID block
    DeviceFrames,   \* buffer_frames, what the device says it holds
    MaxFrames       \* bound on the frames the guest makes

ASSUME RingAssumption   == RingFrames \in Nat \ {0} /\ StartFrames \in 1..RingFrames
ASSUME BatchAssumption  == BatchFrames \in Nat \ {0} /\ BlockFrames \in Nat \ {0}
ASSUME DeviceAssumption == DeviceFrames \in Nat \ {0} /\ MaxFrames \in Nat

VARIABLES
    ring, rd, wr, count,   \* s_ring, s_ring_read, s_ring_write, s_ring_count
    deviceOpen,            \* s_stats.device_open
    workerStop,            \* s_worker_stop
    received, dropped,     \* s_stats.frames_received, dropped_frames
    ready, stopEvent,      \* s_ready_event and s_stop_event, set or not
    audioEvent,            \* s_audio_event, reset by the wait that it ends
    cpc, ret,              \* where the CPU thread is; where a submission returns to
    block,                 \* frames of the callback not yet in the batch
    batch,                 \* frames of the batch not yet in the ring
    wpc,                   \* where the worker is
    packet,                \* frames between the ring and the device
    room,                  \* frames asked of the device for the packet
    primed,                \* frames in the first packet
    started,               \* client_started
    padding,               \* frames the device has not played yet, silence included
    heard                  \* frames handed to the device, without the silence

ringvars == <<ring, rd, wr, count>>
shared   == <<deviceOpen, workerStop, received, dropped>>
events   == <<ready, stopEvent, audioEvent>>
cpu      == <<cpc, ret, block, batch>>
worker   == <<wpc, packet, room, primed>>
device   == <<started, padding, heard>>
vars     == <<ringvars, shared, events, cpu, worker, device>>

CpuPcs    == {"start", "guest", "batch", "submit", "spacewait", "stop", "stopset",
              "stopevent", "join", "done"}
WorkerPcs == {"init", "opened", "notopened", "cushion", "datawait", "prime", "begin",
              "loop", "padding", "render", "release", "failed", "exited"}

Least(a, b) == IF a <= b THEN a ELSE b

Init ==
    /\ ring = [i \in 0..(RingFrames - 1) |-> 0] /\ rd = 0 /\ wr = 0 /\ count = 0
    /\ deviceOpen = FALSE /\ workerStop = FALSE /\ received = 0 /\ dropped = 0
    /\ ready = FALSE /\ stopEvent = FALSE /\ audioEvent = FALSE
    /\ cpc = "start" /\ ret = "guest" /\ block = 0 /\ batch = 0
    /\ wpc = "init" /\ packet = <<>> /\ room = 0 /\ primed = 0
    /\ started = FALSE /\ padding = 0 /\ heard = <<>>

-----------------------------------------------------------------------------
(* The ring. *)

\* Mutant: the copy is not split at the end of the ring.
ContiguousWhole(at, n) == n

\* How much of n frames at a place of the ring lies before its end.
Contiguous(at, n) == Least(n, RingFrames - at)

CopyIn(r, at, frames) ==
    [i \in DOMAIN r |->
        IF i >= at /\ i < at + Len(frames) THEN frames[i - at + 1] ELSE r[i]]

CopyOut(r, at, n) == [j \in 1..n |-> r[at + j - 1]]

\* The next n frames of the guest, from the batch into the ring.
Put(n) ==
    LET frames == [j \in 1..n |-> received + j]
        first  == Contiguous(wr, n)
    IN  /\ ring' = CopyIn(CopyIn(ring, wr, SubSeq(frames, 1, first)), 0,
                          SubSeq(frames, first + 1, n))
        /\ wr' = (wr + n) % RingFrames
        /\ count' = count + n
        /\ received' = received + n

\* ring_read_frames: n frames out of the ring, less if it holds less.
Take(n) ==
    LET m     == Least(n, count)
        first == Least(m, RingFrames - rd)
    IN  /\ packet' = CopyOut(ring, rd, first) \o CopyOut(ring, 0, m - first)
        /\ rd' = (rd + m) % RingFrames
        /\ count' = count - m
        /\ UNCHANGED <<ring, wr>>

WakeSpace == cpc' = IF cpc = "spacewait" THEN "submit" ELSE cpc
WakeData  == wpc' = IF wpc = "datawait" THEN "cushion" ELSE wpc

-----------------------------------------------------------------------------
(* audio_worker_main. *)

WorkerAt(from, to) == wpc = from /\ wpc' = to

\* Opening the device, which may fail; s_ready_event is set after the lock is left.
W_Open ==
    /\ WorkerAt("init", "opened")
    /\ deviceOpen' = TRUE
    /\ UNCHANGED <<ringvars, workerStop, received, dropped, events, cpu, packet, room,
                   primed, device>>

\* wasapi_start_failed.
W_NotOpened ==
    /\ WorkerAt("init", "notopened")
    /\ deviceOpen' = FALSE
    /\ WakeSpace
    /\ UNCHANGED <<ringvars, workerStop, received, dropped, events, ret, block, batch,
                   packet, room, primed, device>>

W_Ready ==
    /\ WorkerAt("opened", "cushion") \/ WorkerAt("notopened", "exited")
    /\ ready' = TRUE
    /\ UNCHANGED <<ringvars, shared, stopEvent, audioEvent, cpu, packet, room, primed,
                   device>>

\* A worker step that leaves the ring and the CPU thread's state alone.
WorkerOnly == UNCHANGED <<ringvars, shared, ready, stopEvent, cpu>>

\* Mutant: one signal of s_data_cv is taken for the cushion.
W_CushionOnce ==
    /\ wpc = "cushion"
    /\ wpc' = IF workerStop THEN "exited" ELSE IF count = 0 THEN "datawait" ELSE "prime"
    /\ UNCHANGED <<audioEvent, packet, room, primed, device>> /\ WorkerOnly

\* "Do not start the endpoint on an empty queue": sleep until the cushion is there.
W_Cushion ==
    /\ wpc = "cushion"
    /\ wpc' = IF workerStop THEN "exited"
              ELSE IF count < StartFrames THEN "datawait" ELSE "prime"
    /\ UNCHANGED <<audioEvent, packet, room, primed, device>> /\ WorkerOnly

\* The first packet fills the device.
W_Prime ==
    /\ WorkerAt("prime", "begin")
    /\ Take(DeviceFrames)
    /\ room' = DeviceFrames /\ primed' = Len(packet')
    /\ WakeSpace
    /\ UNCHANGED <<shared, events, ret, block, batch, device>>

\* ReleaseBuffer hands the packet over, filled up with silence.
Release ==
    /\ padding' = padding + room
    /\ heard' = heard \o packet
    /\ packet' = <<>>

W_Begin ==
    /\ WorkerAt("begin", "loop")
    /\ Release /\ started' = TRUE
    /\ UNCHANGED <<audioEvent, room, primed>> /\ WorkerOnly

\* WaitForMultipleObjects: stop first, then the device's event.
W_Wait ==
    /\ wpc = "loop"
    /\ stopEvent \/ audioEvent
    /\ IF stopEvent
       THEN wpc' = "exited" /\ UNCHANGED audioEvent
       ELSE wpc' = "padding" /\ audioEvent' = FALSE
    /\ UNCHANGED <<packet, room, primed, device>> /\ WorkerOnly

W_Padding ==
    /\ wpc = "padding"
    /\ room' = DeviceFrames - padding
    /\ wpc' = IF room' = 0 THEN "loop" ELSE "render"
    /\ UNCHANGED <<audioEvent, packet, primed, device>> /\ WorkerOnly

W_Render ==
    /\ WorkerAt("render", "release")
    /\ Take(room)
    /\ WakeSpace
    /\ UNCHANGED <<shared, events, ret, block, batch, room, primed, device>>

W_Release ==
    /\ WorkerAt("release", "loop")
    /\ Release
    /\ UNCHANGED <<audioEvent, room, primed, started>> /\ WorkerOnly

\* Any call of the device may fail; what the packet held is lost.
W_Fail ==
    /\ wpc \in {"prime", "begin", "loop", "padding", "render", "release"}
    /\ wpc' = "failed"
    /\ UNCHANGED <<audioEvent, packet, room, primed, device>> /\ WorkerOnly

\* Mutant: nobody is told.
W_StreamFailedSilently ==
    /\ WorkerAt("failed", "exited")
    /\ deviceOpen' = FALSE
    /\ UNCHANGED <<ringvars, workerStop, received, dropped, events, cpu, packet, room,
                   primed, device>>

W_StreamFailed ==
    /\ WorkerAt("failed", "exited")
    /\ deviceOpen' = FALSE
    /\ WakeSpace
    /\ UNCHANGED <<ringvars, workerStop, received, dropped, events, ret, block, batch,
                   packet, room, primed, device>>

WorkerStep ==
    \/ W_Open \/ W_Ready \/ W_Cushion \/ W_Prime \/ W_Begin
    \/ W_Wait \/ W_Padding \/ W_Render \/ W_Release \/ W_StreamFailed

\* A started device plays at its own pace and signals each period, starved or not.
DevicePlays ==
    /\ started /\ wpc # "exited"
    /\ padding' = IF padding = 0 THEN 0 ELSE padding - 1
    /\ audioEvent' = TRUE
    /\ UNCHANGED <<ringvars, shared, ready, stopEvent, cpu, worker, started, heard>>

-----------------------------------------------------------------------------
(* The CPU thread. *)

CpuAt(from, to) == cpc = from /\ cpc' = to

\* The end of gcn_host_audio_start: without a device the sink is never installed.
C_Start ==
    /\ cpc = "start" /\ ready
    /\ cpc' = IF deviceOpen THEN "guest" ELSE "stop"
    /\ UNCHANGED <<ringvars, shared, events, ret, block, batch, worker, device>>

\* It waits for five seconds only.
C_StartTimeout ==
    /\ CpuAt("start", "stop")
    /\ UNCHANGED <<ringvars, shared, events, ret, block, batch, worker, device>>

\* gcn_host_audio_submit_be_s16, called with a block of frames.
C_Audio ==
    /\ CpuAt("guest", "batch")
    /\ received + dropped + batch + BlockFrames <= MaxFrames
    /\ block' = BlockFrames
    /\ UNCHANGED <<ringvars, shared, events, ret, batch, worker, device>>

\* As much of the block as fits the batch; a full batch is submitted.
C_Batch ==
    /\ cpc = "batch"
    /\ LET n == Least(block, BatchFrames - batch) IN
       /\ block' = block - n /\ batch' = batch + n
       /\ cpc' = IF block = 0 THEN "guest"
                 ELSE IF batch' = BatchFrames THEN "submit" ELSE "batch"
    /\ ret' = "batch"
    /\ UNCHANGED <<ringvars, shared, events, worker, device>>

\* Mutant: the copy does not stop at the frames not yet read.
FreeOverwrites == RingFrames

Free == RingFrames - count

\* submit_input_batch up to its end or its sleep: the lock is not left in between,
\* so the device is open for all of it or for none.
C_Submit ==
    /\ cpc = "submit" /\ deviceOpen
    /\ LET n == Least(batch, Free) IN
       /\ Put(n)
       /\ batch' = batch - n
       /\ cpc' = IF n = batch THEN ret ELSE "spacewait"
       /\ IF n = 0 THEN UNCHANGED wpc ELSE WakeData
    /\ UNCHANGED <<rd, deviceOpen, workerStop, dropped, events, ret, block, packet, room,
                   primed, device>>

\* Without a device the rest of the batch is dropped.
C_Drop ==
    /\ cpc = "submit" /\ ~ deviceOpen
    /\ dropped' = dropped + batch /\ batch' = 0
    /\ cpc' = ret
    /\ UNCHANGED <<ringvars, deviceOpen, workerStop, received, events, ret, block, worker,
                   device>>

\* gcn_host_audio_stop, with what is left in the batch to submit first.
C_Stop ==
    /\ CpuAt("guest", "stop")
    /\ UNCHANGED <<ringvars, shared, events, ret, block, batch, worker, device>>

C_StopFlush ==
    /\ cpc = "stop"
    /\ cpc' = IF batch = 0 THEN "stopset" ELSE "submit"
    /\ ret' = "stopset"
    /\ UNCHANGED <<ringvars, shared, events, block, batch, worker, device>>

C_StopSet ==
    /\ CpuAt("stopset", "stopevent")
    /\ workerStop' = TRUE
    /\ WakeData
    /\ UNCHANGED <<ringvars, deviceOpen, received, dropped, events, ret, block, batch,
                   packet, room, primed, device>>

C_StopEvent ==
    /\ CpuAt("stopevent", "join")
    /\ stopEvent' = TRUE
    /\ UNCHANGED <<ringvars, shared, ready, audioEvent, ret, block, batch, worker, device>>

Close ==
    /\ CpuAt("join", "done")
    /\ deviceOpen' = FALSE
    /\ UNCHANGED <<ringvars, workerStop, received, dropped, events, ret, block, batch,
                   worker, device>>

C_Join == wpc = "exited" /\ Close

\* It joins for five seconds only; the model ends there.
C_JoinTimeout == wpc # "exited" /\ Close

CpuStep ==
    \/ C_Start \/ C_Batch \/ C_Submit \/ C_Drop
    \/ C_StopFlush \/ C_StopSet \/ C_StopEvent \/ C_Join

\* A condition variable may wake a sleeper for nothing.
SpuriousWake ==
    /\ \/ cpc = "spacewait" /\ WakeSpace /\ UNCHANGED wpc
       \/ wpc = "datawait" /\ WakeData /\ UNCHANGED cpc
    /\ UNCHANGED <<ringvars, shared, events, ret, block, batch, packet, room, primed, device>>

-----------------------------------------------------------------------------
Next ==
    \/ cpc # "done" /\ (WorkerStep \/ W_NotOpened \/ W_Fail \/ DevicePlays)
    \/ CpuStep \/ C_StartTimeout \/ C_Audio \/ C_Stop \/ C_JoinTimeout
    \/ SpuriousWake

Spec == Init /\ [][Next]_vars

\* The host schedules both threads and a started device plays. The guest need not
\* make audio, and nothing rests on spurious wakes or on the five-second limits.
Fairness ==
    /\ WF_vars(cpc # "done" /\ WorkerStep)
    /\ WF_vars(CpuStep)
    /\ WF_vars(cpc # "done" /\ DevicePlays)

FairSpec == Spec /\ Fairness

-----------------------------------------------------------------------------
(* Properties. *)

TypeOK ==
    /\ ring \in [0..(RingFrames - 1) -> Nat]
    /\ rd \in 0..(RingFrames - 1) /\ wr = (rd + count) % RingFrames /\ count \in 0..RingFrames
    /\ deviceOpen \in BOOLEAN /\ workerStop \in BOOLEAN /\ received \in Nat /\ dropped \in Nat
    /\ ready \in BOOLEAN /\ stopEvent \in BOOLEAN /\ audioEvent \in BOOLEAN
    /\ cpc \in CpuPcs /\ ret \in {"guest", "batch", "stopset"}
    /\ block \in 0..BlockFrames /\ batch \in 0..BatchFrames
    /\ wpc \in WorkerPcs /\ packet \in Seq(Nat) /\ room \in 0..DeviceFrames
    /\ primed \in 0..DeviceFrames
    /\ started \in BOOLEAN /\ padding \in 0..DeviceFrames /\ heard \in Seq(Nat)

\* Every frame received is with the device, in the packet or in the ring, in the
\* order in which the guest made it: the copies in and out, split at the end of the
\* ring, neither skip, repeat nor overwrite a frame that nobody has read.
InRing  == [j \in 1..count |-> ring[(rd + j - 1) % RingFrames]]
InOrder == heard \o packet \o InRing = [j \in 1..received |-> j]

\* "Do not start the endpoint on an empty queue" (audio_worker_main): a device is
\* started with the cushion in it, or full, and not with silence in place of it.
StartedOnCushion == started => primed >= Least(StartFrames, DeviceFrames)

\* submit_input_batch sleeps on a full ring without a limit. It does not sleep for
\* ever: a device that plays makes room, and a worker that loses its device says so.
\* And gcn_host_audio_stop ends, wherever the worker is, without the limit of its join.
Submitting == cpc \in {"submit", "spacewait"}
CallsEnd ==
    /\ Submitting ~> ~ Submitting
    /\ cpc = "stop" ~> cpc = "done"
=============================================================================
