----------------------------- MODULE DspWorker -----------------------------
(***************************************************************************)
(* The threaded DSP of runtime/src/dsp.c (GCN_DSP_THREAD=1): the CPU       *)
(* thread hands whole cycles to a worker by raising `granted`, the worker  *)
(* runs them and raises `consumed`, and the CPU drains (waits for          *)
(* consumed = granted) before it looks at the core. Each side parks in     *)
(* WaitOnAddress and advertises it, so that the other may leave out the    *)
(* wake.                                                                   *)
(*                                                                         *)
(* One action per shared-memory access of either thread. The only store    *)
(* of the protocol weaker than sequentially consistent and followed by a   *)
(* load that matters is the worker's release of `consumed`: on x86-64 it   *)
(* is a plain move that may still be in the store buffer when the worker   *)
(* loads `waiting`, so the model gives it a one-entry buffer, `cbuf`.      *)
(***************************************************************************)
EXTENDS DspClock

CONSTANT
    MaxCharged    \* bound on the cycles the guest ever charges

ASSUME MaxChargedAssumption == MaxCharged \in Nat

VARIABLES
    granted,      \* s_thr_granted, written by the CPU only
    consumed,     \* s_thr_consumed as the CPU can see it
    cbuf,         \* the worker's store of consumed, not yet visible, or Empty
    quit,         \* s_thr_quit
    parked,       \* s_thr_parked
    waiting,      \* s_thr_waiting
    cpc,          \* where the CPU thread is
    op,           \* the dsp.c entry point the CPU is in
    owed,         \* s_owed_ppc
    toGrant,      \* `whole` of dsp_thread_grant
    cexpect,      \* `expect` of the drain's WaitOnAddress
    wpc,          \* where the worker is
    wgranted,     \* the worker's last load of granted (also its `expect`)
    wconsumed,    \* the worker's private `consumed`
    alive,        \* the core exists (dsp_lle_shutdown not yet called)
    halted,       \* CR_HALT
    fed,          \* PPC cycles handed to the core by calls that found it running
    seen,         \* `fed` as the guest last read it
    pending,      \* g_dsp_int_pending
    dspint,       \* the CSR's DSPINT bit
    charged       \* cycles charged so far, for the bound

sync   == <<granted, consumed, cbuf, quit, parked, waiting>>
cpu    == <<cpc, op, owed, toGrant, cexpect>>
worker == <<wpc, wgranted, wconsumed>>
core   == <<alive, halted, fed, seen, pending, dspint>>
vars   == <<sync, cpu, worker, core, charged>>

Empty == -1       \* an empty store buffer

\* dsp_lle_update on n cycles: a halted core skips them; a running one may
\* raise its interrupt, and may halt itself (the DSP's HALT instruction).
Update(n) ==
    /\ fed' = fed + (IF halted THEN 0 ELSE n)
    /\ halted' \in {halted, TRUE}
    /\ pending' \in (IF halted THEN {pending} ELSE {pending, TRUE})

\* dsp_latch_mailbox_int: an atomic exchange of the request, no drain.
TakeInterrupt ==
    /\ dspint' = (dspint \/ pending)
    /\ pending' = FALSE

CpuPcs == {"guest", "grant", "grantcheck", "grantwake", "latch", "drain", "drainset",
           "drainwait", "drainasleep", "drainunset", "flush", "flushlatch", "access",
           "snapshot", "quit", "quitwake", "join", "shutdown", "done"}
WorkerPcs == {"load", "quitcheck", "spin", "spinquit", "park", "wait", "asleep",
              "unpark", "run", "publish", "check", "wake", "exited"}
Ops == {"tick", "pi", "read", "write", "free"}

Init ==
    /\ granted = 0 /\ consumed = 0 /\ cbuf = Empty
    /\ quit = FALSE /\ parked = FALSE /\ waiting = FALSE
    /\ cpc = "guest" /\ op = "tick" /\ owed = 0 /\ toGrant = 0 /\ cexpect = 0
    /\ wpc = "load" /\ wgranted = 0 /\ wconsumed = 0
    /\ alive = TRUE /\ halted \in BOOLEAN /\ fed = 0 /\ seen = 0
    /\ pending = FALSE /\ dspint = FALSE
    /\ charged = 0

-----------------------------------------------------------------------------
(* dsp_thread_main. *)

WorkerAt(from, to) == wpc = from /\ wpc' = to

W_Load ==
    /\ wpc = "load"
    /\ wgranted' = granted
    /\ wpc' = IF granted = wconsumed THEN "quitcheck" ELSE "run"
    /\ UNCHANGED <<sync, cpu, wconsumed, core, charged>>

W_QuitCheck ==
    /\ wpc = "quitcheck"
    /\ wpc' = IF quit THEN "exited" ELSE "spin"
    /\ UNCHANGED <<sync, cpu, wgranted, wconsumed, core, charged>>

W_Spin ==
    /\ wpc = "spin"
    /\ wgranted' = granted
    /\ wpc' = IF granted # wconsumed THEN "load" ELSE "spinquit"
    /\ UNCHANGED <<sync, cpu, wconsumed, core, charged>>

\* Nothing to do: spin once more, or after enough spins park.
W_SpinQuit ==
    /\ wpc = "spinquit"
    /\ IF quit THEN wpc' = "load" ELSE wpc' \in {"spin", "park"}
    /\ UNCHANGED <<sync, cpu, wgranted, wconsumed, core, charged>>

\* A sequentially consistent store waits for the store buffer to drain.
W_Park ==
    /\ WorkerAt("park", "wait")
    /\ cbuf = Empty
    /\ parked' = TRUE
    /\ UNCHANGED <<granted, consumed, cbuf, quit, waiting, cpu, wgranted, wconsumed,
                   core, charged>>

\* Mutant: `expect` is read again after the flag is set.
W_WaitFresh ==
    /\ WorkerAt("wait", "asleep")
    /\ UNCHANGED <<sync, cpu, wgranted, wconsumed, core, charged>>

\* WaitOnAddress(&s_thr_granted, expect) sleeps only if it still holds expect.
W_Wait ==
    /\ wpc = "wait"
    /\ wpc' = IF granted = wgranted THEN "asleep" ELSE "unpark"
    /\ UNCHANGED <<sync, cpu, wgranted, wconsumed, core, charged>>

\* WaitOnAddress may return without a wake.
W_SpuriousWake ==
    /\ WorkerAt("asleep", "unpark")
    /\ UNCHANGED <<sync, cpu, wgranted, wconsumed, core, charged>>

W_Unpark ==
    /\ WorkerAt("unpark", "spin")
    /\ parked' = FALSE
    /\ UNCHANGED <<granted, consumed, cbuf, quit, waiting, cpu, wgranted, wconsumed,
                   core, charged>>

\* One call of dsp_lle_update for all that was granted since the last.
W_Run ==
    /\ WorkerAt("run", "publish")
    /\ Update(wgranted - wconsumed)
    /\ wconsumed' = wgranted
    /\ UNCHANGED <<sync, cpu, wgranted, alive, seen, dspint, charged>>

W_Publish ==
    /\ WorkerAt("publish", "check")
    /\ cbuf = Empty
    /\ cbuf' = wconsumed
    /\ UNCHANGED <<granted, consumed, quit, parked, waiting, cpu, wgranted, wconsumed,
                   core, charged>>

\* The store buffer drains at any time.
W_StoreVisible ==
    /\ cbuf # Empty
    /\ consumed' = cbuf
    /\ cbuf' = Empty
    /\ UNCHANGED <<granted, quit, parked, waiting, cpu, worker, core, charged>>

W_Check ==
    /\ wpc = "check"
    /\ wpc' = IF waiting THEN "wake" ELSE "load"
    /\ UNCHANGED <<sync, cpu, wgranted, wconsumed, core, charged>>

\* WakeByAddressAll(&s_thr_consumed): its locked operations drain the buffer.
W_Wake ==
    /\ WorkerAt("wake", "load")
    /\ cbuf = Empty
    /\ cpc' = IF cpc = "drainasleep" THEN "drainunset" ELSE cpc
    /\ UNCHANGED <<sync, op, owed, toGrant, cexpect, wgranted, wconsumed, core, charged>>

WorkerStep ==
    \/ W_Load \/ W_QuitCheck \/ W_Spin \/ W_SpinQuit \/ W_Park \/ W_Wait \/ W_Unpark
    \/ W_Run \/ W_Publish \/ W_Check \/ W_Wake

-----------------------------------------------------------------------------
(* The CPU thread: gcn_dsp_tick. *)

CpuAt(from, to) == cpc = from /\ cpc' = to

Charge(c) ==
    /\ cpc = "guest"
    /\ op' = "tick"
    /\ charged + c <= MaxCharged
    /\ charged' = charged + c

C_TickUnderCap(c) ==
    /\ Charge(c)
    /\ owed + c < BatchCap
    /\ owed' = owed + c
    /\ cpc' = "latch"
    /\ UNCHANGED <<sync, toGrant, cexpect, worker, core>>

\* Mutant: any idle worker lets the cycles be discarded.
CanDiscardIdle == consumed = granted

\* At the cap, a halted core whose worker is idle loses the cycles at once.
CanDiscard == consumed = granted /\ halted

C_TickDiscard(c) ==
    /\ Charge(c)
    /\ owed + c >= BatchCap
    /\ CanDiscard
    /\ owed' = owed + c - Whole(owed + c)
    /\ cpc' = "latch"
    /\ UNCHANGED <<sync, toGrant, cexpect, worker, core>>

C_TickGrant(c) ==
    /\ Charge(c)
    /\ owed + c >= BatchCap
    /\ ~ CanDiscard
    /\ toGrant' = Whole(owed + c)
    /\ owed' = owed + c - Whole(owed + c)
    /\ cpc' = "grant"
    /\ UNCHANGED <<sync, cexpect, worker, core>>

\* dsp_thread_grant: the store, the load of parked, the wake.
C_Grant ==
    /\ CpuAt("grant", "grantcheck")
    /\ granted' = granted + toGrant
    /\ toGrant' = 0
    /\ UNCHANGED <<consumed, cbuf, quit, parked, waiting, op, owed, cexpect, worker,
                   core, charged>>

\* Mutant: the wake is always left out.
C_GrantCheckElided ==
    /\ CpuAt("grantcheck", "latch")
    /\ UNCHANGED <<sync, op, owed, toGrant, cexpect, worker, core, charged>>

C_GrantCheck ==
    /\ cpc = "grantcheck"
    /\ cpc' = IF parked THEN "grantwake" ELSE "latch"
    /\ UNCHANGED <<sync, op, owed, toGrant, cexpect, worker, core, charged>>

WakeWorker == wpc' = IF wpc = "asleep" THEN "unpark" ELSE wpc

C_GrantWake ==
    /\ CpuAt("grantwake", "latch")
    /\ WakeWorker
    /\ UNCHANGED <<sync, op, owed, toGrant, cexpect, wgranted, wconsumed, core, charged>>

\* The latch of every block, whether the core ran or not.
C_Latch ==
    /\ CpuAt("latch", "guest")
    /\ TakeInterrupt
    /\ UNCHANGED <<sync, op, owed, toGrant, cexpect, worker, alive, halted, fed, seen,
                   charged>>

-----------------------------------------------------------------------------
(* The CPU thread: the flushes and the register accesses behind them. *)

Enter(entry, to) ==
    /\ cpc = "guest"
    /\ op' = entry
    /\ cpc' = to
    /\ UNCHANGED <<sync, owed, toGrant, cexpect, worker, core, charged>>

\* gcn_dsp_flush_lazy_pi: declined, it reads no core state and does not drain.
C_PiObserve == Enter("pi", IF owed < FlushMin THEN "guest" ELSE "drain")

\* Mutant: a declined lazy flush does not drain before a register read.
C_ReadNoDrain == Enter("read", IF owed < FlushMin THEN "access" ELSE "drain")

\* gcn_dsp_read and gcn_dsp_write drain in every case.
C_Read  == Enter("read", "drain")
C_Write == Enter("write", "drain")

\* Where a drain returns to: a declined lazy flush goes on to the access.
AfterDrain ==
    CASE op = "free"                                          -> "quit"
      [] op = "read" /\ owed < FlushMin                       -> "access"
      [] op = "read" /\ owed >= FlushMin /\ Whole(owed) = 0   -> "access"
      [] op = "write" /\ Whole(owed) = 0                      -> "access"
      [] op = "pi" /\ Whole(owed) = 0                         -> "guest"
      [] OTHER                                                -> "flush"

DrainDone == consumed = granted

C_Drain ==
    /\ cpc = "drain"
    /\ cexpect' = consumed
    /\ IF DrainDone THEN cpc' = AfterDrain ELSE cpc' \in {"drain", "drainset"}
    /\ UNCHANGED <<sync, op, owed, toGrant, worker, core, charged>>

C_DrainSet ==
    /\ CpuAt("drainset", "drainwait")
    /\ waiting' = TRUE
    /\ UNCHANGED <<granted, consumed, cbuf, quit, parked, op, owed, toGrant, cexpect,
                   worker, core, charged>>

C_DrainWait ==
    /\ cpc = "drainwait"
    /\ cpc' = IF consumed = cexpect THEN "drainasleep" ELSE "drainunset"
    /\ UNCHANGED <<sync, op, owed, toGrant, cexpect, worker, core, charged>>

C_SpuriousWake ==
    /\ CpuAt("drainasleep", "drainunset")
    /\ UNCHANGED <<sync, op, owed, toGrant, cexpect, worker, core, charged>>

C_DrainUnset ==
    /\ CpuAt("drainunset", "drain")
    /\ waiting' = FALSE
    /\ UNCHANGED <<granted, consumed, cbuf, quit, parked, op, owed, toGrant, cexpect,
                   worker, core, charged>>

\* The rest of gcn_dsp_flush: the CPU runs the residue on the core itself.
C_Flush ==
    /\ CpuAt("flush", "flushlatch")
    /\ Update(Whole(owed))
    /\ owed' = owed - Whole(owed)
    /\ UNCHANGED <<sync, op, toGrant, cexpect, worker, alive, seen, dspint, charged>>

C_FlushLatch ==
    /\ cpc = "flushlatch"
    /\ cpc' = IF op = "pi" THEN "guest" ELSE "access"
    /\ TakeInterrupt
    /\ UNCHANGED <<sync, op, owed, toGrant, cexpect, worker, alive, halted, fed, seen,
                   charged>>

C_ReadAccess ==
    /\ CpuAt("access", "guest")
    /\ op = "read"
    /\ seen' = fed
    /\ UNCHANGED <<sync, op, owed, toGrant, cexpect, worker, alive, halted, fed,
                   pending, dspint, charged>>

\* read_csr latches before it reads.
C_ReadCsr ==
    /\ CpuAt("access", "guest")
    /\ op = "read"
    /\ seen' = fed
    /\ TakeInterrupt
    /\ UNCHANGED <<sync, op, owed, toGrant, cexpect, worker, alive, halted, fed, charged>>

\* Of the registers only the CSR matters here: CR_HALT, and the write that
\* acknowledges DSPINT.
C_WriteAccess ==
    /\ CpuAt("access", "guest")
    /\ op = "write"
    /\ halted' \in BOOLEAN
    /\ dspint' \in {dspint, FALSE}
    /\ UNCHANGED <<sync, op, owed, toGrant, cexpect, worker, alive, fed, seen, pending,
                   charged>>

-----------------------------------------------------------------------------
(* A checkpoint that saves a snapshot copies the core (dsp_lle_save_state) *)
(* between two blocks; gcn_snapshot_save drains the GX worker only.        *)

C_SnapshotBegin == Enter("pi", "snapshot")

C_SnapshotEnd ==
    /\ CpuAt("snapshot", "guest")
    /\ UNCHANGED <<sync, op, owed, toGrant, cexpect, worker, core, charged>>

-----------------------------------------------------------------------------
(* gcn_dsp_free, at the end of the run. *)

C_Free == Enter("free", "drain")

C_Quit ==
    /\ CpuAt("quit", "quitwake")
    /\ quit' = TRUE
    /\ UNCHANGED <<granted, consumed, cbuf, parked, waiting, op, owed, toGrant, cexpect,
                   worker, core, charged>>

C_QuitWake ==
    /\ CpuAt("quitwake", "join")
    /\ WakeWorker
    /\ UNCHANGED <<sync, op, owed, toGrant, cexpect, wgranted, wconsumed, core, charged>>

C_Join ==
    /\ CpuAt("join", "shutdown")
    /\ wpc = "exited"
    /\ UNCHANGED <<sync, op, owed, toGrant, cexpect, worker, core, charged>>

\* WaitForSingleObject gives up after two seconds: only a sleeping worker is
\* that late.
C_JoinTimeout ==
    /\ CpuAt("join", "shutdown")
    /\ wpc = "asleep"
    /\ UNCHANGED <<sync, op, owed, toGrant, cexpect, worker, core, charged>>

C_Shutdown ==
    /\ CpuAt("shutdown", "done")
    /\ alive' = FALSE
    /\ UNCHANGED <<sync, op, owed, toGrant, cexpect, worker, halted, fed, seen,
                   pending, dspint, charged>>

-----------------------------------------------------------------------------
\* What the guest and the debugger decide to do next.
GuestStep ==
    \/ \E c \in Costs : C_TickUnderCap(c) \/ C_TickDiscard(c) \/ C_TickGrant(c)
    \/ C_PiObserve \/ C_Read \/ C_Write \/ C_SnapshotBegin \/ C_Free

\* What the CPU thread does on its own once it is inside dsp.c.
CpuStep ==
    \/ C_Grant \/ C_GrantCheck \/ C_GrantWake \/ C_Latch
    \/ C_Drain \/ C_DrainSet \/ C_DrainWait \/ C_DrainUnset
    \/ C_Flush \/ C_FlushLatch \/ C_ReadAccess \/ C_ReadCsr \/ C_WriteAccess
    \/ C_SnapshotEnd \/ C_Quit \/ C_QuitWake \/ C_Join \/ C_JoinTimeout \/ C_Shutdown

Next ==
    \/ WorkerStep \/ W_StoreVisible \/ W_SpuriousWake
    \/ GuestStep \/ CpuStep \/ C_SpuriousWake

Spec == Init /\ [][Next]_vars

\* The host schedules both threads and the store buffer drains; the guest need
\* not do anything, and no spurious wake is promised.
Fairness ==
    /\ WF_vars(WorkerStep)
    /\ WF_vars(W_StoreVisible)
    /\ WF_vars(CpuStep)

FairSpec == Spec /\ Fairness

-----------------------------------------------------------------------------
(* Properties. *)

TypeOK ==
    /\ granted \in Nat /\ consumed \in Nat /\ cbuf \in Nat \cup {Empty}
    /\ quit \in BOOLEAN /\ parked \in BOOLEAN /\ waiting \in BOOLEAN
    /\ cpc \in CpuPcs /\ op \in Ops
    /\ owed \in Nat /\ toGrant \in Nat /\ cexpect \in Nat
    /\ wpc \in WorkerPcs /\ wgranted \in Nat /\ wconsumed \in Nat
    /\ alive \in BOOLEAN /\ halted \in BOOLEAN /\ pending \in BOOLEAN /\ dspint \in BOOLEAN
    /\ fed \in Nat /\ seen \in Nat /\ charged \in Nat

WorkerOnCore    == wpc = "run"
RegistersOnCore == cpc \in {"flush", "access", "shutdown"}

\* "The core (g_dsp, mailboxes, ARAM, control) is touched by exactly ONE thread
\* at a time: the worker only between grant and drain, the CPU only after a
\* drain" (dsp.c:66-71): what the guest's register accesses, the inline flush
\* and the shutdown do.
RegistersExclusive == ~ (RegistersOnCore /\ WorkerOnCore)

\* The wake the CPU leaves out is never needed (dsp.c:87-93): a worker asleep
\* on a value of granted that has moved on is about to be woken.
NoMissedGrantWake ==
    wpc = "asleep" /\ granted # wgranted => cpc \in {"grantcheck", "grantwake"}

\* The same of the wake the worker leaves out: a CPU asleep in a drain that is
\* over is about to be woken.
NoMissedDrainWake ==
    cpc = "drainasleep" /\ consumed = granted => wpc \in {"check", "wake"}

\* "Retire the worker BEFORE the core it executes on is deleted" (dsp.c:215).
RetiredBeforeDelete == ~ alive => wpc = "exited"

\* No grant is left behind: whatever the CPU has granted the worker gets to run,
\* whichever of the two is parked, spinning or between two loads.
GrantsExecuted == granted # wconsumed ~> granted = wconsumed

\* The contract as this design keeps it: what the CPU is about to grant, or has
\* granted and the worker has not run, is due.
Due == toGrant + granted - wconsumed
Latching == cpc \in {"grant", "grantcheck", "grantwake", "latch", "flushlatch"}
Stage ==
    IF cpc \in {"flushlatch", "access"} /\ op \in {"read", "write"} THEN op ELSE "guest"

Budget == INSTANCE DspBudget WITH due <- Due, latching <- Latching, stage <- Stage

\* "Every granted cycle executes on the real core, in order, exactly once", and
\* at every observation point "all cycles up to the last cap" have been handed
\* to it, "the sub-min residue not" (dsp.c:59-65, 77-78); none is dropped that a
\* running core would have run, and an interrupt request is latched once, not
\* lost, however late it comes (dsp.c:72-76).
ImplementsBudget == Budget!Spec
=============================================================================
