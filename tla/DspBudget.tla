----------------------------- MODULE DspBudget -----------------------------
(***************************************************************************)
(* What runtime/src/dsp.c promises of the DSP's cycles and of its          *)
(* interrupt, whoever runs the core: "every granted cycle executes on the  *)
(* real core, in order, exactly once" (dsp.c:77-78), and the CPU looks at  *)
(* the core only when it has been handed all that was granted.             *)
(*                                                                         *)
(* PPC cycles charged by the blocks are a debt (owed); whole multiples of  *)
(* Ratio in it are granted (due) and handed to the core by calls of        *)
(* dsp_lle_update. How the grants are divided into calls, and when they    *)
(* are made, is left open, and with it what the core does in a call: it    *)
(* may halt itself, or raise its interrupt, in any call that finds it      *)
(* running. The default build is the case in which each grant is one call, *)
(* made at once and followed by its latch.                                 *)
(*                                                                         *)
(* So this is the contract on cycles, not the claim that the core's state  *)
(* is the default build's: RunCycles steps 8 times per call before it may  *)
(* give the rest of the call's budget up, and two grants in one call are   *)
(* not two calls.                                                          *)
(***************************************************************************)
EXTENDS DspClock

VARIABLES
    owed,         \* s_owed_ppc
    due,          \* whole cycles granted and not yet handed to the core
    fed,          \* cycles handed to the core by calls that found it running
    halted,       \* CR_HALT of the core's control register
    pending,      \* the core's interrupt request, g_dsp_int_pending
    dspint,       \* the CSR's DSPINT bit
    latching,     \* the entry point the CPU is in has its latch to do
    stage,        \* where the CPU is: in the guest, or at a register access
    seen          \* `fed` as the guest last read it

cycles == <<owed, due, fed>>
vars   == <<cycles, halted, pending, dspint, latching, stage, seen>>

Init ==
    /\ owed = 0 /\ due = 0 /\ fed = 0
    /\ halted \in BOOLEAN
    /\ pending = FALSE /\ dspint = FALSE /\ latching = FALSE
    /\ stage = "guest"
    /\ seen = 0

\* dsp_lle_update on n cycles: a halted core skips them, a running one may
\* raise its interrupt and execute HALT.
Update(n) ==
    /\ fed' = fed + (IF halted THEN 0 ELSE n)
    /\ halted' \in {halted, TRUE}
    /\ pending' \in (IF halted THEN {pending} ELSE {pending, TRUE})

\* Granted cycles reach the core, in one call or in several.
Run ==
    \E n \in 1..due :
        /\ due' = due - n
        /\ Update(n)
        /\ UNCHANGED <<owed, dspint, latching, stage, seen>>

\* dsp_latch_mailbox_int: a request is taken once.
TakeInterrupt ==
    /\ dspint' = (dspint \/ pending)
    /\ pending' = FALSE

Latch ==
    /\ latching
    /\ TakeInterrupt
    /\ latching' = FALSE
    /\ UNCHANGED <<cycles, halted, stage, seen>>

InGuest == stage = "guest" /\ ~ latching

\* gcn_dsp_tick: charge a block, at the cap grant the whole cycles; only those
\* a halted core with nothing due would skip may be dropped instead.
Tick(c) ==
    /\ InGuest
    /\ \/ /\ owed + c < BatchCap
          /\ owed' = owed + c
          /\ UNCHANGED due
       \/ /\ owed + c >= BatchCap
          /\ owed' = owed + c - Whole(owed + c)
          /\ \/ due' = due + Whole(owed + c)
             \/ halted /\ due = 0 /\ UNCHANGED due
    /\ latching' = TRUE
    /\ UNCHANGED <<fed, halted, pending, dspint, stage, seen>>

\* A flush before the CPU looks at the core: nothing granted is outstanding,
\* and the debt runs unless it is below min or no whole cycle.
Settle(min) ==
    /\ InGuest
    /\ due = 0
    /\ IF owed < min \/ Whole(owed) = 0
       THEN UNCHANGED <<owed, fed, halted, pending, latching>>
       ELSE owed' = owed - Whole(owed) /\ Update(Whole(owed)) /\ latching' = TRUE
    /\ UNCHANGED <<due, dspint, seen>>

\* A PI INTSR read or INTMR write. Declined, it does not even drain.
PiObserve == Settle(FlushMin) /\ UNCHANGED stage

\* gcn_dsp_read and gcn_dsp_write: the flush, then the register.
ReadFlush  == Settle(FlushMin) /\ stage' = "read"
WriteFlush == Settle(0) /\ stage' = "write"

Access(kind) ==
    /\ stage = kind /\ ~ latching
    /\ stage' = "guest"
    /\ UNCHANGED <<cycles, latching>>

ReadAccess ==
    /\ Access("read")
    /\ seen' = fed
    /\ UNCHANGED <<halted, pending, dspint>>

\* The CSR is read behind a latch of its own.
ReadCsr ==
    /\ Access("read")
    /\ seen' = fed
    /\ TakeInterrupt
    /\ UNCHANGED halted

\* A CSR write halts or restarts the core and may acknowledge the interrupt.
WriteAccess ==
    /\ Access("write")
    /\ halted' \in BOOLEAN
    /\ dspint' \in {dspint, FALSE}
    /\ UNCHANGED <<pending, seen>>

Next ==
    \/ \E c \in Costs : Tick(c)
    \/ Run \/ Latch
    \/ PiObserve
    \/ ReadFlush \/ ReadAccess \/ ReadCsr
    \/ WriteFlush \/ WriteAccess

Spec == Init /\ [][Next]_vars

=============================================================================
