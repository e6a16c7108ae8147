-------------------------------- MODULE Cpu --------------------------------
(***************************************************************************)
(* Exceptions and time of the CPU: the boundary between two blocks of      *)
(* gcn_dispatch_run (runtime/src/dispatch.c), where an external interrupt  *)
(* or the decrementer's may be taken, the exceptions and rfi of cpu_glue.c,*)
(* and the charge of a block to the time base, the decrementer and the     *)
(* clock of the devices. The guest's code is main code at a few addresses  *)
(* and a handler at each vector, which saves SRR0 and SRR1 before it lets  *)
(* interrupts in again and puts them back before its rfi. Counters are     *)
(* kept modulo small numbers.                                              *)
(***************************************************************************)
EXTENDS Pi, Integers, Sequences

CONSTANTS
    MainCode,      \* addresses of the main code
    Nesting,       \* bound on the handlers that have let interrupts in
    BlockCycles,   \* cycles a block counts itself; 0 for code that does not count
    TbRatio,       \* core cycles to a tick of the time base: 12 in the code
    UniformTicks,  \* GCN_TB_TICKS_PER_BLOCK
    TbModulus,     \* the time base wraps here
    DecModulus     \* 2^32 in the code

Vectors == {"external", "decrementer", "system call"}

ASSUME CpuAssumption ==
    /\ MainCode # {} /\ MainCode \cap Vectors = {}
    /\ Nesting \in Nat /\ BlockCycles \subseteq Nat
    /\ {TbRatio, UniformTicks, TbModulus} \subseteq Nat \ {0}
    /\ DecModulus \in Nat \ {0} /\ DecModulus % 2 = 0

VARIABLES
    cpu,          \* the registers, and where the dispatch loop is
    intmr,        \* PI_INTMR
    time,         \* the counters
    saved,        \* what the guest's handlers have saved of SRR0 and SRR1
    holding,      \* the guest still needs what SRR0 and SRR1 hold
    interrupted,  \* history: what was interrupted and not resumed yet
    owed,         \* history: the decrementer passed zero, and no handler ran for it
    origin        \* history: the device clock when the time base was 0

cpuvars == <<cpu, intmr, time, saved, holding, interrupted, owed, origin>>

\* Where the seed or the boot ROM has the CPU begin.
Entry == CHOOSE pc \in MainCode : TRUE

CpuInit ==
    /\ cpu = [at |-> "boundary", pc |-> Entry, ee |-> FALSE, exception |-> FALSE,
              srr0 |-> Entry, srr1 |-> FALSE]
    /\ intmr = {}
    /\ time = [timebase |-> 0, remainder |-> 0, device |-> 0, dec |-> DecModulus - 1,
               pending |-> FALSE]
    /\ saved = <<>> /\ holding = FALSE /\ interrupted = <<>> /\ owed = FALSE /\ origin = 0

-----------------------------------------------------------------------------
(* Exceptions. *)

\* Mutant: MSR[EE] is left as it was.
TakeExceptionEnabled(c, vector, srr0) ==
    [c EXCEPT !.srr0 = srr0, !.srr1 = c.ee, !.exception = TRUE, !.pc = vector]

\* ppc_take_exception
TakeException(c, vector, srr0) ==
    [c EXCEPT !.srr0 = srr0, !.srr1 = c.ee, !.ee = FALSE, !.exception = TRUE,
              !.pc = vector]

Interrupts(pc) ==
    /\ interrupted' = Append(interrupted, [pc |-> pc, ee |-> cpu.ee])
    /\ holding' = TRUE

Listening == cpu.ee /\ ~cpu.exception

\* Mutant: the decrementer's interrupt is forgotten when it cannot be taken.
StillPending(taken) == time.pending /\ Listening /\ ~taken

Pending(taken) == time.pending /\ ~taken

\* gcn_pi_deliver_external, then ppc_deliver_decrementer.
Deliver ==
    LET external    == Listening /\ intsr \cap intmr # {}
        decrementer == Listening /\ ~external /\ time.pending
    IN  /\ cpu.at = "boundary"
        /\ cpu' = [IF external THEN TakeException(cpu, "external", cpu.pc)
                   ELSE IF decrementer THEN TakeException(cpu, "decrementer", cpu.pc)
                   ELSE cpu EXCEPT !.at = "block"]
        /\ time' = [time EXCEPT !.pending = Pending(decrementer)]
        /\ owed' = (owed /\ ~decrementer)
        /\ IF external \/ decrementer THEN Interrupts(cpu.pc)
           ELSE UNCHANGED <<interrupted, holding>>
        /\ UNCHANGED <<intmr, saved, origin, pivars>>

-----------------------------------------------------------------------------
(* A block, and its charge. *)

Negative(dec) == dec >= DecModulus \div 2

\* Mutant: what is left of a tick is dropped.
TicksAfresh(t, cycles) ==
    IF cycles = 0 THEN [ticks |-> UniformTicks, left |-> t.remainder]
    ELSE [ticks |-> cycles \div TbRatio, left |-> 0]

\* Ticks of the time base for a block of so many cycles, and the cycles left over.
Ticks(t, cycles) ==
    IF cycles = 0 THEN [ticks |-> UniformTicks, left |-> t.remainder]
    ELSE [ticks |-> (cycles + t.remainder) \div TbRatio,
          left  |-> (cycles + t.remainder) % TbRatio]

\* gcn_dispatch_charge and ppc_decrementer_tick, on the counters the block left.
Charged(t, cycles) ==
    LET n     == Ticks(t, cycles).ticks
        spent == IF cycles = 0 THEN TbRatio * UniformTicks ELSE cycles
        dec   == (t.dec - n) % DecModulus
    IN  [timebase  |-> (t.timebase + n) % TbModulus,
         remainder |-> Ticks(t, cycles).left,
         device    |-> (t.device + spent) % (TbRatio * TbModulus),
         dec       |-> dec,
         pending   |-> t.pending \/ (~Negative(t.dec) /\ Negative(dec))]

\* A block that leaves registers c and counters t: the pending exception was cleared
\* before it ran, so that its handler runs.
Block(c, t) ==
    /\ cpu.at = "block"
    /\ cpu' = [c EXCEPT !.at = "boundary"]
    /\ \E cycles \in BlockCycles :
          /\ time' = Charged(t, cycles)
          /\ owed' = \/ owed /\ t.pending = time.pending
                     \/ ~Negative(t.dec) /\ Negative(time'.dec)

\* Mutant: the flag of an exception stays up while its handler runs.
RunningUncleared == cpu

Running == [cpu EXCEPT !.exception = FALSE]

InMain == cpu.pc \in MainCode

\* Main code goes on to any address; a handler stays at its vector.
Compute ==
    /\ \E pc \in (IF InMain THEN MainCode ELSE {cpu.pc}) :
          Block([Running EXCEPT !.pc = pc], time)
    /\ UNCHANGED <<intmr, saved, holding, interrupted, origin, pivars>>

\* sc, of a guest that does not need SRR0 any more. An address stands for the code that
\* goes on there, so the one after sc is its own.
SystemCall ==
    /\ ~holding /\ Len(saved) < Nesting
    /\ Block(TakeException(Running, "system call", cpu.pc), time)
    /\ Interrupts(cpu.pc)
    /\ UNCHANGED <<intmr, saved, origin, pivars>>

\* A handler saves SRR0 and SRR1 and lets interrupts in; main code just does the latter.
Enable ==
    /\ ~cpu.ee /\ (holding => Len(saved) < Nesting)
    /\ Block([Running EXCEPT !.ee = TRUE], time)
    /\ saved' = IF holding THEN Append(saved, [pc |-> cpu.srr0, ee |-> cpu.srr1]) ELSE saved
    /\ holding' = FALSE
    /\ UNCHANGED <<intmr, interrupted, origin, pivars>>

Disable ==
    /\ cpu.ee
    /\ Block([Running EXCEPT !.ee = FALSE], time)
    /\ UNCHANGED <<intmr, saved, holding, interrupted, origin, pivars>>

\* A handler puts SRR0 and SRR1 back.
Restore ==
    /\ ~InMain /\ ~cpu.ee /\ ~holding /\ saved # <<>>
    /\ Block([Running EXCEPT !.srr0 = saved[Len(saved)].pc, !.srr1 = saved[Len(saved)].ee],
             time)
    /\ saved' = SubSeq(saved, 1, Len(saved) - 1)
    /\ holding' = TRUE
    /\ UNCHANGED <<intmr, interrupted, origin, pivars>>

\* ppc_rfi
Rfi ==
    /\ ~InMain /\ holding
    /\ Block([Running EXCEPT !.pc = cpu.srr0, !.ee = cpu.srr1], time)
    /\ holding' = FALSE
    /\ interrupted' = SubSeq(interrupted, 1, Len(interrupted) - 1)
    /\ UNCHANGED <<intmr, saved, origin, pivars>>

\* ppc_mtspr of the decrementer: a value that is not negative takes a pending
\* interrupt back.
WriteDec(dec) ==
    /\ Block(Running, [time EXCEPT !.dec = dec, !.pending = @ /\ Negative(dec)])
    /\ UNCHANGED <<intmr, saved, holding, interrupted, origin, pivars>>

\* ppc_mtspr of the time base.
WriteTimebase(tb) ==
    /\ Block(Running, [time EXCEPT !.timebase = tb])
    /\ origin' = (time.device - time.remainder - TbRatio * tb) % (TbRatio * TbModulus)
    /\ UNCHANGED <<intmr, saved, holding, interrupted, pivars>>

\* The guest writes PI_INTMR.
WriteIntmr(causes) ==
    /\ causes # intmr
    /\ Block(Running, time)
    /\ intmr' = causes
    /\ UNCHANGED <<saved, holding, interrupted, origin, pivars>>

\* The machine is saved at the checkpoint of the dispatch loop, and resumed from there
\* by another process: gcn_snapshot_save and gcn_snapshot_load carry the registers and
\* the counters, but s_decrementer_pending is not among them.
SnapshotResumed ==
    /\ cpu.at = "block"
    /\ cpu' = [cpu EXCEPT !.at = "boundary"]
    /\ time' = [time EXCEPT !.pending = FALSE]
    /\ UNCHANGED <<intmr, saved, holding, interrupted, owed, origin, pivars>>

CpuNext ==
    \/ Deliver
    \/ Compute \/ SystemCall \/ Enable \/ Disable \/ Restore \/ Rfi
    \/ \E dec \in {0, DecModulus - 1} : WriteDec(dec)
    \/ WriteTimebase(0)
    \/ \E causes \in {{}, Causes} : WriteIntmr(causes)

-----------------------------------------------------------------------------
(* Properties. *)

CpuTypeOK ==
    /\ cpu.at \in {"boundary", "block"} /\ cpu.pc \in MainCode \cup Vectors
    /\ cpu.srr0 \in MainCode \cup Vectors
    /\ {cpu.ee, cpu.exception, cpu.srr1, holding, owed, time.pending} \subseteq BOOLEAN
    /\ intmr \subseteq Causes
    /\ time.timebase \in 0..(TbModulus - 1) /\ time.remainder \in 0..(TbRatio - 1)
    /\ time.dec \in 0..(DecModulus - 1) /\ time.device \in Nat
    /\ Len(saved) <= Nesting /\ Len(interrupted) <= Nesting + 1

\* What a handler returns to is what was interrupted, through any nesting of external
\* interrupts, decrementer interrupts and system calls: between them SRR0, SRR1 and what
\* the handlers have saved hold every interrupted context, in order, each once.
ResumesInterrupted ==
    interrupted = IF holding THEN Append(saved, [pc |-> cpu.srr0, ee |-> cpu.srr1])
                  ELSE saved

\* A block runs with interrupts enabled only if none is waiting, at the boundary before it.
TakenAtBoundary ==
    [][cpu.at = "boundary" /\ cpu'.at = "block" /\ cpu'.ee
       => intsr \cap intmr = {} /\ ~time'.pending]_cpuvars

\* An alarm of the guest is not lost: a decrementer that passed zero, and was not set to a
\* new time since, has its interrupt pending until a handler runs for it.
DecrementerKept == owed => time.pending

\* The time base and the clock of the devices agree to the cycle, whatever the blocks
\* count and in whichever of the two ways they are charged.
TimeKept ==
    (TbRatio * time.timebase + time.remainder + origin - time.device)
        % (TbRatio * TbModulus) = 0
=============================================================================
