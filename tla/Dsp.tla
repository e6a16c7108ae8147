-------------------------------- MODULE Dsp --------------------------------
(***************************************************************************)
(* The DSP's interface as the guest sees it (runtime/src/dsp.c and         *)
(* dsp_regs.c): the control register with its three interrupts and their   *)
(* masks, the audio DMA that plays a buffer block by block and loads the   *)
(* next one by itself, and the one-shot ARAM DMA. The core and its worker  *)
(* are DspWorker's; here the core asks for an interrupt whenever it may.   *)
(* Time is counted in whole periods of an audio block.                     *)
(***************************************************************************)
EXTENDS Pi

CONSTANTS
    Sources,     \* addresses of audio buffers, in blocks
    MaxBlocks,   \* longest audio buffer, in blocks
    AramTicks    \* ticks an ARAM DMA may take

ASSUME DspAssumption ==
    /\ Sources \subseteq Nat /\ MaxBlocks \in Nat /\ AramTicks \subseteq Nat \ {0}

VARIABLES
    dsp,    \* the control register, the core's request, the ARAM DMA
    aid,    \* the audio DMA
    heard   \* history: the buffer that was loaded, and what of it was played

dspvars == <<dsp, aid, heard>>

DspBits == {"AID", "AR", "DSP"}

DspInit ==
    /\ dsp = [int |-> {}, masks |-> {}, asks |-> FALSE, dma |-> FALSE, left |-> 0]
    /\ aid = [source |-> 0, on |-> FALSE, blocks |-> 0, at |-> 0, left |-> 0,
              starting |-> FALSE]
    /\ heard = [from |-> 0, length |-> 0, played |-> 0]

DspLevel(d) == d.int \cap d.masks # {}

\* dsp_latch_mailbox_int: the core's request is taken and stays in the register.
Latched(d) ==
    [d EXCEPT !.int = IF d.asks THEN @ \cup {"DSP"} ELSE @, !.asks = FALSE]

\* The core asks for an interrupt, on whatever thread runs it.
CoreAsks ==
    /\ ~dsp.asks /\ dsp' = [dsp EXCEPT !.asks = TRUE]
    /\ UNCHANGED <<aid, heard, pivars>>

\* A read of the control register, with the flush before it.
DspReadCsr ==
    /\ dsp' = Latched(dsp)
    /\ Push("DSP", DspLevel(dsp'))
    /\ UNCHANGED <<aid, heard>>

\* A write begins with a full flush, which latches only if it had cycles to run; the
\* control register then takes masks and acknowledged bits.
DspWriteCsr(ran, masks, clear) ==
    /\ dsp' = [IF ran THEN Latched(dsp) ELSE dsp EXCEPT !.int = @ \ clear, !.masks = masks]
    /\ Push("DSP", DspLevel(dsp'))
    /\ UNCHANGED <<aid, heard>>

\* gcn_dsp_aram_advance
AramAdvanced(d) ==
    IF ~d.dma THEN d
    ELSE IF d.left > 1 THEN [d EXCEPT !.left = @ - 1]
    ELSE [d EXCEPT !.dma = FALSE, !.left = 0, !.int = @ \cup {"AR"}]

\* The guest writes the low half of the count: the copy is made, the time is not over.
\* A second kick starts the time again.
AramKick(ticks) ==
    /\ dsp' = [dsp EXCEPT !.dma = TRUE, !.left = ticks]
    /\ UNCHANGED <<aid, heard, pivars>>

-----------------------------------------------------------------------------
(* Audio DMA. *)

\* The guest writes the start address; the buffer being played is not affected.
AidWriteStart(source) ==
    /\ aid' = [aid EXCEPT !.source = source]
    /\ UNCHANGED <<dsp, heard, pivars>>

Loaded(a) == [a EXCEPT !.at = a.source, !.left = a.blocks]

\* The guest writes control and length: switching it on loads the buffer and asks
\* for the interrupt of the next tick; already on, it waits for the buffer's end.
AidWriteControl(on, blocks) ==
    LET set == [aid EXCEPT !.on = on, !.blocks = blocks]
    IN  /\ IF on /\ ~aid.on
           THEN /\ aid' = [Loaded(set) EXCEPT !.starting = TRUE]
                /\ heard' = [from |-> set.source, length |-> blocks, played |-> 0]
           ELSE aid' = set /\ UNCHANGED heard
        /\ UNCHANGED <<dsp, pivars>>

\* The block played moves the address and the countdown; the last one loads the
\* buffer again from what the guest has written since.
Advanced(a) == IF a.left # 0 THEN [a EXCEPT !.left = @ - 1, !.at = @ + 1] ELSE a

\* Mutant: the countdown is looked at before it is moved.
EndedLate(a) == a.left = 0

Ended(a) == Advanced(a).left = 0

\* gcn_dsp_tick, at the end of an audio block's period or within one: latch, ARAM,
\* audio, and the line, which a tick evaluates whether or not anything changed.
DspTick(period) ==
    LET plays == period /\ aid.on
        ends  == plays /\ Ended(aid)
        base  == AramAdvanced(Latched(dsp))
    IN  /\ aid' = [IF ends THEN Loaded(aid) ELSE IF plays THEN Advanced(aid) ELSE aid
                   EXCEPT !.starting = FALSE]
        /\ dsp' = [base EXCEPT !.int = IF ends \/ aid.starting THEN @ \cup {"AID"} ELSE @]
        /\ heard' = IF ends THEN [from |-> aid.source, length |-> aid.blocks, played |-> 0]
                    ELSE IF plays THEN [heard EXCEPT !.played = @ + 1] ELSE heard
        /\ Push("DSP", DspLevel(dsp'))

DspNext ==
    \/ CoreAsks
    \/ DspReadCsr
    \/ \E ran \in BOOLEAN, masks \in {{}, DspBits}, clear \in {{}, {"AID"}, DspBits} :
          DspWriteCsr(ran, masks, clear)
    \/ \E ticks \in AramTicks : AramKick(ticks)
    \/ \E source \in Sources : AidWriteStart(source)
    \/ \E on \in BOOLEAN, blocks \in 0..MaxBlocks : AidWriteControl(on, blocks)
    \/ \E period \in BOOLEAN : DspTick(period)

DspTypeOK ==
    /\ dsp.int \subseteq DspBits /\ dsp.masks \subseteq DspBits
    /\ {dsp.asks, dsp.dma, aid.on, aid.starting} \subseteq BOOLEAN
    /\ dsp.left \in Nat /\ (dsp.dma <=> dsp.left > 0)
    /\ aid.source \in Nat /\ aid.blocks \in 0..MaxBlocks /\ aid.left \in 0..MaxBlocks

\* What is played next is the next block of the buffer that was loaded, and the buffer
\* ends where its length says, whatever the guest has written in the meantime; a
\* buffer of no blocks plays one.
AidInBuffer ==
    /\ aid.at = heard.from + heard.played
    /\ aid.left + heard.played = heard.length
    /\ heard.played = 0 \/ heard.played < heard.length
=============================================================================
