-------------------------------- MODULE Fifo --------------------------------
(***************************************************************************)
(* The graphics FIFO: the gather pipe that bursts the guest's stores into  *)
(* memory (runtime/src/gp.c), the command processor that counts them       *)
(* (cp.c), the GX tick that consumes them (gcn_gx_tick of gx.c) and the    *)
(* pixel engine (pe.c), whose signals the GX worker raises from its own    *)
(* thread while the tick goes on. Pointers, the distance and the           *)
(* watermarks count bursts of 32 bytes.                                    *)
(***************************************************************************)
EXTENDS Pi, Sequences

CONSTANTS
    FifoSize,    \* bursts of the ring: its last one is at END
    Gather,      \* stores of a burst
    FifoBudget,  \* bursts one tick may consume
    Watermarks,  \* pairs of a high and a low watermark the guest uses
    Breaks       \* places it sets the breakpoint to

ASSUME FifoAssumption ==
    /\ {FifoSize, Gather, FifoBudget} \subseteq Nat \ {0}
    /\ Breaks \subseteq Nat
    \* The line rises with the burst after the one that passes the watermark.
    /\ \A w \in Watermarks : w.high \in Nat /\ w.low \in Nat /\ w.high + 2 <= FifoSize

VARIABLES
    fifo,     \* the gather pipe and the command processor
    ram,      \* what each burst of the ring holds: a PE command, or none
    gxtick,   \* the tick under way
    pe,       \* the pixel engine and the worker inside it
    unread    \* history: the bursts sent and not consumed, once both sides agree

fifovars == <<fifo, ram, gxtick, pe, unread>>

Kinds   == {"none", "token", "finish"}
Signals == {"token", "finish"}
Ring    == 0..(FifoSize - 1)
Unknown == <<"unknown">>

FifoInit ==
    /\ fifo = [ctrl |-> {}, high |-> 0, low |-> 0, hiwm |-> FALSE, lowm |-> FALSE,
               write |-> 0, read |-> 0, distance |-> 0, break |-> 0, staged |-> 0]
    /\ ram = [b \in Ring |-> "none"]
    /\ gxtick = [on |-> FALSE, left |-> 0, fences |-> <<>>]
    /\ pe = [signal |-> {}, enable |-> {}, at |-> "idle", levels |-> {}, word |-> {}]
    /\ unread = Unknown

-----------------------------------------------------------------------------
(* The command processor. *)

\* Mutant: the line is one burst later still.
WatchedLate(f) == [f EXCEPT !.hiwm = f.distance > f.high + 1, !.lowm = f.distance < f.low]

\* cp_update_interrupts: the watermarks as of this distance.
Watched(f) == [f EXCEPT !.hiwm = f.distance > f.high, !.lowm = f.distance < f.low]

CpLevel(f) == "READ" \in f.ctrl /\ \/ f.hiwm /\ "HIINT" \in f.ctrl
                                   \/ f.lowm /\ "LOINT" \in f.ctrl

CpPush(f) == fifo' = Watched(f) /\ Push("CP", CpLevel(Watched(f)))

AtBreakpoint(f) == "BREAK" \in f.ctrl /\ f.read = f.break

\* Mutant: the pointer is compared with the place after END.
NextBurstPast(b) == IF b = FifoSize THEN 0 ELSE b + 1

\* Both pointers wrap from END to BASE: the last burst is at END.
NextBurst(b) == IF b = FifoSize - 1 THEN 0 ELSE b + 1

\* The guest writes the control register.
CpWriteCtrl(ctrl) ==
    /\ CpPush([fifo EXCEPT !.ctrl = ctrl])
    /\ UNCHANGED <<ram, gxtick, pe, unread>>

\* The guest gives the PI and the CP the same FIFO, empty, with both switched off:
\* no write of these raises the line.
CpAttach(b, w) ==
    /\ fifo.ctrl \cap {"READ", "LINK"} = {}
    /\ CpPush([fifo EXCEPT !.write = b, !.read = b, !.distance = 0, !.high = w.high,
                           !.low = w.low])
    /\ unread' = <<>>
    /\ UNCHANGED <<ram, gxtick, pe>>

CpWriteBreak(b) ==
    /\ CpPush([fifo EXCEPT !.break = b])
    /\ UNCHANGED <<ram, gxtick, pe, unread>>

-----------------------------------------------------------------------------
(* The gather pipe. *)

\* gcn_gp_write: a store that does not fill the block.
GpStage ==
    /\ fifo.staged + 1 < Gather
    /\ fifo' = [fifo EXCEPT !.staged = @ + 1]
    /\ UNCHANGED <<ram, gxtick, pe, unread, pivars>>

\* gp_flush_burst and gcn_cp_gather_pipe_bursted: the watermarks are looked at with
\* the distance before the burst, which counts only when the CP is linked.
GpBurst(kind) ==
    LET seen   == Watched(fifo)
        moved  == [seen EXCEPT !.staged = 0, !.write = NextBurst(@)]
        linked == "LINK" \in fifo.ctrl
    IN  /\ fifo.staged + 1 = Gather
        /\ ram' = [ram EXCEPT ![fifo.write] = kind]
        /\ fifo' = IF linked THEN [moved EXCEPT !.distance = @ + 1] ELSE moved
        /\ Push("CP", CpLevel(seen))
        /\ unread' = IF linked /\ unread # Unknown THEN Append(unread, kind) ELSE Unknown
        /\ UNCHANGED <<gxtick, pe>>

\* The guest's own rule: linked, it relies on the overflow interrupt for room.
HasRoom ==
    "LINK" \in fifo.ctrl => {"READ", "HIINT"} \subseteq fifo.ctrl /\ "CP" \notin intsr

\* gcn_gp_reset, from PI_FIFO_RESET: what is staged is dropped.
GpReset ==
    /\ fifo.staged # 0
    /\ fifo' = [fifo EXCEPT !.staged = 0]
    /\ UNCHANGED <<ram, gxtick, pe, unread, pivars>>

-----------------------------------------------------------------------------
(* The tick and the worker. *)

GxTickStart ==
    /\ "READ" \in fifo.ctrl /\ fifo.distance > 0 /\ ~AtBreakpoint(fifo)
    /\ gxtick' = [on |-> TRUE, left |-> FifoBudget, fences |-> <<>>]
    /\ UNCHANGED <<fifo, ram, pe, unread, pivars>>

CanConsume ==
    gxtick.left > 0 /\ fifo.distance > 0 /\ ~AtBreakpoint(fifo)

\* The chunk the tick reads.
Taken(f) == ram[f.read]

\* A chunk is read and published to the worker, and the CP moves on: the distance
\* never goes below zero.
GxConsume ==
    LET kind == Taken(fifo)
    IN  /\ CanConsume
        /\ gxtick' = [gxtick EXCEPT !.left = @ - 1,
                                    !.fences = IF kind = "none" THEN @ ELSE Append(@, kind)]
        /\ CpPush([fifo EXCEPT !.read = NextBurst(@), !.distance = @ - 1])
        /\ unread' = IF unread = Unknown THEN Unknown ELSE Tail(unread)
        /\ UNCHANGED <<ram, pe>>

\* The tick waits for the worker to be past every PE command it has consumed.
GxTickEnd ==
    /\ ~CanConsume /\ gxtick.fences = <<>> /\ pe.at = "idle"
    /\ gxtick' = [gxtick EXCEPT !.on = FALSE, !.left = 0]
    /\ UNCHANGED <<fifo, ram, pe, unread, pivars>>

Raised(p) == p.signal \cap p.enable

\* gcn_pe_set_token and gcn_pe_set_finish: the worker latches the signal, and works
\* out both levels.
PeSignal ==
    /\ gxtick.fences # <<>> /\ pe.at = "idle"
    /\ pe' = LET p == [pe EXCEPT !.signal = @ \cup {Head(gxtick.fences)}]
             IN  [p EXCEPT !.at = "token", !.levels = Raised(p), !.word = intsr]
    /\ gxtick' = [gxtick EXCEPT !.fences = Tail(@)]
    /\ UNCHANGED <<fifo, ram, unread, pivars>>

Cause(signal) == IF signal = "token" THEN "PE_TOKEN" ELSE "PE_FINISH"

\* Mutant: the worker writes back the word it had read before, with its own bit in it.
PePushStale(signal) ==
    /\ pe.at = signal
    /\ intsr' = (pe.word \ {Cause(signal)}) \cup
                {c \in {Cause(signal)} : signal \in pe.levels}
    /\ acked' = acked
    /\ pe' = IF signal = "token" THEN [pe EXCEPT !.at = "finish", !.word = intsr']
             ELSE [pe EXCEPT !.at = "idle", !.levels = {}, !.word = {}]
    /\ UNCHANGED <<fifo, ram, gxtick, unread>>

\* The worker pushes one level after the other, while the tick pushes the CP's.
PePush(signal) ==
    /\ pe.at = signal
    /\ Push(Cause(signal), signal \in pe.levels)
    /\ pe' = IF signal = "token" THEN [pe EXCEPT !.at = "finish", !.word = intsr']
             ELSE [pe EXCEPT !.at = "idle", !.levels = {}, !.word = {}]
    /\ UNCHANGED <<fifo, ram, gxtick, unread>>

\* The guest writes the PE control register: signals written as one are
\* acknowledged, the enables copied, and both lines evaluated.
PeWriteCtrl(clear, enable) ==
    /\ pe' = [pe EXCEPT !.signal = @ \ clear, !.enable = enable]
    /\ Drive([c \in {Cause(s) : s \in Signals} |->
                \E s \in Signals : c = Cause(s) /\ s \in Raised(pe')])
    /\ UNCHANGED <<fifo, ram, gxtick, unread>>

-----------------------------------------------------------------------------

Controls == {{}, {"READ", "LINK", "HIINT"}, {"READ", "LINK", "LOINT"},
             {"READ", "LINK", "HIINT", "BREAK"}}

\* The guest switches on the FIFO that it has attached, and not written to unlinked.
FifoGuest ==
    \/ CpWriteCtrl({})
    \/ unread # Unknown /\ \E ctrl \in Controls : CpWriteCtrl(ctrl)
    \/ \E b \in Ring, w \in Watermarks : CpAttach(b, w)
    \/ \E b \in Breaks : CpWriteBreak(b)
    \/ HasRoom /\ (GpStage \/ \E kind \in Kinds : GpBurst(kind))
    \/ GpReset
    \/ \E clear \in SUBSET Signals, enable \in {{}, Signals} : PeWriteCtrl(clear, enable)

FifoNext ==
    \/ ~gxtick.on /\ (FifoGuest \/ GxTickStart)
    \/ gxtick.on /\ (GxConsume \/ GxTickEnd)
    \/ PeSignal
    \/ \E signal \in Signals : PePush(signal)

-----------------------------------------------------------------------------
(* Properties. *)

FifoTypeOK ==
    /\ fifo.ctrl \in Controls
    /\ {fifo.write, fifo.read, fifo.break} \subseteq Ring \cup Breaks
    /\ fifo.distance \in Nat /\ fifo.staged \in 0..(Gather - 1)
    /\ ram \in [Ring -> Kinds]
    /\ gxtick.left \in 0..FifoBudget /\ (gxtick.fences # <<>> => gxtick.on)
    /\ pe.signal \subseteq Signals /\ pe.enable \subseteq Signals
    /\ pe.at \in {"idle"} \cup Signals /\ (pe.at # "idle" => gxtick.on)

\* What the guest has sent and the GPU has not consumed is in the ring, in order and
\* whole: the distance counts it, the pointers are as far apart, and a guest that stops
\* at the overflow interrupt overwrites none of it although the interrupt is late.
FifoExact ==
    unread # Unknown =>
        /\ fifo.distance = Len(unread) /\ fifo.distance <= FifoSize
        /\ fifo.write = (fifo.read + fifo.distance) % FifoSize
        /\ \A k \in 1..Len(unread) : ram[(fifo.read + k - 1) % FifoSize] = unread[k]
=============================================================================
