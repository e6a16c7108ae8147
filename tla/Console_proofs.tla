-------------------------- MODULE Console_proofs --------------------------
(***************************************************************************)
(* What the components promise, promised by the whole console: the         *)
(* invariant of each of them holds at power-on, is kept by its own steps,  *)
(* and cannot be disturbed by a step of another, which leaves its          *)
(* variables alone. The word of interrupt causes is the one variable that  *)
(* every device writes: each pushes its own cause and no other, so that    *)
(* the line of each device is in the word whatever the others do.          *)
(***************************************************************************)
EXTENDS Console, Component_proofs, TLAPS

-----------------------------------------------------------------------------
(* The word of causes: who pushes what. *)

\* A step that pushes at most these causes, and acknowledges no other.
Only(cs) ==
    \A d \in Causes \ cs : (d \in intsr' <=> d \in intsr) /\ (d \in acked' <=> d \in acked)

\* A push is of its own cause, and nothing is of none.
LEMMA PushOnly ==
    ASSUME NEW c, NEW level, Push(c, level) \/ UNCHANGED pivars
    PROVE  Only({c})
  BY DEF Push, Drive, Only, pivars

\* The drive.
LEMMA DiOnly == ASSUME DiNext PROVE Only({"DI"})
<1>1. ASSUME NEW d, DiPush(d) \/ UNCHANGED pivars PROVE Only({"DI"})
  BY <1>1, PushOnly DEF DiPush
<1> QED BY <1>1 DEF DiNext, DiGuest, DiCommand, DiStop, DiSetDma, DiSpinUp, DiWriteStatus,
                    DiTick, DiMount

\* The audio interface.
LEMMA AiOnly == ASSUME AiNext PROVE Only({"AI"})
<1>1. ASSUME NEW a, NEW n, Advance(a, n) PROVE Only({"AI"})
  BY <1>1, PushOnly DEF Advance
<1> QED BY <1>1, PushOnly DEF AiNext, AiWriteControl, AiWriteCount, AiWriteTiming, AiTick,
                    AiTickLegacy

\* The DSP's interface.
LEMMA DspOnly == ASSUME DspNext PROVE Only({"DSP"})
  BY PushOnly DEF DspNext, CoreAsks, DspReadCsr, DspWriteCsr, AramKick, AidWriteStart,
                  AidWriteControl, DspTick

\* The serial interface.
LEMMA SiOnly == ASSUME SiNext PROVE Only({"SI"})
  BY PushOnly DEF SiNext, SiTransfers, SiReadReport, SiWriteComcsr, SiWriteSisr, SiWritePoll

\* The beam, which may poll.
LEMMA ViOnly == ASSUME ViNext PROVE Only({"SI", "VI"})
<1>1. CASE ViAdvance
  BY <1>1 DEF ViAdvance, Push, Drive, Only
<1>2. CASE ~ViAdvance
  <2>1. \/ \E level : Push("VI", level)
        \/ UNCHANGED pivars
    BY <1>2 DEF ViNext, ViWriteDisplay, ViReset, ViSetField
  <2>2. Only({"VI"})
    BY <2>1, PushOnly
  <2> QED BY <2>2 DEF Only
<1> QED BY <1>1, <1>2

\* The CPU reads the word.
LEMMA CpuOnly == ASSUME CpuNext \/ SnapshotResumed PROVE UNCHANGED pivars
  BY DEF CpuNext, Deliver, Compute, SystemCall, Enable, Disable, Restore, Rfi, WriteDec,
         WriteTimebase, WriteIntmr, SnapshotResumed

\* The command processor and the pixel engine, from either thread.
LEMMA FifoOnly == ASSUME FifoNext PROVE Only({"CP", "PE_TOKEN", "PE_FINISH"})
<1>1. ASSUME NEW level, Push("CP", level) \/ UNCHANGED pivars
      PROVE  Only({"CP", "PE_TOKEN", "PE_FINISH"})
  <2>1. Only({"CP"})
    BY <1>1, PushOnly
  <2> QED BY <2>1 DEF Only
<1>2. ASSUME NEW signal \in Signals, PePush(signal)
      PROVE  Only({"CP", "PE_TOKEN", "PE_FINISH"})
  <2>1. Only({Cause(signal)})
    BY <1>2, PushOnly DEF PePush
  <2> QED BY <2>1 DEF Only, Cause
<1>3. ASSUME NEW clear, NEW enable, PeWriteCtrl(clear, enable)
      PROVE  Only({"CP", "PE_TOKEN", "PE_FINISH"})
  <2>1. {Cause(s) : s \in Signals} \subseteq {"CP", "PE_TOKEN", "PE_FINISH"}
    BY DEF Cause
  <2> QED BY <2>1, <1>3 DEF PeWriteCtrl, Drive, Only
<1> QED BY <1>1, <1>2, <1>3 DEF FifoNext, FifoGuest, CpWriteCtrl, CpAttach, CpWriteBreak, CpPush,
           GpBurst, GpStage, GpReset, GxTickStart, GxConsume, GxTickEnd, PeSignal

\* The word shows what was pushed.
LEMMA PushLine ==
    ASSUME NEW c \in Causes, NEW level, Push(c, level)
    PROVE  Only({c}) /\ (c \in intsr' <=> level)
  BY DEF Push, Drive, Only

\* A step that leaves the word alone.
LEMMA NoPush == ASSUME UNCHANGED pivars, NEW cs PROVE Only(cs)
  BY DEF pivars, Only

-----------------------------------------------------------------------------
(* Each device's own line. *)

DiLine  == Agrees("DI", DiLevel(di))
DiShape == {"status", "masks", "tstart"} \subseteq DOMAIN di
DiPart  == DiShape /\ DiLine

\* A command changes neither the interrupt bits nor their masks (di_execute_command).
LEMMA ExecuteQuiet ==
    ASSUME NEW d, {"status", "masks", "tstart"} \subseteq DOMAIN d, NEW cmd \in Commands,
           NEW offset, NEW asked, NEW on, NEW latency
    PROVE  LET r == Execute(d, cmd, offset, asked, on, latency)
           IN  /\ {"status", "masks", "tstart"} \subseteq DOMAIN r
               /\ r.status = d.status /\ r.masks = d.masks
<1> DEFINE Same(r) == /\ {"status", "masks", "tstart"} \subseteq DOMAIN r
                      /\ r.status = d.status /\ r.masks = d.masks
<1>1. ASSUME NEW x, Same(x), NEW e PROVE Same(Refuse(x, e))
  BY <1>1 DEF Refuse
<1>2. ASSUME NEW x, Same(x), NEW o, NEW a PROVE Same(PrepareRead(x, o, a, latency))
  <2> DEFINE length == Smaller(a, x.length)
             fits   == Smaller(length, RamBlocks - x.mar)
             read   == {[offset |-> o, length |-> fits, addr |-> x.mar, of |-> disc]}
  <2>1. \/ PrepareRead(x, o, a, latency) = Refuse(x, "BLOCK_OOB")
        \/ PrepareRead(x, o, a, latency) = x
        \/ PrepareRead(x, o, a, latency) = [x EXCEPT !.intr = "DEINT"]
        \/ PrepareRead(x, o, a, latency) = [x EXCEPT !.read = read, !.cycles = latency]
    BY DEF PrepareRead
  <2> HIDE DEF length, fits, read
  <2> QED BY <2>1, <1>1, <1>2
<1>3. ASSUME NEW s, NEW o, NEW a PROVE Same(ReadFrom(d, s, o, a, latency))
  <2>1. Same([d EXCEPT !.drive = s])
    OBVIOUS
  <2> HIDE DEF Same
  <2> QED BY <2>1, <1>1, <1>2 DEF ReadFrom
<1>4. /\ Same(d) /\ Same([d EXCEPT !.error = "NONE"])
      /\ Same([d EXCEPT !.drive = "MOTOR_STOPPED"]) /\ Same([d EXCEPT !.dtk = on])
  OBVIOUS
<1>5. Same(Execute(d, cmd, offset, asked, on, latency))
  <2> HIDE DEF Same
  <2> QED BY <1>1, <1>3, <1>4 DEF Execute, Commands
<1> QED BY <1>5

\* The line of the drive.
LEMMA DiLines ==
    ASSUME DiPart, DiNext
    PROVE  DiPart'
<1> USE DEF DiPart
<1>1. ASSUME NEW cmd \in Commands, NEW offset, NEW asked, NEW on, NEW latency,
             DiCommand(cmd, offset, asked, on, latency)
      PROVE  DiShape' /\ DiLine'
  <2>1. PICK d : /\ {"status", "masks", "tstart"} \subseteq DOMAIN d
                 /\ d.status = di.status /\ d.masks = di.masks
                 /\ di' = Execute(d, cmd, offset, asked, on, latency)
    BY <1>1 DEF DiCommand, DiShape
  <2>2. DiShape' /\ di'.status = di.status /\ di'.masks = di.masks
    BY <2>1, ExecuteQuiet DEF DiShape
  <2>3. UNCHANGED pivars
    BY <1>1 DEF DiCommand
  <2> QED BY <2>2, <2>3 DEF DiLine, DiLevel, Agrees, pivars
<1>2. ASSUME NEW mar, NEW length, DiStop \/ DiSetDma(mar, length) \/ DiSpinUp
      PROVE  DiShape' /\ DiLine'
  <2>1. UNCHANGED pivars
    BY <1>2 DEF DiStop, DiSetDma, DiSpinUp
  <2>2. DiShape' /\ di'.status = di.status /\ di'.masks = di.masks
    BY <1>2 DEF DiShape, DiStop, DiSetDma, DiSpinUp, ResetDrive
  <2> QED BY <2>1, <2>2 DEF DiLine, DiLevel, Agrees, pivars
<1>3. ASSUME DiPush(di')
      PROVE  DiLine'
  BY <1>3, PushLine DEF DiPush, DiLine, Agrees, Causes
<1>4. ASSUME NEW reg, NEW masks, NEW clear, DiWriteStatus(reg, masks, clear)
      PROVE  DiShape' /\ DiLine'
  <2>1. DiShape'
    BY <1>4 DEF DiWriteStatus, DiShape
  <2> QED BY <2>1, <1>3, <1>4 DEF DiWriteStatus
<1>5. CASE DiTick
  <2>1. DiShape'
    BY <1>5 DEF DiTick, DiShape, Completed
  <2>2. CASE di'.status = di.status /\ di'.masks = di.masks /\ UNCHANGED pivars
    BY <2>1, <2>2 DEF DiLine, DiLevel, Agrees, pivars
  <2>3. DiPush(di') \/ (di'.status = di.status /\ di'.masks = di.masks /\ UNCHANGED pivars)
    BY <1>5 DEF DiTick, DiShape, Completed
  <2> QED BY <2>1, <2>2, <2>3, <1>3
<1>6. ASSUME NEW d, DiMount(d)
      PROVE  DiShape' /\ DiLine'
  <2>1. DiShape'
    BY <1>6 DEF DiMount, DiShape, ResetDrive
  <2>2. CASE di'.status = di.status /\ di'.masks = di.masks /\ UNCHANGED pivars
    BY <2>1, <2>2 DEF DiLine, DiLevel, Agrees, pivars
  <2>3. DiPush(di') \/ (di'.status = di.status /\ di'.masks = di.masks /\ UNCHANGED pivars)
    BY <1>6 DEF DiMount, DiShape, ResetDrive
  <2> QED BY <2>1, <2>2, <2>3, <1>3
<1> QED BY <1>1, <1>2, <1>4, <1>5, <1>6 DEF DiNext, DiGuest

-----------------------------------------------------------------------------
AiLine  == Agrees("AI", AiLevel(ai))
AiShape == {"int", "masked"} \subseteq DOMAIN ai
AiPart  == AiShape /\ AiLine

\* Samples push the line when one of them raises the interrupt.
LEMMA AdvanceLines ==
    ASSUME AiShape, AiLine, NEW a, NEW n, Advance(a, n), {"int", "masked"} \subseteq DOMAIN a,
           a.int = ai.int, a.masked = ai.masked
    PROVE  AiShape' /\ AiLine'
<1>1. AiShape' /\ ai'.masked = ai.masked /\ (~Reached(ai, n) => (ai'.int <=> ai.int))
  BY DEF Advance, AiShape
<1>2. CASE Reached(ai, n)
  BY <1>1, <1>2, PushLine DEF Advance, AiLine, Agrees, Causes
<1>3. CASE ~Reached(ai, n)
  BY <1>1, <1>3 DEF Advance, AiLine, AiLevel, Agrees, pivars
<1> QED BY <1>2, <1>3, <1>1

\* The line of the audio interface.
LEMMA AiLines ==
    ASSUME AiPart, AiNext
    PROVE  AiPart'
<1> USE DEF AiPart
<1>1. ASSUME NEW play, NEW fast, NEW masked, NEW ack, NEW reset,
             AiWriteControl(play, fast, masked, ack, reset)
      PROVE  AiShape' /\ AiLine'
  <2>1. AiShape'
    BY <1>1 DEF AiWriteControl, AiShape
  <2> QED BY <2>1, <1>1, PushLine DEF AiWriteControl, AiLine, Agrees, Causes
<1>2. ASSUME NEW n, AiWriteCount(n) \/ AiWriteTiming(n)
      PROVE  AiShape' /\ AiLine'
  <2>1. AiShape' /\ ai'.int = ai.int /\ ai'.masked = ai.masked /\ UNCHANGED pivars
    BY <1>2 DEF AiWriteCount, AiWriteTiming, AiShape
  <2> QED BY <2>1 DEF AiLine, AiLevel, Agrees, pivars
<1>3. ASSUME NEW cycles, AiTick(cycles)
      PROVE  AiShape' /\ AiLine'
  BY <1>3, AdvanceLines DEF AiTick, AiShape
<1>4. CASE AiTickLegacy
  BY <1>4, AdvanceLines DEF AiTickLegacy, AiShape
<1> QED BY <1>1, <1>2, <1>3, <1>4 DEF AiNext

-----------------------------------------------------------------------------
DspLine  == Agrees("DSP", DspLevel(dsp))
DspShape == {"int", "masks", "asks"} \subseteq DOMAIN dsp
DspPart  == DspShape /\ DspLine

\* The line of the DSP's interface.
LEMMA DspLines ==
    ASSUME DspPart, DspNext
    PROVE  DspPart'
<1> USE DEF DspPart
<1>1. ASSUME DspShape', Push("DSP", DspLevel(dsp'))
      PROVE  DspShape' /\ DspLine'
  BY <1>1, PushLine DEF DspLine, Agrees, Causes
<1>2. ASSUME DspShape', dsp'.int = dsp.int, dsp'.masks = dsp.masks, UNCHANGED pivars
      PROVE  DspShape' /\ DspLine'
  BY <1>2 DEF DspLine, DspLevel, Agrees, pivars
<1>3. CASE CoreAsks
  BY <1>2, <1>3 DEF CoreAsks, DspShape
<1>4. CASE DspReadCsr
  BY <1>1, <1>4 DEF DspReadCsr, DspShape, Latched
<1>5. ASSUME NEW ran, NEW masks, NEW clear, DspWriteCsr(ran, masks, clear)
      PROVE  DspShape' /\ DspLine'
  BY <1>1, <1>5 DEF DspWriteCsr, DspShape, Latched
<1>6. ASSUME NEW ticks, AramKick(ticks)
      PROVE  DspShape' /\ DspLine'
  BY <1>2, <1>6 DEF AramKick, DspShape
<1>7. ASSUME NEW source, NEW on, NEW blocks, AidWriteStart(source) \/ AidWriteControl(on, blocks)
      PROVE  DspShape' /\ DspLine'
  BY <1>2, <1>7 DEF AidWriteStart, AidWriteControl, DspShape
<1>8. ASSUME NEW period, DspTick(period)
      PROVE  DspShape' /\ DspLine'
  BY <1>1, <1>8 DEF DspTick, DspShape, AramAdvanced, Latched
<1> QED BY <1>3, <1>4, <1>5, <1>6, <1>7, <1>8 DEF DspNext

-----------------------------------------------------------------------------
SiShape == {"rdst", "tcint", "masks"} \subseteq DOMAIN si
SiPart  == SiShape /\ Agrees("SI", SiLevel(si))

\* The line of the serial interface, by the guest.
LEMMA SiLines ==
    ASSUME SiPart, SiNext
    PROVE  SiPart'
<1>1. ASSUME SiShape', Push("SI", SiLevel(si'))
      PROVE  SiPart'
  BY <1>1, PushLine DEF SiPart, Agrees, Causes
<1>2. ASSUME NEW n, SiReadReport(n) PROVE SiPart'
  BY <1>1, <1>2 DEF SiReadReport, SiPart, SiShape
<1>3. ASSUME NEW masks, NEW ack, NEW start, NEW n, SiWriteComcsr(masks, ack, start, n)
      PROVE  SiPart'
  BY <1>1, <1>3 DEF SiWriteComcsr, SiPart, SiShape
<1>4. ASSUME NEW ns, SiWriteSisr(ns) PROVE SiPart'
  BY <1>1, <1>4 DEF SiWriteSisr, SiPart, SiShape
<1>5. ASSUME NEW x, SiWritePoll(x) PROVE SiPart'
  <2>1. SiShape' /\ si'.rdst = si.rdst /\ si'.tcint = si.tcint /\ si'.masks = si.masks
        /\ UNCHANGED pivars
    BY <1>5 DEF SiWritePoll, SiPart, SiShape
  <2> QED BY <2>1 DEF SiPart, SiLevel, Agrees, pivars
<1> QED BY <1>2, <1>3, <1>4, <1>5 DEF SiNext, SiTransfers

Starting(v) == [v EXCEPT !.odd = Longest, !.even = Longest] = ViStart

ViShape == {"int", "masked"} \subseteq DOMAIN vi
ViPart  == ViShape /\ (Starting(vi) \/ Agrees("VI", ViLevel(vi)))

\* The lines of the beam, and of the polls it makes. VI's bit is up from power-on until its
\* line is evaluated for the first time.
LEMMA ViLines ==
    ASSUME SiPart, ViPart, ViNext
    PROVE  SiPart' /\ ViPart'
<1>1. ASSUME ViShape', Push("VI", ViLevel(vi')), UNCHANGED si
      PROVE  SiPart' /\ ViPart'
  <2>1. Only({"VI"}) /\ ("VI" \in intsr' <=> ViLevel(vi'))
    BY <1>1, PushLine DEF Causes
  <2>2. "SI" \in Causes \ {"VI"}
    BY DEF Causes
  <2> QED BY <1>1, <2>1, <2>2 DEF SiPart, SiShape, ViPart, Agrees, Only
<1>2. CASE ViAdvance
  <2>1. ViShape'
    BY <1>2 DEF ViAdvance, Moved, ViPart, ViShape
  <2>2. SiShape'
    BY <1>2 DEF ViAdvance, BeamPoll, Polled, SiPart, SiShape
  <2>3. CASE Due(si, vi.half)
    <3>1. Drive([c \in {"SI", "VI"} |-> IF c = "SI" THEN SiLevel(si') ELSE ViLevel(vi')])
      BY <1>2, <2>3 DEF ViAdvance
    <3>2. ("SI" \in intsr' <=> SiLevel(si')) /\ ("VI" \in intsr' <=> ViLevel(vi'))
      BY <3>1 DEF Drive
    <3> QED BY <2>1, <2>2, <3>2 DEF SiPart, ViPart, Agrees
  <2>4. CASE ~Due(si, vi.half)
    <3>1. Push("VI", ViLevel(vi'))
      BY <1>2, <2>4 DEF ViAdvance
    <3>2. si'.rdst = si.rdst /\ si'.tcint = si.tcint /\ si'.masks = si.masks
      BY <1>2, <2>4 DEF ViAdvance, BeamPoll, SiPart, SiShape
    <3>3. Only({"VI"}) /\ ("VI" \in intsr' <=> ViLevel(vi'))
      BY <3>1, PushLine DEF Causes
    <3>4. "SI" \in Causes \ {"VI"}
      BY DEF Causes
    <3> QED BY <2>1, <2>2, <3>2, <3>3, <3>4 DEF SiPart, SiLevel, ViPart, Agrees, Only
  <2> QED BY <2>3, <2>4
<1>3. ASSUME NEW d, NEW at, NEW int, NEW masked, ViWriteDisplay(d, at, int, masked)
      PROVE  SiPart' /\ ViPart'
  BY <1>1, <1>3 DEF ViWriteDisplay, ViPart, ViShape
<1>4. CASE ViReset
  BY <1>1, <1>4 DEF ViReset, ViPart, ViShape
<1>5. ASSUME NEW odd, NEW even, ViSetField(odd, even)
      PROVE  SiPart' /\ ViPart'
  <2>1. vi' = [vi EXCEPT !.odd = odd, !.even = even] /\ UNCHANGED <<si, intsr, acked>>
    BY <1>5 DEF ViSetField, pivars
  <2>2. ViShape' /\ vi'.int = vi.int /\ vi'.masked = vi.masked
    BY <2>1 DEF ViPart, ViShape
  <2>3. Starting(vi') = Starting(vi)
    BY <2>1 DEF Starting
  <2> QED BY <2>1, <2>2, <2>3 DEF SiPart, SiShape, ViPart, ViLevel, Agrees
<1> QED BY <1>2, <1>3, <1>4, <1>5 DEF ViNext

-----------------------------------------------------------------------------
CpShape == {"ctrl", "hiwm", "lowm"} \subseteq DOMAIN fifo
CpPart  == CpShape /\ Agrees("CP", CpLevel(fifo))

PeShape == /\ {"signal", "enable", "at", "levels", "word"} \subseteq DOMAIN pe
           /\ {"on", "left", "fences"} \subseteq DOMAIN gxtick
PePart ==
    /\ PeShape
    /\ gxtick.fences # <<>> => gxtick.on
    /\ pe.at # "idle" => gxtick.on /\ pe.levels = Raised(pe)
    /\ pe.at # "token" => Agrees("PE_TOKEN", "token" \in Raised(pe))
    /\ pe.at = "idle" => Agrees("PE_FINISH", "finish" \in Raised(pe))
    /\ pe.at \in {"idle", "token", "finish"}

\* The line of the command processor.
LEMMA CpLines ==
    ASSUME CpPart, FifoNext
    PROVE  CpPart'
<1>1. ASSUME CpShape', Push("CP", CpLevel(fifo'))
      PROVE  CpPart'
  BY <1>1, PushLine DEF CpPart, Agrees, Causes
<1>2. ASSUME NEW f, {"ctrl", "hiwm", "lowm"} \subseteq DOMAIN f, CpPush(f)
      PROVE  CpPart'
  BY <1>1, <1>2 DEF CpPush, Watched, CpShape
<1>3. ASSUME CpShape', fifo'.ctrl = fifo.ctrl, fifo'.hiwm = fifo.hiwm, fifo'.lowm = fifo.lowm,
             "CP" \in intsr' <=> "CP" \in intsr, "CP" \in acked' <=> "CP" \in acked
      PROVE  CpPart'
  BY <1>3 DEF CpPart, CpLevel, Agrees
<1>4. CASE \/ \E ctrl \in Controls : CpWriteCtrl(ctrl)
           \/ \E b \in Ring, w \in Watermarks : CpAttach(b, w)
           \/ \E b \in Breaks : CpWriteBreak(b)
           \/ GxConsume
  BY <1>2, <1>4 DEF CpWriteCtrl, CpAttach, CpWriteBreak, GxConsume, CpPart, CpShape
<1>5. ASSUME NEW kind \in Kinds, GpBurst(kind)
      PROVE  CpPart'
  <2>1. CpShape' /\ CpLevel(fifo') = CpLevel(Watched(fifo))
    BY <1>5 DEF GpBurst, Watched, CpLevel, CpPart, CpShape
  <2> QED BY <1>1, <1>5, <2>1 DEF GpBurst
<1>6. CASE GpStage \/ GpReset \/ GxTickStart \/ GxTickEnd \/ PeSignal
  BY <1>3, <1>6 DEF GpStage, GpReset, GxTickStart, GxTickEnd, PeSignal, pivars, CpPart, CpShape
<1>7. ASSUME NEW signal \in Signals, PePush(signal)
      PROVE  CpPart'
  <2>1. Push(Cause(signal), signal \in pe.levels) /\ Cause(signal) # "CP"
        /\ Cause(signal) \in Causes
    BY <1>7 DEF PePush, Cause, Causes
  <2>2. "CP" \in Causes \ {Cause(signal)}
    BY <2>1 DEF Causes
  <2>3. Only({Cause(signal)})
    BY <2>1, PushLine
  <2> QED BY <1>3, <1>7, <2>2, <2>3 DEF PePush, Only, CpPart, CpShape
<1>8. ASSUME NEW clear, NEW enable, PeWriteCtrl(clear, enable)
      PROVE  CpPart'
  BY <1>3, <1>8 DEF PeWriteCtrl, Drive, Cause, CpPart, CpShape
<1>9. {} \in Controls
  BY DEF Controls
<1> QED BY <1>4, <1>5, <1>6, <1>7, <1>8, <1>9 DEF FifoNext, FifoGuest

\* The lines of the pixel engine. They agree once both are pushed: until then the worker is
\* inside, the tick waits for it and the guest for the tick, so that neither the signals
\* nor the enables change under what it has worked out.
LEMMA PeLines ==
    ASSUME PePart, FifoNext
    PROVE  PePart'
<1>1. ASSUME PeShape', pe'.signal = pe.signal, pe'.enable = pe.enable, pe'.at = pe.at,
             pe'.levels = pe.levels, Only({"CP"}),
             gxtick'.fences # <<>> => gxtick'.on, pe.at # "idle" => gxtick'.on
      PROVE  PePart'
  <2>1. {"PE_TOKEN", "PE_FINISH"} \subseteq Causes \ {"CP"}
    BY DEF Causes
  <2> QED BY <1>1, <2>1 DEF PePart, Raised, Agrees, Only
<1>2. ASSUME UNCHANGED <<pe, gxtick>>, Only({"CP"})
      PROVE  PePart'
  BY <1>1, <1>2 DEF PePart, PeShape
<1>3. ASSUME NEW level, Push("CP", level) \/ UNCHANGED pivars
      PROVE  Only({"CP"})
  BY <1>3, PushLine, NoPush DEF Causes
<1>4. CASE \/ \E ctrl \in Controls : CpWriteCtrl(ctrl)
           \/ \E b \in Ring, w \in Watermarks : CpAttach(b, w)
           \/ \E b \in Breaks : CpWriteBreak(b)
           \/ \E kind \in Kinds : GpBurst(kind)
           \/ GpStage \/ GpReset
  BY <1>2, <1>3, <1>4 DEF CpWriteCtrl, CpAttach, CpWriteBreak, CpPush, GpBurst, GpStage, GpReset
<1>5. CASE GxTickStart
  BY <1>1, <1>3, <1>5 DEF GxTickStart, PePart, PeShape
<1>6. CASE gxtick.on /\ GxConsume
  <2>1. UNCHANGED pe /\ Only({"CP"})
    BY <1>3, <1>6 DEF GxConsume, CpPush
  <2>2. {"on", "left", "fences"} \subseteq DOMAIN gxtick' /\ gxtick'.on = gxtick.on
    BY <1>6 DEF GxConsume, PePart, PeShape
  <2> QED BY <1>1, <1>6, <2>1, <2>2 DEF PePart, PeShape
<1>7. CASE GxTickEnd
  <2>1. UNCHANGED pe /\ Only({"CP"}) /\ pe.at = "idle" /\ gxtick.fences = <<>>
    BY <1>3, <1>7 DEF GxTickEnd
  <2>2. {"on", "left", "fences"} \subseteq DOMAIN gxtick' /\ gxtick'.fences = gxtick.fences
    BY <1>7 DEF GxTickEnd, PePart, PeShape
  <2> QED BY <1>1, <2>1, <2>2 DEF PePart, PeShape
<1>8. CASE PeSignal
  <2> DEFINE p == [pe EXCEPT !.signal = @ \cup {Head(gxtick.fences)}]
  <2>1. pe' = [p EXCEPT !.at = "token", !.levels = Raised(p), !.word = intsr]
        /\ gxtick' = [gxtick EXCEPT !.fences = Tail(@)] /\ gxtick.fences # <<>>
        /\ pe.at = "idle"
    BY <1>8 DEF PeSignal
  <2>2. {"signal", "enable", "at", "levels", "word"} \subseteq DOMAIN p
    BY DEF PePart, PeShape
  <2> HIDE DEF p
  <2>3. PeShape' /\ pe'.at = "token" /\ pe'.signal = p.signal /\ pe'.enable = p.enable
        /\ pe'.levels = Raised(p) /\ gxtick'.on = gxtick.on
    BY <2>1, <2>2 DEF PePart, PeShape
  <2> QED BY <2>1, <2>3 DEF PePart, Raised
<1>9. CASE PePush("token")
  <2>1. pe.at = "token" /\ Push("PE_TOKEN", "token" \in pe.levels)
        /\ pe' = [pe EXCEPT !.at = "finish", !.word = intsr'] /\ UNCHANGED gxtick
    BY <1>9 DEF PePush, Cause
  <2>2. PeShape' /\ pe'.at = "finish" /\ pe'.signal = pe.signal /\ pe'.enable = pe.enable
        /\ pe'.levels = pe.levels
    BY <2>1 DEF PePart, PeShape
  <2>3. "PE_TOKEN" \in intsr' <=> "token" \in pe.levels
    BY <2>1 DEF Push, Drive
  <2>4. pe.levels = Raised(pe) /\ gxtick.on
    BY <2>1 DEF PePart
  <2>5. Raised(pe') = Raised(pe)
    BY <2>2 DEF Raised
  <2> QED BY <2>1, <2>2, <2>3, <2>4, <2>5 DEF PePart, Agrees
<1>10. CASE PePush("finish")
  <2>1. pe.at = "finish" /\ Push("PE_FINISH", "finish" \in pe.levels)
        /\ pe' = [pe EXCEPT !.at = "idle", !.levels = {}, !.word = {}] /\ UNCHANGED gxtick
    BY <1>10 DEF PePush, Cause
  <2>2. PeShape' /\ pe'.at = "idle" /\ pe'.signal = pe.signal /\ pe'.enable = pe.enable
    BY <2>1 DEF PePart, PeShape
  <2>3. ("PE_FINISH" \in intsr' <=> "finish" \in pe.levels)
        /\ ("PE_TOKEN" \in intsr' <=> "PE_TOKEN" \in intsr)
        /\ ("PE_TOKEN" \in acked' <=> "PE_TOKEN" \in acked)
    BY <2>1 DEF Push, Drive
  <2>4. pe.levels = Raised(pe) /\ Agrees("PE_TOKEN", "token" \in Raised(pe))
    BY <2>1 DEF PePart
  <2>5. Raised(pe') = Raised(pe)
    BY <2>2 DEF Raised
  <2> QED BY <2>1, <2>2, <2>3, <2>4, <2>5 DEF PePart, Agrees
<1>11. ASSUME NEW clear, NEW enable, ~gxtick.on, PeWriteCtrl(clear, enable)
      PROVE  PePart'
  <2>1. pe.at = "idle" /\ UNCHANGED gxtick
        /\ pe' = [pe EXCEPT !.signal = @ \ clear, !.enable = enable]
    BY <1>11 DEF PePart, PeWriteCtrl
  <2>2. PeShape' /\ pe'.at = "idle"
    BY <2>1 DEF PePart, PeShape
  <2>3. ("PE_TOKEN" \in intsr' <=> "token" \in Raised(pe'))
        /\ ("PE_FINISH" \in intsr' <=> "finish" \in Raised(pe'))
    BY <1>11 DEF PeWriteCtrl, Drive, Cause, Signals
  <2> QED BY <2>1, <2>2, <2>3 DEF PePart, Agrees
<1>12. {} \in Controls
  BY DEF Controls
<1> QED BY <1>4, <1>5, <1>6, <1>7, <1>8, <1>9, <1>10, <1>11, <1>12
        DEF FifoNext, FifoGuest, Signals

-----------------------------------------------------------------------------
Listed(x) == CardChannel \in DOMAIN x /\ "status" \in DOMAIN x[CardChannel]
Carded(c) == {"switch", "set"} \subseteq DOMAIN c

ExiPart ==
    /\ Listed(exi) /\ Carded(card)
    /\ saving \in {"none", "off"} => Agrees("EXI", ExiLevel(exi))
    /\ CardFindable

\* The end of a write: the card's interrupt is in a CSR, and the line in the word.
LEMMA EvaluateLine ==
    ASSUME NEW x, NEW c, Listed(x), Carded(card'), Evaluate(x, c),
           CardInterrupt(card') <=> CardInterrupt(c)
    PROVE  ExiPart' /\ Only({"EXI"})
<1>1. Listed(exi') /\ (CardInterrupt(c) => "EXIINT" \in exi'[CardChannel].status)
  BY DEF Evaluate, Registered, Listed
<1>2. Push("EXI", ExiLevel(exi'))
  BY DEF Evaluate
<1>3. Only({"EXI"}) /\ ("EXI" \in intsr' <=> ExiLevel(exi'))
  BY <1>2, PushLine DEF Causes
<1> QED BY <1>1, <1>3 DEF ExiPart, CardFindable, Agrees

\* Writes keep the channels.
LEMMA ListedKept ==
    ASSUME NEW x, Listed(x)
    PROVE  /\ \A ch, done : Listed(Transferred(x, ch, done))
           /\ \A ch, masks, cs, clear : Listed(CsrWritten(x, ch, masks, cs, clear))
<1>1. ASSUME NEW ch, NEW done PROVE Listed(Transferred(x, ch, done))
  BY DEF Transferred, Listed
<1>2. ASSUME NEW ch, NEW masks, NEW cs, NEW clear
      PROVE  Listed(CsrWritten(x, ch, masks, cs, clear))
  <2> DEFINE set   == [x[ch] EXCEPT !.masks = masks, !.cs = cs, !.status = @ \ clear]
             moved == [set EXCEPT !.prev = cs, !.op = "NONE", !.cmd = FALSE, !.pos = 0]
  <2>1. DOMAIN set = DOMAIN x[ch] /\ DOMAIN moved = DOMAIN x[ch]
    OBVIOUS
  <2>2. \/ CsrWritten(x, ch, masks, cs, clear) = [x EXCEPT ![ch] = set]
        \/ CsrWritten(x, ch, masks, cs, clear) = [x EXCEPT ![ch] = moved]
    BY DEF CsrWritten
  <2> HIDE DEF set, moved
  <2> QED BY <2>1, <2>2 DEF Listed
<1> QED BY <1>1, <1>2

\* Transfers and selections keep the card.
LEMMA CardedKept ==
    ASSUME NEW c, Carded(c)
    PROVE  /\ \A command, sector, on : Carded(CardByte(c, command, sector, on))
           /\ Carded(CardDma(c))
           /\ \A prev, cs : Carded(CardSelected(c, prev, cs))
           /\ /\ Carded([c EXCEPT !.dirty = FALSE])
              /\ CardInterrupt([c EXCEPT !.dirty = FALSE]) <=> CardInterrupt(c)
<1>1. ASSUME NEW command, NEW sector, NEW on PROVE Carded(CardByte(c, command, sector, on))
  BY DEF CardByte, Carded
<1>2. Carded(CardDma(c))
  BY DEF CardDma, Carded
<1>3. ASSUME NEW prev, NEW cs PROVE Carded(CardSelected(c, prev, cs))
  <2>1. Carded(Deselected(c))
    BY DEF Deselected, Complete, Carded
  <2>2. Carded([c EXCEPT !.position = 0])
    BY DEF Carded
  <2> QED BY <2>1, <2>2 DEF CardSelected, SetCs
<1>4. /\ Carded([c EXCEPT !.dirty = FALSE])
      /\ CardInterrupt([c EXCEPT !.dirty = FALSE]) <=> CardInterrupt(c)
  BY DEF Carded, CardInterrupt
<1> QED BY <1>1, <1>2, <1>3, <1>4

\* A CSR write, whose end may be the end of a save.
LEMMA CsrLine ==
    ASSUME ExiPart, saving = "none", NEW ch, NEW masks, NEW cs, NEW clear,
           ExiWriteCsr(ch, masks, cs, clear)
    PROVE  ExiPart' /\ Only({"EXI"})
<1> DEFINE x == CsrWritten(exi, ch, masks, cs, clear)
           c == IF ch = CardChannel THEN CardSelected(card, exi[ch].prev, cs) ELSE card
           flush == ch = CardChannel /\ Flush(card, c, exi[ch].prev, cs)
<1>1. Listed(x) /\ Carded(c)
  BY ListedKept, CardedKept DEF ExiPart
<1>2. card' = IF flush /\ "card" \notin files THEN [c EXCEPT !.dirty = FALSE] ELSE c
  BY DEF ExiWriteCsr
<1>3. \/ saving' = "card" /\ exi' = x /\ UNCHANGED pivars
      \/ Evaluate(x, c)
  BY DEF ExiWriteCsr
<1> HIDE DEF x, c, flush
<1>4. Carded(card') /\ (CardInterrupt(card') <=> CardInterrupt(c))
  BY <1>1, <1>2, CardedKept
<1>5. CASE saving' = "card" /\ exi' = x /\ UNCHANGED pivars
  BY <1>1, <1>4, <1>5, NoPush DEF ExiPart, CardFindable
<1>6. CASE Evaluate(x, c)
  BY <1>1, <1>4, <1>6, EvaluateLine
<1> QED BY <1>3, <1>5, <1>6

\* A transfer with the clock, the settings or nobody.
LEMMA IplLine ==
    ASSUME ExiPart, saving = "none",
           \/ \E op \in IplOps : IplCommand(op)
           \/ \E v \in Values : IplData(v)
           \/ \E ch \in Channels : OtherTransfer(ch)
    PROVE  ExiPart' /\ Only({"EXI"})
<1>1. Carded(card) /\ Listed(exi)
  BY DEF ExiPart
<1>2. ASSUME NEW y, Listed(y), NEW ch, Evaluate(Transferred(y, ch, TRUE), card),
             UNCHANGED card
      PROVE  ExiPart' /\ Only({"EXI"})
  BY <1>1, <1>2, ListedKept, EvaluateLine
<1>3. ASSUME NEW op \in IplOps, IplCommand(op)
      PROVE  ExiPart' /\ Only({"EXI"})
  <2>1. Listed([exi EXCEPT ![0].cmd = TRUE, ![0].op = op, ![0].pos = 0])
    BY <1>1 DEF Listed
  <2> QED BY <2>1, <1>2, <1>3 DEF IplCommand
<1>4. ASSUME NEW v \in Values, IplData(v)
      PROVE  ExiPart' /\ Only({"EXI"})
  <2> DEFINE y == IF exi[0].op = "SRAM_WRITE" /\ exi[0].pos < SramWords
                  THEN [exi EXCEPT ![0].pos = @ + 1] ELSE exi
  <2>1. Listed(y) /\ y[CardChannel].status = exi[CardChannel].status
    BY <1>1 DEF Listed
  <2>2. UNCHANGED card /\ \/ Evaluate(Transferred(y, 0, TRUE), card)
                          \/ exi' = y /\ saving' = "settings" /\ UNCHANGED pivars
    BY <1>4 DEF IplData
  <2> HIDE DEF y
  <2>3. CASE exi' = y /\ saving' = "settings" /\ UNCHANGED pivars
    BY <2>1, <2>2, <2>3, <1>1, NoPush DEF ExiPart, CardFindable, CardInterrupt
  <2> QED BY <2>1, <2>2, <2>3, <1>2
<1>5. ASSUME NEW ch \in Channels, OtherTransfer(ch)
      PROVE  ExiPart' /\ Only({"EXI"})
  BY <1>1, <1>2, <1>5 DEF OtherTransfer
<1> QED BY <1>3, <1>4, <1>5

\* The line of the external interface.
LEMMA ExiLines ==
    ASSUME ExiPart, SettingsNext \/ CardNext
    PROVE  ExiPart' /\ Only({"EXI"})
<1>1. Carded(card) /\ Listed(exi)
  BY DEF ExiPart
<1>2. CASE SettingsSaved
  <2>1. Evaluate(Transferred(exi, 0, TRUE), card) /\ UNCHANGED card
    BY <1>2 DEF SettingsSaved
  <2> QED BY <2>1, <1>1, ListedKept, EvaluateLine
<1>3. CASE CardSaved
  <2>1. Evaluate(exi, card') /\ (card' = [card EXCEPT !.dirty = FALSE] \/ card' = card)
    BY <1>3 DEF CardSaved
  <2> QED BY <2>1, <1>1, CardedKept, EvaluateLine
<1>4. ASSUME NEW command, NEW sector, NEW on, CardTransfer(command, sector, on)
      PROVE  ExiPart' /\ Only({"EXI"})
  BY <1>1, <1>4, CardedKept, EvaluateLine DEF CardTransfer
<1>5. ASSUME NEW write, CardDmaTransfer(write)
      PROVE  ExiPart' /\ Only({"EXI"})
  BY <1>1, <1>5, CardedKept, ListedKept, EvaluateLine DEF CardDmaTransfer
<1> QED BY <1>2, <1>3, <1>4, <1>5, CsrLine, IplLine DEF SettingsNext, CardNext, ExiCsr

\* A shutdown writes files.
LEMMA ShutdownLine ==
    ASSUME ExiPart, ExiShutdown
    PROVE  ExiPart' /\ Only({"EXI"})
  BY NoPush DEF ExiPart, ExiShutdown, CardFindable, CardInterrupt, Agrees, pivars

\* After a restart every line of it is down.
LEMMA RestartLine ==
    ASSUME ExiAssumption, ExiRestart
    PROVE  ExiPart'
<1>1. CardChannel \in Channels
  BY DEF ExiAssumption
<1>2. exi' = [ch \in Channels |-> ChannelInit(ch)] /\ intsr' = {"RST_BUTTON", "VI"}
  BY DEF ExiRestart
<1>3. ~ExiLevel(exi') /\ Listed(exi')
  BY <1>1, <1>2 DEF ExiLevel, ChannelInit, Listed
<1>4. Carded(card') /\ ~CardInterrupt(card')
  BY DEF ExiRestart, CardInit, Carded, CardInterrupt
<1> QED BY <1>2, <1>3, <1>4 DEF ExiPart, CardFindable, Agrees

\* And at power-on.
LEMMA PowerLine ==
    ASSUME ExiAssumption, ExiInit, PiInit
    PROVE  ExiPart
<1>1. CardChannel \in Channels
  BY DEF ExiAssumption
<1>2. exi = [ch \in Channels |-> ChannelInit(ch)] /\ intsr = {"RST_BUTTON", "VI"}
  BY DEF ExiInit, PiInit
<1>3. ~ExiLevel(exi) /\ Listed(exi)
  BY <1>1, <1>2 DEF ExiLevel, ChannelInit, Listed
<1>4. Carded(card) /\ ~CardInterrupt(card)
  BY DEF ExiInit, CardInit, Carded, CardInterrupt
<1> QED BY <1>2, <1>3, <1>4 DEF ExiPart, CardFindable, Agrees

-----------------------------------------------------------------------------
(* All the lines together. *)

\* A part of which a step touches neither the device nor the cause is as it was.
LEMMA PartsStill ==
    ASSUME NEW cs, Only(cs)
    PROVE  /\ DiPart /\ UNCHANGED di /\ "DI" \notin cs => DiPart'
           /\ AiPart /\ UNCHANGED ai /\ "AI" \notin cs => AiPart'
           /\ DspPart /\ UNCHANGED dsp /\ "DSP" \notin cs => DspPart'
           /\ SiPart /\ UNCHANGED si /\ "SI" \notin cs => SiPart'
           /\ ViPart /\ UNCHANGED vi /\ "VI" \notin cs => ViPart'
           /\ CpPart /\ UNCHANGED fifo /\ "CP" \notin cs => CpPart'
           /\ PePart /\ UNCHANGED <<pe, gxtick>> /\ cs \cap {"PE_TOKEN", "PE_FINISH"} = {}
                     => PePart'
           /\ ExiPart /\ UNCHANGED exivars /\ "EXI" \notin cs => ExiPart'
<1>1. \A c \in Causes \ cs : (c \in intsr' <=> c \in intsr) /\ (c \in acked' <=> c \in acked)
  BY DEF Only
<1>2. {"DI", "AI", "DSP", "SI", "VI", "CP", "PE_TOKEN", "PE_FINISH", "EXI"} \subseteq Causes
  BY DEF Causes
<1>3. DiPart /\ UNCHANGED di /\ "DI" \notin cs => DiPart'
  BY <1>1, <1>2 DEF DiPart, DiShape, DiLine, Agrees
<1>4. AiPart /\ UNCHANGED ai /\ "AI" \notin cs => AiPart'
  BY <1>1, <1>2 DEF AiPart, AiShape, AiLine, Agrees
<1>5. DspPart /\ UNCHANGED dsp /\ "DSP" \notin cs => DspPart'
  BY <1>1, <1>2 DEF DspPart, DspShape, DspLine, Agrees
<1>6. SiPart /\ UNCHANGED si /\ "SI" \notin cs => SiPart'
  BY <1>1, <1>2 DEF SiPart, SiShape, Agrees
<1>7. ViPart /\ UNCHANGED vi /\ "VI" \notin cs => ViPart'
  BY <1>1, <1>2 DEF ViPart, ViShape, Agrees
<1>8. CpPart /\ UNCHANGED fifo /\ "CP" \notin cs => CpPart'
  BY <1>1, <1>2 DEF CpPart, CpShape, Agrees
<1>9. PePart /\ UNCHANGED <<pe, gxtick>> /\ cs \cap {"PE_TOKEN", "PE_FINISH"} = {} => PePart'
  BY <1>1, <1>2 DEF PePart, PeShape, Agrees
<1>10. ExiPart /\ UNCHANGED exivars /\ "EXI" \notin cs => ExiPart'
  BY <1>1, <1>2 DEF exivars, ExiPart, CardFindable, Agrees
<1> QED BY <1>3, <1>4, <1>5, <1>6, <1>7, <1>8, <1>9, <1>10

Parts == DiPart /\ AiPart /\ DspPart /\ SiPart /\ ViPart /\ CpPart /\ PePart /\ ExiPart

\* A machine that may be restarted drives the settings or the card, and nothing else but
\* the word: the model's restart resets only these.
RestartsAlone ==
    \A p \in Programs : p \cap {"settings", "card"} # {} => p \subseteq {"settings", "card", "pi"}

\* The other devices of such a machine are as they were at power-on, their lines down.
Quiet ==
    program \cap {"settings", "card"} # {} =>
        /\ ~DiLevel(di) /\ ~AiLevel(ai) /\ ~DspLevel(dsp) /\ ~SiLevel(si) /\ ~CpLevel(fifo)
        /\ Raised(pe) = {} /\ pe.at = "idle" /\ Starting(vi)

LinesInv == Parts /\ Quiet /\ program \in Programs

\* At power-on every line is down.
LEMMA LinesInit ==
    ASSUME ExiAssumption, Init
    PROVE  LinesInv
<1>1. intsr = {"RST_BUTTON", "VI"}
  BY DEF Init, PiInit
<1>2. DiPart /\ ~DiLevel(di)
  BY <1>1 DEF Init, DiInit, DiPart, DiShape, DiLine, DiLevel, Agrees
<1>3. AiPart /\ ~AiLevel(ai)
  BY <1>1 DEF Init, AiInit, AiPart, AiShape, AiLine, AiLevel, Agrees
<1>4. DspPart /\ ~DspLevel(dsp)
  BY <1>1 DEF Init, DspInit, DspPart, DspShape, DspLine, DspLevel, Agrees
<1>5. SiPart /\ ~SiLevel(si)
  BY <1>1 DEF Init, SiInit, SiPart, SiShape, SiLevel, Agrees
<1>6. ViPart /\ Starting(vi)
  <2> DEFINE at == [d \in Displays |-> 0]
  <2>1. vi = ViStart /\ ViStart = [half |-> 0, odd |-> Longest, even |-> Longest, at |-> at,
                                  int |-> {}, masked |-> Displays]
    BY DEF Init, ViInit, ViStart
  <2> HIDE DEF at
  <2>2. [vi EXCEPT !.odd = Longest, !.even = Longest] = vi
    <3> DEFINE S == [half : {0}, odd : {Longest}, even : {Longest}, at : {at}, int : {{}},
                     masked : {Displays}]
    <3>1. vi \in S /\ [vi EXCEPT !.odd = Longest, !.even = Longest] \in S
      BY <2>1
    <3>2. \A x, y \in S : x = y
      OBVIOUS
    <3> QED BY <3>1, <3>2
  <2>3. ViShape
    BY <2>1 DEF ViShape
  <2> QED BY <2>1, <2>2, <2>3 DEF ViPart, Starting
<1>7. CpPart /\ ~CpLevel(fifo)
  BY <1>1 DEF Init, FifoInit, CpPart, CpShape, CpLevel, Agrees
<1>8. PePart /\ Raised(pe) = {} /\ pe.at = "idle"
  BY <1>1 DEF Init, FifoInit, PePart, PeShape, Raised, Agrees
<1>9. ExiPart
  BY PowerLine DEF Init
<1> QED BY <1>2, <1>3, <1>4, <1>5, <1>6, <1>7, <1>8, <1>9 DEF LinesInv, Parts, Quiet, Init

\* The guest acknowledges a cause: the word and the acknowledges together still show it.
LEMMA AcknowledgeLines ==
    ASSUME Parts, saving = "none", ~gxtick.on, NEW c, Acknowledge({c}), UNCHANGED devvars
    PROVE  Parts'
<1>1. \A d, level : Agrees(d, level)
                    => (d \in intsr' => level) /\ (level => d \in intsr' \cup acked')
  BY DEF Acknowledge, Agrees
<1>2. UNCHANGED <<di, ai, dsp, si, vi, fifo, pe, gxtick, exi, card, saving>>
  BY DEF devvars, divars, aivars, dspvars, vivars, fifovars, exivars
<1>3. DiPart'
  BY <1>1, <1>2 DEF Parts, DiPart, DiShape, DiLine, Agrees
<1>4. AiPart'
  BY <1>1, <1>2 DEF Parts, AiPart, AiShape, AiLine, Agrees
<1>5. DspPart'
  BY <1>1, <1>2 DEF Parts, DspPart, DspShape, DspLine, Agrees
<1>6. SiPart'
  BY <1>1, <1>2 DEF Parts, SiPart, SiShape, Agrees
<1>7. ViPart'
  BY <1>1, <1>2 DEF Parts, ViPart, ViShape, Agrees
<1>8. CpPart'
  BY <1>1, <1>2 DEF Parts, CpPart, CpShape, Agrees
<1>9. PePart'
  BY <1>1, <1>2 DEF Parts, PePart, PeShape, Agrees
<1>10. ExiPart'
  BY <1>1, <1>2 DEF Parts, ExiPart, CardFindable, Agrees
<1> QED BY <1>3, <1>4, <1>5, <1>6, <1>7, <1>8, <1>9, <1>10 DEF Parts

\* A restart puts every line down, where the others already are.
LEMMA RestartLines ==
    ASSUME ExiAssumption, Parts, ExiRestart,
           ~DiLevel(di), ~AiLevel(ai), ~DspLevel(dsp), ~SiLevel(si), ~CpLevel(fifo),
           Raised(pe) = {}, pe.at = "idle", Starting(vi),
           UNCHANGED <<di, ai, dsp, si, vi, fifo, pe, gxtick>>
    PROVE  Parts'
<1>1. intsr' = {"RST_BUTTON", "VI"}
  BY DEF ExiRestart
<1>2. DiPart' /\ AiPart' /\ DspPart'
  BY <1>1 DEF Parts, DiPart, DiShape, DiLine, AiPart, AiShape, AiLine, DspPart, DspShape,
              DspLine, Agrees
<1>3. SiPart' /\ ViPart' /\ CpPart'
  BY <1>1 DEF Parts, SiPart, SiShape, ViPart, ViShape, CpPart, CpShape, Agrees
<1>4. PePart'
  BY <1>1 DEF Parts, PePart, PeShape, Agrees
<1> QED BY <1>2, <1>3, <1>4, RestartLine DEF Parts

\* Every step, of whatever device.
LEMMA LinesNext ==
    ASSUME ExiAssumption, SiAssumption, RestartsAlone, LinesInv, [Next]_vars
    PROVE  LinesInv'
<1>0. Parts /\ Quiet /\ program \in Programs /\ program' = program
  BY DEF LinesInv, Next, vars
<1> DEFINE restarted == program \cap {"settings", "card"} # {}
<1>q. ASSUME ~restarted, Parts' PROVE LinesInv'
  BY <1>0, <1>q DEF LinesInv, Quiet
<1>r. ASSUME UNCHANGED <<di, ai, dsp, si, vi, fifo, pe>>, Parts' PROVE LinesInv'
  BY <1>0, <1>r DEF LinesInv, Quiet
<1>1. CASE DiStep
  <2>1. DiNext /\ "di" \in program /\ UNCHANGED <<ai, dsp, si, vi, fifo, pe, gxtick, exivars>>
    BY <1>1 DEF DiStep, aivars, dspvars, vivars, fifovars
  <2>2. Only({"DI"}) /\ DiPart'
    BY <2>1, <1>0, DiOnly, DiLines DEF Parts
  <2>3. Parts'
    BY <2>1, <2>2, <1>0, PartsStill DEF Parts
  <2> QED BY <2>1, <2>3, <1>0, <1>q DEF RestartsAlone
<1>2. CASE AiStep
  <2>1. AiNext /\ "ai" \in program /\ UNCHANGED <<di, dsp, si, vi, fifo, pe, gxtick, exivars>>
    BY <1>2 DEF AiStep, divars, dspvars, vivars, fifovars
  <2>2. Only({"AI"}) /\ AiPart'
    BY <2>1, <1>0, AiOnly, AiLines DEF Parts
  <2>3. Parts'
    BY <2>1, <2>2, <1>0, PartsStill DEF Parts
  <2> QED BY <2>1, <2>3, <1>0, <1>q DEF RestartsAlone
<1>3. CASE DspStep
  <2>1. DspNext /\ "dsp" \in program /\ UNCHANGED <<di, ai, si, vi, fifo, pe, gxtick, exivars>>
    BY <1>3 DEF DspStep, divars, aivars, vivars, fifovars
  <2>2. Only({"DSP"}) /\ DspPart'
    BY <2>1, <1>0, DspOnly, DspLines DEF Parts
  <2>3. Parts'
    BY <2>1, <2>2, <1>0, PartsStill DEF Parts
  <2> QED BY <2>1, <2>3, <1>0, <1>q DEF RestartsAlone
<1>4. CASE SiStep
  <2>1. SiNext /\ program \cap {"si", "transfers"} # {}
        /\ UNCHANGED <<di, ai, dsp, vi, fifo, pe, gxtick, exivars>>
    BY <1>4 DEF SiStep, SiNext, SiTransfers, SiAssumption, divars, aivars, dspvars, fifovars
  <2>2. Only({"SI"}) /\ SiPart'
    BY <2>1, <1>0, SiOnly, SiLines DEF Parts
  <2>3. Parts'
    BY <2>1, <2>2, <1>0, PartsStill DEF Parts
  <2> QED BY <2>1, <2>3, <1>0, <1>q DEF RestartsAlone
<1>5. CASE ViStep
  <2>1. ViNext /\ "vi" \in program /\ UNCHANGED <<di, ai, dsp, fifo, pe, gxtick, exivars>>
    BY <1>5 DEF ViStep, divars, aivars, dspvars, fifovars
  <2>2. Only({"SI", "VI"}) /\ SiPart' /\ ViPart'
    BY <2>1, <1>0, ViOnly, ViLines DEF Parts
  <2>3. Parts'
    BY <2>1, <2>2, <1>0, PartsStill DEF Parts
  <2> QED BY <2>1, <2>3, <1>0, <1>q DEF RestartsAlone
<1>6. CASE FifoStep
  <2>1. FifoNext /\ "fifo" \in program /\ UNCHANGED <<di, ai, dsp, si, vi, exivars>>
    BY <1>6 DEF FifoStep, divars, aivars, dspvars, vivars
  <2>2. Only({"CP", "PE_TOKEN", "PE_FINISH"}) /\ CpPart' /\ PePart'
    BY <2>1, <1>0, FifoOnly, CpLines, PeLines DEF Parts
  <2>3. Parts'
    BY <2>1, <2>2, <1>0, PartsStill DEF Parts
  <2> QED BY <2>1, <2>3, <1>0, <1>q DEF RestartsAlone
<1>7. CASE ExiStep
  <2>1. /\ restarted /\ UNCHANGED <<di, ai, dsp, si, vi, fifo, pe, gxtick>>
        /\ SettingsNext \/ CardNext \/ ExiEnd
    BY <1>7 DEF ExiStep, divars, aivars, dspvars, vivars, fifovars
  <2>2. CASE SettingsNext \/ CardNext \/ ExiShutdown
    <3>1. Only({"EXI"}) /\ ExiPart'
      BY <2>2, <1>0, ExiLines, ShutdownLine DEF Parts
    <3> QED BY <2>1, <3>1, <1>0, <1>r, PartsStill DEF Parts
  <2>3. CASE ExiRestart
    BY <2>1, <2>3, <1>0, <1>r, RestartLines DEF Quiet
  <2> QED BY <2>1, <2>2, <2>3 DEF ExiEnd
<1>8. CASE PiStep
  <2>1. PICK c \in Causes \ {"RST_BUTTON"} : Acknowledge({c})
    BY <1>8 DEF PiStep
  <2>2. saving = "none" /\ ~gxtick.on /\ UNCHANGED devvars
    BY <1>8 DEF PiStep
  <2>3. UNCHANGED <<di, ai, dsp, si, vi, fifo, pe>>
    BY <2>2 DEF devvars, divars, aivars, dspvars, vivars, fifovars
  <2> QED BY <2>1, <2>2, <2>3, <1>0, <1>r, AcknowledgeLines
<1>9. CASE CodeStep \/ CpuStep \/ UNCHANGED vars
  <2>1. UNCHANGED <<di, ai, dsp, si, vi, fifo, pe, gxtick, exivars>>
    BY <1>9 DEF CodeStep, CpuStep, vars, devvars, divars, aivars, dspvars, vivars, fifovars
  <2>2. UNCHANGED pivars
    BY <1>9, CpuOnly DEF CodeStep, CpuStep, vars
  <2>3. Only({})
    BY <2>2, NoPush
  <2> QED BY <2>1, <2>3, <1>0, <1>r, PartsStill DEF Parts
<1> QED BY <1>1, <1>2, <1>3, <1>4, <1>5, <1>6, <1>7, <1>8, <1>9 DEF Next

\* What the parts say of the word, cause by cause.
LEMMA PartsAgree ==
    ASSUME Parts
    PROVE  LinesAgree
<1>1. ASSUME NEW c \in Causes \ ({"RST_BUTTON"} \cup Busy)
      PROVE  Agrees(c, Line(c))
  <2>1. CASE c \in {"DI", "AI", "DSP", "SI", "CP"}
    BY <2>1 DEF Line, Parts, DiPart, DiLine, AiPart, AiLine, DspPart, DspLine, SiPart, CpPart
  <2>2. CASE c = "EXI"
    <3>1. saving \in {"none", "off"}
      BY <1>1, <2>2 DEF Busy
    <3> QED BY <3>1, <2>2 DEF Line, Parts, ExiPart
  <2>3. CASE c = "VI"
    <3>1. ~Starting(vi)
      BY <1>1, <2>3 DEF Busy, Starting
    <3> QED BY <3>1, <2>3 DEF Line, Parts, ViPart
  <2>4. CASE c \in {"PE_TOKEN", "PE_FINISH"}
    <3>1. pe.at = "idle"
      BY <1>1, <2>4 DEF Busy
    <3> QED BY <3>1, <2>4 DEF Line, Parts, PePart
  <2> QED BY <2>1, <2>2, <2>3, <2>4 DEF Causes
<1>2. CardFindable
  BY DEF Parts, ExiPart
<1> QED BY <1>1, <1>2 DEF LinesAgree

-----------------------------------------------------------------------------
(* A step of the console, seen from one component. *)

\* A step of the console, seen from the code caches: their own, or none.
LEMMA CodeSteps ==
    ASSUME [Next]_vars
    PROVE  Stores \/ Runs \/ Copies \/ UNCHANGED codevars
  BY DEF Next, DiStep, ExiStep, SiStep, ViStep, AiStep, DspStep, FifoStep, CodeStep, CpuStep,
         PiStep, devvars, vars

\* The same, seen from the disc drive.
LEMMA DiSteps ==
    ASSUME [Next]_vars
    PROVE  DiNext \/ UNCHANGED divars
  BY DEF Next, DiStep, ExiStep, SiStep, ViStep, AiStep, DspStep, FifoStep, CodeStep, CpuStep,
         PiStep, devvars, vars

\* The same, seen from the external interface.
LEMMA ExiSteps ==
    ASSUME [Next]_vars
    PROVE  SettingsNext \/ CardNext \/ ExiEnd \/ UNCHANGED exivars
  BY DEF Next, DiStep, ExiStep, SiStep, ViStep, AiStep, DspStep, FifoStep, CodeStep, CpuStep,
         PiStep, devvars, vars

\* The same, seen from the audio DMA.
LEMMA DspSteps ==
    ASSUME [Next]_vars
    PROVE  DspNext \/ UNCHANGED dspvars
  BY DEF Next, DiStep, ExiStep, SiStep, ViStep, AiStep, DspStep, FifoStep, CodeStep, CpuStep,
         PiStep, devvars, vars

\* The same, seen from the CPU, which is not resumed from a snapshot but in a program
\* that says so.
LEMMA CpuSteps ==
    ASSUME [Next]_vars
    PROVE  /\ CpuNext \/ ("resume" \in program /\ SnapshotResumed) \/ UNCHANGED cpuvars
           /\ program' = program
  BY DEF Next, DiStep, ExiStep, SiStep, ViStep, AiStep, DspStep, FifoStep, CodeStep, CpuStep,
         PiStep, devvars, vars

-----------------------------------------------------------------------------

\* Native code of a page never runs on other bytes than it was compiled from, if the
\* guest uses icbi as the machine demands: dispatch.c over native_code.c, aot_module.c
\* and overlay_module.c.
THEOREM ConsoleNeverStale == Spec => []NeverStale
<1>1. Init => CodeInv
  BY CodeAssumption, CodeInitInv DEF Init
<1>2. CodeInv /\ [Next]_vars => CodeInv'
  <2> SUFFICES ASSUME CodeInv, [Next]_vars PROVE CodeInv'
    OBVIOUS
  <2>1. CASE Stores \/ Runs \/ Copies
    BY <2>1, CodeAssumption, CodeNextInv
  <2>2. CASE UNCHANGED codevars
    BY <2>2, IdleInv DEF codevars
  <2> QED BY <2>1, <2>2, CodeSteps
<1>3. CodeInv => NeverStale
  BY DEF CodeInv
<1> QED BY <1>1, <1>2, <1>3, PTL DEF Spec

\* The audio DMA never plays past the buffer it was started on, and reports the blocks
\* that are left of it: aid_tick of dsp.c.
THEOREM ConsoleAidInBuffer == Spec => []AidInBuffer
<1>1. Init => AidInv
  BY DspInitAid DEF Init
<1>2. AidInv /\ [Next]_vars => AidInv'
  <2> SUFFICES ASSUME AidInv, [Next]_vars PROVE AidInv'
    OBVIOUS
  <2>1. CASE DspNext
    BY <2>1, DspAssumption, DspNextAid
  <2>2. CASE UNCHANGED dspvars
    BY <2>2 DEF dspvars, AidInv, AidType, AidInBuffer
  <2> QED BY <2>1, <2>2, DspSteps
<1>3. AidInv => AidInBuffer
  BY DEF AidInv
<1> QED BY <1>1, <1>2, <1>3, PTL DEF Spec

\* Handlers return to what they interrupted, through any nesting: ppc_take_exception,
\* gcn_pi_deliver_external, ppc_deliver_decrementer and ppc_rfi.
THEOREM ConsoleResumesInterrupted == Spec => []ResumesInterrupted
<1>1. Init => ReturnInv
  BY CpuAssumption, CpuInitReturn DEF Init
<1>2. ReturnInv /\ [Next]_vars => ReturnInv'
  <2> SUFFICES ASSUME ReturnInv, [Next]_vars PROVE ReturnInv'
    OBVIOUS
  <2>1. CASE CpuNext \/ SnapshotResumed
    BY <2>1, CpuAssumption, CpuNextReturn
  <2>2. CASE UNCHANGED cpuvars
    BY <2>2 DEF cpuvars, ReturnInv, CpuType, HeldClosed, ResumesInterrupted
  <2> QED BY <2>1, <2>2, CpuSteps
<1>3. ReturnInv => ResumesInterrupted
  BY DEF ReturnInv
<1> QED BY <1>1, <1>2, <1>3, PTL DEF Spec

\* The time base and the device clock stay in step to the cycle: gcn_dispatch_charge.
THEOREM ConsoleTimeKept == Spec => []TimeKept
<1>1. Init => TimeInv
  BY CpuAssumption, CpuInitTime DEF Init
<1>2. TimeInv /\ [Next]_vars => TimeInv'
  <2> SUFFICES ASSUME TimeInv, [Next]_vars PROVE TimeInv'
    OBVIOUS
  <2>1. CASE CpuNext \/ SnapshotResumed
    BY <2>1, CpuAssumption, CpuNextTime
  <2>2. CASE UNCHANGED cpuvars
    BY <2>2 DEF cpuvars, TimeInv, TimeType, Apart, Wrap
  <2> QED BY <2>1, <2>2, CpuSteps
<1>3. TimeInv => TimeKept
  BY CpuAssumption, TimeInvKept
<1> QED BY <1>1, <1>2, <1>3, PTL DEF Spec

\* A decrementer interrupt waits until its handler runs, in a machine that is not saved
\* and resumed in another process: ppc_decrementer_tick and ppc_deliver_decrementer.
THEOREM ConsoleAlarmsKept == Spec => []AlarmsKept
<1> DEFINE Inv == TimeInv /\ AlarmsKept
<1>1. Init => Inv
  <2> SUFFICES ASSUME Init PROVE Inv
    OBVIOUS
  <2>1. TimeInv
    BY CpuAssumption, CpuInitTime DEF Init
  <2>2. ~owed
    BY DEF Init, CpuInit
  <2> QED BY <2>1, <2>2 DEF AlarmsKept, DecrementerKept
<1>2. Inv /\ [Next]_vars => Inv'
  <2> SUFFICES ASSUME Inv, [Next]_vars PROVE Inv'
    OBVIOUS
  <2>1. CASE CpuNext
    <3>1. TimeInv'
      BY <2>1, CpuAssumption, CpuNextTime
    <3>2. DecrementerKept => DecrementerKept'
      BY <2>1, CpuNextDecrementer
    <3> QED BY <3>1, <3>2, CpuSteps DEF AlarmsKept
  <2>2. CASE "resume" \in program /\ SnapshotResumed
    <3>1. TimeInv'
      BY <2>2, CpuAssumption, CpuNextTime
    <3> QED BY <2>2, <3>1, CpuSteps DEF AlarmsKept
  <2>3. CASE UNCHANGED cpuvars
    <3>1. TimeInv'
      BY <2>3 DEF cpuvars, TimeInv, TimeType, Apart, Wrap
    <3>2. DecrementerKept' = DecrementerKept
      BY <2>3 DEF cpuvars, DecrementerKept
    <3> QED BY <3>1, <3>2, CpuSteps DEF AlarmsKept
  <2> QED BY <2>1, <2>2, <2>3, CpuSteps
<1>3. Inv => AlarmsKept
  OBVIOUS
<1> HIDE DEF Inv
<1> QED BY <1>1, <1>2, <1>3, PTL DEF Spec

\* No block begins with interrupts enabled while one waits: gcn_pi_deliver_external and
\* ppc_deliver_decrementer before the block, in gcn_dispatch_run.
THEOREM ConsoleTakenAtBoundary == Spec => TakenAtBoundary
<1> DEFINE Inv == ReturnInv /\ FlagInv /\ TimeInv
<1>1. Init => Inv
  <2> SUFFICES ASSUME Init PROVE Inv
    OBVIOUS
  <2>1. FlagInv
    BY DEF Init, CpuInit, FlagInv
  <2> QED BY <2>1, CpuAssumption, CpuInitReturn, CpuInitTime DEF Init
<1>2. Inv /\ [Next]_vars => Inv'
  <2> SUFFICES ASSUME Inv, [Next]_vars PROVE Inv'
    OBVIOUS
  <2>1. CASE CpuNext \/ SnapshotResumed
    BY <2>1, CpuAssumption, CpuNextReturn, CpuNextTime, CpuNextFlag
  <2>2. CASE UNCHANGED cpuvars
    BY <2>2 DEF cpuvars, ReturnInv, CpuType, HeldClosed, ResumesInterrupted, FlagInv,
                TimeInv, TimeType, Apart, Wrap
  <2> QED BY <2>1, <2>2, CpuSteps
<1>3. Inv /\ [Next]_vars => [cpu.at = "boundary" /\ cpu'.at = "block" /\ cpu'.ee
                             => intsr \cap intmr = {} /\ ~time'.pending]_cpuvars
  BY BoundaryTaken, CpuSteps
<1> HIDE DEF Inv
<1> QED BY <1>1, <1>2, <1>3, PTL DEF Spec, TakenAtBoundary

\* The drive reads, and says it may, only from the disc that is in it and that the guest
\* has identified; and a command the guest waits for is in flight, if no reset dropped it:
\* di_execute_command, gcn_di_tick, gcn_di_reset_drive and gcn_di_set_disc.
THEOREM ConsoleDiOwnDisc == Spec => []DiOwnDisc
<1>1. Init => DiInv
  BY DiAssumption, DiInitInv DEF Init
<1>2. DiInv /\ [Next]_vars => DiInv'
  <2> SUFFICES ASSUME DiInv, [Next]_vars PROVE DiInv'
    OBVIOUS
  <2>1. CASE DiNext
    BY <2>1, DiAssumption, DiNextInv
  <2>2. CASE UNCHANGED divars
    BY <2>2 DEF divars, DiInv, CoverRight, DiOwnDisc, DiReadSound, DiIdentified, DiStartMeans,
                DiscInside
  <2> QED BY <2>1, <2>2, DiSteps
<1>3. DiInv => DiOwnDisc
  BY DEF DiInv
<1> QED BY <1>1, <1>2, <1>3, PTL DEF Spec

\* A restart, after a shutdown, a failed save or a kill at any moment, gives back every
\* setting and every sector whose save was not cut off or refused: sram_persist and
\* card_persist of boot.c, write_csr of exi.c, gcn_memcard_set_cs of memcard.c.
THEOREM ConsoleSurvivesRestart ==
    ASSUME CardChannel = 0
    PROVE  Spec => SurvivesRestart
<1>1. Init => ExiInv
  BY ExiAssumption, CardAssumption, ExiInitInv DEF Init
<1>2. ExiInv /\ [Next]_vars => ExiInv'
  <2> SUFFICES ASSUME ExiInv, [Next]_vars PROVE ExiInv'
    OBVIOUS
  <2>1. CASE SettingsNext \/ CardNext \/ ExiEnd
    BY <2>1, ExiAssumption, CardAssumption, ExiNextInv
  <2>2. CASE UNCHANGED exivars
    BY <2>2 DEF exivars, ExiInv, ExiType, SelectionBegun, SettingsKept, Kept, Clean, CardSafe
  <2> QED BY <2>1, <2>2, ExiSteps
<1>3. ExiInv /\ [Next]_vars => [ExiRestart => KeepsSettings /\ KeepsCard]_exivars
  BY ExiAssumption, RestartKeeps
<1> QED BY <1>1, <1>2, <1>3, PTL DEF Spec, SurvivesRestart

\* INTSR shows the lines of the devices, whichever device, thread or guest wrote it last:
\* gcn_pi_set_interrupt and the update of every device's line.
THEOREM ConsoleLinesAgree ==
    ASSUME RestartsAlone
    PROVE  Spec => []LinesAgree
<1>1. Init => LinesInv
  BY ExiAssumption, LinesInit
<1>2. LinesInv /\ [Next]_vars => LinesInv'
  BY ExiAssumption, SiAssumption, LinesNext
<1>3. LinesInv => LinesAgree
  BY PartsAgree DEF LinesInv
<1> QED BY <1>1, <1>2, <1>3, PTL DEF Spec

\* The interpreter's checksum of a page is that of its bytes, if the GX worker copies
\* nothing in between: ppc_icache_check_line and the bits it takes.
THEOREM ConsoleMissesTrue == Spec => []MissesTrue
<1> DEFINE Inv == "copies" \notin program => MemoInv
<1>1. Init => Inv
  BY CodeAssumption, CodeInitMemo DEF Init
<1>2. Inv /\ [Next]_vars => Inv'
  <2> SUFFICES ASSUME Inv, [Next]_vars, "copies" \notin program PROVE MemoInv'
    BY DEF Next, vars
  <2>1. Stores \/ Runs \/ UNCHANGED codevars
    BY DEF Next, DiStep, ExiStep, SiStep, ViStep, AiStep, DspStep, FifoStep, CodeStep, CpuStep,
           PiStep, devvars, vars
  <2>2. CASE UNCHANGED codevars
    BY <2>2 DEF codevars, MemoInv, MemoTrue
  <2> QED BY <2>1, <2>2, CodeAssumption, CodeNextMemo
<1>3. Inv => MissesTrue
  BY DEF MissesTrue, MemoInv
<1> HIDE DEF Inv
<1> QED BY <1>1, <1>2, <1>3, PTL DEF Spec

\* The sample interrupt is there when the samples the guest asked for have passed, for any
\* rates and any ticks: gcn_ai_tick and ai_advance_sample.
THEOREM ConsoleAiOnTime == Spec => []AiOnTime
<1>1. Init => AiInv
  BY AiAssumption, AiInitInv DEF Init
<1>2. AiInv /\ [Next]_vars => AiInv'
  <2> SUFFICES ASSUME AiInv, [Next]_vars PROVE AiInv'
    OBVIOUS
  <2>1. AiNext \/ UNCHANGED aivars
    BY DEF Next, DiStep, ExiStep, SiStep, ViStep, AiStep, DspStep, FifoStep, CodeStep, CpuStep,
           PiStep, devvars, vars
  <2>2. CASE UNCHANGED aivars
    BY <2>2 DEF aivars, AiInv, AiType, AiAhead, AiOnTime
  <2> QED BY <2>1, <2>2, AiAssumption, AiNextInv
<1>3. AiInv => AiOnTime
  BY DEF AiInv
<1> QED BY <1>1, <1>2, <1>3, PTL DEF Spec

\* The controllers are polled at least once in a frame, if every field is longer than the
\* delay of the first poll: vi_advance_halfline and gcn_si_beam_poll.
THEOREM ConsolePolledEveryFrame ==
    ASSUME FieldsPolled
    PROVE  Spec => []PolledEveryFrame
<1>1. Init => BeamInv
  BY SiAssumption, ViAssumption, BeamInitInv DEF Init
<1>2. BeamInv /\ [Next]_vars => BeamInv'
  <2> SUFFICES ASSUME BeamInv, [Next]_vars PROVE BeamInv'
    OBVIOUS
  <2>1. ViNext \/ (SiNext /\ UNCHANGED <<vi, sincePoll>>) \/ UNCHANGED vivars
    <3>1. CASE SiStep
      BY <3>1, SiAssumption DEF SiStep, SiNext, SiTransfers
    <3>2. CASE ~SiStep
      BY <3>2 DEF Next, DiStep, ExiStep, ViStep, AiStep, DspStep, FifoStep, CodeStep, CpuStep,
                  PiStep, devvars, vars
    <3> QED BY <3>1, <3>2
  <2>2. CASE UNCHANGED vivars
    BY <2>2 DEF vivars, BeamInv
  <2> QED BY <2>1, <2>2, SiAssumption, ViAssumption, SiNextBeam, ViNextBeam
<1>3. BeamInv => PolledEveryFrame
  BY SiAssumption, ViAssumption, BeamPolls
<1> QED BY <1>1, <1>2, <1>3, PTL DEF Spec

\* No program that drives the FIFO lets the guest acknowledge the overflow it relies on, or
\* restarts under it.
FifoTrusted ==
    \A p \in Programs : "fifo" \in p => p \cap {"pi", "settings", "card"} = {}

\* What the guest has sent is in the ring whole and in order, for a ring of any size and any
\* watermarks: gp_flush_burst, gcn_cp_gather_pipe_bursted, gcn_gx_tick.
THEOREM ConsoleFifoExact ==
    ASSUME FifoTrusted
    PROVE  Spec => []FifoExact
<1> DEFINE Inv == program \in Programs
                  /\ IF "fifo" \in program THEN FifoInv ELSE unread = Unknown
<1>1. Init => Inv
  <2>1. Init => FifoInv
    BY FifoAssumption, FifoInitInv DEF Init
  <2> QED BY <2>1 DEF Init, FifoInit
<1>2. Inv /\ [Next]_vars => Inv'
  <2> SUFFICES ASSUME Inv, [Next]_vars PROVE Inv'
    OBVIOUS
  <2>1. program' = program
    BY DEF Next, vars
  <2>2. CASE FifoStep
    BY <2>1, <2>2, FifoAssumption, FifoNextInv DEF FifoStep
  <2>3. CASE ~FifoStep
    <3>1. UNCHANGED fifovars
      BY <2>3 DEF Next, DiStep, ExiStep, SiStep, ViStep, AiStep, DspStep, CodeStep, CpuStep,
                  PiStep, devvars, vars
    <3>2. CASE "fifo" \notin program
      BY <3>1, <3>2, <2>1 DEF fifovars
    <3>3. CASE "fifo" \in program
      <4>1. \/ DiStep \/ SiStep \/ ViStep \/ AiStep \/ DspStep
            \/ CodeStep \/ CpuStep \/ UNCHANGED vars
        BY <2>3, <3>3 DEF Next, FifoTrusted, ExiStep, PiStep
      <4>2. \/ Only({"DI"}) \/ Only({"SI"}) \/ Only({"SI", "VI"}) \/ Only({"AI"})
            \/ Only({"DSP"}) \/ Only({})
        <5>1. DiStep => Only({"DI"})
          BY DiOnly DEF DiStep
        <5>2. SiStep => Only({"SI"})
          <6>1. SiStep => SiNext
            BY SiAssumption DEF SiStep, SiNext, SiTransfers
          <6> QED BY <6>1, SiOnly
        <5>3. ViStep => Only({"SI", "VI"})
          BY ViOnly DEF ViStep
        <5>4. AiStep => Only({"AI"})
          BY AiOnly DEF AiStep
        <5>5. DspStep => Only({"DSP"})
          BY DspOnly DEF DspStep
        <5>6. CodeStep \/ CpuStep \/ UNCHANGED vars => Only({})
          <6>1. CodeStep \/ CpuStep \/ UNCHANGED vars => UNCHANGED pivars
            BY CpuOnly DEF CodeStep, CpuStep, vars
          <6> QED BY <6>1, NoPush
        <5> QED BY <4>1, <5>1, <5>2, <5>3, <5>4, <5>5, <5>6
      <4>3. "CP" \in intsr => "CP" \in intsr'
        BY <4>2 DEF Only, Causes
      <4> QED BY <3>1, <3>3, <4>3, <2>1, FifoIdleInv DEF fifovars
    <3> QED BY <3>2, <3>3
  <2> QED BY <2>2, <2>3
<1>3. Inv => FifoExact
  BY DEF FifoInv, FifoExact
<1> HIDE DEF Inv
<1> QED BY <1>1, <1>2, <1>3, PTL DEF Spec

-----------------------------------------------------------------------------
(* Types. *)

\* Nothing but the causes is in the word of causes.
CausesOnly == intsr \subseteq Causes /\ acked \subseteq Causes

\* A device pushes a cause, or several.
LEMMA DriveCauses ==
    ASSUME CausesOnly, NEW levels, DOMAIN levels \subseteq Causes, Drive(levels)
    PROVE  CausesOnly'
  BY DEF Drive, CausesOnly

\* Who pushes what, once more: every step of a device pushes causes.
LEMMA CausesNext ==
    ASSUME CausesOnly, [Next]_vars
    PROVE  CausesOnly'
<1>1. ASSUME NEW c \in Causes, NEW level, Push(c, level) \/ UNCHANGED pivars
      PROVE  CausesOnly'
  <2>1. CASE Push(c, level)
    BY <2>1, DriveCauses DEF Push
  <2>2. CASE UNCHANGED pivars
    BY <2>2 DEF pivars, CausesOnly
  <2> QED BY <1>1, <2>1, <2>2
<1>2. CASE DiStep
  <2>1. "DI" \in Causes
    BY DEF Causes
  <2>2. \E d : DiPush(d) \/ UNCHANGED pivars
    BY <1>2 DEF DiStep, DiNext, DiGuest, DiCommand, DiStop, DiSetDma, DiSpinUp, DiWriteStatus,
                DiTick, DiMount
  <2> QED BY <1>1, <2>1, <2>2 DEF DiPush
<1>3. CASE ExiStep
  <2>1. "EXI" \in Causes /\ {"RST_BUTTON", "VI"} \subseteq Causes
    BY DEF Causes
  <2>2. CASE ExiRestart
    BY <2>1, <2>2 DEF ExiRestart, CausesOnly
  <2>3. CASE ~ExiRestart
    <3>1. \E level : Push("EXI", level) \/ UNCHANGED pivars
      BY <1>3, <2>3 DEF ExiStep, SettingsNext, CardNext, ExiEnd, ExiShutdown, ExiCsr,
                        ExiWriteCsr, IplCommand, IplData, OtherTransfer, SettingsSaved,
                        CardTransfer, CardDmaTransfer, CardSaved, Evaluate
    <3> QED BY <1>1, <2>1, <3>1
  <2> QED BY <2>2, <2>3
<1>4. CASE SiStep
  <2>1. "SI" \in Causes
    BY DEF Causes
  <2>2. \E level : Push("SI", level) \/ UNCHANGED pivars
    BY <1>4 DEF SiStep, SiNext, SiTransfers, SiReadReport, SiWriteComcsr, SiWriteSisr,
                SiWritePoll
  <2> QED BY <1>1, <2>1, <2>2
<1>5. CASE ViStep
  <2>1. "VI" \in Causes /\ {"SI", "VI"} \subseteq Causes
    BY DEF Causes
  <2>2. CASE ViAdvance
    <3>1. PICK levels : /\ DOMAIN levels \in {{"VI"}, {"SI", "VI"}}
                        /\ Drive(levels)
      BY <2>2 DEF ViAdvance, Push
    <3> QED BY <2>1, <3>1, DriveCauses
  <2>3. CASE ~ViAdvance
    <3>1. \E level : Push("VI", level) \/ UNCHANGED pivars
      BY <1>5, <2>3 DEF ViStep, ViNext, ViWriteDisplay, ViReset, ViSetField
    <3> QED BY <1>1, <2>1, <3>1
  <2> QED BY <2>2, <2>3
<1>6. CASE AiStep
  <2>1. "AI" \in Causes
    BY DEF Causes
  <2>2. \E level : Push("AI", level) \/ UNCHANGED pivars
    BY <1>6 DEF AiStep, AiNext, AiWriteControl, AiWriteCount, AiWriteTiming, AiTick,
                AiTickLegacy, Advance
  <2> QED BY <1>1, <2>1, <2>2
<1>7. CASE DspStep
  <2>1. "DSP" \in Causes
    BY DEF Causes
  <2>2. \E level : Push("DSP", level) \/ UNCHANGED pivars
    BY <1>7 DEF DspStep, DspNext, CoreAsks, DspReadCsr, DspWriteCsr, AramKick, AidWriteStart,
                AidWriteControl, DspTick
  <2> QED BY <1>1, <2>1, <2>2
<1>8. CASE FifoStep
  <2>1. {"CP", "PE_TOKEN", "PE_FINISH"} \subseteq Causes
        /\ \A s \in Signals : Cause(s) \in Causes
    BY DEF Causes, Cause
  <2>2. \/ \E c \in {"CP", "PE_TOKEN", "PE_FINISH"} : \E level : Push(c, level)
        \/ UNCHANGED pivars
        \/ \E clear, enable : PeWriteCtrl(clear, enable)
    BY <1>8 DEF FifoStep, FifoNext, FifoGuest, CpWriteCtrl, CpAttach, CpWriteBreak, CpPush,
                GpBurst, GpStage, GpReset, GxTickStart, GxConsume, GxTickEnd, PeSignal, PePush,
                Cause
  <2>3. ASSUME NEW clear, NEW enable, PeWriteCtrl(clear, enable) PROVE CausesOnly'
    <3>1. PICK levels : DOMAIN levels = {Cause(s) : s \in Signals} /\ Drive(levels)
      BY <2>3 DEF PeWriteCtrl
    <3>2. DOMAIN levels \subseteq Causes
      BY <2>1, <3>1
    <3> QED BY <3>1, <3>2, DriveCauses
  <2> QED BY <1>1, <2>1, <2>2, <2>3
<1>9. CASE PiStep
  BY <1>9 DEF PiStep, Acknowledge, CausesOnly, Causes
<1>10. CASE CodeStep \/ CpuStep \/ UNCHANGED vars
  <2>1. UNCHANGED pivars
    BY <1>10, CpuOnly DEF CodeStep, CpuStep, vars
  <2> QED BY <2>1 DEF pivars, CausesOnly
<1> QED BY <1>2, <1>3, <1>4, <1>5, <1>6, <1>7, <1>8, <1>9, <1>10 DEF Next

\* The types of all devices, each kept by the device's own steps.
Typed ==
    /\ DiInv /\ DiBounded /\ ExiTyped /\ BeamTyped /\ AiInv /\ DspTyped /\ FifoTyped
    /\ CodeTyped /\ ReturnInv /\ CpuBounded /\ CausesOnly

\* At power-on.
LEMMA TypedInit == Init => Typed
<1> SUFFICES ASSUME Init PROVE Typed
  OBVIOUS
<1>1. DiInv /\ DiBounded
  <2>1. DiInv
    BY DiAssumption, DiInitInv DEF Init
  <2>2. RamBlocks \in Nat /\ 0 \in 0..MaxCommands
    BY DiAssumption DEF DiAssumption
  <2>3. di.mar = 0 /\ diDropped = FALSE /\ diIssued = 0
    BY DEF Init, DiInit
  <2>4. di.mar <= RamBlocks
    BY <2>2, <2>3
  <2>5. diDropped \in BOOLEAN
    BY <2>3
  <2>6. diIssued \in 0..MaxCommands
    BY <2>2, <2>3
  <2> QED BY <2>1, <2>4, <2>5, <2>6 DEF DiBounded
<1>2. ExiTyped
  BY ExiAssumption, CardAssumption, ExiInitTyped DEF Init
<1>3. BeamTyped
  BY SiAssumption, ViAssumption, BeamInitTyped DEF Init
<1>4. AiInv /\ DspTyped /\ FifoTyped
  BY AiAssumption, AiInitInv, DspAssumption, DspInitTyped, FifoAssumption, FifoInitTyped
     DEF Init
<1>5. CodeTyped /\ ReturnInv /\ CpuBounded
  BY CodeAssumption, CodeInitTyped, CpuAssumption, CpuInitReturn, CpuInitBounded DEF Init
<1>6. CausesOnly
  BY DEF Init, PiInit, CausesOnly, Causes
<1> QED BY <1>1, <1>2, <1>3, <1>4, <1>5, <1>6 DEF Typed

\* In every step.
LEMMA TypedNext == Typed /\ [Next]_vars => Typed'
<1> SUFFICES ASSUME Typed, [Next]_vars PROVE Typed'
  OBVIOUS
<1> USE DEF Typed
<1>1. DiInv' /\ DiBounded'
  <2>1. CASE DiNext
    BY <2>1, DiAssumption, DiNextInv, DiNextBounded
  <2>2. CASE UNCHANGED divars
    BY <2>2 DEF divars, DiInv, DiBounded, CoverRight, DiOwnDisc, DiReadSound, DiIdentified,
                DiStartMeans, DiscInside
  <2> QED BY <2>1, <2>2, DiSteps
<1>2. ExiTyped'
  <2>1. CASE UNCHANGED exivars
    BY <2>1 DEF exivars, ExiTyped, ExiType
  <2> QED BY <2>1, ExiSteps, ExiAssumption, CardAssumption, ExiNextTyped
<1>3. BeamTyped'
  <2>1. \/ ViNext
        \/ (SiNext \/ SiTransfers(Connected)) /\ UNCHANGED <<vi, sincePoll>>
        \/ UNCHANGED vivars
    BY DEF Next, DiStep, ExiStep, SiStep, ViStep, AiStep, DspStep, FifoStep, CodeStep, CpuStep,
           PiStep, devvars, vars
  <2>2. CASE UNCHANGED vivars
    BY <2>2 DEF vivars, BeamTyped
  <2> QED BY <2>1, <2>2, SiAssumption, ViAssumption, SiNextTyped, ViNextTyped
<1>4. AiInv'
  <2>1. AiNext \/ UNCHANGED aivars
    BY DEF Next, DiStep, ExiStep, SiStep, ViStep, AiStep, DspStep, FifoStep, CodeStep, CpuStep,
           PiStep, devvars, vars
  <2>2. CASE UNCHANGED aivars
    BY <2>2 DEF aivars, AiInv, AiType, AiAhead, AiOnTime
  <2> QED BY <2>1, <2>2, AiAssumption, AiNextInv
<1>5. DspTyped'
  <2>1. CASE UNCHANGED dspvars
    BY <2>1 DEF dspvars, DspTyped
  <2> QED BY <2>1, DspSteps, DspAssumption, DspNextTyped
<1>6. CausesOnly'
  BY CausesNext
<1>7. FifoTyped'
  <2>1. FifoNext \/ UNCHANGED fifovars
    BY DEF Next, DiStep, ExiStep, SiStep, ViStep, AiStep, DspStep, FifoStep, CodeStep, CpuStep,
           PiStep, devvars, vars
  <2>2. CASE UNCHANGED fifovars
    BY <2>2 DEF fifovars, FifoTyped, TickTyped
  <2>3. CASE FifoNext
    BY <1>6, <2>3, FifoAssumption, FifoNextTyped DEF CausesOnly
  <2> QED BY <2>1, <2>2, <2>3
<1>8. CodeTyped'
  <2>1. CASE UNCHANGED codevars
    BY <2>1 DEF codevars, CodeTyped
  <2> QED BY <2>1, CodeSteps, CodeAssumption, StoresTyped, RunsTyped, CopiesTyped
<1>9. ReturnInv' /\ CpuBounded'
  <2>1. CASE CpuNext \/ SnapshotResumed
    BY <2>1, CpuAssumption, CpuNextReturn, CpuNextBounded
  <2>2. CASE UNCHANGED cpuvars
    BY <2>2 DEF cpuvars, ReturnInv, CpuType, HeldClosed, ResumesInterrupted, CpuBounded
  <2> QED BY <2>1, <2>2, CpuSteps
<1> QED BY <1>1, <1>2, <1>3, <1>4, <1>5, <1>6, <1>7, <1>8, <1>9

\* What the types of TypeOK need of them.
LEMMA TypedOK == Typed => TypeOK
<1> SUFFICES ASSUME Typed PROVE TypeOK
  OBVIOUS
<1> USE DEF Typed
<1>1. DiTypeOK
  <2>1. di \in Drives /\ disc \in Discs \cup {NoDisc} /\ DiBounded /\ RamBlocks \in Nat
    BY DiAssumption DEF DiInv, DiAssumption
  <2> QED BY <2>1 DEF DiBounded, Drives, Blocks, DiTypeOK
<1>2. ExiTypeOK
  <2>1. /\ exi \in [Channels -> Channel] /\ \A ch \in Channels : exi[ch].pos \in 0..SramWords
        /\ card \in Cards
    BY DEF ExiTyped, ExiType
  <2>2. exi \in [Channels -> [status : SUBSET ExiBits, masks : SUBSET ExiBits,
                              cs : Selects, prev : Selects, cmd : BOOLEAN,
                              op : {"NONE"} \cup IplOps, pos : 0..SramWords]]
    BY <2>1 DEF Channel
  <2>3. saving \in {"none", "settings", "card", "off"}
    BY DEF ExiTyped
  <2> QED BY <2>1, <2>2, <2>3 DEF Cards, ExiTyped, ExiType, ExiTypeOK
<1>3. ViTypeOK
  BY DEF BeamTyped, SiRecords, ViRecords, ViTypeOK, SiTypeOK
<1>4. AiTypeOK
  BY DEF AiInv, AiType, AiTypeOK
<1>5. DspTypeOK
  BY DEF DspTyped, DspTypeOK
<1>6. FifoTypeOK
  <2>1. 0 \in Ring
    BY FifoAssumption DEF FifoAssumption, Ring
  <2> QED BY <2>1 DEF FifoTyped, FifoTypes, TickTyped, PeTypes, FifoTypeOK
<1>7. CodeTypeOK /\ CpuTypeOK
  BY CodeTypes, CpuTypes, CpuAssumption
<1> QED BY <1>1, <1>2, <1>3, <1>4, <1>5, <1>6, <1>7 DEF TypeOK, CausesOnly

\* Every register, counter and file of the console is what its type says, in every program
\* and for every value of the constants.
THEOREM ConsoleTyping == Spec => []TypeOK
  BY TypedInit, TypedNext, TypedOK, PTL DEF Spec
=============================================================================
