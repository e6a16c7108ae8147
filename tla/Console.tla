------------------------------ MODULE Console ------------------------------
(***************************************************************************)
(* The console: the processor interface and the devices on its bus, as     *)
(* boot.c wires them, with the guest, the beam, the drive, the audio       *)
(* clocks and the GX worker acting one step at a time in any order. The    *)
(* guest of a run drives the devices of its program; the others stay as    *)
(* they are at power-on.                                                   *)
(***************************************************************************)
EXTENDS Di, Exi, Vi, Ai, Dsp, Fifo, Code, Cpu

CONSTANT Programs   \* sets of devices; "transfers": of SI, the guest's transfers alone;
                    \* "pi": the guest writes INTSR; "resume": the machine may go on
                    \* from a snapshot in another process

Devices == {"di", "settings", "card", "si", "vi", "ai", "dsp", "fifo", "code", "copies",
            "cpu", "resume", "transfers", "pi"}

ASSUME ProgramsAssumption == Programs \subseteq SUBSET Devices

VARIABLE program

devvars == <<divars, exivars, vivars, aivars, dspvars, fifovars, codevars,
             cpuvars>>
vars    == <<devvars, pivars, program>>

Init ==
    /\ PiInit /\ DiInit /\ ExiInit /\ SiInit /\ ViInit /\ AiInit /\ DspInit /\ FifoInit
    /\ CodeInit /\ CpuInit
    /\ program \in Programs
    /\ program \cap {"code", "copies"} # {} \/ \A p \in Pages : mem[p] = IplCode
    /\ files = IF "card" \in program THEN {"card"} ELSE {"settings"}

\* The lines as the devices drive them. VI's bit is up from power-on until its line
\* is evaluated.
Line(c) ==
    CASE c = "DI"        -> DiLevel(di)
      [] c = "EXI"       -> ExiLevel(exi)
      [] c = "SI"        -> SiLevel(si)
      [] c = "VI"        -> ViLevel(vi)
      [] c = "AI"        -> AiLevel(ai)
      [] c = "DSP"       -> DspLevel(dsp)
      [] c = "CP"        -> CpLevel(fifo)
      [] c = "PE_TOKEN"  -> "token" \in Raised(pe)
      [] c = "PE_FINISH" -> "finish" \in Raised(pe)

\* The causes whose device is in the middle of a step that ends with its push.
Busy ==
    (IF saving \notin {"none", "off"} THEN {"EXI"} ELSE {})
    \cup (IF pe.at # "idle" THEN {"PE_TOKEN", "PE_FINISH"} ELSE {})
    \cup (IF [vi EXCEPT !.odd = Longest, !.even = Longest] = ViStart THEN {"VI"} ELSE {})

DiStep   == "di" \in program /\ DiNext
            /\ UNCHANGED <<exivars, vivars, aivars, dspvars, fifovars, codevars, cpuvars>>
ExiStep  == /\ \/ "settings" \in program /\ SettingsNext
               \/ "card" \in program /\ CardNext
               \/ program \cap {"settings", "card"} # {} /\ ExiEnd
            /\ UNCHANGED <<divars, vivars, aivars, dspvars, fifovars, codevars, cpuvars>>
SiStep   == /\ \/ "si" \in program /\ SiNext
               \/ "transfers" \in program /\ SiTransfers(Connected)
            /\ UNCHANGED <<divars, exivars, vi, sincePoll, aivars, dspvars, fifovars, codevars,
                         cpuvars>>
ViStep   == "vi" \in program /\ ViNext
            /\ UNCHANGED <<divars, exivars, aivars, dspvars, fifovars, codevars, cpuvars>>
AiStep   == "ai" \in program /\ AiNext
            /\ UNCHANGED <<divars, exivars, vivars, dspvars, fifovars, codevars, cpuvars>>
DspStep  == "dsp" \in program /\ DspNext
            /\ UNCHANGED <<divars, exivars, vivars, aivars, fifovars, codevars, cpuvars>>
FifoStep == "fifo" \in program /\ FifoNext
            /\ UNCHANGED <<divars, exivars, vivars, aivars, dspvars, codevars, cpuvars>>

\* The guest acknowledges a cause in INTSR. The CPU thread is at liberty.
PiStep == "pi" \in program /\ saving = "none" /\ ~gxtick.on
          /\ (\E c \in Causes \ {"RST_BUTTON"} : Acknowledge({c})) /\ UNCHANGED devvars

CodeStep == /\ \/ "code" \in program /\ (Stores \/ Runs)
               \/ "copies" \in program /\ (Copies \/ Runs)
            /\ UNCHANGED <<divars, exivars, vivars, aivars, dspvars, fifovars, cpuvars, pivars>>

\* The CPU, and the host that saves it and goes on with it elsewhere.
CpuStep == /\ \/ "cpu" \in program /\ CpuNext
              \/ "resume" \in program /\ SnapshotResumed
           /\ UNCHANGED <<divars, exivars, vivars, aivars, dspvars, fifovars, codevars>>

Next == (DiStep \/ ExiStep \/ SiStep \/ ViStep \/ AiStep \/ DspStep \/ FifoStep \/ CodeStep
         \/ CpuStep \/ PiStep)
        /\ UNCHANGED program

Spec == Init /\ [][Next]_vars

TypeOK == /\ DiTypeOK /\ ExiTypeOK /\ ViTypeOK /\ AiTypeOK /\ DspTypeOK /\ FifoTypeOK
          /\ CodeTypeOK /\ CpuTypeOK
          /\ intsr \subseteq Causes /\ acked \subseteq Causes

\* INTSR shows what the devices' lines say, whichever device, thread or guest wrote
\* it last and whatever the others pushed in between, but for a cause the guest has
\* acknowledged without quieting its device; and a card's interrupt is in a CSR.
LinesAgree ==
    /\ \A c \in Causes \ ({"RST_BUTTON"} \cup Busy) : Agrees(c, Line(c))
    /\ CardFindable

\* Without copies of the GX worker in between, the interpreter's checksums are true.
MissesTrue == "copies" \notin program => MemoTrue

\* In a machine that is never saved and resumed elsewhere, the alarms of the guest are kept.
AlarmsKept == "resume" \notin program => DecrementerKept
=============================================================================
