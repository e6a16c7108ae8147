--------------------------------- MODULE Pi ---------------------------------
(***************************************************************************)
(* The processor interface (runtime/src/pi.c): the word of interrupt       *)
(* causes, INTSR, that every device drives and the guest acknowledges. A   *)
(* device pushes the level of its line each time it evaluates it; the      *)
(* guest clears bits by writing ones. The word is shared with the GX       *)
(* worker, so a push or an acknowledge is one atomic operation on it.      *)
(***************************************************************************)
EXTENDS Naturals, FiniteSets

Causes == {"DI", "SI", "EXI", "AI", "DSP", "VI", "PE_TOKEN", "PE_FINISH", "CP",
           "RST_BUTTON"}

VARIABLES
    intsr,   \* pi->intsr, the set of causes that are set
    acked    \* causes the guest cleared since their device last pushed (history)

pivars == <<intsr, acked>>

\* The reset button is up, and the VI bit stays set until VI evaluates its line.
PiInit == intsr = {"RST_BUTTON", "VI"} /\ acked = {}

\* gcn_pi_set_interrupt, for each cause that a step pushes: a level sets the bit, no
\* level clears it, and the other bits stay what they are.
Drive(levels) ==
    LET up == {c \in DOMAIN levels : levels[c]}
    IN  /\ intsr' = (intsr \ DOMAIN levels) \cup up
        /\ acked' = acked \ DOMAIN levels

\* A device pushes the level of its line.
Push(cause, level) == Drive([c \in {cause} |-> level])

\* The guest writes INTSR: the bits it writes are cleared, whatever the lines say.
Acknowledge(cs) ==
    /\ cs \cap intsr # {}
    /\ intsr' = intsr \ cs
    /\ acked' = acked \cup (cs \cap intsr)

\* The bit of cause c and the line that drives it agree, but for an acknowledge
\* that the device has not answered yet.
Agrees(c, level) ==
    /\ c \in intsr => level
    /\ level => c \in intsr \cup acked
=============================================================================
