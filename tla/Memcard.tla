------------------------------ MODULE Memcard ------------------------------
(***************************************************************************)
(* A memory card (runtime/src/memcard.c) and the host file behind it       *)
(* (memcard_image.c, boot.c). The card is a byte-serial command machine: a *)
(* selection starts a command, its bytes arrive one at a time, and an      *)
(* erase or a program changes the flash only when the card is deselected.  *)
(* The flash is taken by sector: erased, or holding what was programmed.   *)
(***************************************************************************)
EXTENDS Naturals, FiniteSets

CONSTANTS
    Sectors,   \* sectors of the card
    Header     \* the one with the header; the others are directory and BAT copies

ASSUME CardAssumption == Header \in Sectors

CardCommands == {"ID", "READ_ARRAY", "SECTOR_ERASE", "CHIP_ERASE", "PAGE_PROGRAM",
                 "SET_INTERRUPT", "CLEAR_STATUS"}

Blank == [s \in Sectors |-> "erased"]

\* Positions from this one on are alike: a program command has all its bytes.
MaxPosition == 6

\* gcn_memcard_init over an image: selected by nobody, the interrupt switched off.
CardInit(image) ==
    [flash |-> image, command |-> "ID", position |-> 0, address |-> Header,
     switch |-> FALSE, set |-> FALSE, dirty |-> FALSE]

\* gcn_memcard_interrupt_set
CardInterrupt(c) == c.switch /\ c.set

Next1(n) == IF n < MaxPosition THEN n + 1 ELSE n

\* gcn_memcard_transfer_byte. The first byte of a selection is the command; the
\* third is the one that chooses the sector; a byte of SET_INTERRUPT is the switch.
CardByte(c, command, sector, on) ==
    IF c.position = 0
    THEN [c EXCEPT !.command = command, !.position = 1,
                   !.set = IF command = "CLEAR_STATUS" THEN FALSE ELSE @]
    ELSE [c EXCEPT !.position = Next1(@),
                   !.address = IF c.position = 2 /\ c.command \in
                                    {"READ_ARRAY", "SECTOR_ERASE", "PAGE_PROGRAM"}
                               THEN sector ELSE @,
                   !.switch = IF c.position = 1 /\ c.command = "SET_INTERRUPT"
                              THEN on ELSE @]

\* Whether the bytes of this selection make an erase or a program complete.
Complete(c) ==
    \/ c.command \in {"SECTOR_ERASE", "CHIP_ERASE"} /\ c.position > 2
    \/ c.command = "PAGE_PROGRAM" /\ c.position >= 5

\* gcn_memcard_set_cs: selecting starts a command, deselecting carries one out. An
\* erased chip raises no interrupt, and a program without data writes nothing.
Deselected(c) ==
    IF ~Complete(c) THEN c
    ELSE CASE c.command = "SECTOR_ERASE" ->
                [c EXCEPT !.flash[c.address] = "erased", !.set = TRUE, !.dirty = TRUE]
           [] c.command = "CHIP_ERASE" ->
                [c EXCEPT !.flash = Blank, !.dirty = TRUE]
           [] c.command = "PAGE_PROGRAM" ->
                [c EXCEPT !.flash[c.address] = IF c.position > 5 THEN "written" ELSE @,
                          !.set = TRUE, !.dirty = TRUE]

SetCs(c, selected) == IF selected THEN [c EXCEPT !.position = 0] ELSE Deselected(c)

\* gcn_memcard_dma_write: straight into the flash, whatever the command.
CardDma(c) == [c EXCEPT !.flash[c.address] = "written", !.dirty = TRUE]

-----------------------------------------------------------------------------
(* The host file. *)

\* A file with the wrong size.
Torn == <<>>

\* gcn_mc_image_check of a whole file: a good header, and at most one bad copy.
Mountable(file) ==
    /\ file # Torn
    /\ file[Header] = "written"
    /\ Cardinality({s \in Sectors \ {Header} : file[s] # "written"}) <= 1

\* setup_memcard: a file that cannot be mounted is replaced by a blank card, and
\* when that cannot be saved either, by a formatted card that lives in memory and
\* that one more attempt is made to save.
Formatted == [s \in Sectors |-> "written"]

Mounted(file, minted) ==
    IF Mountable(file) THEN file ELSE IF minted THEN Blank ELSE Formatted

FileAfterBoot(file, minted, formatted) ==
    IF Mountable(file) THEN file
    ELSE IF minted THEN Blank ELSE IF formatted THEN Formatted ELSE Torn
=============================================================================
