-------------------------------- MODULE Exi --------------------------------
(***************************************************************************)
(* The external interface (runtime/src/exi.c): channels with a chip select *)
(* and three interrupt bits; behind channel 0 the clock and the settings   *)
(* (RTC and SRAM) as one command-driven device, behind another a memory    *)
(* card. Settings are saved to a host file with every word written, the    *)
(* card with every deselection that changed it. Both saves rewrite the     *)
(* file in place, and the process may die at any time, in a save too.      *)
(***************************************************************************)
EXTENDS Pi, Memcard

CONSTANTS
    Channels,      \* 0..2 in the code
    CardChannel,   \* the channel with a card
    SramWords,     \* words of SRAM; word 0 of the settings is the RTC counter
    Values         \* what a word may hold, 0 among them (the seed fixture)

ASSUME ExiAssumption ==
    /\ Channels \subseteq 0..2 /\ 0 \in Channels /\ CardChannel \in {0, 1} \cap Channels
    /\ SramWords \in Nat /\ 0 \in Values

VARIABLES
    exi,           \* the channels
    settings,      \* RTC and SRAM
    settingsFile,  \* the file of the settings
    card,          \* the memory card
    cardFile,      \* the file of the card
    saving,        \* what the CPU thread is saving
    files,         \* which of the two files the environment names
    unsaved        \* history: the files that the last save or boot could not write

exivars == <<exi, settings, settingsFile, card, cardFile, saving, files, unsaved>>

Words   == 0..SramWords
Fixture == [w \in Words |-> 0]
ExiBits == {"EXIINT", "TCINT", "EXTINT"}
Selects == {0, 1, 2}   \* none, device 0 (the card), device 1 (RTC and SRAM)

\* gcn_exi_init: external interrupts latched, channel 1 with device 0 selected in
\* its CSR while the selection it remembers is none.
ChannelInit(ch) ==
    [status |-> IF ch < 2 THEN {"EXTINT"} ELSE {}, masks |-> {},
     cs |-> IF ch = 1 THEN 1 ELSE 0, prev |-> 0, op |-> "NONE", cmd |-> FALSE, pos |-> 0]

ExiInit ==
    /\ exi = [ch \in Channels |-> ChannelInit(ch)]
    /\ settings = Fixture /\ settingsFile = Fixture
    /\ card = CardInit(Formatted) /\ cardFile = Formatted
    /\ saving = "none" /\ files \in SUBSET {"settings", "card"} /\ unsaved = {}

-----------------------------------------------------------------------------
(* The line. *)

\* The card's own interrupt is registered in EXIINT of its channel, where the
\* guest's dispatcher finds it.
Registered(x, c) ==
    IF CardInterrupt(c) THEN [x EXCEPT ![CardChannel].status = @ \cup {"EXIINT"}] ELSE x

ExiLevel(x) == \E ch \in Channels : x[ch].status \cap x[ch].masks # {}

\* exi_update_interrupts, the end of every write that does something.
Evaluate(x, c) ==
    /\ exi' = Registered(x, c)
    /\ Push("EXI", ExiLevel(Registered(x, c)))

\* The end of start_transfer: most devices complete at once and say so.
Transferred(x, ch, done) ==
    IF done THEN [x EXCEPT ![ch].status = @ \cup {"TCINT"}] ELSE x

-----------------------------------------------------------------------------
(* The guest's writes. While a file is being saved the CPU thread is in it. *)

\* write_csr: masks, acknowledged bits, the selection, and the start of a new
\* transaction when it moved.
CsrWritten(x, ch, masks, cs, clear) ==
    LET set == [x[ch] EXCEPT !.masks = masks, !.cs = cs, !.status = @ \ clear]
    IN  IF cs = set.prev THEN [x EXCEPT ![ch] = set]
        ELSE [x EXCEPT ![ch] = [set EXCEPT !.prev = cs, !.op = "NONE", !.cmd = FALSE,
                                           !.pos = 0]]

\* The card after a write that moves the selection of its channel.
CardSelected(c, prev, cs) ==
    IF (prev = 1) = (cs = 1) THEN c ELSE SetCs(c, cs = 1)

\* Mutant: the flush looks at the card as it was before the deselection.
Flushes(before, after, prev, cs) == prev = 1 /\ cs # 1 /\ before.dirty

\* The card is flushed when it is deselected with changes in it.
Flush(before, after, prev, cs) == prev = 1 /\ cs # 1 /\ after.dirty

\* A CSR write; one that flushes the card goes on when the file is closed, or at
\* once when it could not be opened.
ExiWriteCsr(ch, masks, cs, clear) ==
    LET x == CsrWritten(exi, ch, masks, cs, clear)
        c == IF ch = CardChannel THEN CardSelected(card, exi[ch].prev, cs) ELSE card
        flush == ch = CardChannel /\ Flush(card, c, exi[ch].prev, cs)
    IN  /\ card' = IF flush /\ "card" \notin files THEN [c EXCEPT !.dirty = FALSE] ELSE c
        /\ IF flush /\ "card" \in files
           THEN \/ /\ cardFile' = Torn /\ saving' = "card" /\ exi' = x
                   /\ UNCHANGED <<unsaved, pivars>>
                \/ /\ unsaved' = unsaved \cup {"card"} /\ Evaluate(x, c)
                   /\ UNCHANGED <<cardFile, saving>>
           ELSE Evaluate(x, c) /\ UNCHANGED <<cardFile, saving, unsaved>>
        /\ UNCHANGED <<settings, settingsFile, files>>

\* card_persist_to_file ends, the whole file written or not, and so does write_csr.
CardSaved ==
    /\ saving = "card" /\ saving' = "none"
    /\ \/ /\ cardFile' = card.flash /\ card' = [card EXCEPT !.dirty = FALSE]
          /\ unsaved' = unsaved \ {"card"}
       \/ /\ unsaved' = unsaved \cup {"card"}
          /\ UNCHANGED <<card, cardFile>>
    /\ Evaluate(exi, card')
    /\ UNCHANGED <<settings, settingsFile, files>>

\* The command word that starts a transaction with the clock and the settings.
IplOps == {"RTC_WRITE", "SRAM_WRITE", "READ"}

IplCommand(op) ==
    /\ exi[0].cs = 2 /\ ~exi[0].cmd
    /\ Evaluate(Transferred([exi EXCEPT ![0].cmd = TRUE, ![0].op = op, ![0].pos = 0],
                            0, TRUE), card)
    /\ UNCHANGED <<settings, settingsFile, card, cardFile, saving, files, unsaved>>

\* What a data word makes of the settings; SRAM words past the end are dropped.
Stored(x, v) ==
    IF x.op = "RTC_WRITE" THEN [settings EXCEPT ![0] = v]
    ELSE IF x.pos < SramWords THEN [settings EXCEPT ![x.pos + 1] = v] ELSE settings

\* A data word of a write, saved at once: the whole blob, word by word.
IplData(v) ==
    LET x == IF exi[0].op = "SRAM_WRITE" /\ exi[0].pos < SramWords
             THEN [exi EXCEPT ![0].pos = @ + 1] ELSE exi
    IN  /\ exi[0].cs = 2 /\ exi[0].cmd /\ exi[0].op \in {"RTC_WRITE", "SRAM_WRITE"}
        /\ settings' = Stored(exi[0], v)
        /\ \/ /\ "settings" \in files
              /\ settingsFile' = Torn /\ saving' = "settings" /\ exi' = x
              /\ UNCHANGED <<unsaved, pivars>>
           \/ /\ unsaved' = unsaved \cup (files \cap {"settings"})
              /\ Evaluate(Transferred(x, 0, TRUE), card)
              /\ UNCHANGED <<settingsFile, saving>>
        /\ UNCHANGED <<card, cardFile, files>>

\* sram_persist_to_file ends, and start_transfer with it.
SettingsSaved ==
    /\ saving = "settings" /\ saving' = "none"
    /\ \/ settingsFile' = settings /\ unsaved' = unsaved \ {"settings"}
       \/ unsaved' = unsaved \cup {"settings"} /\ UNCHANGED settingsFile
    /\ Evaluate(Transferred(exi, 0, TRUE), card)
    /\ UNCHANGED <<settings, card, cardFile, files>>

\* An immediate transfer of one byte to the card, which does not say it is done;
\* a longer one is a sequence of these.
CardTransfer(command, sector, on) ==
    /\ exi[CardChannel].cs = 1
    /\ card' = CardByte(card, command, sector, on)
    /\ Evaluate(exi, card')
    /\ UNCHANGED <<settings, settingsFile, cardFile, saving, files, unsaved>>

\* A DMA to the card, or from it, which does.
CardDmaTransfer(write) ==
    /\ exi[CardChannel].cs = 1
    /\ card' = IF write THEN CardDma(card) ELSE card
    /\ Evaluate(Transferred(exi, CardChannel, TRUE), card')
    /\ UNCHANGED <<settings, settingsFile, cardFile, saving, files, unsaved>>

\* A transfer with no device at that channel and selection, or a read of the
\* settings, which moves the position on.
OtherTransfer(ch) ==
    /\ ~(ch = CardChannel /\ exi[ch].cs = 1)
    /\ Evaluate(Transferred(exi, ch, TRUE), card)
    /\ UNCHANGED <<settings, settingsFile, card, cardFile, saving, files, unsaved>>

-----------------------------------------------------------------------------
(* The process ends and starts again. *)

\* A clean shutdown: the settings are saved once more, the card if it has changes.
ExiShutdown ==
    /\ saving = "none" /\ saving' = "off"
    /\ settingsFile' \in IF "settings" \in files THEN {settings, settingsFile, Torn}
                         ELSE {settingsFile}
    /\ cardFile' \in IF "card" \in files /\ card.dirty THEN {card.flash, cardFile, Torn}
                     ELSE {cardFile}
    /\ unsaved' = {f \in files :
                      \/ f = "settings" /\ settingsFile' # settings
                      \/ f = "card" /\ IF card.dirty THEN cardFile' # card.flash
                                       ELSE f \in unsaved}
    /\ UNCHANGED <<exi, settings, card, files, pivars>>

\* Boot, after a shutdown or at any moment: a whole settings file is loaded, or the
\* fixture stands; the card's file is mounted, or replaced; a card without a file
\* is formatted in memory.
ExiRestart ==
    /\ exi' = [ch \in Channels |-> ChannelInit(ch)] /\ saving' = "none"
    /\ settings' = IF "settings" \in files /\ settingsFile # Torn THEN settingsFile
                   ELSE Fixture
    /\ IF "card" \in files
       THEN \E minted, formatted \in BOOLEAN :
               /\ card' = CardInit(Mounted(cardFile, minted))
               /\ cardFile' = FileAfterBoot(cardFile, minted, formatted)
       ELSE card' = CardInit(Formatted) /\ UNCHANGED cardFile
    /\ unsaved' = {f \in files : \/ f = "settings" /\ settingsFile = Torn
                                 \/ f = "card" /\ cardFile' = Torn}
    /\ intsr' = {"RST_BUTTON", "VI"} /\ acked' = {}
    /\ UNCHANGED <<settingsFile, files>>

ExiCsr(ch, selects, clears) ==
    /\ saving = "none"
    /\ \E masks \in {{}, ExiBits}, cs \in selects, clear \in clears :
          ExiWriteCsr(ch, masks, cs, clear)

\* The guest that sets the clock and the settings.
SettingsNext ==
    \/ ExiCsr(0, {0, 2}, {{}, ExiBits})
    \/ /\ saving = "none"
       /\ \/ \E op \in IplOps : IplCommand(op)
          \/ \E v \in Values : IplData(v)
          \/ \E ch \in Channels : OtherTransfer(ch)
    \/ SettingsSaved

\* The guest that drives the memory card.
CardNext ==
    \/ ExiCsr(CardChannel, {0, 1}, {ExiBits, ExiBits \ {"EXIINT"}})
    \/ /\ saving = "none"
       /\ \/ \E command \in CardCommands, sector \in Sectors, on \in BOOLEAN :
                /\ card.position # 0 => command = card.command
                /\ card.position # 2 => sector = card.address
                /\ card.position = 1 \/ ~on
                /\ CardTransfer(command, sector, on)
          \/ \E write \in BOOLEAN : CardDmaTransfer(write)
    \/ CardSaved

ExiEnd == ExiShutdown \/ ExiRestart

-----------------------------------------------------------------------------
(* Properties. *)

ExiTypeOK ==
    /\ exi \in [Channels -> [status : SUBSET ExiBits, masks : SUBSET ExiBits,
                             cs : Selects, prev : Selects, cmd : BOOLEAN,
                             op : {"NONE"} \cup IplOps, pos : 0..SramWords]]
    /\ settings \in [Words -> Values]
    /\ settingsFile = Torn \/ settingsFile \in [Words -> Values]
    /\ card.command \in CardCommands /\ card.position \in 0..MaxPosition
    /\ saving \in {"none", "settings", "card", "off"}
    /\ unsaved \subseteq files /\ files \subseteq {"settings", "card"}

\* A guest whose card has interrupted finds the source in a CSR, where it
\* acknowledges it, and not only in the line.
CardFindable ==
    saving # "card" /\ CardInterrupt(card) => "EXIINT" \in exi[CardChannel].status

\* What a restart may lose: the settings only if their save failed or was cut off;
\* the card's flash only if its save did, or in the middle of a selection, or when
\* what the guest had left on it was no file system.
KeepsSettings ==
    \/ settings' = settings
    \/ saving = "settings" \/ "settings" \in unsaved \/ "settings" \notin files
KeepsCard ==
    \/ card'.flash = card.flash
    \/ saving = "card" \/ "card" \in unsaved \/ "card" \notin files
    \/ exi[CardChannel].prev = 1
    \/ ~Mountable(card.flash)

SurvivesRestart == [][ExiRestart => KeepsSettings /\ KeepsCard]_exivars
=============================================================================
