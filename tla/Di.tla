--------------------------------- MODULE Di ---------------------------------
(***************************************************************************)
(* The disc drive (runtime/src/di.c). A command is executed when the guest *)
(* writes TSTART: it changes the drive's state at once, and a tick some    *)
(* cycles later completes it, lands the data of a read and raises the      *)
(* interrupt. Between the two the guest may write any register, the host   *)
(* may swap or remove the disc, and the processor interface may reset the  *)
(* drive. Addresses, lengths and offsets count blocks of 32 bytes.         *)
(***************************************************************************)
EXTENDS Pi

CONSTANTS
    Discs,        \* disc images the host can mount
    DiscBlocks,   \* size of an image
    RamBlocks,    \* MEM1, in blocks
    Latencies,    \* ticks a read may take; the seek model of the code is real-valued
    MaxCommands   \* bound on the commands the guest issues

ASSUME DiAssumption ==
    /\ DiscBlocks \in Nat /\ RamBlocks \in Nat \ {0}
    /\ Latencies \subseteq Nat \ {0} /\ Latencies # {}
    /\ MaxCommands \in Nat

VARIABLES
    di,         \* the registers and the command in flight
    disc,       \* the image mounted, or NoDisc
    diSeen,     \* history: the disc whose ID was asked for since it was mounted
    diDropped,  \* history: a reset dropped the command TSTART still shows
    diIssued    \* commands issued so far

divars == <<di, disc, diSeen, diDropped, diIssued>>

NoDisc == "no disc"

DriveStates == {"READY", "READY_NO_READS_MADE", "COVER_OPENED", "DISC_CHANGE",
                "MOTOR_STOPPED", "DISC_ID_NOT_READ"}

\* "READ" stands for every sector read, the others for one opcode each.
Commands == {"INQUIRY", "READ", "READ_ID", "SEEK", "REQUEST_ERROR", "AUDIO_STREAM",
             "STOP_MOTOR", "AUDIO_CONFIG", "INVALID"}

DiInit ==
    /\ di = [status |-> {}, masks |-> {}, mar |-> 0, length |-> 0, tstart |-> FALSE,
             drive |-> "COVER_OPENED", error |-> "NONE", dtk |-> FALSE,
             pending |-> FALSE, intr |-> "TCINT", cycles |-> 0, read |-> {}]
    /\ disc = NoDisc /\ diSeen = NoDisc /\ diDropped = FALSE /\ diIssued = 0

DiscInside == disc # NoDisc

\* The line is the or of the four pairs of status and mask.
DiLevel(d) == d.status \cap d.masks # {}

DiPush(d) == Push("DI", DiLevel(d))

-----------------------------------------------------------------------------
(* Commands. *)

\* di_check_read_preconditions: what keeps drive state s from reading, or "NONE".
Refusal(s) ==
    CASE ~DiscInside               -> "MEDIUM_NOT_PRESENT"
      [] s = "DISC_CHANGE"         -> "MEDIUM_CHANGED"
      [] s = "MOTOR_STOPPED"       -> "MOTOR_STOPPED"
      [] s = "DISC_ID_NOT_READ"    -> "NO_DISC_ID"
      [] OTHER                     -> "NONE"

Refuse(d, e) == [d EXCEPT !.error = e, !.intr = "DEINT"]

Smaller(a, b) == IF a <= b THEN a ELSE b

\* di_prepare_read: the length is clamped to DILENGTH, a read past the end of the
\* disc or into no RAM is an error, one past the end of RAM is cut.
PrepareRead(d, offset, asked, latency) ==
    LET length == Smaller(asked, d.length)
        fits   == Smaller(length, RamBlocks - d.mar)
    IN  IF offset + length > DiscBlocks THEN Refuse(d, "BLOCK_OOB")
        ELSE IF length = 0 THEN d
        ELSE IF d.mar >= RamBlocks THEN [d EXCEPT !.intr = "DEINT"]
        ELSE [d EXCEPT !.read = {[offset |-> offset, length |-> fits, addr |-> d.mar,
                                  of |-> disc]},
                       !.cycles = latency]

\* A read of either kind, by a drive that the command itself has moved to state s.
ReadFrom(d, s, offset, asked, latency) ==
    LET moved == [d EXCEPT !.drive = s]
    IN  IF Refusal(s) # "NONE" THEN Refuse(moved, Refusal(s))
        ELSE PrepareRead(moved, offset, asked, latency)

AfterRead(s) == IF s = "READY_NO_READS_MADE" THEN "READY" ELSE s
AfterReadId(s) ==
    IF s = "DISC_ID_NOT_READ" THEN "READY_NO_READS_MADE" ELSE AfterRead(s)

\* di_execute_command, from a state with the command's default reply in place.
Execute(d, cmd, offset, asked, on, latency) ==
    CASE cmd = "READ"    -> ReadFrom(d, AfterRead(d.drive), offset, asked, latency)
      [] cmd = "READ_ID" -> ReadFrom(d, AfterReadId(d.drive), 0, 1, latency)
      [] cmd = "REQUEST_ERROR" -> [d EXCEPT !.error = "NONE"]
      [] cmd = "AUDIO_STREAM" ->
            IF Refusal(d.drive) # "NONE" THEN Refuse(d, Refusal(d.drive))
            ELSE IF ~d.dtk THEN Refuse(d, "NO_AUDIO_BUF") ELSE d
      [] cmd = "STOP_MOTOR" ->
            IF d.drive \in {"READY", "READY_NO_READS_MADE", "DISC_ID_NOT_READ"}
            THEN [d EXCEPT !.drive = "MOTOR_STOPPED"] ELSE d
      [] cmd = "AUDIO_CONFIG" ->
            IF Refusal(d.drive) # "NONE" THEN Refuse(d, Refusal(d.drive))
            ELSE IF d.drive = "READY" THEN Refuse(d, "INVALID_PERIOD")
            ELSE [d EXCEPT !.dtk = on]
      [] cmd = "INVALID" -> Refuse(d, "INVALID_COMMAND")
      [] OTHER -> d

\* The guest writes DICR with TSTART: the command buffer is read only here, so
\* writing it is part of this step. A command in flight is simply replaced.
DiCommand(cmd, offset, asked, on, latency) ==
    /\ diIssued < MaxCommands
    /\ di' = Execute([di EXCEPT !.tstart = TRUE, !.pending = TRUE, !.read = {},
                                !.cycles = 1, !.intr = "TCINT",
                                !.error = IF cmd = "REQUEST_ERROR" THEN di.error
                                          ELSE "NONE"],
                     cmd, offset, asked, on, latency)
    /\ diSeen' = IF cmd = "READ_ID" /\ di.drive = "DISC_ID_NOT_READ" THEN disc ELSE diSeen
    /\ diDropped' = FALSE
    /\ diIssued' = diIssued + 1
    /\ UNCHANGED <<disc, pivars>>

\* The guest writes DICR without TSTART: the command in flight goes on.
DiStop ==
    /\ di.tstart
    /\ di' = [di EXCEPT !.tstart = FALSE]
    /\ diDropped' = FALSE
    /\ UNCHANGED <<disc, diSeen, diIssued, pivars>>

\* The guest writes DIMAR or DILENGTH, which a completion reads again.
DiSetDma(mar, length) ==
    /\ di' = [di EXCEPT !.mar = mar, !.length = length]
    /\ UNCHANGED <<disc, diSeen, diDropped, diIssued, pivars>>

-----------------------------------------------------------------------------
(* Interrupt registers. *)

DiStatus == {"DEINT", "TCINT", "CVRINT"}

\* The guest writes DISR or DICVR: masks are copied, status bits written as one
\* are cleared, and the line is evaluated.
DiWriteStatus(reg, masks, clear) ==
    /\ masks \subseteq reg /\ clear \subseteq reg
    /\ di' = [di EXCEPT !.masks = (@ \ reg) \cup masks, !.status = @ \ clear]
    /\ DiPush(di')
    /\ UNCHANGED <<disc, diSeen, diDropped, diIssued>>

-----------------------------------------------------------------------------
(* Time, and the host. *)

\* di_commit_pending_read and the end of gcn_di_tick: DIMAR advances by what
\* DILENGTH holds now (all
\* addresses past RAM are one), and the guest hears of it only if TSTART is still set.
Completed(d) ==
    LET moved == IF d.intr = "TCINT"
                 THEN [d EXCEPT !.read = {}, !.mar = Smaller(@ + d.length, RamBlocks),
                                !.length = 0]
                 ELSE d
    IN  [moved EXCEPT !.pending = FALSE, !.cycles = 0, !.tstart = FALSE,
                      !.status = IF d.tstart THEN @ \cup {d.intr} ELSE @]

\* gcn_di_tick, in units of the shortest latency.
DiTick ==
    /\ di.pending
    /\ IF di.cycles > 1
       THEN di' = [di EXCEPT !.cycles = @ - 1] /\ UNCHANGED pivars
       ELSE /\ di' = Completed(di)
            /\ IF di.tstart THEN DiPush(di') ELSE UNCHANGED pivars
    /\ UNCHANGED <<disc, diSeen, diDropped, diIssued>>

\* Mutant: the command in flight survives.
ResetDriveOnly(r, d, spinup) ==
    [r EXCEPT !.drive = IF d = NoDisc THEN "COVER_OPENED"
                        ELSE IF spinup THEN "DISC_ID_NOT_READ" ELSE "DISC_CHANGE",
              !.error = "NONE", !.dtk = FALSE]

\* gcn_di_reset_drive with d inside. TSTART and the line are left alone.
ResetDrive(r, d, spinup) ==
    [r EXCEPT !.drive = IF d = NoDisc THEN "COVER_OPENED"
                        ELSE IF spinup THEN "DISC_ID_NOT_READ" ELSE "DISC_CHANGE",
              !.error = "NONE", !.dtk = FALSE, !.pending = FALSE, !.intr = "TCINT",
              !.cycles = 0, !.read = {}]

\* The guest writes PI_RESETCODE with bit 2 clear: the hook spins the drive up.
DiSpinUp ==
    /\ di' = ResetDrive(di, disc, TRUE)
    /\ diDropped' = di.tstart
    /\ UNCHANGED <<disc, diSeen, diIssued, pivars>>

\* gcn_di_set_disc and gcn_di_eject_disc: the lid follows the disc, an edge of it
\* raises the cover interrupt, and the drive is reset without spinning up.
DiMount(d) ==
    /\ d \in Discs \cup {NoDisc}
    /\ disc' = d
    /\ IF DiscInside # (d # NoDisc)
       THEN /\ di' = ResetDrive([di EXCEPT !.status = @ \cup {"CVRINT"}], d, FALSE)
            /\ DiPush(di')
       ELSE di' = ResetDrive(di, d, FALSE) /\ UNCHANGED pivars
    /\ diDropped' = di.tstart
    /\ diSeen' = NoDisc
    /\ UNCHANGED diIssued

DiGuest ==
    \/ \E cmd \in Commands, offset \in 0..DiscBlocks, asked \in 0..DiscBlocks,
          on \in BOOLEAN, latency \in Latencies :
            /\ cmd # "READ" => offset = 0 /\ asked = 0
            /\ cmd # "AUDIO_CONFIG" => on = FALSE
            /\ cmd \notin {"READ", "READ_ID"} => latency = CHOOSE l \in Latencies : TRUE
            /\ DiCommand(cmd, offset, asked, on, latency)
    \/ DiStop
    \/ \E mar \in 0..RamBlocks, length \in 0..DiscBlocks : DiSetDma(mar, length)
    \/ \E reg \in {{"DEINT", "TCINT"}, {"CVRINT"}} :
          \E masks \in {{}, reg}, clear \in SUBSET (reg \cap di.status) :
             DiWriteStatus(reg, masks, clear)
    \/ DiSpinUp

DiNext == DiGuest \/ DiTick \/ \E d \in Discs \cup {NoDisc} : DiMount(d)

-----------------------------------------------------------------------------
(* Properties. *)

DiTypeOK ==
    /\ di.status \subseteq DiStatus /\ di.masks \subseteq DiStatus
    /\ di.drive \in DriveStates /\ di.mar \in 0..RamBlocks /\ di.length \in Nat
    /\ di.intr \in {"TCINT", "DEINT"} /\ di.cycles \in Nat
    /\ {di.tstart, di.pending, di.dtk, diDropped} \subseteq BOOLEAN
    /\ di.read \subseteq [offset : Nat, length : Nat \ {0}, addr : Nat, of : Discs]
    /\ disc \in Discs \cup {NoDisc} /\ diIssued \in 0..MaxCommands

\* A read in flight is of the disc that is in the drive, inside the disc and inside
\* RAM, was accepted by a drive in a state to read, and will be completed.
DiReadSound ==
    \A r \in di.read :
        /\ di.pending /\ di.intr = "TCINT"
        /\ r.of = disc
        /\ r.offset + r.length <= DiscBlocks
        /\ r.addr + r.length <= RamBlocks
        /\ di.drive \in {"READY", "READY_NO_READS_MADE"}

\* The drive is ready only for a disc whose ID the guest has asked for since it was
\* put in, and not for one swapped in behind it.
DiIdentified == di.drive \in {"READY", "READY_NO_READS_MADE"} => diSeen = disc /\ DiscInside

\* TSTART shows a command that will complete, but for one that a reset dropped.
DiStartMeans == di.tstart => di.pending \/ diDropped

DiOwnDisc == DiReadSound /\ DiIdentified /\ DiStartMeans
=============================================================================
