--------------------------------- MODULE Vi ---------------------------------
(***************************************************************************)
(* The video interface (runtime/src/vi.c): a beam that moves half a line   *)
(* at a time through an odd and an even field, polls the serial interface, *)
(* and latches the display interrupts whose place it passes. The guest may *)
(* change the length of the fields while the beam is in them.              *)
(***************************************************************************)
EXTENDS Si

CONSTANTS
    FieldLengths,   \* half lines a field may be set to
    Displays        \* display interrupt registers, four in the code

ASSUME ViAssumption ==
    /\ FieldLengths \subseteq Nat
    /\ \E x \in FieldLengths : \A y \in FieldLengths : y <= x

VARIABLES
    vi,          \* the beam, the lengths of the fields, the display interrupts
    sincePoll    \* history: half lines since the beam last polled

vivars == <<si, vi, sincePoll>>

Longest  == CHOOSE x \in FieldLengths : \A y \in FieldLengths : y <= x
Nowhere  == 2 * Longest   \* a place the beam never is at
FrameMax == 2 * Longest

\* gcn_vi_init: a running beam, and display interrupts that are enabled.
ViStart == [half |-> 0, odd |-> Longest, even |-> Longest,
            at |-> [d \in Displays |-> 0], int |-> {}, masked |-> Displays]
ViInit  == vi = ViStart /\ sincePoll = 0

ViLevel(v) == v.int \cap v.masked # {}

Frame(v)    == v.odd + v.even
Boundary(v) == v.half = 0 \/ v.half = v.odd

\* The beam after half a line: at the end of the frame it starts over.
Moved(v) ==
    LET half == IF v.half + 1 >= Frame(v) THEN 0 ELSE v.half + 1
    IN  [v EXCEPT !.half = half, !.int = @ \cup {d \in Displays : v.at[d] = half}]

\* vi_advance_halfline: the poll sees the place the beam is leaving, the display
\* interrupts the one it reaches; both lines are evaluated.
ViAdvance ==
    /\ si' = BeamPoll(si, vi.half, Boundary(vi))
    /\ vi' = Moved(vi)
    /\ sincePoll' = IF Due(si, vi.half) THEN 0
                    ELSE IF sincePoll > 2 * FrameMax THEN sincePoll ELSE sincePoll + 1
    /\ IF Due(si, vi.half)
       THEN Drive([c \in {"SI", "VI"} |-> IF c = "SI" THEN SiLevel(si') ELSE ViLevel(vi')])
       ELSE Push("VI", ViLevel(vi'))

\* The guest writes the first half of a display register: place, mask and latch as
\* written, so that a zero acknowledges, and a one raises.
ViWriteDisplay(d, at, int, masked) ==
    /\ vi' = [vi EXCEPT !.at[d] = at,
                        !.int = IF int THEN @ \cup {d} ELSE @ \ {d},
                        !.masked = IF masked THEN @ \cup {d} ELSE @ \ {d}]
    /\ Push("VI", ViLevel(vi'))
    /\ UNCHANGED <<si, sincePoll>>

\* The guest writes DCR with the reset bit: the display registers are cleared.
ViReset ==
    /\ vi' = [vi EXCEPT !.at = [d \in Displays |-> Nowhere], !.int = {}, !.masked = {}]
    /\ Push("VI", ViLevel(vi'))
    /\ UNCHANGED <<si, sincePoll>>

\* The guest sets the vertical timing of one field, in mid-frame if it likes.
ViSetField(odd, even) ==
    /\ vi' = [vi EXCEPT !.odd = odd, !.even = even]
    /\ UNCHANGED <<si, sincePoll, pivars>>

ViNext ==
    \/ ViAdvance
    \/ \E d \in Displays, at \in {0, Nowhere}, int, masked \in BOOLEAN :
          ViWriteDisplay(d, at, int, masked)
    \/ ViReset
    \/ \E odd, even \in FieldLengths : ViSetField(odd, even)

ViTypeOK ==
    /\ SiTypeOK
    /\ vi.half \in 0..FrameMax /\ vi.odd \in FieldLengths /\ vi.even \in FieldLengths
    /\ vi.at \in [Displays -> 0..Nowhere] /\ vi.int \subseteq Displays
    /\ vi.masked \subseteq Displays /\ sincePoll \in Nat

\* The controllers are polled at least once in a frame, wherever in it the guest
\* changes the timing or the period.
PolledEveryFrame == sincePoll <= FrameMax + PollDelay
=============================================================================
