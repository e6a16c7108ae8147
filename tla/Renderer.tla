------------------------------ MODULE Renderer ------------------------------
(***************************************************************************)
(* What a GX renderer promises: each command takes effect before the next, *)
(* on the one frame buffer and on guest memory. The guest waits for the    *)
(* fence that follows a copy before it touches what was copied to.         *)
(***************************************************************************)
EXTENDS GxImage

VARIABLES
    efb,     \* the embedded frame buffer
    memory,  \* guest memory and TMEM: area -> content
    owed,    \* cells copied to since the last fence
    seen     \* what the guest has just read, in memory or by an EFB peek

vars == <<efb, memory, owed, seen>>

Unseen == Pictures     \* the guest has not just read anything

Init == /\ efb = Blank /\ memory = [a \in Cells \cup Palettes |-> Blank]
        /\ owed = {} /\ seen = Unseen

\* A primitive of n triangles.
Draw(d, n) ==
    /\ efb' = FoldLeft(LAMBDA p, i : Painted(p, Bytes(d, memory)), efb, [i \in 1 .. n |-> i])
    /\ seen' = Unseen /\ UNCHANGED <<memory, owed>>

Copy(c, clear) ==
    /\ memory' = [memory EXCEPT ![c] = efb]
    /\ efb' = IF clear THEN Blank ELSE efb
    /\ owed' = owed \cup {c} /\ seen' = Unseen

LoadPalette(c, p) ==
    /\ c \notin owed
    /\ memory' = [memory EXCEPT ![p] = memory[c]]
    /\ seen' = Unseen /\ UNCHANGED <<efb, owed>>

Fence == owed' = {} /\ seen' = Unseen /\ UNCHANGED <<efb, memory>>

Peek == owed' = {} /\ seen' = efb /\ UNCHANGED <<efb, memory>>

GuestReads(c) == c \notin owed /\ seen' = memory[c] /\ UNCHANGED <<efb, memory, owed>>

GuestWrites(c, v) ==
    /\ c \notin owed
    /\ memory' = [memory EXCEPT ![c] = v]
    /\ seen' = Unseen /\ UNCHANGED <<efb, owed>>

Next == \/ \E d \in Draws, n \in 1 .. MaxTriangles : Draw(d, n)
        \/ \E c \in Cells, clear \in BOOLEAN : Copy(c, clear)
        \/ \E c \in Cells, p \in Palettes : LoadPalette(c, p)
        \/ Fence \/ Peek
        \/ \E c \in Cells : GuestReads(c) \/ \E v \in Values : GuestWrites(c, v)

Spec == Init /\ [][Next]_vars
=============================================================================
