------------------------------ MODULE GxStream ------------------------------
(***************************************************************************)
(* The top-level GX command stream of runtime/src/gx.c, as the guest wrote *)
(* it into the FIFO. A command is its size and what the pipeline has to    *)
(* know of it:                                                             *)
(*   "plain"  the scanner can size it (NOP, LOAD_CP, LOAD_XF, CALL_DL ...) *)
(*   "fence"  a LOAD_BP of SETDRAWDONE, PE token or PE token interrupt     *)
(*   "prim"   a primitive: only the decoder can size it                    *)
(* The stream is fetched in chunks (32 bytes in the code) that cut across  *)
(* commands; a cell is one unit of the stream, named by its position.      *)
(***************************************************************************)
EXTENDS Integers, Sequences, FiniteSetsExt, Functions

CONSTANTS
    Streams,      \* the streams considered: sequences of commands
    Chunk,        \* GCN_CP_GATHER_PIPE_SIZE
    MaxSizable    \* the largest command the scanner sizes (69 bytes: LOAD_XF)

\* The positions of the last cells of the commands of s.
Ends(s) == LET end[i \in 0..Len(s)] == IF i = 0 THEN 0 ELSE end[i - 1] + s[i].size IN end

End(s, i) == Ends(s)[i]

SizeOf(s) == End(s, Len(s))

Commands == [kind : {"plain", "fence", "prim"}, size : Nat \ {0}]

ASSUME ChunkAssumption == Chunk \in Nat \ {0}
ASSUME SizableAssumption == MaxSizable \in Nat \ {0}
ASSUME StreamsAssumption ==
    \A s \in Streams :
        /\ s \in Seq(Commands)
        /\ \A i \in DOMAIN s : s[i].kind # "prim" => s[i].size <= MaxSizable
        /\ SizeOf(s) % Chunk = 0

\* How many commands the first n cells hold whole.
WholeIn(s, n) == Max({i \in 0..Len(s) : End(s, i) <= n})

\* The cells of the k-th chunk.
ChunkCells(k) == [j \in 1..Chunk |-> (k - 1) * Chunk + j]

\* The command each cell belongs to, and how far into it the cell is.
Layout == [s \in Streams |->
    [p \in 1..SizeOf(s) |->
        LET i == CHOOSE i \in DOMAIN s : p <= End(s, i) /\ p > End(s, i - 1)
        IN  [cmd |-> i, offset |-> p - End(s, i - 1) - 1,
             kind |-> s[i].kind, size |-> s[i].size]]]
=============================================================================
