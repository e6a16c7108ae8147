------------------------------ MODULE GxPipeMC ------------------------------
(***************************************************************************)
(* Small instances of GxPipe: two cells to a chunk, so that commands of    *)
(* one, three, four and seven cells begin and end anywhere in a chunk;     *)
(* sizable commands that span three chunks, as in the code (69 bytes, 32   *)
(* to a chunk); a primitive that outgrows the carry and one that outgrows  *)
(* the staging buffer; a staging buffer smaller than the ring, and both    *)
(* small enough for a worker left behind to fill.                          *)
(***************************************************************************)
EXTENDS GxPipe

Nop   == [kind |-> "plain", size |-> 1]
Load  == [kind |-> "plain", size |-> 4]
Fence == [kind |-> "fence", size |-> 3]
Prim  == [kind |-> "prim",  size |-> 3]
Quad  == [kind |-> "prim",  size |-> 7]
Huge  == [kind |-> "prim",  size |-> 9]

\* A load, a fence and a primitive in each cyclic order; a large primitive before and
\* after a fence; one too large; streams the scanner can size throughout.
MCStreams ==
    {<<Load, Fence, Prim>>, <<Fence, Prim, Load>>, <<Prim, Load, Fence>>,
     <<Fence, Quad>>, <<Quad, Fence>>, <<Nop, Huge>>, <<Nop, Load, Load, Nop>>,
     <<Load, Load, Load>>, <<Fence, Nop, Load, Load>>, <<Fence, Quad, Load>>}

\* A large primitive, then one more chunk than the old resume gate left room for.
MCUnsafeStreams == {<<Quad, Fence>>, <<Fence, Quad, Load>>}
=============================================================================
