------------------------------ MODULE GxImage ------------------------------
(***************************************************************************)
(* What a frame buffer shows, to the extent the renderers' properties need *)
(* it: a checksum of what was painted since it was blank. Painting once    *)
(* more, once less or in another order shows.                              *)
(***************************************************************************)
EXTENDS Naturals, Sequences, SequencesExt

CONSTANTS
    Pictures,      \* number of different pictures
    Values,        \* what the CPU writes
    Cells,         \* areas of guest memory: textures and the targets of copies
    Palettes,      \* areas of texture memory (TMEM)
    NoPalette,     \* a texture unit without one
    Length,        \* bytes of each cell and palette
    XfbCells,      \* cells the guest copies a frame to
    TexCells,      \* cells the guest copies a texture to, in a format the GPU encodes
    Draws,         \* what primitives sample: sequences of texture units
    MaxTriangles   \* triangles of one primitive

ASSUME PicturesAssumption == Pictures \in Nat \ {0, 1} /\ Pictures % 2 = 1
ASSUME ValuesAssumption   == Values \subseteq 0 .. Pictures - 1
ASSUME AreasAssumption    == /\ Cells \cap Palettes = {} /\ NoPalette \notin Palettes
                             /\ Length \in [Cells \cup Palettes -> Nat \ {0}]
\* Between two fences the guest copies to a place in one of the two ways only.
ASSUME TargetsAssumption  == /\ XfbCells \subseteq Cells /\ TexCells \subseteq Cells
                             /\ XfbCells \cap TexCells = {}
ASSUME DrawsAssumption ==
    \A d \in Draws : d \in Seq([texture : Cells, palette : Palettes \cup {NoPalette}])

ASSUME TrianglesAssumption == MaxTriangles \in Nat \ {0}

Picture == 0 .. Pictures - 1
Blank   == 0

Areas(d) == {d[i].texture : i \in DOMAIN d} \cup ({d[i].palette : i \in DOMAIN d} \ {NoPalette})

\* One triangle over p, from the bytes it samples.
Painted(p, bytes) ==
    FoldLeft(LAMBDA q, b : (2 * q + b) % Pictures, (2 * p + 1) % Pictures, bytes)

\* The order in which a triangle's textures and palettes are bound: textures first.
Bound(d) == [i \in DOMAIN d |-> d[i].texture]
            \o FlattenSeq([i \in DOMAIN d |-> IF d[i].palette = NoPalette THEN <<>>
                                              ELSE <<d[i].palette>>])

\* The bytes in memory m of the areas bound.
Bytes(d, m) ==
    FlattenSeq([i \in DOMAIN Bound(d) |-> [k \in 1 .. Length[Bound(d)[i]] |-> m[Bound(d)[i]]]])
=============================================================================
