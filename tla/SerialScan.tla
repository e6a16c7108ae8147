----------------------------- MODULE SerialScan -----------------------------
(***************************************************************************)
(* What runtime/src/gx_raster.c promises of a sequence of triangles,       *)
(* however many threads scan them: the triangles are drawn one after the   *)
(* other, and each block row of each is scanned exactly once, with that    *)
(* triangle's edges and that draw's TEV state. The rows of one triangle    *)
(* cover disjoint pixels, so their order is free.                          *)
(***************************************************************************)
EXTENDS Integers, Sequences

CONSTANT MaxRows  \* the most block rows a triangle covers (264 in the code), at least 1

RowIds == 0..(MaxRows - 1)

VARIABLES
    tri,          \* the triangles begun so far
    size,         \* the block rows of the last one, or 0 once it is done
    image         \* for each row, what was scanned there: <<triangle, TEV state>>

\* The rows of triangle n, of s rows, that are not in the image i yet.
Todo(n, s, i) == {k \in RowIds : k < s /\ (i[k] = <<>> \/ i[k][Len(i[k])] # <<n, n>>)}

Init == tri = 0 /\ size = 0 /\ image = [k \in RowIds |-> <<>>]

Begin ==
    /\ size = 0
    /\ tri' = tri + 1
    /\ size' \in 1..MaxRows
    /\ UNCHANGED image

ScanRow(k) ==
    /\ k \in Todo(tri, size, image)
    /\ image' = [image EXCEPT ![k] = Append(@, <<tri, tri>>)]
    /\ UNCHANGED <<tri, size>>

End ==
    /\ size # 0
    /\ Todo(tri, size, image) = {}
    /\ size' = 0
    /\ UNCHANGED <<tri, image>>

Next == Begin \/ End \/ \E k \in RowIds : ScanRow(k)

Spec == Init /\ [][Next]_<<tri, size, image>>
=============================================================================
