----------------------------- MODULE RowPoolMC -----------------------------
(***************************************************************************)
(* A small instance of RowPool. Two workers, so that one may be suspended  *)
(* in a claim while the other helps; three triangles of one or two rows,   *)
(* so that a stale word may meet a fork with more rows or with fewer; two  *)
(* fork ids, so that the third fork has the first one's.                   *)
(***************************************************************************)
EXTENDS RowPool

CONSTANTS w1, w2

MCWorkers == {w1, w2}
=============================================================================
