---------------------------- MODULE PresenterMC ----------------------------
(***************************************************************************)
(* A small instance of Presenter: two rows are enough to tear a frame; two *)
(* frames and three copies let the GPU write into a frame that is on its   *)
(* way, a second frame find the first one's message still queued, and a    *)
(* frame follow one that was given up.                                     *)
(***************************************************************************)
EXTENDS Presenter
=============================================================================
