---------------------------- MODULE HostAudioMC ----------------------------
(***************************************************************************)
(* A small instance of HostAudio: a ring of three frames, which neither a  *)
(* batch nor a packet of two divides, so that both copies are split at its *)
(* end; two frames of cushion; and enough frames to go round the ring      *)
(* twice with the producer asleep on the way.                              *)
(***************************************************************************)
EXTENDS HostAudio
=============================================================================
