---------------------------- MODULE DspWorkerMC ----------------------------
(***************************************************************************)
(* Small instances of DspWorker: three PPC cycles to a DSP cycle, so that  *)
(* a flush leaves residues of 0, 1 and 2; a cap that one block never       *)
(* reaches alone and two may; a lazy threshold below Ratio, so that a lazy *)
(* flush is declined (a debt of 0 or 1), runs nothing (2) or runs (3 up).  *)
(***************************************************************************)
EXTENDS DspWorker

MCCosts == {2, 5}
=============================================================================
