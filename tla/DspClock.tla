------------------------------ MODULE DspClock ------------------------------
(***************************************************************************)
(* The cycle accounting that the synchronous and the threaded design of    *)
(* runtime/src/dsp.c share: PPC cycles are charged per block and run on    *)
(* the DSP core in whole DSP cycles.                                       *)
(***************************************************************************)
EXTENDS Integers

CONSTANTS
    Ratio,        \* PPC cycles per DSP cycle (6 in the code)
    BatchCap,     \* s_batch_ppc: the debt at which a tick flushes or grants
    FlushMin,     \* s_flush_min: a lazy flush with less debt is declined
    Costs         \* the PPC cycles a block may charge

ASSUME RatioAssumption    == Ratio \in Nat \ {0}
ASSUME BatchCapAssumption == BatchCap \in Nat /\ BatchCap >= Ratio
ASSUME FlushMinAssumption == FlushMin \in Nat
ASSUME CostsAssumption    == Costs \subseteq Nat

\* Mutant: rounds the debt up to whole DSP cycles.
WholeRoundedUp(debt) == debt + (Ratio - (debt % Ratio))

\* The part of a debt that is run; the residue stays owed.
Whole(debt) == debt - (debt % Ratio)
=============================================================================
