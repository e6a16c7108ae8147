--------------------------------- MODULE Ai ---------------------------------
(***************************************************************************)
(* The audio interface (runtime/src/ai.c): while it plays it counts        *)
(* samples, and interrupts when the count reaches the one the guest asked  *)
(* for. Cycles are carried over from tick to tick, never rounded; a block  *)
(* that counts no cycles counts as a call, of which a sample takes a fixed *)
(* number.                                                                 *)
(***************************************************************************)
EXTENDS Pi

CONSTANTS
    SampleCycles,   \* cycles of a sample at the fast and at the slow rate
    SampleCalls,    \* blocks of a sample, for blocks that count no cycles
    CountModulus,   \* 2^32 in the code
    TickCycles      \* what one block may take

ASSUME AiAssumption ==
    /\ {SampleCycles, SampleCalls} \subseteq [BOOLEAN -> Nat \ {0}]
    /\ CountModulus \in Nat \ {0}
    /\ TickCycles \subseteq Nat

VARIABLES
    ai,      \* the registers, and the cycles and calls carried over
    aiLeft   \* history: samples to the next interrupt, from where the guest last set it

aivars == <<ai, aiLeft>>

AiInit ==
    /\ ai = [play |-> FALSE, fast |-> TRUE, int |-> FALSE, masked |-> FALSE, count |-> 0,
             timing |-> 0, carry |-> 0, calls |-> 0]
    /\ aiLeft = CountModulus

AiLevel(a) == a.int /\ a.masked

\* Samples until the counter reaches the timing, once round if it is there.
ToGo(a) ==
    LET d == (a.timing + CountModulus - a.count) % CountModulus
    IN  IF d = 0 THEN CountModulus ELSE d

\* write_control: a change of the play bit, or a reset of the counter, drops what
\* was carried.
AiWriteControl(play, fast, masked, ack, reset) ==
    /\ ai' = [ai EXCEPT !.play = play, !.fast = fast, !.masked = masked,
                        !.int = @ /\ ~ack, !.count = IF reset THEN 0 ELSE @,
                        !.carry = IF reset \/ play # ai.play THEN 0 ELSE @,
                        !.calls = IF reset \/ play # ai.play THEN 0 ELSE @]
    /\ aiLeft' = ToGo(ai')
    /\ Push("AI", AiLevel(ai'))

AiWriteCount(n) ==
    /\ ai' = [ai EXCEPT !.count = n, !.carry = 0, !.calls = 0] /\ aiLeft' = ToGo(ai')
    /\ UNCHANGED pivars

AiWriteTiming(n) ==
    /\ ai' = [ai EXCEPT !.timing = n] /\ aiLeft' = ToGo(ai')
    /\ UNCHANGED pivars

\* Mutant: only where the tick ends is compared.
ReachedAtEnd(a, n) == n > 0 /\ (a.count + n) % CountModulus = a.timing

\* ai_advance_sample, n times: whether the count passed the timing on the way.
Reached(a, n) == \E k \in 1..n : (a.count + k) % CountModulus = a.timing

\* n samples on, from the carries in a.
Advance(a, n) ==
    /\ ai' = [a EXCEPT !.count = (@ + n) % CountModulus, !.int = @ \/ Reached(ai, n)]
    /\ aiLeft' = IF n >= aiLeft THEN 0 ELSE aiLeft - n
    /\ IF Reached(ai, n) THEN Push("AI", AiLevel(ai')) ELSE UNCHANGED pivars

\* gcn_ai_tick: as many samples as the cycles are worth, each compared.
AiTick(cycles) ==
    LET sample == SampleCycles[ai.fast]
        carry  == ai.carry + cycles
    IN  ai.play /\ Advance([ai EXCEPT !.carry = carry % sample], carry \div sample)

\* gcn_ai_tick_legacy: a block is one call, whatever it took.
AiTickLegacy ==
    LET calls == ai.calls + 1
    IN  /\ ai.play
        /\ IF calls < SampleCalls[ai.fast] THEN Advance([ai EXCEPT !.calls = calls], 0)
           ELSE Advance([ai EXCEPT !.calls = 0], 1)

AiNext ==
    \/ \E play, fast, masked, ack, reset \in BOOLEAN :
          AiWriteControl(play, fast, masked, ack, reset)
    \/ \E n \in 0..(CountModulus - 1) : AiWriteCount(n) \/ AiWriteTiming(n)
    \/ \E cycles \in TickCycles : AiTick(cycles)
    \/ AiTickLegacy

AiTypeOK ==
    /\ {ai.play, ai.fast, ai.int, ai.masked} \subseteq BOOLEAN
    /\ ai.count \in 0..(CountModulus - 1) /\ ai.timing \in 0..(CountModulus - 1)
    /\ ai.carry \in Nat /\ ai.calls \in Nat /\ aiLeft \in 0..CountModulus

\* When the samples the guest asked for have passed, the interrupt is there, however
\* many of them one tick took; only the guest takes it away.
AiOnTime == aiLeft = 0 => ai.int
=============================================================================
