----------------------------- MODULE ConsoleMC -----------------------------
(* One small console for each program of the guest. *)
EXTENDS Console

CONSTANTS d1, header, directory

MCPrograms == {{"di", "pi"}, {"settings", "pi"}, {"card"}, {"vi", "si"},
               {"ai", "pi"}, {"dsp", "pi"}, {"fifo"}, {"code"}, {"copies"},
               {"cpu", "transfers"}, {"cpu", "resume"}}

MCCopies == {{"copies"}}
MCResume == {{"cpu", "resume"}}

MCSampleCycles == [fast \in BOOLEAN |-> IF fast THEN 2 ELSE 3]
MCSampleCalls  == [fast \in BOOLEAN |-> 2]
MCWatermarks   == {[high |-> 1, low |-> 1]}
=============================================================================
