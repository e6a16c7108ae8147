-------------------------- MODULE Component_proofs --------------------------
(***************************************************************************)
(* The components of the console, each with an inductive invariant that    *)
(* its own steps keep. First the devices on the bus that live by a clock:  *)
(* the audio interface, the audio DMA of the DSP's interface, the beam     *)
(* with the polls it times, and the graphics FIFO; then the disc drive and *)
(* what is on the EXI bus; then the processor's side: the caches of native *)
(* code, which icbi keeps true (Code), and the exceptions and clocks of    *)
(* the dispatch loop (Cpu).                                                *)
(***************************************************************************)
EXTENDS Dsp, Ai, Vi, Fifo, Di, Exi, Code, Cpu, Integers, SequenceTheorems, FiniteSetTheorems, TLAPS

-----------------------------------------------------------------------------
(* Remainders. *)

\* Division with remainder, as the library defines it.
LEMMA Turns ==
    ASSUME NEW n \in Nat \ {0}, NEW x \in Nat
    PROVE  x \div n \in Int /\ x % n \in 0..(n - 1) /\ x = n * (x \div n) + (x % n)
  OBVIOUS

\* A number that is less than two turns.
LEMMA Folded ==
    ASSUME NEW n \in Nat \ {0}, NEW x \in Nat, x < n + n
    PROVE  x % n = IF x < n THEN x ELSE x - n
<1> DEFINE q == x \div n
           r == x % n
<1>1. q \in Int /\ r \in 0..(n - 1) /\ x = n * q + r
  BY Turns
<1> HIDE DEF q, r
<1>2. CASE q >= 2
  <2>1. \E m \in Nat : q = 2 + m
    <3>1. q - 2 \in Nat /\ q = 2 + (q - 2)
      BY <1>1, <1>2
    <3> QED BY <3>1
  <2>2. PICK m \in Nat : q = 2 + m
    BY <2>1
  <2>3. n * q = n + n + n * m /\ n * m \in Nat
    BY <2>2
  <2> QED BY <2>3, <1>1
<1>3. CASE q <= -1
  <2>1. \E m \in Nat : q = -1 - m
    <3>1. -1 - q \in Nat /\ q = -1 - (-1 - q)
      BY <1>1, <1>3
    <3> QED BY <3>1
  <2>2. PICK m \in Nat : q = -1 - m
    BY <2>1
  <2>3. n * q = -n - n * m /\ n * m \in Nat
    BY <2>2
  <2> QED BY <2>3, <1>1
<1>4. CASE q = 0
  BY <1>1, <1>4 DEF r
<1>5. CASE q = 1
  BY <1>1, <1>5 DEF r
<1> QED BY <1>1, <1>2, <1>3, <1>4, <1>5

\* The remainder of a sum of two places.
LEMMA FoldedSum ==
    ASSUME NEW n \in Nat \ {0}, NEW a \in 0..(n - 1), NEW b \in 0..n
    PROVE  (a + b) % n = IF a + b < n THEN a + b ELSE a + b - n
<1> DEFINE x == a + b
<1>1. x \in Nat /\ x < n + n
  OBVIOUS
<1> HIDE DEF x
<1>2. x % n = IF x < n THEN x ELSE x - n
  BY <1>1, Folded
<1> QED BY <1>2 DEF x

-----------------------------------------------------------------------------
(* The audio DMA stays in the buffer it has loaded: AidInBuffer is inductive once the *)
(* types of the two records are known.                                                *)

AidType ==
    /\ aid \in [source : Nat, on : BOOLEAN, blocks : Nat, at : Nat, left : Nat,
                starting : BOOLEAN]
    /\ heard \in [from : Nat, length : Nat, played : Nat]

AidInv == AidType /\ AidInBuffer

\* Nothing is loaded at power-on (gcn_dsp_init).
LEMMA DspInitAid == DspInit => AidInv
  BY DEF DspInit, AidInv, AidType, AidInBuffer

\* A block is played (aid_tick): the buffer goes on, or it ends and is loaded again.
LEMMA DspTickAid ==
    ASSUME AidInv, NEW period \in BOOLEAN, DspTick(period)
    PROVE  AidInv'
<1>1. aid.blocks \in Nat /\ aid.source \in Nat /\ aid.left \in Nat /\ aid.at \in Nat
      /\ heard.from \in Nat /\ heard.length \in Nat /\ heard.played \in Nat
  BY DEF AidInv, AidType
<1> DEFINE plays == period /\ aid.on
           ends  == plays /\ Ended(aid)
<1>2. CASE ends
  <2>1. aid' = [Loaded(aid) EXCEPT !.starting = FALSE]
        /\ heard' = [from |-> aid.source, length |-> aid.blocks, played |-> 0]
    BY <1>2 DEF DspTick
  <2>2. aid' = [aid EXCEPT !.at = aid.source, !.left = aid.blocks, !.starting = FALSE]
    BY <2>1 DEF Loaded, AidInv, AidType
  <2>3. AidType'
    BY <2>1, <2>2, <1>1 DEF AidInv, AidType
  <2>4. aid'.at = aid.source /\ aid'.left = aid.blocks
    BY <2>2 DEF AidInv, AidType
  <2>5. heard'.from = aid.source /\ heard'.length = aid.blocks /\ heard'.played = 0
    BY <2>1
  <2> QED BY <2>3, <2>4, <2>5, <1>1 DEF AidInv, AidInBuffer
<1>3. CASE plays /\ ~ends
  <2>1. aid' = [Advanced(aid) EXCEPT !.starting = FALSE]
        /\ heard' = [heard EXCEPT !.played = @ + 1]
    BY <1>3 DEF DspTick
  <2>2. aid.left # 0 /\ aid.left - 1 # 0
    BY <1>3, <1>1 DEF Ended, Advanced, AidInv, AidType
  <2>3. aid' = [aid EXCEPT !.left = @ - 1, !.at = @ + 1, !.starting = FALSE]
    BY <2>1, <2>2 DEF Advanced, AidInv, AidType
  <2>4. aid.left - 1 \in Nat /\ aid.at + 1 \in Nat /\ heard.played + 1 \in Nat
    BY <2>2, <1>1
  <2>5. AidType'
    <3>1. aid' \in [source : Nat, on : BOOLEAN, blocks : Nat, at : Nat, left : Nat,
                    starting : BOOLEAN]
      BY <2>3, <2>4 DEF AidInv, AidType
    <3>2. heard' \in [from : Nat, length : Nat, played : Nat]
      BY <2>1, <2>4 DEF AidInv, AidType
    <3> QED BY <3>1, <3>2 DEF AidType
  <2>6. aid'.at = aid.at + 1 /\ aid'.left = aid.left - 1
    BY <2>3 DEF AidInv, AidType
  <2>7. heard'.from = heard.from /\ heard'.length = heard.length
        /\ heard'.played = heard.played + 1
    BY <2>1 DEF AidInv, AidType
  <2> QED BY <2>2, <2>5, <2>6, <2>7, <1>1 DEF AidInv, AidInBuffer
<1>4. CASE ~plays
  <2>1. aid' = [aid EXCEPT !.starting = FALSE] /\ heard' = heard
    BY <1>4 DEF DspTick
  <2> QED BY <2>1, <1>1 DEF AidInv, AidType, AidInBuffer
<1> QED BY <1>2, <1>3, <1>4

\* Every step of the guest, of the core and of time keeps it.
LEMMA DspNextAid ==
    ASSUME DspAssumption, AidInv, DspNext
    PROVE  AidInv'
<1>1. CASE CoreAsks \/ DspReadCsr
  BY <1>1 DEF CoreAsks, DspReadCsr, AidInv, AidType, AidInBuffer
<1>2. CASE \E ran \in BOOLEAN, masks \in {{}, DspBits}, clear \in {{}, {"AID"}, DspBits} :
              DspWriteCsr(ran, masks, clear)
  BY <1>2 DEF DspWriteCsr, AidInv, AidType, AidInBuffer
<1>3. CASE \E ticks \in AramTicks : AramKick(ticks)
  BY <1>3 DEF AramKick, AidInv, AidType, AidInBuffer
<1>4. ASSUME NEW source \in Sources, AidWriteStart(source) PROVE AidInv'
  <2>1. source \in Nat BY DEF DspAssumption
  <2> QED BY <1>4, <2>1 DEF AidWriteStart, AidInv, AidType, AidInBuffer
<1>5. ASSUME NEW on \in BOOLEAN, NEW blocks \in 0..MaxBlocks, AidWriteControl(on, blocks)
      PROVE  AidInv'
  <2>1. blocks \in Nat BY DEF DspAssumption
  <2>2. CASE on /\ ~aid.on
    <3>1. aid' = [Loaded([aid EXCEPT !.on = on, !.blocks = blocks]) EXCEPT !.starting = TRUE]
          /\ heard' = [from |-> aid.source, length |-> blocks, played |-> 0]
      BY <1>5, <2>2 DEF AidWriteControl, AidInv, AidType
    <3>2. aid' = [aid EXCEPT !.on = on, !.blocks = blocks, !.at = aid.source,
                             !.left = blocks, !.starting = TRUE]
      BY <3>1 DEF Loaded, AidInv, AidType
    <3>3. AidType'
      BY <3>1, <3>2, <2>1 DEF AidInv, AidType
    <3>4. aid'.at = aid.source /\ aid'.left = blocks
      BY <3>2 DEF AidInv, AidType
    <3>5. aid.source \in Nat
      BY DEF AidInv, AidType
    <3> QED BY <3>1, <3>3, <3>4, <3>5, <2>1 DEF AidInv, AidInBuffer
  <2>3. CASE ~(on /\ ~aid.on)
    BY <1>5, <2>1, <2>3 DEF AidWriteControl, AidInv, AidType, AidInBuffer
  <2> QED BY <2>2, <2>3
<1> QED BY <1>1, <1>2, <1>3, <1>4, <1>5, DspTickAid DEF DspNext

-----------------------------------------------------------------------------
(* The audio interface. *)

AiType ==
    /\ ai \in [play : BOOLEAN, fast : BOOLEAN, int : BOOLEAN, masked : BOOLEAN,
               count : 0..(CountModulus - 1), timing : 0..(CountModulus - 1),
               carry : Nat, calls : Nat]
    /\ aiLeft \in 0..CountModulus

\* So many samples from now the counter is where the guest asked for.
AiAhead == aiLeft # 0 => (ai.count + aiLeft) % CountModulus = ai.timing

AiInv == AiType /\ AiAhead /\ AiOnTime

\* ToGo measures what AiAhead counts down.
LEMMA ToGoAhead ==
    ASSUME AiAssumption, NEW count \in 0..(CountModulus - 1),
           NEW timing \in 0..(CountModulus - 1),
           NEW a, a.count = count, a.timing = timing
    PROVE  ToGo(a) \in 1..CountModulus /\ (count + ToGo(a)) % CountModulus = timing
<1>1. CountModulus \in Nat \ {0}
  BY DEF AiAssumption
<1> DEFINE d == (timing + CountModulus - count) % CountModulus
<1>2. d = IF timing < count THEN timing + CountModulus - count ELSE timing - count
  <2> DEFINE e == timing + CountModulus - count
  <2>1. e \in Nat /\ e < CountModulus + CountModulus
    BY <1>1
  <2> HIDE DEF e
  <2>2. e % CountModulus = IF e < CountModulus THEN e ELSE e - CountModulus
    BY <2>1, <1>1, Folded
  <2> QED BY <2>2, <1>1 DEF e
<1>3. ToGo(a) = IF d = 0 THEN CountModulus ELSE d
  BY DEF ToGo
<1> HIDE DEF d
<1> DEFINE t == ToGo(a)
<1>4. t \in 1..CountModulus
      /\ t = IF timing <= count THEN timing + CountModulus - count ELSE timing - count
  BY <1>1, <1>2, <1>3
<1> HIDE DEF t
<1>5. (count + t) % CountModulus
          = IF count + t < CountModulus THEN count + t ELSE count + t - CountModulus
  <2>1. t \in 0..CountModulus
    BY <1>4, <1>1
  <2> HIDE <1>4
  <2> QED BY <2>1, <1>1, FoldedSum
<1>6. (count + t) % CountModulus = timing
  BY <1>1, <1>4, <1>5
<1> QED BY <1>4, <1>6 DEF t

\* At power-on nothing is asked for before the counter is round once (gcn_ai_init).
LEMMA AiInitInv ==
    ASSUME AiAssumption, AiInit
    PROVE  AiInv
<1>1. CountModulus \in Nat \ {0}
  BY DEF AiAssumption
<1>2. CountModulus % CountModulus = 0
  BY <1>1, Folded
<1> QED BY <1>1, <1>2 DEF AiInit, AiInv, AiType, AiAhead, AiOnTime

\* Some samples on: the interrupt is raised by the one the guest asked for, and if that
\* is still to come it is as many samples nearer.
LEMMA AdvanceInv ==
    ASSUME AiAssumption, AiInv, NEW n \in Nat, NEW carry \in Nat, NEW calls \in Nat,
           Advance([ai EXCEPT !.carry = carry, !.calls = calls], n)
    PROVE  AiInv'
<1>1. CountModulus \in Nat \ {0}
  BY DEF AiAssumption
<1>2. /\ ai.count \in 0..(CountModulus - 1) /\ ai.timing \in 0..(CountModulus - 1)
      /\ ai.int \in BOOLEAN /\ aiLeft \in 0..CountModulus
  BY DEF AiInv, AiType
<1>3. /\ ai' = [ai EXCEPT !.carry = carry, !.calls = calls,
                          !.count = (ai.count + n) % CountModulus,
                          !.int = ai.int \/ Reached(ai, n)]
      /\ aiLeft' = IF n >= aiLeft THEN 0 ELSE aiLeft - n
  BY DEF Advance, AiInv, AiType
<1>4. /\ ai'.count = (ai.count + n) % CountModulus /\ ai'.timing = ai.timing
      /\ ai'.int = (ai.int \/ Reached(ai, n))
  BY <1>3 DEF AiInv, AiType
<1>5. ai'.count \in 0..(CountModulus - 1)
  BY <1>1, <1>2, <1>4, Turns
<1>6. Reached(ai, n) \in BOOLEAN
  BY DEF Reached
<1>7. AiType'
  <2>1. ai' \in [play : BOOLEAN, fast : BOOLEAN, int : BOOLEAN, masked : BOOLEAN,
                 count : 0..(CountModulus - 1), timing : 0..(CountModulus - 1),
                 carry : Nat, calls : Nat]
    BY <1>3, <1>4, <1>5, <1>6 DEF AiInv, AiType
  <2>2. aiLeft' \in 0..CountModulus
    BY <1>1, <1>2, <1>3
  <2> QED BY <2>1, <2>2 DEF AiType
<1>8. CASE aiLeft = 0
  <2>1. aiLeft' = 0 /\ ai.int
    BY <1>3, <1>8 DEF AiInv, AiOnTime
  <2> QED BY <2>1, <1>4, <1>7 DEF AiInv, AiAhead, AiOnTime
<1>9. CASE aiLeft # 0 /\ n >= aiLeft
  <2>1. aiLeft \in 1..n /\ (ai.count + aiLeft) % CountModulus = ai.timing
    BY <1>1, <1>2, <1>9 DEF AiInv, AiAhead
  <2>2. Reached(ai, n)
    BY <2>1 DEF Reached
  <2>3. aiLeft' = 0 /\ ai'.int
    BY <1>3, <1>4, <1>9, <2>2
  <2> QED BY <2>3, <1>7 DEF AiInv, AiAhead, AiOnTime
<1>10. CASE n < aiLeft
  <2>1. aiLeft' = aiLeft - n /\ aiLeft' # 0
    BY <1>2, <1>3, <1>10
  <2>2. (ai.count + aiLeft) % CountModulus = ai.timing
    BY <1>2, <1>10 DEF AiInv, AiAhead
  <2>3. ai'.count = IF ai.count + n < CountModulus THEN ai.count + n
                    ELSE ai.count + n - CountModulus
    <3>1. n \in 0..CountModulus
      BY <1>1, <1>2, <1>10
    <3> QED BY <3>1, <1>1, <1>2, <1>4, FoldedSum
  <2>4. (ai'.count + aiLeft') % CountModulus = ai.timing
    <3>1. ai.timing = IF ai.count + aiLeft < CountModulus THEN ai.count + aiLeft
                      ELSE ai.count + aiLeft - CountModulus
      BY <2>2, <1>1, <1>2, FoldedSum
    <3>3. CASE ai.count + n < CountModulus
      BY <3>3, <2>1, <2>2, <2>3, <1>2, <1>10
    <3>4. CASE ai.count + n >= CountModulus
      <4>1. ai'.count + aiLeft' = ai.count + aiLeft - CountModulus
            /\ ai.count + aiLeft >= CountModulus
        BY <3>4, <2>1, <2>3, <1>1, <1>2, <1>10
      <4>2. ai'.count + aiLeft' \in Nat /\ ai'.count + aiLeft' < CountModulus
        BY <4>1, <1>1, <1>2
      <4>3. (ai'.count + aiLeft') % CountModulus = ai'.count + aiLeft'
        BY <4>2, <1>1, Folded
      <4> QED BY <4>1, <4>3, <3>1, <1>1, <1>2
    <3> QED BY <3>3, <3>4, <1>1, <1>2
  <2> QED BY <2>1, <2>4, <1>4, <1>7 DEF AiInv, AiAhead, AiOnTime
<1> QED BY <1>8, <1>9, <1>10, <1>2

\* Every step of the guest and of time keeps it.
LEMMA AiNextInv ==
    ASSUME AiAssumption, AiInv, AiNext
    PROVE  AiInv'
<1>1. CountModulus \in Nat \ {0} /\ SampleCycles \in [BOOLEAN -> Nat \ {0}]
      /\ SampleCalls \in [BOOLEAN -> Nat \ {0}] /\ TickCycles \subseteq Nat
  BY DEF AiAssumption
<1>2. /\ ai.count \in 0..(CountModulus - 1) /\ ai.timing \in 0..(CountModulus - 1)
      /\ ai.int \in BOOLEAN /\ ai.carry \in Nat /\ ai.calls \in Nat /\ ai.fast \in BOOLEAN
  BY DEF AiInv, AiType
<1>3. ASSUME NEW play \in BOOLEAN, NEW fast \in BOOLEAN, NEW masked \in BOOLEAN,
             NEW ack \in BOOLEAN, NEW reset \in BOOLEAN,
             AiWriteControl(play, fast, masked, ack, reset)
      PROVE  AiInv'
  <2>1. /\ ai'.count = (IF reset THEN 0 ELSE ai.count) /\ ai'.timing = ai.timing
        /\ aiLeft' = ToGo(ai')
    BY <1>3 DEF AiWriteControl, AiInv, AiType
  <2>2. ai'.count \in 0..(CountModulus - 1) /\ ai'.timing \in 0..(CountModulus - 1)
    BY <2>1, <1>1, <1>2
  <2>3. aiLeft' \in 1..CountModulus /\ (ai'.count + aiLeft') % CountModulus = ai'.timing
    BY <2>1, <2>2, ToGoAhead
  <2>4. ai' \in [play : BOOLEAN, fast : BOOLEAN, int : BOOLEAN, masked : BOOLEAN,
                 count : 0..(CountModulus - 1), timing : 0..(CountModulus - 1),
                 carry : Nat, calls : Nat]
    <3>1. 0 \in 0..(CountModulus - 1)
      BY <1>1
    <3>2. \E carry, calls \in Nat, count \in 0..(CountModulus - 1), int \in BOOLEAN :
             ai' = [ai EXCEPT !.play = play, !.fast = fast, !.masked = masked, !.int = int,
                              !.count = count, !.carry = carry, !.calls = calls]
      <4> DEFINE held == IF reset \/ play # ai.play THEN 0 ELSE ai.carry
                 rest == IF reset \/ play # ai.play THEN 0 ELSE ai.calls
                 from == IF reset THEN 0 ELSE ai.count
                 up   == ai.int /\ ~ack
      <4>1. held \in Nat /\ rest \in Nat /\ from \in 0..(CountModulus - 1) /\ up \in BOOLEAN
        BY <3>1, <1>2
      <4>2. ai' = [ai EXCEPT !.play = play, !.fast = fast, !.masked = masked, !.int = up,
                             !.count = from, !.carry = held, !.calls = rest]
        BY <1>3 DEF AiWriteControl
      <4> HIDE DEF held, rest, from, up
      <4> QED BY <4>1, <4>2
    <3>3. PICK carry, calls \in Nat, count \in 0..(CountModulus - 1), int \in BOOLEAN :
             ai' = [ai EXCEPT !.play = play, !.fast = fast, !.masked = masked, !.int = int,
                              !.count = count, !.carry = carry, !.calls = calls]
      BY <3>2
    <3> QED BY <3>3 DEF AiInv, AiType
  <2> QED BY <2>3, <2>4, <1>1 DEF AiInv, AiType, AiAhead, AiOnTime
<1>4. ASSUME NEW n \in 0..(CountModulus - 1), AiWriteCount(n) \/ AiWriteTiming(n)
      PROVE  AiInv'
  <2>1. /\ ai'.count \in {n, ai.count} /\ ai'.timing \in {n, ai.timing}
        /\ aiLeft' = ToGo(ai')
    BY <1>4 DEF AiWriteCount, AiWriteTiming, AiInv, AiType
  <2>2. ai'.count \in 0..(CountModulus - 1) /\ ai'.timing \in 0..(CountModulus - 1)
    BY <2>1, <1>2
  <2>3. aiLeft' \in 1..CountModulus /\ (ai'.count + aiLeft') % CountModulus = ai'.timing
    BY <2>1, <2>2, ToGoAhead
  <2>4. ai' \in [play : BOOLEAN, fast : BOOLEAN, int : BOOLEAN, masked : BOOLEAN,
                 count : 0..(CountModulus - 1), timing : 0..(CountModulus - 1),
                 carry : Nat, calls : Nat]
    <3>1. CASE AiWriteCount(n)
      BY <3>1 DEF AiWriteCount, AiInv, AiType
    <3>2. CASE AiWriteTiming(n)
      BY <3>2 DEF AiWriteTiming, AiInv, AiType
    <3> QED BY <3>1, <3>2, <1>4
  <2> QED BY <2>3, <2>4, <1>1 DEF AiInv, AiType, AiAhead, AiOnTime
<1>5. ASSUME NEW cycles \in TickCycles, AiTick(cycles)
      PROVE  AiInv'
  <2> DEFINE sample == SampleCycles[ai.fast]
             n      == (ai.carry + cycles) \div sample
             left   == (ai.carry + cycles) % sample
  <2>1. sample \in Nat \ {0} /\ ai.carry + cycles \in Nat
    BY <1>1, <1>2
  <2>2. n \in Nat /\ left \in Nat
    BY <2>1
  <2>3. Advance([ai EXCEPT !.carry = left, !.calls = ai.calls], n)
    <3>1. [ai EXCEPT !.carry = left] = [ai EXCEPT !.carry = left, !.calls = ai.calls]
      BY DEF AiInv, AiType
    <3> QED BY <1>5, <3>1 DEF AiTick
  <2> HIDE DEF n, left
  <2> QED BY <2>2, <2>3, <1>2, AdvanceInv
<1>6. CASE AiTickLegacy
  <2>1. \E n \in Nat, calls \in Nat :
           Advance([ai EXCEPT !.carry = ai.carry, !.calls = calls], n)
    <3>1. \A calls : [ai EXCEPT !.calls = calls] = [ai EXCEPT !.carry = ai.carry, !.calls = calls]
      BY DEF AiInv, AiType
    <3>2. CASE ai.calls + 1 < SampleCalls[ai.fast]
      <4>1. Advance([ai EXCEPT !.carry = ai.carry, !.calls = ai.calls + 1], 0)
        BY <1>6, <3>1, <3>2 DEF AiTickLegacy
      <4>2. ai.calls + 1 \in Nat /\ 0 \in Nat
        BY <1>2
      <4> QED BY <4>1, <4>2
    <3>3. CASE ~(ai.calls + 1 < SampleCalls[ai.fast])
      <4>1. Advance([ai EXCEPT !.carry = ai.carry, !.calls = 0], 1)
        BY <1>6, <3>1, <3>3 DEF AiTickLegacy
      <4> QED BY <4>1
    <3> QED BY <3>2, <3>3
  <2> QED BY <2>1, <1>2, AdvanceInv
<1> QED BY <1>3, <1>4, <1>5, <1>6 DEF AiNext

-----------------------------------------------------------------------------
(* The beam and the polls. *)

\* Every field is longer than the delay from its start to the first poll.
FieldsPolled == \A x \in FieldLengths : PollDelay < x

\* From the start of the frame on the schedule aims at the first poll, where the beam
\* gets in this frame; after it the half lines since count from there.
BeamInv ==
    /\ "next" \in DOMAIN si /\ {"half", "odd", "even"} \subseteq DOMAIN vi
    /\ vi.half \in Nat /\ vi.odd \in FieldLengths /\ vi.even \in FieldLengths
    /\ sincePoll \in Nat /\ vi.half < FrameMax
    /\ vi.half \in 1..PollDelay => si.next = PollDelay
    /\ sincePoll + PollDelay + 1 <= IF vi.half <= PollDelay THEN FrameMax + vi.half
                                    ELSE vi.half

\* The lengths that the frame compares with: the first poll falls into the first field of
\* any frame, and no frame is longer than the longest.
LEMMA FrameBounds ==
    ASSUME SiAssumption, ViAssumption, FieldsPolled
    PROVE  /\ PollDelay \in Nat \ {0} /\ Longest \in FieldLengths
           /\ FrameMax \in Nat /\ PollDelay + 1 < FrameMax
           /\ \A v : v.odd \in FieldLengths /\ v.even \in FieldLengths
                     => /\ Frame(v) \in Nat /\ Frame(v) <= FrameMax
                        /\ PollDelay + 1 < Frame(v) /\ PollDelay < v.odd
<1>1. PollDelay \in Nat \ {0} /\ FieldLengths \subseteq Nat
  BY DEF SiAssumption, ViAssumption
<1>2. Longest \in FieldLengths /\ \A y \in FieldLengths : y <= Longest
  BY DEF ViAssumption, Longest
<1>3. Longest \in Nat /\ FrameMax = 2 * Longest /\ PollDelay < Longest
  BY <1>1, <1>2 DEF FrameMax, FieldsPolled
<1>4. ASSUME NEW odd \in FieldLengths, NEW even \in FieldLengths
      PROVE  /\ odd + even \in Nat /\ odd + even <= FrameMax
             /\ PollDelay + 1 < odd + even /\ PollDelay < odd
  <2>1. odd \in Nat /\ even \in Nat /\ odd <= Longest /\ even <= Longest
        /\ PollDelay < odd /\ PollDelay < even
    BY <1>1, <1>2 DEF FieldsPolled
  <2> QED BY <2>1, <1>1, <1>3
<1>5. FrameMax \in Nat /\ PollDelay + 1 < FrameMax
  BY <1>1, <1>3
<1>6. ASSUME NEW v, v.odd \in FieldLengths, v.even \in FieldLengths
      PROVE  /\ Frame(v) \in Nat /\ Frame(v) <= FrameMax
             /\ PollDelay + 1 < Frame(v) /\ PollDelay < v.odd
  BY <1>4, <1>6 DEF Frame
<1> QED BY <1>1, <1>2, <1>5, <1>6

\* The schedule starts with the first poll of the first field (gcn_si_init, gcn_vi_init).
LEMMA BeamInitInv ==
    ASSUME SiAssumption, ViAssumption, FieldsPolled, SiInit, ViInit
    PROVE  BeamInv
<1>1. PollDelay \in Nat \ {0} /\ FrameMax \in Nat /\ PollDelay + 1 < FrameMax
      /\ Longest \in FieldLengths
  BY FrameBounds
<1> QED BY <1>1 DEF SiInit, ViInit, ViStart, BeamInv

\* Half a line on.
LEMMA AdvanceBeam ==
    ASSUME SiAssumption, ViAssumption, FieldsPolled, BeamInv, ViAdvance
    PROVE  BeamInv'
<1>1. /\ vi.half \in Nat /\ vi.odd \in FieldLengths /\ vi.even \in FieldLengths
      /\ sincePoll \in Nat /\ vi.half < FrameMax /\ PollDelay \in Nat \ {0}
      /\ FrameMax \in Nat /\ PollDelay + 1 < FrameMax
  BY FrameBounds DEF BeamInv
<1>2. /\ Frame(vi) \in Nat /\ Frame(vi) <= FrameMax
      /\ PollDelay + 1 < Frame(vi) /\ PollDelay < vi.odd
  BY <1>1, FrameBounds
<1>3. /\ {"half", "odd", "even"} \subseteq DOMAIN vi'
      /\ vi'.half = IF vi.half + 1 >= Frame(vi) THEN 0 ELSE vi.half + 1
      /\ vi'.odd = vi.odd /\ vi'.even = vi.even
  BY DEF ViAdvance, Moved, BeamInv
<1>4. /\ "next" \in DOMAIN si'
      /\ ~Due(si, vi.half) /\ ~Boundary(vi) => si'.next = si.next
      /\ Boundary(vi) => si'.next = vi.half + PollDelay
  BY DEF ViAdvance, BeamPoll, Polled, BeamInv
<1>5. sincePoll' \in Nat /\ sincePoll' <= sincePoll + 1
      /\ (Due(si, vi.half) => sincePoll' = 0)
  BY <1>1 DEF ViAdvance
<1>6. vi'.half \in Nat /\ vi'.half < FrameMax
  BY <1>1, <1>2, <1>3
<1>7. vi'.half \in 1..PollDelay => si'.next = PollDelay
  <2>1. CASE vi.half = 0
    BY <2>1, <1>1, <1>4 DEF Boundary
  <2>2. CASE vi.half \in 1..PollDelay /\ vi'.half \in 1..PollDelay
    <3>1. vi'.half = vi.half + 1
      BY <2>2, <1>1, <1>2, <1>3
    <3>2. vi.half < PollDelay /\ si.next = PollDelay
      BY <3>1, <2>2, <1>1 DEF BeamInv
    <3>3. ~Due(si, vi.half) /\ ~Boundary(vi)
      BY <3>2, <2>2, <1>1, <1>2 DEF Due, Boundary
    <3> QED BY <3>2, <3>3, <1>4
  <2>3. CASE vi.half > PollDelay
    BY <2>3, <1>1, <1>3
  <2> QED BY <2>1, <2>2, <2>3, <1>1
<1>8. sincePoll' + PollDelay + 1 <= IF vi'.half <= PollDelay THEN FrameMax + vi'.half
                                    ELSE vi'.half
  <2>1. CASE vi.half < PollDelay
    <3>1. vi'.half = vi.half + 1
      BY <2>1, <1>1, <1>2, <1>3
    <3>2. sincePoll + PollDelay + 1 <= FrameMax + vi.half
      BY <2>1, <1>1 DEF BeamInv
    <3> QED BY <3>1, <3>2, <2>1, <1>1, <1>5
  <2>2. CASE vi.half = PollDelay
    <3>1. vi'.half = PollDelay + 1
      BY <2>2, <1>1, <1>2, <1>3
    <3>2. sincePoll' = 0
      BY <2>2, <1>1, <1>5 DEF BeamInv, Due
    <3> QED BY <3>1, <3>2, <1>1
  <2>3. CASE vi.half > PollDelay
    <3>1. sincePoll + PollDelay + 1 <= vi.half
      BY <2>3, <1>1 DEF BeamInv
    <3> QED BY <3>1, <2>3, <1>1, <1>3, <1>5
  <2> QED BY <2>1, <2>2, <2>3, <1>1
<1> QED BY <1>1, <1>3, <1>4, <1>5, <1>6, <1>7, <1>8 DEF BeamInv

\* What the guest writes to either device moves neither the beam nor the schedule.
LEMMA StillBeam ==
    ASSUME BeamInv, UNCHANGED sincePoll,
           "next" \in DOMAIN si', si'.next = si.next,
           {"half", "odd", "even"} \subseteq DOMAIN vi', vi'.half = vi.half,
           vi'.odd \in FieldLengths, vi'.even \in FieldLengths
    PROVE  BeamInv'
  BY DEF BeamInv

\* What the guest asks of the serial interface.
LEMMA SiNextBeam ==
    ASSUME BeamInv, SiNext, UNCHANGED <<vi, sincePoll>>
    PROVE  BeamInv'
<1>1. "next" \in DOMAIN si' /\ si'.next = si.next
  <2>1. CASE \E n \in Ports : SiReadReport(n)
    BY <2>1 DEF SiReadReport, BeamInv
  <2>2. CASE \E masks \in {{}, {"RDST", "TC"}}, ack \in BOOLEAN :
                \/ \E n \in Ports : SiWriteComcsr(masks, ack, TRUE, n)
                \/ SiWriteComcsr(masks, ack, FALSE, 0)
    BY <2>2 DEF SiWriteComcsr, BeamInv
  <2>3. CASE \E ns \in {{}, Ports} : SiWriteSisr(ns)
    BY <2>3 DEF SiWriteSisr, BeamInv
  <2>4. CASE \E x \in PollPeriods : SiWritePoll(x)
    BY <2>4 DEF SiWritePoll, BeamInv
  <2> QED BY <2>1, <2>2, <2>3, <2>4 DEF SiNext, SiTransfers
<1> QED BY <1>1, StillBeam DEF BeamInv

\* Every step of the guest and of the beam.
LEMMA ViNextBeam ==
    ASSUME SiAssumption, ViAssumption, FieldsPolled, BeamInv, ViNext
    PROVE  BeamInv'
<1>1. CASE ViAdvance
  BY <1>1, AdvanceBeam
<1>2. ASSUME NEW d \in Displays, NEW at \in {0, Nowhere}, NEW int \in BOOLEAN,
             NEW masked \in BOOLEAN, ViWriteDisplay(d, at, int, masked)
      PROVE  BeamInv'
  <2>1. /\ {"half", "odd", "even"} \subseteq DOMAIN vi' /\ vi'.half = vi.half
        /\ vi'.odd = vi.odd /\ vi'.even = vi.even
    BY <1>2 DEF ViWriteDisplay, BeamInv
  <2> QED BY <2>1, <1>2, StillBeam DEF ViWriteDisplay, BeamInv
<1>3. CASE ViReset
  <2>1. /\ {"half", "odd", "even"} \subseteq DOMAIN vi' /\ vi'.half = vi.half
        /\ vi'.odd = vi.odd /\ vi'.even = vi.even
    BY <1>3 DEF ViReset, BeamInv
  <2> QED BY <2>1, <1>3, StillBeam DEF ViReset, BeamInv
<1>4. ASSUME NEW odd \in FieldLengths, NEW even \in FieldLengths, ViSetField(odd, even)
      PROVE  BeamInv'
  <2>1. /\ {"half", "odd", "even"} \subseteq DOMAIN vi' /\ vi'.half = vi.half
        /\ vi'.odd = odd /\ vi'.even = even
    BY <1>4 DEF ViSetField, BeamInv
  <2> QED BY <2>1, <1>4, StillBeam DEF ViSetField, BeamInv
<1> QED BY <1>1, <1>2, <1>3, <1>4 DEF ViNext

\* What the invariant is for.
LEMMA BeamPolls ==
    ASSUME SiAssumption, ViAssumption, FieldsPolled, BeamInv
    PROVE  PolledEveryFrame
<1>1. PollDelay \in Nat /\ FrameMax \in Nat /\ PollDelay + 1 < FrameMax
  BY FrameBounds
<1> QED BY <1>1 DEF BeamInv, PolledEveryFrame

-----------------------------------------------------------------------------
(* The graphics FIFO. *)

FifoRecords ==
    [ctrl : SUBSET {"READ", "LINK", "HIINT", "LOINT", "BREAK"},
     high : Nat, low : Nat, hiwm : BOOLEAN, lowm : BOOLEAN,
     write : Ring, read : Ring, distance : Nat, break : Nat, staged : Nat]

FifoType ==
    /\ fifo \in FifoRecords
    /\ ram \in [Ring -> Kinds]
    /\ unread = Unknown \/ unread \in Seq(Kinds)

\* The overflow interrupt comes one burst after the watermark at the latest, and there
\* is room for that one.
RoomLeft ==
    unread # Unknown =>
        /\ fifo.high + 2 <= FifoSize
        /\ ~fifo.hiwm => fifo.distance <= fifo.high + 1

\* A line that is up is seen in INTSR.
CpSeen == CpLevel(fifo) => "CP" \in intsr

FifoInv == FifoType /\ FifoExact /\ RoomLeft /\ CpSeen

\* Places of the ring, counted round its end.
LEMMA RingPlaces ==
    ASSUME FifoAssumption
    PROVE  /\ FifoSize \in Nat \ {0} /\ Ring = 0..(FifoSize - 1)
           /\ \A b \in Ring, n \in 0..FifoSize :
                 /\ (b + n) % FifoSize = IF b + n < FifoSize THEN b + n ELSE b + n - FifoSize
                 /\ (b + n) % FifoSize \in Ring
<1>1. FifoSize \in Nat \ {0} /\ Ring = 0..(FifoSize - 1)
  BY DEF FifoAssumption, Ring
<1>2. ASSUME NEW b \in Ring, NEW n \in 0..FifoSize
      PROVE  /\ (b + n) % FifoSize = IF b + n < FifoSize THEN b + n ELSE b + n - FifoSize
             /\ (b + n) % FifoSize \in Ring
  <2>1. (b + n) % FifoSize = IF b + n < FifoSize THEN b + n ELSE b + n - FifoSize
    BY <1>1, FoldedSum
  <2> QED BY <2>1, <1>1
<1> QED BY <1>1, <1>2

\* The place of the k-th burst from the read pointer, as FifoExact counts them.
Slot(b, n) == IF b + n < FifoSize THEN b + n ELSE b + n - FifoSize

\* FifoExact's places, in the form that the other lemmas use.
LEMMA ExactSlots ==
    ASSUME FifoAssumption, NEW b \in Ring, NEW d \in 0..FifoSize
    PROVE  /\ (b + d) % FifoSize = Slot(b, d)
           /\ \A k \in 1..d : (b + k - 1) % FifoSize = Slot(b, k - 1)
<1>1. FifoSize \in Nat /\ Ring = 0..(FifoSize - 1)
  BY RingPlaces
<1>2. \A n \in 0..FifoSize : (b + n) % FifoSize = Slot(b, n)
  BY RingPlaces DEF Slot
<1>3. ASSUME NEW k \in 1..d PROVE (b + k - 1) % FifoSize = Slot(b, k - 1)
  <2>1. k - 1 \in 0..FifoSize /\ b + k - 1 = b + (k - 1)
    BY <1>1
  <2> QED BY <2>1, <1>2
<1> QED BY <1>2, <1>3

\* The next place of a pointer, and the places seen from there.
LEMMA SlotMoves ==
    ASSUME FifoAssumption
    PROVE  \A b \in Ring :
              /\ Slot(b, 0) = b /\ NextBurst(b) = Slot(b, 1) /\ NextBurst(b) \in Ring
              /\ \A n \in 0..FifoSize : Slot(b, n) \in Ring
              /\ \A n \in 0..(FifoSize - 1) :
                    /\ NextBurst(Slot(b, n)) = Slot(b, n + 1)
                    /\ Slot(NextBurst(b), n) = Slot(b, n + 1)
              /\ \A m, n \in 0..(FifoSize - 1) : m # n => Slot(b, m) # Slot(b, n)
  BY DEF FifoAssumption, Ring, Slot, NextBurst

\* The unknown is no sequence of bursts.
LEMMA UnknownApart == \A s \in Seq(Kinds) : s # Unknown
<1> SUFFICES ASSUME Unknown \in Seq(Kinds) PROVE FALSE
  OBVIOUS
<1>1. Len(Unknown) = 1 /\ Unknown[1] = "unknown"
  BY DEF Unknown
<1>2. Unknown[1] \in Kinds
  BY <1>1
<1> QED BY <1>1, <1>2 DEF Kinds

\* The command processor's own push shows its line.
LEMMA PushCp ==
    ASSUME NEW level, Push("CP", level)
    PROVE  level => "CP" \in intsr'
  BY DEF Push, Drive

\* The push of another device leaves it.
LEMMA PushOther ==
    ASSUME NEW c, NEW level, c # "CP", Push(c, level)
    PROVE  "CP" \in intsr => "CP" \in intsr'
  BY DEF Push, Drive

\* At power-on the guest has attached no FIFO (gcn_cp_init, gcn_gp_init).
LEMMA FifoInitInv ==
    ASSUME FifoAssumption, FifoInit
    PROVE  FifoInv
<1>1. FifoSize \in Nat \ {0} /\ 0 \in Ring
  BY DEF FifoAssumption, Ring
<1>2. unread = Unknown /\ fifo.ctrl = {}
  BY DEF FifoInit
<1>3. FifoType
  BY <1>1 DEF FifoInit, FifoType, FifoRecords, Kinds
<1> QED BY <1>2, <1>3 DEF FifoInv, FifoExact, RoomLeft, CpSeen, CpLevel

\* The watermarks are looked at, and nothing else changes.
LEMMA WatchedLeaves ==
    ASSUME NEW f \in FifoRecords
    PROVE  /\ Watched(f) \in FifoRecords
           /\ Watched(f).hiwm <=> f.distance > f.high
           /\ \A x \in {"ctrl", "high", "low", "write", "read", "distance", "break", "staged"} :
                 Watched(f)[x] = f[x]
<1> DEFINE hi == f.distance > f.high
           lo == f.distance < f.low
<1>1. hi \in BOOLEAN /\ lo \in BOOLEAN
  OBVIOUS
<1>2. Watched(f) = [f EXCEPT !.hiwm = hi, !.lowm = lo]
  BY DEF Watched
<1> HIDE DEF hi, lo
<1>3. /\ Watched(f) \in FifoRecords
      /\ Watched(f).hiwm = hi
      /\ \A x \in {"ctrl", "high", "low", "write", "read", "distance", "break", "staged"} :
            Watched(f)[x] = f[x]
  BY <1>1, <1>2 DEF FifoRecords
<1> QED BY <1>3 DEF hi

\* The guest, or the tick, changes registers that are not the pointers, and the command
\* processor evaluates its line.
LEMMA CpRegistersInv ==
    ASSUME FifoAssumption, FifoInv, NEW f \in FifoRecords, CpPush(f),
           UNCHANGED <<ram, unread>>, f.high = fifo.high, f.write = fifo.write,
           f.read = fifo.read, f.distance = fifo.distance
    PROVE  FifoInv'
<1>1. fifo' = Watched(f) /\ Push("CP", CpLevel(fifo'))
  BY DEF CpPush
<1>2. /\ fifo' \in FifoRecords
      /\ fifo'.hiwm <=> fifo.distance > fifo.high
      /\ fifo'.high = fifo.high /\ fifo'.write = fifo.write /\ fifo'.read = fifo.read
      /\ fifo'.distance = fifo.distance
  BY <1>1, WatchedLeaves
<1>3. FifoType'
  BY <1>2 DEF FifoInv, FifoType
<1>4. FifoExact'
  BY <1>2 DEF FifoInv, FifoExact
<1>5. RoomLeft'
  <2>1. fifo.distance \in Nat /\ fifo.high \in Nat
    BY DEF FifoInv, FifoType, FifoRecords
  <2> QED BY <1>2, <2>1 DEF FifoInv, RoomLeft
<1>6. CpSeen'
  BY <1>1, PushCp DEF CpSeen
<1> QED BY <1>3, <1>4, <1>5, <1>6 DEF FifoInv

\* A FIFO is attached empty, with room above its watermark.
LEMMA AttachInv ==
    ASSUME FifoAssumption, FifoInv, NEW b \in Ring, NEW w \in Watermarks, CpAttach(b, w)
    PROVE  FifoInv'
<1>1. w.high \in Nat /\ w.low \in Nat /\ w.high + 2 <= FifoSize /\ FifoSize \in Nat
  BY DEF FifoAssumption
<1> DEFINE f == [fifo EXCEPT !.write = b, !.read = b, !.distance = 0, !.high = w.high,
                             !.low = w.low]
<1>2. /\ f \in FifoRecords
      /\ f.write = b /\ f.read = b /\ f.distance = 0 /\ f.high = w.high
  BY <1>1 DEF FifoInv, FifoType, FifoRecords
<1>3. fifo' = Watched(f) /\ Push("CP", CpLevel(fifo')) /\ unread' = <<>> /\ ram' = ram
  BY DEF CpAttach, CpPush
<1> HIDE DEF f
<1>4. /\ fifo' \in FifoRecords /\ ~fifo'.hiwm
      /\ fifo'.write = b /\ fifo'.read = b /\ fifo'.distance = 0 /\ fifo'.high = w.high
  <2>1. ~(f.distance > f.high)
    BY <1>1, <1>2
  <2> QED BY <1>2, <1>3, <2>1, WatchedLeaves
<1>5. unread' \in Seq(Kinds) /\ Len(unread') = 0 /\ unread' # Unknown
  <2>1. <<>> \in Seq(Kinds) /\ Len(<<>>) = 0
    OBVIOUS
  <2> QED BY <1>3, <2>1, UnknownApart
<1>6. FifoType'
  BY <1>3, <1>4, <1>5 DEF FifoInv, FifoType
<1>7. FifoExact'
  <2>1. 0 \in 0..FifoSize /\ b < FifoSize /\ b \in Nat
    BY <1>1 DEF Ring
  <2>2. (b + 0) % FifoSize = b
    BY <2>1, RingPlaces
  <2> QED BY <1>1, <1>4, <1>5, <2>2 DEF FifoExact
<1>8. RoomLeft'
  BY <1>1, <1>4 DEF RoomLeft
<1>9. CpSeen'
  BY <1>3, PushCp DEF CpSeen
<1> QED BY <1>6, <1>7, <1>8, <1>9 DEF FifoInv

\* A burst goes to a free place, after all that is unread: while the interrupt is down
\* there are two, and the guest keeps to that.
LEMMA BurstInv ==
    ASSUME FifoAssumption, FifoInv, HasRoom, NEW kind \in Kinds, GpBurst(kind)
    PROVE  FifoInv'
<1> DEFINE linked == "LINK" \in fifo.ctrl
           seen   == Watched(fifo)
<1>1. fifo \in FifoRecords /\ ram \in [Ring -> Kinds]
  BY DEF FifoInv, FifoType
<1>2. /\ seen \in FifoRecords /\ (seen.hiwm <=> fifo.distance > fifo.high)
      /\ seen.ctrl = fifo.ctrl /\ seen.high = fifo.high /\ seen.write = fifo.write
      /\ seen.read = fifo.read /\ seen.distance = fifo.distance
  BY <1>1, WatchedLeaves
<1>3. fifo' = IF linked
              THEN [seen EXCEPT !.staged = 0, !.write = NextBurst(fifo.write),
                                !.distance = fifo.distance + 1]
              ELSE [seen EXCEPT !.staged = 0, !.write = NextBurst(fifo.write)]
  BY <1>2 DEF GpBurst, FifoRecords
<1>4. /\ ram' = [ram EXCEPT ![fifo.write] = kind] /\ Push("CP", CpLevel(seen))
      /\ unread' = IF linked /\ unread # Unknown THEN Append(unread, kind) ELSE Unknown
  BY DEF GpBurst
<1>5. fifo.read \in Ring /\ fifo.write \in Ring /\ fifo.distance \in Nat /\ fifo.high \in Nat
      /\ NextBurst(fifo.write) \in Ring /\ FifoSize \in Nat
  BY <1>1, SlotMoves DEF FifoRecords, FifoAssumption
<1> HIDE DEF seen
<1>6. /\ fifo' \in FifoRecords /\ fifo'.ctrl = seen.ctrl /\ fifo'.hiwm = seen.hiwm
      /\ fifo'.lowm = seen.lowm /\ fifo'.high = fifo.high /\ fifo'.read = fifo.read
      /\ fifo'.write = NextBurst(fifo.write)
      /\ linked => fifo'.distance = fifo.distance + 1
  <2>1. fifo.distance + 1 \in Nat
    BY <1>5
  <2>2. CASE linked
    BY <2>1, <2>2, <1>2, <1>3, <1>5 DEF FifoRecords
  <2>3. CASE ~linked
    BY <2>3, <1>2, <1>3, <1>5 DEF FifoRecords
  <2> QED BY <2>2, <2>3
<1>7. unread' = Unknown \/ unread' \in Seq(Kinds)
  BY <1>4 DEF FifoInv, FifoType
<1>8. FifoType'
  BY <1>1, <1>4, <1>6, <1>7 DEF FifoType
<1>9. CpSeen'
  BY <1>4, <1>6, PushCp DEF CpSeen, CpLevel
<1>10. CASE unread' = Unknown
  BY <1>8, <1>9, <1>10 DEF FifoInv, FifoExact, RoomLeft
<1>11. CASE unread' # Unknown
  <2>1. linked /\ unread # Unknown /\ unread \in Seq(Kinds) /\ unread' = Append(unread, kind)
    BY <1>4, <1>11 DEF FifoInv, FifoType
  <2>2. ~fifo.hiwm
    BY <2>1 DEF HasRoom, FifoInv, CpSeen, CpLevel
  <2>3. fifo.high + 2 <= FifoSize /\ fifo.distance <= fifo.high + 1
    BY <2>1, <2>2 DEF FifoInv, RoomLeft
  <2>4. RoomLeft'
    BY <1>2, <1>5, <1>6, <2>1, <2>3 DEF RoomLeft
  <2>5. /\ fifo.distance = Len(unread) /\ fifo.distance < FifoSize
        /\ fifo.write = Slot(fifo.read, fifo.distance)
        /\ \A k \in 1..Len(unread) : ram[Slot(fifo.read, k - 1)] = unread[k]
    <3>1. /\ fifo.distance = Len(unread) /\ fifo.distance < FifoSize
          /\ fifo.write = (fifo.read + fifo.distance) % FifoSize
          /\ \A k \in 1..Len(unread) : ram[(fifo.read + k - 1) % FifoSize] = unread[k]
      BY <1>5, <2>1, <2>3 DEF FifoInv, FifoExact
    <3>2. fifo.distance \in 0..FifoSize
      BY <3>1, <1>5
    <3> QED BY <3>1, <3>2, <1>5, ExactSlots
  <2>6. Len(unread') = Len(unread) + 1 /\ Len(unread) \in Nat
    BY <2>1
  <2>7. fifo'.write = Slot(fifo.read, fifo.distance + 1)
    <3>1. fifo.distance \in 0..(FifoSize - 1)
      BY <1>5, <2>5
    <3> QED BY <3>1, <1>5, <1>6, <2>5, SlotMoves
  <2>8. ASSUME NEW k \in 1..Len(unread') PROVE ram'[Slot(fifo.read, k - 1)] = unread'[k]
    <3>1. CASE k = Len(unread')
      BY <3>1, <1>1, <1>4, <1>5, <2>1, <2>5, <2>6
    <3>2. CASE k # Len(unread')
      <4>1. k \in 1..Len(unread) /\ unread'[k] = unread[k]
        BY <3>2, <2>1, <2>6
      <4>2. k - 1 \in 0..(FifoSize - 1) /\ fifo.distance \in 0..(FifoSize - 1)
            /\ k - 1 # fifo.distance
        BY <4>1, <1>5, <2>5, <2>6
      <4>3. Slot(fifo.read, k - 1) # fifo.write
        BY <4>2, <1>5, <2>5, SlotMoves
      <4>4. Slot(fifo.read, k - 1) \in Ring
        <5>1. k - 1 \in 0..FifoSize
          BY <4>2, <1>5
        <5> QED BY <5>1, <1>5, SlotMoves
      <4> QED BY <4>1, <4>3, <4>4, <1>1, <1>4, <2>5
    <3> QED BY <3>1, <3>2
  <2>9. /\ fifo'.distance = Len(unread') /\ fifo'.distance <= FifoSize
        /\ fifo'.write = Slot(fifo'.read, fifo'.distance)
        /\ \A k \in 1..Len(unread') : ram'[Slot(fifo'.read, k - 1)] = unread'[k]
    BY <1>5, <1>6, <2>1, <2>5, <2>6, <2>7, <2>8
  <2>10. FifoExact'
    <3>1. fifo'.read \in Ring /\ fifo'.distance \in 0..FifoSize
      BY <1>5, <1>6, <2>6, <2>9
    <3> QED BY <3>1, <2>9, ExactSlots DEF FifoExact
  <2> QED BY <1>8, <1>9, <2>4, <2>10 DEF FifoInv
<1> QED BY <1>10, <1>11

\* The tick takes the oldest burst.
LEMMA ConsumeInv ==
    ASSUME FifoAssumption, FifoInv, GxConsume
    PROVE  FifoInv'
<1> DEFINE f == [fifo EXCEPT !.read = NextBurst(fifo.read), !.distance = fifo.distance - 1]
<1>1. fifo \in FifoRecords /\ ram \in [Ring -> Kinds] /\ ram' = ram
  BY DEF FifoInv, FifoType, GxConsume
<1>2. fifo.read \in Ring /\ fifo.write \in Ring /\ fifo.distance \in Nat /\ fifo.high \in Nat
      /\ NextBurst(fifo.read) \in Ring /\ FifoSize \in Nat
  BY <1>1, SlotMoves DEF FifoRecords, FifoAssumption
<1>3. fifo.distance > 0 /\ fifo.distance - 1 \in Nat
  BY <1>2 DEF GxConsume, CanConsume
<1>4. f \in FifoRecords /\ f.high = fifo.high /\ f.read = NextBurst(fifo.read)
      /\ f.write = fifo.write /\ f.distance = fifo.distance - 1
  BY <1>1, <1>2, <1>3 DEF FifoRecords
<1>5. /\ fifo' = Watched(f) /\ Push("CP", CpLevel(fifo'))
      /\ unread' = IF unread = Unknown THEN Unknown ELSE Tail(unread)
  BY DEF GxConsume, CpPush
<1> HIDE DEF f
<1>6. /\ fifo' \in FifoRecords
      /\ fifo'.hiwm <=> fifo.distance - 1 > fifo.high
      /\ fifo'.high = fifo.high /\ fifo'.write = fifo.write
      /\ fifo'.read = NextBurst(fifo.read) /\ fifo'.distance = fifo.distance - 1
  BY <1>4, <1>5, WatchedLeaves
<1>7. CpSeen'
  BY <1>5, PushCp DEF CpSeen
<1>8. CASE unread = Unknown
  BY <1>1, <1>5, <1>6, <1>7, <1>8 DEF FifoInv, FifoType, FifoExact, RoomLeft
<1>9. CASE unread # Unknown
  <2>1. unread \in Seq(Kinds) /\ fifo.distance = Len(unread) /\ fifo.distance <= FifoSize
        /\ fifo.write = (fifo.read + fifo.distance) % FifoSize
        /\ \A k \in 1..Len(unread) : ram[(fifo.read + k - 1) % FifoSize] = unread[k]
    BY <1>9 DEF FifoInv, FifoType, FifoExact
  <2>2. fifo.distance \in 0..FifoSize
    BY <1>2, <2>1
  <2>3. /\ fifo.write = Slot(fifo.read, fifo.distance)
        /\ \A k \in 1..Len(unread) : ram[Slot(fifo.read, k - 1)] = unread[k]
    BY <1>2, <2>1, <2>2, ExactSlots
  <2>4. /\ unread' \in Seq(Kinds) /\ Len(unread') = Len(unread) - 1
        /\ \A k \in 1..Len(unread') : unread'[k] = unread[k + 1]
    <3>1. unread # <<>>
      BY <1>3, <2>1
    <3> QED BY <3>1, <2>1, <1>5, <1>9
  <2>5. FifoType'
    BY <1>1, <1>6, <2>4 DEF FifoType
  <2>6. RoomLeft'
    BY <1>2, <1>6, <1>9 DEF FifoInv, RoomLeft
  <2>7. fifo'.write = Slot(fifo'.read, fifo'.distance)
    <3>1. fifo.distance - 1 \in 0..(FifoSize - 1)
      BY <1>2, <1>3, <2>1
    <3>2. Slot(NextBurst(fifo.read), fifo.distance - 1)
          = Slot(fifo.read, fifo.distance - 1 + 1)
      BY <3>1, <1>2, SlotMoves
    <3>3. fifo.distance - 1 + 1 = fifo.distance
      BY <1>2
    <3> QED BY <3>2, <3>3, <1>6, <2>3
  <2>8. ASSUME NEW k \in 1..Len(unread')
        PROVE  ram'[Slot(fifo'.read, k - 1)] = unread'[k]
    <3>1. k - 1 \in 0..(FifoSize - 1) /\ k + 1 \in 1..Len(unread) /\ (k - 1) + 1 = k
          /\ (k + 1) - 1 = k
      BY <1>2, <2>1, <2>4
    <3>2. Slot(NextBurst(fifo.read), k - 1) = Slot(fifo.read, k)
      BY <3>1, <1>2, SlotMoves
    <3>3. ram[Slot(fifo.read, (k + 1) - 1)] = unread[k + 1]
      BY <3>1, <2>3
    <3> QED BY <3>1, <3>2, <3>3, <1>1, <1>6, <2>4
  <2>9. FifoExact'
    <3>1. fifo'.read \in Ring /\ fifo'.distance \in 0..FifoSize
          /\ fifo'.distance = Len(unread') /\ fifo'.distance <= FifoSize
      BY <1>2, <1>3, <1>6, <2>1, <2>4
    <3> QED BY <3>1, <2>7, <2>8, ExactSlots DEF FifoExact
  <2> QED BY <1>7, <2>5, <2>6, <2>9 DEF FifoInv
<1> QED BY <1>8, <1>9

\* Steps that leave the command processor alone; the guest's stores into the block of
\* the gather pipe, which only counts them.
LEMMA FifoStillInv ==
    ASSUME FifoInv, UNCHANGED <<ram, unread>>, "CP" \in intsr => "CP" \in intsr',
           NEW staged \in Nat, fifo' = [fifo EXCEPT !.staged = staged]
    PROVE  FifoInv'
<1>1. /\ fifo' \in FifoRecords
      /\ \A x \in {"ctrl", "high", "low", "hiwm", "lowm", "write", "read", "distance"} :
            fifo'[x] = fifo[x]
  BY DEF FifoInv, FifoType, FifoRecords
<1> QED BY <1>1 DEF FifoInv, FifoType, FifoExact, RoomLeft, CpSeen, CpLevel

\* Steps that do not touch it at all.
LEMMA FifoIdleInv ==
    ASSUME FifoInv, UNCHANGED <<fifo, ram, unread>>, "CP" \in intsr => "CP" \in intsr'
    PROVE  FifoInv'
  BY DEF FifoInv, FifoType, FifoExact, RoomLeft, CpSeen, CpLevel

\* Every step of the guest, of the tick and of the GX worker.
LEMMA FifoNextInv ==
    ASSUME FifoAssumption, FifoInv, FifoNext
    PROVE  FifoInv'
<1>1. ASSUME NEW ctrl \in Controls, CpWriteCtrl(ctrl)
      PROVE  FifoInv'
  <2> DEFINE f == [fifo EXCEPT !.ctrl = ctrl]
  <2>1. ctrl \in SUBSET {"READ", "LINK", "HIINT", "LOINT", "BREAK"}
    BY DEF Controls
  <2>2. /\ f \in FifoRecords /\ f.high = fifo.high /\ f.write = fifo.write
        /\ f.read = fifo.read /\ f.distance = fifo.distance
    BY <2>1 DEF FifoInv, FifoType, FifoRecords
  <2>3. CpPush(f) /\ UNCHANGED <<ram, unread>>
    BY <1>1 DEF CpWriteCtrl
  <2> HIDE DEF f
  <2> QED BY <2>2, <2>3, CpRegistersInv
<1>2. ASSUME NEW b \in Breaks, CpWriteBreak(b)
      PROVE  FifoInv'
  <2> DEFINE f == [fifo EXCEPT !.break = b]
  <2>1. b \in Nat
    BY DEF FifoAssumption
  <2>2. /\ f \in FifoRecords /\ f.high = fifo.high /\ f.write = fifo.write
        /\ f.read = fifo.read /\ f.distance = fifo.distance
    BY <2>1 DEF FifoInv, FifoType, FifoRecords
  <2>3. CpPush(f) /\ UNCHANGED <<ram, unread>>
    BY <1>2 DEF CpWriteBreak
  <2> HIDE DEF f
  <2> QED BY <2>2, <2>3, CpRegistersInv
<1>3. CASE GpStage
  <2>1. fifo.staged + 1 \in Nat
    BY DEF FifoInv, FifoType, FifoRecords
  <2>2. fifo' = [fifo EXCEPT !.staged = fifo.staged + 1] /\ UNCHANGED <<ram, unread, intsr>>
    BY <1>3 DEF GpStage, pivars
  <2> QED BY <2>1, <2>2, FifoStillInv
<1>4. CASE GpReset
  <2>1. fifo' = [fifo EXCEPT !.staged = 0] /\ UNCHANGED <<ram, unread, intsr>>
    BY <1>4 DEF GpReset, pivars
  <2> QED BY <2>1, FifoStillInv
<1>5. ASSUME NEW clear \in SUBSET Signals, NEW enable \in {{}, Signals},
             PeWriteCtrl(clear, enable)
      PROVE  FifoInv'
  <2>1. "CP" \in intsr => "CP" \in intsr'
    BY <1>5 DEF PeWriteCtrl, Drive, Cause
  <2> QED BY <2>1, <1>5, FifoIdleInv DEF PeWriteCtrl
<1>6. CASE GxTickStart \/ GxTickEnd \/ PeSignal
  BY <1>6, FifoIdleInv DEF GxTickStart, GxTickEnd, PeSignal, pivars
<1>7. ASSUME NEW signal \in Signals, PePush(signal)
      PROVE  FifoInv'
  <2>1. "CP" \in intsr => "CP" \in intsr'
    <3>1. Push(Cause(signal), signal \in pe.levels) /\ Cause(signal) # "CP"
      BY <1>7 DEF PePush, Cause
    <3> QED BY <3>1, PushOther
  <2> QED BY <2>1, <1>7, FifoIdleInv DEF PePush
<1>8. CASE FifoGuest
  <2>1. {} \in Controls
    BY DEF Controls
  <2> QED BY <1>8, <2>1, <1>1, <1>2, <1>3, <1>4, <1>5, AttachInv, BurstInv DEF FifoGuest
<1> QED BY <1>6, <1>7, <1>8, ConsumeInv DEF FifoNext

-----------------------------------------------------------------------------
(***************************************************************************)
(* A read in flight is of the disc in the drive and inside it, and the     *)
(* drive is ready only for a disc that was identified. What keeps it: the  *)
(* cover is open exactly while there is no disc (CoverRight), so that a    *)
(* drive that may read has one; every command drops the read of the one it *)
(* replaces; and a swapped disc resets the drive with it.                  *)
(***************************************************************************)

Blocks == [offset : Nat, length : Nat \ {0}, addr : Nat, of : Discs]

Errors == {"NONE", "MEDIUM_NOT_PRESENT", "MEDIUM_CHANGED", "MOTOR_STOPPED", "NO_DISC_ID",
           "BLOCK_OOB", "NO_AUDIO_BUF", "INVALID_PERIOD", "INVALID_COMMAND"}

Drives == [status : SUBSET DiStatus, masks : SUBSET DiStatus, mar : Nat, length : Nat,
           tstart : BOOLEAN, drive : DriveStates, error : Errors, dtk : BOOLEAN,
           pending : BOOLEAN, intr : {"TCINT", "DEINT"}, cycles : Nat,
           read : SUBSET Blocks]

ReadyStates == {"READY", "READY_NO_READS_MADE"}

\* DiReadSound, of the registers d.
ReadsSound(d) ==
    \A r \in d.read :
        /\ d.pending /\ d.intr = "TCINT" /\ r.of = disc
        /\ r.offset + r.length <= DiscBlocks /\ r.addr + r.length <= RamBlocks
        /\ d.drive \in ReadyStates

\* The cover is open when, and only when, there is no disc.
CoverRight == di.drive = "COVER_OPENED" <=> disc = NoDisc

DiInv ==
    /\ di \in Drives /\ disc \in Discs \cup {NoDisc}
    /\ CoverRight /\ DiOwnDisc

\* The registers a command begins with: the one it replaces is forgotten.
Begun(d) == d \in Drives /\ d.pending /\ d.read = {} /\ d.intr = "TCINT"

\* What a command may leave of the registers d it began with.
Left(d, r) ==
    /\ r \in Drives /\ r.pending /\ ReadsSound(r)
    /\ r.tstart = d.tstart /\ r.drive = d.drive

\* At power-on nothing is in the drive, or in flight.
LEMMA DiInitInv ==
    ASSUME DiAssumption, DiInit
    PROVE  DiInv
<1>1. di \in Drives
  BY DEF DiInit, Drives, DriveStates, Errors
<1>2. disc = NoDisc /\ di.drive = "COVER_OPENED" /\ di.tstart = FALSE /\ di.read = {}
  BY DEF DiInit
<1> QED BY <1>1, <1>2 DEF DiInv, CoverRight, DiOwnDisc, DiReadSound, DiIdentified, DiStartMeans

\* A command that is refused leaves an error and nothing in flight.
LEMMA RefuseLeaves ==
    ASSUME NEW d, Begun(d), NEW e \in Errors
    PROVE  Left(d, Refuse(d, e))
  BY DEF Begun, Left, Refuse, Drives, ReadsSound, Errors

\* A read that is accepted is of blocks that exist, into RAM that exists.
LEMMA PrepareReadLeaves ==
    ASSUME DiAssumption, NEW d, Begun(d), d.drive \in ReadyStates, disc \in Discs,
           NEW offset \in Nat, NEW asked \in Nat, NEW latency \in Latencies
    PROVE  Left(d, PrepareRead(d, offset, asked, latency))
<1> DEFINE length == Smaller(asked, d.length)
           fits   == Smaller(length, RamBlocks - d.mar)
           block  == [offset |-> offset, length |-> fits, addr |-> d.mar, of |-> disc]
<1>1. d \in Drives /\ d.length \in Nat /\ d.mar \in Nat
  BY DEF Begun, Drives
<1>2. length \in Nat
  BY <1>1 DEF Smaller
<1>3. CASE offset + length > DiscBlocks
  <2>1. PrepareRead(d, offset, asked, latency) = Refuse(d, "BLOCK_OOB")
    BY <1>3 DEF PrepareRead
  <2> QED BY <2>1, RefuseLeaves DEF Errors
<1>4. CASE ~(offset + length > DiscBlocks) /\ length = 0
  <2>1. PrepareRead(d, offset, asked, latency) = d
    BY <1>4 DEF PrepareRead
  <2> QED BY <2>1 DEF Left, Begun, ReadsSound
<1>5. CASE ~(offset + length > DiscBlocks) /\ length # 0 /\ d.mar >= RamBlocks
  <2>1. PrepareRead(d, offset, asked, latency) = [d EXCEPT !.intr = "DEINT"]
    BY <1>5 DEF PrepareRead
  <2> QED BY <2>1, <1>1 DEF Left, Begun, ReadsSound, Drives
<1>6. CASE ~(offset + length > DiscBlocks) /\ length # 0 /\ ~(d.mar >= RamBlocks)
  <2>1. PrepareRead(d, offset, asked, latency)
            = [d EXCEPT !.read = {block}, !.cycles = latency]
    BY <1>6 DEF PrepareRead
  <2>2. DiscBlocks \in Nat /\ RamBlocks \in Nat /\ latency \in Nat
    BY DEF DiAssumption
  <2>3. fits \in Nat \ {0} /\ fits <= length /\ d.mar + fits <= RamBlocks
    BY <1>1, <1>2, <1>6, <2>2 DEF Smaller
  <2>4. block \in Blocks /\ offset + fits <= DiscBlocks
    <3> HIDE DEF length, fits
    <3>1. offset + length <= DiscBlocks
      BY <1>2, <1>6, <2>2
    <3> QED BY <3>1, <1>1, <1>2, <2>2, <2>3 DEF Blocks
  <2> HIDE DEF length, fits
  <2>5. block.offset = offset /\ block.length = fits /\ block.addr = d.mar /\ block.of = disc
    OBVIOUS
  <2> HIDE DEF block
  <2> DEFINE r == [d EXCEPT !.read = {block}, !.cycles = latency]
  <2>6. r \in Drives
    BY <1>1, <2>2, <2>4 DEF Drives
  <2>7. r.read = {block} /\ r.pending /\ r.intr = "TCINT" /\ r.drive = d.drive
        /\ r.tstart = d.tstart
    BY <1>1 DEF Drives, Begun
  <2> HIDE DEF r
  <2>8. ReadsSound(r)
    BY <2>3, <2>4, <2>5, <2>7 DEF ReadsSound
  <2> QED BY <2>1, <2>6, <2>7, <2>8 DEF Left, r
<1> QED BY <1>3, <1>4, <1>5, <1>6

\* A read by a drive that the command has moved to state s.
LEMMA ReadFromLeaves ==
    ASSUME DiAssumption, NEW d, Begun(d), disc \in Discs \cup {NoDisc}, NEW s \in DriveStates,
           s = "COVER_OPENED" <=> disc = NoDisc,
           NEW offset \in Nat, NEW asked \in Nat, NEW latency \in Latencies
    PROVE  Left([d EXCEPT !.drive = s], ReadFrom(d, s, offset, asked, latency))
<1> DEFINE moved == [d EXCEPT !.drive = s]
<1>1. Begun(moved)
  BY DEF Begun, Drives
<1>2. moved.drive = s
  BY DEF Begun, Drives
<1>3. Refusal(s) \in Errors
  BY DEF Refusal, Errors
<1>4. CASE Refusal(s) # "NONE"
  <2>1. ReadFrom(d, s, offset, asked, latency) = Refuse(moved, Refusal(s))
    BY <1>4 DEF ReadFrom
  <2> HIDE DEF moved
  <2> QED BY <2>1, <1>1, <1>3, RefuseLeaves DEF moved
<1>5. CASE Refusal(s) = "NONE"
  <2>1. ReadFrom(d, s, offset, asked, latency) = PrepareRead(moved, offset, asked, latency)
    BY <1>5 DEF ReadFrom
  <2>2. disc \in Discs /\ s \in ReadyStates
    BY <1>5 DEF Refusal, DiscInside, DriveStates, ReadyStates
  <2> HIDE DEF moved
  <2> QED BY <2>1, <2>2, <1>1, <1>2, PrepareReadLeaves DEF moved
<1> QED BY <1>4, <1>5

\* A command leaves a drive that is ready only if it was, or if it asked for the ID.
LEMMA ExecuteLeaves ==
    ASSUME DiAssumption, DiInv, NEW d, Begun(d), d.drive = di.drive,
           NEW cmd \in Commands, NEW offset \in Nat, NEW asked \in Nat, NEW on \in BOOLEAN,
           NEW latency \in Latencies
    PROVE  LET r == Execute(d, cmd, offset, asked, on, latency)
           IN  /\ r \in Drives /\ r.pending /\ ReadsSound(r)
               /\ r.drive = "COVER_OPENED" <=> d.drive = "COVER_OPENED"
               /\ r.drive \in ReadyStates =>
                     \/ d.drive \in ReadyStates
                     \/ cmd = "READ_ID" /\ d.drive = "DISC_ID_NOT_READ"
<1> DEFINE r == Execute(d, cmd, offset, asked, on, latency)
<1>1. d \in Drives /\ d.drive \in DriveStates /\ disc \in Discs \cup {NoDisc}
      /\ (d.drive = "COVER_OPENED" <=> disc = NoDisc)
  BY DEF Begun, Drives, DiInv, CoverRight
<1>2. ASSUME NEW s \in DriveStates, s = "COVER_OPENED" <=> d.drive = "COVER_OPENED",
             NEW off \in Nat, NEW len \in Nat, r = ReadFrom(d, s, off, len, latency)
      PROVE  r \in Drives /\ r.pending /\ ReadsSound(r) /\ r.drive = s
  <2>1. Left([d EXCEPT !.drive = s], ReadFrom(d, s, off, len, latency))
    BY <1>1, <1>2, ReadFromLeaves
  <2>2. [d EXCEPT !.drive = s].drive = s
    BY <1>1 DEF Drives
  <2> HIDE DEF r
  <2> QED BY <2>1, <2>2, <1>2 DEF Left
<1>3. CASE cmd = "READ"
  <2>1. r = ReadFrom(d, AfterRead(d.drive), offset, asked, latency)
    BY <1>3 DEF Execute
  <2>2. /\ AfterRead(d.drive) \in DriveStates
        /\ AfterRead(d.drive) = "COVER_OPENED" <=> d.drive = "COVER_OPENED"
        /\ AfterRead(d.drive) \in ReadyStates => d.drive \in ReadyStates
    BY <1>1 DEF AfterRead, DriveStates, ReadyStates
  <2> HIDE DEF r
  <2>3. r \in Drives /\ r.pending /\ ReadsSound(r) /\ r.drive = AfterRead(d.drive)
    BY <1>2, <2>1, <2>2
  <2> QED BY <2>2, <2>3 DEF r
<1>4. CASE cmd = "READ_ID"
  <2>1. r = ReadFrom(d, AfterReadId(d.drive), 0, 1, latency)
    BY <1>4 DEF Execute
  <2>2. /\ AfterReadId(d.drive) \in DriveStates
        /\ AfterReadId(d.drive) = "COVER_OPENED" <=> d.drive = "COVER_OPENED"
        /\ AfterReadId(d.drive) \in ReadyStates =>
               d.drive \in ReadyStates \cup {"DISC_ID_NOT_READ"}
    BY <1>1 DEF AfterReadId, AfterRead, DriveStates, ReadyStates
  <2> HIDE DEF r
  <2>3. r \in Drives /\ r.pending /\ ReadsSound(r) /\ r.drive = AfterReadId(d.drive)
    BY <1>2, <2>1, <2>2
  <2> QED BY <1>4, <2>2, <2>3 DEF r
<1>5. ASSUME NEW e \in Errors, r = Refuse(d, e)
      PROVE  r \in Drives /\ r.pending /\ ReadsSound(r) /\ r.drive = d.drive
  <2> HIDE DEF r
  <2> QED BY <1>5, RefuseLeaves DEF Left
<1>6. CASE cmd \in {"AUDIO_STREAM", "AUDIO_CONFIG", "INVALID"}
  <2>1. Refusal(d.drive) \in Errors
        /\ {"NO_AUDIO_BUF", "INVALID_PERIOD", "INVALID_COMMAND"} \subseteq Errors
    BY DEF Refusal, Errors
  <2>2. \/ \E e \in Errors : r = Refuse(d, e)
        \/ r = d
        \/ r = [d EXCEPT !.dtk = on]
    <3>1. CASE cmd = "AUDIO_STREAM"
      BY <2>1, <3>1 DEF Execute
    <3>2. CASE cmd = "AUDIO_CONFIG"
      BY <2>1, <3>2 DEF Execute
    <3>3. CASE cmd = "INVALID"
      BY <2>1, <3>3 DEF Execute
    <3> QED BY <1>6, <3>1, <3>2, <3>3
  <2> HIDE DEF r
  <2>3. ASSUME r = d \/ r = [d EXCEPT !.dtk = on]
        PROVE  r \in Drives /\ r.pending /\ ReadsSound(r) /\ r.drive = d.drive
    BY <2>3, <1>1 DEF Begun, Drives, ReadsSound
  <2>4. r \in Drives /\ r.pending /\ ReadsSound(r) /\ r.drive = d.drive
    BY <2>2, <2>3, <1>5
  <2> QED BY <2>4 DEF r
<1>7. CASE cmd \notin {"READ", "READ_ID", "AUDIO_STREAM", "AUDIO_CONFIG", "INVALID"}
  <2>1. \/ r = d
        \/ r = [d EXCEPT !.error = "NONE"]
        \/ r = [d EXCEPT !.drive = "MOTOR_STOPPED"]
           /\ d.drive \in {"READY", "READY_NO_READS_MADE", "DISC_ID_NOT_READ"}
    BY <1>7 DEF Execute
  <2> HIDE DEF r
  <2>2. /\ r \in Drives /\ r.pending /\ r.read = {}
        /\ r.drive = d.drive \/ (r.drive = "MOTOR_STOPPED" /\ d.drive # "COVER_OPENED")
    BY <2>1, <1>1 DEF Begun, Drives, DriveStates, Errors
  <2>3. ReadsSound(r)
    BY <2>2 DEF ReadsSound
  <2> QED BY <2>2, <2>3 DEF r, ReadyStates
<1> QED BY <1>3, <1>4, <1>6, <1>7


\* A command is issued: what it asks for is decided by the state the drive is in.
LEMMA CommandInv ==
    ASSUME DiAssumption, DiInv, NEW cmd \in Commands, NEW offset \in Nat, NEW asked \in Nat,
           NEW on \in BOOLEAN, NEW latency \in Latencies,
           DiCommand(cmd, offset, asked, on, latency)
    PROVE  DiInv'
<1> DEFINE d == [di EXCEPT !.tstart = TRUE, !.pending = TRUE, !.read = {},
                           !.cycles = 1, !.intr = "TCINT",
                           !.error = IF cmd = "REQUEST_ERROR" THEN di.error ELSE "NONE"]
<1>1. di \in Drives
  BY DEF DiInv
<1>2. Begun(d) /\ d.drive = di.drive
  BY <1>1 DEF Begun, Drives, Errors
<1>3. di' = Execute(d, cmd, offset, asked, on, latency)
      /\ diSeen' = (IF cmd = "READ_ID" /\ di.drive = "DISC_ID_NOT_READ" THEN disc ELSE diSeen)
      /\ disc' = disc
  BY DEF DiCommand
<1> HIDE DEF d
<1>4. /\ di' \in Drives /\ di'.pending /\ ReadsSound(di')
      /\ di'.drive = "COVER_OPENED" <=> d.drive = "COVER_OPENED"
      /\ di'.drive \in ReadyStates =>
            \/ d.drive \in ReadyStates
            \/ cmd = "READ_ID" /\ d.drive = "DISC_ID_NOT_READ"
  BY <1>2, <1>3, ExecuteLeaves
<1>5. DiReadSound'
  BY <1>3, <1>4 DEF ReadsSound, DiReadSound, ReadyStates
<1>6. DiIdentified'
  BY <1>2, <1>3, <1>4 DEF DiInv, DiOwnDisc, DiIdentified, CoverRight, DiscInside, ReadyStates
<1>7. DiStartMeans'
  BY <1>4 DEF DiStartMeans
<1> QED BY <1>2, <1>3, <1>4, <1>5, <1>6, <1>7 DEF DiInv, CoverRight, DiOwnDisc

\* A step that leaves the drive, its command and its disc as they are.
LEMMA RegistersInv ==
    ASSUME DiInv, di' \in Drives, UNCHANGED <<disc, diSeen>>,
           di'.drive = di.drive, di'.pending = di.pending, di'.intr = di.intr,
           di'.read = di.read, di'.tstart => di.tstart /\ diDropped' = diDropped
    PROVE  DiInv'
<1>1. DiReadSound' /\ DiIdentified' /\ CoverRight'
  BY DEF DiInv, DiOwnDisc, DiReadSound, DiIdentified, CoverRight, DiscInside
<1>2. DiStartMeans'
  BY DEF DiInv, DiOwnDisc, DiStartMeans
<1> QED BY <1>1, <1>2 DEF DiInv, DiOwnDisc

\* The drive is reset, with d inside, from registers r.
LEMMA ResetInv ==
    ASSUME DiInv, NEW r, r \in Drives, NEW d \in Discs \cup {NoDisc}, NEW spinup \in BOOLEAN,
           r.tstart = di.tstart,
           di' = ResetDrive(r, d, spinup), disc' = d, diDropped' = di.tstart
    PROVE  DiInv'
<1>1. di' \in Drives /\ di'.read = {} /\ di'.tstart = di.tstart
      /\ di'.drive = IF d = NoDisc THEN "COVER_OPENED"
                     ELSE IF spinup THEN "DISC_ID_NOT_READ" ELSE "DISC_CHANGE"
  BY DEF ResetDrive, Drives, DriveStates, Errors
<1>2. DiReadSound' /\ DiIdentified' /\ DiStartMeans' /\ CoverRight'
  BY <1>1 DEF DiReadSound, DiIdentified, DiStartMeans, CoverRight
<1> QED BY <1>1, <1>2 DEF DiInv, DiOwnDisc

\* Time passes: the command goes on, or it completes and its read is no longer in flight.
LEMMA TickInv ==
    ASSUME DiAssumption, DiInv, DiTick
    PROVE  DiInv'
<1>1. di \in Drives /\ UNCHANGED <<disc, diSeen, diDropped>>
  BY DEF DiInv, DiTick
<1>2. CASE di.cycles > 1
  <2>1. di' = [di EXCEPT !.cycles = @ - 1] /\ di.cycles - 1 \in Nat
    BY <1>1, <1>2 DEF DiTick, Drives
  <2>2. di' \in Drives /\ di'.drive = di.drive /\ di'.pending = di.pending
        /\ di'.intr = di.intr /\ di'.read = di.read /\ di'.tstart = di.tstart
    BY <1>1, <2>1 DEF Drives
  <2> QED BY <1>1, <2>2, RegistersInv
<1>3. CASE ~(di.cycles > 1)
  <2>1. di' = Completed(di)
    BY <1>3 DEF DiTick
  <2> DEFINE advanced == Smaller(di.mar + di.length, RamBlocks)
             moved    == IF di.intr = "TCINT"
                         THEN [di EXCEPT !.read = {}, !.mar = advanced, !.length = 0]
                         ELSE di
  <2>2. advanced \in Nat
    BY <1>1 DEF Smaller, Drives, DiAssumption
  <2> HIDE DEF advanced
  <2>3. di.read = {} \/ di.intr = "TCINT"
    BY DEF DiInv, DiOwnDisc, DiReadSound
  <2>4. moved \in Drives /\ moved.read = {} /\ moved.drive = di.drive
    BY <1>1, <2>2, <2>3 DEF Drives
  <2>5. di' = [moved EXCEPT !.pending = FALSE, !.cycles = 0, !.tstart = FALSE,
                            !.status = IF di.tstart THEN @ \cup {di.intr} ELSE @]
    BY <2>1 DEF Completed, advanced
  <2> HIDE DEF moved
  <2>6. di' \in Drives /\ di'.read = {} /\ di'.drive = di.drive /\ di'.tstart = FALSE
    BY <1>1, <2>4, <2>5 DEF Drives, DiStatus
  <2> QED BY <1>1, <2>6 DEF DiInv, DiOwnDisc, CoverRight, DiReadSound, DiIdentified,
                            DiStartMeans, DiscInside
<1> QED BY <1>2, <1>3

\* Every step of the guest, of time and of the host.
LEMMA DiNextInv ==
    ASSUME DiAssumption, DiInv, DiNext
    PROVE  DiInv'
<1>0. di \in Drives /\ disc \in Discs \cup {NoDisc} /\ DiscBlocks \in Nat
      /\ RamBlocks \in Nat /\ di.tstart \in BOOLEAN
  BY DEF DiInv, DiAssumption, Drives
<1>1. ASSUME NEW cmd \in Commands, NEW offset \in 0..DiscBlocks, NEW asked \in 0..DiscBlocks,
             NEW on \in BOOLEAN, NEW latency \in Latencies,
             DiCommand(cmd, offset, asked, on, latency)
      PROVE  DiInv'
  <2>1. offset \in Nat /\ asked \in Nat
    BY <1>0
  <2> QED BY <1>1, <2>1, CommandInv
<1>2. CASE DiStop
  <2>1. di' \in Drives /\ di'.drive = di.drive /\ di'.pending = di.pending
        /\ di'.intr = di.intr /\ di'.read = di.read /\ di'.tstart = FALSE
    BY <1>0, <1>2 DEF DiStop, Drives
  <2> QED BY <1>2, <2>1, RegistersInv DEF DiStop
<1>3. ASSUME NEW mar \in 0..RamBlocks, NEW length \in 0..DiscBlocks, DiSetDma(mar, length)
      PROVE  DiInv'
  <2>1. mar \in Nat /\ length \in Nat
    BY <1>0
  <2>2. di' \in Drives /\ di'.drive = di.drive /\ di'.pending = di.pending
        /\ di'.intr = di.intr /\ di'.read = di.read /\ di'.tstart = di.tstart
    BY <1>0, <1>3, <2>1 DEF DiSetDma, Drives
  <2> QED BY <1>3, <2>2, RegistersInv DEF DiSetDma
<1>4. ASSUME NEW reg \in {{"DEINT", "TCINT"}, {"CVRINT"}}, NEW masks, NEW clear,
             DiWriteStatus(reg, masks, clear)
      PROVE  DiInv'
  <2>1. reg \subseteq DiStatus /\ masks \subseteq reg
    BY <1>4 DEF DiWriteStatus, DiStatus
  <2>2. di' \in Drives /\ di'.drive = di.drive /\ di'.pending = di.pending
        /\ di'.intr = di.intr /\ di'.read = di.read /\ di'.tstart = di.tstart
    BY <1>0, <1>4, <2>1 DEF DiWriteStatus, Drives
  <2> QED BY <1>4, <2>2, RegistersInv DEF DiWriteStatus
<1>5. CASE DiSpinUp
  BY <1>0, <1>5, ResetInv DEF DiSpinUp
<1>6. CASE DiTick
  BY <1>6, TickInv
<1>7. ASSUME NEW d \in Discs \cup {NoDisc}, DiMount(d) PROVE DiInv'
  <2> DEFINE r == [di EXCEPT !.status = @ \cup {"CVRINT"}]
  <2>1. r \in Drives /\ r.tstart = di.tstart
    BY <1>0 DEF Drives, DiStatus
  <2>2. di' = ResetDrive(r, d, FALSE) \/ di' = ResetDrive(di, d, FALSE)
    BY <1>7 DEF DiMount
  <2>3. disc' = d /\ diDropped' = di.tstart
    BY <1>7 DEF DiMount
  <2> HIDE DEF r
  <2> QED BY <1>0, <2>1, <2>2, <2>3, ResetInv
<1> QED BY <1>1, <1>2, <1>3, <1>4, <1>5, <1>6, <1>7 DEF DiNext, DiGuest

-----------------------------------------------------------------------------
(***************************************************************************)
(* What a restart may lose. A file holds what the memory holds, or a save  *)
(* is under way, or one failed, or (the card) a selection is open: the     *)
(* card's flash changes only while the card is selected or is being        *)
(* deselected, and the deselection saves it (Kept, Clean). The channel of  *)
(* the card is the first one: the second powers up with a selection in its *)
(* CSR that was never begun, so that what a guest writes under it is not   *)
(* saved by the deselection.                                               *)
(***************************************************************************)

Channel == [status : SUBSET ExiBits, masks : SUBSET ExiBits, cs : Selects, prev : Selects,
            op : {"NONE"} \cup IplOps, cmd : BOOLEAN, pos : Nat]

Cards == [flash : [Sectors -> {"erased", "written"}], command : CardCommands,
          position : Nat, address : Sectors, switch : BOOLEAN, set : BOOLEAN,
          dirty : BOOLEAN]

ExiType ==
    /\ exi \in [Channels -> Channel] /\ card \in Cards
    /\ settings \in [Words -> Values]
    /\ settingsFile = Torn \/ settingsFile \in [Words -> Values]
    /\ cardFile = Torn \/ cardFile \in [Sectors -> {"erased", "written"}]

\* The selection in the CSR of the card's channel is the one that was begun.
SelectionBegun(x) == x[0].cs = x[0].prev

SettingsKept ==
    \/ settingsFile = settings
    \/ saving = "settings" \/ "settings" \in unsaved \/ "settings" \notin files

CardSafe ==
    \/ cardFile = card.flash
    \/ saving = "card" \/ "card" \in unsaved \/ "card" \notin files

Kept == CardSafe \/ exi[0].prev = 1

\* A card without changes is in its file, selected or not.
Clean == ~card.dirty => CardSafe

ExiInv == ExiType /\ SelectionBegun(exi) /\ SettingsKept /\ Kept /\ Clean

-----------------------------------------------------------------------------
(* The channels. *)

\* Registering the card's interrupt moves no selection.
LEMMA RegisteredKeeps ==
    ASSUME ExiAssumption, CardChannel = 0, NEW x \in [Channels -> Channel], NEW c
    PROVE  /\ Registered(x, c) \in [Channels -> Channel]
           /\ Registered(x, c)[0].cs = x[0].cs /\ Registered(x, c)[0].prev = x[0].prev
  BY DEF ExiAssumption, Registered, Channel, ExiBits

\* Nor does the end of a transfer.
LEMMA TransferredKeeps ==
    ASSUME ExiAssumption, NEW x \in [Channels -> Channel], NEW ch \in Channels,
           NEW done \in BOOLEAN
    PROVE  /\ Transferred(x, ch, done) \in [Channels -> Channel]
           /\ Transferred(x, ch, done)[0].cs = x[0].cs
           /\ Transferred(x, ch, done)[0].prev = x[0].prev
  BY DEF ExiAssumption, Transferred, Channel, ExiBits

\* A CSR write begins the selection it writes.
LEMMA CsrWrittenBegins ==
    ASSUME ExiAssumption, NEW x \in [Channels -> Channel], SelectionBegun(x), NEW ch \in Channels,
           NEW masks \in SUBSET ExiBits, NEW cs \in Selects, NEW clear
    PROVE  LET y == CsrWritten(x, ch, masks, cs, clear)
           IN  /\ y \in [Channels -> Channel] /\ SelectionBegun(y)
               /\ y[0].prev = IF ch = 0 THEN cs ELSE x[0].prev
<1> DEFINE set == [x[ch] EXCEPT !.masks = masks, !.cs = cs, !.status = @ \ clear]
           moved == [set EXCEPT !.prev = cs, !.op = "NONE", !.cmd = FALSE, !.pos = 0]
           y == CsrWritten(x, ch, masks, cs, clear)
<1>1. x[ch] \in Channel /\ 0 \in Channels
  BY DEF ExiAssumption
<1>2. set \in Channel /\ set.cs = cs /\ set.prev = x[ch].prev
  BY <1>1 DEF Channel
<1>3. y = IF cs = set.prev THEN [x EXCEPT ![ch] = set] ELSE [x EXCEPT ![ch] = moved]
  BY DEF CsrWritten
<1> HIDE DEF set, y
<1>4. moved \in Channel /\ moved.cs = cs /\ moved.prev = cs
  BY <1>2 DEF Channel
<1> HIDE DEF moved
<1>5. y \in [Channels -> Channel]
  BY <1>2, <1>3, <1>4
<1>6. y[0] = IF ch # 0 THEN x[0] ELSE IF cs = set.prev THEN set ELSE moved
  BY <1>1, <1>3
<1>7. SelectionBegun(y) /\ y[0].prev = IF ch = 0 THEN cs ELSE x[0].prev
  BY <1>2, <1>4, <1>6 DEF SelectionBegun
<1> QED BY <1>5, <1>7 DEF y

-----------------------------------------------------------------------------
(* The card. *)

\* A byte of a command changes no flash.
LEMMA CardByteKeeps ==
    ASSUME NEW c \in Cards, NEW command \in CardCommands, NEW sector \in Sectors,
           NEW on \in BOOLEAN
    PROVE  LET d == CardByte(c, command, sector, on)
           IN  d \in Cards /\ d.flash = c.flash /\ d.dirty = c.dirty
<1> DEFINE d == CardByte(c, command, sector, on)
<1>1. CASE c.position = 0
  <2>1. d = [c EXCEPT !.command = command, !.position = 1,
                      !.set = IF command = "CLEAR_STATUS" THEN FALSE ELSE @]
    BY <1>1 DEF CardByte
  <2> HIDE DEF d
  <2>2. d \in Cards /\ d.flash = c.flash /\ d.dirty = c.dirty
    BY <2>1 DEF Cards
  <2> QED BY <2>2 DEF d
<1>2. CASE c.position # 0
  <2>1. PICK position \in Nat, address \in Sectors, switch \in BOOLEAN :
            d = [c EXCEPT !.position = position, !.address = address, !.switch = switch]
    <3>1. Next1(c.position) \in Nat /\ c.address \in Sectors /\ c.switch \in BOOLEAN
      BY DEF Next1, Cards
    <3> QED BY <1>2, <3>1 DEF CardByte
  <2> HIDE DEF d
  <2>2. d \in Cards /\ d.flash = c.flash /\ d.dirty = c.dirty
    BY <2>1 DEF Cards
  <2> QED BY <2>2 DEF d
<1> QED BY <1>1, <1>2

\* A card that is selected or deselected is changed only with its dirty flag up.
LEMMA SetCsKeeps ==
    ASSUME NEW c \in Cards, NEW selected \in BOOLEAN
    PROVE  LET d == SetCs(c, selected)
           IN  /\ d \in Cards
               /\ d.flash = c.flash \/ d.dirty
               /\ c.dirty => d.dirty
<1>1. CASE selected
  BY <1>1 DEF SetCs, Cards
<1>2. CASE ~selected /\ c.command = "SECTOR_ERASE"
  BY <1>2 DEF SetCs, Deselected, Cards
<1>3. CASE ~selected /\ c.command = "CHIP_ERASE"
  BY <1>3 DEF SetCs, Deselected, Cards, Blank
<1>4. CASE ~selected /\ c.command = "PAGE_PROGRAM"
  BY <1>4 DEF SetCs, Deselected, Cards
<1>5. CASE ~selected /\ c.command \notin {"SECTOR_ERASE", "CHIP_ERASE", "PAGE_PROGRAM"}
  BY <1>5 DEF SetCs, Deselected, Complete
<1> QED BY <1>1, <1>2, <1>3, <1>4, <1>5

\* A save that nobody asked for a file of only lowers the flag.
LEMMA CleanedKeeps ==
    ASSUME NEW c \in Cards
    PROVE  [c EXCEPT !.dirty = FALSE] \in Cards /\ [c EXCEPT !.dirty = FALSE].flash = c.flash
  BY DEF Cards

\* A DMA changes it with its dirty flag up too.
LEMMA CardDmaKeeps ==
    ASSUME NEW c \in Cards
    PROVE  CardDma(c) \in Cards /\ CardDma(c).dirty
  BY DEF CardDma, Cards

-----------------------------------------------------------------------------
(* The steps. *)

\* No function over the words is the torn file.
LEMMA SettingsWhole ==
    ASSUME ExiAssumption, NEW s \in [Words -> Values]
    PROVE  s # Torn
<1>1. 0 \in DOMAIN s
  BY DEF ExiAssumption, Words
<1>2. DOMAIN Torn = {}
  BY DEF Torn
<1> QED BY <1>1, <1>2

\* The seed: no file, a fresh card, nothing unsaved.
LEMMA ExiInitInv ==
    ASSUME ExiAssumption, CardAssumption, CardChannel = 0, ExiInit
    PROVE  ExiInv
<1>1. exi \in [Channels -> Channel] /\ SelectionBegun(exi)
  BY DEF ExiInit, ExiAssumption, ChannelInit, Channel, ExiBits, Selects, SelectionBegun
<1>2. Fixture \in [Words -> Values] /\ Formatted \in [Sectors -> {"erased", "written"}]
  BY DEF ExiAssumption, Fixture, Formatted
<1>3. card \in Cards /\ card.flash = Formatted
  BY <1>2 DEF ExiInit, CardInit, Cards, CardCommands, CardAssumption
<1> QED BY <1>1, <1>2, <1>3 DEF ExiInit, ExiInv, ExiType, SettingsKept, Kept, Clean, CardSafe

\* What follows from a step that evaluates the line and touches no settings and no file.
LEMMA EvaluateInv ==
    ASSUME ExiAssumption, CardChannel = 0, ExiInv, NEW x \in [Channels -> Channel],
           SelectionBegun(x), NEW c \in Cards,
           Evaluate(x, c), card' = c,
           UNCHANGED <<settings, settingsFile, cardFile, saving, files, unsaved>>,
           \/ c.flash = card.flash /\ c.dirty = card.dirty /\ x[0].prev = exi[0].prev
           \/ c.dirty /\ x[0].prev = 1
           \/ c = card /\ ~card.dirty
    PROVE  ExiInv'
<1>1. exi' \in [Channels -> Channel] /\ SelectionBegun(exi') /\ exi'[0].prev = x[0].prev
  BY RegisteredKeeps DEF Evaluate, SelectionBegun
<1>2. SettingsKept'
  BY DEF ExiInv, SettingsKept
<1>3. Kept' /\ Clean'
  BY <1>1 DEF ExiInv, Kept, Clean, CardSafe
<1> QED BY <1>1, <1>2, <1>3 DEF ExiInv, ExiType

\* A write of a CSR that is not the card's own moves no selection of the card.
LEMMA WriteCsrInv ==
    ASSUME ExiAssumption, CardChannel = 0, ExiInv, saving = "none",
           NEW ch \in Channels, NEW masks \in SUBSET ExiBits, NEW cs \in Selects, NEW clear,
           ExiWriteCsr(ch, masks, cs, clear)
    PROVE  ExiInv'
<1> DEFINE x == CsrWritten(exi, ch, masks, cs, clear)
           c == IF ch = CardChannel THEN CardSelected(card, exi[ch].prev, cs) ELSE card
           flush == ch = CardChannel /\ Flush(card, c, exi[ch].prev, cs)
<1>0. exi \in [Channels -> Channel] /\ card \in Cards
  BY DEF ExiInv, ExiType
<1>1. x \in [Channels -> Channel] /\ SelectionBegun(x)
      /\ x[0].prev = IF ch = 0 THEN cs ELSE exi[0].prev
  BY <1>0, CsrWrittenBegins DEF ExiInv
<1>2. /\ c \in Cards
      /\ c.flash = card.flash \/ c.dirty
      /\ card.dirty => c.dirty
      /\ c # card => ch = 0 /\ (exi[0].prev = 1 \/ cs = 1)
  <2>1. CASE ch = CardChannel /\ (exi[ch].prev = 1) # (cs = 1)
    <3>1. c = SetCs(card, cs = 1) /\ (cs = 1) \in BOOLEAN
      BY <2>1 DEF CardSelected
    <3> HIDE DEF c
    <3> QED BY <1>0, <2>1, <3>1, SetCsKeeps
  <2>2. CASE ~(ch = CardChannel /\ (exi[ch].prev = 1) # (cs = 1))
    <3>1. c = card
      BY <2>2 DEF CardSelected
    <3> HIDE DEF c
    <3> QED BY <1>0, <3>1
  <2> QED BY <2>1, <2>2
<1>3. flush <=> ch = 0 /\ exi[0].prev = 1 /\ cs # 1 /\ c.dirty
  BY DEF Flush
<1>4. /\ card' = IF flush /\ "card" \notin files THEN [c EXCEPT !.dirty = FALSE] ELSE c
      /\ IF flush /\ "card" \in files
         THEN \/ /\ cardFile' = Torn /\ saving' = "card" /\ exi' = x
                 /\ UNCHANGED unsaved
              \/ /\ unsaved' = unsaved \cup {"card"} /\ Evaluate(x, c)
                 /\ UNCHANGED <<cardFile, saving>>
         ELSE Evaluate(x, c) /\ UNCHANGED <<cardFile, saving, unsaved>>
      /\ UNCHANGED <<settings, settingsFile, files>>
  BY DEF ExiWriteCsr
<1> HIDE DEF x, c, flush
<1>5. exi' \in [Channels -> Channel] /\ SelectionBegun(exi') /\ exi'[0].prev = x[0].prev
  <2>1. Evaluate(x, c) \/ exi' = x
    BY <1>4
  <2> QED BY <1>1, <2>1, RegisteredKeeps DEF Evaluate, SelectionBegun
<1>6. card' \in Cards /\ card'.flash = c.flash /\ (card'.dirty = c.dirty \/ "card" \notin files)
  <2> DEFINE n == [c EXCEPT !.dirty = FALSE]
  <2>0. c \in Cards
    BY <1>2
  <2>1. n \in Cards /\ n.flash = c.flash
    BY <2>0, CleanedKeeps
  <2>2. CASE flush /\ "card" \notin files
    <3>1. card' = n
      BY <1>4, <2>2
    <3> HIDE DEF n
    <3> QED BY <2>1, <2>2, <3>1
  <2>3. CASE ~(flush /\ "card" \notin files)
    <3>1. card' = c
      BY <1>4, <2>3
    <3> QED BY <2>0, <3>1
  <2> QED BY <2>2, <2>3
<1>7. SettingsKept'
  BY <1>4 DEF ExiInv, SettingsKept
<1>8. CASE "card" \notin files \/ (flush /\ "card" \in files)
  BY <1>4, <1>5, <1>6, <1>7, <1>8 DEF ExiInv, ExiType, Kept, Clean, CardSafe
<1>9. CASE "card" \in files /\ ~flush
  <2>1. card' = c /\ UNCHANGED <<cardFile, saving, unsaved, files>>
    BY <1>4, <1>9
  <2>2. exi'[0].prev = 1 \/ exi'[0].prev = exi[0].prev \/ c = card \/ ~c.dirty
    BY <1>1, <1>2, <1>3, <1>5, <1>9
  <2>3. Clean'
    BY <1>2, <2>1 DEF ExiInv, Clean, CardSafe
  <2>4. Kept'
    BY <1>1, <1>2, <1>3, <1>5, <1>9, <2>1, <2>2 DEF ExiInv, Kept, Clean, CardSafe
  <2> QED BY <1>4, <1>5, <1>6, <1>7, <2>1, <2>3, <2>4 DEF ExiInv, ExiType
<1> QED BY <1>8, <1>9

\* A save of the card ends, well or badly.
LEMMA CardSavedInv ==
    ASSUME ExiAssumption, CardChannel = 0, ExiInv, CardSaved
    PROVE  ExiInv'
<1>0. exi \in [Channels -> Channel] /\ SelectionBegun(exi) /\ card \in Cards
  BY DEF ExiInv, ExiType
<1>1. exi' \in [Channels -> Channel] /\ SelectionBegun(exi')
  BY <1>0, RegisteredKeeps DEF CardSaved, Evaluate, SelectionBegun
<1>2. SettingsKept' /\ UNCHANGED <<settings, settingsFile, files>>
  BY DEF CardSaved, ExiInv, SettingsKept
<1>3. CASE cardFile' = card.flash /\ card' = [card EXCEPT !.dirty = FALSE]
  <2>1. card' \in Cards /\ card'.flash = card.flash
    BY <1>0, <1>3, CleanedKeeps
  <2>2. cardFile' \in [Sectors -> {"erased", "written"}]
    BY <1>0, <1>3 DEF Cards
  <2> QED BY <1>1, <1>2, <1>3, <2>1, <2>2 DEF ExiInv, ExiType, Kept, Clean, CardSafe
<1>4. CASE unsaved' = unsaved \cup {"card"} /\ UNCHANGED <<card, cardFile>>
  BY <1>1, <1>2, <1>4 DEF ExiInv, ExiType, Kept, Clean, CardSafe
<1> QED BY <1>3, <1>4 DEF CardSaved

\* A save of the settings ends, well or badly.
LEMMA SettingsSavedInv ==
    ASSUME ExiAssumption, CardChannel = 0, ExiInv, SettingsSaved
    PROVE  ExiInv'
<1> DEFINE x == Transferred(exi, 0, TRUE)
<1>0. exi \in [Channels -> Channel] /\ SelectionBegun(exi) /\ 0 \in Channels
  BY DEF ExiInv, ExiType, ExiAssumption
<1>1. x \in [Channels -> Channel] /\ x[0].cs = exi[0].cs /\ x[0].prev = exi[0].prev
  BY <1>0, TransferredKeeps
<1>2. Evaluate(x, card) /\ UNCHANGED <<settings, card, cardFile, files>>
      /\ saving = "settings" /\ saving' = "none"
      /\ \/ settingsFile' = settings /\ unsaved' = unsaved \ {"settings"}
         \/ unsaved' = unsaved \cup {"settings"} /\ UNCHANGED settingsFile
  BY DEF SettingsSaved
<1> HIDE DEF x
<1>3. exi' \in [Channels -> Channel] /\ SelectionBegun(exi') /\ exi'[0].prev = exi[0].prev
  BY <1>0, <1>1, <1>2, RegisteredKeeps DEF Evaluate, SelectionBegun
<1>4. Kept' /\ Clean'
  BY <1>2, <1>3 DEF ExiInv, Kept, Clean, CardSafe
<1>5. SettingsKept' /\ ExiType'
  BY <1>2, <1>3 DEF ExiInv, ExiType, SettingsKept
<1> QED BY <1>3, <1>4, <1>5 DEF ExiInv

\* A step of the settings that evaluates the line of channels that moved no selection.
LEMMA TransferInv ==
    ASSUME ExiAssumption, CardChannel = 0, ExiInv, NEW x \in [Channels -> Channel],
           x[0].cs = exi[0].cs, x[0].prev = exi[0].prev, NEW ch \in Channels,
           Evaluate(Transferred(x, ch, TRUE), card),
           UNCHANGED <<card, cardFile, saving, files>>, settings' \in [Words -> Values],
           settingsFile' = settingsFile, SettingsKept', "card" \in unsaved => "card" \in unsaved'
    PROVE  ExiInv'
<1> DEFINE y == Transferred(x, ch, TRUE)
<1>1. y \in [Channels -> Channel] /\ y[0].cs = exi[0].cs /\ y[0].prev = exi[0].prev
  BY TransferredKeeps
<1> HIDE DEF y
<1>2. exi' \in [Channels -> Channel] /\ SelectionBegun(exi') /\ exi'[0].prev = exi[0].prev
  BY <1>1, RegisteredKeeps DEF Evaluate, SelectionBegun, ExiInv, y
<1> QED BY <1>2 DEF ExiInv, ExiType, Kept, Clean, CardSafe

\* The command word and the data words of the clock and the settings.
LEMMA IplInv ==
    ASSUME ExiAssumption, CardChannel = 0, ExiInv, saving = "none",
           \/ \E op \in IplOps : IplCommand(op)
           \/ \E v \in Values : IplData(v)
    PROVE  ExiInv'
<1>0. exi \in [Channels -> Channel] /\ 0 \in Channels /\ settings \in [Words -> Values]
  BY DEF ExiInv, ExiType, ExiAssumption
<1>1. ASSUME NEW op \in IplOps, IplCommand(op) PROVE ExiInv'
  <2> DEFINE x == [exi EXCEPT ![0].cmd = TRUE, ![0].op = op, ![0].pos = 0]
  <2>1. x \in [Channels -> Channel] /\ x[0].cs = exi[0].cs /\ x[0].prev = exi[0].prev
    BY <1>0 DEF Channel
  <2>2. Evaluate(Transferred(x, 0, TRUE), card)
        /\ UNCHANGED <<settings, settingsFile, card, cardFile, saving, files, unsaved>>
    BY <1>1 DEF IplCommand
  <2>3. SettingsKept'
    BY <2>2 DEF ExiInv, SettingsKept
  <2> HIDE DEF x
  <2> QED BY <1>0, <2>1, <2>2, <2>3, TransferInv
<1>2. ASSUME NEW v \in Values, IplData(v) PROVE ExiInv'
  <2> DEFINE x == IF exi[0].op = "SRAM_WRITE" /\ exi[0].pos < SramWords
                  THEN [exi EXCEPT ![0].pos = @ + 1] ELSE exi
  <2>1. x \in [Channels -> Channel] /\ x[0].cs = exi[0].cs /\ x[0].prev = exi[0].prev
    BY <1>0 DEF Channel
  <2>2. settings' \in [Words -> Values]
    BY <1>0, <1>2 DEF IplData, Stored
  <2>3. UNCHANGED <<card, cardFile, files>>
        /\ \/ /\ settingsFile' = Torn /\ saving' = "settings" /\ exi' = x
              /\ UNCHANGED unsaved
           \/ /\ unsaved' = unsaved \cup (files \cap {"settings"})
              /\ Evaluate(Transferred(x, 0, TRUE), card)
              /\ UNCHANGED <<settingsFile, saving>>
    BY <1>2 DEF IplData
  <2> HIDE DEF x
  <2>5. CASE settingsFile' = Torn /\ saving' = "settings" /\ exi' = x /\ UNCHANGED unsaved
    <3>1. exi' \in [Channels -> Channel] /\ SelectionBegun(exi') /\ exi'[0].prev = exi[0].prev
      BY <2>1, <2>5 DEF ExiInv, SelectionBegun
    <3>2. SettingsKept'
      BY <2>5 DEF SettingsKept
    <3> QED BY <2>2, <2>3, <2>5, <3>1, <3>2 DEF ExiInv, ExiType, Kept, Clean, CardSafe
  <2>6. CASE /\ unsaved' = unsaved \cup (files \cap {"settings"})
             /\ Evaluate(Transferred(x, 0, TRUE), card)
             /\ UNCHANGED <<settingsFile, saving>>
    <3>1. SettingsKept'
      BY <2>3, <2>6 DEF SettingsKept
    <3> QED BY <1>0, <2>1, <2>2, <2>3, <2>6, <3>1, TransferInv
  <2> QED BY <2>3, <2>5, <2>6
<1> QED BY <1>1, <1>2

\* A transfer with the card, or with nobody.
LEMMA CardTransferInv ==
    ASSUME ExiAssumption, CardChannel = 0, ExiInv,
           \/ \E command \in CardCommands, sector \in Sectors, on \in BOOLEAN :
                 CardTransfer(command, sector, on)
           \/ \E write \in BOOLEAN : CardDmaTransfer(write)
           \/ \E ch \in Channels : OtherTransfer(ch)
    PROVE  ExiInv'
<1>0. exi \in [Channels -> Channel] /\ 0 \in Channels /\ card \in Cards
      /\ SelectionBegun(exi) /\ settings \in [Words -> Values] /\ SettingsKept
  BY DEF ExiInv, ExiType, ExiAssumption
<1>1. ASSUME NEW command \in CardCommands, NEW sector \in Sectors, NEW on \in BOOLEAN,
             CardTransfer(command, sector, on)
      PROVE  ExiInv'
  <2> DEFINE c == CardByte(card, command, sector, on)
  <2>1. c \in Cards /\ c.flash = card.flash /\ c.dirty = card.dirty
    BY <1>0, CardByteKeeps
  <2>2. Evaluate(exi, c) /\ card' = c
        /\ UNCHANGED <<settings, settingsFile, cardFile, saving, files, unsaved>>
    BY <1>1 DEF CardTransfer
  <2> HIDE DEF c
  <2> QED BY <1>0, <2>1, <2>2, EvaluateInv
<1>2. ASSUME NEW write \in BOOLEAN, CardDmaTransfer(write) PROVE ExiInv'
  <2> DEFINE c == IF write THEN CardDma(card) ELSE card
             x == Transferred(exi, 0, TRUE)
  <2>1. x \in [Channels -> Channel] /\ x[0].cs = exi[0].cs /\ x[0].prev = exi[0].prev
    BY <1>0, TransferredKeeps
  <2>2. exi[0].prev = 1
    BY <1>0, <1>2 DEF CardDmaTransfer, SelectionBegun
  <2>3. CASE write
    <3>1. c \in Cards /\ c.dirty
      BY <1>0, <2>3, CardDmaKeeps
    <3>2. Evaluate(x, c) /\ card' = c
          /\ UNCHANGED <<settings, settingsFile, cardFile, saving, files, unsaved>>
      BY <1>2 DEF CardDmaTransfer
    <3> HIDE DEF c, x
    <3> QED BY <1>0, <2>1, <2>2, <3>1, <3>2, EvaluateInv DEF SelectionBegun
  <2>4. CASE ~write
    <3>1. Evaluate(x, card) /\ card' = card
          /\ UNCHANGED <<settings, settingsFile, cardFile, saving, files, unsaved>>
      BY <1>2, <2>4 DEF CardDmaTransfer
    <3> HIDE DEF x
    <3> QED BY <1>0, <2>1, <3>1, EvaluateInv DEF SelectionBegun
  <2> QED BY <2>3, <2>4
<1>3. ASSUME NEW ch \in Channels, OtherTransfer(ch) PROVE ExiInv'
  <2>1. Evaluate(Transferred(exi, ch, TRUE), card)
        /\ UNCHANGED <<settings, settingsFile, card, cardFile, saving, files, unsaved>>
    BY <1>3 DEF OtherTransfer
  <2>2. SettingsKept'
    BY <1>0, <2>1 DEF SettingsKept
  <2> QED BY <1>0, <2>1, <2>2, TransferInv
<1> QED BY <1>1, <1>2, <1>3

\* A clean shutdown, of which the files may be left torn or as they were.
LEMMA ShutdownInv ==
    ASSUME ExiAssumption, ExiInv, ExiShutdown
    PROVE  ExiInv'
<1>1. saving = "none" /\ UNCHANGED <<exi, settings, card, files>>
  BY DEF ExiShutdown
<1>2. SettingsKept' /\ (settingsFile' = Torn \/ settingsFile' \in [Words -> Values])
  <2>1. CASE "settings" \in files
    BY <1>1, <2>1 DEF ExiShutdown, SettingsKept, ExiInv, ExiType
  <2>2. CASE "settings" \notin files
    BY <1>1, <2>2 DEF ExiShutdown, SettingsKept, ExiInv, ExiType
  <2> QED BY <2>1, <2>2
<1>3. CardSafe' /\ (cardFile' = Torn \/ cardFile' \in [Sectors -> {"erased", "written"}])
  <2>1. CASE "card" \in files /\ card.dirty
    BY <1>1, <2>1 DEF ExiShutdown, CardSafe, ExiInv, ExiType, Cards
  <2>2. CASE "card" \in files /\ ~card.dirty
    BY <1>1, <2>2 DEF ExiShutdown, CardSafe, Clean, ExiInv, ExiType
  <2>3. CASE "card" \notin files
    BY <1>1, <2>3 DEF ExiShutdown, CardSafe, ExiInv, ExiType
  <2> QED BY <2>1, <2>2, <2>3
<1> QED BY <1>1, <1>2, <1>3 DEF ExiInv, ExiType, Kept, Clean

\* Boot again, from what the files hold.
LEMMA RestartInv ==
    ASSUME ExiAssumption, CardAssumption, CardChannel = 0, ExiInv, ExiRestart
    PROVE  ExiInv'
<1>1. exi' \in [Channels -> Channel] /\ SelectionBegun(exi')
  BY DEF ExiRestart, ExiAssumption, ChannelInit, Channel, ExiBits, Selects, SelectionBegun
<1>2. Fixture \in [Words -> Values] /\ Formatted \in [Sectors -> {"erased", "written"}]
      /\ Blank \in [Sectors -> {"erased", "written"}]
  BY DEF ExiAssumption, Fixture, Formatted, Blank
<1>3. settings' \in [Words -> Values] /\ SettingsKept'
      /\ (settingsFile' = Torn \/ settingsFile' \in [Words -> Values])
  BY <1>2 DEF ExiRestart, ExiInv, ExiType, SettingsKept
<1>4. ASSUME NEW image \in [Sectors -> {"erased", "written"}]
      PROVE  CardInit(image) \in Cards /\ CardInit(image).flash = image
  BY DEF CardInit, Cards, CardCommands, CardAssumption
<1>5. CASE "card" \in files
  <2>1. PICK minted \in BOOLEAN, formatted \in BOOLEAN :
            /\ card' = CardInit(Mounted(cardFile, minted))
            /\ cardFile' = FileAfterBoot(cardFile, minted, formatted)
    BY <1>5 DEF ExiRestart
  <2>2. Mountable(cardFile) => cardFile # Torn
    BY DEF Mountable
  <2> DEFINE image == Mounted(cardFile, minted)
  <2>3. image \in [Sectors -> {"erased", "written"}]
    BY <1>2, <2>2 DEF Mounted, ExiInv, ExiType
  <2>4. cardFile' = image \/ cardFile' = Torn
    BY <2>1 DEF Mounted, FileAfterBoot
  <2>5. card' \in Cards /\ card'.flash = image
    BY <1>4, <2>1, <2>3
  <2> HIDE DEF image
  <2>6. CardSafe'
    BY <1>5, <2>4, <2>5 DEF ExiRestart, CardSafe
  <2>7. cardFile' = Torn \/ cardFile' \in [Sectors -> {"erased", "written"}]
    BY <2>3, <2>4
  <2> QED BY <1>1, <1>3, <2>5, <2>6, <2>7 DEF ExiInv, ExiType, Kept, Clean
<1>6. CASE "card" \notin files
  <2>1. card' = CardInit(Formatted) /\ cardFile' = cardFile /\ files' = files
    BY <1>6 DEF ExiRestart
  <2>2. CardSafe' /\ card' \in Cards
    BY <1>2, <1>4, <1>6, <2>1 DEF CardSafe
  <2> QED BY <1>1, <1>3, <2>1, <2>2 DEF ExiInv, ExiType, Kept, Clean
<1> QED BY <1>5, <1>6

\* Every step of the guest, of the host's file system and of the process.
LEMMA ExiNextInv ==
    ASSUME ExiAssumption, CardAssumption, CardChannel = 0, ExiInv,
           SettingsNext \/ CardNext \/ ExiEnd
    PROVE  ExiInv'
<1>1. ASSUME NEW ch \in Channels, NEW selects \in SUBSET Selects, NEW clears,
             ExiCsr(ch, selects, clears)
      PROVE  ExiInv'
  <2>1. saving = "none"
    BY <1>1 DEF ExiCsr
  <2>2. PICK masks \in {{}, ExiBits}, cs \in selects, clear \in clears :
            ExiWriteCsr(ch, masks, cs, clear)
    BY <1>1 DEF ExiCsr
  <2>3. masks \in SUBSET ExiBits /\ cs \in Selects
    OBVIOUS
  <2> QED BY <2>1, <2>2, <2>3, WriteCsrInv
<1>2. 0 \in Channels /\ {0, 2} \in SUBSET Selects /\ {0, 1} \in SUBSET Selects
  BY DEF ExiAssumption, Selects
<1>3. CASE SettingsNext
  BY <1>1, <1>2, <1>3, IplInv, CardTransferInv, SettingsSavedInv DEF SettingsNext
<1>4. CASE CardNext
  BY <1>1, <1>2, <1>4, CardTransferInv, CardSavedInv DEF CardNext
<1>5. CASE ExiEnd
  BY <1>5, ShutdownInv, RestartInv DEF ExiEnd
<1> QED BY <1>3, <1>4, <1>5

\* A restart gives back what was saved.
LEMMA RestartKeeps ==
    ASSUME ExiAssumption, CardChannel = 0, ExiInv, ExiRestart
    PROVE  KeepsSettings /\ KeepsCard
<1>1. KeepsSettings
  <2>1. settings # Torn
    BY SettingsWhole DEF ExiInv, ExiType
  <2> QED BY <2>1 DEF ExiRestart, KeepsSettings, ExiInv, SettingsKept
<1>2. KeepsCard
  <2>1. SUFFICES ASSUME "card" \in files, saving # "card", "card" \notin unsaved,
                        exi[CardChannel].prev # 1, Mountable(card.flash)
                 PROVE  card'.flash = card.flash
    BY DEF KeepsCard
  <2>2. cardFile = card.flash
    BY <2>1 DEF ExiInv, Kept, CardSafe
  <2>3. card' = CardInit(card.flash)
    BY <2>1, <2>2 DEF ExiRestart, Mounted
  <2> QED BY <2>3 DEF CardInit
<1> QED BY <1>1, <1>2

-----------------------------------------------------------------------------
(***************************************************************************)
(* Types. What the invariants above do not say of them: the registers of   *)
(* the DSP's interface, of the serial interface and the beam, of the FIFO  *)
(* and the pixel engine, of the channels, and the bounds of the drive's.   *)
(***************************************************************************)

DspTyped ==
    /\ dsp \in [int : SUBSET DspBits, masks : SUBSET DspBits, asks : BOOLEAN, dma : BOOLEAN,
                left : Nat]
    /\ dsp.dma <=> dsp.left > 0
    /\ aid \in [source : Nat, on : BOOLEAN, blocks : 0..MaxBlocks, at : Nat,
                left : 0..MaxBlocks, starting : BOOLEAN]

\* Nothing runs at power-on (gcn_dsp_init).
LEMMA DspInitTyped ==
    ASSUME DspAssumption, DspInit
    PROVE  DspTyped
  BY DEF DspAssumption, DspInit, DspTyped, DspBits

\* Every step of the guest, the core and time; the countdowns stop at zero.
LEMMA DspNextTyped ==
    ASSUME DspAssumption, DspTyped, DspNext
    PROVE  DspTyped'
<1> DEFINE DspRecords == [int : SUBSET DspBits, masks : SUBSET DspBits, asks : BOOLEAN,
                          dma : BOOLEAN, left : Nat]
           Sound(d) == d \in DspRecords /\ (d.dma <=> d.left > 0)
           AidRecords == [source : Nat, on : BOOLEAN, blocks : 0..MaxBlocks, at : Nat,
                          left : 0..MaxBlocks, starting : BOOLEAN]
<1>1. Sound(dsp) /\ aid \in AidRecords /\ MaxBlocks \in Nat
  BY DEF DspTyped, DspAssumption
<1>2. ASSUME NEW d, Sound(d) PROVE Sound(Latched(d))
  BY <1>2 DEF Latched, DspBits
<1>3. ASSUME NEW d, Sound(d) PROVE Sound(AramAdvanced(d))
  <2>1. CASE d.dma /\ d.left > 1
    <3>1. d.left - 1 \in Nat /\ d.left - 1 > 0
      BY <1>3, <2>1
    <3>2. AramAdvanced(d) = [d EXCEPT !.left = @ - 1]
      BY <2>1 DEF AramAdvanced
    <3> QED BY <1>3, <2>1, <3>1, <3>2
  <2>2. CASE ~(d.dma /\ d.left > 1)
    <3>1. AramAdvanced(d) = IF ~d.dma THEN d
                            ELSE [d EXCEPT !.dma = FALSE, !.left = 0, !.int = @ \cup {"AR"}]
      BY <2>2 DEF AramAdvanced
    <3>2. [d EXCEPT !.dma = FALSE, !.left = 0, !.int = @ \cup {"AR"}] \in DspRecords
      BY <1>3 DEF DspBits
    <3> QED BY <1>3, <3>1, <3>2
  <2> QED BY <2>1, <2>2
<1>4. ASSUME NEW d, Sound(d), NEW raised \in SUBSET DspBits
      PROVE  Sound([d EXCEPT !.int = raised])
  BY <1>4
<1>5. Loaded(aid) \in AidRecords /\ Advanced(aid) \in AidRecords
  <2>1. aid.left # 0 => aid.left - 1 \in 0..MaxBlocks /\ aid.at + 1 \in Nat
    BY <1>1
  <2> QED BY <1>1, <2>1 DEF Loaded, Advanced
<1>6. CASE CoreAsks \/ DspReadCsr
  BY <1>1, <1>2, <1>6 DEF CoreAsks, DspReadCsr, DspTyped
<1>7. ASSUME NEW ran, NEW masks \in SUBSET DspBits, NEW clear, DspWriteCsr(ran, masks, clear)
      PROVE  DspTyped'
  <2>1. PICK d : Sound(d) /\ dsp' = [d EXCEPT !.int = @ \ clear, !.masks = masks]
    BY <1>1, <1>2, <1>7 DEF DspWriteCsr
  <2> QED BY <1>1, <1>7, <2>1 DEF DspWriteCsr, DspTyped
<1>8. ASSUME NEW ticks \in AramTicks, AramKick(ticks) PROVE DspTyped'
  <2>1. ticks \in Nat /\ ticks > 0
    BY DEF DspAssumption
  <2> QED BY <1>1, <1>8, <2>1 DEF AramKick, DspTyped
<1>9. ASSUME NEW source \in Sources, AidWriteStart(source) PROVE DspTyped'
  BY <1>1, <1>9 DEF AidWriteStart, DspTyped, DspAssumption
<1>10. ASSUME NEW on \in BOOLEAN, NEW blocks \in 0..MaxBlocks, AidWriteControl(on, blocks)
       PROVE  DspTyped'
  BY <1>1, <1>10 DEF AidWriteControl, Loaded, DspTyped
<1>11. ASSUME NEW period \in BOOLEAN, DspTick(period) PROVE DspTyped'
  <2>1. PICK a \in AidRecords : aid' = [a EXCEPT !.starting = FALSE]
    BY <1>1, <1>5, <1>11 DEF DspTick
  <2>2. aid' \in AidRecords
    BY <2>1
  <2> DEFINE base == AramAdvanced(Latched(dsp))
  <2>3. Sound(base)
    BY <1>1, <1>2, <1>3
  <2>4. PICK raised : /\ raised \in {base.int, base.int \cup {"AID"}}
                      /\ dsp' = [base EXCEPT !.int = raised]
    BY <1>11 DEF DspTick
  <2> HIDE DEF base
  <2>5. raised \in SUBSET DspBits
    BY <2>3, <2>4 DEF DspBits
  <2>6. Sound(dsp')
    BY <1>4, <2>3, <2>4, <2>5
  <2> QED BY <2>2, <2>6 DEF DspTyped
<1> QED BY <1>6, <1>7, <1>8, <1>9, <1>10, <1>11 DEF DspNext, DspBits

-----------------------------------------------------------------------------
SiRecords == [rdst : SUBSET Connected, norep : SUBSET (Ports \ Connected), tcint : BOOLEAN,
              masks : SUBSET {"RDST", "TC"}, period : PollPeriods, next : Nat]

ViRecords == [half : 0..FrameMax, odd : FieldLengths, even : FieldLengths,
              at : [Displays -> 0..Nowhere], int : SUBSET Displays, masked : SUBSET Displays]

BeamTyped == si \in SiRecords /\ vi \in ViRecords /\ sincePoll \in Nat

\* The longest period and the longest field there are.
LEMMA Longests ==
    ASSUME SiAssumption, ViAssumption
    PROVE  /\ Periodic \in PollPeriods /\ Longest \in FieldLengths /\ Longest \in Nat
           /\ \A y \in FieldLengths : y \in Nat /\ y <= Longest
           /\ FrameMax \in Nat /\ FrameMax = 2 * Longest /\ Nowhere = FrameMax
           /\ 0 \in 0..FrameMax /\ 0 \in 0..Nowhere /\ Nowhere \in 0..Nowhere
<1>1. Periodic \in PollPeriods
  BY DEF SiAssumption, Periodic
<1>2. Longest \in FieldLengths /\ \A y \in FieldLengths : y <= Longest
  BY DEF ViAssumption, Longest
<1>3. FieldLengths \subseteq Nat
  BY DEF ViAssumption
<1>4. Longest \in Nat
  BY <1>2, <1>3
<1>5. FrameMax = 2 * Longest /\ Nowhere = 2 * Longest
  BY DEF FrameMax, Nowhere
<1>6. FrameMax \in Nat /\ Nowhere = FrameMax
  BY <1>4, <1>5
<1> QED BY <1>1, <1>2, <1>3, <1>4, <1>5, <1>6

\* The schedule and the beam at power-on (gcn_si_init, gcn_vi_init).
LEMMA BeamInitTyped ==
    ASSUME SiAssumption, ViAssumption, SiInit, ViInit
    PROVE  BeamTyped
<1>1. si \in SiRecords
  BY Longests DEF SiInit, SiRecords, SiAssumption
<1>2. vi \in ViRecords
  BY Longests DEF ViInit, ViStart, ViRecords
<1> QED BY <1>1, <1>2 DEF BeamTyped, ViInit

\* What the guest does with the controllers.
LEMMA SiNextTyped ==
    ASSUME SiAssumption, BeamTyped, UNCHANGED <<vi, sincePoll>>,
           SiNext \/ SiTransfers(Connected)
    PROVE  BeamTyped'
<1>1. si \in SiRecords
  BY DEF BeamTyped
<1>2. ASSUME NEW n, SiReadReport(n) PROVE si' \in SiRecords
  BY <1>1, <1>2 DEF SiReadReport, SiRecords
<1>3. ASSUME NEW masks \in {{}, {"RDST", "TC"}}, NEW ack \in BOOLEAN, NEW start \in BOOLEAN,
             NEW n, start => n \in Ports, SiWriteComcsr(masks, ack, start, n)
      PROVE  si' \in SiRecords
  BY <1>1, <1>3 DEF SiWriteComcsr, SiRecords
<1>4. ASSUME NEW ns, SiWriteSisr(ns) PROVE si' \in SiRecords
  BY <1>1, <1>4 DEF SiWriteSisr, SiRecords
<1>5. ASSUME NEW x \in PollPeriods, SiWritePoll(x) PROVE si' \in SiRecords
  BY <1>1, <1>5 DEF SiWritePoll, SiRecords
<1>6. ASSUME NEW ns \in SUBSET Ports, SiTransfers(ns) PROVE si' \in SiRecords
  BY <1>3, <1>6 DEF SiTransfers
<1>7. si' \in SiRecords
  BY <1>2, <1>4, <1>5, <1>6 DEF SiNext, SiAssumption
<1> QED BY <1>7 DEF BeamTyped

\* The beam: it starts over before it is past the longest frame.
LEMMA ViNextTyped ==
    ASSUME SiAssumption, ViAssumption, BeamTyped, ViNext
    PROVE  BeamTyped'
<1>1. si \in SiRecords /\ vi \in ViRecords /\ sincePoll \in Nat
  BY DEF BeamTyped
<1>2. CASE ViAdvance
  <2>1. vi.half \in Nat /\ PollDelay \in Nat /\ PollPeriods \subseteq Nat
    BY <1>1, Longests DEF ViRecords, SiAssumption
  <2>2. Polled(si) \in SiRecords
    BY <1>1 DEF Polled, SiRecords, SiAssumption
  <2>3. ASSUME NEW s \in SiRecords, NEW n \in Nat PROVE [s EXCEPT !.next = n] \in SiRecords
    BY <2>3 DEF SiRecords
  <2>4. Polled(si).next + 2 * si.period \in Nat /\ vi.half + PollDelay \in Nat
    <3>1. Polled(si).next \in Nat /\ si.period \in Nat
      BY <1>1, <2>1, <2>2 DEF SiRecords
    <3> QED BY <2>1, <3>1
  <2>5. [Polled(si) EXCEPT !.next = @ + 2 * si.period] \in SiRecords
    BY <2>2, <2>3, <2>4
  <2>6. si' \in SiRecords
    BY <1>1, <1>2, <2>3, <2>4, <2>5 DEF ViAdvance, BeamPoll
  <2>7. vi' \in ViRecords
    <3> DEFINE half == IF vi.half + 1 >= Frame(vi) THEN 0 ELSE vi.half + 1
    <3>1. Frame(vi) \in Nat /\ Frame(vi) <= FrameMax
      <4>1. vi.odd \in FieldLengths /\ vi.even \in FieldLengths
        BY <1>1 DEF ViRecords
      <4>2. vi.odd \in Nat /\ vi.even \in Nat /\ vi.odd <= Longest /\ vi.even <= Longest
        BY <4>1, Longests
      <4>3. Longest \in Nat /\ FrameMax = 2 * Longest
        BY Longests
      <4>4. vi.odd + vi.even \in Nat /\ vi.odd + vi.even <= 2 * Longest
        BY <4>2, <4>3
      <4> QED BY <4>3, <4>4 DEF Frame
    <3>2. half \in 0..FrameMax
      <4>1. FrameMax \in Nat
        BY Longests
      <4> QED BY <2>1, <3>1, <4>1
    <3>3. vi' = [vi EXCEPT !.half = half, !.int = @ \cup {d \in Displays : vi.at[d] = half}]
      BY <1>2 DEF ViAdvance, Moved
    <3> HIDE DEF half
    <3> QED BY <1>1, <3>2, <3>3 DEF ViRecords
  <2>8. sincePoll' \in Nat
    BY <1>1, <1>2 DEF ViAdvance
  <2> QED BY <2>6, <2>7, <2>8 DEF BeamTyped
<1>3. ASSUME NEW d \in Displays, NEW at \in {0, Nowhere}, NEW int \in BOOLEAN,
             NEW masked \in BOOLEAN, ViWriteDisplay(d, at, int, masked)
      PROVE  BeamTyped'
  <2>1. at \in 0..Nowhere
    BY Longests
  <2>2. vi' \in ViRecords
    BY <1>1, <1>3, <2>1 DEF ViWriteDisplay, ViRecords
  <2> QED BY <1>1, <1>3, <2>2 DEF ViWriteDisplay, BeamTyped
<1>4. CASE ViReset
  <2>1. [d \in Displays |-> Nowhere] \in [Displays -> 0..Nowhere]
    BY Longests
  <2>2. vi' \in ViRecords
    BY <1>1, <1>4, <2>1 DEF ViReset, ViRecords
  <2> QED BY <1>1, <1>4, <2>2 DEF ViReset, BeamTyped
<1>5. ASSUME NEW odd \in FieldLengths, NEW even \in FieldLengths, ViSetField(odd, even)
      PROVE  BeamTyped'
  BY <1>1, <1>5 DEF ViSetField, ViRecords, BeamTyped
<1> QED BY <1>2, <1>3, <1>4, <1>5 DEF ViNext

-----------------------------------------------------------------------------
FifoTypes ==
    [ctrl : Controls, high : Nat, low : Nat, hiwm : BOOLEAN, lowm : BOOLEAN, write : Ring,
     read : Ring, distance : Nat, break : {0} \cup Breaks, staged : 0..(Gather - 1)]

PeTypes ==
    [signal : SUBSET Signals, enable : SUBSET Signals, at : {"idle"} \cup Signals,
     levels : SUBSET Signals, word : SUBSET Causes]

\* What the worker has not answered of this tick is in order, and nothing is left of it
\* after the tick.
TickTyped ==
    /\ gxtick \in [on : BOOLEAN, left : 0..FifoBudget, fences : Seq(Signals)]
    /\ pe \in PeTypes
    /\ gxtick.fences # <<>> => gxtick.on
    /\ pe.at # "idle" => gxtick.on

FifoTyped == fifo \in FifoTypes /\ ram \in [Ring -> Kinds] /\ TickTyped

\* Both pointers stay in the ring.
LEMMA NextBurstStays ==
    ASSUME FifoAssumption, NEW b \in Ring
    PROVE  NextBurst(b) \in Ring
  BY DEF FifoAssumption, Ring, NextBurst

\* Looking at the watermarks moves neither pointer.
LEMMA WatchedTyped ==
    ASSUME NEW f \in FifoTypes
    PROVE  Watched(f) \in FifoTypes
<1> DEFINE high == f.distance > f.high
           low  == f.distance < f.low
<1>1. high \in BOOLEAN /\ low \in BOOLEAN
  OBVIOUS
<1>2. Watched(f) = [f EXCEPT !.hiwm = high, !.lowm = low]
  BY DEF Watched
<1> HIDE DEF high, low
<1> QED BY <1>1, <1>2 DEF FifoTypes

\* Nothing is staged, attached or under way at power-on.
LEMMA FifoInitTyped ==
    ASSUME FifoAssumption, FifoInit
    PROVE  FifoTyped
<1>1. 0 \in Ring /\ 0 \in 0..(Gather - 1) /\ 0 \in 0..FifoBudget
  BY DEF FifoAssumption, Ring
<1>2. <<>> \in Seq(Signals) /\ {} \in Controls /\ "none" \in Kinds
  BY DEF Controls, Kinds
<1> QED BY <1>1, <1>2 DEF FifoInit, FifoTyped, TickTyped, FifoTypes, PeTypes

\* A step that evaluates the command processor's line from registers f.
LEMMA CpPushTyped ==
    ASSUME FifoTyped, NEW f \in FifoTypes, CpPush(f), UNCHANGED <<ram, gxtick, pe>>
    PROVE  FifoTyped'
<1>1. fifo' \in FifoTypes
  BY WatchedTyped DEF CpPush
<1> QED BY <1>1 DEF FifoTyped, TickTyped

\* A burst goes where the write pointer was.
LEMMA BurstTyped ==
    ASSUME FifoAssumption, FifoTyped, NEW kind \in Kinds, GpBurst(kind)
    PROVE  FifoTyped'
<1> DEFINE seen  == Watched(fifo)
           moved == [seen EXCEPT !.staged = 0, !.write = NextBurst(@)]
<1>1. fifo \in FifoTypes /\ ram \in [Ring -> Kinds]
  BY DEF FifoTyped
<1>2. seen \in FifoTypes
  BY <1>1, WatchedTyped
<1>3. fifo' = moved \/ fifo' = [moved EXCEPT !.distance = @ + 1]
  BY DEF GpBurst
<1>4. ram' = [ram EXCEPT ![fifo.write] = kind] /\ UNCHANGED <<gxtick, pe>>
  BY DEF GpBurst
<1> HIDE DEF seen
<1>5. NextBurst(seen.write) \in Ring /\ 0 \in 0..(Gather - 1)
  BY <1>2, NextBurstStays DEF FifoTypes, FifoAssumption
<1>6. moved \in FifoTypes
  BY <1>2, <1>5 DEF FifoTypes
<1> HIDE DEF moved
<1>7. fifo' \in FifoTypes
  BY <1>3, <1>6 DEF FifoTypes
<1> QED BY <1>1, <1>4, <1>7 DEF FifoTyped, TickTyped

\* A chunk is consumed by a tick that has budget left, from a FIFO that is not empty.
LEMMA ConsumeTyped ==
    ASSUME FifoAssumption, FifoTyped, gxtick.on, GxConsume
    PROVE  FifoTyped'
<1> DEFINE f == [fifo EXCEPT !.read = NextBurst(@), !.distance = @ - 1]
           kind == ram[fifo.read]
<1>1. fifo \in FifoTypes /\ ram \in [Ring -> Kinds] /\ FifoBudget \in Nat
  BY DEF FifoTyped, FifoAssumption
<1>2. gxtick.left > 0 /\ fifo.distance > 0
  BY DEF GxConsume, CanConsume
<1>3. NextBurst(fifo.read) \in Ring /\ fifo.distance - 1 \in Nat /\ kind \in Kinds
  BY <1>1, <1>2, NextBurstStays DEF FifoTypes
<1>4. f \in FifoTypes
  BY <1>1, <1>3 DEF FifoTypes
<1>5. fifo' = Watched(f) /\ UNCHANGED <<ram, pe>>
  BY DEF GxConsume, CpPush
<1>6. gxtick' = [gxtick EXCEPT !.left = @ - 1,
                               !.fences = IF kind = "none" THEN @ ELSE Append(@, kind)]
  BY DEF GxConsume, Taken
<1> HIDE DEF f, kind
<1>7. fifo' \in FifoTypes
  BY <1>4, <1>5, WatchedTyped
<1>8. gxtick.fences \in Seq(Signals) /\ gxtick.left - 1 \in 0..FifoBudget
  BY <1>1, <1>2 DEF FifoTyped, TickTyped
<1>9. kind # "none" => Append(gxtick.fences, kind) \in Seq(Signals)
  BY <1>3, <1>8 DEF Kinds, Signals
<1>10. gxtick' \in [on : BOOLEAN, left : 0..FifoBudget, fences : Seq(Signals)] /\ gxtick'.on
  BY <1>6, <1>8, <1>9 DEF FifoTyped, TickTyped
<1> QED BY <1>1, <1>5, <1>7, <1>10 DEF FifoTyped, TickTyped

\* The worker answers the oldest command of the tick.
LEMMA SignalTyped ==
    ASSUME FifoTyped, PeSignal, intsr \subseteq Causes
    PROVE  FifoTyped'
<1>1. gxtick.fences \in Seq(Signals) /\ gxtick.fences # <<>> /\ gxtick.on /\ pe \in PeTypes
  BY DEF FifoTyped, TickTyped, PeSignal
<1>2. Head(gxtick.fences) \in Signals /\ Tail(gxtick.fences) \in Seq(Signals)
  BY <1>1
<1> DEFINE p == [pe EXCEPT !.signal = @ \cup {Head(gxtick.fences)}]
<1>3. p \in PeTypes
  BY <1>1, <1>2 DEF PeTypes
<1>4. pe' = [p EXCEPT !.at = "token", !.levels = Raised(p), !.word = intsr]
  BY DEF PeSignal
<1> HIDE DEF p
<1>5. pe' \in PeTypes
  BY <1>3, <1>4 DEF PeTypes, Raised, Signals
<1>6. gxtick' = [gxtick EXCEPT !.fences = Tail(@)] /\ UNCHANGED <<fifo, ram>>
  BY DEF PeSignal
<1>7. /\ gxtick' \in [on : BOOLEAN, left : 0..FifoBudget, fences : Seq(Signals)]
      /\ gxtick'.on
  BY <1>1, <1>2, <1>6 DEF FifoTyped, TickTyped
<1> QED BY <1>5, <1>6, <1>7 DEF FifoTyped, TickTyped

\* The levels it works out are pushed one after the other.
LEMMA PePushTyped ==
    ASSUME FifoTyped, NEW signal \in Signals, PePush(signal), intsr' \subseteq Causes
    PROVE  FifoTyped'
<1>1. pe \in PeTypes /\ pe.at = signal
  BY DEF FifoTyped, TickTyped, PePush
<1>2. \/ pe' = [pe EXCEPT !.at = "finish", !.word = intsr']
      \/ pe' = [pe EXCEPT !.at = "idle", !.levels = {}, !.word = {}]
  BY DEF PePush
<1>3. pe' \in PeTypes
  BY <1>1, <1>2 DEF PeTypes, Signals
<1>4. gxtick.on /\ UNCHANGED <<fifo, ram, gxtick>>
  BY <1>1 DEF FifoTyped, TickTyped, PePush, Signals
<1> QED BY <1>3, <1>4 DEF FifoTyped, TickTyped

\* Every step of the guest, of the tick and of the worker.
LEMMA FifoNextTyped ==
    ASSUME FifoAssumption, FifoTyped, intsr \subseteq Causes, intsr' \subseteq Causes, FifoNext
    PROVE  FifoTyped'
<1>1. fifo \in FifoTypes /\ Gather \in Nat /\ FifoBudget \in Nat
  BY DEF FifoTyped, FifoAssumption
<1>2. ASSUME NEW ctrl \in Controls, CpWriteCtrl(ctrl) PROVE FifoTyped'
  <2>1. [fifo EXCEPT !.ctrl = ctrl] \in FifoTypes
    BY <1>1 DEF FifoTypes
  <2> QED BY <1>2, <2>1, CpPushTyped DEF CpWriteCtrl
<1>3. ASSUME NEW b \in Ring, NEW w \in Watermarks, CpAttach(b, w) PROVE FifoTyped'
  <2> DEFINE f == [fifo EXCEPT !.write = b, !.read = b, !.distance = 0, !.high = w.high,
                               !.low = w.low]
  <2>1. w.high \in Nat /\ w.low \in Nat
    BY DEF FifoAssumption
  <2>2. f \in FifoTypes
    BY <1>1, <2>1 DEF FifoTypes
  <2>3. CpPush(f) /\ UNCHANGED <<ram, gxtick, pe>>
    BY <1>3 DEF CpAttach
  <2> HIDE DEF f
  <2> QED BY <2>2, <2>3, CpPushTyped
<1>4. ASSUME NEW b \in Breaks, CpWriteBreak(b) PROVE FifoTyped'
  <2>1. [fifo EXCEPT !.break = b] \in FifoTypes
    BY <1>1 DEF FifoTypes
  <2> QED BY <1>4, <2>1, CpPushTyped DEF CpWriteBreak
<1>5. CASE GpStage \/ GpReset
  <2>1. fifo.staged + 1 < Gather => fifo.staged + 1 \in 0..(Gather - 1)
    BY <1>1 DEF FifoTypes
  <2>2. 0 \in 0..(Gather - 1)
    BY DEF FifoAssumption
  <2>3. fifo' \in FifoTypes
    BY <1>1, <1>5, <2>1, <2>2 DEF GpStage, GpReset, FifoTypes
  <2> QED BY <1>5, <2>3 DEF GpStage, GpReset, FifoTyped, TickTyped
<1>6. ASSUME NEW clear, NEW enable \in SUBSET Signals, PeWriteCtrl(clear, enable)
      PROVE  FifoTyped'
  <2>1. pe' \in PeTypes /\ pe'.at = pe.at
    BY <1>6 DEF PeWriteCtrl, PeTypes, FifoTyped, TickTyped
  <2> QED BY <1>6, <2>1 DEF PeWriteCtrl, FifoTyped, TickTyped
<1>7. CASE GxTickStart
  <2>1. gxtick' \in [on : BOOLEAN, left : 0..FifoBudget, fences : Seq(Signals)] /\ gxtick'.on
    BY <1>1, <1>7 DEF GxTickStart
  <2> QED BY <1>7, <2>1 DEF GxTickStart, FifoTyped, TickTyped
<1>8. CASE GxTickEnd
  <2>1. gxtick' \in [on : BOOLEAN, left : 0..FifoBudget, fences : Seq(Signals)]
        /\ gxtick'.fences = <<>> /\ pe.at = "idle"
    <3>1. gxtick \in [on : BOOLEAN, left : 0..FifoBudget, fences : Seq(Signals)]
          /\ 0 \in 0..FifoBudget
      BY <1>1 DEF FifoTyped, TickTyped
    <3>2. gxtick' = [gxtick EXCEPT !.on = FALSE, !.left = 0]
          /\ gxtick.fences = <<>> /\ pe.at = "idle"
      BY <1>8 DEF GxTickEnd
    <3> QED BY <3>1, <3>2
  <2> QED BY <1>8, <2>1 DEF GxTickEnd, FifoTyped, TickTyped
<1>9. {} \in Controls
  BY DEF Controls
<1>10. CASE FifoGuest
  BY <1>2, <1>3, <1>4, <1>5, <1>6, <1>9, <1>10, BurstTyped DEF FifoGuest
<1> QED BY <1>7, <1>8, <1>10, ConsumeTyped, SignalTyped, PePushTyped DEF FifoNext

-----------------------------------------------------------------------------
\* What is between a command and the drive's other registers: DIMAR stays in RAM, and the
\* guest's budget is kept.
DiBounded == di.mar <= RamBlocks /\ diDropped \in BOOLEAN /\ diIssued \in 0..MaxCommands

\* A command leaves DIMAR alone; its completion moves it.
LEMMA ExecuteMar ==
    ASSUME NEW d \in Drives, NEW cmd \in Commands, NEW offset, NEW asked, NEW on, NEW latency
    PROVE  Execute(d, cmd, offset, asked, on, latency).mar = d.mar
<1> DEFINE Same(r) == "mar" \in DOMAIN r /\ r.mar = d.mar
<1>1. ASSUME NEW x, Same(x), NEW e PROVE Same(Refuse(x, e))
  BY <1>1 DEF Refuse
<1>2. ASSUME NEW x, Same(x), NEW o, NEW a PROVE Same(PrepareRead(x, o, a, latency))
  <2> DEFINE length == Smaller(a, x.length)
             fits   == Smaller(length, RamBlocks - x.mar)
             read   == {[offset |-> o, length |-> fits, addr |-> x.mar, of |-> disc]}
  <2>1. \/ PrepareRead(x, o, a, latency) = Refuse(x, "BLOCK_OOB")
        \/ PrepareRead(x, o, a, latency) = x
        \/ PrepareRead(x, o, a, latency) = [x EXCEPT !.intr = "DEINT"]
        \/ PrepareRead(x, o, a, latency) = [x EXCEPT !.read = read, !.cycles = latency]
    BY DEF PrepareRead
  <2> HIDE DEF length, fits, read
  <2> QED BY <2>1, <1>1, <1>2
<1>3. ASSUME NEW s, NEW o, NEW a PROVE Same(ReadFrom(d, s, o, a, latency))
  <2>1. Same([d EXCEPT !.drive = s])
    BY DEF Drives
  <2> HIDE DEF Same
  <2> QED BY <2>1, <1>1, <1>2 DEF ReadFrom
<1>4. /\ Same(d) /\ Same([d EXCEPT !.error = "NONE"])
      /\ Same([d EXCEPT !.drive = "MOTOR_STOPPED"]) /\ Same([d EXCEPT !.dtk = on])
  BY DEF Drives
<1>5. Same(Execute(d, cmd, offset, asked, on, latency))
  <2> HIDE DEF Same
  <2> QED BY <1>1, <1>3, <1>4 DEF Execute, Commands
<1> QED BY <1>5

\* Every step keeps these bounds.
LEMMA DiNextBounded ==
    ASSUME DiAssumption, DiInv, DiBounded, DiNext
    PROVE  DiBounded'
<1>1. di \in Drives /\ di.mar <= RamBlocks /\ di.tstart \in BOOLEAN /\ RamBlocks \in Nat
      /\ diDropped \in BOOLEAN /\ diIssued \in 0..MaxCommands /\ MaxCommands \in Nat
  BY DEF DiInv, DiBounded, DiAssumption, Drives
<1>2. ASSUME NEW cmd \in Commands, NEW offset, NEW asked, NEW on, NEW latency,
             DiCommand(cmd, offset, asked, on, latency)
      PROVE  DiBounded'
  <2> DEFINE d == [di EXCEPT !.tstart = TRUE, !.pending = TRUE, !.read = {},
                             !.cycles = 1, !.intr = "TCINT",
                             !.error = IF cmd = "REQUEST_ERROR" THEN di.error ELSE "NONE"]
  <2>1. d \in Drives /\ d.mar = di.mar
    BY <1>1 DEF Drives, Errors
  <2>2. di' = Execute(d, cmd, offset, asked, on, latency)
        /\ diDropped' = FALSE /\ diIssued < MaxCommands /\ diIssued' = diIssued + 1
    BY <1>2 DEF DiCommand
  <2> HIDE DEF d
  <2>3. di'.mar = di.mar
    BY <2>1, <2>2, ExecuteMar
  <2>4. diIssued + 1 \in 0..MaxCommands
    BY <1>1, <2>2
  <2>5. di'.mar <= RamBlocks
    BY <1>1, <2>3
  <2> QED BY <2>2, <2>4, <2>5 DEF DiBounded
<1>3. CASE DiStop \/ DiSpinUp
  BY <1>1, <1>3 DEF DiStop, DiSpinUp, ResetDrive, DiBounded, Drives
<1>4. ASSUME NEW mar \in 0..RamBlocks, NEW length, DiSetDma(mar, length) PROVE DiBounded'
  BY <1>1, <1>4 DEF DiSetDma, DiBounded, Drives
<1>5. ASSUME NEW reg, NEW masks, NEW clear, DiWriteStatus(reg, masks, clear) PROVE DiBounded'
  BY <1>1, <1>5 DEF DiWriteStatus, DiBounded, Drives
<1>6. CASE DiTick
  <2>1. Smaller(di.mar + di.length, RamBlocks) <= RamBlocks
    BY <1>1 DEF Smaller, Drives
  <2>2. di'.mar \in {di.mar, Smaller(di.mar + di.length, RamBlocks)}
    BY <1>1, <1>6 DEF DiTick, Completed, Drives
  <2> QED BY <1>1, <1>6, <2>1, <2>2 DEF DiTick, DiBounded
<1>7. ASSUME NEW d, DiMount(d) PROVE DiBounded'
  BY <1>1, <1>7 DEF DiMount, ResetDrive, DiBounded, Drives
<1> QED BY <1>2, <1>3, <1>4, <1>5, <1>6, <1>7 DEF DiNext, DiGuest

-----------------------------------------------------------------------------
\* A channel's position stays in the settings, a command's in its bytes; a file is saved,
\* or left unsaved, only if it is named.
ExiTyped ==
    /\ ExiType
    /\ \A ch \in Channels : exi[ch].pos \in 0..SramWords
    /\ card.position \in 0..MaxPosition
    /\ files \subseteq {"settings", "card"} /\ unsaved \subseteq files
    /\ saving \in {"none", "off"} \cup files

ChannelsTyped(x) == x \in [Channels -> Channel] /\ \A ch \in Channels : x[ch].pos \in 0..SramWords
CardTyped(c)     == c \in Cards /\ c.position \in 0..MaxPosition

\* Registering and completing move no position.
LEMMA EvaluateTyped ==
    ASSUME ExiAssumption, NEW x, ChannelsTyped(x), NEW c, Evaluate(x, c)
    PROVE  ChannelsTyped(exi')
<1>1. exi' = Registered(x, c)
  BY DEF Evaluate
<1> QED BY <1>1 DEF ExiAssumption, Registered, ChannelsTyped, Channel, ExiBits

\* Nor does the end of a transfer.
LEMMA TransferredTyped ==
    ASSUME ExiAssumption, NEW x, ChannelsTyped(x), NEW ch \in Channels, NEW done \in BOOLEAN
    PROVE  ChannelsTyped(Transferred(x, ch, done))
  BY DEF ExiAssumption, Transferred, ChannelsTyped, Channel, ExiBits

\* A CSR write starts a transaction over.
LEMMA CsrWrittenTyped ==
    ASSUME ExiAssumption, NEW x, ChannelsTyped(x), NEW ch \in Channels,
           NEW masks \in SUBSET ExiBits, NEW cs \in Selects, NEW clear
    PROVE  ChannelsTyped(CsrWritten(x, ch, masks, cs, clear))
<1> DEFINE set == [x[ch] EXCEPT !.masks = masks, !.cs = cs, !.status = @ \ clear]
           moved == [set EXCEPT !.prev = cs, !.op = "NONE", !.cmd = FALSE, !.pos = 0]
<1>1. x[ch] \in Channel /\ x[ch].pos \in 0..SramWords /\ SramWords \in Nat
  BY DEF ExiAssumption, ChannelsTyped
<1>2. set \in Channel /\ set.pos \in 0..SramWords
  BY <1>1 DEF Channel
<1>3. CsrWritten(x, ch, masks, cs, clear)
          = IF cs = set.prev THEN [x EXCEPT ![ch] = set] ELSE [x EXCEPT ![ch] = moved]
  BY DEF CsrWritten
<1> HIDE DEF set
<1>4. moved \in Channel /\ moved.pos = 0
  BY <1>2 DEF Channel
<1>5. 0 \in 0..SramWords
  BY <1>1
<1> HIDE DEF moved
<1> QED BY <1>2, <1>3, <1>4, <1>5 DEF ChannelsTyped

\* The card's position is one more, none, or the same.
LEMMA CardsTyped ==
    ASSUME NEW c, CardTyped(c)
    PROVE  /\ \A command \in CardCommands, sector \in Sectors, on \in BOOLEAN :
                  CardTyped(CardByte(c, command, sector, on))
           /\ \A prev, cs : CardTyped(CardSelected(c, prev, cs))
           /\ CardTyped(CardDma(c)) /\ CardTyped([c EXCEPT !.dirty = FALSE])
<1>1. c \in Cards /\ c.position \in Nat /\ c.position <= 6
  BY DEF CardTyped, MaxPosition
<1>2. ASSUME NEW command \in CardCommands, NEW sector \in Sectors, NEW on \in BOOLEAN
      PROVE  CardTyped(CardByte(c, command, sector, on))
  <2>1. CardByte(c, command, sector, on) \in Cards
    BY <1>1, CardByteKeeps
  <2>2. Next1(c.position) \in 0..6 /\ 1 \in 0..6
    BY <1>1 DEF Next1, MaxPosition
  <2>3. CardByte(c, command, sector, on).position \in {1, Next1(c.position)}
    BY <1>1 DEF CardByte, Cards
  <2> QED BY <2>1, <2>2, <2>3 DEF CardTyped, MaxPosition
<1>3. ASSUME NEW prev, NEW cs PROVE CardTyped(CardSelected(c, prev, cs))
  <2>1. (cs = 1) \in BOOLEAN
    OBVIOUS
  <2>2. SetCs(c, cs = 1) \in Cards
    BY <1>1, <2>1, SetCsKeeps
  <2>3. SetCs(c, cs = 1).position \in {0, c.position}
    BY <1>1 DEF SetCs, Deselected, Complete, Cards
  <2>4. 0 \in 0..MaxPosition
    BY DEF MaxPosition
  <2> QED BY <1>1, <2>2, <2>3, <2>4 DEF CardSelected, CardTyped
<1>4. CardTyped(CardDma(c)) /\ CardTyped([c EXCEPT !.dirty = FALSE])
  BY <1>1, CardDmaKeeps DEF CardDma, CardTyped, Cards
<1> QED BY <1>2, <1>3, <1>4

\* What follows for the whole from the channels, the card and the files a step leaves.
LEMMA ExiStepTyped ==
    ASSUME ExiTyped, ChannelsTyped(exi'), CardTyped(card'), settings' \in [Words -> Values],
           \/ UNCHANGED settingsFile \/ settingsFile' = Torn \/ settingsFile' = settings,
           \/ UNCHANGED cardFile \/ cardFile' = Torn \/ cardFile' = card.flash,
           UNCHANGED files, unsaved' \subseteq files, saving' \in {"none", "off"} \cup files
    PROVE  ExiTyped'
<1>1. settingsFile' = Torn \/ settingsFile' \in [Words -> Values]
  BY DEF ExiTyped, ExiType
<1>2. cardFile' = Torn \/ cardFile' \in [Sectors -> {"erased", "written"}]
  BY DEF ExiTyped, ExiType, Cards
<1> QED BY <1>1, <1>2 DEF ExiTyped, ExiType, ChannelsTyped, CardTyped

\* At power-on (gcn_exi_init, and the fixture of the seed).
LEMMA ExiInitTyped ==
    ASSUME ExiAssumption, CardAssumption, ExiInit
    PROVE  ExiTyped
<1>1. exi \in [Channels -> Channel] /\ \A ch \in Channels : exi[ch].pos = 0
  BY DEF ExiInit, ExiAssumption, ChannelInit, Channel, ExiBits, Selects
<1>2. 0 \in 0..SramWords /\ 0 \in 0..MaxPosition
  BY DEF ExiAssumption, MaxPosition
<1>3. Fixture \in [Words -> Values] /\ Formatted \in [Sectors -> {"erased", "written"}]
  BY DEF ExiAssumption, Fixture, Formatted
<1>4. card \in Cards /\ card.position = 0
  BY <1>3 DEF ExiInit, CardInit, Cards, CardCommands, CardAssumption
<1> QED BY <1>1, <1>2, <1>3, <1>4 DEF ExiInit, ExiTyped, ExiType

\* A CSR write, which may begin the save of the card.
LEMMA WriteCsrTyped ==
    ASSUME ExiAssumption, ExiTyped, saving = "none", NEW ch \in Channels,
           NEW masks \in SUBSET ExiBits, NEW cs \in Selects, NEW clear,
           ExiWriteCsr(ch, masks, cs, clear)
    PROVE  ExiTyped'
<1> DEFINE x == CsrWritten(exi, ch, masks, cs, clear)
           c == IF ch = CardChannel THEN CardSelected(card, exi[ch].prev, cs) ELSE card
<1>1. ChannelsTyped(exi) /\ CardTyped(card) /\ settings \in [Words -> Values]
      /\ unsaved \subseteq files
  BY DEF ExiTyped, ExiType, ChannelsTyped, CardTyped
<1>2. ChannelsTyped(x)
  BY <1>1, CsrWrittenTyped
<1>3. CardTyped(c) /\ CardTyped([c EXCEPT !.dirty = FALSE])
  BY <1>1, CardsTyped
<1>4. card' = c \/ card' = [c EXCEPT !.dirty = FALSE]
  BY DEF ExiWriteCsr
<1>5. /\ exi' = x \/ Evaluate(x, c)
      /\ UNCHANGED <<settings, settingsFile, files>>
      /\ UNCHANGED cardFile \/ cardFile' = Torn
      /\ UNCHANGED unsaved \/ (unsaved' = unsaved \cup {"card"} /\ "card" \in files)
      /\ UNCHANGED saving \/ (saving' = "card" /\ "card" \in files)
  BY DEF ExiWriteCsr
<1> HIDE DEF x, c
<1>6. ChannelsTyped(exi')
  BY <1>2, <1>5, EvaluateTyped
<1> QED BY <1>1, <1>3, <1>4, <1>5, <1>6, ExiStepTyped

\* A command word, or a data word, which may begin the save of the settings.
LEMMA IplTyped ==
    ASSUME ExiAssumption, ExiTyped, saving = "none",
           \/ \E op \in IplOps : IplCommand(op)
           \/ \E v \in Values : IplData(v)
    PROVE  ExiTyped'
<1>1. ChannelsTyped(exi) /\ CardTyped(card) /\ settings \in [Words -> Values]
      /\ unsaved \subseteq files /\ SramWords \in Nat /\ 0 \in Channels
  BY DEF ExiTyped, ExiType, ChannelsTyped, CardTyped, ExiAssumption
<1>2. ASSUME NEW op \in IplOps, IplCommand(op) PROVE ExiTyped'
  <2> DEFINE x == [exi EXCEPT ![0].cmd = TRUE, ![0].op = op, ![0].pos = 0]
  <2>1. 0 \in 0..SramWords
    BY <1>1
  <2> DEFINE begun == [exi[0] EXCEPT !.cmd = TRUE, !.op = op, !.pos = 0]
  <2>2. ChannelsTyped(x)
    <3>1. begun \in Channel /\ begun.pos = 0
      BY <1>1 DEF ChannelsTyped, Channel
    <3>2. x = [exi EXCEPT ![0] = begun]
      BY <1>1 DEF ChannelsTyped, Channel
    <3> HIDE DEF begun, x
    <3> QED BY <1>1, <2>1, <3>1, <3>2 DEF ChannelsTyped
  <2>3. Evaluate(Transferred(x, 0, TRUE), card)
        /\ UNCHANGED <<settings, settingsFile, card, cardFile, saving, files, unsaved>>
    BY <1>2 DEF IplCommand
  <2> HIDE DEF x
  <2>4. ChannelsTyped(exi')
    BY <1>1, <2>2, <2>3, TransferredTyped, EvaluateTyped
  <2> QED BY <1>1, <2>3, <2>4, ExiStepTyped
<1>3. ASSUME NEW v \in Values, IplData(v) PROVE ExiTyped'
  <2> DEFINE x == IF exi[0].op = "SRAM_WRITE" /\ exi[0].pos < SramWords
                  THEN [exi EXCEPT ![0].pos = @ + 1] ELSE exi
  <2>1. exi[0].pos < SramWords => exi[0].pos + 1 \in 0..SramWords
    BY <1>1 DEF ChannelsTyped
  <2>2. ChannelsTyped(x)
    <3>1. CASE exi[0].op = "SRAM_WRITE" /\ exi[0].pos < SramWords
      <4>1. exi[0] \in Channel /\ exi[0].pos + 1 \in Nat
        BY <1>1, <2>1, <3>1 DEF ChannelsTyped
      <4>2. [exi[0] EXCEPT !.pos = @ + 1] \in Channel
            /\ [exi[0] EXCEPT !.pos = @ + 1].pos = exi[0].pos + 1
        BY <4>1 DEF Channel
      <4>3. x = [exi EXCEPT ![0] = [exi[0] EXCEPT !.pos = @ + 1]]
        BY <1>1, <3>1 DEF ChannelsTyped
      <4> QED BY <1>1, <2>1, <3>1, <4>2, <4>3 DEF ChannelsTyped
    <3>2. CASE ~(exi[0].op = "SRAM_WRITE" /\ exi[0].pos < SramWords)
      BY <1>1, <3>2
    <3> QED BY <3>1, <3>2
  <2>3. settings' \in [Words -> Values]
    BY <1>1, <1>3, <2>1 DEF IplData, Stored, Words
  <2>4. /\ exi' = x \/ Evaluate(Transferred(x, 0, TRUE), card)
        /\ settingsFile' = Torn \/ UNCHANGED settingsFile
        /\ UNCHANGED <<card, cardFile, files>>
        /\ UNCHANGED unsaved \/ unsaved' = unsaved \cup (files \cap {"settings"})
        /\ UNCHANGED saving \/ (saving' = "settings" /\ "settings" \in files)
    BY <1>3 DEF IplData
  <2> HIDE DEF x
  <2>5. ChannelsTyped(exi')
    BY <1>1, <2>2, <2>4, TransferredTyped, EvaluateTyped
  <2> QED BY <1>1, <2>3, <2>4, <2>5, ExiStepTyped
<1> QED BY <1>2, <1>3

\* A save ends, whole or not.
LEMMA SavedTyped ==
    ASSUME ExiAssumption, ExiTyped, CardSaved \/ SettingsSaved
    PROVE  ExiTyped'
<1>1. ChannelsTyped(exi) /\ CardTyped(card) /\ settings \in [Words -> Values]
      /\ unsaved \subseteq files /\ 0 \in Channels
  BY DEF ExiTyped, ExiType, ChannelsTyped, CardTyped, ExiAssumption
<1>2. CASE CardSaved
  <2>1. "card" \in files
    BY <1>2 DEF CardSaved, ExiTyped
  <2>2. CardTyped(card')
    BY <1>1, <1>2, CardsTyped DEF CardSaved
  <2>3. ChannelsTyped(exi')
    BY <1>1, <1>2, EvaluateTyped DEF CardSaved
  <2>4. /\ UNCHANGED <<settings, settingsFile, files>> /\ saving' = "none"
        /\ UNCHANGED cardFile \/ cardFile' = card.flash
        /\ unsaved' = unsaved \ {"card"} \/ unsaved' = unsaved \cup {"card"}
    BY <1>2 DEF CardSaved
  <2> QED BY <1>1, <2>1, <2>2, <2>3, <2>4, ExiStepTyped
<1>3. CASE SettingsSaved
  <2>1. "settings" \in files
    BY <1>3 DEF SettingsSaved, ExiTyped
  <2>2. ChannelsTyped(exi')
    BY <1>1, <1>3, EvaluateTyped, TransferredTyped DEF SettingsSaved
  <2>3. /\ UNCHANGED <<settings, card, cardFile, files>> /\ saving' = "none"
        /\ UNCHANGED settingsFile \/ settingsFile' = settings
        /\ unsaved' = unsaved \ {"settings"} \/ unsaved' = unsaved \cup {"settings"}
    BY <1>3 DEF SettingsSaved
  <2> QED BY <1>1, <2>1, <2>2, <2>3, ExiStepTyped
<1> QED BY <1>2, <1>3

\* A transfer to the card, or to no device.
LEMMA TransfersTyped ==
    ASSUME ExiAssumption, ExiTyped, saving = "none",
           \/ \E command \in CardCommands, sector \in Sectors, on \in BOOLEAN :
                  CardTransfer(command, sector, on)
           \/ \E write \in BOOLEAN : CardDmaTransfer(write)
           \/ \E ch \in Channels : OtherTransfer(ch)
    PROVE  ExiTyped'
<1>1. ChannelsTyped(exi) /\ CardTyped(card) /\ settings \in [Words -> Values]
      /\ unsaved \subseteq files /\ CardChannel \in Channels
  BY DEF ExiTyped, ExiType, ChannelsTyped, CardTyped, ExiAssumption
<1>2. ASSUME NEW command \in CardCommands, NEW sector \in Sectors, NEW on \in BOOLEAN,
             CardTransfer(command, sector, on)
      PROVE  ExiTyped'
  <2>1. CardTyped(card') /\ ChannelsTyped(exi')
    BY <1>1, <1>2, CardsTyped, EvaluateTyped DEF CardTransfer
  <2> QED BY <1>1, <1>2, <2>1, ExiStepTyped DEF CardTransfer
<1>3. ASSUME NEW write \in BOOLEAN, CardDmaTransfer(write) PROVE ExiTyped'
  <2>1. CardTyped(card') /\ ChannelsTyped(exi')
    BY <1>1, <1>3, CardsTyped, EvaluateTyped, TransferredTyped DEF CardDmaTransfer
  <2> QED BY <1>1, <1>3, <2>1, ExiStepTyped DEF CardDmaTransfer
<1>4. ASSUME NEW ch \in Channels, OtherTransfer(ch) PROVE ExiTyped'
  <2>1. ChannelsTyped(exi')
    BY <1>1, <1>4, EvaluateTyped, TransferredTyped DEF OtherTransfer
  <2> QED BY <1>1, <1>4, <2>1, ExiStepTyped DEF OtherTransfer
<1> QED BY <1>2, <1>3, <1>4

\* The process ends, and starts again from what the files hold.
LEMMA EndTyped ==
    ASSUME ExiAssumption, CardAssumption, ExiTyped, ExiEnd
    PROVE  ExiTyped'
<1>1. ChannelsTyped(exi) /\ CardTyped(card) /\ settings \in [Words -> Values]
  BY DEF ExiTyped, ExiType, ChannelsTyped, CardTyped
<1>2. CASE ExiShutdown
  <2>1. /\ UNCHANGED <<exi, settings, card, files>> /\ saving' = "off"
        /\ UNCHANGED settingsFile \/ settingsFile' = Torn \/ settingsFile' = settings
        /\ UNCHANGED cardFile \/ cardFile' = Torn \/ cardFile' = card.flash
        /\ unsaved' \subseteq files
    BY <1>2 DEF ExiShutdown
  <2> QED BY <1>1, <2>1, ExiStepTyped
<1>3. CASE ExiRestart
  <2>1. ChannelsTyped(exi')
    <3>1. 0 \in 0..SramWords
      BY DEF ExiAssumption
    <3>2. exi' = [ch \in Channels |-> ChannelInit(ch)]
      BY <1>3 DEF ExiRestart
    <3>3. \A ch \in Channels : ChannelInit(ch) \in Channel /\ ChannelInit(ch).pos = 0
      BY DEF ChannelInit, Channel, ExiBits, Selects
    <3> QED BY <3>1, <3>2, <3>3 DEF ChannelsTyped
  <2>2. Fixture \in [Words -> Values] /\ Formatted \in [Sectors -> {"erased", "written"}]
        /\ Blank \in [Sectors -> {"erased", "written"}]
    BY DEF ExiAssumption, Fixture, Formatted, Blank
  <2>3. settings' \in [Words -> Values] /\ UNCHANGED <<settingsFile, files>>
        /\ saving' = "none" /\ unsaved' \subseteq files
    BY <1>3, <2>2 DEF ExiRestart, ExiTyped, ExiType
  <2>4. /\ cardFile' = Torn \/ cardFile' \in [Sectors -> {"erased", "written"}]
        /\ \E image \in [Sectors -> {"erased", "written"}] : card' = CardInit(image)
    <3>1. CASE "card" \in files
      <4>1. PICK minted \in BOOLEAN, formatted \in BOOLEAN :
                /\ card' = CardInit(Mounted(cardFile, minted))
                /\ cardFile' = FileAfterBoot(cardFile, minted, formatted)
        BY <1>3, <3>1 DEF ExiRestart
      <4>2. Mountable(cardFile) => cardFile \in [Sectors -> {"erased", "written"}]
        BY DEF Mountable, ExiTyped, ExiType
      <4> QED BY <2>2, <4>1, <4>2 DEF Mounted, FileAfterBoot
    <3>2. CASE "card" \notin files
      BY <1>3, <2>2, <3>2 DEF ExiRestart, ExiTyped, ExiType
    <3> QED BY <3>1, <3>2
  <2>5. CardTyped(card')
    <3>1. ASSUME NEW image \in [Sectors -> {"erased", "written"}]
          PROVE  CardInit(image) \in Cards /\ CardInit(image).position = 0
      BY DEF CardInit, Cards, CardCommands, CardAssumption
    <3>2. 0 \in 0..MaxPosition
      BY DEF MaxPosition
    <3> QED BY <2>4, <3>1, <3>2 DEF CardTyped
  <2> QED BY <2>1, <2>3, <2>4, <2>5 DEF ExiTyped, ExiType, ChannelsTyped, CardTyped
<1> QED BY <1>2, <1>3 DEF ExiEnd

\* Every step of either guest, of a save, and of the process.
LEMMA ExiNextTyped ==
    ASSUME ExiAssumption, CardAssumption, ExiTyped, SettingsNext \/ CardNext \/ ExiEnd
    PROVE  ExiTyped'
<1>1. ASSUME NEW ch \in Channels, NEW selects \in SUBSET Selects, NEW clears,
             ExiCsr(ch, selects, clears)
      PROVE  ExiTyped'
  <2>1. {} \in SUBSET ExiBits /\ ExiBits \in SUBSET ExiBits
    OBVIOUS
  <2> QED BY <1>1, <2>1, WriteCsrTyped DEF ExiCsr
<1>2. 0 \in Channels /\ CardChannel \in Channels
      /\ {0, 1} \in SUBSET Selects /\ {0, 2} \in SUBSET Selects
  BY DEF ExiAssumption, Selects
<1>3. CASE SettingsNext
  BY <1>1, <1>2, <1>3, IplTyped, TransfersTyped, SavedTyped DEF SettingsNext
<1>4. CASE CardNext
  BY <1>1, <1>2, <1>4, TransfersTyped, SavedTyped DEF CardNext
<1> QED BY <1>3, <1>4, EndTyped

-----------------------------------------------------------------------------
(***************************************************************************)
(* No native code of other bytes than are in memory runs from a page whose *)
(* writes icbi has covered. What keeps it is that each of the three caches *)
(* is right about every page that is not waiting for an icbi: the fence    *)
(* (FenceRight), the title chunk (ChunkRight), the overlays                *)
(* (ResidentRight). A write makes its pages wait; an icbi, which ends the  *)
(* wait, drops what the caches say of them in the same step.               *)
(***************************************************************************)

CodeType == mem \in [Pages -> Contents] /\ DOMAIN resident = OverlayPages

FenceRight == \A p \in IplPages : p \in fence \/ p \in due \/ mem[p] = IplCode

ChunkRight ==
    chunk = "VERIFIED" => \A p \in TitlePages : p \in due \/ mem[p] = TitleCode

ResidentRight ==
    \A p \in OverlayPages :
        resident[p] \in {"UNKNOWN", "NONE"} \/ p \in due \/ mem[p] = resident[p]

CachesRight == FenceRight /\ ChunkRight /\ ResidentRight

CodeInv == CodeType /\ CachesRight /\ NeverStale

\* At power-on the firmware's pages hold the firmware and nothing else is known.
LEMMA CodeInitInv ==
    ASSUME CodeAssumption, CodeInit
    PROVE  CodeInv
  BY DEF CodeAssumption, CodeInit, CodeInv, CodeType, CachesRight, FenceRight, ChunkRight,
         ResidentRight, NeverStale

\* A write of any pages by anybody, which need not tell the caches.
LEMMA WriteInv ==
    ASSUME CodeAssumption, CodeInv, NEW ps, NEW c \in Contents, Written(ps, c),
           due' = due \cup ps, fence \subseteq fence',
           UNCHANGED <<chunk, resident, misran>>
    PROVE  CodeInv'
<1>1. CodeType'
  BY DEF CodeInv, CodeType, Written
<1>2. ASSUME NEW p \in Pages PROVE p \in due' \/ (p \notin due /\ mem'[p] = mem[p])
  BY DEF CodeInv, CodeType, Written
<1>3. FenceRight' /\ ChunkRight' /\ ResidentRight'
  BY <1>2 DEF CodeInv, CachesRight, FenceRight, ChunkRight, ResidentRight, CodeAssumption
<1> QED BY <1>1, <1>3 DEF CodeInv, CachesRight, NeverStale

\* What an icbi of ps, or a restore, leaves behind: whatever memory holds now in ps.
LEMMA DropInv ==
    ASSUME CodeAssumption, CodeInv, NEW ps, DropCaches(ps), misran' = misran,
           mem' \in [Pages -> Contents], \A p \in Pages : p \in ps \/ mem'[p] = mem[p]
    PROVE  CodeInv'
<1>1. fence' = fence \cup ps /\ due' = due \ ps
  BY DEF DropCaches, Invalidate
<1>2. CodeType'
  BY DEF DropCaches, CodeType
<1>3. FenceRight'
  BY <1>1 DEF CodeInv, CachesRight, FenceRight, CodeAssumption
<1>4. ChunkRight'
  <2>1. CASE ps \cap TitlePages # {}
    BY <2>1 DEF DropCaches, ChunkDropped, ChunkRight
  <2>2. CASE ps \cap TitlePages = {}
    BY <2>2, <1>1 DEF DropCaches, ChunkDropped, CodeInv, CachesRight, ChunkRight,
                      CodeAssumption
  <2> QED BY <2>1, <2>2
<1>5. ResidentRight'
  <2>1. \A p \in OverlayPages :
           resident'[p] = IF p \in ps THEN "UNKNOWN" ELSE resident[p]
    BY DEF DropCaches
  <2> QED BY <2>1, <1>1 DEF CodeInv, CachesRight, ResidentRight, CodeAssumption
<1> QED BY <1>2, <1>3, <1>4, <1>5 DEF CodeInv, CachesRight, NeverStale

\* What a look at the title chunk and at the overlays of a page finds is right.
LEMMA LookedRight ==
    ASSUME CodeInv
    PROVE  /\ ChunkLooked = "VERIFIED" => \A p \in TitlePages : p \in due \/ mem[p] = TitleCode
           /\ \A p \in OverlayPages :
                 ResidentLooked(p) = "NONE" \/ p \in due \/ mem[p] = ResidentLooked(p)
<1>1. ChunkLooked = "VERIFIED" => \A p \in TitlePages : p \in due \/ mem[p] = TitleCode
  BY DEF CodeInv, CachesRight, ChunkRight, ChunkLooked
<1>2. ASSUME NEW p \in OverlayPages
      PROVE  ResidentLooked(p) = "NONE" \/ p \in due \/ mem[p] = ResidentLooked(p)
  BY DEF CodeInv, CachesRight, ResidentRight, ResidentLooked
<1> QED BY <1>1, <1>2

\* Native code runs from a page: from whichever cache it comes, it is of the bytes in
\* memory, unless the page waits for an icbi.
LEMMA NativeInv ==
    ASSUME CodeAssumption, CodeInv, NEW p \in Pages, DispatchNative(p)
    PROVE  CodeInv'
<1>1. UNCHANGED <<mem, fence, due>>
  BY DEF DispatchNative
<1>2. chunk' = chunk \/ chunk' = ChunkLooked
  BY DEF DispatchNative
<1>3. resident' = resident
      \/ (p \in OverlayPages /\ resident' = [resident EXCEPT ![p] = ResidentLooked(p)])
  BY DEF DispatchNative, LooksOverlay
<1>4. CodeType' /\ FenceRight'
  BY <1>1, <1>3 DEF CodeInv, CodeType, CachesRight, FenceRight
<1>5. ChunkRight'
  BY <1>1, <1>2, LookedRight DEF CodeInv, CachesRight, ChunkRight
<1>6. ResidentRight'
  BY <1>1, <1>3, LookedRight DEF CodeInv, CodeType, CachesRight, ResidentRight
<1>7. ~misran'
  <2>1. CASE RunsIpl(p)
    BY <2>1 DEF DispatchNative, Ran, RunsIpl, CodeInv, CachesRight, FenceRight, NeverStale
  <2>2. CASE ~RunsIpl(p) /\ RunsTitle(p)
    BY <2>2, LookedRight DEF DispatchNative, Ran, RunsTitle, LooksTitle, CodeInv, NeverStale
  <2>3. CASE ~RunsIpl(p) /\ ~RunsTitle(p) /\ RunsOverlay(p)
    <3>1. p \in OverlayPages /\ ResidentLooked(p) # "NONE"
      BY <2>3 DEF RunsOverlay, LooksOverlay
    <3> QED BY <2>3, <3>1, LookedRight DEF DispatchNative, Ran, CodeInv, NeverStale
  <2> QED BY <2>1, <2>2, <2>3 DEF DispatchNative
<1> QED BY <1>4, <1>5, <1>6, <1>7 DEF CodeInv, CachesRight, NeverStale

\* A miss computes the checksum the page has now, or keeps one that is still right.
LEMMA MissInv ==
    ASSUME CodeAssumption, CodeInv, NEW p \in Pages, DispatchMiss(p)
    PROVE  CodeInv'
<1>1. UNCHANGED <<mem, fence, due, misran>> /\ (chunk' = chunk \/ chunk' = ChunkLooked)
  BY DEF DispatchMiss
<1>2. resident' = resident \/ (p \in OverlayPages /\ resident' = [resident EXCEPT ![p] = "NONE"])
  BY DEF DispatchMiss, LooksOverlay
<1>3. CodeType' /\ FenceRight' /\ ResidentRight'
  BY <1>1, <1>2 DEF CodeInv, CodeType, CachesRight, FenceRight, ResidentRight
<1>4. ChunkRight'
  BY <1>1, LookedRight DEF CodeInv, CachesRight, ChunkRight
<1> QED BY <1>1, <1>3, <1>4 DEF CodeInv, CachesRight, NeverStale

\* The steps that touch none of what the caches rest on.
LEMMA IdleInv ==
    ASSUME CodeInv, UNCHANGED <<mem, fence, chunk, resident, due, misran>>
    PROVE  CodeInv'
  BY DEF CodeInv, CodeType, CachesRight, FenceRight, ChunkRight, ResidentRight, NeverStale

\* Every step of the guest, of the devices, of the host and of the GX worker.
LEMMA CodeNextInv ==
    ASSUME CodeAssumption, CodeInv, Stores \/ Runs \/ Copies
    PROVE  CodeInv'
<1>1. ASSUME NEW p \in Pages, NEW c \in Contents, StoreInlined(p, c) \/ StoreByDevice(p, c)
      PROVE  CodeInv'
  <2>1. Written({p}, c) /\ due' = due \cup {p} /\ fence' = fence
        /\ UNCHANGED <<chunk, resident, misran>>
    BY <1>1 DEF StoreInlined, StoreByDevice
  <2> QED BY <2>1, WriteInv
<1>2. ASSUME NEW ps \in PageRanges, NEW c \in Contents, StoreFenced(ps, c)
      PROVE  CodeInv'
  <2>1. Written(ps, c) /\ due' = due \cup ps /\ fence \subseteq fence'
        /\ UNCHANGED <<chunk, resident, misran>>
    BY <1>2 DEF StoreFenced, Invalidate
  <2> QED BY <2>1, WriteInv
<1>3. ASSUME NEW c \in Contents, SnapshotRestore([p \in Pages |-> c])
      PROVE  CodeInv'
  <2>1. mem' \in [Pages -> Contents] /\ DropCaches(Pages) /\ misran' = misran
    BY <1>3 DEF SnapshotRestore
  <2>2. \A p \in Pages : p \in Pages \/ mem'[p] = mem[p]
    OBVIOUS
  <2> QED BY <2>1, <2>2, DropInv
<1>4. ASSUME NEW ps \in PageRanges, Icbi(ps)
      PROVE  CodeInv'
  <2>1. mem' = mem /\ DropCaches(ps) /\ misran' = misran
    BY <1>4 DEF Icbi
  <2>2. mem \in [Pages -> Contents]
    BY DEF CodeInv, CodeType
  <2> QED BY <2>1, <2>2, DropInv
<1>5. ASSUME NEW p \in Pages, NEW c \in Contents, CopierWrites(p, c)
      PROVE  CodeInv'
  <2>1. Written({p}, c) /\ due' = due \cup {p} /\ fence' = fence
        /\ UNCHANGED <<chunk, resident, misran>>
    BY <1>5 DEF CopierWrites
  <2> QED BY <2>1, WriteInv
<1>6. CASE \E t \in taking : TakeEnds(t)
  BY <1>6, IdleInv DEF TakeEnds
<1>7. CASE CopierLoads \/ CopierStores
  BY <1>7, IdleInv DEF CopierLoads, CopierStores
<1>8. CASE Stores
  BY <1>8, <1>1, <1>2, <1>3 DEF Stores
<1>9. CASE Runs
  BY <1>9, <1>4, <1>6, NativeInv, MissInv DEF Runs
<1>10. CASE Copies
  BY <1>10, <1>5, <1>7 DEF Copies
<1> QED BY <1>8, <1>9, <1>10

-----------------------------------------------------------------------------
(* The checksums of the interpreter, while no copy of the GX worker comes between the *)
(* load and the store of a stale byte.                                                *)

MemoInv ==
    /\ mem \in [Pages -> Contents] /\ DOMAIN memo = Pages
    /\ \A t \in taking : t.page \in Pages /\ t.byte = stale
    /\ MemoTrue

\* No miss has been through yet (ppc_icache_reset).
LEMMA CodeInitMemo ==
    ASSUME CodeAssumption, CodeInit
    PROVE  MemoInv
  BY DEF CodeAssumption, CodeInit, MemoInv, MemoTrue

\* A page that is neither due nor stale after a step was neither before it, and was not
\* written by it.
LEMMA MemoStays ==
    ASSUME MemoInv, UNCHANGED <<memo, taking>>, taking = {},
           mem' \in [Pages -> Contents],
           \A p \in Pages : p \notin due' \cup stale'
                            => p \notin due \cup stale /\ mem'[p] = mem[p]
    PROVE  MemoInv'
  BY DEF MemoInv, MemoTrue

\* A store leaves its pages due.
LEMMA StoreMemo ==
    ASSUME CodeAssumption, MemoInv, taking = {}, NEW ps \in SUBSET Pages,
           NEW c \in Contents,
           \/ \E p \in Pages : ps = {p} /\ (StoreInlined(p, c) \/ StoreByDevice(p, c))
           \/ StoreFenced(ps, c)
    PROVE  MemoInv'
<1>1. Written(ps, c) /\ due' = due \cup ps /\ stale \subseteq stale'
      /\ UNCHANGED <<memo, taking>>
  BY DEF StoreInlined, StoreByDevice, StoreFenced, Invalidate, ContentDirty
<1>2. mem' \in [Pages -> Contents]
      /\ \A p \in Pages : p \notin ps => mem'[p] = mem[p]
  BY <1>1 DEF Written, MemoInv
<1> QED BY <1>1, <1>2, MemoStays

\* An icbi, or a restore, makes the pages it covers stale.
LEMMA DropMemo ==
    ASSUME CodeAssumption, MemoInv, taking = {}, NEW ps, DropCaches(ps),
           UNCHANGED <<memo, taking>>, mem' \in [Pages -> Contents],
           \A p \in Pages : p \in ps \/ mem'[p] = mem[p]
    PROVE  MemoInv'
<1>1. stale' = stale \cup ps /\ due' = due \ ps
  BY DEF DropCaches, Invalidate, ContentDirty
<1> QED BY <1>1, MemoStays

\* The checksum is that of the bytes in memory when the bit is taken.
LEMMA TakeMemo ==
    ASSUME MemoInv, NEW t \in taking, TakeEnds(t)
    PROVE  MemoInv'
<1>1. t.page \in Pages /\ t.byte = stale
  BY DEF MemoInv
<1>2. /\ taking' = {} /\ mem' = mem /\ due' = due
      /\ stale' = IF t.page \in stale THEN stale \ {t.page} ELSE stale
      /\ memo' = [memo EXCEPT ![t.page] = Remembered(t)]
  BY <1>1 DEF TakeEnds
<1>3. ASSUME NEW p \in Pages, p \notin due' \cup stale'
      PROVE  memo'[p] \in {"unseen", mem'[p]}
  <2>1. CASE p = t.page
    <3>1. memo'[p] = Remembered(t)
      BY <2>1, <1>1, <1>2 DEF MemoInv
    <3>2. CASE t.page \in stale \/ memo[t.page] = "unseen"
      BY <2>1, <3>1, <3>2, <1>1, <1>2 DEF Remembered
    <3>3. CASE ~(t.page \in stale \/ memo[t.page] = "unseen")
      <4>1. memo'[p] = memo[p] /\ p \notin due \cup stale
        BY <2>1, <3>1, <3>3, <1>1, <1>2, <1>3 DEF Remembered
      <4> QED BY <4>1, <1>2 DEF MemoInv, MemoTrue
    <3> QED BY <3>2, <3>3
  <2>2. CASE p # t.page
    BY <2>2, <1>2, <1>3 DEF MemoInv, MemoTrue
  <2> QED BY <2>1, <2>2
<1> QED BY <1>2, <1>3 DEF MemoInv, MemoTrue

\* Every step but those of the GX worker.
LEMMA CodeNextMemo ==
    ASSUME CodeAssumption, MemoInv, Stores \/ Runs
    PROVE  MemoInv'
<1>1. ASSUME NEW c \in Contents, NEW p \in Pages, taking = {},
             StoreInlined(p, c) \/ StoreByDevice(p, c)
      PROVE  MemoInv'
  <2>1. {p} \in SUBSET Pages
    OBVIOUS
  <2> QED BY <2>1, <1>1, StoreMemo
<1>2. ASSUME NEW c \in Contents, NEW ps \in PageRanges, taking = {}, StoreFenced(ps, c)
      PROVE  MemoInv'
  <2>1. ps \in SUBSET Pages
    BY DEF PageRanges
  <2> QED BY <2>1, <1>2, StoreMemo
<1>3. ASSUME NEW c \in Contents, taking = {}, SnapshotRestore([p \in Pages |-> c])
      PROVE  MemoInv'
  <2>1. mem' \in [Pages -> Contents] /\ DropCaches(Pages) /\ UNCHANGED <<memo, taking>>
    BY <1>3 DEF SnapshotRestore
  <2>2. \A p \in Pages : p \in Pages \/ mem'[p] = mem[p]
    OBVIOUS
  <2> QED BY <2>1, <2>2, <1>3, DropMemo
<1>4. ASSUME taking = {}, NEW ps \in PageRanges, Icbi(ps)
      PROVE  MemoInv'
  <2>1. mem' = mem /\ DropCaches(ps) /\ UNCHANGED <<memo, taking>>
    BY <1>4 DEF Icbi
  <2>2. mem \in [Pages -> Contents]
    BY DEF MemoInv
  <2> QED BY <2>1, <2>2, <1>4, DropMemo
<1>5. ASSUME NEW p \in Pages, taking = {}, DispatchNative(p) \/ DispatchMiss(p)
      PROVE  MemoInv'
  BY <1>5 DEF DispatchNative, DispatchMiss, MemoInv, MemoTrue
<1>6. CASE Stores
  BY <1>6, <1>1, <1>2, <1>3 DEF Stores
<1>7. CASE Runs
  BY <1>7, <1>4, <1>5, TakeMemo DEF Runs
<1> QED BY <1>6, <1>7

-----------------------------------------------------------------------------
(***************************************************************************)
(* Handlers return to what they interrupted, whatever the nesting, and the *)
(* guest's alarms are kept. SRR0 and SRR1 are only overwritten when nobody *)
(* needs them, because an exception clears MSR[EE], and a handler that has *)
(* not saved them yet runs with it clear (HeldClosed). The two clocks of   *)
(* the machine agree to the cycle: every charge is a whole number of ticks *)
(* and what it leaves over, and both wrap at the same time.                *)
(***************************************************************************)

Context == [pc : MainCode \cup Vectors, ee : BOOLEAN]

CpuType ==
    /\ cpu \in [at : {"boundary", "block"}, pc : MainCode \cup Vectors, ee : BOOLEAN,
                exception : BOOLEAN, srr0 : MainCode \cup Vectors, srr1 : BOOLEAN]
    /\ saved \in Seq(Context) /\ holding \in BOOLEAN

\* Interrupts stay out while a handler still needs SRR0 and SRR1.
HeldClosed == holding => ~cpu.ee

ReturnInv == CpuType /\ HeldClosed /\ ResumesInterrupted

\* What SRR0 and SRR1 hold, as a context.
Srr(c) == [pc |-> c.srr0, ee |-> c.srr1]

\* A sequence is its front and its last element.
LEMMA FrontAndLast ==
    ASSUME NEW S, NEW s \in Seq(S), s # <<>>
    PROVE  /\ SubSeq(s, 1, Len(s) - 1) \in Seq(S)
           /\ s[Len(s)] \in S
           /\ Append(SubSeq(s, 1, Len(s) - 1), s[Len(s)]) = s
<1>1. Len(s) \in Nat \ {0}
  BY EmptySeq, LenProperties
<1> DEFINE f == SubSeq(s, 1, Len(s) - 1)
<1>2. f \in Seq(S) /\ Len(f) = Len(s) - 1 /\ \A i \in 1..(Len(s) - 1) : f[i] = s[i]
  <2>1. \A i \in 1..(Len(s) - 1) : s[i] \in S
    BY <1>1, ElementOfSeq
  <2>2. 1 \in Int /\ Len(s) - 1 \in Int
    BY <1>1
  <2>3. /\ f \in Seq(S)
        /\ Len(f) = IF 1 <= Len(s) - 1 THEN Len(s) - 1 - 1 + 1 ELSE 0
        /\ \A i \in 1..(Len(s) - 1 - 1 + 1) : f[i] = s[1 + i - 1]
    BY <2>1, <2>2, SubSeqProperties
  <2>4. Len(f) = Len(s) - 1
    <3>1. Len(f) = IF 1 <= Len(s) - 1 THEN Len(s) - 1 - 1 + 1 ELSE 0
      BY <2>3
    <3>2. ASSUME NEW n \in Nat \ {0}
          PROVE  (IF 1 <= n - 1 THEN n - 1 - 1 + 1 ELSE 0) = n - 1
      OBVIOUS
    <3> QED BY ONLY <1>1, <3>1, <3>2
  <2>5. \A i \in 1..(Len(s) - 1) : f[i] = s[1 + i - 1] /\ 1 + i - 1 = i
    <3> HIDE DEF f
    <3> QED BY <1>1, <2>3
  <2> QED BY <2>3, <2>4, <2>5
<1>3. s[Len(s)] \in S
  BY <1>1, ElementOfSeq
<1>4. Append(f, s[Len(s)]) \in Seq(S) /\ Len(Append(f, s[Len(s)])) = Len(s)
  BY <1>1, <1>2, <1>3, AppendProperties
<1>5. \A i \in 1..Len(s) : Append(f, s[Len(s)])[i] = s[i]
  BY <1>1, <1>2, <1>3, AppendProperties
<1>6. Append(f, s[Len(s)]) = s
  BY <1>4, <1>5, SeqEqual
<1> QED BY <1>2, <1>3, <1>6

\* The front of a sequence with an element appended is the sequence.
LEMMA FrontOfAppend ==
    ASSUME NEW S, NEW s \in Seq(S), NEW e \in S
    PROVE  SubSeq(Append(s, e), 1, Len(Append(s, e)) - 1) = s
<1>1. Append(s, e) \in Seq(S) /\ Len(Append(s, e)) = Len(s) + 1 /\ Len(s) \in Nat
      /\ \A i \in 1..Len(s) : Append(s, e)[i] = s[i]
  BY AppendProperties, LenProperties
<1> DEFINE f == SubSeq(Append(s, e), 1, Len(s))
<1>2. f \in Seq(S) /\ Len(f) = Len(s) /\ \A i \in 1..Len(s) : f[i] = Append(s, e)[i]
  <2>1. \A i \in 1..Len(s) : Append(s, e)[i] \in S
    BY <1>1, ElementOfSeq
  <2>2. 1 \in Int /\ Len(s) \in Int
    BY <1>1
  <2>3. /\ f \in Seq(S)
        /\ Len(f) = IF 1 <= Len(s) THEN Len(s) - 1 + 1 ELSE 0
        /\ \A i \in 1..(Len(s) - 1 + 1) : f[i] = Append(s, e)[1 + i - 1]
    BY <2>1, <2>2, SubSeqProperties
  <2> QED BY <1>1, <2>3
<1>3. f = s
  BY <1>1, <1>2, SeqEqual
<1> QED BY <1>1, <1>3

\* The seed's registers, and no handler running.
LEMMA CpuInitReturn ==
    ASSUME CpuAssumption, CpuInit
    PROVE  ReturnInv
<1>1. Entry \in MainCode
  BY DEF CpuAssumption, Entry
<1>2. cpu \in [at : {"boundary", "block"}, pc : MainCode \cup Vectors, ee : BOOLEAN,
               exception : BOOLEAN, srr0 : MainCode \cup Vectors, srr1 : BOOLEAN]
      /\ cpu.ee = FALSE
  BY <1>1 DEF CpuInit
<1>3. saved = <<>> /\ holding = FALSE /\ interrupted = <<>>
  BY DEF CpuInit
<1>4. saved \in Seq(Context)
  BY <1>3, EmptySeq
<1> QED BY <1>2, <1>3, <1>4 DEF ReturnInv, CpuType, HeldClosed, ResumesInterrupted

\* An exception taken by registers c that nobody needs SRR0 and SRR1 of.
LEMMA TakeKeepsReturn ==
    ASSUME ReturnInv, ~holding, NEW vector \in Vectors, NEW c,
           c = cpu \/ c = Running,
           NEW at \in {"boundary", "block"},
           cpu' = [TakeException(c, vector, cpu.pc) EXCEPT !.at = at],
           Interrupts(cpu.pc), saved' = saved
    PROVE  ReturnInv'
<1>1. cpu.pc \in MainCode \cup Vectors /\ cpu.ee \in BOOLEAN
  BY DEF ReturnInv, CpuType
<1>2. c.ee = cpu.ee /\ c \in [at : {"boundary", "block"}, pc : MainCode \cup Vectors,
                              ee : BOOLEAN, exception : BOOLEAN,
                              srr0 : MainCode \cup Vectors, srr1 : BOOLEAN]
  BY DEF ReturnInv, CpuType, Running
<1>3. cpu' = [c EXCEPT !.srr0 = cpu.pc, !.srr1 = cpu.ee, !.ee = FALSE,
                       !.exception = TRUE, !.pc = vector, !.at = at]
  BY <1>2 DEF TakeException
<1>4. CpuType' /\ HeldClosed'
  BY <1>1, <1>2, <1>3 DEF ReturnInv, CpuType, HeldClosed, Interrupts
<1>5. cpu'.srr0 = cpu.pc /\ cpu'.srr1 = cpu.ee
  BY <1>2, <1>3
<1> QED BY <1>4, <1>5 DEF ReturnInv, ResumesInterrupted, Interrupts

\* The boundary: at most one interrupt is taken, and nothing else happens to the CPU.
LEMMA DeliverReturn ==
    ASSUME ReturnInv, Deliver
    PROVE  ReturnInv'
<1> DEFINE external    == Listening /\ intsr \cap intmr # {}
           decrementer == Listening /\ ~external /\ time.pending
<1>1. CASE external
  <2>1. cpu' = [TakeException(cpu, "external", cpu.pc) EXCEPT !.at = "block"]
        /\ Interrupts(cpu.pc) /\ saved' = saved /\ ~holding
    BY <1>1 DEF Deliver, Listening, ReturnInv, HeldClosed
  <2> QED BY <2>1, TakeKeepsReturn DEF Vectors
<1>2. CASE decrementer
  <2>1. cpu' = [TakeException(cpu, "decrementer", cpu.pc) EXCEPT !.at = "block"]
        /\ Interrupts(cpu.pc) /\ saved' = saved /\ ~holding
    BY <1>2 DEF Deliver, Listening, ReturnInv, HeldClosed
  <2> QED BY <2>1, TakeKeepsReturn DEF Vectors
<1>3. CASE ~external /\ ~decrementer
  <2>1. cpu' = [cpu EXCEPT !.at = "block"] /\ UNCHANGED <<interrupted, holding, saved>>
    BY <1>3 DEF Deliver
  <2> QED BY <2>1 DEF ReturnInv, CpuType, HeldClosed, ResumesInterrupted
<1> QED BY <1>1, <1>2, <1>3

\* A block that leaves SRR0 and SRR1, and what is held, alone.
LEMMA BlockKeepsReturn ==
    ASSUME ReturnInv, NEW c, NEW t, Block(c, t),
           c \in [at : {"boundary", "block"}, pc : MainCode \cup Vectors, ee : BOOLEAN,
                  exception : BOOLEAN, srr0 : MainCode \cup Vectors, srr1 : BOOLEAN],
           c.srr0 = cpu.srr0, c.srr1 = cpu.srr1, holding => ~c.ee,
           UNCHANGED <<saved, holding, interrupted>>
    PROVE  ReturnInv'
<1>1. cpu' = [c EXCEPT !.at = "boundary"]
  BY DEF Block
<1>2. cpu'.srr0 = cpu.srr0 /\ cpu'.srr1 = cpu.srr1 /\ cpu'.ee = c.ee
  BY <1>1
<1> QED BY <1>1, <1>2 DEF ReturnInv, CpuType, HeldClosed, ResumesInterrupted

\* Every step of the CPU, one resumed elsewhere included.
LEMMA CpuNextReturn ==
    ASSUME CpuAssumption, ReturnInv, CpuNext \/ SnapshotResumed
    PROVE  ReturnInv'
<1> DEFINE Registers == [at : {"boundary", "block"}, pc : MainCode \cup Vectors,
                         ee : BOOLEAN, exception : BOOLEAN,
                         srr0 : MainCode \cup Vectors, srr1 : BOOLEAN]
<1>0. cpu \in Registers /\ Running \in Registers
      /\ Running.srr0 = cpu.srr0 /\ Running.srr1 = cpu.srr1 /\ Running.ee = cpu.ee
      /\ (holding => ~Running.ee)
  BY DEF ReturnInv, CpuType, HeldClosed, Running
<1>1. CASE Deliver
  BY <1>1, DeliverReturn
<1>2. CASE Compute
  <2>1. PICK pc \in (IF InMain THEN MainCode ELSE {cpu.pc}) :
            Block([Running EXCEPT !.pc = pc], time)
    BY <1>2 DEF Compute
  <2>2. pc \in MainCode \cup Vectors
    BY <1>0
  <2> DEFINE c == [Running EXCEPT !.pc = pc]
  <2>3. c \in Registers /\ c.srr0 = cpu.srr0 /\ c.srr1 = cpu.srr1 /\ (holding => ~c.ee)
    BY <1>0, <2>2
  <2> HIDE DEF c
  <2> QED BY <1>2, <2>1, <2>3, BlockKeepsReturn DEF Compute, c
<1>3. CASE SystemCall
  <2>1. cpu' = [TakeException(Running, "system call", cpu.pc) EXCEPT !.at = "boundary"]
        /\ ~holding /\ Interrupts(cpu.pc) /\ saved' = saved
    BY <1>3 DEF SystemCall, Block
  <2> QED BY <2>1, TakeKeepsReturn DEF Vectors
<1>4. CASE Enable
  <2>1. cpu' = [[Running EXCEPT !.ee = TRUE] EXCEPT !.at = "boundary"]
        /\ holding' = FALSE /\ interrupted' = interrupted
        /\ saved' = IF holding THEN Append(saved, Srr(cpu)) ELSE saved
    BY <1>4 DEF Enable, Block, Srr
  <2>2. Srr(cpu) \in Context
    BY <1>0 DEF Srr, Context
  <2>3. saved' \in Seq(Context)
    BY <2>1, <2>2, AppendProperties DEF ReturnInv, CpuType
  <2>4. CpuType' /\ HeldClosed'
    BY <1>0, <2>1, <2>3 DEF CpuType, HeldClosed
  <2> QED BY <2>1, <2>4 DEF ReturnInv, ResumesInterrupted, Srr
<1>5. CASE Disable
  <2> DEFINE c == [Running EXCEPT !.ee = FALSE]
  <2>1. c \in Registers /\ c.srr0 = cpu.srr0 /\ c.srr1 = cpu.srr1 /\ ~c.ee
    BY <1>0
  <2>2. Block(c, time) /\ UNCHANGED <<saved, holding, interrupted>>
    BY <1>5 DEF Disable
  <2> HIDE DEF c
  <2> QED BY <2>1, <2>2, BlockKeepsReturn
<1>6. CASE Restore
  <2> DEFINE last == saved[Len(saved)]
  <2>1. cpu' = [[Running EXCEPT !.srr0 = last.pc, !.srr1 = last.ee] EXCEPT !.at = "boundary"]
        /\ saved # <<>> /\ saved' = SubSeq(saved, 1, Len(saved) - 1)
        /\ ~cpu.ee /\ ~holding /\ holding' /\ interrupted' = interrupted
    BY <1>6 DEF Restore, Block
  <2>2. holding' = TRUE
    BY <1>6 DEF Restore
  <2>3. saved \in Seq(Context)
    BY DEF ReturnInv, CpuType
  <2>4. saved' \in Seq(Context) /\ last \in Context /\ Append(saved', last) = saved
    BY <2>1, <2>3, FrontAndLast
  <2>5. last.pc \in MainCode \cup Vectors /\ last.ee \in BOOLEAN
        /\ last = [pc |-> last.pc, ee |-> last.ee]
    BY <2>4 DEF Context
  <2> HIDE DEF last
  <2>6. cpu' \in Registers /\ cpu'.srr0 = last.pc /\ cpu'.srr1 = last.ee /\ ~cpu'.ee
    BY <1>0, <2>1, <2>5
  <2>7. CpuType' /\ HeldClosed'
    BY <2>2, <2>4, <2>6 DEF CpuType, HeldClosed
  <2>8. interrupted' = Append(saved', [pc |-> cpu'.srr0, ee |-> cpu'.srr1])
    BY <2>1, <2>4, <2>5, <2>6 DEF ReturnInv, ResumesInterrupted
  <2> QED BY <2>2, <2>7, <2>8 DEF ReturnInv, ResumesInterrupted
<1>7. CASE Rfi
  <2>1. cpu' = [[Running EXCEPT !.pc = cpu.srr0, !.ee = cpu.srr1] EXCEPT !.at = "boundary"]
        /\ holding /\ holding' = FALSE /\ saved' = saved
        /\ interrupted' = SubSeq(interrupted, 1, Len(interrupted) - 1)
    BY <1>7 DEF Rfi, Block
  <2>2. CpuType' /\ HeldClosed'
    BY <1>0, <2>1 DEF ReturnInv, CpuType, HeldClosed
  <2>3. Srr(cpu) \in Context /\ saved \in Seq(Context)
    BY <1>0 DEF Srr, Context, ReturnInv, CpuType
  <2>4. interrupted = Append(saved, Srr(cpu))
    BY <2>1 DEF ReturnInv, ResumesInterrupted, Srr
  <2>5. interrupted' = saved
    BY <2>1, <2>3, <2>4, FrontOfAppend
  <2> QED BY <2>1, <2>2, <2>5 DEF ReturnInv, ResumesInterrupted
<1>8. ASSUME NEW dec, WriteDec(dec) PROVE ReturnInv'
  BY <1>0, <1>8, BlockKeepsReturn DEF WriteDec
<1>9. CASE WriteTimebase(0)
  BY <1>0, <1>9, BlockKeepsReturn DEF WriteTimebase
<1>10. ASSUME NEW causes, WriteIntmr(causes) PROVE ReturnInv'
  BY <1>0, <1>10, BlockKeepsReturn DEF WriteIntmr
<1>11. CASE SnapshotResumed
  <2>1. cpu' = [cpu EXCEPT !.at = "boundary"] /\ UNCHANGED <<saved, holding, interrupted>>
    BY <1>11 DEF SnapshotResumed
  <2> QED BY <2>1 DEF ReturnInv, CpuType, HeldClosed, ResumesInterrupted
<1> QED BY <1>1, <1>2, <1>3, <1>4, <1>5, <1>6, <1>7, <1>8, <1>9, <1>10, <1>11 DEF CpuNext
-----------------------------------------------------------------------------
(* The time base and the clock of the devices. *)

TimeType ==
    /\ time \in [timebase : Int, remainder : Int, device : Int, dec : Int,
                 pending : BOOLEAN]
    /\ origin \in Int

Wrap == TbRatio * TbModulus

\* How far the time base, counted in cycles, is from the clock of the devices.
Apart(t, o) == TbRatio * t.timebase + t.remainder + o - t.device

TimeInv == TimeType /\ \E k \in Int : Apart(time, origin) = k * Wrap

\* What \div and % are.
LEMMA Divides ==
    \A a \in Int, d \in Nat \ {0} :
        a \div d \in Int /\ a % d \in Int /\ a = d * (a \div d) + (a % d)
  OBVIOUS

\* A charge moves the two clocks by as much, but for whole turns.
LEMMA ChargedApart ==
    ASSUME CpuAssumption, NEW cycles \in Nat, NEW o \in Int,
           NEW t \in [timebase : Int, remainder : Int, device : Int, dec : Int,
                      pending : BOOLEAN]
    PROVE  /\ Charged(t, cycles) \in [timebase : Int, remainder : Int, device : Int,
                                      dec : Int, pending : BOOLEAN]
           /\ \E j \in Int : Apart(Charged(t, cycles), o) = Apart(t, o) + j * Wrap
<1> DEFINE n     == Ticks(t, cycles).ticks
           left  == Ticks(t, cycles).left
           spent == IF cycles = 0 THEN TbRatio * UniformTicks ELSE cycles
           u     == Charged(t, cycles)
<1>1. TbRatio \in Nat \ {0} /\ TbModulus \in Nat \ {0} /\ UniformTicks \in Nat
      /\ DecModulus \in Nat \ {0}
  BY DEF CpuAssumption
<1>2. Wrap \in Nat \ {0} /\ Wrap = TbRatio * TbModulus
  BY <1>1 DEF Wrap
<1>3. t.timebase \in Int /\ t.remainder \in Int /\ t.device \in Int /\ t.dec \in Int
      /\ t.pending \in BOOLEAN
  OBVIOUS
<1>4. n \in Int /\ left \in Int /\ spent \in Int /\ TbRatio * n + left = spent + t.remainder
  <2>1. CASE cycles = 0
    BY <2>1, <1>1, <1>3 DEF Ticks
  <2>2. CASE cycles # 0
    <3>1. cycles + t.remainder \in Int
      BY <1>3
    <3>2. n = (cycles + t.remainder) \div TbRatio /\ left = (cycles + t.remainder) % TbRatio
      BY <2>2 DEF Ticks
    <3>3. n \in Int /\ left \in Int /\ cycles + t.remainder = TbRatio * n + left
      BY <3>1, <3>2, <1>1, Divides, Zenon
    <3>4. spent = cycles
      BY <2>2
    <3> HIDE DEF n, left, spent
    <3> QED BY <3>3, <3>4, <1>1, <1>3
  <2> QED BY <2>1, <2>2
<1>5. u.timebase = (t.timebase + n) % TbModulus /\ u.remainder = left
      /\ u.device = (t.device + spent) % Wrap
  BY DEF Charged, Wrap
<1>6. u \in [timebase : Int, remainder : Int, device : Int, dec : Int, pending : BOOLEAN]
  <2>1. (t.timebase + n) % TbModulus \in Int /\ (t.device + spent) % Wrap \in Int
        /\ (t.dec - n) % DecModulus \in Int
    <3>1. t.timebase + n \in Int /\ t.device + spent \in Int /\ t.dec - n \in Int
      BY <1>3, <1>4
    <3> QED BY <3>1, <1>1, <1>2, Divides, Zenon
  <2>2. (t.pending \/ (~Negative(t.dec) /\ Negative((t.dec - n) % DecModulus))) \in BOOLEAN
    BY <1>3
  <2> QED BY <1>4, <2>1, <2>2 DEF Charged, Wrap
<1> HIDE DEF n, left, spent, u
<1> DEFINE q == (t.timebase + n) \div TbModulus
           r == (t.device + spent) \div Wrap
<1>7. q \in Int /\ u.timebase = t.timebase + n - TbModulus * q
  <2>1. t.timebase + n \in Int BY <1>3, <1>4
  <2>2. q \in Int /\ u.timebase \in Int /\ t.timebase + n = TbModulus * q + u.timebase
    BY <2>1, <1>1, <1>5, Divides, Zenon
  <2> HIDE DEF q
  <2> HIDE DEF q, r
  <2>3. TbModulus * q \in Int /\ n \in Int
    BY <2>2, <1>1, <1>4
  <2> DEFINE p == TbModulus * q
  <2> HIDE DEF p
  <2>4. p \in Int /\ t.timebase + n = p + u.timebase /\ u.timebase \in Int
    BY <2>2, <2>3 DEF p
  <2>5. u.timebase = t.timebase + n - p
    BY <2>3, <2>4, <1>3
  <2> QED BY <2>2, <2>5 DEF p
<1>8. r \in Int /\ u.device = t.device + spent - Wrap * r
  <2>1. t.device + spent \in Int BY <1>3, <1>4
  <2>2. r \in Int /\ u.device \in Int /\ t.device + spent = Wrap * r + u.device
    BY <2>1, <1>2, <1>5, Divides, Zenon
  <2> HIDE DEF r
  <2> QED BY <2>2, <1>2, <1>3, <1>4
<1> HIDE DEF q, r
<1>9. TbRatio * u.timebase = TbRatio * t.timebase + TbRatio * n - Wrap * q
  <2>1. TbRatio * (t.timebase + n - TbModulus * q)
            = TbRatio * t.timebase + TbRatio * n - (TbRatio * TbModulus) * q
    BY <1>1, <1>3, <1>4, <1>7
  <2> QED BY <2>1, <1>2, <1>7
<1>10. Wrap * q = q * Wrap /\ Wrap * r = r * Wrap /\ (r - q) * Wrap = r * Wrap - q * Wrap
       /\ q * Wrap \in Int /\ r * Wrap \in Int /\ TbRatio * n \in Int
       /\ TbRatio * t.timebase \in Int
  BY <1>1, <1>2, <1>3, <1>4, <1>7, <1>8
<1>11. Apart(u, o) = Apart(t, o) + (r - q) * Wrap
  <2>1. Apart(u, o) = TbRatio * u.timebase + left + o - u.device
        /\ Apart(t, o) = TbRatio * t.timebase + t.remainder + o - t.device
    BY <1>5 DEF Apart
  <2> QED BY <2>1, <1>3, <1>4, <1>8, <1>9, <1>10
<1>12. r - q \in Int
  BY <1>7, <1>8
<1> QED BY <1>6, <1>11, <1>12 DEF u

\* So a block keeps them together, if what it wrote itself does.
LEMMA BlockApart ==
    ASSUME CpuAssumption, NEW c, NEW o \in Int,
           NEW t \in [timebase : Int, remainder : Int, device : Int, dec : Int,
                      pending : BOOLEAN],
           Block(c, t), origin' = o,
           \E k \in Int : Apart(t, o) = k * Wrap
    PROVE  TimeInv'
<1>1. PICK cycles \in BlockCycles : time' = Charged(t, cycles)
  BY DEF Block
<1>2. cycles \in Nat
  BY DEF CpuAssumption
<1>3. PICK j \in Int : Apart(time', o) = Apart(t, o) + j * Wrap
  BY <1>1, <1>2, ChargedApart
<1>4. PICK k \in Int : Apart(t, o) = k * Wrap
  OBVIOUS
<1>5. Wrap \in Int
  BY DEF Wrap, CpuAssumption
<1>6. Apart(time', o) = (k + j) * Wrap /\ k + j \in Int
  BY <1>3, <1>4, <1>5
<1>7. TimeType'
  BY <1>1, <1>2, ChargedApart DEF TimeType
<1>8. Apart(time', origin') = (k + j) * Wrap
  BY <1>6
<1> QED BY <1>6, <1>7, <1>8 DEF TimeInv, Wrap, Apart

\* All counters begin together.
LEMMA CpuInitTime ==
    ASSUME CpuAssumption, CpuInit
    PROVE  TimeInv
<1>1. TimeType
  BY DEF CpuInit, TimeType, CpuAssumption
<1>2. TbRatio \in Int /\ Wrap \in Int
  BY DEF CpuAssumption, Wrap
<1>3. Apart(time, origin) = 0 * Wrap
  BY <1>2 DEF CpuInit, Apart
<1> QED BY <1>1, <1>3 DEF TimeInv

\* Every step of the CPU: a charge, a write of a counter, or none of the two.
LEMMA CpuNextTime ==
    ASSUME CpuAssumption, TimeInv, CpuNext \/ SnapshotResumed
    PROVE  TimeInv'
<1> DEFINE Counters == [timebase : Int, remainder : Int, device : Int, dec : Int,
                        pending : BOOLEAN]
<1>0. time \in Counters /\ origin \in Int /\ \E k \in Int : Apart(time, origin) = k * Wrap
  BY DEF TimeInv, TimeType
<1>1. ASSUME NEW pending \in BOOLEAN, time' = [time EXCEPT !.pending = pending],
             origin' = origin
      PROVE  TimeInv'
  <2>1. time' \in Counters /\ Apart(time', origin') = Apart(time, origin)
    BY <1>0, <1>1 DEF Apart
  <2> QED BY <2>1, <1>0, <1>1 DEF TimeInv, TimeType, Apart, Wrap
<1>2. ASSUME NEW c, Block(c, time), origin' = origin
      PROVE  TimeInv'
  BY <1>0, <1>2, BlockApart
<1>3. CASE Deliver
  <2>1. PICK taken \in BOOLEAN : time' = [time EXCEPT !.pending = Pending(taken)]
                                /\ origin' = origin
    BY <1>3 DEF Deliver, Listening
  <2>2. Pending(taken) \in BOOLEAN
    BY <1>0 DEF Pending
  <2> QED BY <2>1, <2>2, <1>1
<1>4. CASE Compute \/ SystemCall \/ Enable \/ Disable \/ Restore \/ Rfi
  BY <1>4, <1>2 DEF Compute, SystemCall, Enable, Disable, Restore, Rfi
<1>5. ASSUME NEW dec \in {0, DecModulus - 1}, WriteDec(dec) PROVE TimeInv'
  <2> DEFINE t == [time EXCEPT !.dec = dec, !.pending = @ /\ Negative(dec)]
  <2>1. dec \in Int
    BY DEF CpuAssumption
  <2>2. t \in Counters /\ Apart(t, origin) = Apart(time, origin)
    BY <1>0, <2>1 DEF Apart
  <2>3. Block(Running, t) /\ origin' = origin
    BY <1>5 DEF WriteDec
  <2> HIDE DEF t
  <2> QED BY <2>2, <2>3, <1>0, BlockApart
<1>6. CASE WriteTimebase(0)
  <2> DEFINE t == [time EXCEPT !.timebase = 0]
             a == time.device - time.remainder - TbRatio * 0
  <2>1. t \in Counters /\ a \in Int /\ Wrap \in Nat \ {0} /\ TbRatio \in Int
    <3>1. TbRatio \in Nat \ {0} /\ TbModulus \in Nat \ {0}
      BY DEF CpuAssumption
    <3>2. Wrap \in Nat \ {0}
      BY <3>1 DEF Wrap
    <3>3. time.device \in Int /\ time.remainder \in Int /\ TbRatio * 0 = 0
      BY <1>0, <3>1
    <3>4. a \in Int
      BY <3>3
    <3>5. t \in Counters
      BY <1>0
    <3> QED BY <3>1, <3>2, <3>4, <3>5
  <2>2. Block(Running, t) /\ origin' = a % Wrap
    BY <1>6 DEF WriteTimebase, Wrap
  <2>3. a % Wrap \in Int /\ a \div Wrap \in Int /\ a = Wrap * (a \div Wrap) + (a % Wrap)
    BY <2>1, Divides
  <2>4. Apart(t, a % Wrap) = (0 - (a \div Wrap)) * Wrap
    <3>1. t.timebase = 0 /\ t.remainder = time.remainder /\ t.device = time.device
          /\ time.remainder \in Int /\ time.device \in Int
      BY <1>0
    <3>2. Apart(t, a % Wrap) = (a % Wrap) - a
      BY <3>1, <2>1, <2>3 DEF Apart
    <3>3. (0 - (a \div Wrap)) * Wrap = 0 - Wrap * (a \div Wrap)
      BY <2>1, <2>3
    <3> HIDE DEF a, t
    <3> QED BY <3>2, <3>3, <2>1, <2>3
  <2>5. 0 - (a \div Wrap) \in Int
    BY <2>3
  <2> HIDE DEF a, t
  <2> QED BY <2>1, <2>2, <2>3, <2>4, <2>5, BlockApart
<1>7. ASSUME NEW causes, WriteIntmr(causes) PROVE TimeInv'
  BY <1>2, <1>7 DEF WriteIntmr
<1>8. CASE SnapshotResumed
  BY <1>8, <1>1 DEF SnapshotResumed
<1> QED BY <1>3, <1>4, <1>5, <1>6, <1>7, <1>8 DEF CpuNext

\* Apart by whole turns only, the clocks agree.
LEMMA TimeInvKept ==
    ASSUME CpuAssumption, TimeInv
    PROVE  TimeKept
<1>1. PICK k \in Int : Apart(time, origin) = k * Wrap
  BY DEF TimeInv
<1>2. Wrap \in Nat \ {0}
  BY DEF CpuAssumption, Wrap
<1>3. ASSUME NEW d \in Nat \ {0} PROVE (k * d) % d = 0
  OBVIOUS
<1> QED BY <1>1, <1>2, <1>3 DEF TimeKept, Apart, Wrap

-----------------------------------------------------------------------------
(* The alarms. *)

\* Every step of the CPU but a resumption elsewhere: the interrupt goes only to its
\* handler, or when the guest sets a new time.
LEMMA CpuNextDecrementer ==
    ASSUME TimeInv, DecrementerKept, CpuNext
    PROVE  DecrementerKept'
<1>1. ASSUME NEW c, NEW t, Block(c, t) PROVE DecrementerKept'
  <2>1. PICK cycles \in BlockCycles :
            /\ time' = Charged(t, cycles)
            /\ owed' = \/ owed /\ t.pending = time.pending
                       \/ ~Negative(t.dec) /\ Negative(time'.dec)
    BY <1>1 DEF Block
  <2>2. time'.pending = (t.pending \/ (~Negative(t.dec) /\ Negative(time'.dec)))
    BY <2>1, Zenon DEF Charged
  <2> QED BY <2>1, <2>2, Zenon DEF DecrementerKept
<1>2. CASE Deliver
  <2>1. time \in [timebase : Int, remainder : Int, device : Int, dec : Int,
                  pending : BOOLEAN]
    BY DEF TimeInv, TimeType
  <2> QED BY <1>2, <2>1 DEF Deliver, Pending, DecrementerKept
<1>3. CASE ~Deliver
  BY <1>1, <1>3 DEF CpuNext, Compute, SystemCall, Enable, Disable, Restore, Rfi, WriteDec,
                    WriteTimebase, WriteIntmr
<1> QED BY <1>2, <1>3
-----------------------------------------------------------------------------
(* The boundary. *)

\* An exception that has been taken and not entered yet keeps interrupts out by itself.
FlagInv == cpu.exception => ~cpu.ee

\* A block clears the flag before it runs, and only raises it again with EE clear.
LEMMA CpuNextFlag ==
    ASSUME ReturnInv, FlagInv, CpuNext \/ SnapshotResumed
    PROVE  FlagInv'
<1> DEFINE Registers == [at : {"boundary", "block"}, pc : MainCode \cup Vectors,
                         ee : BOOLEAN, exception : BOOLEAN,
                         srr0 : MainCode \cup Vectors, srr1 : BOOLEAN]
<1>0. cpu \in Registers
  BY DEF ReturnInv, CpuType
<1>1. CASE Compute \/ Enable \/ Disable \/ Restore \/ Rfi
  <2>1. cpu'.exception = FALSE
    BY <1>0, <1>1 DEF Compute, Enable, Disable, Restore, Rfi, Block, Running
  <2> QED BY <2>1 DEF FlagInv
<1>2. CASE SystemCall
  <2>1. cpu'.ee = FALSE
    BY <1>0, <1>2 DEF SystemCall, Block, Running, TakeException
  <2> QED BY <2>1 DEF FlagInv
<1>3. CASE \/ \E dec \in {0, DecModulus - 1} : WriteDec(dec)
           \/ WriteTimebase(0)
           \/ \E causes \in {{}, Causes} : WriteIntmr(causes)
  <2>1. cpu'.exception = FALSE
    BY <1>0, <1>3 DEF WriteDec, WriteTimebase, WriteIntmr, Block, Running
  <2> QED BY <2>1 DEF FlagInv
<1>4. CASE Deliver
  <2>1. \/ cpu' = [cpu EXCEPT !.at = "block"]
        \/ cpu'.ee = FALSE
    BY <1>0, <1>4 DEF Deliver, TakeException
  <2> QED BY <1>0, <2>1 DEF FlagInv
<1>5. CASE SnapshotResumed
  BY <1>0, <1>5 DEF SnapshotResumed, FlagInv
<1> QED BY <1>1, <1>2, <1>3, <1>4, <1>5 DEF CpuNext

\* A block that begins with interrupts enabled found none waiting.
LEMMA BoundaryTaken ==
    ASSUME ReturnInv, FlagInv, TimeInv, CpuNext \/ SnapshotResumed,
           cpu.at = "boundary", cpu'.at = "block", cpu'.ee
    PROVE  intsr \cap intmr = {} /\ ~time'.pending
<1>1. cpu \in [at : {"boundary", "block"}, pc : MainCode \cup Vectors, ee : BOOLEAN,
               exception : BOOLEAN, srr0 : MainCode \cup Vectors, srr1 : BOOLEAN]
  BY DEF ReturnInv, CpuType
<1>2. Deliver
  BY DEF CpuNext, Compute, SystemCall, Enable, Disable, Restore, Rfi, WriteDec,
         WriteTimebase, WriteIntmr, SnapshotResumed, Block
<1>3. ~(Listening /\ intsr \cap intmr # {})
  BY <1>1, <1>2 DEF Deliver, TakeException
<1>4. ~(Listening /\ time.pending)
  BY <1>1, <1>2, <1>3 DEF Deliver, TakeException
<1>5. cpu.ee /\ Listening
  BY <1>1, <1>2, <1>3, <1>4 DEF Deliver, FlagInv, Listening
<1>6. time' = [time EXCEPT !.pending = time.pending /\ ~FALSE]
  BY <1>2, <1>3, <1>4 DEF Deliver, Pending
<1> QED BY <1>3, <1>4, <1>5, <1>6 DEF TimeInv, TimeType

-----------------------------------------------------------------------------
(***************************************************************************)
(* Types. What the invariants above do not say of them: every set of pages *)
(* and every byte that is held while another thread may write it is of     *)
(* pages, counters stay below their moduli, and handlers below the bound   *)
(* on their nesting.                                                       *)
(***************************************************************************)

CodeTyped ==
    /\ mem \in [Pages -> Contents]
    /\ fence \subseteq Pages /\ stale \subseteq Pages /\ due \subseteq Pages
    /\ covered \subseteq Pages
    /\ chunk \in {"UNVERIFIED", "VERIFIED", "FAILED"}
    /\ resident \in [OverlayPages -> {"UNKNOWN", "NONE"} \cup Variants]
    /\ memo \in [Pages -> {"unseen"} \cup Contents]
    /\ \A t \in taking : t.page \in Pages /\ t.byte \subseteq Pages
    /\ taking = {} \/ \E t \in taking : taking = {t}
    /\ copier \in [at : {"idle", "load", "store"}, page : SUBSET Pages, byte : SUBSET Pages]
    /\ misran \in BOOLEAN

\* Nothing is known at power-on.
LEMMA CodeInitTyped ==
    ASSUME CodeAssumption, CodeInit
    PROVE  CodeTyped
<1>1. mem \in [Pages -> Contents]
  BY DEF CodeAssumption, CodeInit
<1>2. resident \in [OverlayPages -> {"UNKNOWN", "NONE"} \cup Variants]
      /\ memo \in [Pages -> {"unseen"} \cup Contents]
  BY DEF CodeInit
<1> QED BY <1>1, <1>2 DEF CodeInit, CodeTyped

\* A write, and a set of bits that is raised.
LEMMA StoresTyped ==
    ASSUME CodeAssumption, CodeTyped, Stores
    PROVE  CodeTyped'
<1>1. ASSUME NEW ps \in SUBSET Pages, NEW c \in Contents, Written(ps, c)
      PROVE  mem' \in [Pages -> Contents]
  BY <1>1 DEF Written, CodeTyped
<1>2. ASSUME NEW c \in Contents, NEW p \in Pages, StoreInlined(p, c) PROVE CodeTyped'
  <2>1. mem' \in [Pages -> Contents]
    BY <1>1, <1>2 DEF StoreInlined
  <2> QED BY <1>2, <2>1 DEF StoreInlined, CodeTyped
<1>3. ASSUME NEW c \in Contents, NEW p \in Pages, StoreByDevice(p, c) PROVE CodeTyped'
  <2>1. mem' \in [Pages -> Contents]
    BY <1>1, <1>3 DEF StoreByDevice
  <2> QED BY <1>3, <2>1 DEF StoreByDevice, ContentDirty, CodeTyped
<1>4. ASSUME NEW c \in Contents, NEW ps \in SUBSET Pages, StoreFenced(ps, c) PROVE CodeTyped'
  <2>1. mem' \in [Pages -> Contents]
    BY <1>1, <1>4 DEF StoreFenced
  <2> QED BY <1>4, <2>1 DEF StoreFenced, Invalidate, ContentDirty, CodeTyped
<1>5. ASSUME NEW c \in Contents, SnapshotRestore([p \in Pages |-> c]) PROVE CodeTyped'
  <2>1. mem' \in [Pages -> Contents]
    BY <1>5 DEF SnapshotRestore
  <2>2. resident' \in [OverlayPages -> {"UNKNOWN", "NONE"} \cup Variants]
    BY <1>5 DEF SnapshotRestore, DropCaches, CodeTyped
  <2> QED BY <1>5, <2>1, <2>2 DEF SnapshotRestore, DropCaches, Invalidate, ContentDirty,
                                  CodeTyped
<1>6. PageRanges \subseteq SUBSET Pages
  BY DEF PageRanges
<1> QED BY <1>2, <1>3, <1>4, <1>5, <1>6 DEF Stores

\* icbi, a dispatch, and a miss that ends.
LEMMA RunsTyped ==
    ASSUME CodeAssumption, CodeTyped, Runs
    PROVE  CodeTyped'
<1>1. PageRanges \subseteq SUBSET Pages
  BY DEF PageRanges
<1>2. ASSUME NEW ps \in SUBSET Pages, Icbi(ps) PROVE CodeTyped'
  <2>1. resident' \in [OverlayPages -> {"UNKNOWN", "NONE"} \cup Variants]
    BY <1>2 DEF Icbi, DropCaches, CodeTyped
  <2> QED BY <1>2, <2>1 DEF Icbi, DropCaches, Invalidate, ContentDirty, CodeTyped
<1>3. ChunkLooked \in {"UNVERIFIED", "VERIFIED", "FAILED"}
  BY DEF ChunkLooked, CodeTyped
<1>4. ASSUME NEW p \in OverlayPages
      PROVE  ResidentLooked(p) \in {"UNKNOWN", "NONE"} \cup Variants
  BY <1>4 DEF ResidentLooked, CodeTyped
<1>5. ASSUME NEW p \in Pages, DispatchNative(p) PROVE CodeTyped'
  <2>1. resident' \in [OverlayPages -> {"UNKNOWN", "NONE"} \cup Variants]
    BY <1>4, <1>5 DEF DispatchNative, LooksOverlay, CodeTyped
  <2>2. misran' \in BOOLEAN
    BY <1>5 DEF DispatchNative, Ran
  <2> QED BY <1>3, <1>5, <2>1, <2>2 DEF DispatchNative, CodeTyped
<1>6. ASSUME NEW p \in Pages, DispatchMiss(p) PROVE CodeTyped'
  <2>1. resident' \in [OverlayPages -> {"UNKNOWN", "NONE"} \cup Variants]
    BY <1>6 DEF DispatchMiss, CodeTyped
  <2>2. taking' = {[page |-> p, byte |-> stale]}
    BY <1>6 DEF DispatchMiss
  <2> QED BY <1>3, <1>6, <2>1, <2>2 DEF DispatchMiss, CodeTyped
<1>7. ASSUME NEW t \in taking, TakeEnds(t) PROVE CodeTyped'
  <2>1. t.page \in Pages /\ t.byte \subseteq Pages
    BY DEF CodeTyped
  <2>2. Remembered(t) \in {"unseen"} \cup Contents
    BY <2>1 DEF Remembered, CodeTyped
  <2>3. memo' \in [Pages -> {"unseen"} \cup Contents]
    BY <1>7, <2>1, <2>2 DEF TakeEnds, CodeTyped
  <2>4. stale' \subseteq Pages /\ covered' \subseteq Pages /\ taking' = {}
    BY <1>7, <2>1 DEF TakeEnds, CodeTyped
  <2> QED BY <1>7, <2>3, <2>4 DEF TakeEnds, CodeTyped
<1> QED BY <1>1, <1>2, <1>5, <1>6, <1>7 DEF Runs

\* The GX worker's copy, with the byte it holds between its load and its store.
LEMMA CopiesTyped ==
    ASSUME CodeAssumption, CodeTyped, Copies
    PROVE  CodeTyped'
<1> DEFINE Copiers == [at : {"idle", "load", "store"}, page : SUBSET Pages,
                       byte : SUBSET Pages]
<1>1. copier \in Copiers
  BY DEF CodeTyped
<1>2. ASSUME NEW p \in Pages, NEW c \in Contents, CopierWrites(p, c) PROVE CodeTyped'
  <2>1. mem' \in [Pages -> Contents]
    BY <1>2 DEF CopierWrites, Written, CodeTyped
  <2>2. copier' \in Copiers
    BY <1>2 DEF CopierWrites
  <2> QED BY <1>2, <2>1, <2>2 DEF CopierWrites, CodeTyped
<1>3. CASE CopierLoads
  <2>1. copier' \in Copiers
    BY <1>1, <1>3 DEF CopierLoads, CodeTyped
  <2> QED BY <1>3, <2>1 DEF CopierLoads, CodeTyped
<1>4. CASE CopierStores
  <2>1. copier' \in Copiers /\ copier.page \subseteq Pages /\ copier.byte \subseteq Pages
    BY <1>1, <1>4 DEF CopierStores
  <2> QED BY <1>4, <2>1 DEF CopierStores, CodeTyped
<1> QED BY <1>2, <1>3, <1>4 DEF Copies

\* What the invariant is for.
LEMMA CodeTypes ==
    ASSUME CodeTyped
    PROVE  CodeTypeOK
<1>1. Cardinality({}) = 0 /\ \A t : Cardinality({t}) = 1
  BY FS_EmptySet, FS_Singleton
<1>2. Cardinality(taking) <= 1
  <2>1. taking = {} \/ \E t \in taking : taking = {t}
    BY DEF CodeTyped
  <2>2. Cardinality(taking) = 0 \/ Cardinality(taking) = 1
    BY <1>1, <2>1
  <2> QED BY <2>2
<1> QED BY <1>2 DEF CodeTyped, CodeTypeOK

-----------------------------------------------------------------------------
Times ==
    [timebase : 0..(TbModulus - 1), remainder : 0..(TbRatio - 1), device : Nat,
     dec : 0..(DecModulus - 1), pending : BOOLEAN]

\* How deep handlers are, and what else the registers' types leave open.
CpuBounded ==
    /\ intmr \subseteq Causes /\ time \in Times /\ owed \in BOOLEAN
    /\ Len(saved) <= Nesting

\* What a remainder is.
LEMMA Remainders ==
    \A a \in Int, d \in Nat \ {0} : a % d \in 0..(d - 1)
  OBVIOUS

\* At the entry.
LEMMA CpuInitBounded ==
    ASSUME CpuAssumption, CpuInit
    PROVE  CpuBounded
<1>1. 0 \in 0..(TbModulus - 1) /\ 0 \in 0..(TbRatio - 1)
      /\ DecModulus - 1 \in 0..(DecModulus - 1) /\ Nesting \in Nat
  BY DEF CpuAssumption
<1>2. time \in Times
  BY <1>1 DEF CpuInit, Times
<1>3. saved = <<>> /\ Len(<<>>) <= Nesting
  BY <1>1 DEF CpuInit
<1>4. intmr = {} /\ owed \in BOOLEAN
  BY DEF CpuInit
<1> QED BY <1>2, <1>3, <1>4 DEF CpuBounded

\* A charge leaves every counter below its modulus.
LEMMA ChargedBounded ==
    ASSUME CpuAssumption, NEW t \in Times, NEW cycles \in Nat
    PROVE  Charged(t, cycles) \in Times
<1>1. TbRatio \in Nat \ {0} /\ UniformTicks \in Nat \ {0} /\ TbModulus \in Nat \ {0}
      /\ DecModulus \in Nat \ {0} /\ TbRatio * TbModulus \in Nat \ {0}
      /\ TbRatio * UniformTicks \in Nat
  BY DEF CpuAssumption
<1> DEFINE n     == Ticks(t, cycles).ticks
           spent == IF cycles = 0 THEN TbRatio * UniformTicks ELSE cycles
           dec   == (t.dec - n) % DecModulus
           pending == t.pending \/ (~Negative(t.dec) /\ Negative(dec))
<1>2. t.timebase \in Int /\ t.remainder \in 0..(TbRatio - 1) /\ t.device \in Nat
      /\ t.dec \in Int /\ t.pending \in BOOLEAN
  BY <1>1 DEF Times
<1>3. n \in Int /\ Ticks(t, cycles).left \in 0..(TbRatio - 1)
  <2>1. CASE cycles = 0
    BY <1>1, <1>2, <2>1 DEF Ticks
  <2>2. CASE cycles # 0
    <3>1. cycles + t.remainder \in Int
      BY <1>1, <1>2
    <3>2. (cycles + t.remainder) \div TbRatio \in Int
      BY <1>1, <3>1
    <3>3. (cycles + t.remainder) % TbRatio \in 0..(TbRatio - 1)
      BY <1>1, <3>1, Remainders
    <3> QED BY <2>2, <3>2, <3>3 DEF Ticks
  <2> QED BY <2>1, <2>2
<1>4. spent \in Nat
  BY <1>1
<1> HIDE DEF n, spent
<1>5. (t.timebase + n) % TbModulus \in 0..(TbModulus - 1)
  <2>1. t.timebase + n \in Int
    BY <1>2, <1>3
  <2> QED BY <1>1, <2>1, Remainders
<1>6. (t.device + spent) % (TbRatio * TbModulus) \in Nat
  <2> DEFINE turn == TbRatio * TbModulus
  <2>1. turn \in Nat \ {0} /\ t.device + spent \in Int
    BY <1>1, <1>2, <1>4
  <2> HIDE DEF turn
  <2>2. (t.device + spent) % turn \in 0..(turn - 1)
    BY <2>1, Remainders
  <2> QED BY <2>1, <2>2 DEF turn
<1>7. dec \in 0..(DecModulus - 1)
  <2>1. t.dec - n \in Int
    BY <1>2, <1>3
  <2> QED BY <1>1, <2>1, Remainders
<1> HIDE DEF dec
<1>8. pending \in BOOLEAN
  BY <1>2
<1>9. Charged(t, cycles)
          = [timebase  |-> (t.timebase + n) % TbModulus,
             remainder |-> Ticks(t, cycles).left,
             device    |-> (t.device + spent) % (TbRatio * TbModulus),
             dec       |-> dec,
             pending   |-> pending]
  BY DEF Charged, n, spent, dec
<1> HIDE DEF pending
<1> QED BY <1>3, <1>5, <1>6, <1>7, <1>8, <1>9 DEF Times

\* A block charges what it leaves.
LEMMA BlockBounded ==
    ASSUME CpuAssumption, NEW c, NEW t \in Times, owed \in BOOLEAN, Block(c, t)
    PROVE  time' \in Times /\ owed' \in BOOLEAN
<1>1. PICK cycles \in BlockCycles : /\ time' = Charged(t, cycles)
                                    /\ owed' = \/ owed /\ t.pending = time.pending
                                               \/ ~Negative(t.dec) /\ Negative(time'.dec)
  BY DEF Block
<1>2. cycles \in Nat
  BY DEF CpuAssumption
<1>3. time' \in Times
  BY <1>1, <1>2, ChargedBounded
<1> QED BY <1>1, <1>3

\* Every step of the CPU: a handler lets interrupts in only below the bound.
LEMMA CpuNextBounded ==
    ASSUME CpuAssumption, ReturnInv, CpuBounded, CpuNext \/ SnapshotResumed
    PROVE  CpuBounded'
<1>1. time \in Times /\ owed \in BOOLEAN /\ intmr \subseteq Causes /\ Len(saved) <= Nesting
      /\ saved \in Seq(Context) /\ Nesting \in Nat
  BY DEF CpuBounded, ReturnInv, CpuType, CpuAssumption
<1>2. CASE Deliver \/ SnapshotResumed
  BY <1>1, <1>2 DEF Deliver, SnapshotResumed, Pending, Times, CpuBounded
<1>3. CASE Compute \/ SystemCall \/ Disable \/ Rfi
  <2>1. time' \in Times /\ owed' \in BOOLEAN
    BY <1>1, <1>3, BlockBounded DEF Compute, SystemCall, Disable, Rfi
  <2> QED BY <1>1, <1>3, <2>1 DEF Compute, SystemCall, Disable, Rfi, CpuBounded
<1>4. CASE Enable
  <2>1. time' \in Times /\ owed' \in BOOLEAN
    BY <1>1, <1>4, BlockBounded DEF Enable
  <2>2. Len(saved') <= Nesting
    BY <1>1, <1>4 DEF Enable, Context
  <2> QED BY <1>1, <1>4, <2>1, <2>2 DEF Enable, CpuBounded
<1>5. CASE Restore
  <2>1. time' \in Times /\ owed' \in BOOLEAN
    BY <1>1, <1>5, BlockBounded DEF Restore
  <2>2. saved # <<>> /\ saved' = SubSeq(saved, 1, Len(saved) - 1)
    BY <1>5 DEF Restore
  <2>3. Len(saved') <= Nesting
    BY <1>1, <2>2
  <2> QED BY <1>1, <1>5, <2>1, <2>3 DEF Restore, CpuBounded
<1>6. ASSUME NEW dec \in {0, DecModulus - 1}, WriteDec(dec) PROVE CpuBounded'
  <2>1. dec \in 0..(DecModulus - 1)
    BY DEF CpuAssumption
  <2>2. [time EXCEPT !.dec = dec, !.pending = @ /\ Negative(dec)] \in Times
    BY <1>1, <2>1 DEF Times
  <2>3. time' \in Times /\ owed' \in BOOLEAN
    BY <1>1, <1>6, <2>2, BlockBounded DEF WriteDec
  <2> QED BY <1>1, <1>6, <2>3 DEF WriteDec, CpuBounded
<1>7. CASE WriteTimebase(0)
  <2>1. 0 \in 0..(TbModulus - 1)
    BY DEF CpuAssumption
  <2>2. [time EXCEPT !.timebase = 0] \in Times
    BY <1>1, <2>1 DEF Times
  <2>3. time' \in Times /\ owed' \in BOOLEAN
    BY <1>1, <1>7, <2>2, BlockBounded DEF WriteTimebase
  <2> QED BY <1>1, <1>7, <2>3 DEF WriteTimebase, CpuBounded
<1>8. ASSUME NEW causes \in {{}, Causes}, WriteIntmr(causes) PROVE CpuBounded'
  <2>1. time' \in Times /\ owed' \in BOOLEAN
    BY <1>1, <1>8, BlockBounded DEF WriteIntmr
  <2> QED BY <1>1, <1>8, <2>1 DEF WriteIntmr, CpuBounded
<1> QED BY <1>2, <1>3, <1>4, <1>5, <1>6, <1>7, <1>8 DEF CpuNext

\* What the invariants are for: what was interrupted is what was saved, and one more.
LEMMA CpuTypes ==
    ASSUME CpuAssumption, ReturnInv, CpuBounded
    PROVE  CpuTypeOK
<1>1. saved \in Seq(Context) /\ Nesting \in Nat /\ Len(saved) <= Nesting
  BY DEF ReturnInv, CpuType, CpuBounded, CpuAssumption
<1>2. Len(interrupted) <= Nesting + 1
  BY <1>1 DEF ReturnInv, ResumesInterrupted, Context
<1>3. CpuType
  BY DEF ReturnInv
<1> QED BY <1>1, <1>2, <1>3 DEF CpuType, CpuBounded, Times, CpuTypeOK

=============================================================================
