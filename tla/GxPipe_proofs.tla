---------------------------- MODULE GxPipe_proofs ----------------------------
(***************************************************************************)
(* What holds of GxPipe for every command stream and every size of chunk,  *)
(* ring, staging buffer and carry that the assumptions allow: the two      *)
(* threads never touch the GX state together, no wake is missed, neither   *)
(* side runs out of room, and the pipeline is the consumer that GxConsumer *)
(* describes.                                                              *)
(*                                                                         *)
(* The invariant places everything on one line, the stream: the staging    *)
(* buffer is the stretch from the last command decoded to the last cell    *)
(* pulled, the ring the one from there to the last cell pushed, the carry  *)
(* the one from the last whole command scanned to the last cell scanned.   *)
(* That the scanner's recursion stops there too is an induction over the   *)
(* cells of its carry.                                                     *)
(***************************************************************************)
EXTENDS GxPipe, WellFoundedInduction, SequenceTheorems, TLAPS

-----------------------------------------------------------------------------
(* The invariant: the two threads. *)

\* The types, by kind.
NumberTypes ==
    /\ taken \in Nat /\ produced \in Nat /\ retired \in Int /\ doneUpto \in Nat
    /\ fence \in Nat /\ epoch \in Nat /\ left \in 0..Budget /\ seen \in Nat
    /\ wait.target \in Int /\ wait.expect \in Int
    /\ wproduced \in Nat /\ wepoch \in Nat /\ pulled \in Nat
BooleanTypes ==
    /\ unsafe \in BOOLEAN /\ parked \in BOOLEAN /\ waiting \in BOOLEAN /\ quit \in BOOLEAN
    /\ failed \in BOOLEAN /\ poisoned \in BOOLEAN /\ syncmode \in BOOLEAN
PlaceTypes ==
    /\ stream \in Streams /\ cpc \in CpuPcs /\ wpc \in WorkerPcs
    /\ wait \in [on : {"retired", "done"}, target : Int, ret : CpuPcs, expect : Int]

\* The worker has done, pulled, seen and been given ever more of what was pushed; it
\* is behind with its report exactly while it has something in hand.
InHand == wpc \in {"run", "retire", "doneupto"}
OffsetsOrdered ==
    /\ doneUpto <= pulled /\ pulled <= wproduced /\ wproduced <= produced
    /\ retired <= pulled
    /\ wpc = "pull" => pulled < wproduced
    /\ InHand <=> doneUpto < pulled

\* What the CPU thread waits for, by where it goes from there.
WaitFor(ret) == cpc \in WaitPcs /\ wait.ret = ret
Draining == \E ret \in {"entersync", "peek", "quit"} : WaitFor(ret)
WaitRight ==
    /\ cpc \in WaitPcs => wait.ret \in {"entersync", "peek", "quit", "fill", "guest", "sync"}
    /\ Draining => wait.on = "done" /\ wait.target = produced
    /\ WaitFor("fill") => wait.on = "retired" /\ wait.target = produced + Chunk - RingCap
    /\ WaitFor("guest") \/ WaitFor("sync") => wait.on = "retired"
    /\ cpc \in {"waitset", "waitcall", "asleep"} => wait.expect < wait.target

\* A chunk is scanned and on its way into the ring; it is in the ring and not consumed.
Filling    == WaitFor("fill") \/ cpc \in {"fill", "publish"}
Publishing == cpc \in {"bump", "checkparked", "wake", "consume"}

\* The scanner has given up or come to a primitive.
Leaving == WaitFor("entersync") \/ cpc = "entersync"
Piped   == ~ syncmode /\ ~ Leaving

\* Nothing is pushed in sync mode, and it is not left after a poisoning.
ModesRight ==
    /\ syncmode \/ poisoned => ~ Filling /\ ~ Publishing /\ ~ WaitFor("guest")
    /\ poisoned => syncmode \/ Leaving
    /\ cpc \in {"sync", "syncrun", "resume"} \/ WaitFor("sync") => syncmode

\* The CPU thread has drained the worker and nothing was pushed since.
Drained == cpc \in {"entersync", "peek", "quit", "quitbump", "quitwake", "join", "done"}
DrainedIsIdle == syncmode \/ Drained => doneUpto = produced

\* Who sleeps, who says so, and who is about to wake whom.
FlagsRight ==
    /\ parked <=> wpc \in {"parkwait", "asleep", "unpark"}
    /\ waiting <=> cpc \in {"waitcall", "asleep", "waitunset"}
    /\ quit => cpc \in {"quitbump", "quitwake", "join", "done"}
EpochRight ==
    /\ wepoch <= epoch
    /\ wpc \in {"spinquit", "park", "parkwait", "asleep"} /\ wepoch = epoch /\ produced # pulled
           => cpc = "bump"
    /\ wpc \in {"park", "parkwait", "asleep"} /\ wepoch = epoch /\ quit => cpc = "quitbump"
    /\ wpc = "asleep" /\ wepoch # epoch => cpc \in {"checkparked", "wake", "quitwake"}
AnswerComes ==
    cpc = "asleep" /\ Watched >= wait.target => wpc \in {"doneupto", "check", "wake"}

\* A tick that is past its pipeline loop has no fence to wait for.
FenceOff ==
    \/ cpc \in {"guest", "sync", "syncrun", "resume", "peek"}
    \/ WaitFor("guest") \/ WaitFor("sync") \/ WaitFor("peek")
    => fence = 0

\* Nothing fails.
NeverFails == ~ failed /\ cpc # "aborted"

Control ==
    /\ NumberTypes /\ BooleanTypes /\ PlaceTypes
    /\ OffsetsOrdered /\ WaitRight /\ ModesRight /\ DrainedIsIdle
    /\ FlagsRight /\ EpochRight /\ AnswerComes /\ FenceOff /\ NeverFails

-----------------------------------------------------------------------------
(* The invariant: the data. *)

\* The cells after the a-th up to the b-th.
Segment(a, b) == [j \in 1..(b - a) |-> a + j]

\* What the CPU thread may still consume is in the FIFO.
LeftRight ==
    /\ (taken + left) * Chunk <= SizeOf(stream)
    /\ Filling \/ Publishing => left > 0

\* The stream position of the first cell pushed since the last synchronous one, and of
\* the last one pulled; the last one scanned; the last one decoded.
Base      == Fetched - produced
PulledTo  == Base + pulled
Committed == IF Filling THEN Fetched + Chunk ELSE Fetched
Done      == Len(decoded)
DoneTo    == End(stream, Done)

\* The first n cells hold the first i commands and no more.
Whole(i, n) == End(stream, i) <= n /\ (i < Len(stream) => n < End(stream, i + 1))

\* Offsets are multiples of a chunk.
InChunks(n) == \E m \in 0..n : n = m * Chunk
ChunksRight == InChunks(produced) /\ InChunks(pulled) /\ InChunks(wproduced)

\* The ring holds the chunks that the worker has not pulled, each in its slot.
RoomRight == cpc \in {"fill", "publish"} => produced + Chunk - RingCap <= pulled
RingRight ==
    /\ ring \in [0..(NumSlots - 1) -> Nat]
    /\ \A m \in 0..produced :
           pulled <= m * Chunk /\ m * Chunk < produced =>
               ring[m % NumSlots] * Chunk = Base + m * Chunk + Chunk
    /\ cpc = "publish" => ring[Slot(produced)] = taken + 1

\* Decoded are the first commands; the staging buffer has the cells from there to the
\* last one pulled; and there is a whole command in it only while somebody decodes.
DecodedRight ==
    decoded \in Seq(Nat) /\ Done <= Len(stream) /\ \A j \in 1..Done : decoded[j] = j
BufRight == DoneTo <= PulledTo /\ buf = Segment(DoneTo, PulledTo) /\ Len(buf) <= BufCap
BufDry   == wpc # "run" /\ cpc # "syncrun" => Whole(Done, PulledTo)

\* The carry has the cells from the end of the last whole command to the last one scanned.
CarryTypes ==
    carry \in Seq(1..SizeOf(stream)) /\ Len(carry) <= CarryCap /\ scanPos \in Int
CarryRight ==
    Piped => /\ \E i \in 0..Len(stream) : End(stream, i) = Base + scanPos /\ Whole(i, Committed)
             /\ carry = Segment(Base + scanPos, Committed)
             /\ unsafe \/ Len(carry) + Chunk <= CarryCap

\* The worker is never given the beginning of a primitive.
SizableOnly ==
    doneUpto # produced \/ Filling =>
        \A i \in 1..Len(stream) :
            i > Done /\ End(stream, i - 1) < Committed => stream[i].kind # "prim"

\* The fence that the tick waits for, now or at its end, is the last that is not decoded.
Due == IF WaitFor("guest") THEN wait.target ELSE fence
FenceDue ==
    Piped => \A f \in 1..Len(stream) :
                 stream[f].kind = "fence" /\ End(stream, f) <= Committed /\ f > Done =>
                     Due # 0 /\ End(stream, f) <= Base + Due
FenceMet == Piped /\ Due # 0 /\ Due <= retired => Base + Due <= DoneTo

Data ==
    /\ ChunksRight /\ RoomRight /\ RingRight
    /\ DecodedRight /\ BufRight /\ BufDry
    /\ CarryTypes /\ CarryRight /\ SizableOnly
Fences == FenceDue /\ FenceMet

PipeInv == Control /\ LeftRight /\ Data /\ Fences

-----------------------------------------------------------------------------
(* Induction, with sets in the place of predicates. *)

\* A set of natural numbers has a least element.
LEMMA LeastOf ==
    ASSUME NEW T \in SUBSET Nat, T # {}
    PROVE  \E m \in T : \A k \in T : m <= k
<1> DEFINE R == OpToRel(<, Nat)
<1>1. IsWellFoundedOn(R, Nat)
  BY NatLessThanWellFounded
<1>2. \A x, y \in Nat : y < x => <<y, x>> \in R
  BY DEF OpToRel
<1> HIDE DEF R
<1>3. PICK x \in T : \A y \in T : ~ (<<y, x>> \in R)
  BY <1>1, WFMin
<1>4. ASSUME NEW k \in T PROVE x <= k
  <2>1. k \in Nat /\ x \in Nat /\ ~(k < x)
    BY <1>2, <1>3
  <2> QED BY <2>1
<1> QED BY <1>4

\* One that holds 0 and the successors of its members holds them all.
LEMMA SetInduction ==
    ASSUME NEW T \in SUBSET Nat, 0 \in T, \A n \in T : n + 1 \in T
    PROVE  T = Nat
<1> SUFFICES ASSUME Nat \ T # {} PROVE FALSE
  OBVIOUS
<1>1. PICK m \in Nat \ T : \A k \in Nat \ T : m <= k
  BY LeastOf
<1>2. m # 0 /\ m - 1 \in Nat /\ ~(m <= m - 1)
  OBVIOUS
<1>3. m - 1 \in T
  BY <1>1, <1>2
<1> QED BY <1>1, <1>2, <1>3

-----------------------------------------------------------------------------
(* The commands of a stream and where they end. *)

\* The recursive definition of Ends defines a function.
LEMMA EndsDefined ==
    ASSUME NEW s \in Streams
    PROVE  Ends(s) = [i \in 0..Len(s) |-> IF i = 0 THEN 0 ELSE Ends(s)[i - 1] + s[i].size]
<1> DEFINE Defines(e, n) == e = [i \in 0..n |-> IF i = 0 THEN 0 ELSE e[i - 1] + s[i].size]
           T == {n \in Nat : \E e : Defines(e, n)}
<1>1. 0 \in T
  <2> DEFINE e == [i \in 0..0 |-> 0]
  <2>1. Defines(e, 0)
    OBVIOUS
  <2> QED BY <2>1
<1>2. ASSUME NEW n \in T PROVE n + 1 \in T
  <2>1. PICK e : Defines(e, n)
    OBVIOUS
  <2> DEFINE g == [i \in 0..(n + 1) |-> IF i = n + 1 THEN e[n] + s[n + 1].size ELSE e[i]]
  <2>2. n \in Nat /\ n + 1 \in Nat
    OBVIOUS
  <2>3. ASSUME NEW i \in 0..(n + 1)
        PROVE  g[i] = IF i = 0 THEN 0 ELSE g[i - 1] + s[i].size
    <3>1. CASE i = n + 1
      <4>1. n \in 0..(n + 1) /\ n # n + 1 /\ n + 1 \in 0..(n + 1) /\ n + 1 # 0 /\ i - 1 = n
        BY <3>1, <2>2
      <4>2. g[n] = e[n] /\ g[n + 1] = e[n] + s[n + 1].size
        BY <4>1
      <4> QED BY <4>1, <4>2, <3>1
    <3>2. CASE i = 0
      <4>1. i \in 0..n /\ i # n + 1
        BY <3>2, <2>2
      <4>2. g[i] = e[i] /\ e[i] = 0
        BY <4>1, <2>1, <3>2
      <4> QED BY <4>2, <3>2
    <3>3. CASE i # 0 /\ i # n + 1
      <4>1. i \in 0..n /\ i - 1 \in 0..(n + 1) /\ i - 1 # n + 1
        BY <3>3, <2>2
      <4>2. g[i] = e[i] /\ g[i - 1] = e[i - 1]
        BY <4>1, <3>3
      <4>3. e[i] = e[i - 1] + s[i].size
        BY <4>1, <2>1, <3>3
      <4> QED BY <4>2, <4>3, <3>3
    <3> QED BY <3>1, <3>2, <3>3
  <2> HIDE DEF g
  <2>4. g = [i \in 0..(n + 1) |-> g[i]]
    BY DEF g
  <2>5. Defines(g, n + 1)
    BY <2>3, <2>4
  <2> QED BY <2>2, <2>5
<1>3. T = Nat
  <2> HIDE DEF T
  <2>1. T \in SUBSET Nat
    BY DEF T
  <2> QED BY <1>1, <1>2, <2>1, SetInduction
<1>4. Len(s) \in Nat
  BY StreamsAssumption
<1>5. \E e : Defines(e, Len(s))
  BY <1>3, <1>4
<1>6. Ends(s) = CHOOSE e : Defines(e, Len(s))
  BY DEF Ends
<1> HIDE DEF Defines
<1>7. Defines(Ends(s), Len(s))
  BY <1>5, <1>6
<1> QED BY <1>7 DEF Defines

\* Commands follow one another, each of at least one cell.
LEMMA EndNext ==
    ASSUME NEW s \in Streams
    PROVE  /\ Len(s) \in Nat /\ DOMAIN s = 1..Len(s)
           /\ End(s, 0) = 0
           /\ \A i \in 1..Len(s) : End(s, i) = End(s, i - 1) + s[i].size
           /\ \A i \in 1..Len(s) : s[i] \in Commands /\ s[i].size \in Nat \ {0}
           /\ \A i \in 0..Len(s) : End(s, i) \in Nat
<1>1. s \in Seq(Commands)
  BY StreamsAssumption
<1>2. Len(s) \in Nat /\ DOMAIN s = 1..Len(s)
  BY <1>1
<1>3. \A i \in 1..Len(s) : s[i] \in Commands
  BY <1>1
<1>4. \A i \in 1..Len(s) : s[i].size \in Nat \ {0}
  BY <1>3 DEF Commands
<1>5. End(s, 0) = 0
  <2>1. 0 \in 0..Len(s)
    BY <1>2
  <2> QED BY <2>1, EndsDefined DEF End
<1>6. ASSUME NEW i \in 1..Len(s) PROVE End(s, i) = End(s, i - 1) + s[i].size
  <2>1. i \in 0..Len(s) /\ i # 0
    BY <1>2
  <2> QED BY <2>1, EndsDefined DEF End
<1> DEFINE T == {n \in Nat : n <= Len(s) => End(s, n) \in Nat}
<1>7. 0 \in T
  BY <1>5
<1>8. ASSUME NEW n \in T PROVE n + 1 \in T
  <2>1. n \in Nat
    OBVIOUS
  <2>2. CASE n + 1 <= Len(s)
    <3>1. n <= Len(s) /\ n + 1 \in 1..Len(s) /\ (n + 1) - 1 = n
      BY <2>1, <2>2, <1>2
    <3>2. End(s, n) \in Nat /\ s[n + 1].size \in Nat
      BY <3>1, <1>4
    <3>3. End(s, n + 1) = End(s, n) + s[n + 1].size
      BY <3>1, <1>6
    <3> QED BY <2>1, <3>2, <3>3
  <2> QED BY <2>1, <2>2
<1>9. T = Nat
  <2> HIDE DEF T
  <2>1. T \in SUBSET Nat
    BY DEF T
  <2> QED BY <1>7, <1>8, <2>1, SetInduction
<1> QED BY <1>2, <1>3, <1>4, <1>5, <1>6, <1>9

\* So the ends grow.
LEMMA EndsGrow ==
    ASSUME NEW s \in Streams, NEW i \in 0..Len(s), NEW j \in 0..Len(s), i < j
    PROVE  End(s, i) < End(s, j)
<1> DEFINE T == {n \in Nat : i + n + 1 <= Len(s) => End(s, i) < End(s, i + n + 1)}
<1>0. Len(s) \in Nat /\ i \in Nat /\ j \in Nat
  BY EndNext
<1>1. 0 \in T
  <2>1. CASE i + 0 + 1 <= Len(s)
    <3>1. i + 0 + 1 \in 1..Len(s) /\ (i + 0 + 1) - 1 = i
      BY <2>1, <1>0
    <3>2. End(s, i + 0 + 1) = End(s, i) + s[i + 0 + 1].size
      BY <3>1, EndNext
    <3>3. End(s, i) \in Nat /\ s[i + 0 + 1].size \in Nat \ {0}
      BY <3>1, EndNext
    <3> QED BY <3>2, <3>3
  <2> QED BY <2>1, <1>0
<1>2. ASSUME NEW n \in T PROVE n + 1 \in T
  <2>1. n \in Nat
    OBVIOUS
  <2>2. CASE i + (n + 1) + 1 <= Len(s)
    <3>1. /\ i + n + 1 <= Len(s) /\ i + n + 1 \in 0..Len(s)
          /\ i + (n + 1) + 1 \in 1..Len(s) /\ (i + (n + 1) + 1) - 1 = i + n + 1
      BY <2>1, <2>2, <1>0
    <3>2. End(s, i + (n + 1) + 1) = End(s, i + n + 1) + s[i + (n + 1) + 1].size
      BY <3>1, EndNext
    <3>3. /\ End(s, i) \in Nat /\ End(s, i + n + 1) \in Nat
          /\ s[i + (n + 1) + 1].size \in Nat \ {0}
      BY <3>1, EndNext
    <3>4. End(s, i) < End(s, i + n + 1)
      BY <3>1
    <3> QED BY <2>1, <3>2, <3>3, <3>4
  <2> QED BY <2>1, <2>2
<1>3. T = Nat
  <2> HIDE DEF T
  <2>1. T \in SUBSET Nat
    BY DEF T
  <2> QED BY <1>1, <1>2, <2>1, SetInduction
<1>4. j - i - 1 \in Nat /\ i + (j - i - 1) + 1 = j /\ j <= Len(s)
  BY <1>0
<1>5. \A n \in Nat : i + n + 1 <= Len(s) => End(s, i) < End(s, i + n + 1)
  BY <1>3
<1> QED BY <1>4, <1>5

\* No cell is outside of all commands.
LEMMA Covered ==
    ASSUME NEW s \in Streams, NEW p \in 1..SizeOf(s)
    PROVE  \E i \in 1..Len(s) : End(s, i - 1) < p /\ p <= End(s, i)
<1> DEFINE T == {i \in 0..Len(s) : p <= End(s, i)}
<1>1. Len(s) \in Nat /\ End(s, 0) = 0 /\ p \in Nat /\ p > 0 /\ p <= End(s, Len(s))
  BY EndNext DEF SizeOf
<1>2. Len(s) \in T /\ T \in SUBSET Nat
  BY <1>1
<1>3. PICK i \in T : \A k \in T : i <= k
  <2> HIDE DEF T
  <2> QED BY <1>2, LeastOf
<1>4. i \in 0..Len(s) /\ p <= End(s, i) /\ i # 0
  BY <1>1
<1>5. i \in 1..Len(s) /\ i - 1 \in 0..Len(s) /\ ~(i <= i - 1)
  BY <1>1, <1>4
<1>6. ~(p <= End(s, i - 1)) /\ End(s, i - 1) \in Nat
  BY <1>3, <1>5, EndNext
<1> QED BY <1>1, <1>4, <1>5, <1>6

\* And none is in two: the layout says of each which command it belongs to.
LEMMA CellOf ==
    ASSUME NEW s \in Streams, NEW i \in 1..Len(s), NEW p \in Nat,
           End(s, i - 1) < p, p <= End(s, i)
    PROVE  /\ p \in 1..SizeOf(s)
           /\ Layout[s][p] = [cmd |-> i, offset |-> p - End(s, i - 1) - 1,
                              kind |-> s[i].kind, size |-> s[i].size]
<1>1. /\ Len(s) \in Nat /\ DOMAIN s = 1..Len(s) /\ i \in 0..Len(s) /\ i - 1 \in 0..Len(s)
      /\ Len(s) \in 0..Len(s)
  BY EndNext
<1>2. End(s, i - 1) \in Nat /\ End(s, i) \in Nat /\ End(s, Len(s)) \in Nat
  BY <1>1, EndNext
<1>3. End(s, i) <= End(s, Len(s))
  <2>1. CASE i = Len(s)
    BY <2>1, <1>2
  <2>2. CASE i < Len(s)
    <3>1. End(s, i) < End(s, Len(s))
      BY <2>2, <1>1, EndsGrow
    <3> QED BY <3>1, <1>2
  <2>3. i = Len(s) \/ i < Len(s)
    <3>1. Len(s) \in Nat
      BY EndNext
    <3> QED BY <3>1
  <2> QED BY <2>1, <2>2, <2>3
<1>4. p \in 1..SizeOf(s)
  BY <1>2, <1>3 DEF SizeOf
<1>5. ASSUME NEW k \in DOMAIN s, p <= End(s, k), p > End(s, k - 1) PROVE k = i
  <2>1. k \in 0..Len(s) /\ k - 1 \in 0..Len(s) /\ k \in Nat /\ i \in Nat
    BY <1>1
  <2>2. End(s, k - 1) \in Nat /\ End(s, k) \in Nat
    BY <2>1, EndNext
  <2>3. CASE k < i
    <3>1. End(s, k) <= End(s, i - 1)
      <4>1. CASE k = i - 1
        BY <4>1, <2>2
      <4>2. CASE k < i - 1
        BY <4>2, <2>1, <2>2, <1>1, <1>2, EndsGrow
      <4> QED BY <4>1, <4>2, <2>1, <2>3
    <3> QED BY <3>1, <2>2, <1>2, <1>5
  <2>4. CASE i < k
    <3>1. End(s, i) <= End(s, k - 1)
      <4>1. CASE i = k - 1
        BY <4>1, <1>2
      <4>2. CASE i < k - 1
        BY <4>2, <2>1, <2>2, <1>1, <1>2, EndsGrow
      <4> QED BY <4>1, <4>2, <2>1, <2>4
    <3> QED BY <3>1, <2>2, <1>2, <1>5
  <2> QED BY <2>1, <2>3, <2>4
<1> DEFINE c == CHOOSE k \in DOMAIN s : p <= End(s, k) /\ p > End(s, k - 1)
<1>6. c = i
  <2>1. i \in DOMAIN s /\ p <= End(s, i) /\ p > End(s, i - 1)
    BY <1>1, <1>2
  <2> QED BY <2>1, <1>5
<1>7. Layout[s] = [q \in 1..SizeOf(s) |->
          LET k == CHOOSE k \in DOMAIN s : q <= End(s, k) /\ q > End(s, k - 1)
          IN  [cmd |-> k, offset |-> q - End(s, k - 1) - 1,
               kind |-> s[k].kind, size |-> s[k].size]]
  BY DEF Layout
<1>8. Layout[s][p] = [cmd |-> c, offset |-> p - End(s, c - 1) - 1,
                      kind |-> s[c].kind, size |-> s[c].size]
  BY <1>4, <1>7
<1> QED BY <1>4, <1>6, <1>8

-----------------------------------------------------------------------------
(* Stretches of the stream. *)

\* A stretch is a sequence of cells of the stream.
LEMMA SegmentSeq ==
    ASSUME NEW a \in Nat, NEW b \in Nat, a <= b
    PROVE  /\ Len(Segment(a, b)) = b - a /\ Segment(a, b) \in Seq((a + 1)..b)
           /\ Segment(a, b) \in Seq(Nat)
           /\ \A j \in 1..(b - a) : Segment(a, b)[j] = a + j
<1>1. b - a \in Nat /\ DOMAIN Segment(a, b) = 1..(b - a)
  BY DEF Segment
<1>2. \A j \in 1..(b - a) : Segment(a, b)[j] = a + j
  BY DEF Segment
<1>3. \A j \in 1..(b - a) : a + j \in (a + 1)..b /\ a + j \in Nat
  OBVIOUS
<1>4. Segment(a, b) \in [1..(b - a) -> (a + 1)..b] /\ Segment(a, b) \in [1..(b - a) -> Nat]
  BY <1>3 DEF Segment
<1>5. Segment(a, b) \in Seq((a + 1)..b) /\ Segment(a, b) \in Seq(Nat)
  BY <1>1, <1>4, SeqDef
<1>6. Len(Segment(a, b)) = b - a
  <2>1. DOMAIN Segment(a, b) = 1..Len(Segment(a, b)) /\ Len(Segment(a, b)) \in Nat
    BY <1>5, LenProperties
  <2> QED BY <2>1, <1>1
<1> QED BY <1>2, <1>5, <1>6

\* One after the other are one.
LEMMA SegmentConcat ==
    ASSUME NEW a \in Nat, NEW b \in Nat, NEW c \in Nat, a <= b, b <= c
    PROVE  Segment(a, b) \o Segment(b, c) = Segment(a, c)
<1> DEFINE l == Segment(a, b)
           r == Segment(b, c)
           w == Segment(a, c)
<1>0. a <= c
  OBVIOUS
<1>1. /\ l \in Seq(Nat) /\ Len(l) = b - a /\ \A j \in 1..(b - a) : l[j] = a + j
      /\ r \in Seq(Nat) /\ Len(r) = c - b /\ \A j \in 1..(c - b) : r[j] = b + j
      /\ w \in Seq(Nat) /\ Len(w) = c - a /\ \A j \in 1..(c - a) : w[j] = a + j
  <2>1. l \in Seq(Nat) /\ Len(l) = b - a /\ \A j \in 1..(b - a) : l[j] = a + j
    BY SegmentSeq
  <2>2. r \in Seq(Nat) /\ Len(r) = c - b /\ \A j \in 1..(c - b) : r[j] = b + j
    BY SegmentSeq
  <2>3. w \in Seq(Nat) /\ Len(w) = c - a /\ \A j \in 1..(c - a) : w[j] = a + j
    BY <1>0, SegmentSeq
  <2> QED BY <2>1, <2>2, <2>3
<1> HIDE DEF l, r, w
<1>2. /\ l \o r \in Seq(Nat) /\ Len(l \o r) = c - a
      /\ \A j \in 1..(c - a) : (l \o r)[j] = IF j <= Len(l) THEN l[j] ELSE r[j - Len(l)]
  <2>1. Len(l) + Len(r) = c - a
    BY <1>1
  <2>2. /\ l \o r \in Seq(Nat) /\ Len(l \o r) = Len(l) + Len(r)
        /\ \A j \in 1..(Len(l) + Len(r)) :
               (l \o r)[j] = IF j <= Len(l) THEN l[j] ELSE r[j - Len(l)]
    BY <1>1, ConcatProperties
  <2> QED BY <2>1, <2>2
<1>3. ASSUME NEW j \in 1..(c - a) PROVE (l \o r)[j] = w[j]
  <2>1. CASE j <= b - a
    BY <2>1, <1>1, <1>2
  <2>2. CASE ~(j <= b - a)
    <3>1. j - (b - a) \in 1..(c - b)
      BY <2>2
    <3>2. (l \o r)[j] = r[j - Len(l)]
      BY <2>2, <1>1, <1>2
    <3>3. r[j - (b - a)] = b + (j - (b - a))
      BY <3>1, <1>1
    <3> QED BY <3>2, <3>3, <1>1
  <2> QED BY <2>1, <2>2
<1>4. l \o r = w
  BY <1>1, <1>2, <1>3, SeqEqual
<1> QED BY <1>4 DEF l, r, w

\* Without its first cells it is a stretch.
LEMMA SegmentTail ==
    ASSUME NEW a \in Nat, NEW b \in Nat, a <= b, NEW n \in 0..(b - a)
    PROVE  SubSeq(Segment(a, b), n + 1, b - a) = Segment(a + n, b)
<1> DEFINE w == Segment(a, b)
           t == Segment(a + n, b)
           u == SubSeq(w, n + 1, b - a)
<1>1. /\ w \in Seq(Nat) /\ Len(w) = b - a /\ \A j \in 1..(b - a) : w[j] = a + j
      /\ t \in Seq(Nat) /\ Len(t) = b - (a + n) /\ \A j \in 1..(b - (a + n)) : t[j] = a + n + j
  <2>1. a + n \in Nat /\ a + n <= b
    OBVIOUS
  <2>2. w \in Seq(Nat) /\ Len(w) = b - a /\ \A j \in 1..(b - a) : w[j] = a + j
    BY SegmentSeq
  <2>3. t \in Seq(Nat) /\ Len(t) = b - (a + n) /\ \A j \in 1..(b - (a + n)) : t[j] = a + n + j
    BY <2>1, SegmentSeq
  <2> QED BY <2>2, <2>3
<1> HIDE DEF w, t
<1>2. u = [j \in 1..((b - a) - (n + 1) + 1) |-> w[(n + 1) + j - 1]]
  BY SMT
<1>3. (b - a) - (n + 1) + 1 = b - (a + n) /\ b - (a + n) \in Nat
  OBVIOUS
<1>4. \A j \in 1..(b - (a + n)) : w[(n + 1) + j - 1] = a + n + j
  BY <1>1
<1>5. t = [j \in 1..(b - (a + n)) |-> a + n + j]
  BY <1>1 DEF t, Segment
<1> HIDE DEF u
<1>6. u = t
  BY <1>2, <1>3, <1>4, <1>5
<1> QED BY <1>6 DEF u, w, t

\* A chunk is one.
LEMMA ChunkSegment ==
    ASSUME NEW k \in Nat
    PROVE  /\ k * Chunk \in Nat
           /\ ChunkCells(k + 1) = Segment(k * Chunk, k * Chunk + Chunk)
<1>1. k * Chunk \in Nat /\ Chunk \in Nat
  BY ChunkAssumption
<1>2. ((k + 1) - 1) * Chunk = k * Chunk
  <2>1. (k + 1) - 1 = k
    OBVIOUS
  <2> QED BY <2>1
<1> DEFINE x == k * Chunk
<1>3. ChunkCells(k + 1) = [j \in 1..Chunk |-> x + j]
  BY <1>2 DEF ChunkCells
<1>4. x \in Nat
  BY <1>1
<1> HIDE DEF x
<1>5. (x + Chunk) - x = Chunk
  BY <1>1, <1>4
<1>6. Segment(x, x + Chunk) = [j \in 1..Chunk |-> x + j]
  BY <1>5 DEF Segment
<1> QED BY <1>1, <1>3, <1>6 DEF x

-----------------------------------------------------------------------------
(* The scanner. *)

\* Its recursion, one step at a time.
Stop(k, prim) == [off |-> k - 1, fence |-> 0, prim |-> prim]

ScanStep(c, from, k) ==
    IF k > Len(c) THEN Stop(k, FALSE)
    ELSE IF KindAt(c, k) = "prim" THEN Stop(k, TRUE)
    ELSE IF ~ Holds(c, k) THEN Stop(k, FALSE)
    ELSE LET rest == from[k + SizeAt(c, k)] IN
         IF KindAt(c, k) = "fence" /\ rest.fence = 0
         THEN [rest EXCEPT !.fence = k + SizeAt(c, k) - 1]
         ELSE rest

ScanFrom(c) == CHOOSE from : from = [k \in 1..(Len(c) + 1) |-> ScanStep(c, from, k)]

\* Scan is its value at the first cell.
LEMMA ScanIsFrom == ASSUME NEW c PROVE Scan(c) = ScanFrom(c)[1]
  BY DEF Scan, ScanFrom, ScanStep, Stop

\* What stands in a cell has a size.
LEMMA SizeAtType ==
    ASSUME stream \in Streams, NEW c \in Seq(1..SizeOf(stream)), NEW k \in 1..Len(c)
    PROVE  SizeAt(c, k) \in Nat \ {0}
<1>1. c[k] \in 1..SizeOf(stream)
  BY ElementOfSeq
<1>2. PICK i \in 1..Len(stream) : End(stream, i - 1) < c[k] /\ c[k] <= End(stream, i)
  BY <1>1, Covered
<1>3. c[k] \in Nat
  BY <1>1
<1>4. Cell(c[k]).size = stream[i].size
  <2>1. Layout[stream][c[k]] = [cmd |-> i, offset |-> c[k] - End(stream, i - 1) - 1,
                                kind |-> stream[i].kind, size |-> stream[i].size]
    BY <1>2, <1>3, CellOf
  <2> QED BY <2>1 DEF Cell
<1>5. stream[i].size \in Nat \ {0}
  BY EndNext
<1> QED BY <1>4, <1>5 DEF SizeAt

\* The scanner's recursion ends: it goes on at a later cell, or stops.
LEMMA ScanDefined ==
    ASSUME stream \in Streams, NEW c \in Seq(1..SizeOf(stream))
    PROVE  ScanFrom(c) = [k \in 1..(Len(c) + 1) |-> ScanStep(c, ScanFrom(c), k)]
<1> DEFINE L == Len(c)
           Above(m) == (L + 1 - m)..(L + 1)
           Defines(f, m) == f = [k \in Above(m) |-> ScanStep(c, f, k)]
           T == {m \in Nat : m <= L => \E f : Defines(f, m)}
<1>1. L \in Nat
  OBVIOUS
<1>2. ASSUME NEW f, NEW g, NEW k \in 1..(L + 1), \A j \in (k + 1)..(L + 1) : f[j] = g[j]
      PROVE  ScanStep(c, f, k) = ScanStep(c, g, k)
  <2>1. CASE k > L \/ KindAt(c, k) = "prim" \/ ~ Holds(c, k)
    BY <2>1 DEF ScanStep
  <2>2. CASE ~(k > L) /\ Holds(c, k)
    <3>1. k \in 1..L
      BY <2>2, <1>1
    <3>2. SizeAt(c, k) \in Nat \ {0}
      BY <3>1, SizeAtType
    <3>3. k + SizeAt(c, k) \in (k + 1)..(L + 1)
      BY <3>1, <3>2, <2>2, <1>1 DEF Holds
    <3>4. f[k + SizeAt(c, k)] = g[k + SizeAt(c, k)]
      BY <3>3, <1>2
    <3> QED BY <3>4 DEF ScanStep
  <2> QED BY <2>1, <2>2
<1>3. 0 \in T
  <2> DEFINE f == [k \in Above(0) |-> Stop(k, FALSE)]
  <2>1. \A k \in Above(0) : k > L /\ k \in Above(0)
    BY <1>1
  <2>2. \A k \in Above(0) : ScanStep(c, f, k) = Stop(k, FALSE)
    BY <2>1 DEF ScanStep
  <2>3. Defines(f, 0)
    BY <2>2
  <2> HIDE DEF Defines
  <2> QED BY <2>3
<1>4. ASSUME NEW m \in T PROVE m + 1 \in T
  <2>1. m \in Nat /\ m + 1 \in Nat
    OBVIOUS
  <2>2. CASE m + 1 <= L
    <3>1. PICK f : Defines(f, m)
      BY <2>1, <2>2, <1>1
    <3> DEFINE b == L - m
               g == [k \in Above(m + 1) |-> IF k = b THEN ScanStep(c, f, b) ELSE f[k]]
    <3>2. b \in 1..L /\ Above(m + 1) = b..(L + 1) /\ Above(m) = (b + 1)..(L + 1)
      BY <2>1, <2>2, <1>1
    <3>3. \A k \in (b + 1)..(L + 1) : g[k] = f[k]
      <4>1. \A k \in (b + 1)..(L + 1) : k \in b..(L + 1) /\ k # b
        BY <3>2
      <4> QED BY <4>1, <3>2
    <3>4. ASSUME NEW k \in b..(L + 1) PROVE g[k] = ScanStep(c, g, k)
      <4>0. k \in 1..(L + 1) /\ b \in Int /\ k \in Int
        BY <3>2, <1>1
      <4>1. CASE k = b
        <5>1. g[k] = ScanStep(c, f, b)
          BY <4>1, <3>2
        <5>2. ScanStep(c, f, b) = ScanStep(c, g, b)
          <6> HIDE DEF g
          <6> QED BY <3>3, <4>0, <4>1, <1>2
        <5> QED BY <4>1, <5>1, <5>2
      <4>2. CASE k # b
        <5>1. k \in (b + 1)..(L + 1)
          BY <4>0, <4>2
        <5>2. g[k] = f[k] /\ f[k] = ScanStep(c, f, k)
          BY <5>1, <3>1, <3>2, <3>3
        <5>3. \A j \in (k + 1)..(L + 1) : f[j] = g[j]
          <6>1. \A j \in (k + 1)..(L + 1) : j \in (b + 1)..(L + 1)
            BY <5>1, <4>0
          <6> HIDE DEF g
          <6> QED BY <6>1, <3>3
        <5>4. ScanStep(c, f, k) = ScanStep(c, g, k)
          <6> HIDE DEF g
          <6> QED BY <5>3, <4>0, <1>2
        <5> QED BY <5>2, <5>4
      <4> QED BY <4>1, <4>2
    <3>5. g = [k \in Above(m + 1) |-> g[k]]
      OBVIOUS
    <3>6. Defines(g, m + 1)
      <4> HIDE DEF g
      <4> QED BY <3>2, <3>4, <3>5
    <3> HIDE DEF Defines
    <3> QED BY <2>1, <3>6
  <2> QED BY <2>1, <2>2
<1>5. T = Nat
  <2> HIDE DEF T
  <2>1. T \in SUBSET Nat
    BY DEF T
  <2> QED BY <1>3, <1>4, <2>1, SetInduction
<1>6. \E f : Defines(f, L)
  <2> HIDE DEF Defines
  <2> QED BY <1>1, <1>5
<1>7. Above(L) = 1..(L + 1)
  BY <1>1
<1>8. ScanFrom(c) = CHOOSE f : Defines(f, L)
  BY <1>7 DEF ScanFrom
<1> HIDE DEF Defines
<1>9. Defines(ScanFrom(c), L)
  BY <1>6, <1>8
<1> QED BY <1>7, <1>9 DEF Defines

\* Where a command begins, the decoders see its kind and size, and if the whole of
\* it is there they execute it.
LEMMA AtCommand ==
    ASSUME stream \in Streams, NEW a \in Nat, NEW b \in Nat, b <= SizeOf(stream),
           NEW i \in 0..Len(stream), a <= End(stream, i), End(stream, i) < b,
           NEW k, k = End(stream, i) - a + 1
    PROVE  /\ k \in 1..(b - a) /\ i + 1 \in 1..Len(stream)
           /\ KindAt(Segment(a, b), k) = stream[i + 1].kind
           /\ SizeAt(Segment(a, b), k) = stream[i + 1].size
           /\ k + SizeAt(Segment(a, b), k) = End(stream, i + 1) - a + 1
           /\ Holds(Segment(a, b), k) <=> End(stream, i + 1) <= b
           /\ Holds(Segment(a, b), k) => CmdAt(Segment(a, b), k) = i + 1
<1> DEFINE c == Segment(a, b)
           n == Len(stream)
<1>1. n \in Nat /\ End(stream, i) \in Nat /\ a <= b
  <2>1. n \in Nat /\ End(stream, i) \in Nat
    BY EndNext
  <2> QED BY <2>1
<1>2. i + 1 \in 1..n
  <2>1. i # n
    BY <1>1 DEF SizeOf
  <2> QED BY <1>1, <2>1
<1>3. /\ End(stream, i + 1) = End(stream, i) + stream[i + 1].size
      /\ stream[i + 1].size \in Nat \ {0}
  <2>1. (i + 1) - 1 = i
    BY <1>1
  <2> QED BY <1>2, <2>1, EndNext
<1>4. k \in 1..(b - a)
  BY <1>1
<1>5. Len(c) = b - a /\ \A j \in 1..(b - a) : c[j] = a + j
  BY <1>1, SegmentSeq
<1>6. c[k] = End(stream, i) + 1
  BY <1>1, <1>4, <1>5
<1>7. Cell(c[k]) = [cmd |-> i + 1, offset |-> 0,
                    kind |-> stream[i + 1].kind, size |-> stream[i + 1].size]
  <2>1. /\ End(stream, i) + 1 \in Nat /\ End(stream, (i + 1) - 1) < End(stream, i) + 1
        /\ End(stream, i) + 1 <= End(stream, i + 1) /\ (i + 1) - 1 = i
        /\ (End(stream, i) + 1) - End(stream, (i + 1) - 1) - 1 = 0
    <3>1. (i + 1) - 1 = i
      BY <1>1
    <3>2. End(stream, (i + 1) - 1) = End(stream, i)
      BY <3>1
    <3> HIDE DEF n, c
    <3>3. End(stream, i + 1) >= End(stream, i) + 1
      BY <1>1, <1>3
    <3> QED BY <3>1, <3>2, <3>3, <1>1
  <2>2. Layout[stream][End(stream, i) + 1] =
            [cmd |-> i + 1, offset |-> (End(stream, i) + 1) - End(stream, (i + 1) - 1) - 1,
             kind |-> stream[i + 1].kind, size |-> stream[i + 1].size]
    BY <1>2, <2>1, CellOf
  <2> QED BY <1>6, <2>1, <2>2 DEF Cell
<1> HIDE DEF c
<1>8. KindAt(c, k) = stream[i + 1].kind /\ SizeAt(c, k) = stream[i + 1].size
  BY <1>7 DEF KindAt, SizeAt
<1>9. k + SizeAt(c, k) = End(stream, i + 1) - a + 1
  BY <1>1, <1>3, <1>8
<1>10. Holds(c, k) <=> End(stream, i + 1) <= b
  <2>1. k \in Int /\ SizeAt(c, k) \in Int /\ End(stream, i + 1) \in Int
    BY <1>1, <1>3, <1>4, <1>8
  <2>2. Holds(c, k) <=> k + SizeAt(c, k) - 1 <= b - a
    BY <1>5 DEF Holds
  <2>3. k + SizeAt(c, k) - 1 = End(stream, i + 1) - a
    BY <1>9, <2>1
  <2> QED BY <2>1, <2>2, <2>3
<1>11. ASSUME Holds(c, k) PROVE CmdAt(c, k) = i + 1
  <2>1. ASSUME NEW j \in 1..(SizeAt(c, k) - 1) PROVE c[k + j] = c[k] + j
    <3>1. SizeAt(c, k) \in Nat /\ j \in Nat /\ j <= SizeAt(c, k) - 1
      BY <1>3, <1>8
    <3>2. k + j \in 1..(b - a)
      <4>1. k + SizeAt(c, k) - 1 <= b - a
        BY <1>5, <1>11 DEF Holds
      <4>2. k \in Nat /\ k >= 1
        BY <1>4
      <4> QED BY <3>1, <4>1, <4>2
    <3>3. c[k + j] = a + (k + j) /\ c[k] = a + k
      BY <3>2, <1>4, <1>5
    <3> QED BY <3>1, <3>3, <1>4
  <2> QED BY <1>7, <2>1 DEF CmdAt
<1> QED BY <1>2, <1>4, <1>8, <1>9, <1>10, <1>11 DEF c

\* What a scan of the cells a to b from the end of the i-th command finds: it stops
\* after the q-th, at a primitive or at a command that is not whole, and reports the
\* last fence before.
Scanned(r, a, b, i) ==
    /\ r \in [off : Nat, fence : Nat, prim : BOOLEAN]
    /\ \E q \in i..Len(stream) :
        /\ r.off = End(stream, q) - a /\ End(stream, q) <= b
        /\ \A m \in (i + 1)..q : stream[m].kind # "prim"
        /\ IF r.prim
           THEN End(stream, q) < b /\ stream[q + 1].kind = "prim"
           ELSE End(stream, q) < b =>
                    End(stream, q + 1) > b /\ stream[q + 1].kind # "prim"
        /\ IF r.fence = 0
           THEN \A m \in (i + 1)..q : stream[m].kind # "fence"
           ELSE \E f \in (i + 1)..q :
                    /\ stream[f].kind = "fence" /\ r.fence = End(stream, f) - a
                    /\ \A m \in (f + 1)..q : stream[m].kind # "fence"

\* One step of the scan.
LEMMA ScanOne ==
    ASSUME stream \in Streams, NEW a \in Nat, NEW b \in Nat, b <= SizeOf(stream),
           NEW i \in 0..Len(stream), a <= End(stream, i), End(stream, i) <= b,
           NEW from,
           End(stream, i) < b /\ End(stream, i + 1) <= b =>
               Scanned(from[End(stream, i + 1) - a + 1], a, b, i + 1)
    PROVE  Scanned(ScanStep(Segment(a, b), from, End(stream, i) - a + 1), a, b, i)
<1> DEFINE c == Segment(a, b)
           k == End(stream, i) - a + 1
           n == Len(stream)
<1>1. n \in Nat /\ End(stream, i) \in Nat /\ a <= b
  <2>1. n \in Nat /\ End(stream, i) \in Nat
    BY EndNext
  <2> QED BY <2>1
<1>2. Len(c) = b - a
  BY <1>1, SegmentSeq
<1>3. i \in i..n /\ \A m \in (i + 1)..i : FALSE
  BY <1>1
<1>4. k - 1 \in Nat /\ k - 1 = End(stream, i) - a
  BY <1>1
<1>5. CASE End(stream, i) = b
  <2>1. k > Len(c)
    BY <1>1, <1>2, <1>5
  <2>2. ScanStep(c, from, k) = Stop(k, FALSE)
    BY <2>1 DEF ScanStep
  <2>3. Scanned(Stop(k, FALSE), a, b, i)
    BY <1>1, <1>3, <1>4, <1>5 DEF Scanned, Stop
  <2> QED BY <2>2, <2>3
<1>6. CASE End(stream, i) < b
  <2>1. /\ k \in 1..(b - a) /\ i + 1 \in 1..n
        /\ KindAt(c, k) = stream[i + 1].kind
        /\ k + SizeAt(c, k) = End(stream, i + 1) - a + 1
        /\ Holds(c, k) <=> End(stream, i + 1) <= b
    BY <1>6, AtCommand
  <2>2. ~(k > Len(c))
    BY <2>1, <1>2
  <2>3. End(stream, i + 1) \in Nat /\ End(stream, i) < End(stream, i + 1)
    <3>1. i + 1 \in 0..n /\ i < i + 1
      BY <1>1, <2>1
    <3> QED BY <3>1, EndNext, EndsGrow
  <2> HIDE DEF k, c
  <2>4. CASE stream[i + 1].kind = "prim"
    <3>1. ScanStep(c, from, k) = Stop(k, TRUE)
      BY <2>1, <2>2, <2>4 DEF ScanStep
    <3>2. Scanned(Stop(k, TRUE), a, b, i)
      BY <1>1, <1>3, <1>4, <1>6, <2>4 DEF Scanned, Stop
    <3> QED BY <3>1, <3>2 DEF k, c
  <2>5. CASE stream[i + 1].kind # "prim" /\ ~(End(stream, i + 1) <= b)
    <3>1. ScanStep(c, from, k) = Stop(k, FALSE)
      BY <2>1, <2>2, <2>5 DEF ScanStep
    <3>2. Scanned(Stop(k, FALSE), a, b, i)
      BY <1>1, <1>3, <1>4, <1>6, <2>3, <2>5 DEF Scanned, Stop
    <3> QED BY <3>1, <3>2 DEF k, c
  <2>6. CASE stream[i + 1].kind # "prim" /\ End(stream, i + 1) <= b
    <3> DEFINE r == from[End(stream, i + 1) - a + 1]
    <3>1. Scanned(r, a, b, i + 1)
      BY <1>6, <2>6
    <3>2. ScanStep(c, from, k) = IF stream[i + 1].kind = "fence" /\ r.fence = 0
                                 THEN [r EXCEPT !.fence = End(stream, i + 1) - a]
                                 ELSE r
      <4>1. k + SizeAt(c, k) - 1 = End(stream, i + 1) - a
        <5>1. SizeAt(c, k) \in Nat /\ k \in Nat
          <6>1. SizeAt(c, k) = stream[i + 1].size
            BY <1>6, AtCommand DEF k, c
          <6> QED BY <6>1, <2>1, EndNext
        <5> QED BY <5>1, <2>1, <2>3, <1>1
      <4> QED BY <2>1, <2>2, <2>6, <4>1 DEF ScanStep
    <3> HIDE DEF r
    <3>3. r \in [off : Nat, fence : Nat, prim : BOOLEAN]
      BY <3>1 DEF Scanned
    <3>4. PICK q \in (i + 1)..n :
              /\ r.off = End(stream, q) - a /\ End(stream, q) <= b
              /\ \A m \in ((i + 1) + 1)..q : stream[m].kind # "prim"
              /\ IF r.prim
                 THEN End(stream, q) < b /\ stream[q + 1].kind = "prim"
                 ELSE End(stream, q) < b =>
                          End(stream, q + 1) > b /\ stream[q + 1].kind # "prim"
              /\ IF r.fence = 0
                 THEN \A m \in ((i + 1) + 1)..q : stream[m].kind # "fence"
                 ELSE \E f \in ((i + 1) + 1)..q :
                          /\ stream[f].kind = "fence" /\ r.fence = End(stream, f) - a
                          /\ \A m \in (f + 1)..q : stream[m].kind # "fence"
      BY <3>1 DEF Scanned
    <3>5. /\ q \in i..n /\ i + 1 \in (i + 1)..q
          /\ \A m \in (i + 1)..q : m = i + 1 \/ m \in ((i + 1) + 1)..q
          /\ \A m \in ((i + 1) + 1)..q : m \in (i + 1)..q
      BY <1>1
    <3>6. \A m \in (i + 1)..q : stream[m].kind # "prim"
      BY <3>4, <3>5, <2>6
    <3>7. End(stream, i + 1) - a \in Nat /\ End(stream, i + 1) - a # 0
      BY <1>1, <2>3
    <3>8. CASE stream[i + 1].kind = "fence" /\ r.fence = 0
      <4> DEFINE t == [r EXCEPT !.fence = End(stream, i + 1) - a]
      <4>1. /\ t \in [off : Nat, fence : Nat, prim : BOOLEAN]
            /\ t.off = r.off /\ t.prim = r.prim /\ t.fence = End(stream, i + 1) - a
        BY <3>3, <3>7
      <4>2. t.fence # 0
        BY <3>7, <4>1
      <4> HIDE DEF t
      <4>3. \E f \in (i + 1)..q :
                /\ stream[f].kind = "fence" /\ t.fence = End(stream, f) - a
                /\ \A m \in (f + 1)..q : stream[m].kind # "fence"
        BY <3>4, <3>5, <3>8, <4>1
      <4>4. Scanned(t, a, b, i)
        BY <3>4, <3>5, <3>6, <4>1, <4>2, <4>3 DEF Scanned
      <4> QED BY <3>2, <3>8, <4>4 DEF t, k, c
    <3>9. CASE ~(stream[i + 1].kind = "fence" /\ r.fence = 0)
      <4>1. IF r.fence = 0
            THEN \A m \in (i + 1)..q : stream[m].kind # "fence"
            ELSE \E f \in (i + 1)..q :
                     /\ stream[f].kind = "fence" /\ r.fence = End(stream, f) - a
                     /\ \A m \in (f + 1)..q : stream[m].kind # "fence"
        BY <3>4, <3>5, <3>9
      <4>2. Scanned(r, a, b, i)
        BY <3>3, <3>4, <3>5, <3>6, <4>1 DEF Scanned
      <4> QED BY <3>2, <3>9, <4>2 DEF k, c
    <3> QED BY <3>8, <3>9
  <2> QED BY <2>4, <2>5, <2>6
<1> QED BY <1>1, <1>5, <1>6

\* The whole scan, from the last command to the first.
LEMMA ScanRight ==
    ASSUME stream \in Streams, NEW b \in Nat, b <= SizeOf(stream),
           NEW i \in 0..Len(stream), End(stream, i) <= b
    PROVE  Scanned(Scan(Segment(End(stream, i), b)), End(stream, i), b, i)
<1> DEFINE a == End(stream, i)
           c == Segment(a, b)
           n == Len(stream)
           from == ScanFrom(c)
           T == {m \in Nat : \A j \in i..n : j + m = n /\ End(stream, j) <= b =>
                                 Scanned(from[End(stream, j) - a + 1], a, b, j)}
<1>1. n \in Nat /\ a \in Nat /\ \A j \in i..n : End(stream, j) \in Nat /\ a <= End(stream, j)
  <2>1. n \in Nat /\ a \in Nat
    BY EndNext
  <2>2. ASSUME NEW j \in i..n PROVE End(stream, j) \in Nat /\ a <= End(stream, j)
    <3>1. j \in 0..n /\ (j = i \/ i < j)
      BY <2>1
    <3>2. End(stream, j) \in Nat
      BY <3>1, EndNext
    <3>3. CASE j = i
      BY <3>2, <3>3
    <3>4. CASE i < j
      <4>1. End(stream, i) < End(stream, j)
        BY <3>1, <3>4, EndsGrow
      <4> QED BY <4>1, <3>2, <2>1
    <3> QED BY <3>1, <3>3, <3>4
  <2> QED BY <2>1, <2>2
<1>2. c \in Seq(1..SizeOf(stream)) /\ Len(c) = b - a
  <2>1. c \in Seq((a + 1)..b) /\ Len(c) = b - a
    BY <1>1, SegmentSeq
  <2>2. (a + 1)..b \subseteq 1..SizeOf(stream)
    <3>1. SizeOf(stream) \in Nat
      BY EndNext DEF SizeOf
    <3> QED BY <1>1, <3>1
  <2> HIDE DEF c, a
  <2> QED BY <2>1, <2>2, SeqMonotonic
<1>3. \A k \in 1..(Len(c) + 1) : from[k] = ScanStep(c, from, k)
  BY <1>2, ScanDefined
<1>4. ASSUME NEW j \in i..n, End(stream, j) <= b,
             End(stream, j) < b /\ End(stream, j + 1) <= b =>
                 Scanned(from[End(stream, j + 1) - a + 1], a, b, j + 1)
      PROVE  Scanned(from[End(stream, j) - a + 1], a, b, j)
  <2>1. j \in 0..n /\ End(stream, j) \in Nat /\ a <= End(stream, j)
    BY <1>1
  <2>2. End(stream, j) - a + 1 \in 1..(Len(c) + 1)
    BY <2>1, <1>1, <1>2, <1>4
  <2>3. from[End(stream, j) - a + 1] = ScanStep(c, from, End(stream, j) - a + 1)
    BY <2>2, <1>3
  <2> HIDE DEF from
  <2>4. Scanned(ScanStep(c, from, End(stream, j) - a + 1), a, b, j)
    BY <2>1, <1>1, <1>4, ScanOne
  <2> QED BY <2>3, <2>4
<1> HIDE DEF from
<1>5. 0 \in T
  <2>1. ASSUME NEW j \in i..n, j + 0 = n, End(stream, j) <= b
        PROVE  Scanned(from[End(stream, j) - a + 1], a, b, j)
    <3>1. j = n
      BY <1>1, <2>1
    <3>2. ~(End(stream, j) < b)
      BY <3>1, <1>1 DEF SizeOf
    <3> QED BY <3>2, <2>1, <1>4
  <2> HIDE DEF a
  <2> QED BY <2>1
<1>6. ASSUME NEW m \in T PROVE m + 1 \in T
  <2>1. m \in Nat
    OBVIOUS
  <2>2. ASSUME NEW j \in i..n, j + (m + 1) = n, End(stream, j) <= b
        PROVE  Scanned(from[End(stream, j) - a + 1], a, b, j)
    <3>1. j + 1 \in i..n /\ (j + 1) + m = n
      BY <1>1, <2>1, <2>2
    <3>2. End(stream, j + 1) <= b => Scanned(from[End(stream, j + 1) - a + 1], a, b, j + 1)
      BY <3>1
    <3> HIDE DEF a, c
    <3> QED BY <3>2, <2>2, <1>4
  <2> HIDE DEF a
  <2> QED BY <2>1, <2>2
<1>7. T = Nat
  <2> HIDE DEF T
  <2>1. T \in SUBSET Nat
    BY DEF T
  <2> QED BY <1>5, <1>6, <2>1, SetInduction
<1>8. Scanned(from[End(stream, i) - a + 1], a, b, i)
  <2>1. \A m \in Nat : \A j \in i..n : j + m = n /\ End(stream, j) <= b =>
            Scanned(from[End(stream, j) - a + 1], a, b, j)
    BY <1>7
  <2>2. n - i \in Nat /\ i \in i..n /\ i + (n - i) = n
    BY <1>1
  <2> HIDE DEF a, c
  <2> QED BY <2>1, <2>2
<1>9. End(stream, i) - a + 1 = 1
  BY <1>1
<1>10. Scan(c) = from[1]
  BY ScanIsFrom DEF from
<1> QED BY <1>8, <1>9, <1>10

-----------------------------------------------------------------------------
(* Chunks and slots. *)

\* Division with remainder: the quotient is the only one.
LEMMA Division ==
    ASSUME NEW n \in Nat \ {0}, NEW x \in Nat
    PROVE  /\ x \div n \in Nat /\ x % n \in 0..(n - 1) /\ x = (x \div n) * n + (x % n)
           /\ \A q \in Nat, r \in 0..(n - 1) : x = q * n + r => x \div n = q /\ x % n = r
<1> DEFINE p == x \div n
           s == x % n
<1>1. p \in Int /\ s \in 0..(n - 1) /\ x = n * p + s
  OBVIOUS
<1> HIDE DEF p, s
<1>2. p \in Nat
  <2>1. CASE p < 0
    <3>1. PICK m \in Nat : p = -1 - m
      <4>1. -1 - p \in Nat /\ p = -1 - (-1 - p)
        BY <1>1, <2>1
      <4> QED BY <4>1
    <3>2. n * p = -n - n * m /\ n * m \in Nat
      BY <3>1
    <3> QED BY <3>2, <1>1
  <2> QED BY <2>1, <1>1
<1>3. n * p = p * n
  BY <1>2
<1>4. ASSUME NEW q \in Nat, NEW r \in 0..(n - 1), x = q * n + r PROVE p = q /\ s = r
  <2>1. CASE p < q
    <3>1. PICK m \in Nat : q = p + 1 + m
      <4>1. q - p - 1 \in Nat /\ q = p + 1 + (q - p - 1)
        BY <1>2, <2>1
      <4> QED BY <4>1
    <3>2. q * n = p * n + n + m * n /\ m * n \in Nat /\ p * n \in Nat
      BY <3>1, <1>2
    <3> QED BY <3>2, <1>1, <1>3, <1>4
  <2>2. CASE q < p
    <3>1. PICK m \in Nat : p = q + 1 + m
      <4>1. p - q - 1 \in Nat /\ p = q + 1 + (p - q - 1)
        BY <1>2, <2>2
      <4> QED BY <4>1
    <3>2. p * n = q * n + n + m * n /\ m * n \in Nat /\ q * n \in Nat
      BY <3>1, <1>2
    <3> QED BY <3>2, <1>1, <1>3, <1>4
  <2>3. CASE p = q
    <3>1. p * n \in Nat
      BY <1>2
    <3> QED BY <3>1, <2>3, <1>1, <1>3, <1>4
  <2> QED BY <2>1, <2>2, <2>3, <1>2
<1>5. p \in Nat /\ s \in 0..(n - 1) /\ x = p * n + s
  BY <1>1, <1>2, <1>3
<1> QED BY <1>4, <1>5 DEF p, s

\* Some turns and a rest leave the rest.
LEMMA Remainder ==
    ASSUME NEW n \in Nat \ {0}, NEW q \in Nat, NEW r \in 0..(n - 1)
    PROVE  (q * n + r) % n = r /\ (q * n + r) \div n = q
<1> DEFINE x == q * n + r
<1>1. x \in Nat /\ x = q * n + r
  <2>1. q * n \in Nat
    OBVIOUS
  <2> QED BY <2>1
<1> HIDE DEF x
<1>2. x % n = r /\ x \div n = q
  BY <1>1, Division
<1> QED BY <1>2 DEF x

\* Multiples keep order and add up.
LEMMA Multiples ==
    ASSUME NEW n \in Nat \ {0}, NEW a \in Nat, NEW b \in Nat
    PROVE  /\ a * n \in Nat /\ a <= a * n
           /\ (a + b) * n = a * n + b * n /\ (a + 1) * n = a * n + n
           /\ a < b => a * n + n <= b * n
           /\ a <= b => a * n <= b * n
           /\ a * n < b * n => a < b
           /\ a * n <= b * n => a <= b
           /\ a <= b => (b - a) * n = b * n - a * n
<1>1. a * n \in Nat /\ b * n \in Nat
  OBVIOUS
<1>2. (a + b) * n = a * n + b * n /\ (a + 1) * n = a * n + n
  OBVIOUS
<1>3. a <= a * n
  <2>1. PICK k \in Nat : n = k + 1
    <3>1. n - 1 \in Nat /\ n = (n - 1) + 1
      OBVIOUS
    <3> QED BY <3>1
  <2>2. a * n = a * k + a /\ a * k \in Nat
    BY <2>1
  <2> QED BY <2>2
<1>4. ASSUME a < b PROVE a * n + n <= b * n
  <2>1. PICK k \in Nat : b = a + 1 + k
    <3>1. b - a - 1 \in Nat /\ b = a + 1 + (b - a - 1)
      BY <1>4
    <3> QED BY <3>1
  <2>2. b * n = a * n + n + k * n /\ k * n \in Nat
    BY <2>1
  <2> QED BY <2>2, <1>1
<1>5. ASSUME b < a PROVE b * n + n <= a * n
  <2>1. PICK k \in Nat : a = b + 1 + k
    <3>1. a - b - 1 \in Nat /\ a = b + 1 + (a - b - 1)
      BY <1>5
    <3> QED BY <3>1
  <2>2. a * n = b * n + n + k * n /\ k * n \in Nat
    BY <2>1
  <2> QED BY <2>2, <1>1
<1>6. a < b \/ a = b \/ b < a
  OBVIOUS
<1>7. (b - a) * n = b * n - a * n
  OBVIOUS
<1> QED BY <1>1, <1>2, <1>3, <1>4, <1>5, <1>6, <1>7

\* An offset of whole chunks, counted in chunks.
LEMMA ChunkCount ==
    ASSUME NEW m \in Nat
    PROVE  (m * Chunk) \div Chunk = m /\ m * Chunk \in Nat
<1>1. Chunk \in Nat \ {0} /\ m * Chunk \in Nat /\ 0 \in 0..(Chunk - 1)
  BY ChunkAssumption
<1>2. m * Chunk = m * Chunk + 0
  BY <1>1
<1> QED BY <1>1, <1>2, Division

\* The ring has a slot at least, and its size is that of its slots.
LEMMA SlotsRight ==
    /\ NumSlots \in Nat \ {0} /\ NumSlots * Chunk = RingCap
    /\ RingCap \in Nat /\ BufCap \in Nat /\ CarryCap \in Nat
    /\ BufCap >= MaxSizable - 1 + Chunk /\ CarryCap >= MaxSizable - 1 + Chunk
    /\ MaxSizable \in Nat \ {0} /\ Chunk \in Nat \ {0} /\ Budget \in Nat
<1>1. /\ RingCap \in Nat /\ BufCap \in Nat /\ CarryCap \in Nat
      /\ RingCap >= MaxSizable - 1 + Chunk
      /\ BufCap >= MaxSizable - 1 + Chunk /\ CarryCap >= MaxSizable - 1 + Chunk
      /\ MaxSizable \in Nat \ {0} /\ Chunk \in Nat \ {0} /\ Budget \in Nat
  BY CapAssumption, SizableAssumption, ChunkAssumption, BudgetAssumption
<1>2. RingCap % Chunk = 0
  BY CapAssumption
<1>3. NumSlots \in Nat /\ RingCap = NumSlots * Chunk + (RingCap % Chunk)
  <2>1. /\ RingCap \div Chunk \in Nat
        /\ RingCap = (RingCap \div Chunk) * Chunk + (RingCap % Chunk)
    BY <1>1, Division
  <2> QED BY <2>1 DEF NumSlots
<1>4. NumSlots * Chunk = RingCap
  <2>1. NumSlots * Chunk \in Nat
    BY <1>1, <1>3
  <2> QED BY <1>1, <1>2, <1>3, <2>1
<1>5. NumSlots # 0
  <2>1. ASSUME NumSlots = 0 PROVE FALSE
    <3>1. NumSlots * Chunk = 0
      BY <2>1, <1>1
    <3> QED BY <3>1, <1>1, <1>4
  <2> QED BY <2>1
<1> QED BY <1>1, <1>3, <1>4, <1>5

\* The slot of the m-th chunk, of the next ones up to the end of the ring, and that a
\* chunk less than a turn later is in another.
LEMMA SlotOf ==
    ASSUME NEW m \in Nat
    PROVE  /\ Slot(m * Chunk) = m % NumSlots /\ m % NumSlots \in 0..(NumSlots - 1)
           /\ \A q \in Nat : (m % NumSlots) + q < NumSlots =>
                  (m + q) % NumSlots = (m % NumSlots) + q
           /\ \A k \in Nat : m < k /\ k < m + NumSlots => k % NumSlots # m % NumSlots
<1>1. NumSlots \in Nat \ {0}
  BY SlotsRight
<1>2. Slot(m * Chunk) = m % NumSlots
  BY ChunkCount DEF Slot
<1>3. PICK p \in Nat, r \in 0..(NumSlots - 1) :
          m = p * NumSlots + r /\ m % NumSlots = r /\ m \div NumSlots = p
  BY <1>1, Division
<1>4. p * NumSlots \in Nat
  BY <1>1, <1>3
<1>5. ASSUME NEW q \in Nat, r + q < NumSlots PROVE (m + q) % NumSlots = r + q
  <2>1. m + q = p * NumSlots + (r + q) /\ m + q \in Nat /\ r + q \in 0..(NumSlots - 1)
    BY <1>1, <1>3, <1>4, <1>5
  <2>2. (p * NumSlots + (r + q)) % NumSlots = r + q
    BY <1>1, <2>1, Remainder
  <2> QED BY <2>1, <2>2
<1>6. ASSUME NEW k \in Nat, m < k, k < m + NumSlots PROVE k % NumSlots # r
  <2>1. PICK d \in Nat : k = m + d /\ 0 < d /\ d < NumSlots
    <3>1. k - m \in Nat /\ k = m + (k - m) /\ 0 < k - m /\ k - m < NumSlots
      BY <1>1, <1>6
    <3> QED BY <3>1
  <2>2. CASE r + d < NumSlots
    BY <1>3, <1>5, <2>1, <2>2
  <2>3. CASE ~(r + d < NumSlots)
    <3>1. (p + 1) * NumSlots = p * NumSlots + NumSlots /\ p + 1 \in Nat
      BY <1>1, <1>3
    <3>2. /\ k = (p + 1) * NumSlots + (r + d - NumSlots)
          /\ r + d - NumSlots \in 0..(NumSlots - 1) /\ r + d - NumSlots # r
      BY <1>1, <1>3, <1>4, <2>1, <2>3, <3>1
    <3>3. ((p + 1) * NumSlots + (r + d - NumSlots)) % NumSlots = r + d - NumSlots
      BY <1>1, <3>1, <3>2, Remainder
    <3> QED BY <3>2, <3>3
  <2> QED BY <2>2, <2>3
<1> QED BY <1>2, <1>3, <1>5, <1>6

\* The smallest of three numbers.
LEMMA LeastOfThree ==
    ASSUME NEW a \in Int, NEW b \in Int, NEW c \in Int
    PROVE  /\ Min({a, b, c}) \in {a, b, c}
           /\ Min({a, b, c}) <= a /\ Min({a, b, c}) <= b /\ Min({a, b, c}) <= c
<1>1. \E x \in {a, b, c} : \A y \in {a, b, c} : x <= y
  <2>1. CASE a <= b /\ a <= c
    BY <2>1
  <2>2. CASE b <= a /\ b <= c
    BY <2>2
  <2>3. CASE c <= a /\ c <= b
    BY <2>3
  <2> QED BY <2>1, <2>2, <2>3
<1> QED BY <1>1 DEF Min

-----------------------------------------------------------------------------
(* Positions in the stream. *)

\* The first cells of a stream hold so many commands.
LEMMA WholeUnique ==
    ASSUME stream \in Streams, NEW n \in Nat,
           NEW i \in 0..Len(stream), NEW j \in 0..Len(stream), Whole(i, n), Whole(j, n)
    PROVE  i = j
<1>1. Len(stream) \in Nat /\ \A k \in 0..Len(stream) : End(stream, k) \in Nat
  BY EndNext
<1>2. ASSUME NEW k \in 0..Len(stream), NEW l \in 0..Len(stream),
             Whole(k, n), Whole(l, n), k < l
      PROVE  FALSE
  <2>1. k + 1 \in 0..Len(stream) /\ k < Len(stream) /\ (k + 1 = l \/ k + 1 < l)
    BY <1>1, <1>2
  <2>2. End(stream, k + 1) <= End(stream, l)
    <3>1. CASE k + 1 = l
      BY <3>1, <1>1
    <3>2. CASE k + 1 < l
      <4>1. End(stream, k + 1) < End(stream, l)
        BY <2>1, <3>2, EndsGrow
      <4> QED BY <4>1, <2>1, <1>1
    <3> QED BY <2>1, <3>1, <3>2
  <2>3. n < End(stream, k + 1) /\ End(stream, l) <= n
    BY <1>2, <2>1 DEF Whole
  <2>4. End(stream, k + 1) \in Nat /\ End(stream, l) \in Nat
    BY <2>1, <1>1
  <2> QED BY <2>2, <2>3, <2>4
<1>3. i < j \/ i = j \/ j < i
  BY <1>1
<1> QED BY <1>2, <1>3

\* The ends in their order.
LEMMA EndsOrder ==
    ASSUME stream \in Streams, NEW i \in 0..Len(stream), NEW j \in 0..Len(stream), i <= j
    PROVE  /\ End(stream, i) \in Nat /\ End(stream, j) \in Nat
           /\ End(stream, i) <= End(stream, j) /\ End(stream, j) <= SizeOf(stream)
           /\ SizeOf(stream) \in Nat
<1>1. Len(stream) \in Nat /\ \A k \in 0..Len(stream) : End(stream, k) \in Nat
  BY EndNext
<1>2. ASSUME NEW k \in 0..Len(stream), NEW l \in 0..Len(stream), k <= l
      PROVE  End(stream, k) <= End(stream, l)
  <2>1. k = l \/ k < l
    BY <1>1, <1>2
  <2>2. CASE k < l
    <3>1. End(stream, k) < End(stream, l)
      BY <2>2, EndsGrow
    <3> QED BY <3>1, <1>1
  <2> QED BY <2>1, <2>2, <1>1
<1>3. Len(stream) \in 0..Len(stream) /\ j <= Len(stream)
  BY <1>1
<1> QED BY <1>1, <1>2, <1>3 DEF SizeOf

\* Where everything stands.
LEMMA Positions ==
    ASSUME Control, LeftRight, BufRight, DecodedRight
    PROVE  /\ SizeOf(stream) \in Nat /\ Committed <= SizeOf(stream)
           /\ Fetched \in Nat /\ Committed \in Nat /\ Fetched <= Committed
           /\ Base \in Int /\ PulledTo \in Nat /\ PulledTo <= Fetched
           /\ Fetched = PulledTo + (produced - pulled)
           /\ Done \in 0..Len(stream) /\ DoneTo \in Nat /\ Len(stream) \in Nat
           /\ Fetched = IF Publishing THEN taken * Chunk + Chunk ELSE taken * Chunk
           /\ taken * Chunk \in Nat
           /\ left > 0 => taken * Chunk + Chunk <= SizeOf(stream)
<1>1. /\ taken \in Nat /\ produced \in Nat /\ pulled \in Nat /\ wproduced \in Nat /\ left \in Nat
      /\ Chunk \in Nat \ {0} /\ pulled <= produced /\ stream \in Streams
  <2>1. NumberTypes /\ PlaceTypes /\ OffsetsOrdered
    BY DEF Control
  <2>2. Budget \in Nat /\ Chunk \in Nat \ {0}
    BY SlotsRight
  <2> QED BY <2>1, <2>2 DEF NumberTypes, PlaceTypes, OffsetsOrdered
<1>2. Done \in 0..Len(stream) /\ DoneTo \in Nat /\ Len(stream) \in Nat
  <2>1. Len(stream) \in Nat
    BY <1>1, EndNext
  <2>2. Done \in Nat
    BY DEF Done, DecodedRight
  <2>3. Done \in 0..Len(stream)
    BY <2>1, <2>2 DEF DecodedRight
  <2>4. DoneTo \in Nat
    BY <1>1, <2>3, EndNext DEF DoneTo
  <2> QED BY <2>1, <2>3, <2>4
<1>3. SizeOf(stream) \in Nat
  BY <1>1, <1>2, EndsOrder
<1>4. /\ taken * Chunk \in Nat /\ (taken + 1) * Chunk = taken * Chunk + Chunk
      /\ Chunk * taken = taken * Chunk /\ Chunk * (taken + 1) = (taken + 1) * Chunk
  BY <1>1
<1>5. /\ taken * Chunk <= SizeOf(stream)
      /\ left > 0 => taken * Chunk + Chunk <= SizeOf(stream)
  <2>1. (taken + left) * Chunk <= SizeOf(stream) /\ taken + left \in Nat
        /\ (taken + left) * Chunk \in Nat
    BY <1>1 DEF LeftRight
  <2>2. taken * Chunk <= (taken + left) * Chunk
    BY <1>1, <2>1, Multiples
  <2>3. ASSUME left > 0 PROVE taken * Chunk + Chunk <= (taken + left) * Chunk
    <3>1. taken < taken + left
      BY <1>1, <2>3
    <3> QED BY <1>1, <2>1, <3>1, Multiples
  <2> QED BY <1>1, <1>3, <1>4, <2>1, <2>2, <2>3
<1>6. Fetched = IF Publishing THEN taken * Chunk + Chunk ELSE taken * Chunk
  BY <1>4 DEF Fetched, Publishing
<1>7. Fetched \in Nat /\ Fetched <= SizeOf(stream) /\ (Publishing => left > 0)
  BY <1>1, <1>3, <1>4, <1>5, <1>6 DEF LeftRight
<1>8. Committed \in Nat /\ Fetched <= Committed /\ Committed <= SizeOf(stream)
  <2>1. Filling => left > 0 /\ ~ Publishing
    BY DEF LeftRight, Filling, Publishing, WaitFor, WaitPcs
  <2> QED BY <1>1, <1>3, <1>4, <1>5, <1>6, <1>7, <2>1 DEF Committed
<1>9. Base \in Int /\ PulledTo \in Int /\ PulledTo <= Fetched
      /\ Fetched = PulledTo + (produced - pulled)
  BY <1>1, <1>7 DEF Base, PulledTo
<1>10. PulledTo \in Nat
  BY <1>2, <1>9 DEF BufRight
<1> QED BY <1>2, <1>3, <1>4, <1>5, <1>6, <1>7, <1>8, <1>9, <1>10

\* Nothing to decode: the cells pulled hold no command more.
LEMMA DryRight ==
    ASSUME stream \in Streams, NEW n \in Nat, n <= SizeOf(stream), DecodedRight,
           DoneTo <= n, buf = Segment(DoneTo, n), ~ CanDecode
    PROVE  Whole(Done, n)
<1>1. Len(stream) \in Nat /\ Done \in 0..Len(stream) /\ DoneTo \in Nat
  <2>1. Len(stream) \in Nat
    BY EndNext
  <2>2. Done \in 0..Len(stream)
    BY <2>1 DEF Done, DecodedRight
  <2> QED BY <2>1, <2>2, EndNext DEF DoneTo
<1>2. ASSUME Done < Len(stream) PROVE n < End(stream, Done + 1)
  <2>0. Done + 1 \in 0..Len(stream) /\ Done < Done + 1
    BY <1>1, <1>2
  <2>1. End(stream, Done + 1) \in Nat /\ DoneTo < End(stream, Done + 1)
    BY <1>1, <2>0, EndNext, EndsGrow DEF DoneTo
  <2>2. CASE DoneTo = n
    BY <2>1, <2>2
  <2>3. CASE DoneTo < n
    <3>1. Len(buf) = n - DoneTo
      BY <1>1, SegmentSeq
    <3>2. buf # <<>>
      BY <3>1, <1>1, <2>3
    <3>3. DoneTo - DoneTo + 1 = 1
      BY <1>1
    <3>4. Holds(buf, 1) <=> End(stream, Done + 1) <= n
      BY <1>1, <2>3, <3>3, AtCommand DEF DoneTo
    <3> QED BY <2>1, <3>2, <3>4 DEF CanDecode
  <2> QED BY <1>1, <2>2, <2>3
<1> QED BY <1>2 DEF Whole, DoneTo

\* Something: it is the next command, and it is all there.
LEMMA DecodeRight ==
    ASSUME stream \in Streams, NEW n \in Nat, n <= SizeOf(stream), DecodedRight,
           DoneTo <= n, buf = Segment(DoneTo, n), CanDecode, Decode
    PROVE  /\ decoded' = Append(decoded, Done + 1) /\ decoded' \in Seq(Nat)
           /\ Done + 1 \in 1..Len(stream) /\ Len(decoded') = Done + 1
           /\ \A j \in 1..(Done + 1) : decoded'[j] = j
           /\ End(stream, Done + 1) \in Nat /\ End(stream, Done + 1) <= n
           /\ DoneTo < End(stream, Done + 1) /\ DoneTo \in Nat
           /\ buf' = Segment(End(stream, Done + 1), n)
<1>1. Len(stream) \in Nat /\ Done \in 0..Len(stream) /\ DoneTo \in Nat
  <2>1. Len(stream) \in Nat
    BY EndNext
  <2>2. Done \in 0..Len(stream)
    BY <2>1 DEF Done, DecodedRight
  <2> QED BY <2>1, <2>2, EndNext DEF DoneTo
<1>2. Len(buf) = n - DoneTo
  BY <1>1, SegmentSeq
<1>3. DoneTo < n
  <2>1. CASE DoneTo = n
    <3>1. Len(buf) = 0 /\ buf \in Seq(Nat)
      BY <1>1, <1>2, <2>1, SegmentSeq
    <3> QED BY <3>1, EmptySeq DEF CanDecode
  <2> QED BY <1>1, <2>1
<1>4. DoneTo - DoneTo + 1 = 1
  BY <1>1
<1>5. /\ Done + 1 \in 1..Len(stream)
      /\ 1 + SizeAt(buf, 1) = End(stream, Done + 1) - DoneTo + 1
      /\ Holds(buf, 1) <=> End(stream, Done + 1) <= n
      /\ Holds(buf, 1) => CmdAt(buf, 1) = Done + 1
      /\ SizeAt(buf, 1) = stream[Done + 1].size
  BY <1>1, <1>3, <1>4, AtCommand DEF DoneTo
<1>6. CmdAt(buf, 1) = Done + 1 /\ End(stream, Done + 1) <= n
  BY <1>5 DEF CanDecode
<1>7. End(stream, Done + 1) \in Nat /\ DoneTo < End(stream, Done + 1)
  <2>1. Done + 1 \in 0..Len(stream) /\ Done < Done + 1
    BY <1>1, <1>5
  <2> QED BY <1>1, <2>1, EndNext, EndsGrow DEF DoneTo
<1>8. decoded' = Append(decoded, Done + 1)
  BY <1>6 DEF Decode
<1>9. /\ decoded' \in Seq(Nat) /\ Len(decoded') = Done + 1
      /\ \A j \in 1..(Done + 1) : decoded'[j] = j
  <2>1. decoded \in Seq(Nat) /\ Len(decoded) = Done /\ Done \in Nat
        /\ \A j \in 1..Done : decoded[j] = j
    BY <1>1 DEF DecodedRight, Done
  <2>2. decoded' \in Seq(Nat) /\ Len(decoded') = Done + 1
    BY <1>8, <2>1
  <2>3. ASSUME NEW j \in 1..(Done + 1) PROVE decoded'[j] = j
    <3>1. CASE j = Done + 1
      BY <1>8, <2>1, <3>1
    <3>2. CASE j \in 1..Done
      BY <1>8, <2>1, <3>2
    <3> QED BY <2>1, <3>1, <3>2
  <2> QED BY <2>2, <2>3
<1>10. buf' = Segment(End(stream, Done + 1), n)
  <2> DEFINE m == End(stream, Done + 1) - DoneTo
  <2>1. SizeAt(buf, 1) = m /\ m \in 0..(n - DoneTo) /\ DoneTo + m = End(stream, Done + 1)
    <3>1. SizeAt(buf, 1) \in Nat
      BY <1>5, EndNext
    <3> QED BY <1>1, <1>5, <1>6, <1>7, <3>1
  <2>2. buf' = SubSeq(buf, m + 1, n - DoneTo)
    BY <1>2, <2>1 DEF Decode
  <2> HIDE DEF m
  <2>3. buf' = Segment(DoneTo + m, n)
    BY <1>1, <2>1, <2>2, SegmentTail
  <2> QED BY <2>1, <2>3
<1> QED BY <1>1, <1>5, <1>6, <1>7, <1>8, <1>9, <1>10

\* What follows from the invariant's numbers, for the steps that need no more.
LEMMA Numbers ==
    ASSUME PipeInv
    PROVE  /\ NumberTypes /\ BooleanTypes /\ PlaceTypes
           /\ OffsetsOrdered /\ WaitRight /\ ModesRight /\ DrainedIsIdle
           /\ FlagsRight /\ EpochRight /\ AnswerComes /\ FenceOff /\ NeverFails
           /\ LeftRight /\ ChunksRight /\ RoomRight /\ RingRight
           /\ DecodedRight /\ BufRight /\ BufDry
           /\ CarryTypes /\ CarryRight /\ SizableOnly /\ FenceDue /\ FenceMet
  BY DEF PipeInv, Control, Data, Fences

\* What is left in the staging buffer of a worker that has more to pull is the
\* beginning of a command that the scanner could size.
LEMMA LeftoverSmall ==
    ASSUME PipeInv, wpc = "pull"
    PROVE  Len(buf) \in Nat /\ Len(buf) < MaxSizable
<1>1. /\ DoneTo \in Nat /\ PulledTo \in Nat /\ PulledTo < Fetched /\ Fetched <= Committed
      /\ Fetched \in Nat /\ Committed \in Nat
      /\ Committed <= SizeOf(stream) /\ Done \in 0..Len(stream) /\ Len(stream) \in Nat
      /\ SizeOf(stream) \in Nat /\ doneUpto # produced
  <2>1. /\ DoneTo \in Nat /\ PulledTo \in Nat /\ Fetched <= Committed
        /\ Fetched \in Nat /\ Committed \in Nat
        /\ Committed <= SizeOf(stream) /\ Done \in 0..Len(stream) /\ Len(stream) \in Nat
        /\ SizeOf(stream) \in Nat /\ Fetched = PulledTo + (produced - pulled)
    BY Numbers, Positions DEF PipeInv
  <2>2. /\ pulled < produced /\ doneUpto # produced
        /\ pulled \in Nat /\ produced \in Nat
    BY Numbers DEF NumberTypes, OffsetsOrdered
  <2> QED BY <2>1, <2>2
<1>2. stream \in Streams /\ buf = Segment(DoneTo, PulledTo) /\ DoneTo <= PulledTo
  BY Numbers DEF PlaceTypes, BufRight
<1>3. Whole(Done, PulledTo)
  <2>1. cpc # "syncrun"
    BY <1>1, Numbers DEF ModesRight, DrainedIsIdle
  <2> QED BY <2>1, Numbers DEF BufDry
<1>4. Done < Len(stream)
  <2>1. CASE Done = Len(stream)
    BY <2>1, <1>1, <1>2 DEF DoneTo, SizeOf
  <2> QED BY <2>1, <1>1
<1>5. PulledTo < End(stream, Done + 1)
  BY <1>3, <1>4 DEF Whole
<1>6. /\ Done + 1 \in 1..Len(stream) /\ (Done + 1) - 1 = Done /\ Done + 1 > Done
      /\ End(stream, (Done + 1) - 1) = DoneTo
  BY <1>1, <1>4 DEF DoneTo
<1>7. stream[Done + 1].kind # "prim"
  <2>1. DoneTo < Committed
    BY <1>1, <1>2
  <2>2. End(stream, (Done + 1) - 1) < Committed
    BY <2>1, <1>6
  <2> QED BY <2>2, <1>1, <1>6, Numbers DEF SizableOnly
<1>8. stream[Done + 1].size <= MaxSizable /\ stream[Done + 1].size \in Nat
  <2>1. Done + 1 \in DOMAIN stream
    BY <1>2, <1>6, EndNext
  <2> QED BY <2>1, <1>2, <1>6, <1>7, StreamsAssumption, EndNext
<1>9. End(stream, Done + 1) = DoneTo + stream[Done + 1].size
  BY <1>2, <1>6, EndNext
<1>10. Len(buf) = PulledTo - DoneTo
  BY <1>1, <1>2, SegmentSeq
<1>11. MaxSizable \in Nat
  BY SlotsRight
<1> QED BY <1>1, <1>2, <1>5, <1>8, <1>9, <1>10, <1>11

\* A worker that pulls takes chunks that were published and that fit, and finds in the
\* ring the cells that follow those it has.
LEMMA PullRight ==
    ASSUME PipeInv, wpc = "pull"
    PROVE  /\ Take \in Nat \ {0} /\ Take * Chunk \in Nat \ {0}
           /\ pulled + Take * Chunk <= wproduced
           /\ Len(buf) + Take * Chunk <= BufCap
           /\ InChunks(pulled + Take * Chunk)
           /\ PulledCells(Take) = Segment(PulledTo, PulledTo + Take * Chunk)
<1> DEFINE n == Take
           first == Slot(pulled)
<1>1. PICK a \in Nat, b \in Nat :
          pulled = a * Chunk /\ wproduced = b * Chunk
  <2>1. NumberTypes /\ ChunksRight
    BY Numbers
  <2> QED BY <2>1 DEF NumberTypes, ChunksRight, InChunks
<1>2. /\ Chunk \in Nat \ {0} /\ NumSlots \in Nat \ {0} /\ BufCap \in Nat
      /\ BufCap >= MaxSizable - 1 + Chunk /\ MaxSizable \in Nat
  BY SlotsRight
<1>3. /\ pulled \in Nat /\ wproduced \in Nat /\ produced \in Nat
      /\ pulled < wproduced /\ wproduced <= produced
  BY Numbers DEF NumberTypes, OffsetsOrdered
<1>4. a < b /\ b - a \in Nat /\ (b - a) * Chunk = wproduced - pulled
  <2>1. a < b
    BY <1>1, <1>2, <1>3, Multiples
  <2>2. (b - a) * Chunk = b * Chunk - a * Chunk
    BY <1>2, <2>1, Multiples
  <2> QED BY <1>1, <2>1, <2>2
<1>5. (wproduced - pulled) \div Chunk = b - a
  BY <1>4, ChunkCount
<1>6. first = a % NumSlots /\ first \in 0..(NumSlots - 1)
  BY <1>1, SlotOf
<1>7. Len(buf) \in Nat /\ Len(buf) < MaxSizable
  BY LeftoverSmall
<1> DEFINE room == (BufCap - Len(buf)) \div Chunk
<1>8. room \in Nat \ {0} /\ room * Chunk \in Nat /\ room * Chunk <= BufCap - Len(buf)
  <2> DEFINE x == BufCap - Len(buf)
  <2>1. x \in Nat /\ x >= Chunk
    BY <1>2, <1>7
  <2> HIDE DEF x
  <2>2. /\ x \div Chunk \in Nat /\ x % Chunk \in 0..(Chunk - 1)
        /\ x = (x \div Chunk) * Chunk + (x % Chunk)
    BY <2>1, <1>2, Division
  <2>3. (x \div Chunk) * Chunk \in Nat
    BY <2>2, <1>2
  <2>4. x \div Chunk # 0
    <3>1. ASSUME x \div Chunk = 0 PROVE FALSE
      <4>1. (x \div Chunk) * Chunk = 0
        BY <3>1, <1>2
      <4> QED BY <4>1, <2>1, <2>2, <1>2
    <3> QED BY <3>1
  <2>5. (x \div Chunk) * Chunk <= x
    BY <2>1, <2>2, <2>3, <1>2
  <2> QED BY <2>2, <2>3, <2>4, <2>5 DEF x
<1>9. n \in {b - a, NumSlots - first, room} /\ n <= b - a /\ n <= NumSlots - first /\ n <= room
  <2>1. n = Min({b - a, NumSlots - first, room})
    BY <1>5 DEF Take
  <2>2. b - a \in Int /\ NumSlots - first \in Int /\ room \in Int
    BY <1>2, <1>4, <1>6, <1>8
  <2> HIDE DEF n, first, room
  <2> QED BY <2>1, <2>2, LeastOfThree
<1> HIDE DEF n, first, room
<1>10. n \in Nat \ {0}
  BY <1>2, <1>4, <1>6, <1>8, <1>9
<1>11. n * Chunk \in Nat /\ n <= n * Chunk /\ n * Chunk <= wproduced - pulled
       /\ n * Chunk <= BufCap - Len(buf)
  <2>1. n * Chunk \in Nat /\ n <= n * Chunk
    BY <1>2, <1>10, Multiples
  <2>2. n * Chunk <= (b - a) * Chunk
    BY <1>2, <1>4, <1>9, <1>10, Multiples
  <2>3. n * Chunk <= room * Chunk
    BY <1>2, <1>8, <1>9, <1>10, Multiples
  <2> QED BY <1>2, <1>4, <1>7, <1>8, <2>1, <2>2, <2>3
<1>12. InChunks(pulled + n * Chunk)
  <2>1. a + n \in Nat /\ (a + n) * Chunk = pulled + n * Chunk
    BY <1>1, <1>2, <1>10, Multiples
  <2>2. a + n <= (a + n) * Chunk
    BY <1>2, <2>1, Multiples
  <2> QED BY <2>1, <2>2, <1>3, <1>11 DEF InChunks
<1>13. PulledTo \in Nat /\ Base \in Int /\ PulledTo = Base + pulled
  BY Numbers, Positions DEF PipeInv, PulledTo
<1>14. ASSUME NEW j \in 1..(n * Chunk)
       PROVE  ChunkCells(ring[first + ((j - 1) \div Chunk)])[((j - 1) % Chunk) + 1]
                  = PulledTo + j
  <2> DEFINE q == (j - 1) \div Chunk
             r == (j - 1) % Chunk
  <2>1. q \in Nat /\ r \in 0..(Chunk - 1) /\ j - 1 = q * Chunk + r /\ j - 1 \in Nat
    <3>1. j - 1 \in Nat
      BY <1>11
    <3> QED BY <1>2, <3>1, Division
  <2> HIDE DEF q, r
  <2>2. q * Chunk \in Nat /\ q < n
    <3>1. q * Chunk \in Nat
      BY <1>2, <2>1
    <3>2. q * Chunk < n * Chunk
      BY <1>2, <1>11, <2>1, <3>1
    <3> QED BY <1>2, <1>10, <2>1, <3>1, <3>2, Multiples
  <2>3. first + q = (a + q) % NumSlots
    <3>1. first + q < NumSlots
      BY <1>2, <1>6, <1>9, <1>10, <2>1, <2>2
    <3> QED BY <1>6, <2>1, <3>1, SlotOf
  <2>4. /\ a + q \in Nat /\ (a + q) * Chunk = pulled + q * Chunk
        /\ a + q <= (a + q) * Chunk
    <3>1. (a + q) * Chunk = a * Chunk + q * Chunk
      BY <1>2, <2>1, Multiples
    <3>2. a + q \in Nat /\ a + q <= (a + q) * Chunk
      BY <1>2, <2>1, Multiples
    <3> QED BY <1>1, <3>1, <3>2
  <2>5. q * Chunk < n * Chunk
    <3>1. q * Chunk + Chunk <= n * Chunk
      BY <1>2, <1>10, <2>1, <2>2, Multiples
    <3> QED BY <1>2, <1>11, <2>2, <3>1
  <2>6. pulled <= (a + q) * Chunk /\ (a + q) * Chunk < produced /\ a + q \in 0..produced
    BY <1>3, <1>11, <2>2, <2>4, <2>5
  <2>7. ring[(a + q) % NumSlots] * Chunk = Base + (a + q) * Chunk + Chunk
    BY <2>6, Numbers DEF RingRight
  <2> DEFINE v == ring[first + q]
  <2>8. v \in Nat /\ v * Chunk = PulledTo + q * Chunk + Chunk
    <3>1. (a + q) % NumSlots \in 0..(NumSlots - 1)
      BY <2>4, SlotOf
    <3>2. v \in Nat
      BY <2>3, <3>1, Numbers DEF RingRight
    <3> QED BY <3>2, <2>2, <2>3, <2>4, <2>7, <1>2, <1>3, <1>13
  <2> HIDE DEF v
  <2>9. (v - 1) * Chunk = v * Chunk - Chunk
    BY <2>8, <1>2
  <2>10. ChunkCells(v)[r + 1] = (v - 1) * Chunk + (r + 1)
    <3>1. r + 1 \in 1..Chunk
      BY <2>1, <1>2
    <3> QED BY <3>1 DEF ChunkCells
  <2>11. (v - 1) * Chunk + (r + 1) = PulledTo + j
    BY <1>2, <1>13, <2>1, <2>2, <2>8, <2>9
  <2> QED BY <2>10, <2>11 DEF v, q, r
<1>15. (PulledTo + n * Chunk) - PulledTo = n * Chunk
  BY <1>11, <1>13
<1>16. PulledCells(n) = Segment(PulledTo, PulledTo + n * Chunk)
  BY <1>14, <1>15 DEF PulledCells, Segment, first
<1>17. n * Chunk # 0 /\ pulled + n * Chunk <= wproduced /\ Len(buf) + n * Chunk <= BufCap
  BY <1>2, <1>3, <1>7, <1>10, <1>11
<1> QED BY <1>10, <1>11, <1>12, <1>16, <1>17 DEF n

\* What the scanner holds and where it stands.
LEMMA CarryStands ==
    ASSUME PipeInv, Piped
    PROVE  \E i \in 0..Len(stream) :
               /\ End(stream, i) = Base + scanPos /\ Whole(i, Committed)
               /\ End(stream, i) <= Committed
               /\ carry = Segment(End(stream, i), Committed)
<1>1. PICK i \in 0..Len(stream) : End(stream, i) = Base + scanPos /\ Whole(i, Committed)
  BY Numbers DEF CarryRight
<1>2. carry = Segment(Base + scanPos, Committed)
  BY Numbers DEF CarryRight
<1> QED BY <1>1, <1>2 DEF Whole

\* What a scan of one chunk more finds: from the end of the i-th command to that of the
\* q-th, either all that is whole, or what is before a primitive.
ScanFinds(scan, rest, i, q) ==
    /\ End(stream, i) = Base + scanPos /\ Whole(i, Fetched)
    /\ End(stream, q) = Base + scanPos + scan.off
    /\ rest = Segment(End(stream, q), Fetched + Chunk)
    /\ scan.prim = FALSE =>
           /\ Whole(q, Fetched + Chunk)
           /\ Len(rest) + Chunk <= CarryCap
           /\ \A m \in (i + 1)..q : stream[m].kind # "prim"
           /\ End(stream, q) < Fetched + Chunk => stream[q + 1].kind # "prim"
    /\ IF scan.fence = 0
       THEN \A m \in (i + 1)..q : stream[m].kind # "fence"
       ELSE \E f \in (i + 1)..q :
                /\ End(stream, f) = Base + scanPos + scan.fence
                /\ \A m \in (f + 1)..q : stream[m].kind # "fence"

\* The scanner goes on where it stood, up to a command that is not whole, which it can
\* size, or to the beginning of a primitive.
LEMMA ScanNext ==
    ASSUME PipeInv, cpc = "scan", left > 0, ~ syncmode,
           NEW cells, cells = carry \o ChunkCells(taken + 1),
           NEW scan, scan = Scan(cells),
           NEW rest, rest = SubSeq(cells, scan.off + 1, Len(cells))
    PROVE  /\ Committed = Fetched /\ Fetched + Chunk <= SizeOf(stream)
           /\ scan.off \in Nat /\ scan.fence \in Nat /\ scan.prim \in BOOLEAN
           /\ rest \in Seq(1..SizeOf(stream)) /\ Len(rest) <= Len(cells)
           /\ \E i \in 0..Len(stream) : \E q \in i..Len(stream) : ScanFinds(scan, rest, i, q)
<1> DEFINE F == Fetched
           b == F + Chunk
<1>1. /\ F \in Nat /\ F = Fetched /\ b = F + Chunk /\ Committed = F /\ F = taken * Chunk
      /\ b \in Nat /\ b <= SizeOf(stream)
      /\ Base \in Int /\ Chunk \in Nat \ {0} /\ taken \in Nat /\ stream \in Streams
      /\ SizeOf(stream) \in Nat /\ Len(stream) \in Nat /\ scanPos \in Int
  <2>1. ~ Filling /\ ~ Publishing
    BY DEF Filling, Publishing, WaitFor, WaitPcs
  <2>2. /\ F \in Nat /\ F = taken * Chunk /\ taken * Chunk + Chunk <= SizeOf(stream)
        /\ Base \in Int /\ SizeOf(stream) \in Nat /\ Len(stream) \in Nat
    BY <2>1, Numbers, Positions DEF PipeInv
  <2>3. Committed = F
    BY <2>1 DEF Committed
  <2>4. Chunk \in Nat \ {0}
    BY SlotsRight
  <2>5. taken \in Nat /\ stream \in Streams /\ scanPos \in Int
    BY Numbers DEF NumberTypes, PlaceTypes, CarryTypes
  <2> QED BY <2>2, <2>3, <2>4, <2>5
<1> HIDE DEF F, b
<1>2. PICK i \in 0..Len(stream) :
          /\ End(stream, i) = Base + scanPos /\ Whole(i, F) /\ End(stream, i) <= F
          /\ carry = Segment(End(stream, i), F)
  <2>1. Piped
    BY DEF Piped, Leaving, WaitFor, WaitPcs
  <2> QED BY <1>1, <2>1, CarryStands
<1> DEFINE a == End(stream, i)
<1>3. a \in Nat /\ a <= F /\ a <= b /\ F <= b
  BY <1>1, <1>2, EndNext
<1>4. cells = Segment(a, b) /\ Len(cells) = b - a
  <2>1. ChunkCells(taken + 1) = Segment(F, b)
    <3>1. ChunkCells(taken + 1) = Segment(taken * Chunk, taken * Chunk + Chunk)
      BY <1>1, ChunkSegment
    <3> QED BY <1>1, <3>1
  <2> HIDE DEF a
  <2>2. Segment(a, F) \o Segment(F, b) = Segment(a, b)
    BY <1>1, <1>3, SegmentConcat
  <2>3. cells = Segment(a, b)
    BY <1>2, <2>1, <2>2 DEF a
  <2> QED BY <1>1, <1>3, <2>3, SegmentSeq
<1>5. Scanned(scan, a, b, i)
  <2>1. Scanned(Scan(Segment(a, b)), a, b, i)
    <3> QED BY <1>1, <1>3, ScanRight
  <2> QED BY <1>4, <2>1
<1>6. PICK q \in i..Len(stream) :
        /\ scan.off = End(stream, q) - a /\ End(stream, q) <= b
        /\ \A m \in (i + 1)..q : stream[m].kind # "prim"
        /\ IF scan.prim
           THEN End(stream, q) < b /\ stream[q + 1].kind = "prim"
           ELSE End(stream, q) < b =>
                    End(stream, q + 1) > b /\ stream[q + 1].kind # "prim"
        /\ IF scan.fence = 0
           THEN \A m \in (i + 1)..q : stream[m].kind # "fence"
           ELSE \E f \in (i + 1)..q :
                    /\ stream[f].kind = "fence" /\ scan.fence = End(stream, f) - a
                    /\ \A m \in (f + 1)..q : stream[m].kind # "fence"
  BY <1>5 DEF Scanned
<1>7. scan.off \in Nat /\ scan.fence \in Nat /\ scan.prim \in BOOLEAN
  BY <1>5 DEF Scanned
<1>8. /\ q \in 0..Len(stream) /\ End(stream, q) \in Nat /\ a <= End(stream, q)
      /\ End(stream, q) <= b
  <2>1. q \in 0..Len(stream) /\ i \in 0..Len(stream) /\ i <= q
    BY <1>1
  <2>2. End(stream, q) <= b
    BY <1>6
  <2> QED BY <2>1, <2>2, <1>1, EndsOrder
<1>9. End(stream, q) = Base + scanPos + scan.off
  BY <1>1, <1>2, <1>6, <1>8
<1>10. rest = Segment(End(stream, q), b) /\ Len(rest) = b - End(stream, q)
       /\ rest \in Seq(1..SizeOf(stream)) /\ Len(rest) <= Len(cells)
  <2> DEFINE o == End(stream, q) - a
  <2>1. o \in 0..(b - a) /\ a + o = End(stream, q) /\ o = scan.off
    BY <1>1, <1>3, <1>6, <1>8
  <2> HIDE DEF o
  <2>2. rest = SubSeq(Segment(a, b), o + 1, b - a)
    BY <1>4, <2>1
  <2> HIDE DEF a
  <2>3. rest = Segment(a + o, b)
    BY <1>1, <1>3, <2>1, <2>2, SegmentTail
  <2>4. rest = Segment(End(stream, q), b)
    BY <2>1, <2>3
  <2>5. Len(rest) = b - End(stream, q) /\ rest \in Seq((End(stream, q) + 1)..b)
    <3>1. /\ Len(Segment(End(stream, q), b)) = b - End(stream, q)
          /\ Segment(End(stream, q), b) \in Seq((End(stream, q) + 1)..b)
      BY <1>1, <1>8, SegmentSeq
    <3> QED BY <2>4, <3>1
  <2>6. (End(stream, q) + 1)..b \subseteq 1..SizeOf(stream)
    BY <1>1, <1>8
  <2>7. rest \in Seq(1..SizeOf(stream))
    BY <2>5, <2>6, SeqMonotonic
  <2>8. Len(rest) <= Len(cells)
    BY <1>1, <1>3, <1>4, <1>8, <2>5
  <2> QED BY <2>4, <2>5, <2>7, <2>8
<1>11. ASSUME scan.prim = FALSE
       PROVE  /\ Whole(q, b) /\ Len(rest) + Chunk <= CarryCap
              /\ End(stream, q) < b => stream[q + 1].kind # "prim"
  <2> DEFINE e == End(stream, q)
  <2>1. /\ CarryCap \in Nat /\ CarryCap >= MaxSizable - 1 + Chunk /\ MaxSizable \in Nat \ {0}
        /\ Chunk \in Nat
    BY SlotsRight
  <2>2. e \in Nat /\ e <= b /\ b \in Nat /\ Len(rest) = b - e
    BY <1>1, <1>8, <1>10
  <2>3. CASE e = b
    <3>1. ASSUME q < Len(stream) PROVE b < End(stream, q + 1)
      <4>1. q + 1 \in 0..Len(stream) /\ q < q + 1
        BY <1>8, <3>1, <1>1
      <4> QED BY <4>1, <1>8, <2>3, <1>1, EndsGrow
    <3>2. (b - e) + Chunk <= CarryCap
      <4> HIDE DEF e
      <4> QED BY <2>1, <2>2, <2>3
    <3>3. Whole(q, b)
      BY <1>8, <3>1 DEF Whole
    <3>4. ~(End(stream, q) < b)
      BY <2>2, <2>3
    <3> QED BY <2>2, <3>2, <3>3, <3>4
  <2>4. CASE e < b
    <3>1. End(stream, q + 1) > b /\ stream[q + 1].kind # "prim"
      BY <1>6, <1>11, <2>4
    <3>2. q # Len(stream)
      BY <1>1, <1>8, <2>4 DEF SizeOf
    <3>3. q + 1 \in 1..Len(stream) /\ (q + 1) - 1 = q
      BY <1>1, <1>8, <3>2
    <3> DEFINE z == stream[q + 1].size
    <3>4. z <= MaxSizable /\ z \in Nat
      <4>1. q + 1 \in DOMAIN stream
        BY <1>1, <3>3, EndNext
      <4> QED BY <1>1, <3>1, <3>3, <4>1, StreamsAssumption, EndNext
    <3>5. End(stream, q + 1) = e + z
      BY <1>1, <3>3, EndNext
    <3> HIDE DEF e, z
    <3>6. e + z > b
      BY <3>1, <3>5
    <3>7. (b - e) + Chunk <= CarryCap
      BY <2>1, <2>2, <3>4, <3>6
    <3>8. b < End(stream, q + 1)
      BY <2>2, <3>4, <3>5, <3>6
    <3>9. Whole(q, b)
      BY <1>8, <3>8 DEF Whole
    <3> QED BY <2>2, <3>1, <3>7, <3>9
  <2>5. e = b \/ e < b
    BY <2>2
  <2> HIDE DEF e
  <2> QED BY <2>3, <2>4, <2>5
<1>12. IF scan.fence = 0
       THEN \A m \in (i + 1)..q : stream[m].kind # "fence"
       ELSE \E f \in (i + 1)..q :
                /\ End(stream, f) = Base + scanPos + scan.fence
                /\ \A m \in (f + 1)..q : stream[m].kind # "fence"
  <2>1. CASE scan.fence = 0
    BY <1>6, <2>1
  <2>2. CASE scan.fence # 0
    <3>1. PICK f \in (i + 1)..q :
              /\ scan.fence = End(stream, f) - a
              /\ \A m \in (f + 1)..q : stream[m].kind # "fence"
      BY <1>6, <2>2
    <3>2. f \in 0..Len(stream) /\ End(stream, f) \in Nat
      <4>1. f \in 0..Len(stream)
        BY <1>1, <1>8
      <4> QED BY <4>1, <1>1, EndNext
    <3>3. End(stream, f) = Base + scanPos + scan.fence
      BY <1>1, <1>2, <1>3, <3>1, <3>2
    <3> QED BY <2>2, <3>1, <3>3
  <2> QED BY <2>1, <2>2
<1>13. ScanFinds(scan, rest, i, q)
  BY <1>1, <1>2, <1>6, <1>9, <1>10, <1>11, <1>12 DEF ScanFinds
<1>14. q \in i..Len(stream)
  OBVIOUS
<1> QED BY <1>1, <1>7, <1>10, <1>13, <1>14

\* A step of the scanner either begins to leave the pipeline, with the carry whatever it
\* is, or has made sure of the next chunk: it begins no primitive, what is left of it
\* fits, and the last fence in it is the one to wait for.
LEMMA ScanSteps ==
    ASSUME PipeInv, C_Scan
    PROVE  /\ cpc' = "wait" /\ CarryTypes' /\ Committed = Fetched
           /\ \/ wait' = Wait("done", produced, "entersync") /\ fence' = fence
              \/ /\ wait' = Wait("retired", produced + Chunk - RingCap, "fill")
                 /\ poisoned' = FALSE /\ fence' \in Nat
                 /\ Len(carry') + Chunk <= CarryCap
                 /\ \E q \in 0..Len(stream) :
                        /\ End(stream, q) = Base + scanPos' /\ Whole(q, Fetched + Chunk)
                        /\ carry' = Segment(End(stream, q), Fetched + Chunk)
                 /\ \A m \in 1..Len(stream) :
                        m > Done /\ End(stream, m - 1) < Fetched + Chunk =>
                            stream[m].kind # "prim"
                 /\ \A f \in 1..Len(stream) :
                        stream[f].kind = "fence" /\ End(stream, f) <= Fetched + Chunk
                        /\ f > Done =>
                            fence' # 0 /\ End(stream, f) <= Base + fence'
                 /\ fence' = fence \/ fence' > produced
<1> DEFINE cells == carry \o ChunkCells(taken + 1)
           scan  == Scan(cells)
           rest  == SubSeq(cells, scan.off + 1, Len(cells))
           b     == Fetched + Chunk
<1>1. cpc = "scan" /\ left > 0 /\ ~ syncmode /\ ~ poisoned /\ UNCHANGED stream
  BY DEF C_Scan, fifo
<1>2. /\ Committed = Fetched /\ b <= SizeOf(stream)
      /\ scan.off \in Nat /\ scan.fence \in Nat /\ scan.prim \in BOOLEAN
      /\ rest \in Seq(1..SizeOf(stream)) /\ Len(rest) <= Len(cells)
      /\ \E i \in 0..Len(stream) : \E q \in i..Len(stream) : ScanFinds(scan, rest, i, q)
  <2> HIDE DEF cells
  <2>1. cells = carry \o ChunkCells(taken + 1)
    BY DEF cells
  <2> HIDE DEF scan
  <2>2. scan = Scan(cells)
    BY DEF scan
  <2> HIDE DEF rest
  <2>3. rest = SubSeq(cells, scan.off + 1, Len(cells))
    BY DEF rest
  <2> HIDE DEF b
  <2>4. b = Fetched + Chunk
    BY DEF b
  <2> QED BY <1>1, <2>1, <2>2, <2>3, <2>4, ScanNext
<1>11. PICK i \in 0..Len(stream) : \E q \in i..Len(stream) : ScanFinds(scan, rest, i, q)
  <2> HIDE DEF scan, rest
  <2> QED BY <1>2
<1>12. PICK q \in i..Len(stream) : ScanFinds(scan, rest, i, q)
  <2> HIDE DEF scan, rest
  <2> QED BY <1>11
<1> HIDE DEF scan, rest, b
<1>3. /\ End(stream, i) = Base + scanPos /\ Whole(i, Fetched)
      /\ End(stream, q) = Base + scanPos + scan.off
      /\ rest = Segment(End(stream, q), b)
      /\ scan.prim = FALSE =>
             /\ Whole(q, b)
             /\ Len(rest) + Chunk <= CarryCap
             /\ \A m \in (i + 1)..q : stream[m].kind # "prim"
             /\ End(stream, q) < b => stream[q + 1].kind # "prim"
      /\ IF scan.fence = 0
         THEN \A m \in (i + 1)..q : stream[m].kind # "fence"
         ELSE \E f \in (i + 1)..q :
                  /\ End(stream, f) = Base + scanPos + scan.fence
                  /\ \A m \in (f + 1)..q : stream[m].kind # "fence"
  BY <1>12 DEF ScanFinds, b
<1>13. scan.off \in Nat /\ scan.fence \in Nat /\ scan.prim \in BOOLEAN /\ b = Fetched + Chunk
  BY <1>2 DEF b
<1>4. CASE Len(cells) > CarryCap
  <2>1. /\ UNCHANGED <<carry, scanPos, fence>> /\ cpc' = "wait"
        /\ wait' = Wait("done", produced, "entersync")
    BY <1>4 DEF C_Scan, BeginDrain, BeginWait
  <2>2. CarryTypes'
    BY <1>1, <2>1, Numbers DEF CarryTypes
  <2> QED BY <1>2, <2>1, <2>2
<1>5. CASE ~(Len(cells) > CarryCap)
  <2> HIDE DEF cells
  <2>1. carry' = rest /\ scanPos' = scanPos + scan.off /\ cpc' = "wait"
    BY <1>5 DEF C_Scan, BeginDrain, BeginWait, cells, scan, rest
  <2>2. CarryTypes'
    <3>1. CarryCap \in Nat
      BY SlotsRight
    <3>2. Len(cells) \in Nat
      <4>1. carry \in Seq(1..SizeOf(stream))
        BY Numbers DEF CarryTypes
      <4>2. ChunkCells(taken + 1) \in Seq(Nat) /\ carry \in Seq(Nat)
        <5>1. ChunkCells(taken + 1) = Segment(taken * Chunk, taken * Chunk + Chunk)
          BY ChunkSegment, Numbers DEF NumberTypes
        <5>2. taken * Chunk \in Nat /\ taken * Chunk + Chunk \in Nat
              /\ taken * Chunk <= taken * Chunk + Chunk
          <6>1. taken \in Nat /\ Chunk \in Nat
            BY SlotsRight, Numbers DEF NumberTypes
          <6> QED BY <6>1
        <5>3. ChunkCells(taken + 1) \in Seq(Nat)
          BY <5>1, <5>2, SegmentSeq
        <5>4. 1..SizeOf(stream) \subseteq Nat
          OBVIOUS
        <5> QED BY <4>1, <5>3, <5>4, SeqMonotonic
      <4>3. cells \in Seq(Nat)
        BY <4>2, ConcatProperties DEF cells
      <4> QED BY <4>3
    <3>3. Len(rest) <= CarryCap
      <4>1. Len(rest) \in Nat
        BY <1>2
      <4> QED BY <1>2, <1>5, <3>1, <3>2, <4>1
    <3>4. scanPos' \in Int
      BY <1>13, <2>1, Numbers DEF CarryTypes
    <3> QED BY <1>1, <1>2, <2>1, <3>3, <3>4 DEF CarryTypes
  <2>3. CASE scan.prim
    <3>1. fence' = fence /\ wait' = Wait("done", produced, "entersync")
      BY <1>5, <2>3 DEF C_Scan, BeginDrain, BeginWait, cells, scan
    <3> QED BY <1>2, <2>1, <2>2, <3>1
  <2>4. CASE scan.prim = FALSE
    <3>1. /\ wait' = Wait("retired", produced + Chunk - RingCap, "fill")
          /\ poisoned' = FALSE
          /\ fence' = IF scan.fence = 0 THEN fence ELSE scanPos + scan.fence
      BY <1>1, <1>5, <2>4, Numbers DEF C_Scan, BeginWait, cells, scan, BooleanTypes
    <3>2. /\ Whole(q, b) /\ Len(rest) + Chunk <= CarryCap
          /\ \A m \in (i + 1)..q : stream[m].kind # "prim"
          /\ End(stream, q) < b => stream[q + 1].kind # "prim"
      BY <1>3, <2>4
    <3>3. /\ Len(stream) \in Nat /\ stream \in Streams /\ Base \in Int /\ Fetched \in Nat
          /\ b \in Nat /\ Fetched = Base + produced /\ produced \in Nat /\ fence \in Nat
          /\ Done \in Nat /\ scanPos \in Int /\ Chunk \in Nat
          /\ \A k \in 0..Len(stream) : End(stream, k) \in Nat
      <4>1. /\ Len(stream) \in Nat /\ Base \in Int /\ Fetched \in Nat /\ Done \in Nat
        BY Numbers, Positions DEF PipeInv
      <4>2. stream \in Streams /\ produced \in Nat /\ fence \in Nat /\ scanPos \in Int
        BY Numbers DEF NumberTypes, PlaceTypes, CarryTypes
      <4>3. Chunk \in Nat
        BY SlotsRight
      <4>4. \A k \in 0..Len(stream) : End(stream, k) \in Nat
        BY <4>2, EndNext
      <4>5. b \in Nat /\ Fetched = Base + produced
        BY <1>13, <4>1, <4>2, <4>3 DEF Base
      <4> QED BY <4>1, <4>2, <4>3, <4>4, <4>5
    <3>4. i \in 0..Len(stream) /\ q \in 0..Len(stream) /\ i <= q
      BY <3>3
    <3>5. End(stream, q) = Base + scanPos'
      <4>1. End(stream, q) = Base + scanPos + scan.off
        BY <1>3
      <4>2. Base + scanPos + scan.off = Base + (scanPos + scan.off)
        BY <3>3, <1>13
      <4> QED BY <2>1, <4>1, <4>2
    <3>6. ASSUME NEW m \in 1..Len(stream), m > Done, End(stream, m - 1) < b
          PROVE  stream[m].kind # "prim"
      <4>1. CASE m <= i
        <5>1. m - 1 \in 0..Len(stream) /\ m - 1 < i
          BY <3>4, <4>1, <3>3
        <5>2. End(stream, m - 1) < Fetched
          <6>1. End(stream, m - 1) < End(stream, i)
            BY <5>1, <3>3, <3>4, EndsGrow
          <6>2. End(stream, i) <= Fetched
            BY <1>3 DEF Whole
          <6> QED BY <6>1, <6>2, <3>3, <3>4, <5>1
        <5>3. doneUpto # produced
          <6> SUFFICES ASSUME doneUpto = produced PROVE FALSE
            OBVIOUS
          <6>1. pulled = produced /\ wpc # "run"
            BY Numbers DEF OffsetsOrdered, NumberTypes, InHand
          <6>2. PulledTo = Fetched
            BY <6>1, <3>3 DEF PulledTo
          <6>3. Whole(Done, Fetched)
            BY <1>1, <6>1, <6>2, Numbers DEF BufDry
          <6>4. Done \in 0..Len(stream)
            BY Numbers, Positions DEF PipeInv
          <6>5. Done = i
            BY <1>3, <3>3, <3>4, <6>3, <6>4, WholeUnique
          <6> QED BY <3>6, <4>1, <6>5, <3>3
        <5> QED BY <1>2, <3>6, <5>2, <5>3, Numbers DEF SizableOnly
      <4>2. CASE m \in (i + 1)..q
        BY <3>2, <4>2
      <4>3. CASE m = q + 1
        BY <3>2, <3>3, <3>4, <3>6, <4>3
      <4>4. CASE m > q + 1
        <5>1. q + 1 \in 0..Len(stream) /\ m - 1 \in 0..Len(stream) /\ q + 1 <= m - 1
              /\ q < Len(stream)
          BY <3>3, <3>4, <4>4
        <5>2. End(stream, q + 1) <= End(stream, m - 1)
          BY <5>1, <3>3, EndsOrder
        <5>3. b < End(stream, q + 1)
          BY <3>2, <5>1 DEF Whole
        <5>4. End(stream, q + 1) \in Nat /\ End(stream, m - 1) \in Nat /\ b \in Nat
          BY <3>3, <5>1
        <5>5. End(stream, m - 1) < b
          BY <3>6
        <5>6. FALSE
          BY <5>2, <5>3, <5>4, <5>5
        <5> QED BY <5>6
      <4>5. m <= i \/ m \in (i + 1)..q \/ m = q + 1 \/ m > q + 1
        BY <3>4, <3>3
      <4> QED BY <4>1, <4>2, <4>3, <4>4, <4>5
    <3>7. \/ scan.fence = 0 /\ fence' = fence /\ \A m \in (i + 1)..q : stream[m].kind # "fence"
          \/ \E g \in (i + 1)..q :
                 /\ End(stream, g) = Base + fence' /\ fence' \in Nat /\ fence' > produced
                 /\ \A m \in (g + 1)..q : stream[m].kind # "fence"
      <4>1. CASE scan.fence = 0
        BY <1>3, <3>1, <4>1
      <4>2. CASE scan.fence # 0
        <5>1. PICK g \in (i + 1)..q :
                  /\ End(stream, g) = Base + scanPos + scan.fence
                  /\ \A m \in (g + 1)..q : stream[m].kind # "fence"
          BY <1>3, <4>2
        <5>2. g \in 0..Len(stream) /\ i + 1 \in 0..Len(stream) /\ i + 1 <= g /\ i < Len(stream)
          BY <3>3, <3>4
        <5>3. End(stream, i + 1) <= End(stream, g) /\ Fetched < End(stream, i + 1)
          <6>1. End(stream, i + 1) <= End(stream, g)
            BY <5>2, <3>3, EndsOrder
          <6>2. Fetched < End(stream, i + 1)
            BY <1>3, <5>2 DEF Whole
          <6> QED BY <6>1, <6>2
        <5>4. fence' = scanPos + scan.fence
          BY <3>1, <4>2
        <5>5. fence' \in Int /\ End(stream, g) = Base + fence'
          BY <1>13, <3>3, <5>1, <5>4
        <5>6. End(stream, g) \in Nat /\ End(stream, i + 1) \in Nat
          BY <3>3, <5>2
        <5>7. fence' > produced /\ fence' \in Nat
          BY <3>3, <5>3, <5>5, <5>6
        <5> QED BY <5>1, <5>5, <5>7
      <4> QED BY <4>1, <4>2
    <3>8. ASSUME NEW f \in 1..Len(stream), stream[f].kind = "fence", End(stream, f) <= b, f > Done
          PROVE  fence' # 0 /\ End(stream, f) <= Base + fence'
      <4>1. f <= q
        <5>1. ASSUME f > q PROVE FALSE
          <6>1. q + 1 \in 0..Len(stream) /\ q + 1 <= f /\ q < Len(stream) /\ f \in 0..Len(stream)
            BY <3>3, <3>4, <5>1
          <6>2. End(stream, q + 1) <= End(stream, f)
            BY <6>1, <3>3, EndsOrder
          <6>3. b < End(stream, q + 1)
            BY <3>2, <6>1 DEF Whole
          <6> QED BY <6>1, <6>2, <6>3, <3>3, <3>8
        <5> QED BY <5>1, <3>3, <3>4
      <4>2. f \in 0..Len(stream) /\ End(stream, f) \in Nat
        BY <3>3
      <4>3. ASSUME f <= i PROVE fence # 0 /\ End(stream, f) <= Base + fence
        <5>1. End(stream, f) <= Fetched
          <6>1. End(stream, f) <= End(stream, i) /\ End(stream, i) <= Fetched
            BY <3>3, <3>4, <4>2, <4>3, <1>3, EndsOrder DEF Whole
          <6> QED BY <6>1, <3>3, <3>4, <4>2
        <5>2. Piped /\ Due = fence
          BY <1>1 DEF Piped, Leaving, Due, WaitFor, WaitPcs
        <5> QED BY <1>2, <3>8, <5>1, <5>2, Numbers DEF FenceDue
      <4>4. CASE /\ scan.fence = 0 /\ fence' = fence
                 /\ \A m \in (i + 1)..q : stream[m].kind # "fence"
        <5>1. f <= i
          BY <3>4, <3>8, <4>1, <4>4, <3>3
        <5> QED BY <4>3, <4>4, <5>1
      <4>5. CASE \E g \in (i + 1)..q :
                 /\ End(stream, g) = Base + fence' /\ fence' \in Nat /\ fence' > produced
                 /\ \A m \in (g + 1)..q : stream[m].kind # "fence"
        <5>1. PICK g \in (i + 1)..q :
                 /\ End(stream, g) = Base + fence' /\ fence' \in Nat /\ fence' > produced
                 /\ \A m \in (g + 1)..q : stream[m].kind # "fence"
          BY <4>5
        <5>2. f <= g /\ g \in 0..Len(stream)
          BY <3>3, <3>4, <3>8, <4>1, <5>1
        <5>3. End(stream, f) <= End(stream, g)
          BY <3>3, <4>2, <5>2, EndsOrder
        <5> QED BY <3>3, <5>1, <5>3
      <4> QED BY <3>7, <4>4, <4>5
    <3>9. fence' \in Nat /\ (fence' = fence \/ fence' > produced)
      BY <3>3, <3>7
    <3>10. q \in 0..Len(stream) /\ carry' = Segment(End(stream, q), b)
      BY <1>3, <2>1, <3>4
    <3>11. Len(carry') + Chunk <= CarryCap
      BY <2>1, <3>2
    <3>12. b = Fetched + Chunk
      BY <1>13
    <3> QED BY <1>2, <2>1, <2>2, <3>1, <3>2, <3>5, <3>6, <3>8, <3>9, <3>10, <3>11, <3>12
  <2>5. scan.prim \in BOOLEAN
    BY <1>13
  <2> QED BY <2>3, <2>4, <2>5
<1> QED BY <1>4, <1>5

\* The worker's steps keep the two threads in step.
LEMMA WorkerControl ==
    ASSUME PipeInv, WorkerStep \/ W_SpuriousWake
    PROVE  Control'
<1>1. /\ NumberTypes /\ BooleanTypes /\ PlaceTypes
      /\ OffsetsOrdered /\ WaitRight /\ ModesRight /\ DrainedIsIdle
      /\ FlagsRight /\ EpochRight /\ AnswerComes /\ FenceOff /\ NeverFails
      /\ Chunk \in Nat \ {0} /\ RingCap \in Nat /\ Budget \in Nat
      /\ (cpc = "consume" => left > 0)
  BY Numbers, SlotsRight DEF LeftRight, Publishing
<1>2. CASE W_Load
  <2>1. NumberTypes' /\ PlaceTypes'
    BY <1>1, <1>2 DEF NumberTypes, Watched, PlaceTypes, CpuPcs, WorkerPcs, WaitPcs, W_Load,
       WorkerLooks, fifo, offsets, flags, gx, cpu, scanner, worker
  <2>2. BooleanTypes' /\ NeverFails'
    BY <1>1, <1>2 DEF BooleanTypes, NeverFails, W_Load, WorkerLooks, fifo, offsets, flags, gx,
       cpu, scanner, worker
  <2>3. OffsetsOrdered' /\ WaitRight' /\ ModesRight' /\ DrainedIsIdle'
    BY <1>1, <1>2 DEF OffsetsOrdered, InHand, NumberTypes, WaitRight, WaitFor, Draining, WaitPcs,
       PlaceTypes, ModesRight, Filling, Publishing, Leaving, BooleanTypes, DrainedIsIdle, Drained,
       W_Load, WorkerLooks, fifo, offsets, flags, gx, cpu, scanner, worker
  <2>4. FlagsRight' /\ EpochRight' /\ AnswerComes' /\ FenceOff'
    BY <1>1, <1>2 DEF FlagsRight, BooleanTypes, EpochRight, NumberTypes, OffsetsOrdered,
       AnswerComes, Watched, FenceOff, WaitFor, WaitPcs, W_Load, WorkerLooks, fifo, offsets,
       flags, gx, cpu, scanner, worker
  <2> QED BY <2>1, <2>2, <2>3, <2>4 DEF Control
<1>3. CASE W_QuitCheck
  <2>1. NumberTypes' /\ PlaceTypes'
    BY <1>1, <1>3 DEF NumberTypes, Watched, PlaceTypes, CpuPcs, WorkerPcs, WaitPcs, W_QuitCheck,
       WorkerLooks, fifo, offsets, flags, gx, cpu, scanner, worker
  <2>2. BooleanTypes' /\ NeverFails'
    BY <1>1, <1>3 DEF BooleanTypes, NeverFails, W_QuitCheck, WorkerLooks, fifo, offsets, flags,
       gx, cpu, scanner, worker
  <2>3. OffsetsOrdered' /\ WaitRight' /\ ModesRight' /\ DrainedIsIdle'
    BY <1>1, <1>3 DEF OffsetsOrdered, InHand, NumberTypes, WaitRight, WaitFor, Draining, WaitPcs,
       PlaceTypes, ModesRight, Filling, Publishing, Leaving, BooleanTypes, DrainedIsIdle, Drained,
       W_QuitCheck, WorkerLooks, fifo, offsets, flags, gx, cpu, scanner, worker
  <2>4. FlagsRight' /\ EpochRight' /\ AnswerComes' /\ FenceOff'
    BY <1>1, <1>3 DEF FlagsRight, BooleanTypes, EpochRight, NumberTypes, AnswerComes, Watched,
       FenceOff, WaitFor, WaitPcs, W_QuitCheck, WorkerLooks, fifo, offsets, flags, gx, cpu,
       scanner, worker
  <2> QED BY <2>1, <2>2, <2>3, <2>4 DEF Control
<1>4. CASE W_EpochLoad
  <2>1. NumberTypes' /\ PlaceTypes'
    BY <1>1, <1>4 DEF NumberTypes, Watched, PlaceTypes, CpuPcs, WorkerPcs, WaitPcs, W_EpochLoad,
       WorkerAt, WorkerLooks, fifo, offsets, flags, gx, cpu, scanner, worker
  <2>2. BooleanTypes' /\ NeverFails'
    BY <1>1, <1>4 DEF BooleanTypes, NeverFails, W_EpochLoad, WorkerAt, WorkerLooks, fifo, offsets,
       flags, gx, cpu, scanner, worker
  <2>3. OffsetsOrdered' /\ WaitRight' /\ ModesRight' /\ DrainedIsIdle'
    BY <1>1, <1>4 DEF OffsetsOrdered, InHand, NumberTypes, WaitRight, WaitFor, Draining, WaitPcs,
       PlaceTypes, ModesRight, Filling, Publishing, Leaving, BooleanTypes, DrainedIsIdle, Drained,
       W_EpochLoad, WorkerAt, WorkerLooks, fifo, offsets, flags, gx, cpu, scanner, worker
  <2>4. FlagsRight' /\ EpochRight' /\ AnswerComes' /\ FenceOff'
    BY <1>1, <1>4 DEF FlagsRight, BooleanTypes, EpochRight, NumberTypes, AnswerComes, Watched,
       FenceOff, WaitFor, WaitPcs, W_EpochLoad, WorkerAt, WorkerLooks, fifo, offsets, flags, gx,
       cpu, scanner, worker
  <2> QED BY <2>1, <2>2, <2>3, <2>4 DEF Control
<1>5. CASE W_Spin
  <2>1. NumberTypes' /\ PlaceTypes'
    BY <1>1, <1>5 DEF NumberTypes, Watched, PlaceTypes, CpuPcs, WorkerPcs, WaitPcs, W_Spin,
       WorkerLooks, fifo, offsets, flags, gx, cpu, scanner, worker
  <2>2. BooleanTypes' /\ NeverFails'
    BY <1>1, <1>5 DEF BooleanTypes, NeverFails, W_Spin, WorkerLooks, fifo, offsets, flags, gx,
       cpu, scanner, worker
  <2>3. OffsetsOrdered' /\ WaitRight' /\ ModesRight' /\ DrainedIsIdle'
    BY <1>1, <1>5 DEF OffsetsOrdered, InHand, NumberTypes, WaitRight, WaitFor, Draining, WaitPcs,
       PlaceTypes, ModesRight, Filling, Publishing, Leaving, BooleanTypes, DrainedIsIdle, Drained,
       W_Spin, WorkerLooks, fifo, offsets, flags, gx, cpu, scanner, worker
  <2>4. FlagsRight' /\ EpochRight' /\ AnswerComes' /\ FenceOff'
    BY <1>1, <1>5 DEF FlagsRight, BooleanTypes, EpochRight, NumberTypes, OffsetsOrdered,
       AnswerComes, Watched, FenceOff, WaitFor, WaitPcs, W_Spin, WorkerLooks, fifo, offsets,
       flags, gx, cpu, scanner, worker
  <2> QED BY <2>1, <2>2, <2>3, <2>4 DEF Control
<1>6. CASE W_SpinQuit
  <2>1. NumberTypes' /\ PlaceTypes'
    BY <1>1, <1>6 DEF NumberTypes, Watched, PlaceTypes, CpuPcs, WorkerPcs, WaitPcs, W_SpinQuit,
       WorkerLooks, fifo, offsets, flags, gx, cpu, scanner, worker
  <2>2. BooleanTypes' /\ NeverFails'
    BY <1>1, <1>6 DEF BooleanTypes, NeverFails, W_SpinQuit, WorkerLooks, fifo, offsets, flags, gx,
       cpu, scanner, worker
  <2>3. OffsetsOrdered' /\ WaitRight' /\ ModesRight' /\ DrainedIsIdle'
    BY <1>1, <1>6 DEF OffsetsOrdered, InHand, NumberTypes, WaitRight, WaitFor, Draining, WaitPcs,
       PlaceTypes, ModesRight, Filling, Publishing, Leaving, BooleanTypes, DrainedIsIdle, Drained,
       W_SpinQuit, WorkerLooks, fifo, offsets, flags, gx, cpu, scanner, worker
  <2>4. FlagsRight' /\ EpochRight' /\ AnswerComes' /\ FenceOff'
    BY <1>1, <1>6 DEF FlagsRight, BooleanTypes, EpochRight, NumberTypes, AnswerComes, Watched,
       FenceOff, WaitFor, WaitPcs, W_SpinQuit, WorkerLooks, fifo, offsets, flags, gx, cpu,
       scanner, worker
  <2> QED BY <2>1, <2>2, <2>3, <2>4 DEF Control
<1>7. CASE W_Park
  <2>1. NumberTypes' /\ PlaceTypes'
    BY <1>1, <1>7 DEF NumberTypes, Watched, PlaceTypes, CpuPcs, WorkerPcs, WaitPcs, W_Park,
       WorkerAt, SetParked, fifo, offsets, flags, gx, cpu, scanner, worker
  <2>2. BooleanTypes' /\ NeverFails'
    BY <1>1, <1>7 DEF BooleanTypes, NeverFails, W_Park, WorkerAt, SetParked, fifo, offsets, flags,
       gx, cpu, scanner, worker
  <2>3. OffsetsOrdered' /\ WaitRight' /\ ModesRight' /\ DrainedIsIdle'
    BY <1>1, <1>7 DEF OffsetsOrdered, InHand, NumberTypes, WaitRight, WaitFor, Draining, WaitPcs,
       PlaceTypes, ModesRight, Filling, Publishing, Leaving, BooleanTypes, DrainedIsIdle, Drained,
       W_Park, WorkerAt, SetParked, fifo, offsets, flags, gx, cpu, scanner, worker
  <2>4. FlagsRight' /\ EpochRight' /\ AnswerComes' /\ FenceOff'
    BY <1>1, <1>7 DEF FlagsRight, BooleanTypes, EpochRight, NumberTypes, AnswerComes, Watched,
       FenceOff, WaitFor, WaitPcs, W_Park, WorkerAt, SetParked, fifo, offsets, flags, gx, cpu,
       scanner, worker
  <2> QED BY <2>1, <2>2, <2>3, <2>4 DEF Control
<1>8. CASE W_ParkWait
  <2>1. NumberTypes' /\ PlaceTypes'
    BY <1>1, <1>8 DEF NumberTypes, Watched, PlaceTypes, CpuPcs, WorkerPcs, WaitPcs, W_ParkWait,
       WorkerLooks, fifo, offsets, flags, gx, cpu, scanner, worker
  <2>2. BooleanTypes' /\ NeverFails'
    BY <1>1, <1>8 DEF BooleanTypes, NeverFails, W_ParkWait, WorkerLooks, fifo, offsets, flags, gx,
       cpu, scanner, worker
  <2>3. OffsetsOrdered' /\ WaitRight' /\ ModesRight' /\ DrainedIsIdle'
    BY <1>1, <1>8 DEF OffsetsOrdered, InHand, NumberTypes, WaitRight, WaitFor, Draining, WaitPcs,
       PlaceTypes, ModesRight, Filling, Publishing, Leaving, BooleanTypes, DrainedIsIdle, Drained,
       W_ParkWait, WorkerLooks, fifo, offsets, flags, gx, cpu, scanner, worker
  <2>4. FlagsRight' /\ EpochRight' /\ AnswerComes' /\ FenceOff'
    BY <1>1, <1>8 DEF FlagsRight, BooleanTypes, EpochRight, NumberTypes, AnswerComes, Watched,
       FenceOff, WaitFor, WaitPcs, W_ParkWait, WorkerLooks, fifo, offsets, flags, gx, cpu,
       scanner, worker
  <2> QED BY <2>1, <2>2, <2>3, <2>4 DEF Control
<1>9. CASE W_Unpark
  <2>1. NumberTypes' /\ PlaceTypes'
    BY <1>1, <1>9 DEF NumberTypes, Watched, PlaceTypes, CpuPcs, WorkerPcs, WaitPcs, W_Unpark,
       WorkerAt, SetParked, fifo, offsets, flags, gx, cpu, scanner, worker
  <2>2. BooleanTypes' /\ NeverFails'
    BY <1>1, <1>9 DEF BooleanTypes, NeverFails, W_Unpark, WorkerAt, SetParked, fifo, offsets,
       flags, gx, cpu, scanner, worker
  <2>3. OffsetsOrdered' /\ WaitRight' /\ ModesRight' /\ DrainedIsIdle'
    BY <1>1, <1>9 DEF OffsetsOrdered, InHand, NumberTypes, WaitRight, WaitFor, Draining, WaitPcs,
       PlaceTypes, ModesRight, Filling, Publishing, Leaving, BooleanTypes, DrainedIsIdle, Drained,
       W_Unpark, WorkerAt, SetParked, fifo, offsets, flags, gx, cpu, scanner, worker
  <2>4. FlagsRight' /\ EpochRight' /\ AnswerComes' /\ FenceOff'
    BY <1>1, <1>9 DEF FlagsRight, BooleanTypes, EpochRight, NumberTypes, AnswerComes, Watched,
       FenceOff, WaitFor, WaitPcs, W_Unpark, WorkerAt, SetParked, fifo, offsets, flags, gx, cpu,
       scanner, worker
  <2> QED BY <2>1, <2>2, <2>3, <2>4 DEF Control
<1>10. CASE W_Pull
  <2>0. /\ wpc = "pull" /\ wpc' = "run" /\ pulled < pulled'
        /\ pulled' <= wproduced /\ pulled' \in Nat
        /\ UNCHANGED <<fifo, offsets, flags, ring, cpu, scanner, wproduced, wepoch>>
    <3>1. wpc = "pull" /\ Take \in Nat \ {0}
      BY <1>10, PullRight DEF W_Pull
    <3>2. /\ pulled' = pulled + Take * Chunk /\ wpc' = "run"
          /\ UNCHANGED <<fifo, offsets, flags, ring, cpu, scanner, wproduced, wepoch>>
      BY <1>10, <3>1 DEF W_Pull, fifo, offsets, flags, cpu, scanner
    <3>3. Take * Chunk \in Nat \ {0} /\ pulled + Take * Chunk <= wproduced
      BY <3>1, PullRight
    <3>4. ASSUME NEW d \in Nat \ {0}, pulled + d <= wproduced
          PROVE  pulled < pulled + d /\ pulled + d \in Nat
      BY <1>1 DEF NumberTypes
    <3> QED BY <3>1, <3>2, <3>3, <3>4
  <2>1. NumberTypes' /\ PlaceTypes'
    BY <1>1, <2>0 DEF NumberTypes, Watched, PlaceTypes, CpuPcs, WorkerPcs, WaitPcs, fifo, offsets,
       flags, gx, cpu, scanner, worker
  <2>2. BooleanTypes' /\ NeverFails'
    BY <1>1, <2>0 DEF BooleanTypes, NeverFails, fifo, offsets, flags, gx, cpu, scanner, worker
  <2>3. OffsetsOrdered' /\ WaitRight' /\ ModesRight' /\ DrainedIsIdle'
    BY <1>1, <2>0 DEF OffsetsOrdered, InHand, NumberTypes, WaitRight, WaitFor, Draining, WaitPcs,
       PlaceTypes, ModesRight, Filling, Publishing, Leaving, BooleanTypes, DrainedIsIdle, Drained,
       fifo, offsets, flags, gx, cpu, scanner, worker
  <2>4. FlagsRight' /\ EpochRight' /\ AnswerComes' /\ FenceOff'
    BY <1>1, <2>0 DEF FlagsRight, BooleanTypes, EpochRight, NumberTypes, AnswerComes, Watched,
       FenceOff, WaitFor, WaitPcs, fifo, offsets, flags, gx, cpu, scanner, worker
  <2> QED BY <2>1, <2>2, <2>3, <2>4 DEF Control
<1>11. CASE W_Decode
  <2>1. NumberTypes' /\ PlaceTypes'
    BY <1>1, <1>11 DEF NumberTypes, Watched, PlaceTypes, CpuPcs, WorkerPcs, WaitPcs, W_Decode,
       Decode, fifo, offsets, flags, gx, cpu, scanner, worker
  <2>2. BooleanTypes' /\ NeverFails'
    BY <1>1, <1>11 DEF BooleanTypes, NeverFails, W_Decode, Decode, fifo, offsets, flags, gx, cpu,
       scanner, worker
  <2>3. OffsetsOrdered' /\ WaitRight' /\ ModesRight' /\ DrainedIsIdle'
    BY <1>1, <1>11 DEF OffsetsOrdered, InHand, NumberTypes, WaitRight, WaitFor, Draining, WaitPcs,
       PlaceTypes, ModesRight, Filling, Publishing, Leaving, BooleanTypes, DrainedIsIdle, Drained,
       W_Decode, Decode, fifo, offsets, flags, gx, cpu, scanner, worker
  <2>4. FlagsRight' /\ EpochRight' /\ AnswerComes' /\ FenceOff'
    BY <1>1, <1>11 DEF FlagsRight, BooleanTypes, EpochRight, NumberTypes, AnswerComes, Watched,
       FenceOff, WaitFor, WaitPcs, W_Decode, Decode, fifo, offsets, flags, gx, cpu, scanner,
       worker
  <2> QED BY <2>1, <2>2, <2>3, <2>4 DEF Control
<1>12. CASE W_RunEnd
  <2>1. NumberTypes' /\ PlaceTypes'
    BY <1>1, <1>12 DEF NumberTypes, Watched, PlaceTypes, CpuPcs, WorkerPcs, WaitPcs, W_RunEnd,
       WorkerAt, WorkerLooks, fifo, offsets, flags, gx, cpu, scanner, worker
  <2>2. BooleanTypes' /\ NeverFails'
    BY <1>1, <1>12 DEF BooleanTypes, NeverFails, W_RunEnd, WorkerAt, WorkerLooks, fifo, offsets,
       flags, gx, cpu, scanner, worker
  <2>3. OffsetsOrdered' /\ WaitRight' /\ ModesRight' /\ DrainedIsIdle'
    BY <1>1, <1>12 DEF OffsetsOrdered, InHand, NumberTypes, WaitRight, WaitFor, Draining, WaitPcs,
       PlaceTypes, ModesRight, Filling, Publishing, Leaving, BooleanTypes, DrainedIsIdle, Drained,
       W_RunEnd, WorkerAt, WorkerLooks, fifo, offsets, flags, gx, cpu, scanner, worker
  <2>4. FlagsRight' /\ EpochRight' /\ AnswerComes' /\ FenceOff'
    BY <1>1, <1>12 DEF FlagsRight, BooleanTypes, EpochRight, NumberTypes, AnswerComes, Watched,
       FenceOff, WaitFor, WaitPcs, W_RunEnd, WorkerAt, WorkerLooks, fifo, offsets, flags, gx, cpu,
       scanner, worker
  <2> QED BY <2>1, <2>2, <2>3, <2>4 DEF Control
<1>13. CASE W_Retire
  <2>1. NumberTypes' /\ PlaceTypes'
    BY <1>1, <1>13 DEF NumberTypes, Watched, PlaceTypes, CpuPcs, WorkerPcs, WaitPcs, W_Retire,
       WorkerAt, fifo, offsets, flags, gx, cpu, scanner, worker
  <2>2. BooleanTypes' /\ NeverFails'
    BY <1>1, <1>13 DEF BooleanTypes, NeverFails, W_Retire, WorkerAt, fifo, offsets, flags, gx,
       cpu, scanner, worker
  <2>3. OffsetsOrdered' /\ WaitRight' /\ ModesRight' /\ DrainedIsIdle'
    BY <1>1, <1>13 DEF OffsetsOrdered, InHand, NumberTypes, WaitRight, WaitFor, Draining, WaitPcs,
       PlaceTypes, ModesRight, Filling, Publishing, Leaving, BooleanTypes, DrainedIsIdle, Drained,
       W_Retire, WorkerAt, fifo, offsets, flags, gx, cpu, scanner, worker
  <2>4. FlagsRight' /\ EpochRight' /\ AnswerComes' /\ FenceOff'
    BY <1>1, <1>13 DEF FlagsRight, BooleanTypes, EpochRight, NumberTypes, AnswerComes, Watched,
       FenceOff, WaitFor, WaitPcs, W_Retire, WorkerAt, fifo, offsets, flags, gx, cpu, scanner,
       worker
  <2> QED BY <2>1, <2>2, <2>3, <2>4 DEF Control
<1>14. CASE W_DoneUpto
  <2>1. NumberTypes' /\ PlaceTypes'
    BY <1>1, <1>14 DEF NumberTypes, Watched, PlaceTypes, CpuPcs, WorkerPcs, WaitPcs, W_DoneUpto,
       WorkerAt, fifo, offsets, flags, gx, cpu, scanner, worker
  <2>2. BooleanTypes' /\ NeverFails'
    BY <1>1, <1>14 DEF BooleanTypes, NeverFails, W_DoneUpto, WorkerAt, fifo, offsets, flags, gx,
       cpu, scanner, worker
  <2>3. OffsetsOrdered' /\ WaitRight' /\ ModesRight' /\ DrainedIsIdle'
    BY <1>1, <1>14 DEF OffsetsOrdered, InHand, NumberTypes, WaitRight, WaitFor, Draining, WaitPcs,
       PlaceTypes, ModesRight, Filling, Publishing, Leaving, BooleanTypes, DrainedIsIdle, Drained,
       W_DoneUpto, WorkerAt, fifo, offsets, flags, gx, cpu, scanner, worker
  <2>4. FlagsRight' /\ EpochRight' /\ AnswerComes' /\ FenceOff'
    BY <1>1, <1>14 DEF FlagsRight, BooleanTypes, EpochRight, NumberTypes, AnswerComes, Watched,
       FenceOff, WaitFor, WaitPcs, W_DoneUpto, WorkerAt, fifo, offsets, flags, gx, cpu, scanner,
       worker
  <2> QED BY <2>1, <2>2, <2>3, <2>4 DEF Control
<1>15. CASE W_Check
  <2>1. NumberTypes' /\ PlaceTypes'
    BY <1>1, <1>15 DEF NumberTypes, Watched, PlaceTypes, CpuPcs, WorkerPcs, WaitPcs, W_Check,
       WorkerLooks, fifo, offsets, flags, gx, cpu, scanner, worker
  <2>2. BooleanTypes' /\ NeverFails'
    BY <1>1, <1>15 DEF BooleanTypes, NeverFails, W_Check, WorkerLooks, fifo, offsets, flags, gx,
       cpu, scanner, worker
  <2>3. OffsetsOrdered' /\ WaitRight' /\ ModesRight' /\ DrainedIsIdle'
    BY <1>1, <1>15 DEF OffsetsOrdered, InHand, NumberTypes, WaitRight, WaitFor, Draining, WaitPcs,
       PlaceTypes, ModesRight, Filling, Publishing, Leaving, BooleanTypes, DrainedIsIdle, Drained,
       W_Check, WorkerLooks, fifo, offsets, flags, gx, cpu, scanner, worker
  <2>4. FlagsRight' /\ EpochRight' /\ AnswerComes' /\ FenceOff'
    BY <1>1, <1>15 DEF FlagsRight, BooleanTypes, EpochRight, NumberTypes, AnswerComes, Watched,
       FenceOff, WaitFor, WaitPcs, W_Check, WorkerLooks, fifo, offsets, flags, gx, cpu, scanner,
       worker
  <2> QED BY <2>1, <2>2, <2>3, <2>4 DEF Control
<1>16. CASE W_Wake
  <2>1. NumberTypes' /\ PlaceTypes'
    BY <1>1, <1>16 DEF NumberTypes, Watched, PlaceTypes, CpuPcs, WorkerPcs, WaitPcs, W_Wake,
       WorkerAt, WakeCpu, fifo, offsets, flags, gx, cpu, scanner, worker
  <2>2. BooleanTypes' /\ NeverFails'
    BY <1>1, <1>16 DEF BooleanTypes, NeverFails, W_Wake, WorkerAt, WakeCpu, fifo, offsets, flags,
       gx, cpu, scanner, worker
  <2>3. OffsetsOrdered' /\ WaitRight' /\ ModesRight' /\ DrainedIsIdle'
    BY <1>1, <1>16 DEF OffsetsOrdered, InHand, NumberTypes, WaitRight, WaitFor, Draining, WaitPcs,
       PlaceTypes, ModesRight, Filling, Publishing, Leaving, BooleanTypes, DrainedIsIdle, Drained,
       W_Wake, WorkerAt, WakeCpu, fifo, offsets, flags, gx, cpu, scanner, worker
  <2>4. FlagsRight' /\ EpochRight' /\ AnswerComes' /\ FenceOff'
    BY <1>1, <1>16 DEF FlagsRight, BooleanTypes, EpochRight, NumberTypes, AnswerComes, Watched,
       FenceOff, WaitFor, WaitPcs, W_Wake, WorkerAt, WakeCpu, fifo, offsets, flags, gx, cpu,
       scanner, worker
  <2> QED BY <2>1, <2>2, <2>3, <2>4 DEF Control
<1>17. CASE W_SpuriousWake
  <2>1. NumberTypes' /\ PlaceTypes'
    BY <1>1, <1>17 DEF NumberTypes, Watched, PlaceTypes, CpuPcs, WorkerPcs, WaitPcs,
       W_SpuriousWake, WorkerAt, WorkerLooks, fifo, offsets, flags, gx, cpu, scanner, worker
  <2>2. BooleanTypes' /\ NeverFails'
    BY <1>1, <1>17 DEF BooleanTypes, NeverFails, W_SpuriousWake, WorkerAt, WorkerLooks, fifo,
       offsets, flags, gx, cpu, scanner, worker
  <2>3. OffsetsOrdered' /\ WaitRight' /\ ModesRight' /\ DrainedIsIdle'
    BY <1>1, <1>17 DEF OffsetsOrdered, InHand, NumberTypes, WaitRight, WaitFor, Draining, WaitPcs,
       PlaceTypes, ModesRight, Filling, Publishing, Leaving, BooleanTypes, DrainedIsIdle, Drained,
       W_SpuriousWake, WorkerAt, WorkerLooks, fifo, offsets, flags, gx, cpu, scanner, worker
  <2>4. FlagsRight' /\ EpochRight' /\ AnswerComes' /\ FenceOff'
    BY <1>1, <1>17 DEF FlagsRight, BooleanTypes, EpochRight, NumberTypes, AnswerComes, Watched,
       FenceOff, WaitFor, WaitPcs, W_SpuriousWake, WorkerAt, WorkerLooks, fifo, offsets, flags,
       gx, cpu, scanner, worker
  <2> QED BY <2>1, <2>2, <2>3, <2>4 DEF Control
<1> QED BY <1>2, <1>3, <1>4, <1>5, <1>6, <1>7, <1>8, <1>9, <1>10, <1>11, <1>12, <1>13, <1>14,
   <1>15, <1>16, <1>17
   DEF WorkerStep

\* The CPU thread's do.
LEMMA CpuControl ==
    ASSUME PipeInv, CpuStep \/ GuestStep \/ C_WaitTimeout
    PROVE  Control'
<1>1. /\ NumberTypes /\ BooleanTypes /\ PlaceTypes
      /\ OffsetsOrdered /\ WaitRight /\ ModesRight /\ DrainedIsIdle
      /\ FlagsRight /\ EpochRight /\ AnswerComes /\ FenceOff /\ NeverFails
      /\ Chunk \in Nat \ {0} /\ RingCap \in Nat /\ Budget \in Nat
      /\ (cpc = "consume" => left > 0)
  BY Numbers, SlotsRight DEF LeftRight, Publishing
<1>2. CASE C_Wait
  <2>1. /\ cpc = "wait" /\ wait' = [wait EXCEPT !.expect = Watched]
        /\ \/ Watched >= wait.target /\ cpc' = wait.ret
           \/ ~(Watched >= wait.target) /\ cpc' \in {"wait", "waitset"}
        /\ UNCHANGED <<fifo, offsets, flags, ring, gx, left, fence, seen, scanner, worker>>
    BY <1>1, <1>2 DEF C_Wait, CpuOnly, NeverFails
  <2>2. /\ Watched \in Int /\ wait.target \in Int
        /\ wait'.on = wait.on /\ wait'.target = wait.target /\ wait'.ret = wait.ret
        /\ wait'.expect = Watched
        /\ wait' \in [on : {"retired", "done"}, target : Int, ret : CpuPcs, expect : Int]
    BY <1>1, <2>1 DEF NumberTypes, PlaceTypes, Watched
  <2>3. wait.ret \in {"entersync", "peek", "quit", "fill", "guest", "sync"}
    BY <1>1, <2>1 DEF WaitRight, WaitPcs
  <2>4. NumberTypes' /\ PlaceTypes'
    BY <1>1, <2>1, <2>2, <2>3 DEF NumberTypes, PlaceTypes, CpuPcs, WaitPcs, fifo, offsets, flags,
       gx, scanner, worker
  <2>5. BooleanTypes' /\ NeverFails'
    BY <1>1, <2>1, <2>3 DEF BooleanTypes, NeverFails, fifo, flags, scanner
  <2>6. OffsetsOrdered' /\ WaitRight'
    BY <1>1, <2>1, <2>2, <2>3 DEF OffsetsOrdered, InHand, WaitRight, WaitFor, Draining, WaitPcs,
       NumberTypes, fifo, offsets, worker
  <2>7. ModesRight' /\ FenceOff'
    BY <1>1, <2>1, <2>2, <2>3 DEF ModesRight, Filling, Publishing, Leaving, FenceOff, WaitFor,
       WaitPcs, scanner
  <2>8. DrainedIsIdle'
    <3>1. CASE cpc' \in {"entersync", "peek", "quit"}
      <4>1. WaitFor(wait.ret) /\ Draining /\ Watched >= wait.target
        BY <2>1, <3>1 DEF WaitFor, Draining, WaitPcs
      <4>2. doneUpto >= produced
        BY <1>1, <4>1 DEF WaitRight, Watched
      <4>3. doneUpto = produced
        BY <1>1, <4>2 DEF OffsetsOrdered, NumberTypes
      <4> QED BY <2>1, <4>3 DEF DrainedIsIdle, offsets
    <3>2. CASE cpc' \notin {"entersync", "peek", "quit"}
      <4>1. cpc' \notin {"quitbump", "quitwake", "join", "done"}
        BY <2>1, <2>3
      <4> QED BY <1>1, <2>1, <3>2, <4>1 DEF DrainedIsIdle, Drained, offsets, scanner
    <3> QED BY <3>1, <3>2
  <2>9. FlagsRight' /\ AnswerComes'
    BY <1>1, <2>1, <2>3 DEF FlagsRight, AnswerComes, flags, worker
  <2>10. EpochRight'
    BY <1>1, <2>1, <2>3 DEF EpochRight, FlagsRight, flags, offsets, worker
  <2> QED BY <2>4, <2>5, <2>6, <2>7, <2>8, <2>9, <2>10 DEF Control
<1>3. CASE C_WaitSet
  <2>1. NumberTypes' /\ PlaceTypes'
    BY <1>1, <1>3 DEF NumberTypes, Watched, PlaceTypes, CpuPcs, WorkerPcs, WaitPcs, C_WaitSet,
       CpuAt, SetWaiting, fifo, offsets, flags, gx, cpu, scanner, worker
  <2>2. BooleanTypes' /\ NeverFails'
    BY <1>1, <1>3 DEF BooleanTypes, NeverFails, C_WaitSet, CpuAt, SetWaiting, fifo, offsets,
       flags, gx, cpu, scanner, worker
  <2>3. OffsetsOrdered' /\ WaitRight' /\ ModesRight' /\ DrainedIsIdle'
    BY <1>1, <1>3 DEF OffsetsOrdered, InHand, NumberTypes, WaitRight, WaitFor, Draining, WaitPcs,
       PlaceTypes, ModesRight, Filling, Publishing, Leaving, BooleanTypes, DrainedIsIdle, Drained,
       C_WaitSet, CpuAt, SetWaiting, fifo, offsets, flags, gx, cpu, scanner, worker
  <2>4. FlagsRight' /\ EpochRight' /\ AnswerComes' /\ FenceOff'
    BY <1>1, <1>3 DEF FlagsRight, BooleanTypes, EpochRight, NumberTypes, AnswerComes, Watched,
       FenceOff, WaitFor, WaitPcs, C_WaitSet, CpuAt, SetWaiting, fifo, offsets, flags, gx, cpu,
       scanner, worker
  <2> QED BY <2>1, <2>2, <2>3, <2>4 DEF Control
<1>4. CASE C_WaitCall
  <2>1. NumberTypes' /\ PlaceTypes'
    BY <1>1, <1>4 DEF NumberTypes, Watched, PlaceTypes, CpuPcs, WorkerPcs, WaitPcs, C_WaitCall,
       CpuOnly, fifo, offsets, flags, gx, cpu, scanner, worker
  <2>2. BooleanTypes' /\ NeverFails'
    BY <1>1, <1>4 DEF BooleanTypes, NeverFails, C_WaitCall, CpuOnly, fifo, offsets, flags, gx,
       cpu, scanner, worker
  <2>3. OffsetsOrdered' /\ WaitRight' /\ ModesRight' /\ DrainedIsIdle'
    BY <1>1, <1>4 DEF OffsetsOrdered, InHand, NumberTypes, WaitRight, WaitFor, Draining, WaitPcs,
       PlaceTypes, ModesRight, Filling, Publishing, Leaving, BooleanTypes, DrainedIsIdle, Drained,
       C_WaitCall, CpuOnly, fifo, offsets, flags, gx, cpu, scanner, worker
  <2>4. FlagsRight' /\ EpochRight' /\ AnswerComes' /\ FenceOff'
    BY <1>1, <1>4 DEF FlagsRight, BooleanTypes, EpochRight, NumberTypes, AnswerComes, Watched,
       WaitRight, FenceOff, WaitFor, WaitPcs, C_WaitCall, CpuOnly, fifo, offsets, flags, gx, cpu,
       scanner, worker
  <2> QED BY <2>1, <2>2, <2>3, <2>4 DEF Control
<1>5. CASE C_WaitUnset
  <2>1. NumberTypes' /\ PlaceTypes'
    BY <1>1, <1>5 DEF NumberTypes, Watched, PlaceTypes, CpuPcs, WorkerPcs, WaitPcs, C_WaitUnset,
       CpuAt, SetWaiting, fifo, offsets, flags, gx, cpu, scanner, worker
  <2>2. BooleanTypes' /\ NeverFails'
    BY <1>1, <1>5 DEF BooleanTypes, NeverFails, C_WaitUnset, CpuAt, SetWaiting, fifo, offsets,
       flags, gx, cpu, scanner, worker
  <2>3. OffsetsOrdered' /\ WaitRight' /\ ModesRight' /\ DrainedIsIdle'
    BY <1>1, <1>5 DEF OffsetsOrdered, InHand, NumberTypes, WaitRight, WaitFor, Draining, WaitPcs,
       PlaceTypes, ModesRight, Filling, Publishing, Leaving, BooleanTypes, DrainedIsIdle, Drained,
       C_WaitUnset, CpuAt, SetWaiting, fifo, offsets, flags, gx, cpu, scanner, worker
  <2>4. FlagsRight' /\ EpochRight' /\ AnswerComes' /\ FenceOff'
    BY <1>1, <1>5 DEF FlagsRight, BooleanTypes, EpochRight, NumberTypes, AnswerComes, Watched,
       FenceOff, WaitFor, WaitPcs, C_WaitUnset, CpuAt, SetWaiting, fifo, offsets, flags, gx, cpu,
       scanner, worker
  <2> QED BY <2>1, <2>2, <2>3, <2>4 DEF Control
<1>6. CASE C_LoopEnd
  <2>1. NumberTypes' /\ PlaceTypes'
    BY <1>1, <1>6 DEF NumberTypes, Watched, PlaceTypes, CpuPcs, WorkerPcs, WaitPcs, C_LoopEnd,
       AfterLoop, BeginWait, Wait, fifo, offsets, flags, gx, cpu, scanner, worker
  <2>2. BooleanTypes' /\ NeverFails'
    BY <1>1, <1>6 DEF BooleanTypes, NeverFails, C_LoopEnd, AfterLoop, BeginWait, Wait, fifo,
       offsets, flags, gx, cpu, scanner, worker
  <2>3. OffsetsOrdered' /\ WaitRight' /\ ModesRight' /\ DrainedIsIdle'
    BY <1>1, <1>6 DEF OffsetsOrdered, InHand, NumberTypes, WaitRight, WaitFor, Draining, WaitPcs,
       PlaceTypes, ModesRight, Filling, Publishing, Leaving, BooleanTypes, DrainedIsIdle, Drained,
       C_LoopEnd, AfterLoop, BeginWait, Wait, fifo, offsets, flags, gx, cpu, scanner, worker
  <2>4. FlagsRight' /\ EpochRight' /\ AnswerComes' /\ FenceOff'
    BY <1>1, <1>6 DEF FlagsRight, BooleanTypes, EpochRight, NumberTypes, AnswerComes, Watched,
       FenceOff, WaitFor, WaitPcs, AfterLoop, C_LoopEnd, BeginWait, Wait, fifo, offsets, flags,
       gx, cpu, scanner, worker
  <2> QED BY <2>1, <2>2, <2>3, <2>4 DEF Control
<1>7. CASE C_Scan
  <2>0. /\ cpc = "scan" /\ cpc' = "wait" /\ ~ syncmode /\ ~ poisoned /\ fence' \in Nat
        /\ \/ wait' = Wait("done", produced, "entersync") /\ poisoned' \in BOOLEAN
           \/ wait' = Wait("retired", produced + Chunk - RingCap, "fill") /\ poisoned' = FALSE
        /\ UNCHANGED <<fifo, offsets, flags, ring, gx, left, seen, syncmode, worker>>
    <3>1. /\ cpc = "scan" /\ ~ syncmode /\ ~ poisoned /\ poisoned' \in BOOLEAN
          /\ UNCHANGED <<fifo, offsets, flags, ring, gx, left, seen, syncmode, worker>>
      BY <1>1, <1>7 DEF C_Scan, BooleanTypes
    <3>2. fence \in Nat
      BY <1>1 DEF NumberTypes
    <3> QED BY <1>7, <3>1, <3>2, ScanSteps
  <2>1. NumberTypes' /\ PlaceTypes'
    BY <1>1, <2>0 DEF NumberTypes, Watched, PlaceTypes, CpuPcs, WorkerPcs, WaitPcs, Wait, fifo,
       offsets, flags, gx, cpu, scanner, worker
  <2>2. BooleanTypes' /\ NeverFails'
    BY <1>1, <2>0 DEF BooleanTypes, NeverFails, Wait, fifo, offsets, flags, gx, cpu, scanner,
       worker
  <2>3. OffsetsOrdered' /\ WaitRight' /\ ModesRight' /\ DrainedIsIdle'
    BY <1>1, <2>0 DEF OffsetsOrdered, InHand, NumberTypes, WaitRight, WaitFor, Draining, WaitPcs,
       PlaceTypes, ModesRight, Filling, Publishing, Leaving, BooleanTypes, DrainedIsIdle, Drained,
       Wait, fifo, offsets, flags, gx, cpu, scanner, worker
  <2>4. FlagsRight' /\ EpochRight' /\ AnswerComes' /\ FenceOff'
    BY <1>1, <2>0 DEF FlagsRight, BooleanTypes, EpochRight, NumberTypes, AnswerComes, Watched,
       FenceOff, WaitFor, WaitPcs, Wait, fifo, offsets, flags, gx, cpu, scanner, worker
  <2> QED BY <2>1, <2>2, <2>3, <2>4 DEF Control
<1>8. CASE C_Fill
  <2>1. NumberTypes' /\ PlaceTypes'
    BY <1>1, <1>8 DEF NumberTypes, Watched, PlaceTypes, CpuPcs, WorkerPcs, WaitPcs, C_Fill, CpuAt,
       fifo, offsets, flags, gx, cpu, scanner, worker
  <2>2. BooleanTypes' /\ NeverFails'
    BY <1>1, <1>8 DEF BooleanTypes, NeverFails, C_Fill, CpuAt, fifo, offsets, flags, gx, cpu,
       scanner, worker
  <2>3. OffsetsOrdered' /\ WaitRight' /\ ModesRight' /\ DrainedIsIdle'
    BY <1>1, <1>8 DEF OffsetsOrdered, InHand, NumberTypes, WaitRight, WaitFor, Draining, WaitPcs,
       PlaceTypes, ModesRight, Filling, Publishing, Leaving, BooleanTypes, DrainedIsIdle, Drained,
       C_Fill, CpuAt, fifo, offsets, flags, gx, cpu, scanner, worker
  <2>4. FlagsRight' /\ EpochRight' /\ AnswerComes' /\ FenceOff'
    BY <1>1, <1>8 DEF FlagsRight, BooleanTypes, EpochRight, NumberTypes, AnswerComes, Watched,
       FenceOff, WaitFor, WaitPcs, C_Fill, CpuAt, fifo, offsets, flags, gx, cpu, scanner, worker
  <2> QED BY <2>1, <2>2, <2>3, <2>4 DEF Control
<1>9. CASE C_Publish
  <2>1. NumberTypes' /\ PlaceTypes'
    BY <1>1, <1>9 DEF NumberTypes, Watched, PlaceTypes, CpuPcs, WorkerPcs, WaitPcs, C_Publish,
       CpuAt, fifo, offsets, flags, gx, cpu, scanner, worker
  <2>2. BooleanTypes' /\ NeverFails'
    BY <1>1, <1>9 DEF BooleanTypes, NeverFails, C_Publish, CpuAt, fifo, offsets, flags, gx, cpu,
       scanner, worker
  <2>3. OffsetsOrdered' /\ WaitRight' /\ ModesRight' /\ DrainedIsIdle'
    BY <1>1, <1>9 DEF OffsetsOrdered, InHand, NumberTypes, WaitRight, WaitFor, Draining, WaitPcs,
       PlaceTypes, ModesRight, Filling, Publishing, Leaving, BooleanTypes, DrainedIsIdle, Drained,
       C_Publish, CpuAt, fifo, offsets, flags, gx, cpu, scanner, worker
  <2>4. FlagsRight' /\ EpochRight' /\ AnswerComes' /\ FenceOff'
    BY <1>1, <1>9 DEF FlagsRight, BooleanTypes, EpochRight, NumberTypes, OffsetsOrdered,
       AnswerComes, Watched, FenceOff, WaitFor, WaitPcs, C_Publish, CpuAt, fifo, offsets, flags,
       gx, cpu, scanner, worker
  <2> QED BY <2>1, <2>2, <2>3, <2>4 DEF Control
<1>10. CASE C_Bump
  <2>1. NumberTypes' /\ PlaceTypes'
    BY <1>1, <1>10 DEF NumberTypes, Watched, PlaceTypes, CpuPcs, WorkerPcs, WaitPcs, C_Bump,
       CpuAt, BumpEpoch, fifo, offsets, flags, gx, cpu, scanner, worker
  <2>2. BooleanTypes' /\ NeverFails'
    BY <1>1, <1>10 DEF BooleanTypes, NeverFails, C_Bump, CpuAt, BumpEpoch, fifo, offsets, flags,
       gx, cpu, scanner, worker
  <2>3. OffsetsOrdered' /\ WaitRight' /\ ModesRight' /\ DrainedIsIdle'
    BY <1>1, <1>10 DEF OffsetsOrdered, InHand, NumberTypes, WaitRight, WaitFor, Draining, WaitPcs,
       PlaceTypes, ModesRight, Filling, Publishing, Leaving, BooleanTypes, DrainedIsIdle, Drained,
       C_Bump, CpuAt, BumpEpoch, fifo, offsets, flags, gx, cpu, scanner, worker
  <2>4. FlagsRight' /\ EpochRight' /\ AnswerComes' /\ FenceOff'
    BY <1>1, <1>10 DEF FlagsRight, BooleanTypes, EpochRight, NumberTypes, AnswerComes, Watched,
       FenceOff, WaitFor, WaitPcs, C_Bump, CpuAt, BumpEpoch, fifo, offsets, flags, gx, cpu,
       scanner, worker
  <2> QED BY <2>1, <2>2, <2>3, <2>4 DEF Control
<1>11. CASE C_CheckParked
  <2>1. NumberTypes' /\ PlaceTypes'
    BY <1>1, <1>11 DEF NumberTypes, Watched, PlaceTypes, CpuPcs, WorkerPcs, WaitPcs,
       C_CheckParked, CpuOnly, fifo, offsets, flags, gx, cpu, scanner, worker
  <2>2. BooleanTypes' /\ NeverFails'
    BY <1>1, <1>11 DEF BooleanTypes, NeverFails, C_CheckParked, CpuOnly, fifo, offsets, flags, gx,
       cpu, scanner, worker
  <2>3. OffsetsOrdered' /\ WaitRight' /\ ModesRight' /\ DrainedIsIdle'
    BY <1>1, <1>11 DEF OffsetsOrdered, InHand, NumberTypes, WaitRight, WaitFor, Draining, WaitPcs,
       PlaceTypes, ModesRight, Filling, Publishing, Leaving, BooleanTypes, DrainedIsIdle, Drained,
       C_CheckParked, CpuOnly, fifo, offsets, flags, gx, cpu, scanner, worker
  <2>4. FlagsRight' /\ EpochRight' /\ AnswerComes' /\ FenceOff'
    BY <1>1, <1>11 DEF FlagsRight, BooleanTypes, EpochRight, NumberTypes, AnswerComes, Watched,
       FenceOff, WaitFor, WaitPcs, C_CheckParked, CpuOnly, fifo, offsets, flags, gx, cpu, scanner,
       worker
  <2> QED BY <2>1, <2>2, <2>3, <2>4 DEF Control
<1>12. CASE C_Wake
  <2>1. NumberTypes' /\ PlaceTypes'
    BY <1>1, <1>12 DEF NumberTypes, Watched, PlaceTypes, CpuPcs, WorkerPcs, WaitPcs, C_Wake,
       CpuAt, WakeWorker, fifo, offsets, flags, gx, cpu, scanner, worker
  <2>2. BooleanTypes' /\ NeverFails'
    BY <1>1, <1>12 DEF BooleanTypes, NeverFails, C_Wake, CpuAt, WakeWorker, fifo, offsets, flags,
       gx, cpu, scanner, worker
  <2>3. OffsetsOrdered' /\ WaitRight' /\ ModesRight' /\ DrainedIsIdle'
    BY <1>1, <1>12 DEF OffsetsOrdered, InHand, NumberTypes, WaitRight, WaitFor, Draining, WaitPcs,
       PlaceTypes, ModesRight, Filling, Publishing, Leaving, BooleanTypes, DrainedIsIdle, Drained,
       C_Wake, CpuAt, WakeWorker, fifo, offsets, flags, gx, cpu, scanner, worker
  <2>4. FlagsRight' /\ EpochRight' /\ AnswerComes' /\ FenceOff'
    BY <1>1, <1>12 DEF FlagsRight, BooleanTypes, EpochRight, NumberTypes, AnswerComes, Watched,
       FenceOff, WaitFor, WaitPcs, C_Wake, CpuAt, WakeWorker, fifo, offsets, flags, gx, cpu,
       scanner, worker
  <2> QED BY <2>1, <2>2, <2>3, <2>4 DEF Control
<1>13. CASE C_Consume
  <2>1. NumberTypes' /\ PlaceTypes'
    BY <1>1, <1>13 DEF NumberTypes, Watched, PlaceTypes, CpuPcs, WorkerPcs, WaitPcs, C_Consume,
       CpuAt, fifo, offsets, flags, gx, cpu, scanner, worker
  <2>2. BooleanTypes' /\ NeverFails'
    BY <1>1, <1>13 DEF BooleanTypes, NeverFails, C_Consume, CpuAt, fifo, offsets, flags, gx, cpu,
       scanner, worker
  <2>3. OffsetsOrdered' /\ WaitRight' /\ ModesRight' /\ DrainedIsIdle'
    BY <1>1, <1>13 DEF OffsetsOrdered, InHand, NumberTypes, WaitRight, WaitFor, Draining, WaitPcs,
       PlaceTypes, ModesRight, Filling, Publishing, Leaving, BooleanTypes, DrainedIsIdle, Drained,
       C_Consume, CpuAt, fifo, offsets, flags, gx, cpu, scanner, worker
  <2>4. FlagsRight' /\ EpochRight' /\ AnswerComes' /\ FenceOff'
    BY <1>1, <1>13 DEF FlagsRight, BooleanTypes, EpochRight, NumberTypes, AnswerComes, Watched,
       FenceOff, WaitFor, WaitPcs, C_Consume, CpuAt, fifo, offsets, flags, gx, cpu, scanner,
       worker
  <2> QED BY <2>1, <2>2, <2>3, <2>4 DEF Control
<1>14. CASE C_EnterSync
  <2>1. NumberTypes' /\ PlaceTypes'
    BY <1>1, <1>14 DEF NumberTypes, Watched, PlaceTypes, CpuPcs, WorkerPcs, WaitPcs, C_EnterSync,
       CpuAt, fifo, offsets, flags, gx, cpu, scanner, worker
  <2>2. BooleanTypes' /\ NeverFails'
    BY <1>1, <1>14 DEF BooleanTypes, NeverFails, C_EnterSync, CpuAt, fifo, offsets, flags, gx,
       cpu, scanner, worker
  <2>3. OffsetsOrdered' /\ WaitRight' /\ ModesRight' /\ DrainedIsIdle'
    BY <1>1, <1>14 DEF OffsetsOrdered, InHand, NumberTypes, WaitRight, WaitFor, Draining, WaitPcs,
       PlaceTypes, ModesRight, Filling, Publishing, Leaving, BooleanTypes, DrainedIsIdle, Drained,
       C_EnterSync, CpuAt, fifo, offsets, flags, gx, cpu, scanner, worker
  <2>4. FlagsRight' /\ EpochRight' /\ AnswerComes' /\ FenceOff'
    BY <1>1, <1>14 DEF FlagsRight, BooleanTypes, EpochRight, NumberTypes, AnswerComes, Watched,
       FenceOff, WaitFor, WaitPcs, C_EnterSync, CpuAt, fifo, offsets, flags, gx, cpu, scanner,
       worker
  <2> QED BY <2>1, <2>2, <2>3, <2>4 DEF Control
<1>15. CASE C_SyncFetch
  <2>1. NumberTypes' /\ PlaceTypes'
    BY <1>1, <1>15 DEF NumberTypes, Watched, PlaceTypes, CpuPcs, WorkerPcs, WaitPcs, C_SyncFetch,
       CpuAt, fifo, offsets, flags, gx, cpu, scanner, worker
  <2>2. BooleanTypes' /\ NeverFails'
    BY <1>1, <1>15 DEF BooleanTypes, NeverFails, C_SyncFetch, CpuAt, fifo, offsets, flags, gx,
       cpu, scanner, worker
  <2>3. OffsetsOrdered' /\ WaitRight' /\ ModesRight' /\ DrainedIsIdle'
    BY <1>1, <1>15 DEF OffsetsOrdered, InHand, NumberTypes, WaitRight, WaitFor, Draining, WaitPcs,
       PlaceTypes, ModesRight, Filling, Publishing, Leaving, BooleanTypes, DrainedIsIdle, Drained,
       C_SyncFetch, CpuAt, fifo, offsets, flags, gx, cpu, scanner, worker
  <2>4. FlagsRight' /\ EpochRight' /\ AnswerComes' /\ FenceOff'
    BY <1>1, <1>15 DEF FlagsRight, BooleanTypes, EpochRight, NumberTypes, AnswerComes, Watched,
       FenceOff, WaitFor, WaitPcs, C_SyncFetch, CpuAt, fifo, offsets, flags, gx, cpu, scanner,
       worker
  <2> QED BY <2>1, <2>2, <2>3, <2>4 DEF Control
<1>16. CASE C_SyncDecode
  <2>1. NumberTypes' /\ PlaceTypes'
    BY <1>1, <1>16 DEF NumberTypes, Watched, PlaceTypes, CpuPcs, WorkerPcs, WaitPcs, C_SyncDecode,
       Decode, fifo, offsets, flags, gx, cpu, scanner, worker
  <2>2. BooleanTypes' /\ NeverFails'
    BY <1>1, <1>16 DEF BooleanTypes, NeverFails, C_SyncDecode, Decode, fifo, offsets, flags, gx,
       cpu, scanner, worker
  <2>3. OffsetsOrdered' /\ WaitRight' /\ ModesRight' /\ DrainedIsIdle'
    BY <1>1, <1>16 DEF OffsetsOrdered, InHand, NumberTypes, WaitRight, WaitFor, Draining, WaitPcs,
       PlaceTypes, ModesRight, Filling, Publishing, Leaving, BooleanTypes, DrainedIsIdle, Drained,
       C_SyncDecode, Decode, fifo, offsets, flags, gx, cpu, scanner, worker
  <2>4. FlagsRight' /\ EpochRight' /\ AnswerComes' /\ FenceOff'
    BY <1>1, <1>16 DEF FlagsRight, BooleanTypes, EpochRight, NumberTypes, AnswerComes, Watched,
       FenceOff, WaitFor, WaitPcs, C_SyncDecode, Decode, fifo, offsets, flags, gx, cpu, scanner,
       worker
  <2> QED BY <2>1, <2>2, <2>3, <2>4 DEF Control
<1>17. CASE C_SyncRunEnd
  <2>1. NumberTypes' /\ PlaceTypes'
    BY <1>1, <1>17 DEF NumberTypes, Watched, PlaceTypes, CpuPcs, WorkerPcs, WaitPcs, C_SyncRunEnd,
       CpuAt, CpuOnly, fifo, offsets, flags, gx, cpu, scanner, worker
  <2>2. BooleanTypes' /\ NeverFails'
    BY <1>1, <1>17 DEF BooleanTypes, NeverFails, C_SyncRunEnd, CpuAt, CpuOnly, fifo, offsets,
       flags, gx, cpu, scanner, worker
  <2>3. OffsetsOrdered' /\ WaitRight' /\ ModesRight' /\ DrainedIsIdle'
    BY <1>1, <1>17 DEF OffsetsOrdered, InHand, NumberTypes, WaitRight, WaitFor, Draining, WaitPcs,
       PlaceTypes, ModesRight, Filling, Publishing, Leaving, BooleanTypes, DrainedIsIdle, Drained,
       C_SyncRunEnd, CpuAt, CpuOnly, fifo, offsets, flags, gx, cpu, scanner, worker
  <2>4. FlagsRight' /\ EpochRight' /\ AnswerComes' /\ FenceOff'
    BY <1>1, <1>17 DEF FlagsRight, BooleanTypes, EpochRight, NumberTypes, AnswerComes, Watched,
       FenceOff, WaitFor, WaitPcs, C_SyncRunEnd, CpuAt, CpuOnly, fifo, offsets, flags, gx, cpu,
       scanner, worker
  <2> QED BY <2>1, <2>2, <2>3, <2>4 DEF Control
<1>18. CASE C_SyncEnd
  <2>1. NumberTypes' /\ PlaceTypes'
    BY <1>1, <1>18 DEF NumberTypes, Watched, PlaceTypes, CpuPcs, WorkerPcs, WaitPcs, C_SyncEnd,
       CpuAt, fifo, offsets, flags, gx, cpu, scanner, worker
  <2>2. BooleanTypes' /\ NeverFails'
    BY <1>1, <1>18 DEF BooleanTypes, NeverFails, C_SyncEnd, CpuAt, fifo, offsets, flags, gx, cpu,
       scanner, worker
  <2>3. OffsetsOrdered' /\ WaitRight' /\ ModesRight' /\ DrainedIsIdle'
    BY <1>1, <1>18 DEF OffsetsOrdered, InHand, NumberTypes, WaitRight, WaitFor, Draining, WaitPcs,
       PlaceTypes, ModesRight, Filling, Publishing, Leaving, BooleanTypes, DrainedIsIdle, Drained,
       C_SyncEnd, CpuAt, fifo, offsets, flags, gx, cpu, scanner, worker
  <2>4. FlagsRight' /\ EpochRight' /\ AnswerComes' /\ FenceOff'
    BY <1>1, <1>18 DEF FlagsRight, BooleanTypes, EpochRight, NumberTypes, AnswerComes, Watched,
       FenceOff, WaitFor, WaitPcs, C_SyncEnd, CpuAt, fifo, offsets, flags, gx, cpu, scanner,
       worker
  <2> QED BY <2>1, <2>2, <2>3, <2>4 DEF Control
<1>19. CASE C_Resume
  <2>1. NumberTypes' /\ PlaceTypes'
    BY <1>1, <1>19 DEF NumberTypes, Watched, PlaceTypes, CpuPcs, WorkerPcs, WaitPcs, C_Resume,
       CpuAt, fifo, offsets, flags, gx, cpu, scanner, worker
  <2>2. BooleanTypes' /\ NeverFails'
    BY <1>1, <1>19 DEF BooleanTypes, NeverFails, C_Resume, CpuAt, fifo, offsets, flags, gx, cpu,
       scanner, worker
  <2>3. OffsetsOrdered' /\ WaitRight' /\ ModesRight' /\ DrainedIsIdle'
    BY <1>1, <1>19 DEF OffsetsOrdered, InHand, NumberTypes, WaitRight, WaitFor, Draining, WaitPcs,
       PlaceTypes, ModesRight, Filling, Publishing, Leaving, BooleanTypes, DrainedIsIdle, Drained,
       C_Resume, CpuAt, fifo, offsets, flags, gx, cpu, scanner, worker
  <2>4. FlagsRight' /\ EpochRight' /\ AnswerComes' /\ FenceOff'
    BY <1>1, <1>19 DEF FlagsRight, BooleanTypes, EpochRight, NumberTypes, AnswerComes, Watched,
       FenceOff, WaitFor, WaitPcs, C_Resume, CpuAt, fifo, offsets, flags, gx, cpu, scanner, worker
  <2> QED BY <2>1, <2>2, <2>3, <2>4 DEF Control
<1>20. CASE C_Peek
  <2>1. NumberTypes' /\ PlaceTypes'
    BY <1>1, <1>20 DEF NumberTypes, Watched, PlaceTypes, CpuPcs, WorkerPcs, WaitPcs, C_Peek,
       CpuAt, fifo, offsets, flags, gx, cpu, scanner, worker
  <2>2. BooleanTypes' /\ NeverFails'
    BY <1>1, <1>20 DEF BooleanTypes, NeverFails, C_Peek, CpuAt, fifo, offsets, flags, gx, cpu,
       scanner, worker
  <2>3. OffsetsOrdered' /\ WaitRight' /\ ModesRight' /\ DrainedIsIdle'
    BY <1>1, <1>20 DEF OffsetsOrdered, InHand, NumberTypes, WaitRight, WaitFor, Draining, WaitPcs,
       PlaceTypes, ModesRight, Filling, Publishing, Leaving, BooleanTypes, DrainedIsIdle, Drained,
       C_Peek, CpuAt, fifo, offsets, flags, gx, cpu, scanner, worker
  <2>4. FlagsRight' /\ EpochRight' /\ AnswerComes' /\ FenceOff'
    BY <1>1, <1>20 DEF FlagsRight, BooleanTypes, EpochRight, NumberTypes, AnswerComes, Watched,
       FenceOff, WaitFor, WaitPcs, C_Peek, CpuAt, fifo, offsets, flags, gx, cpu, scanner, worker
  <2> QED BY <2>1, <2>2, <2>3, <2>4 DEF Control
<1>21. CASE C_Quit
  <2>1. NumberTypes' /\ PlaceTypes'
    BY <1>1, <1>21 DEF NumberTypes, Watched, PlaceTypes, CpuPcs, WorkerPcs, WaitPcs, C_Quit,
       CpuAt, fifo, offsets, flags, gx, cpu, scanner, worker
  <2>2. BooleanTypes' /\ NeverFails'
    BY <1>1, <1>21 DEF BooleanTypes, NeverFails, C_Quit, CpuAt, fifo, offsets, flags, gx, cpu,
       scanner, worker
  <2>3. OffsetsOrdered' /\ WaitRight' /\ ModesRight' /\ DrainedIsIdle'
    BY <1>1, <1>21 DEF OffsetsOrdered, InHand, NumberTypes, WaitRight, WaitFor, Draining, WaitPcs,
       PlaceTypes, ModesRight, Filling, Publishing, Leaving, BooleanTypes, DrainedIsIdle, Drained,
       C_Quit, CpuAt, fifo, offsets, flags, gx, cpu, scanner, worker
  <2>4. FlagsRight' /\ EpochRight' /\ AnswerComes' /\ FenceOff'
    BY <1>1, <1>21 DEF FlagsRight, BooleanTypes, EpochRight, NumberTypes, AnswerComes, Watched,
       FenceOff, WaitFor, WaitPcs, C_Quit, CpuAt, fifo, offsets, flags, gx, cpu, scanner, worker
  <2> QED BY <2>1, <2>2, <2>3, <2>4 DEF Control
<1>22. CASE C_QuitBump
  <2>1. NumberTypes' /\ PlaceTypes'
    BY <1>1, <1>22 DEF NumberTypes, Watched, PlaceTypes, CpuPcs, WorkerPcs, WaitPcs, C_QuitBump,
       CpuAt, BumpEpoch, fifo, offsets, flags, gx, cpu, scanner, worker
  <2>2. BooleanTypes' /\ NeverFails'
    BY <1>1, <1>22 DEF BooleanTypes, NeverFails, C_QuitBump, CpuAt, BumpEpoch, fifo, offsets,
       flags, gx, cpu, scanner, worker
  <2>3. OffsetsOrdered' /\ WaitRight' /\ ModesRight' /\ DrainedIsIdle'
    BY <1>1, <1>22 DEF OffsetsOrdered, InHand, NumberTypes, WaitRight, WaitFor, Draining, WaitPcs,
       PlaceTypes, ModesRight, Filling, Publishing, Leaving, BooleanTypes, DrainedIsIdle, Drained,
       C_QuitBump, CpuAt, BumpEpoch, fifo, offsets, flags, gx, cpu, scanner, worker
  <2>4. FlagsRight' /\ EpochRight' /\ AnswerComes' /\ FenceOff'
    BY <1>1, <1>22 DEF FlagsRight, BooleanTypes, EpochRight, NumberTypes, AnswerComes, Watched,
       FenceOff, WaitFor, WaitPcs, C_QuitBump, CpuAt, BumpEpoch, fifo, offsets, flags, gx, cpu,
       scanner, worker
  <2> QED BY <2>1, <2>2, <2>3, <2>4 DEF Control
<1>23. CASE C_QuitWake
  <2>1. NumberTypes' /\ PlaceTypes'
    BY <1>1, <1>23 DEF NumberTypes, Watched, PlaceTypes, CpuPcs, WorkerPcs, WaitPcs, C_QuitWake,
       CpuAt, WakeWorker, fifo, offsets, flags, gx, cpu, scanner, worker
  <2>2. BooleanTypes' /\ NeverFails'
    BY <1>1, <1>23 DEF BooleanTypes, NeverFails, C_QuitWake, CpuAt, WakeWorker, fifo, offsets,
       flags, gx, cpu, scanner, worker
  <2>3. OffsetsOrdered' /\ WaitRight' /\ ModesRight' /\ DrainedIsIdle'
    BY <1>1, <1>23 DEF OffsetsOrdered, InHand, NumberTypes, WaitRight, WaitFor, Draining, WaitPcs,
       PlaceTypes, ModesRight, Filling, Publishing, Leaving, BooleanTypes, DrainedIsIdle, Drained,
       C_QuitWake, CpuAt, WakeWorker, fifo, offsets, flags, gx, cpu, scanner, worker
  <2>4. FlagsRight' /\ EpochRight' /\ AnswerComes' /\ FenceOff'
    BY <1>1, <1>23 DEF FlagsRight, BooleanTypes, EpochRight, NumberTypes, AnswerComes, Watched,
       FenceOff, WaitFor, WaitPcs, C_QuitWake, CpuAt, WakeWorker, fifo, offsets, flags, gx, cpu,
       scanner, worker
  <2> QED BY <2>1, <2>2, <2>3, <2>4 DEF Control
<1>24. CASE C_Join
  <2>1. NumberTypes' /\ PlaceTypes'
    BY <1>1, <1>24 DEF NumberTypes, Watched, PlaceTypes, CpuPcs, WorkerPcs, WaitPcs, C_Join,
       CpuAt, CpuOnly, fifo, offsets, flags, gx, cpu, scanner, worker
  <2>2. BooleanTypes' /\ NeverFails'
    BY <1>1, <1>24 DEF BooleanTypes, NeverFails, C_Join, CpuAt, CpuOnly, fifo, offsets, flags, gx,
       cpu, scanner, worker
  <2>3. OffsetsOrdered' /\ WaitRight' /\ ModesRight' /\ DrainedIsIdle'
    BY <1>1, <1>24 DEF OffsetsOrdered, InHand, NumberTypes, WaitRight, WaitFor, Draining, WaitPcs,
       PlaceTypes, ModesRight, Filling, Publishing, Leaving, BooleanTypes, DrainedIsIdle, Drained,
       C_Join, CpuAt, CpuOnly, fifo, offsets, flags, gx, cpu, scanner, worker
  <2>4. FlagsRight' /\ EpochRight' /\ AnswerComes' /\ FenceOff'
    BY <1>1, <1>24 DEF FlagsRight, BooleanTypes, EpochRight, NumberTypes, AnswerComes, Watched,
       FenceOff, WaitFor, WaitPcs, C_Join, CpuAt, CpuOnly, fifo, offsets, flags, gx, cpu, scanner,
       worker
  <2> QED BY <2>1, <2>2, <2>3, <2>4 DEF Control
<1>25. CASE C_WaitTimeout
  <2>1. NumberTypes' /\ PlaceTypes'
    BY <1>1, <1>25 DEF NumberTypes, Watched, PlaceTypes, CpuPcs, WorkerPcs, WaitPcs,
       C_WaitTimeout, CpuAt, CpuOnly, fifo, offsets, flags, gx, cpu, scanner, worker
  <2>2. BooleanTypes' /\ NeverFails'
    BY <1>1, <1>25 DEF BooleanTypes, NeverFails, C_WaitTimeout, CpuAt, CpuOnly, fifo, offsets,
       flags, gx, cpu, scanner, worker
  <2>3. OffsetsOrdered' /\ WaitRight' /\ ModesRight' /\ DrainedIsIdle'
    BY <1>1, <1>25 DEF OffsetsOrdered, InHand, NumberTypes, WaitRight, WaitFor, Draining, WaitPcs,
       PlaceTypes, ModesRight, Filling, Publishing, Leaving, BooleanTypes, DrainedIsIdle, Drained,
       C_WaitTimeout, CpuAt, CpuOnly, fifo, offsets, flags, gx, cpu, scanner, worker
  <2>4. FlagsRight' /\ EpochRight' /\ AnswerComes' /\ FenceOff'
    BY <1>1, <1>25 DEF FlagsRight, BooleanTypes, EpochRight, NumberTypes, AnswerComes, Watched,
       FenceOff, WaitFor, WaitPcs, C_WaitTimeout, CpuAt, CpuOnly, fifo, offsets, flags, gx, cpu,
       scanner, worker
  <2> QED BY <2>1, <2>2, <2>3, <2>4 DEF Control
<1>26. ASSUME NEW n \in 0..Budget, C_Tick(n) PROVE Control'
  <2>1. NumberTypes' /\ PlaceTypes'
    BY <1>1, <1>26 DEF NumberTypes, Watched, PlaceTypes, CpuPcs, WorkerPcs, WaitPcs, C_Tick, fifo,
       offsets, flags, gx, cpu, scanner, worker
  <2>2. BooleanTypes' /\ NeverFails'
    BY <1>1, <1>26 DEF BooleanTypes, NeverFails, C_Tick, fifo, offsets, flags, gx, cpu, scanner,
       worker
  <2>3. OffsetsOrdered' /\ WaitRight' /\ ModesRight' /\ DrainedIsIdle'
    BY <1>1, <1>26 DEF OffsetsOrdered, InHand, NumberTypes, WaitRight, WaitFor, Draining, WaitPcs,
       PlaceTypes, ModesRight, Filling, Publishing, Leaving, BooleanTypes, DrainedIsIdle, Drained,
       C_Tick, fifo, offsets, flags, gx, cpu, scanner, worker
  <2>4. FlagsRight' /\ EpochRight' /\ AnswerComes' /\ FenceOff'
    BY <1>1, <1>26 DEF FlagsRight, BooleanTypes, EpochRight, NumberTypes, AnswerComes, Watched,
       FenceOff, WaitFor, WaitPcs, ModesRight, C_Tick, fifo, offsets, flags, gx, cpu, scanner,
       worker
  <2> QED BY <2>1, <2>2, <2>3, <2>4 DEF Control
<1>27. CASE C_PeekDrain
  <2>1. NumberTypes' /\ PlaceTypes'
    BY <1>1, <1>27 DEF NumberTypes, Watched, PlaceTypes, CpuPcs, WorkerPcs, WaitPcs, C_PeekDrain,
       BeginDrain, BeginWait, Wait, fifo, offsets, flags, gx, cpu, scanner, worker
  <2>2. BooleanTypes' /\ NeverFails'
    BY <1>1, <1>27 DEF BooleanTypes, NeverFails, C_PeekDrain, BeginDrain, BeginWait, Wait, fifo,
       offsets, flags, gx, cpu, scanner, worker
  <2>3. OffsetsOrdered' /\ WaitRight' /\ ModesRight' /\ DrainedIsIdle'
    BY <1>1, <1>27 DEF OffsetsOrdered, InHand, NumberTypes, WaitRight, WaitFor, Draining, WaitPcs,
       PlaceTypes, ModesRight, Filling, Publishing, Leaving, BooleanTypes, DrainedIsIdle, Drained,
       C_PeekDrain, BeginDrain, BeginWait, Wait, fifo, offsets, flags, gx, cpu, scanner, worker
  <2>4. FlagsRight' /\ EpochRight' /\ AnswerComes' /\ FenceOff'
    BY <1>1, <1>27 DEF FlagsRight, BooleanTypes, EpochRight, NumberTypes, AnswerComes, Watched,
       FenceOff, WaitFor, WaitPcs, C_PeekDrain, BeginDrain, BeginWait, Wait, fifo, offsets, flags,
       gx, cpu, scanner, worker
  <2> QED BY <2>1, <2>2, <2>3, <2>4 DEF Control
<1>28. CASE C_ShutdownDrain
  <2>1. NumberTypes' /\ PlaceTypes'
    BY <1>1, <1>28 DEF NumberTypes, Watched, PlaceTypes, CpuPcs, WorkerPcs, WaitPcs,
       C_ShutdownDrain, BeginDrain, BeginWait, Wait, fifo, offsets, flags, gx, cpu, scanner,
       worker
  <2>2. BooleanTypes' /\ NeverFails'
    BY <1>1, <1>28 DEF BooleanTypes, NeverFails, C_ShutdownDrain, BeginDrain, BeginWait, Wait,
       fifo, offsets, flags, gx, cpu, scanner, worker
  <2>3. OffsetsOrdered' /\ WaitRight' /\ ModesRight' /\ DrainedIsIdle'
    BY <1>1, <1>28 DEF OffsetsOrdered, InHand, NumberTypes, WaitRight, WaitFor, Draining, WaitPcs,
       PlaceTypes, ModesRight, Filling, Publishing, Leaving, BooleanTypes, DrainedIsIdle, Drained,
       C_ShutdownDrain, BeginDrain, BeginWait, Wait, fifo, offsets, flags, gx, cpu, scanner,
       worker
  <2>4. FlagsRight' /\ EpochRight' /\ AnswerComes' /\ FenceOff'
    BY <1>1, <1>28 DEF FlagsRight, BooleanTypes, EpochRight, NumberTypes, AnswerComes, Watched,
       FenceOff, WaitFor, WaitPcs, C_ShutdownDrain, BeginDrain, BeginWait, Wait, fifo, offsets,
       flags, gx, cpu, scanner, worker
  <2> QED BY <2>1, <2>2, <2>3, <2>4 DEF Control
<1> QED BY <1>2, <1>3, <1>4, <1>5, <1>6, <1>7, <1>8, <1>9, <1>10, <1>11, <1>12, <1>13, <1>14,
   <1>15, <1>16, <1>17, <1>18, <1>19, <1>20, <1>21, <1>22, <1>23, <1>24, <1>25, <1>26, <1>27,
   <1>28
   DEF CpuStep, GuestStep

-----------------------------------------------------------------------------
(* Steps that move no data. *)

Quiet ==
    /\ UNCHANGED <<stream, unsafe, produced, pulled, ring, buf, decoded, carry, scanPos>>
    /\ Fetched' = Fetched /\ Committed' = Committed
    /\ Filling' => Filling
    /\ Piped' => Piped
    /\ doneUpto' # produced => doneUpto # produced
    /\ wproduced' \in {wproduced, produced}
    /\ cpc' = "publish" => cpc = "publish" /\ taken' = taken
    /\ wpc = "run" => wpc' = "run"
    /\ cpc = "syncrun" => cpc' = "syncrun"
    /\ RoomRight'

\* They keep the data as they are.
LEMMA QuietKeeps ==
    ASSUME PipeInv, Quiet
    PROVE  Data'
<1>1. /\ UNCHANGED <<stream, unsafe, produced, pulled, ring, buf, decoded, carry, scanPos>>
      /\ Fetched' = Fetched /\ Committed' = Committed
      /\ Filling' => Filling
      /\ Piped' => Piped
      /\ doneUpto' # produced => doneUpto # produced
      /\ wproduced' \in {wproduced, produced}
      /\ cpc' = "publish" => cpc = "publish" /\ taken' = taken
      /\ wpc = "run" => wpc' = "run"
      /\ cpc = "syncrun" => cpc' = "syncrun"
      /\ RoomRight'
  BY DEF Quiet
<1>2. Base' = Base /\ PulledTo' = PulledTo /\ Done' = Done /\ DoneTo' = DoneTo
  BY <1>1 DEF Base, PulledTo, Done, DoneTo
<1>3. ChunksRight'
  BY <1>1, Numbers DEF ChunksRight, InChunks
<1>4. RingRight'
  BY <1>1, <1>2, Numbers DEF RingRight, Slot, NumSlots
<1>5. DecodedRight' /\ BufRight'
  BY <1>1, <1>2, Numbers DEF DecodedRight, BufRight, Segment
<1>6. BufDry'
  BY <1>1, <1>2, Numbers DEF BufDry, Whole
<1>7. CarryTypes'
  BY <1>1, Numbers DEF CarryTypes
<1>8. CarryRight'
  BY <1>1, <1>2, Numbers DEF CarryRight, Whole, Segment
<1>9. SizableOnly'
  BY <1>1, <1>2, Numbers DEF SizableOnly
<1> QED BY <1>1, <1>3, <1>4, <1>5, <1>6, <1>7, <1>8, <1>9 DEF Data

\* So are the fences, if no fence to wait for is forgotten.
LEMMA FencesKept ==
    ASSUME PipeInv, UNCHANGED <<stream, retired>>, Base' = Base, Committed' = Committed,
           Piped' => Piped /\ Due' = Due,
           Done <= Done', DoneTo <= DoneTo', Done' \in Nat, DoneTo' \in Nat
    PROVE  Fences'
<1>1. /\ Len(stream) \in Nat /\ Base \in Int /\ Committed \in Nat /\ Done \in Nat
      /\ DoneTo \in Nat
  BY Numbers, Positions DEF PipeInv
<1>2. FenceDue'
  <2>1. ASSUME Piped', NEW f \in 1..Len(stream), stream[f].kind = "fence",
               End(stream, f) <= Committed, f > Done'
        PROVE  Due' # 0 /\ End(stream, f) <= Base + Due'
    <3>1. f > Done
      BY <1>1, <2>1
    <3> QED BY <2>1, <3>1, Numbers DEF FenceDue
  <2> QED BY <2>1 DEF FenceDue
<1>3. FenceMet'
  <2>1. ASSUME Piped', Due' # 0, Due' <= retired PROVE Base + Due <= DoneTo'
    <3>1. Base + Due <= DoneTo
      BY <2>1, Numbers DEF FenceMet
    <3>2. Due \in Int
      BY Numbers DEF Due, NumberTypes
    <3> QED BY <1>1, <3>1, <3>2
  <2> QED BY <2>1 DEF FenceMet
<1> QED BY <1>2, <1>3 DEF Fences

\* Where the program counter stands decides what is in hand: the worker changes it only
\* to wake the CPU thread from a wait.
LEMMA WorkerFrame ==
    ASSUME UNCHANGED <<taken, produced, fence, wait, syncmode>>,
           cpc' = cpc \/ (cpc = "asleep" /\ cpc' = "waitunset")
    PROVE  /\ Fetched' = Fetched /\ Committed' = Committed /\ Base' = Base
           /\ Filling' <=> Filling
           /\ Publishing' <=> Publishing
           /\ Piped' <=> Piped
           /\ Due' = Due
           /\ cpc' \in {"publish", "fill", "syncrun"} => cpc' = cpc
           /\ cpc = "syncrun" => cpc' = "syncrun"
<1>1. Publishing' <=> Publishing
  BY DEF Publishing
<1>2. \A ret \in CpuPcs : WaitFor(ret)' <=> WaitFor(ret)
  BY DEF WaitFor, WaitPcs
<1>3. /\ WaitFor("fill")' <=> WaitFor("fill")
      /\ WaitFor("entersync")' <=> WaitFor("entersync")
      /\ WaitFor("guest")' <=> WaitFor("guest")
  BY DEF WaitFor, WaitPcs
<1>4. Fetched' = Fetched
  BY <1>1 DEF Fetched, Publishing
<1>5. Filling' <=> Filling
  BY <1>3 DEF Filling
<1>6. Piped' <=> Piped
  BY <1>3 DEF Piped, Leaving
<1>7. Committed' = Committed
  BY <1>4, <1>5 DEF Committed
<1>8. Due' = Due
  BY <1>3 DEF Due
<1>9. Base' = Base
  BY <1>4 DEF Base
<1> QED BY <1>1, <1>4, <1>5, <1>6, <1>7, <1>8, <1>9

\* The worker's steps that move no data.
LEMMA WorkerQuiet ==
    ASSUME PipeInv,
           \/ W_Load \/ W_QuitCheck \/ W_EpochLoad \/ W_Spin \/ W_SpinQuit \/ W_Park
           \/ W_ParkWait \/ W_Unpark \/ W_Retire \/ W_DoneUpto \/ W_Check \/ W_Wake
           \/ W_SpuriousWake
    PROVE  Quiet /\ Base' = Base /\ (Piped' => Piped /\ Due' = Due)
<1> DEFINE Rest == UNCHANGED <<stream, unsafe, produced, pulled, ring, buf, decoded, carry,
                               scanPos, taken, fence, wait, syncmode>>
           Small == /\ cpc' = cpc \/ (cpc = "asleep" /\ cpc' = "waitunset")
                    /\ wpc # "run"
                    /\ wproduced' \in {wproduced, produced}
                    /\ doneUpto' = doneUpto \/ (wpc = "doneupto" /\ doneUpto' = pulled)
<1>1. Rest /\ Small
  <2>1. CASE W_Load \/ W_QuitCheck \/ W_EpochLoad \/ W_Spin \/ W_SpinQuit
    BY <2>1 DEF W_Load, W_QuitCheck, W_EpochLoad, W_Spin, W_SpinQuit, WorkerAt, WorkerLooks, fifo,
       offsets, flags, gx, cpu, scanner
  <2>2. CASE W_Park \/ W_ParkWait \/ W_Unpark \/ W_SpuriousWake \/ W_Check
    BY <2>2 DEF W_Park, W_ParkWait, W_Unpark, W_SpuriousWake, W_Check, SetParked, WorkerAt,
       WorkerLooks, fifo, offsets, flags, gx, cpu, scanner
  <2>3. CASE W_Retire \/ W_DoneUpto \/ W_Wake
    BY <2>3 DEF W_Retire, W_DoneUpto, W_Wake, WakeCpu, WorkerAt, fifo, offsets, flags, gx, cpu,
       scanner
  <2> QED BY <2>1, <2>2, <2>3
<1>2. /\ Fetched' = Fetched /\ Committed' = Committed /\ Base' = Base
      /\ Filling' <=> Filling
      /\ Piped' <=> Piped
      /\ Due' = Due
      /\ cpc' \in {"publish", "fill", "syncrun"} => cpc' = cpc
      /\ cpc = "syncrun" => cpc' = "syncrun"
  BY <1>1, WorkerFrame
<1>3. RoomRight'
  BY <1>1, <1>2, Numbers DEF RoomRight
<1>4. doneUpto' # produced => doneUpto # produced
  BY <1>1, Numbers DEF OffsetsOrdered, InHand, NumberTypes
<1> QED BY <1>1, <1>2, <1>3, <1>4 DEF Quiet

\* The CPU thread's.
LEMMA CpuQuiet ==
    ASSUME PipeInv,
           \/ C_Wait \/ C_WaitSet \/ C_WaitCall \/ C_WaitUnset \/ C_LoopEnd \/ C_Bump
           \/ C_CheckParked \/ C_Wake \/ C_Consume \/ C_EnterSync \/ C_SyncEnd \/ C_Peek
           \/ C_Quit \/ C_QuitBump \/ C_QuitWake \/ C_Join \/ C_WaitTimeout
           \/ C_PeekDrain \/ C_ShutdownDrain \/ \E n \in 0..Budget : C_Tick(n)
    PROVE  Quiet /\ Base' = Base
<1> DEFINE Rest == UNCHANGED <<stream, unsafe, produced, pulled, ring, buf, decoded, carry,
                               scanPos, doneUpto, wproduced>>
           Small == /\ wpc = "run" <=> wpc' = "run"
                    /\ cpc # "syncrun" /\ cpc' # "publish"
                    /\ Fetched' = Fetched /\ (Filling' <=> Filling) /\ (Piped' => Piped)
                    /\ RoomRight'
<1> SUFFICES Rest /\ Small
  <2>1. ASSUME Rest /\ Small PROVE Committed' = Committed /\ Base' = Base
    BY <2>1 DEF Committed, Base
  <2> QED BY <2>1 DEF Quiet
<1>0. /\ NumberTypes /\ BooleanTypes /\ PlaceTypes /\ WaitRight /\ ModesRight /\ NeverFails
      /\ OffsetsOrdered /\ Chunk \in Nat \ {0} /\ RingCap \in Nat
  BY Numbers, SlotsRight
<1>1. CASE C_Wait
  <2>1. /\ cpc = "wait" /\ wait'.ret = wait.ret
        /\ \/ Watched >= wait.target /\ cpc' = wait.ret
           \/ cpc' \in {"wait", "waitset"}
        /\ UNCHANGED <<fifo, offsets, flags, ring, gx, left, fence, seen, scanner, worker>>
    BY <1>0, <1>1 DEF C_Wait, CpuOnly, NeverFails, PlaceTypes
  <2>2. wait.ret \in {"entersync", "peek", "quit", "fill", "guest", "sync"}
    BY <1>0, <2>1 DEF WaitRight, WaitPcs
  <2>3. Fetched' = Fetched
    BY <2>1, <2>2 DEF Fetched, fifo
  <2>4. Filling' <=> Filling
    BY <2>1, <2>2 DEF Filling, WaitFor, WaitPcs
  <2>5. Piped' => Piped
    BY <2>1, <2>2 DEF Piped, Leaving, WaitFor, WaitPcs, scanner
  <2>6. RoomRight'
    <3>1. CASE cpc' = "fill"
      <4>1. WaitFor("fill") /\ Watched >= wait.target
        BY <2>1, <3>1 DEF WaitFor, WaitPcs
      <4>2. retired >= produced + Chunk - RingCap
        BY <1>0, <4>1 DEF WaitRight, Watched
      <4>3. produced + Chunk - RingCap <= pulled
        BY <1>0, <4>2 DEF OffsetsOrdered, NumberTypes
      <4> QED BY <2>1, <4>3 DEF RoomRight, offsets, worker
    <3>2. CASE cpc' # "fill"
      BY <2>1, <2>2, <3>2 DEF RoomRight
    <3> QED BY <3>1, <3>2
  <2>7. Rest /\ (wpc = "run" <=> wpc' = "run") /\ cpc # "syncrun" /\ cpc' # "publish"
    BY <2>1, <2>2 DEF fifo, offsets, gx, scanner, worker
  <2> QED BY <2>3, <2>4, <2>5, <2>6, <2>7
<1>2. CASE C_WaitSet \/ C_WaitCall \/ C_WaitUnset \/ C_WaitTimeout
  BY <1>2 DEF C_WaitSet, C_WaitCall, C_WaitUnset, C_WaitTimeout, SetWaiting, CpuAt, CpuOnly,
     Fetched, Filling, Piped, Leaving, WaitFor, WaitPcs, RoomRight, fifo, offsets, gx, scanner,
     worker
<1>3. CASE C_LoopEnd
  BY <1>3 DEF C_LoopEnd, AfterLoop, BeginWait, Wait, Fetched, Filling, Piped, Leaving, WaitFor,
     WaitPcs, RoomRight, fifo, offsets, gx, scanner, worker
<1>4. CASE C_Bump \/ C_CheckParked \/ C_Wake
  BY <1>4 DEF C_Bump, C_CheckParked, C_Wake, WakeWorker, BumpEpoch, CpuAt, CpuOnly, Fetched,
     Filling, Piped, Leaving, WaitFor, WaitPcs, RoomRight, fifo, offsets, gx, scanner, worker
<1>5. CASE C_Consume
  BY <1>0, <1>5 DEF C_Consume, CpuAt, NumberTypes, Fetched, Filling, Piped, Leaving, WaitFor,
     WaitPcs, RoomRight, fifo, offsets, gx, scanner, worker
<1>6. CASE C_EnterSync \/ C_SyncEnd \/ C_Peek \/ C_Join
  BY <1>6 DEF C_EnterSync, C_SyncEnd, C_Peek, C_Join, CpuAt, CpuOnly, Fetched, Filling, Piped,
     Leaving, WaitFor, WaitPcs, RoomRight, fifo, offsets, gx, scanner, worker
<1>7. CASE C_Quit \/ C_QuitBump \/ C_QuitWake
  BY <1>7 DEF C_Quit, C_QuitBump, C_QuitWake, WakeWorker, BumpEpoch, CpuAt, Fetched, Filling,
     Piped, Leaving, WaitFor, WaitPcs, RoomRight, fifo, offsets, gx, scanner, worker
<1>8. CASE C_PeekDrain \/ C_ShutdownDrain
  BY <1>8 DEF C_PeekDrain, C_ShutdownDrain, BeginDrain, BeginWait, Wait, Fetched, Filling, Piped,
     Leaving, WaitFor, WaitPcs, RoomRight, fifo, offsets, gx, scanner, worker
<1>9. CASE \E n \in 0..Budget : C_Tick(n)
  BY <1>9 DEF C_Tick, Fetched, Filling, Piped, Leaving, WaitFor, WaitPcs, RoomRight, fifo,
     offsets, gx, scanner, worker
<1> QED BY <1>1, <1>2, <1>3, <1>4, <1>5, <1>6, <1>7, <1>8, <1>9

\* A tick is not given more than the FIFO has.
LEMMA TickRight ==
    ASSUME PipeInv, NEW n \in 0..Budget, C_Tick(n)
    PROVE  (taken + n) * Chunk <= SizeOf(stream)
<1> DEFINE chunks == SizeOf(stream) \div Chunk
<1>1. /\ SizeOf(stream) \in Nat /\ taken \in Nat /\ stream \in Streams
      /\ Chunk \in Nat \ {0} /\ Budget \in Nat
  BY SlotsRight, Numbers, Positions DEF PipeInv, NumberTypes, PlaceTypes
<1>2. chunks \in Nat /\ chunks * Chunk = SizeOf(stream)
  <2>1. /\ chunks \in Nat
        /\ SizeOf(stream) = chunks * Chunk + (SizeOf(stream) % Chunk)
    BY <1>1, Division
  <2>2. SizeOf(stream) % Chunk = 0
    BY <1>1, StreamsAssumption
  <2> HIDE DEF chunks
  <2>3. chunks * Chunk \in Nat
    BY <1>1, <2>1
  <2> QED BY <2>1, <2>2, <2>3
<1>3. n <= chunks - taken
  BY DEF C_Tick, ChunksLeft
<1> HIDE DEF chunks
<1>4. taken + n \in Nat /\ taken + n <= chunks
  BY <1>1, <1>2, <1>3
<1>5. (taken + n) * Chunk <= chunks * Chunk
  BY <1>1, <1>2, <1>4, Multiples
<1> QED BY <1>2, <1>5

\* Every step leaves a tick no more than the FIFO has, and a chunk in hand counted.
LEMMA LeftKept ==
    ASSUME PipeInv, [Next]_vars
    PROVE  LeftRight'
<1>1. /\ NumberTypes /\ WaitRight /\ LeftRight
      /\ Chunk \in Nat \ {0} /\ Budget \in Nat /\ SizeOf(stream) \in Nat
      /\ taken * Chunk <= SizeOf(stream)
  <2>1. taken * Chunk \in Nat /\ SizeOf(stream) \in Nat /\ Fetched <= Committed
        /\ Committed <= SizeOf(stream) /\ Fetched \in Nat /\ Committed \in Nat
        /\ Fetched = IF Publishing THEN taken * Chunk + Chunk ELSE taken * Chunk
    BY Numbers, Positions DEF PipeInv
  <2>2. Chunk \in Nat \ {0} /\ Budget \in Nat
    BY SlotsRight
  <2>3. taken * Chunk <= SizeOf(stream)
    BY <2>1, <2>2
  <2> QED BY <2>1, <2>2, <2>3, Numbers
<1> DEFINE Frame == UNCHANGED <<stream, taken, left>>
           InHandKept == Filling' \/ Publishing' => Filling \/ Publishing \/ left > 0
<1>2. ASSUME Frame, InHandKept PROVE LeftRight'
  BY <1>1, <1>2 DEF LeftRight
<1>3. ASSUME WorkerStep \/ W_SpuriousWake PROVE LeftRight'
  <2>1. Frame /\ UNCHANGED wait /\ (cpc' = cpc \/ (cpc = "asleep" /\ cpc' = "waitunset"))
    <3>1. CASE W_Load \/ W_QuitCheck \/ W_EpochLoad \/ W_Spin \/ W_SpinQuit
      BY <3>1 DEF W_Load, W_QuitCheck, W_EpochLoad, W_Spin, W_SpinQuit, WorkerLooks, fifo, cpu
    <3>2. CASE W_Park \/ W_ParkWait \/ W_Unpark \/ W_SpuriousWake \/ W_Check \/ W_RunEnd
      BY <3>2 DEF W_Park, W_ParkWait, W_Unpark, W_SpuriousWake, W_Check, W_RunEnd, SetParked,
         WorkerLooks, fifo, cpu
    <3>3. CASE W_Retire \/ W_DoneUpto \/ W_Wake \/ W_Decode \/ W_Pull
      BY <3>3 DEF W_Retire, W_DoneUpto, W_Wake, W_Decode, W_Pull, WakeCpu, fifo, cpu
    <3> QED BY <1>3, <3>1, <3>2, <3>3 DEF WorkerStep
  <2>2. InHandKept
    BY <2>1 DEF Filling, Publishing, WaitFor, WaitPcs
  <2> QED BY <1>2, <2>1, <2>2
<1>4. CASE C_Wait
  <2>1. /\ cpc = "wait" /\ wait'.ret = wait.ret /\ Frame
        /\ cpc' \in {wait.ret, "wait", "waitset"}
    BY <1>4, Numbers DEF C_Wait, CpuOnly, fifo, NeverFails, PlaceTypes
  <2>2. wait.ret \in {"entersync", "peek", "quit", "fill", "guest", "sync"}
    BY <1>1, <2>1 DEF WaitRight, WaitPcs
  <2>3. InHandKept
    BY <2>1, <2>2 DEF Filling, Publishing, WaitFor, WaitPcs
  <2> QED BY <1>2, <2>1, <2>3
<1>5. CASE C_WaitSet \/ C_WaitCall \/ C_WaitUnset \/ C_WaitTimeout
  BY <1>2, <1>5 DEF C_WaitSet, C_WaitCall, C_WaitUnset, C_WaitTimeout, SetWaiting, CpuAt, CpuOnly,
     fifo, Filling, Publishing, WaitFor, WaitPcs
<1>6. CASE C_LoopEnd
  BY <1>2, <1>6 DEF C_LoopEnd, AfterLoop, BeginWait, Wait, fifo, Filling, Publishing, WaitFor,
     WaitPcs
<1>7. CASE C_Scan
  <2>1. Frame /\ left > 0
    BY <1>7 DEF C_Scan, fifo
  <2> QED BY <1>2, <2>1
<1>8. CASE C_Fill \/ C_Publish \/ C_Bump \/ C_CheckParked \/ C_Wake
  BY <1>2, <1>8 DEF C_Fill, C_Publish, C_Bump, C_CheckParked, C_Wake, WakeWorker, BumpEpoch,
     CpuAt, CpuOnly, fifo, Filling, Publishing, WaitFor, WaitPcs
<1>9. CASE C_Consume \/ C_SyncFetch
  <2>1. /\ cpc' \in {"scan", "syncrun"} /\ taken' = taken + 1 /\ left' = left - 1
        /\ UNCHANGED stream
    BY <1>9 DEF C_Consume, C_SyncFetch, CpuAt
  <2>2. taken + left = (taken + 1) + (left - 1)
    BY <1>1 DEF NumberTypes
  <2>3. ~ Filling' /\ ~ Publishing'
    BY <2>1 DEF Filling, Publishing, WaitFor, WaitPcs
  <2> QED BY <1>1, <2>1, <2>2, <2>3 DEF LeftRight
<1>10. CASE C_EnterSync \/ C_SyncDecode \/ C_SyncRunEnd \/ C_Resume \/ C_Peek
  BY <1>2, <1>10 DEF C_EnterSync, C_SyncDecode, C_SyncRunEnd, C_Resume, C_Peek, CpuAt, CpuOnly,
     fifo, cpu, Filling, Publishing, WaitFor, WaitPcs
<1>11. CASE C_SyncEnd
  <2>1. cpc' = "resume" /\ left' = 0 /\ UNCHANGED <<stream, taken>>
    BY <1>11 DEF C_SyncEnd, CpuAt, fifo
  <2>2. taken + 0 = taken
    BY <1>1 DEF NumberTypes
  <2>3. ~ Filling' /\ ~ Publishing'
    BY <2>1 DEF Filling, Publishing, WaitFor, WaitPcs
  <2> QED BY <1>1, <2>1, <2>2, <2>3 DEF LeftRight
<1>12. CASE C_Quit \/ C_QuitBump \/ C_QuitWake \/ C_Join
  BY <1>2, <1>12 DEF C_Quit, C_QuitBump, C_QuitWake, C_Join, WakeWorker, BumpEpoch, CpuAt,
     CpuOnly, fifo, Filling, Publishing, WaitFor, WaitPcs
<1>13. ASSUME NEW n \in 0..Budget, C_Tick(n) PROVE LeftRight'
  <2>1. (taken + n) * Chunk <= SizeOf(stream)
    BY <1>13, TickRight
  <2>2. left' = n /\ UNCHANGED <<stream, taken, wait>> /\ cpc' \in {"aborted", "sync", "scan"}
    BY <1>13 DEF C_Tick, fifo
  <2>3. ~ Filling' /\ ~ Publishing'
    BY <2>2 DEF Filling, Publishing, WaitFor, WaitPcs
  <2> QED BY <2>1, <2>2, <2>3 DEF LeftRight
<1>14. CASE C_PeekDrain \/ C_ShutdownDrain
  BY <1>2, <1>14 DEF C_PeekDrain, C_ShutdownDrain, BeginDrain, BeginWait, Wait, fifo, Filling,
     Publishing, WaitFor, WaitPcs
<1>15. CASE UNCHANGED vars
  <2>1. Frame /\ UNCHANGED <<wait, cpc>>
    BY <1>15 DEF vars, fifo, cpu
  <2>2. InHandKept
    BY <2>1 DEF Filling, Publishing, WaitFor, WaitPcs
  <2> QED BY <1>2, <2>1, <2>2
<1> QED BY <1>3, <1>4, <1>5, <1>6, <1>7, <1>8, <1>9, <1>10, <1>11, <1>12, <1>13, <1>14, <1>15 DEF
   Next, GuestStep, CpuStep

-----------------------------------------------------------------------------
(* Steps that move data. *)

\* A command is decoded: the next one, and it leaves the staging buffer.
LEMMA DecodeKeeps ==
    ASSUME PipeInv, W_Decode \/ C_SyncDecode
    PROVE  Data' /\ Fences'
<1>1. /\ CanDecode /\ Decode /\ wpc' = wpc /\ cpc' = cpc
      /\ wpc = "run" \/ cpc = "syncrun"
      /\ UNCHANGED <<fifo, offsets, ring, cpu, scanner, worker>>
  BY DEF W_Decode, C_SyncDecode, cpu, worker
<1>2. /\ UNCHANGED <<stream, unsafe, taken, produced, pulled, wproduced, doneUpto, retired, ring,
                     carry, scanPos, syncmode, fence, wait>>
  BY <1>1 DEF fifo, offsets, cpu, scanner, worker
<1>3. /\ Fetched' = Fetched /\ Committed' = Committed /\ Base' = Base
      /\ Filling' <=> Filling
      /\ Piped' <=> Piped
      /\ Due' = Due
  BY <1>1, <1>2, WorkerFrame
<1>4. PulledTo' = PulledTo
  BY <1>2, <1>3 DEF PulledTo
<1>5. /\ stream \in Streams /\ PulledTo \in Nat /\ PulledTo <= SizeOf(stream)
      /\ Len(stream) \in Nat /\ Done \in Nat /\ DoneTo \in Nat /\ BufCap \in Nat
  <2>1. /\ PulledTo \in Nat /\ PulledTo <= Fetched /\ Fetched <= Committed
        /\ Committed <= SizeOf(stream) /\ Fetched \in Nat /\ Committed \in Nat
        /\ SizeOf(stream) \in Nat /\ Len(stream) \in Nat /\ Done \in Nat /\ DoneTo \in Nat
    BY Numbers, Positions DEF PipeInv
  <2> QED BY <2>1, Numbers, SlotsRight DEF PlaceTypes
<1>6. /\ decoded' \in Seq(Nat)
      /\ Done + 1 \in 1..Len(stream) /\ Len(decoded') = Done + 1
      /\ \A j \in 1..(Done + 1) : decoded'[j] = j
      /\ End(stream, Done + 1) \in Nat /\ End(stream, Done + 1) <= PulledTo
      /\ DoneTo < End(stream, Done + 1)
      /\ buf' = Segment(End(stream, Done + 1), PulledTo)
  BY <1>1, <1>5, Numbers, DecodeRight DEF BufRight
<1>7. Done' = Done + 1 /\ DoneTo' = End(stream, Done + 1)
  BY <1>2, <1>6 DEF Done, DoneTo
<1>8. DecodedRight'
  BY <1>2, <1>5, <1>6, <1>7 DEF DecodedRight
<1>9. BufRight'
  <2>1. buf' = Segment(DoneTo, PulledTo)' /\ DoneTo' <= PulledTo'
    BY <1>4, <1>6, <1>7 DEF Segment
  <2>2. /\ Len(Segment(End(stream, Done + 1), PulledTo)) = PulledTo - End(stream, Done + 1)
        /\ Len(Segment(DoneTo, PulledTo)) = PulledTo - DoneTo
    BY <1>5, <1>6, Numbers, SegmentSeq DEF BufRight
  <2>3. PulledTo - DoneTo <= BufCap
    BY <2>2, Numbers DEF BufRight
  <2>4. PulledTo - End(stream, Done + 1) <= BufCap
    BY <1>5, <1>6, <2>3
  <2>5. Len(buf') <= BufCap
    BY <1>6, <2>2, <2>4
  <2> QED BY <2>1, <2>5 DEF BufRight
<1>10. BufDry'
  BY <1>1 DEF BufDry
<1>11. ChunksRight' /\ RoomRight' /\ CarryTypes'
  BY <1>1, <1>2, Numbers DEF ChunksRight, InChunks, RoomRight, CarryTypes
<1>12. RingRight'
  BY <1>1, <1>2, <1>3, Numbers DEF RingRight, Slot, NumSlots
<1>13. CarryRight'
  BY <1>2, <1>3, Numbers DEF CarryRight, Whole, Segment
<1>14. SizableOnly'
  <2>1. ASSUME doneUpto # produced \/ Filling, NEW i \in 1..Len(stream), i > Done + 1,
               End(stream, i - 1) < Committed
        PROVE  stream[i].kind # "prim"
    <3>1. i > Done
      BY <1>5, <2>1
    <3> QED BY <2>1, <3>1, Numbers DEF SizableOnly
  <2> QED BY <1>2, <1>3, <1>7, <2>1 DEF SizableOnly
<1>15. Fences'
  <2>1. Done <= Done' /\ DoneTo <= DoneTo' /\ Done' \in Nat /\ DoneTo' \in Nat
    BY <1>5, <1>6, <1>7
  <2> QED BY <1>2, <1>3, <2>1, FencesKept
<1> QED BY <1>8, <1>9, <1>10, <1>11, <1>12, <1>13, <1>14, <1>15 DEF Data

\* The decoder stops because there is no whole command left.
LEMMA RunEndKeeps ==
    ASSUME PipeInv, W_RunEnd \/ C_SyncRunEnd
    PROVE  Data' /\ Fences'
<1>1. /\ ~ CanDecode
      /\ cpc' = cpc \/ (cpc = "syncrun" /\ cpc' = "sync")
      /\ UNCHANGED <<stream, unsafe, taken, produced, pulled, wproduced, doneUpto, retired, ring,
                     buf, decoded, carry, scanPos, syncmode, fence, wait>>
  BY DEF W_RunEnd, C_SyncRunEnd, WorkerAt, WorkerLooks, CpuAt, CpuOnly, fifo, offsets, gx, cpu,
     scanner, worker
<1>2. /\ Fetched' = Fetched /\ Committed' = Committed /\ Base' = Base
      /\ Filling' <=> Filling
      /\ Piped' <=> Piped
      /\ Due' = Due
      /\ cpc' \in {"fill", "publish"} => cpc' = cpc
  <2>1. CASE cpc' = cpc
    BY <1>1, <2>1, WorkerFrame
  <2>2. CASE cpc = "syncrun" /\ cpc' = "sync"
    <3>1. Fetched' = Fetched
      BY <1>1, <2>2 DEF Fetched
    <3>2. /\ Filling' <=> Filling
          /\ Piped' <=> Piped
          /\ Due' = Due
      BY <1>1, <2>2 DEF Filling, Piped, Leaving, Due, WaitFor, WaitPcs
    <3> QED BY <1>1, <2>2, <3>1, <3>2 DEF Committed, Base
  <2> QED BY <1>1, <2>1, <2>2
<1>3. PulledTo' = PulledTo /\ Done' = Done /\ DoneTo' = DoneTo
  BY <1>1, <1>2 DEF PulledTo, Done, DoneTo
<1>4. Whole(Done, PulledTo)
  <2>1. /\ PulledTo \in Nat /\ PulledTo <= Fetched /\ Fetched <= Committed
        /\ Committed <= SizeOf(stream) /\ Fetched \in Nat /\ Committed \in Nat
        /\ SizeOf(stream) \in Nat
    BY Numbers, Positions DEF PipeInv
  <2>2. PulledTo <= SizeOf(stream)
    BY <2>1
  <2>3. /\ stream \in Streams /\ DecodedRight /\ DoneTo <= PulledTo
        /\ buf = Segment(DoneTo, PulledTo)
    BY Numbers DEF BufRight, PlaceTypes
  <2> QED BY <1>1, <2>1, <2>2, <2>3, DryRight
<1>5. BufDry'
  BY <1>1, <1>3, <1>4 DEF BufDry, Whole
<1>6. ChunksRight' /\ RoomRight' /\ CarryTypes'
  BY <1>1, <1>2, Numbers DEF ChunksRight, InChunks, RoomRight, CarryTypes
<1>7. RingRight'
  BY <1>1, <1>2, Numbers DEF RingRight, Slot, NumSlots
<1>8. DecodedRight' /\ BufRight'
  BY <1>1, <1>3, Numbers DEF DecodedRight, BufRight, Segment
<1>9. CarryRight'
  BY <1>1, <1>2, Numbers DEF CarryRight, Whole, Segment
<1>10. SizableOnly'
  BY <1>1, <1>2, <1>3, Numbers DEF SizableOnly
<1>11. Fences'
  <2>1. Done \in Nat /\ DoneTo \in Nat
    BY Numbers, Positions DEF PipeInv
  <2>2. Done <= Done' /\ DoneTo <= DoneTo' /\ Done' \in Nat /\ DoneTo' \in Nat
    BY <1>3, <2>1
  <2> QED BY <1>1, <1>2, <2>2, FencesKept
<1> QED BY <1>5, <1>6, <1>7, <1>8, <1>9, <1>10, <1>11 DEF Data

\* The worker pulls: its staging buffer goes on where it ended.
LEMMA PullKeeps ==
    ASSUME PipeInv, W_Pull
    PROVE  Data' /\ Fences'
<1> DEFINE d == Take * Chunk
<1>1. /\ Take \in Nat \ {0} /\ d \in Nat \ {0}
      /\ pulled + d <= wproduced
      /\ Len(buf) + d <= BufCap
      /\ InChunks(pulled + d)
      /\ PulledCells(Take) = Segment(PulledTo, PulledTo + d)
  BY PullRight DEF W_Pull
<1>2. /\ buf' = buf \o PulledCells(Take) /\ pulled' = pulled + d /\ wpc' = "run" /\ cpc' = cpc
      /\ UNCHANGED <<stream, unsafe, taken, produced, wproduced, doneUpto, retired, ring,
                     decoded, carry, scanPos, syncmode, fence, wait>>
  BY <1>1 DEF W_Pull, fifo, offsets, scanner
<1> HIDE DEF d
<1>3. /\ Fetched' = Fetched /\ Committed' = Committed /\ Base' = Base
      /\ Filling' <=> Filling
      /\ Piped' <=> Piped
      /\ Due' = Due
  BY <1>2, WorkerFrame
<1>4. /\ pulled \in Nat /\ wproduced \in Nat /\ produced \in Nat /\ wproduced <= produced
      /\ PulledTo \in Nat /\ Base \in Int /\ Done \in Nat /\ DoneTo \in Nat /\ BufCap \in Nat
      /\ DoneTo <= PulledTo /\ buf = Segment(DoneTo, PulledTo)
      /\ Chunk \in Nat /\ RingCap \in Nat
  <2>1. PulledTo \in Nat /\ Base \in Int /\ Done \in Nat /\ DoneTo \in Nat
    BY Numbers, Positions DEF PipeInv
  <2> QED BY <2>1, Numbers, SlotsRight DEF NumberTypes, OffsetsOrdered, BufRight
<1>5. PulledTo' = PulledTo + d /\ Done' = Done /\ DoneTo' = DoneTo
  BY <1>1, <1>2, <1>3, <1>4 DEF PulledTo, Done, DoneTo
<1>6. /\ PulledTo + d \in Nat /\ PulledTo <= PulledTo + d /\ DoneTo <= PulledTo + d
      /\ buf' = Segment(DoneTo, PulledTo + d)
  <2>1. PulledTo + d \in Nat /\ PulledTo <= PulledTo + d /\ DoneTo <= PulledTo + d
    BY <1>1, <1>4
  <2>2. Segment(DoneTo, PulledTo) \o Segment(PulledTo, PulledTo + d)
            = Segment(DoneTo, PulledTo + d)
    BY <1>4, <2>1, SegmentConcat
  <2> QED BY <1>1, <1>2, <1>4, <2>1, <2>2
<1>7. BufRight'
  <2>1. buf' = Segment(DoneTo, PulledTo)' /\ DoneTo' <= PulledTo'
    BY <1>1, <1>4, <1>5, <1>6 DEF Segment
  <2>2. Len(buf') = (PulledTo + d) - DoneTo /\ Len(buf) = PulledTo - DoneTo
    <3>1. Len(Segment(DoneTo, PulledTo)) = PulledTo - DoneTo
      BY <1>4, SegmentSeq
    <3>2. Len(Segment(DoneTo, PulledTo + d)) = (PulledTo + d) - DoneTo
      BY <1>4, <1>6, SegmentSeq
    <3> QED BY <1>4, <1>6, <3>1, <3>2
  <2>3. (PulledTo + d) - DoneTo <= BufCap
    <3>1. (PulledTo - DoneTo) + d <= BufCap
      BY <1>1, <1>4, <2>2
    <3> QED BY <3>1, <1>1, <1>4
  <2>4. Len(buf') <= BufCap
    BY <2>2, <2>3
  <2> QED BY <2>1, <2>4 DEF BufRight
<1>8. BufDry'
  BY <1>2 DEF BufDry
<1>9. ChunksRight'
  BY <1>1, <1>2, Numbers DEF ChunksRight, InChunks
<1>10. RoomRight'
  BY <1>1, <1>2, <1>4, Numbers DEF RoomRight
<1>11. CarryTypes' /\ DecodedRight'
  BY <1>2, <1>5, Numbers DEF CarryTypes, DecodedRight
<1>12. RingRight'
  <2>1. ASSUME NEW m \in 0..produced, pulled + d <= m * Chunk, m * Chunk < produced
        PROVE  ring[m % NumSlots] * Chunk = Base + m * Chunk + Chunk
    <3>1. pulled <= m * Chunk
      <4>1. m * Chunk \in Nat
        BY <1>4
      <4> QED BY <1>1, <1>4, <2>1, <4>1
    <3> QED BY <2>1, <3>1, Numbers DEF RingRight
  <2>2. cpc' = "publish" => ring'[Slot(produced)'] = taken' + 1
    BY <1>2, Numbers DEF RingRight, Slot, NumSlots
  <2>3. ring' \in [0..(NumSlots - 1) -> Nat]
    BY <1>2, Numbers DEF RingRight
  <2> QED BY <1>2, <1>3, <2>1, <2>2, <2>3 DEF RingRight, NumSlots
<1>13. CarryRight'
  BY <1>2, <1>3, Numbers DEF CarryRight, Whole, Segment
<1>14. SizableOnly'
  BY <1>2, <1>3, <1>5, Numbers DEF SizableOnly
<1>15. Fences'
  <2>1. Done <= Done' /\ DoneTo <= DoneTo' /\ Done' \in Nat /\ DoneTo' \in Nat
    BY <1>4, <1>5
  <2> QED BY <1>2, <1>3, <2>1, FencesKept
<1> QED BY <1>7, <1>8, <1>9, <1>10, <1>11, <1>12, <1>13, <1>14, <1>15 DEF Data

\* A chunk goes into a slot that holds none the worker has yet to pull.
LEMMA FillKeeps ==
    ASSUME PipeInv, C_Fill
    PROVE  Data' /\ Fences'
<1>1. /\ cpc = "fill" /\ cpc' = "publish"
      /\ ring' = [ring EXCEPT ![Slot(produced)] = taken + 1]
      /\ UNCHANGED <<stream, unsafe, taken, produced, pulled, wproduced, doneUpto, retired, buf,
                     decoded, carry, scanPos, syncmode, fence, wait, wpc>>
  BY DEF C_Fill, CpuAt, fifo, offsets, gx, scanner, worker
<1>2. /\ Fetched' = Fetched /\ Committed' = Committed /\ Base' = Base
      /\ Filling' /\ Filling
      /\ Piped' <=> Piped
      /\ Due' = Due
  <2>1. Fetched' = Fetched
    BY <1>1 DEF Fetched
  <2>2. /\ Filling' /\ Filling
        /\ Piped' <=> Piped
        /\ Due' = Due
    BY <1>1 DEF Filling, Piped, Leaving, Due, WaitFor, WaitPcs
  <2> QED BY <1>1, <2>1, <2>2 DEF Committed, Base
<1>3. PulledTo' = PulledTo /\ Done' = Done /\ DoneTo' = DoneTo
  BY <1>1, <1>2 DEF PulledTo, Done, DoneTo
<1>4. ChunksRight' /\ RoomRight' /\ CarryTypes'
  BY <1>1, Numbers DEF ChunksRight, InChunks, RoomRight, CarryTypes
<1>5. DecodedRight' /\ BufRight' /\ BufDry'
  BY <1>1, <1>3, Numbers DEF DecodedRight, BufRight, BufDry, Whole, Segment
<1>6. CarryRight'
  BY <1>1, <1>2, Numbers DEF CarryRight, Whole, Segment
<1>7. SizableOnly'
  BY <1>1, <1>2, <1>3, Numbers DEF SizableOnly
<1>8. RingRight'
  <2>1. PICK c \in Nat : produced = c * Chunk
    BY Numbers DEF ChunksRight, InChunks, NumberTypes
  <2>2. /\ Chunk \in Nat \ {0} /\ NumSlots \in Nat \ {0} /\ NumSlots * Chunk = RingCap
        /\ taken \in Nat /\ pulled \in Nat /\ produced \in Nat
    BY SlotsRight, Numbers DEF NumberTypes
  <2>3. Slot(produced) = c % NumSlots /\ c % NumSlots \in 0..(NumSlots - 1)
    BY <2>1, SlotOf
  <2>4. ring \in [0..(NumSlots - 1) -> Nat]
    BY Numbers DEF RingRight
  <2>5. /\ ring' \in [0..(NumSlots - 1) -> Nat]
        /\ ring'[Slot(produced)] = taken + 1
    BY <1>1, <2>2, <2>3, <2>4
  <2>6. ASSUME NEW m \in 0..produced, pulled <= m * Chunk, m * Chunk < produced
        PROVE  ring'[m % NumSlots] * Chunk = Base + m * Chunk + Chunk
    <3>1. m \in Nat /\ m * Chunk \in Nat
      BY <2>2
    <3>2. m < c
      BY <2>1, <2>2, <2>6, <3>1, Multiples
    <3>3. c < m + NumSlots
      <4>1. produced + Chunk - RingCap <= pulled
        BY <1>1, Numbers DEF RoomRight
      <4>2. /\ (c + 1) * Chunk = c * Chunk + Chunk
            /\ (m + NumSlots) * Chunk = m * Chunk + NumSlots * Chunk
        BY <2>1, <2>2, <3>1, Multiples
      <4>3. (c + 1) * Chunk <= (m + NumSlots) * Chunk
        <5>1. RingCap \in Nat
          BY SlotsRight
        <5> QED BY <2>1, <2>2, <2>6, <3>1, <4>1, <4>2, <5>1
      <4>4. c + 1 <= m + NumSlots
        <5>1. c + 1 \in Nat /\ m + NumSlots \in Nat
          BY <2>1, <2>2, <3>1
        <5> QED BY <2>2, <4>3, <5>1, Multiples
      <4> QED BY <2>1, <2>2, <3>1, <4>4
    <3>4. c % NumSlots # m % NumSlots
      BY <2>1, <3>1, <3>2, <3>3, SlotOf
    <3>5. m % NumSlots \in 0..(NumSlots - 1)
      BY <3>1, SlotOf
    <3>6. ring'[m % NumSlots] = ring[m % NumSlots]
      BY <1>1, <2>3, <2>4, <3>4, <3>5
    <3>7. ring[m % NumSlots] * Chunk = Base + m * Chunk + Chunk
      BY <2>6, Numbers DEF RingRight
    <3> QED BY <3>6, <3>7
  <2>7. ring'[Slot(produced)'] = taken' + 1
    BY <1>1, <2>5 DEF Slot, NumSlots
  <2> QED BY <1>1, <1>2, <2>5, <2>6, <2>7 DEF RingRight, NumSlots
<1>9. Fences'
  <2>1. Done \in Nat /\ DoneTo \in Nat
    BY Numbers, Positions DEF PipeInv
  <2>2. Done <= Done' /\ DoneTo <= DoneTo' /\ Done' \in Nat /\ DoneTo' \in Nat
    BY <1>3, <2>1
  <2> QED BY <1>1, <1>2, <2>2, FencesKept
<1> QED BY <1>4, <1>5, <1>6, <1>7, <1>8, <1>9 DEF Data

\* It is published: the worker may find it at the next offset.
LEMMA PublishKeeps ==
    ASSUME PipeInv, C_Publish
    PROVE  Data' /\ Fences'
<1>1. /\ cpc = "publish" /\ cpc' = "bump" /\ produced' = produced + Chunk
      /\ UNCHANGED <<stream, unsafe, taken, pulled, wproduced, doneUpto, retired, ring, buf,
                     decoded, carry, scanPos, syncmode, fence, wait, wpc>>
  BY DEF C_Publish, CpuAt, fifo, gx, scanner, worker
<1>2. /\ Chunk \in Nat \ {0} /\ taken \in Nat /\ pulled \in Nat /\ produced \in Nat
      /\ Fetched \in Nat /\ Base \in Int /\ Base = Fetched - produced
      /\ Fetched = taken * Chunk /\ taken * Chunk \in Nat
      /\ Done \in Nat /\ DoneTo \in Nat /\ pulled <= produced
  <2>1. /\ Fetched \in Nat /\ Base \in Int /\ Done \in Nat /\ DoneTo \in Nat
        /\ taken * Chunk \in Nat
        /\ Fetched = IF Publishing THEN taken * Chunk + Chunk ELSE taken * Chunk
    BY Numbers, Positions DEF PipeInv
  <2>2. Chunk \in Nat \ {0} /\ taken \in Nat /\ pulled \in Nat /\ produced \in Nat
        /\ pulled <= produced
    BY SlotsRight, Numbers DEF NumberTypes, OffsetsOrdered
  <2>3. ~ Publishing
    BY <1>1 DEF Publishing
  <2> QED BY <2>1, <2>2, <2>3 DEF Base
<1>3. Fetched' = Fetched + Chunk
  <2>1. Fetched' = Chunk * (taken + 1)
    BY <1>1 DEF Fetched
  <2>2. Chunk * (taken + 1) = taken * Chunk + Chunk
    BY <1>2
  <2> QED BY <1>2, <2>1, <2>2
<1>4. /\ Filling /\ ~ Filling'
      /\ Piped' <=> Piped
      /\ Due' = Due
  BY <1>1 DEF Filling, Piped, Leaving, Due, WaitFor, WaitPcs
<1>5. Committed' = Committed /\ Base' = Base
  <2>1. Committed' = Committed
    BY <1>3, <1>4 DEF Committed
  <2>2. (Fetched + Chunk) - (produced + Chunk) = Fetched - produced
    BY <1>2
  <2> QED BY <1>1, <1>3, <2>1, <2>2 DEF Base
<1>6. PulledTo' = PulledTo /\ Done' = Done /\ DoneTo' = DoneTo
  BY <1>1, <1>5 DEF PulledTo, Done, DoneTo
<1>7. PICK c \in Nat : produced = c * Chunk
  BY Numbers DEF ChunksRight, InChunks, NumberTypes
<1>8. ChunksRight'
  <2>1. c + 1 \in Nat /\ (c + 1) * Chunk = produced + Chunk
    BY <1>2, <1>7, Multiples
  <2>2. c + 1 <= (c + 1) * Chunk
    BY <1>2, <2>1, Multiples
  <2>3. c + 1 \in 0..(produced + Chunk) /\ produced + Chunk = (c + 1) * Chunk
    <3>1. produced + Chunk \in Nat /\ c + 1 <= produced + Chunk /\ c + 1 \in Nat
      BY <1>2, <2>1, <2>2
    <3> QED BY <2>1, <3>1
  <2>4. InChunks(produced + Chunk)
    BY <2>3 DEF InChunks
  <2> QED BY <1>1, <2>4, Numbers DEF ChunksRight, InChunks
<1>9. RoomRight' /\ CarryTypes'
  BY <1>1, Numbers DEF RoomRight, CarryTypes
<1>10. DecodedRight' /\ BufRight' /\ BufDry'
  BY <1>1, <1>6, Numbers DEF DecodedRight, BufRight, BufDry, Whole, Segment
<1>11. CarryRight'
  BY <1>1, <1>4, <1>5, Numbers DEF CarryRight, Whole, Segment
<1>12. SizableOnly'
  BY <1>1, <1>4, <1>5, <1>6, Numbers DEF SizableOnly
<1>13. RingRight'
  <2>1. ASSUME NEW m \in 0..(produced + Chunk), pulled <= m * Chunk, m * Chunk < produced + Chunk
        PROVE  ring[m % NumSlots] * Chunk = Base + m * Chunk + Chunk
    <3>1. m \in Nat /\ m * Chunk \in Nat
      BY <1>2
    <3>2. m <= c
      <4>1. m * Chunk < (c + 1) * Chunk
        BY <1>2, <1>7, <2>1, Multiples
      <4>2. c + 1 \in Nat
        BY <1>7
      <4>3. m < c + 1
        BY <1>2, <3>1, <4>1, <4>2, Multiples
      <4> QED BY <1>7, <3>1, <4>3
    <3>3. CASE m = c
      <4>1. ring[m % NumSlots] = taken + 1
        BY <1>1, <1>7, <3>3, Numbers, SlotOf DEF RingRight
      <4>2. (taken + 1) * Chunk = taken * Chunk + Chunk
        BY <1>2, Multiples
      <4>3. Base + m * Chunk = Fetched
        BY <1>2, <1>7, <3>3
      <4> QED BY <1>2, <4>1, <4>2, <4>3
    <3>4. CASE m < c
      <4>1. m * Chunk + Chunk <= c * Chunk
        BY <1>2, <1>7, <3>1, <3>4, Multiples
      <4>2. m * Chunk < produced
        BY <1>2, <1>7, <3>1, <4>1
      <4>3. m <= m * Chunk
        BY <1>2, <3>1, Multiples
      <4>4. m \in 0..produced
        BY <1>2, <3>1, <4>2, <4>3
      <4> QED BY <2>1, <4>2, <4>4, Numbers DEF RingRight
    <3> QED BY <1>7, <3>1, <3>2, <3>3, <3>4
  <2>2. ring' \in [0..(NumSlots - 1) -> Nat]
    BY <1>1, Numbers DEF RingRight
  <2> QED BY <1>1, <1>5, <2>1, <2>2 DEF RingRight, NumSlots
<1>14. Fences'
  <2>1. Done <= Done' /\ DoneTo <= DoneTo' /\ Done' \in Nat /\ DoneTo' \in Nat
    BY <1>2, <1>6
  <2> QED BY <1>1, <1>4, <1>5, <2>1, FencesKept
<1> QED BY <1>8, <1>9, <1>10, <1>11, <1>12, <1>13, <1>14 DEF Data

\* The scanner's step: it leaves the pipeline, or commits the next chunk.
LEMMA ScanKeeps ==
    ASSUME PipeInv, C_Scan
    PROVE  Data' /\ Fences'
<1>1. /\ cpc = "scan" /\ cpc' = "wait" /\ syncmode = FALSE /\ CarryTypes' /\ Committed = Fetched
      /\ UNCHANGED <<stream, unsafe, taken, produced, pulled, wproduced, doneUpto, retired, ring,
                     buf, decoded, syncmode, wpc>>
  <2>1. /\ cpc = "scan" /\ syncmode = FALSE
        /\ UNCHANGED <<stream, unsafe, taken, produced, pulled, wproduced, doneUpto, retired,
                       ring, buf, decoded, syncmode, wpc>>
    BY Numbers DEF C_Scan, fifo, offsets, gx, worker, BooleanTypes
  <2> QED BY <2>1, ScanSteps
<1>2. Fetched' = Fetched /\ Base' = Base
  <2>1. Fetched' = Fetched
    BY <1>1 DEF Fetched
  <2> QED BY <1>1, <2>1 DEF Base
<1>3. PulledTo' = PulledTo /\ Done' = Done /\ DoneTo' = DoneTo
  BY <1>1, <1>2 DEF PulledTo, Done, DoneTo
<1>4. ChunksRight' /\ RoomRight'
  BY <1>1, Numbers DEF ChunksRight, InChunks, RoomRight
<1>5. DecodedRight' /\ BufRight' /\ BufDry'
  BY <1>1, <1>3, Numbers DEF DecodedRight, BufRight, BufDry, Whole, Segment
<1>6. RingRight'
  BY <1>1, <1>2, Numbers DEF RingRight, Slot, NumSlots
<1>7. CASE wait' = Wait("done", produced, "entersync")
  <2>1. ~ Piped' /\ ~ Filling'
    BY <1>1, <1>7 DEF Piped, Leaving, Filling, WaitFor, WaitPcs, Wait
  <2>2. Committed' = Committed
    BY <1>1, <1>2, <2>1 DEF Committed
  <2>3. CarryRight' /\ FenceDue' /\ FenceMet'
    BY <2>1 DEF CarryRight, FenceDue, FenceMet
  <2>4. SizableOnly'
    BY <1>1, <1>3, <2>1, <2>2, Numbers DEF SizableOnly
  <2> QED BY <1>1, <1>4, <1>5, <1>6, <2>3, <2>4 DEF Data, Fences
<1>8. CASE /\ wait' = Wait("retired", produced + Chunk - RingCap, "fill")
           /\ poisoned' = FALSE /\ fence' \in Nat
           /\ Len(carry') + Chunk <= CarryCap
           /\ \E q \in 0..Len(stream) :
                  /\ End(stream, q) = Base + scanPos' /\ Whole(q, Fetched + Chunk)
                  /\ carry' = Segment(End(stream, q), Fetched + Chunk)
           /\ \A m \in 1..Len(stream) :
                  m > Done /\ End(stream, m - 1) < Fetched + Chunk => stream[m].kind # "prim"
           /\ \A f \in 1..Len(stream) :
                  stream[f].kind = "fence" /\ End(stream, f) <= Fetched + Chunk /\ f > Done =>
                      fence' # 0 /\ End(stream, f) <= Base + fence'
           /\ fence' = fence \/ fence' > produced
  <2>1. Piped /\ Piped' /\ Filling' /\ Due = fence /\ Due' = fence'
    BY <1>1, <1>8 DEF Piped, Leaving, Filling, Due, WaitFor, WaitPcs, Wait
  <2>2. Committed' = Fetched + Chunk
    BY <1>2, <2>1 DEF Committed
  <2>3. CarryRight'
    <3>1. PICK q \in 0..Len(stream) :
                  /\ End(stream, q) = Base + scanPos' /\ Whole(q, Fetched + Chunk)
                  /\ carry' = Segment(End(stream, q), Fetched + Chunk)
      BY <1>8
    <3>2. /\ End(stream', q) = Base' + scanPos' /\ Whole(q, Committed)'
          /\ carry' = Segment(Base + scanPos, Committed)'
      BY <1>1, <1>2, <2>2, <3>1 DEF Whole, Segment
    <3>3. Len(carry') + Chunk <= CarryCap
      BY <1>8
    <3> QED BY <1>1, <3>1, <3>2, <3>3 DEF CarryRight
  <2>4. SizableOnly'
    BY <1>1, <1>3, <1>8, <2>2 DEF SizableOnly
  <2>5. FenceDue'
    BY <1>1, <1>2, <1>3, <1>8, <2>1, <2>2 DEF FenceDue
  <2>6. FenceMet'
    <3>1. CASE fence' = fence
      BY <1>1, <1>2, <1>3, <2>1, <3>1, Numbers DEF FenceMet
    <3>2. CASE fence' > produced
      <4>1. ~(fence' <= retired)
        BY <1>8, <3>2, Numbers DEF OffsetsOrdered, NumberTypes
      <4> QED BY <1>1, <2>1, <4>1 DEF FenceMet
    <3> QED BY <1>8, <3>1, <3>2
  <2> QED BY <1>1, <1>4, <1>5, <1>6, <2>3, <2>4, <2>5, <2>6 DEF Data, Fences
<1> QED BY <1>7, <1>8, ScanSteps

\* In sync mode the worker has nothing in hand and all that was fetched is pulled.
LEMMA SyncStands ==
    ASSUME PipeInv, syncmode
    PROVE  /\ doneUpto = produced /\ pulled = produced /\ wproduced = produced /\ ~ InHand
           /\ ~ Filling /\ ~ Publishing /\ ~ WaitFor("guest") /\ ~ Piped
           /\ PulledTo = Fetched /\ Committed = Fetched
<1>1. /\ doneUpto = produced /\ ~ Filling /\ ~ Publishing /\ ~ WaitFor("guest") /\ ~ Piped
  BY Numbers DEF DrainedIsIdle, ModesRight, Piped
<1>2. pulled = produced /\ wproduced = produced /\ ~ InHand
  BY <1>1, Numbers DEF OffsetsOrdered, NumberTypes
<1>3. PulledTo = Fetched
  <2>1. /\ Fetched \in Nat /\ Base \in Int /\ PulledTo \in Nat
        /\ Fetched = PulledTo + (produced - pulled)
    BY Numbers, Positions DEF PipeInv
  <2>2. produced - pulled = 0
    BY <1>2, Numbers DEF NumberTypes
  <2> QED BY <2>1, <2>2
<1>4. Committed = Fetched
  BY <1>1 DEF Committed
<1> QED BY <1>1, <1>2, <1>3, <1>4

\* A chunk goes straight into the staging buffer, behind what is there.
LEMMA SyncFetchKeeps ==
    ASSUME PipeInv, C_SyncFetch
    PROVE  Data' /\ Fences'
<1>1. /\ cpc = "sync" /\ cpc' = "syncrun" /\ left > 0 /\ Len(buf) + Chunk <= BufCap
      /\ buf' = buf \o ChunkCells(taken + 1) /\ taken' = taken + 1
      /\ UNCHANGED <<stream, unsafe, produced, pulled, wproduced, doneUpto, retired, ring,
                     decoded, carry, scanPos, syncmode, fence, wait, wpc>>
  BY DEF C_SyncFetch, CpuAt, offsets, scanner, worker
<1>2. syncmode
  BY <1>1, Numbers DEF ModesRight
<1>3. /\ doneUpto = produced /\ pulled = produced /\ wproduced = produced /\ ~ InHand
      /\ ~ Filling /\ ~ Publishing
      /\ PulledTo = Fetched
  BY <1>2, SyncStands
<1>4. ~ Piped' /\ ~ Filling'
  BY <1>1, <1>2 DEF Piped, Filling, WaitFor, WaitPcs
<1>5. /\ Fetched \in Nat /\ Base \in Int /\ Done \in Nat /\ DoneTo \in Nat
      /\ Fetched = taken * Chunk /\ taken \in Nat /\ Chunk \in Nat \ {0} /\ BufCap \in Nat
      /\ produced \in Nat /\ DoneTo <= Fetched /\ buf = Segment(DoneTo, Fetched)
      /\ Base = Fetched - produced
  <2>1. /\ Fetched \in Nat /\ Base \in Int /\ Done \in Nat /\ DoneTo \in Nat
        /\ Fetched = IF Publishing THEN taken * Chunk + Chunk ELSE taken * Chunk
    BY Numbers, Positions DEF PipeInv
  <2>2. taken \in Nat /\ Chunk \in Nat \ {0} /\ BufCap \in Nat /\ produced \in Nat
    BY Numbers, SlotsRight DEF NumberTypes
  <2>3. DoneTo <= PulledTo /\ buf = Segment(DoneTo, PulledTo)
    BY Numbers DEF BufRight
  <2> QED BY <1>3, <2>1, <2>2, <2>3 DEF Base
<1>6. Fetched' = Fetched + Chunk
  <2>1. Fetched' = Chunk * (taken + 1)
    BY <1>1 DEF Fetched
  <2>2. Chunk * (taken + 1) = taken * Chunk + Chunk
    BY <1>5
  <2> QED BY <1>5, <2>1, <2>2
<1>7. Base' = Base + Chunk /\ PulledTo' = Fetched + Chunk
  <2>1. Base' = (Fetched + Chunk) - produced
    BY <1>1, <1>6 DEF Base
  <2>2. PulledTo' = Base' + produced
    BY <1>1, <1>3 DEF PulledTo
  <2> QED BY <1>5, <2>1, <2>2
<1>8. Done' = Done /\ DoneTo' = DoneTo
  BY <1>1 DEF Done, DoneTo
<1>9. BufRight'
  <2>1. ChunkCells(taken + 1) = Segment(Fetched, Fetched + Chunk)
    BY <1>5, ChunkSegment
  <2>2. Fetched + Chunk \in Nat /\ Fetched <= Fetched + Chunk /\ DoneTo <= Fetched + Chunk
    BY <1>5
  <2>3. buf' = Segment(DoneTo, Fetched + Chunk)
    <3>1. Segment(DoneTo, Fetched) \o Segment(Fetched, Fetched + Chunk)
              = Segment(DoneTo, Fetched + Chunk)
      BY <1>5, <2>2, SegmentConcat
    <3> QED BY <1>1, <1>5, <2>1, <3>1
  <2>4. Len(buf') = (Fetched + Chunk) - DoneTo /\ Len(buf) = Fetched - DoneTo
    <3>1. Len(Segment(DoneTo, Fetched)) = Fetched - DoneTo
      BY <1>5, SegmentSeq
    <3>2. Len(Segment(DoneTo, Fetched + Chunk)) = (Fetched + Chunk) - DoneTo
      BY <1>5, <2>2, SegmentSeq
    <3> QED BY <1>5, <2>3, <3>1, <3>2
  <2>5. (Fetched + Chunk) - DoneTo <= BufCap
    <3>1. (Fetched - DoneTo) + Chunk <= BufCap
      BY <1>1, <2>4
    <3> QED BY <3>1, <1>5
  <2>6. Len(buf') <= BufCap
    BY <2>4, <2>5
  <2>7. buf' = Segment(DoneTo, PulledTo)' /\ DoneTo' <= PulledTo'
    BY <1>7, <1>8, <2>2, <2>3 DEF Segment
  <2> QED BY <2>6, <2>7 DEF BufRight
<1>10. BufDry'
  BY <1>1 DEF BufDry
<1>11. ChunksRight' /\ RoomRight' /\ CarryTypes'
  BY <1>1, Numbers DEF ChunksRight, InChunks, RoomRight, CarryTypes
<1>12. DecodedRight'
  BY <1>1, <1>8, Numbers DEF DecodedRight
<1>13. RingRight'
  <2>1. ASSUME NEW m \in 0..produced, produced <= m * Chunk, m * Chunk < produced PROVE FALSE
    <3>1. m * Chunk \in Nat
      BY <1>5
    <3> QED BY <1>5, <2>1, <3>1
  <2>2. ring' \in [0..(NumSlots - 1) -> Nat]
    BY <1>1, Numbers DEF RingRight
  <2> QED BY <1>1, <1>3, <2>1, <2>2 DEF RingRight, NumSlots
<1>14. CarryRight' /\ SizableOnly' /\ Fences'
  BY <1>1, <1>3, <1>4 DEF CarryRight, SizableOnly, Fences, FenceDue, FenceMet
<1> QED BY <1>9, <1>10, <1>11, <1>12, <1>13, <1>14 DEF Data

\* What is left in the staging buffer becomes the carry: it begins where a command does,
\* it is less than one, and there is room for it and a chunk.
LEMMA ResumeKeeps ==
    ASSUME PipeInv, C_Resume
    PROVE  Data' /\ Fences'
<1>1. /\ cpc = "resume" /\ cpc' = "guest"
      /\ UNCHANGED <<stream, unsafe, taken, produced, pulled, wproduced, doneUpto, retired, ring,
                     buf, decoded, fence, wait, wpc>>
  BY DEF C_Resume, CpuAt, fifo, offsets, gx, worker
<1>2. syncmode
  BY <1>1, Numbers DEF ModesRight
<1>3. /\ doneUpto = produced /\ pulled = produced /\ wproduced = produced /\ ~ InHand
      /\ PulledTo = Fetched /\ Committed = Fetched
  BY <1>2, SyncStands
<1>4. fence = 0
  BY <1>1, Numbers DEF FenceOff
<1>5. /\ Fetched' = Fetched /\ Base' = Base /\ ~ Filling' /\ Due' = 0
      /\ Committed' = Fetched
  <2>1. Fetched' = Fetched
    BY <1>1 DEF Fetched
  <2>2. ~ Filling' /\ Due' = 0
    BY <1>1, <1>4 DEF Filling, Due, WaitFor, WaitPcs
  <2> QED BY <1>1, <2>1, <2>2 DEF Base, Committed
<1>6. PulledTo' = PulledTo /\ Done' = Done /\ DoneTo' = DoneTo
  BY <1>1, <1>5 DEF PulledTo, Done, DoneTo
<1>7. Whole(Done, Fetched)
  BY <1>1, <1>3, Numbers DEF BufDry, InHand
<1>8. /\ Fetched \in Nat /\ Base \in Int /\ Done \in 0..Len(stream) /\ DoneTo \in Nat
      /\ Len(stream) \in Nat /\ produced \in Nat /\ CarryCap \in Nat /\ Chunk \in Nat
      /\ DoneTo <= Fetched /\ buf = Segment(DoneTo, Fetched)
      /\ Base = Fetched - produced /\ Fetched <= SizeOf(stream) /\ SizeOf(stream) \in Nat
      /\ stream \in Streams
  <2>1. /\ Fetched \in Nat /\ Base \in Int /\ Done \in 0..Len(stream) /\ DoneTo \in Nat
        /\ Len(stream) \in Nat /\ Fetched <= Committed /\ Committed <= SizeOf(stream)
        /\ SizeOf(stream) \in Nat
    BY Numbers, Positions DEF PipeInv
  <2>2. CarryCap \in Nat /\ produced \in Nat /\ stream \in Streams /\ Chunk \in Nat
    BY Numbers, SlotsRight DEF NumberTypes, PlaceTypes
  <2>3. DoneTo <= PulledTo /\ buf = Segment(DoneTo, PulledTo)
    BY Numbers DEF BufRight
  <2> QED BY <1>3, <2>1, <2>2, <2>3 DEF Base
<1>9. Len(buf) = Fetched - DoneTo /\ buf \in Seq((DoneTo + 1)..Fetched)
  BY <1>8, SegmentSeq
<1>10. ChunksRight' /\ RoomRight' /\ DecodedRight' /\ BufRight' /\ BufDry'
  <2>1. ChunksRight' /\ RoomRight'
    BY <1>1, Numbers DEF ChunksRight, InChunks, RoomRight
  <2>2. DecodedRight' /\ BufRight'
    BY <1>1, <1>6, Numbers DEF DecodedRight, BufRight, Segment
  <2>3. BufDry'
    BY <1>1, <1>3, <1>6, <1>7 DEF BufDry, Whole
  <2> QED BY <2>1, <2>2, <2>3
<1>11. RingRight'
  BY <1>1, <1>5, Numbers DEF RingRight, Slot, NumSlots
<1>12. SizableOnly'
  BY <1>1, <1>3, <1>5 DEF SizableOnly
<1>13. CarryTypes' /\ CarryRight'
  <2>1. CASE syncmode' = FALSE
    <3>1. carry' = buf /\ scanPos' = produced - Len(buf) /\ CanResume(Len(buf))
      BY <1>2, <2>1 DEF C_Resume
    <3>2. Base + scanPos' = DoneTo /\ scanPos' \in Int
      BY <1>8, <1>9, <3>1
    <3>3. Len(buf) <= CarryCap /\ (unsafe \/ Len(buf) + Chunk <= CarryCap)
      BY <1>8, <1>9, <3>1 DEF CanResume
    <3>4. carry' \in Seq(1..SizeOf(stream))
      <4>1. (DoneTo + 1)..Fetched \subseteq 1..SizeOf(stream)
        BY <1>8
      <4> QED BY <1>9, <3>1, <4>1, SeqMonotonic
    <3>5. CarryTypes'
      BY <1>1, <3>1, <3>2, <3>3, <3>4 DEF CarryTypes
    <3>6. /\ End(stream', Done) = Base' + scanPos' /\ Whole(Done, Committed)'
          /\ carry' = Segment(Base + scanPos, Committed)'
      <4>1. End(stream', Done) = Base' + scanPos'
        BY <1>1, <1>5, <3>2 DEF DoneTo
      <4>2. Whole(Done, Committed)'
        BY <1>1, <1>5, <1>6, <1>7 DEF Whole
      <4>3. Segment(Base + scanPos, Committed)' = Segment(DoneTo, Fetched)
        BY <1>5, <3>2 DEF Segment
      <4> QED BY <1>8, <3>1, <4>1, <4>2, <4>3
    <3>7. Whole(Done, Committed)' <=>
              /\ End(stream', Done') <= Committed'
              /\ Done' < Len(stream') => Committed' < End(stream', Done' + 1)
      BY DEF Whole
    <3>8. CarryRight'
      <4>1. Done \in 0..Len(stream')
        BY <1>1, <1>8
      <4>2. /\ End(stream', Done) <= Committed'
            /\ Done < Len(stream') => Committed' < End(stream', Done + 1)
        BY <3>6, <3>7, <1>6
      <4>3. unsafe' \/ Len(carry') + Chunk <= CarryCap
        BY <1>1, <3>1, <3>3
      <4> QED BY <3>6, <4>1, <4>2, <4>3 DEF CarryRight, Whole
    <3> QED BY <3>5, <3>8
  <2>2. CASE syncmode' # FALSE
    <3>1. carry' = carry /\ scanPos' = scanPos /\ syncmode' = syncmode
      BY <2>2 DEF C_Resume
    <3> QED BY <1>1, <1>2, <3>1, Numbers DEF CarryTypes, CarryRight, Piped
  <2> QED BY <2>1, <2>2
<1>14. FenceDue'
  <2>1. ASSUME NEW f \in 1..Len(stream), End(stream, f) <= Fetched, f > Done PROVE FALSE
    <3>1. /\ Done + 1 \in 0..Len(stream) /\ Done + 1 <= f /\ f \in 0..Len(stream)
          /\ Done < Len(stream)
      BY <1>8, <2>1
    <3>2. /\ End(stream, Done + 1) <= End(stream, f)
          /\ End(stream, Done + 1) \in Nat /\ End(stream, f) \in Nat
      BY <1>8, <3>1, EndsOrder
    <3>3. Fetched < End(stream, Done + 1)
      BY <1>7, <3>1 DEF Whole
    <3> QED BY <1>8, <2>1, <3>2, <3>3
  <2> QED BY <1>1, <1>5, <1>6, <2>1 DEF FenceDue
<1>15. FenceMet'
  BY <1>5 DEF FenceMet
<1> QED BY <1>10, <1>11, <1>12, <1>13, <1>14, <1>15 DEF Data, Fences

\* The steps that move no data keep the fences: the worker's.
LEMMA WorkerFences ==
    ASSUME PipeInv,
           \/ W_Load \/ W_QuitCheck \/ W_EpochLoad \/ W_Spin \/ W_SpinQuit \/ W_Park
           \/ W_ParkWait \/ W_Unpark \/ W_Retire \/ W_DoneUpto \/ W_Check \/ W_Wake
           \/ W_SpuriousWake
    PROVE  Fences'
<1>1. /\ Base' = Base /\ (Piped' => Piped /\ Due' = Due) /\ Committed' = Committed
      /\ UNCHANGED <<stream, decoded, pulled, buf>>
  BY WorkerQuiet DEF Quiet
<1>2. Done' = Done /\ DoneTo' = DoneTo
  BY <1>1 DEF Done, DoneTo
<1>3. /\ Done \in Nat /\ DoneTo \in Nat /\ Base \in Int
  BY Numbers, Positions DEF PipeInv
<1>4. CASE W_Retire
  <2>1. retired' = pulled - Len(buf)
    BY <1>4 DEF W_Retire
  <2>2. Base + retired' = DoneTo /\ retired' \in Int
    <3>1. DoneTo <= PulledTo /\ buf = Segment(DoneTo, PulledTo) /\ PulledTo \in Nat
      BY Numbers, Positions DEF PipeInv, BufRight
    <3>2. Len(buf) = PulledTo - DoneTo
      BY <1>3, <3>1, SegmentSeq
    <3>3. pulled \in Nat /\ PulledTo = Base + pulled
      BY Numbers DEF NumberTypes, PulledTo
    <3> QED BY <1>3, <2>1, <3>2, <3>3
  <2>3. FenceDue'
    BY <1>1, <1>2, Numbers DEF FenceDue
  <2>4. FenceMet'
    <3>1. ASSUME Piped', Due' # 0, Due' <= retired' PROVE Base + Due <= DoneTo
      <4>1. Due \in Int
        BY Numbers DEF Due, NumberTypes
      <4>2. Due <= retired'
        BY <1>1, <3>1
      <4>3. ASSUME NEW r \in Int, Base + r = DoneTo, Due <= r PROVE Base + Due <= DoneTo
        BY <1>3, <4>1, <4>3
      <4> QED BY <2>2, <4>2, <4>3
    <3> QED BY <1>1, <1>2, <3>1 DEF FenceMet
  <2> QED BY <2>3, <2>4 DEF Fences
<1>5. CASE ~ W_Retire
  <2>1. retired' = retired
    BY <1>5 DEF W_Load, W_QuitCheck, W_EpochLoad, W_Spin, W_SpinQuit, W_Park, W_ParkWait,
       W_Unpark, W_DoneUpto, W_Check, W_Wake, W_SpuriousWake, WorkerLooks, SetParked, offsets
  <2>2. Done <= Done' /\ DoneTo <= DoneTo' /\ Done' \in Nat /\ DoneTo' \in Nat
    BY <1>2, <1>3
  <2> QED BY <1>1, <2>1, <2>2, FencesKept
<1> QED BY <1>4, <1>5

\* The CPU thread's. The wait at the end of a tick ends when its last fence is retired.
LEMMA CpuFences ==
    ASSUME PipeInv,
           \/ C_Wait \/ C_WaitSet \/ C_WaitCall \/ C_WaitUnset \/ C_LoopEnd \/ C_Bump
           \/ C_CheckParked \/ C_Wake \/ C_Consume \/ C_EnterSync \/ C_SyncEnd \/ C_Peek
           \/ C_Quit \/ C_QuitBump \/ C_QuitWake \/ C_Join \/ C_WaitTimeout
           \/ C_PeekDrain \/ C_ShutdownDrain \/ \E n \in 0..Budget : C_Tick(n)
    PROVE  Fences'
<1>0. /\ NumberTypes /\ BooleanTypes /\ PlaceTypes /\ WaitRight /\ ModesRight /\ NeverFails
      /\ FenceOff /\ Fences
  BY Numbers DEF Fences
<1>1. /\ Base' = Base /\ Committed' = Committed /\ (Piped' => Piped)
      /\ UNCHANGED <<stream, decoded>>
  BY CpuQuiet DEF Quiet
<1>2. Done' = Done /\ DoneTo' = DoneTo
  BY <1>1 DEF Done, DoneTo
<1>3. /\ Done \in 0..Len(stream) /\ DoneTo \in Nat /\ Base \in Int /\ stream \in Streams
      /\ Len(stream) \in Nat
  BY <1>0, Numbers, Positions DEF PipeInv, PlaceTypes
<1>4. retired' = retired
  BY DEF C_Wait, C_WaitSet, C_WaitCall, C_WaitUnset, C_LoopEnd, C_Bump, C_CheckParked, C_Wake,
     C_Consume, C_EnterSync, C_SyncEnd, C_Peek, C_Quit, C_QuitBump, C_QuitWake, C_Join,
     C_WaitTimeout, C_PeekDrain, C_ShutdownDrain, C_Tick, CpuOnly, SetWaiting, BumpEpoch,
     WakeWorker, offsets
<1>5. ASSUME Piped' => Due' = Due PROVE Fences'
  <2>1. Done <= Done' /\ DoneTo <= DoneTo' /\ Done' \in Nat /\ DoneTo' \in Nat
    BY <1>2, <1>3
  <2> QED BY <1>1, <1>4, <1>5, <2>1, FencesKept
<1>6. CASE C_Wait
  <2>1. /\ cpc = "wait" /\ wait'.ret = wait.ret /\ wait'.target = wait.target
        /\ \/ Watched >= wait.target /\ cpc' = wait.ret
           \/ cpc' \in {"wait", "waitset"}
        /\ fence' = fence /\ syncmode' = syncmode
    BY <1>0, <1>6 DEF C_Wait, CpuOnly, NeverFails, PlaceTypes, scanner
  <2>2. wait.ret \in {"entersync", "peek", "quit", "fill", "guest", "sync"}
    BY <1>0, <2>1 DEF WaitRight, WaitPcs
  <2>3. CASE cpc' = "guest"
    <3>1. WaitFor("guest") /\ retired >= wait.target /\ Due = wait.target
      BY <1>0, <2>1, <2>3 DEF WaitFor, WaitPcs, WaitRight, Watched, Due
    <3>2. Due' = 0
      BY <1>0, <2>1, <2>3, <3>1 DEF Due, WaitFor, WaitPcs, FenceOff
    <3>3. ASSUME Piped', NEW f \in 1..Len(stream), stream[f].kind = "fence",
                 End(stream, f) <= Committed, f > Done
          PROVE  FALSE
      <4>1. Due # 0 /\ End(stream, f) <= Base + Due
        BY <1>0, <1>1, <3>3 DEF Fences, FenceDue
      <4>2. Due <= retired /\ Due \in Int
        BY <1>0, <3>1 DEF NumberTypes
      <4>3. Base + Due <= DoneTo
        BY <1>0, <1>1, <3>3, <4>1, <4>2 DEF Fences, FenceMet
      <4>4. DoneTo < End(stream, f) /\ End(stream, f) \in Nat
        <5>1. f \in 0..Len(stream) /\ Done < f
          BY <1>3, <3>3
        <5> QED BY <1>3, <5>1, EndsGrow, EndNext DEF DoneTo
      <4> QED BY <1>3, <4>1, <4>2, <4>3, <4>4
    <3>4. FenceDue'
      BY <1>1, <1>2, <3>3 DEF FenceDue
    <3>5. FenceMet'
      BY <3>2 DEF FenceMet
    <3> QED BY <3>4, <3>5 DEF Fences
  <2>4. CASE cpc' # "guest"
    <3>1. Due' = Due
      BY <2>1, <2>2, <2>4 DEF Due, WaitFor, WaitPcs
    <3> QED BY <1>5, <3>1
  <2> QED BY <2>3, <2>4
<1>7. CASE C_LoopEnd
  <2>1. CASE syncmode
    <3>1. ~ Piped'
      BY <1>7, <2>1 DEF C_LoopEnd, Piped, scanner
    <3> QED BY <1>5, <3>1
  <2>2. CASE ~ syncmode
    <3>1. ~ poisoned /\ AfterLoop = "guest"
      BY <1>0, <1>7, <2>2 DEF C_LoopEnd, ModesRight, Leaving, WaitFor, WaitPcs, AfterLoop
    <3>2. Due' = Due
      BY <1>7, <3>1 DEF C_LoopEnd, BeginWait, Wait, Due, WaitFor, WaitPcs
    <3> QED BY <1>5, <3>2
  <2> QED BY <2>1, <2>2
<1>8. CASE C_WaitSet \/ C_WaitCall \/ C_WaitUnset \/ C_WaitTimeout
  <2>1. Due' = Due
    BY <1>8 DEF C_WaitSet, C_WaitCall, C_WaitUnset, C_WaitTimeout, SetWaiting, CpuAt, CpuOnly,
       Due, WaitFor, WaitPcs
  <2> QED BY <1>5, <2>1
<1>9. CASE C_Bump \/ C_CheckParked \/ C_Wake \/ C_Consume
  <2>1. Due' = Due
    BY <1>9 DEF C_Bump, C_CheckParked, C_Wake, C_Consume, WakeWorker, BumpEpoch, CpuAt, CpuOnly,
       Due, WaitFor, WaitPcs
  <2> QED BY <1>5, <2>1
<1>10. CASE C_EnterSync \/ C_SyncEnd \/ C_Peek \/ C_Join
  <2>1. Due' = Due
    BY <1>10 DEF C_EnterSync, C_SyncEnd, C_Peek, C_Join, CpuAt, CpuOnly, Due, WaitFor, WaitPcs
  <2> QED BY <1>5, <2>1
<1>11. CASE C_Quit \/ C_QuitBump \/ C_QuitWake
  <2>1. Due' = Due
    BY <1>11 DEF C_Quit, C_QuitBump, C_QuitWake, WakeWorker, BumpEpoch, CpuAt, Due, WaitFor,
       WaitPcs
  <2> QED BY <1>5, <2>1
<1>12. CASE C_PeekDrain \/ C_ShutdownDrain
  <2>1. Due' = Due
    BY <1>12 DEF C_PeekDrain, C_ShutdownDrain, BeginDrain, BeginWait, Wait, Due, WaitFor, WaitPcs
  <2> QED BY <1>5, <2>1
<1>13. CASE \E n \in 0..Budget : C_Tick(n)
  <2>1. Due' = Due
    BY <1>13 DEF C_Tick, Due, WaitFor, WaitPcs
  <2> QED BY <1>5, <2>1
<1> QED BY <1>6, <1>7, <1>8, <1>9, <1>10, <1>11, <1>12, <1>13

-----------------------------------------------------------------------------
(* The invariant is inductive. *)

\* It holds at first.
LEMMA InitInv == Init => PipeInv
<1> SUFFICES ASSUME Init PROVE PipeInv
  OBVIOUS
<1>1. /\ Chunk \in Nat \ {0} /\ NumSlots \in Nat \ {0} /\ Budget \in Nat
      /\ CarryCap >= MaxSizable - 1 + Chunk /\ MaxSizable \in Nat \ {0}
      /\ BufCap \in Nat /\ CarryCap \in Nat /\ RingCap \in Nat
  BY SlotsRight
<1>2. /\ stream \in Streams /\ taken = 0 /\ produced = 0 /\ retired = 0 /\ doneUpto = 0
      /\ buf = <<>> /\ decoded = <<>> /\ cpc = "guest" /\ wpc = "load" /\ left = 0 /\ fence = 0
      /\ carry = <<>> /\ scanPos = 0 /\ syncmode = FALSE /\ poisoned = FALSE
      /\ wproduced = 0 /\ pulled = 0 /\ epoch = 0 /\ wepoch = 0
      /\ ring = [slot \in 0..(NumSlots - 1) |-> 0]
      /\ wait = [on |-> "retired", target |-> 0, ret |-> "guest", expect |-> 0]
  BY DEF Init, Wait
<1>3. /\ Len(stream) \in Nat /\ 0 \in 0..Len(stream) /\ End(stream, 0) = 0
      /\ SizeOf(stream) \in Nat
  <2>1. Len(stream) \in Nat /\ 0 \in 0..Len(stream) /\ End(stream, 0) = 0
    BY <1>2, EndNext
  <2> QED BY <1>2, <2>1, EndsOrder
<1>4. /\ Done = 0 /\ DoneTo = 0 /\ Fetched = 0 /\ Base = 0 /\ PulledTo = 0
      /\ ~ Filling /\ ~ Publishing /\ Committed = 0 /\ Due = 0
  <2>1. ~ Filling /\ ~ Publishing /\ Due = 0
    BY <1>2 DEF Filling, Publishing, Due, WaitFor, WaitPcs
  <2>2. Fetched = 0
    <3>1. Fetched = Chunk * 0
      BY <1>2 DEF Fetched
    <3> QED BY <1>1, <3>1
  <2>3. Done = 0
    BY <1>2, EmptySeq DEF Done
  <2> QED BY <1>2, <1>3, <2>1, <2>2, <2>3 DEF DoneTo, Base, PulledTo, Committed
<1>5. Segment(0, 0) = <<>>
  <2>1. Len(Segment(0, 0)) = 0 /\ Segment(0, 0) \in Seq(Nat)
    BY SegmentSeq
  <2> QED BY <2>1, EmptySeq
<1>6. ASSUME NEW f \in 1..Len(stream) PROVE End(stream, f) \in Nat /\ 0 < End(stream, f)
  <2>1. f \in 0..Len(stream) /\ 0 < f
    BY <1>3
  <2> QED BY <1>2, <1>3, <2>1, EndNext, EndsGrow
<1>7. Whole(0, 0)
  <2>1. ASSUME 0 < Len(stream) PROVE 0 < End(stream, 1)
    <3>1. 1 \in 1..Len(stream)
      BY <1>3, <2>1
    <3> QED BY <3>1, <1>6
  <2>2. 0 + 1 = 1
    OBVIOUS
  <2> QED BY <1>3, <2>1, <2>2 DEF Whole
<1>8. NumberTypes /\ BooleanTypes /\ PlaceTypes
  <2>1. NumberTypes
    BY <1>1, <1>2 DEF Init, NumberTypes
  <2>2. BooleanTypes
    BY DEF Init, BooleanTypes
  <2>3. PlaceTypes
    BY <1>2 DEF PlaceTypes, CpuPcs, WorkerPcs
  <2> QED BY <2>1, <2>2, <2>3
<1>9. OffsetsOrdered /\ WaitRight /\ ModesRight /\ DrainedIsIdle
  BY <1>2, <1>4 DEF OffsetsOrdered, InHand, WaitRight, WaitFor, WaitPcs, Draining, ModesRight,
     DrainedIsIdle, Drained
<1>10. FlagsRight /\ EpochRight /\ AnswerComes /\ FenceOff /\ NeverFails
  BY <1>2 DEF Init, FlagsRight, EpochRight, AnswerComes, FenceOff, NeverFails
<1>11. LeftRight
  <2>1. (taken + left) * Chunk = 0
    BY <1>1, <1>2
  <2> QED BY <1>3, <1>4, <2>1 DEF LeftRight
<1>12. ChunksRight /\ RoomRight
  <2>1. InChunks(0)
    <3>1. 0 \in 0..0 /\ 0 = 0 * Chunk
      BY <1>1
    <3> QED BY <3>1 DEF InChunks
  <2> QED BY <1>2, <2>1 DEF ChunksRight, RoomRight
<1>13. RingRight
  <2>1. \A m \in 0..0 : ~(m * Chunk < 0)
    BY <1>1
  <2>2. ring \in [0..(NumSlots - 1) -> Nat]
    BY <1>2
  <2> QED BY <1>2, <2>1, <2>2 DEF RingRight
<1>14. DecodedRight /\ BufRight /\ BufDry
  <2>1. decoded \in Seq(Nat) /\ Len(buf) = 0
    BY <1>2, EmptySeq
  <2>2. DecodedRight
    BY <1>3, <1>4, <2>1 DEF DecodedRight
  <2>3. BufRight
    BY <1>1, <1>2, <1>4, <1>5, <2>1 DEF BufRight
  <2>4. BufDry
    BY <1>4, <1>7 DEF BufDry
  <2> QED BY <2>2, <2>3, <2>4
<1>15. CarryTypes /\ CarryRight
  <2>1. carry \in Seq(1..SizeOf(stream)) /\ Len(carry) = 0
    BY <1>2, EmptySeq
  <2>2. CarryTypes
    BY <1>1, <1>2, <2>1 DEF CarryTypes
  <2>3. 0 + Chunk <= CarryCap
    BY <1>1
  <2>4. Base + scanPos = 0
    BY <1>2, <1>4
  <2>5. CarryRight
    BY <1>2, <1>3, <1>4, <1>5, <1>7, <2>1, <2>3, <2>4 DEF CarryRight
  <2> QED BY <2>2, <2>5
<1>16. SizableOnly /\ Fences
  <2>1. SizableOnly
    BY <1>2, <1>4 DEF SizableOnly
  <2>2. \A f \in 1..Len(stream) : ~(End(stream, f) <= 0)
    BY <1>6
  <2>3. FenceDue /\ FenceMet
    BY <1>4, <2>2 DEF FenceDue, FenceMet
  <2> QED BY <2>1, <2>3 DEF Fences
<1> QED BY <1>8, <1>9, <1>10, <1>11, <1>12, <1>13, <1>14, <1>15, <1>16 DEF PipeInv, Control, Data

\* And every step keeps it.
LEMMA StepInv == PipeInv /\ [Next]_vars => PipeInv'
<1> SUFFICES ASSUME PipeInv, [Next]_vars PROVE PipeInv'
  OBVIOUS
<1>1. LeftRight'
  BY LeftKept
<1>2. CASE W_Load \/ W_QuitCheck \/ W_EpochLoad \/ W_Spin \/ W_SpinQuit \/ W_Park
           \/ W_ParkWait \/ W_Unpark \/ W_Retire \/ W_DoneUpto \/ W_Check \/ W_Wake
           \/ W_SpuriousWake
  <2>1. WorkerStep \/ W_SpuriousWake
    BY <1>2 DEF WorkerStep
  <2>2. Control' /\ Data' /\ Fences'
    BY <1>2, <2>1, WorkerControl, WorkerQuiet, QuietKeeps, WorkerFences
  <2> QED BY <1>1, <2>2 DEF PipeInv
<1>3. CASE W_Pull \/ W_Decode \/ W_RunEnd
  <2>1. WorkerStep
    BY <1>3 DEF WorkerStep
  <2>2. Control' /\ Data' /\ Fences'
    BY <1>3, <2>1, WorkerControl, PullKeeps, DecodeKeeps, RunEndKeeps
  <2> QED BY <1>1, <2>2 DEF PipeInv
<1>4. CASE C_Wait \/ C_WaitSet \/ C_WaitCall \/ C_WaitUnset \/ C_LoopEnd \/ C_Bump
           \/ C_CheckParked \/ C_Wake \/ C_Consume \/ C_EnterSync \/ C_SyncEnd \/ C_Peek
           \/ C_Quit \/ C_QuitBump \/ C_QuitWake \/ C_Join \/ C_WaitTimeout
           \/ C_PeekDrain \/ C_ShutdownDrain \/ \E n \in 0..Budget : C_Tick(n)
  <2>1. CpuStep \/ GuestStep \/ C_WaitTimeout
    BY <1>4 DEF CpuStep, GuestStep
  <2>2. Control' /\ Data' /\ Fences'
    BY <1>4, <2>1, CpuControl, CpuQuiet, QuietKeeps, CpuFences
  <2> QED BY <1>1, <2>2 DEF PipeInv
<1>5. CASE \/ C_Scan \/ C_Fill \/ C_Publish \/ C_SyncFetch \/ C_SyncDecode \/ C_SyncRunEnd
           \/ C_Resume
  <2>1. CpuStep
    BY <1>5 DEF CpuStep
  <2>2. Control' /\ Data' /\ Fences'
    BY <1>5, <2>1, CpuControl, ScanKeeps, FillKeeps, PublishKeeps, SyncFetchKeeps, DecodeKeeps,
       RunEndKeeps, ResumeKeeps
  <2> QED BY <1>1, <2>2 DEF PipeInv
<1>6. CASE UNCHANGED vars
  <2>1. /\ UNCHANGED <<stream, taken, unsafe, produced, retired, doneUpto, parked, waiting, epoch,
                       quit, failed, ring, buf, decoded, cpc, left, fence, wait, seen>>
        /\ UNCHANGED <<carry, scanPos, poisoned, syncmode, wpc, wproduced, wepoch, pulled>>
    BY <1>6 DEF vars, fifo, offsets, flags, gx, cpu, scanner, worker
  <2>2. Control'
    <3>1. NumberTypes' /\ BooleanTypes' /\ PlaceTypes' /\ OffsetsOrdered'
      BY <2>1, Numbers DEF NumberTypes, BooleanTypes, PlaceTypes, OffsetsOrdered, InHand
    <3>2. WaitRight' /\ ModesRight' /\ DrainedIsIdle' /\ FlagsRight'
      BY <2>1, Numbers DEF WaitRight, WaitFor, WaitPcs, Draining, ModesRight, Filling, Publishing,
         Leaving, DrainedIsIdle, Drained, FlagsRight
    <3>3. EpochRight' /\ AnswerComes' /\ FenceOff' /\ NeverFails'
      BY <2>1, Numbers DEF EpochRight, AnswerComes, Watched, FenceOff, WaitFor, WaitPcs,
         NeverFails
    <3> QED BY <3>1, <3>2, <3>3 DEF Control
  <2>3. Fetched' = Fetched /\ (Filling' <=> Filling) /\ (Piped' <=> Piped) /\ Due' = Due
    BY <2>1 DEF Fetched, Filling, Piped, Leaving, WaitFor, WaitPcs, Due
  <2>4. Quiet
    BY <2>1, <2>3, Numbers DEF Quiet, Committed, RoomRight
  <2>5. Fences'
    <3>1. Done' = Done /\ DoneTo' = DoneTo /\ Base' = Base
      BY <2>1, <2>3 DEF Done, DoneTo, Base
    <3>2. Done \in Nat /\ DoneTo \in Nat
      BY Numbers, Positions DEF PipeInv
    <3>3. Done <= Done' /\ DoneTo <= DoneTo' /\ Done' \in Nat /\ DoneTo' \in Nat
      BY <3>1, <3>2
    <3> QED BY <2>1, <2>3, <2>4, <3>1, <3>3, FencesKept DEF Quiet
  <2> QED BY <1>1, <2>2, <2>4, <2>5, QuietKeeps DEF PipeInv
<1> QED BY <1>2, <1>3, <1>4, <1>5, <1>6 DEF Next, WorkerStep, CpuStep, GuestStep

\* PipeInv is an invariant.
THEOREM InductiveInvariant == Spec => []PipeInv
BY InitInv, StepInv, PTL DEF Spec

-----------------------------------------------------------------------------
(* What follows from it. *)

\* The variables have their types, and every cell and chunk is within the stream.
THEOREM Typing == Spec => []TypeOK
<1>1. PipeInv => TypeOK
  <2> SUFFICES ASSUME PipeInv PROVE TypeOK
    OBVIOUS
  <2>1. /\ NumberTypes /\ BooleanTypes /\ PlaceTypes
        /\ RingRight /\ DecodedRight /\ BufRight /\ CarryTypes
    BY Numbers
  <2>2. taken * Chunk <= SizeOf(stream)
    <3>1. /\ Fetched \in Nat /\ Committed \in Nat /\ SizeOf(stream) \in Nat
          /\ taken * Chunk \in Nat
          /\ Fetched <= Committed /\ Committed <= SizeOf(stream)
          /\ Fetched = IF Publishing THEN taken * Chunk + Chunk ELSE taken * Chunk
      BY Numbers, Positions DEF PipeInv
    <3>2. Chunk \in Nat
      BY SlotsRight
    <3> QED BY <3>1, <3>2
  <2>3. Range(buf) \subseteq 1..SizeOf(stream)
    <3>1. /\ DoneTo \in Nat /\ PulledTo \in Nat /\ PulledTo <= Fetched /\ Fetched \in Nat
          /\ Committed \in Nat /\ SizeOf(stream) \in Nat
          /\ Fetched <= Committed /\ Committed <= SizeOf(stream)
      BY Numbers, Positions DEF PipeInv
    <3>2. buf \in Seq((DoneTo + 1)..PulledTo)
      BY <2>1, <3>1, SegmentSeq DEF BufRight
    <3>3. \A j \in DOMAIN buf : buf[j] \in (DoneTo + 1)..PulledTo
      BY <3>2, ElementOfSeq, LenProperties
    <3>4. (DoneTo + 1)..PulledTo \subseteq 1..SizeOf(stream)
      BY <3>1
    <3> QED BY <3>3, <3>4 DEF Range
  <2>4. Range(carry) \subseteq 1..SizeOf(stream)
    <3>1. \A j \in DOMAIN carry : carry[j] \in 1..SizeOf(stream)
      BY <2>1, ElementOfSeq, LenProperties DEF CarryTypes
    <3> QED BY <3>1 DEF Range
  <2>5. /\ stream \in Streams /\ taken \in Nat /\ unsafe \in BOOLEAN
        /\ produced \in Nat /\ retired \in Int /\ doneUpto \in Nat
        /\ parked \in BOOLEAN /\ waiting \in BOOLEAN /\ epoch \in Nat
        /\ quit \in BOOLEAN /\ failed \in BOOLEAN
        /\ ring \in [0..(NumSlots - 1) -> Nat]
    BY <2>1 DEF NumberTypes, BooleanTypes, PlaceTypes, RingRight
  <2>6. /\ Len(buf) <= BufCap /\ Len(carry) <= CarryCap
        /\ decoded \in Seq(Nat) /\ seen \in Nat
        /\ cpc \in CpuPcs /\ left \in 0..Budget /\ fence \in Nat
        /\ wait.on \in {"retired", "done"} /\ wait.target \in Int /\ wait.ret \in CpuPcs
        /\ scanPos \in Int /\ poisoned \in BOOLEAN /\ syncmode \in BOOLEAN
        /\ wpc \in WorkerPcs /\ wproduced \in Nat /\ wepoch \in Nat /\ pulled \in Nat
    BY <2>1 DEF NumberTypes, BooleanTypes, PlaceTypes, BufRight, CarryTypes, DecodedRight
  <2> QED BY <2>2, <2>3, <2>4, <2>5, <2>6 DEF TypeOK
<1> QED BY <1>1, InductiveInvariant, PTL

\* The CPU thread is at the staging buffer and the GX state only when the worker has
\* drained the ring and nothing was pushed since, and then the worker has nothing in hand.
THEOREM Exclusion == Spec => []GxExclusive
<1>1. PipeInv => GxExclusive
  <2> SUFFICES ASSUME PipeInv, wpc \in {"pull", "run", "retire"},
                      cpc \in {"sync", "syncrun", "resume", "peek"}
               PROVE  FALSE
    BY DEF GxExclusive
  <2>1. syncmode \/ Drained
    BY Numbers DEF ModesRight, Drained
  <2>2. doneUpto = produced
    BY <2>1, Numbers DEF DrainedIsIdle
  <2> QED BY <2>2, Numbers DEF OffsetsOrdered, InHand, NumberTypes
<1> QED BY <1>1, InductiveInvariant, PTL

\* The carry and the staging buffer are the same stretch of the stream, from the end of the
\* last whole command, once the worker has pulled everything and decoded what it could.
THEOREM Agreement == Spec => []ScannerAgrees
<1>1. PipeInv => ScannerAgrees
  <2> SUFFICES ASSUME PipeInv, cpc \in {"guest", "scan"}, ~ syncmode, pulled = produced,
                      wpc \notin {"pull", "run"}
               PROVE  carry = buf /\ scanPos = produced - Len(buf)
    BY DEF ScannerAgrees
  <2>1. Piped /\ ~ Filling
    BY DEF Piped, Leaving, Filling, WaitFor, WaitPcs
  <2>2. /\ Committed = Fetched /\ PulledTo = Fetched
        /\ Fetched \in Nat /\ Base \in Int /\ Done \in 0..Len(stream) /\ DoneTo \in Nat
        /\ Base = Fetched - produced /\ produced \in Nat /\ scanPos \in Int /\ stream \in Streams
    <3>1. /\ Fetched = PulledTo + (produced - pulled) /\ PulledTo \in Nat /\ Base \in Int
          /\ Done \in 0..Len(stream) /\ DoneTo \in Nat /\ Fetched \in Nat
      BY Numbers, Positions DEF PipeInv
    <3>2. produced \in Nat /\ scanPos \in Int /\ stream \in Streams
      BY Numbers DEF NumberTypes, CarryTypes, PlaceTypes
    <3>3. PulledTo = Fetched
      BY <3>1, <3>2
    <3> QED BY <2>1, <3>1, <3>2, <3>3 DEF Committed, Base
  <2>3. Whole(Done, Fetched)
    BY <2>2, Numbers DEF BufDry
  <2>4. PICK i \in 0..Len(stream) : End(stream, i) = Base + scanPos /\ Whole(i, Fetched)
    BY <2>1, <2>2, Numbers DEF CarryRight
  <2>5. i = Done
    BY <2>2, <2>3, <2>4, WholeUnique
  <2>6. Base + scanPos = DoneTo
    BY <2>4, <2>5 DEF DoneTo
  <2>7. carry = Segment(DoneTo, Fetched) /\ buf = Segment(DoneTo, Fetched) /\ DoneTo <= Fetched
    BY <2>1, <2>2, <2>6, Numbers DEF CarryRight, BufRight
  <2>8. Len(buf) = Fetched - DoneTo
    BY <2>2, <2>7, SegmentSeq
  <2> QED BY <2>2, <2>6, <2>7, <2>8
<1> QED BY <1>1, InductiveInvariant, PTL

\* The carry never overflows with the resume gate the code has: what is left of a chunk
\* with no primitive, and what the gate lets through, leave room for the next chunk. Nor
\* does the worker ever lack room: what it is left with is less than a command.
THEOREM Unpoisoned == Spec => []NeverPoisoned
<1> DEFINE Inv == PipeInv /\ (poisoned => unsafe)
<1>1. Init => Inv
  BY InitInv DEF Init
<1>2. PipeInv /\ (poisoned => unsafe) /\ [Next]_vars => (poisoned => unsafe)'
  <2> SUFFICES ASSUME PipeInv, poisoned => unsafe, [Next]_vars PROVE (poisoned => unsafe)'
    OBVIOUS
  <2>1. CASE C_Scan
    <3> DEFINE cells == carry \o ChunkCells(taken + 1)
    <3>1. cpc = "scan" /\ ~ syncmode /\ ~ poisoned /\ unsafe' = unsafe
      BY <2>1 DEF C_Scan, fifo
    <3>2. Piped
      BY <3>1 DEF Piped, Leaving, WaitFor, WaitPcs
    <3>3. unsafe \/ Len(carry) + Chunk <= CarryCap
      BY <3>2, Numbers DEF CarryRight
    <3>4. Len(cells) = Len(carry) + Chunk
      <4>1. taken \in Nat /\ taken * Chunk \in Nat /\ Chunk \in Nat
        BY Numbers, SlotsRight DEF NumberTypes
      <4>2. ChunkCells(taken + 1) = Segment(taken * Chunk, taken * Chunk + Chunk)
        BY <4>1, ChunkSegment
      <4>3. /\ taken * Chunk + Chunk \in Nat /\ taken * Chunk <= taken * Chunk + Chunk
            /\ (taken * Chunk + Chunk) - taken * Chunk = Chunk
        BY <4>1
      <4>4. ChunkCells(taken + 1) \in Seq(Nat) /\ Len(ChunkCells(taken + 1)) = Chunk
        BY <4>1, <4>2, <4>3, SegmentSeq
      <4>5. carry \in Seq(Nat)
        <5>1. carry \in Seq(1..SizeOf(stream)) /\ 1..SizeOf(stream) \subseteq Nat
          BY Numbers DEF CarryTypes
        <5> QED BY <5>1, SeqMonotonic
      <4> QED BY <4>4, <4>5, ConcatProperties
    <3>5. Len(cells) > CarryCap => unsafe
      <4> HIDE DEF cells
      <4>1. Len(carry) \in Nat /\ Chunk \in Nat /\ CarryCap \in Nat
        BY Numbers, SlotsRight, LenProperties DEF CarryTypes
      <4> QED BY <3>3, <3>4, <4>1
    <3>6. ~(Len(cells) > CarryCap) => poisoned' = poisoned
      BY <2>1 DEF C_Scan
    <3> QED BY <3>1, <3>5, <3>6
  <2>2. CASE WorkerStep \/ W_SpuriousWake
    <3>1. UNCHANGED <<poisoned, unsafe>>
      BY <2>2 DEF WorkerStep, W_Load, W_QuitCheck, W_EpochLoad, W_Spin, W_SpinQuit, W_Park,
         W_ParkWait, W_Unpark, W_Pull, W_Decode, W_RunEnd, W_Retire, W_DoneUpto, W_Check, W_Wake,
         W_SpuriousWake, WorkerLooks, SetParked, fifo, scanner
    <3> QED BY <3>1
  <2>3. CASE GuestStep \/ (CpuStep /\ ~ C_Scan) \/ C_WaitTimeout
    <3>1. UNCHANGED <<poisoned, unsafe>>
      BY <2>3 DEF GuestStep, CpuStep, C_Wait, C_WaitSet, C_WaitCall, C_WaitUnset, C_LoopEnd,
         C_Fill, C_Publish, C_Bump, C_CheckParked, C_Wake, C_Consume, C_EnterSync, C_SyncFetch,
         C_SyncDecode, C_SyncRunEnd, C_SyncEnd, C_Resume, C_Peek, C_Quit, C_QuitBump, C_QuitWake,
         C_Join, C_WaitTimeout, C_Tick, C_PeekDrain, C_ShutdownDrain, CpuOnly, SetWaiting,
         BumpEpoch, WakeWorker, fifo, scanner
    <3> QED BY <3>1
  <2>4. CASE UNCHANGED vars
    BY <2>4 DEF vars, fifo, scanner
  <2> QED BY <2>1, <2>2, <2>3, <2>4 DEF Next
<1>3. Inv => NeverPoisoned
  BY Numbers DEF NeverPoisoned, NeverFails
<1>4. Inv /\ [Next]_vars => Inv'
  BY <1>2, StepInv
<1> HIDE DEF Inv
<1> QED BY <1>1, <1>3, <1>4, PTL DEF Spec

\* A side sleeps only on an epoch or a count that is still the one it saw, and whoever
\* changes it looks at the flag afterwards.
THEOREM Wakes == Spec => []NoMissedWake
<1>1. PipeInv => NoMissedWake
  <2> SUFFICES ASSUME PipeInv PROVE NoMissedWake
    OBVIOUS
  <2>1. EpochRight /\ AnswerComes
    BY Numbers
  <2>2. wpc = "asleep" /\ (produced # pulled \/ quit) =>
            cpc \in {"bump", "checkparked", "wake", "quitbump", "quitwake"}
    BY <2>1 DEF EpochRight
  <2> QED BY <2>1, <2>2 DEF AnswerComes, NoMissedWake
<1> QED BY <1>1, InductiveInvariant, PTL

-----------------------------------------------------------------------------
(* The refinement. *)

\* The commands the first cells hold whole are counted as WholeIn counts them.
LEMMA WholeCount ==
    ASSUME stream \in Streams, NEW n \in Nat, NEW i \in 0..Len(stream), Whole(i, n)
    PROVE  /\ WholeIn(stream, n) = i
           /\ \A j \in 0..Len(stream) : End(stream, j) <= n => j <= i
<1>1. Len(stream) \in Nat /\ \A j \in 0..Len(stream) : End(stream, j) \in Nat
  BY EndNext
<1>2. ASSUME NEW j \in 0..Len(stream), End(stream, j) <= n PROVE j <= i
  <2>1. CASE i < j
    <3>1. i + 1 \in 0..Len(stream) /\ i + 1 <= j /\ i < Len(stream)
      BY <1>1, <2>1
    <3>2. End(stream, i + 1) <= End(stream, j)
      BY <3>1, EndsOrder
    <3>3. n < End(stream, i + 1) /\ End(stream, i + 1) \in Nat /\ End(stream, j) \in Nat
      BY <1>1, <3>1 DEF Whole
    <3> QED BY <1>2, <3>2, <3>3
  <2> QED BY <1>1, <2>1
<1>3. WholeIn(stream, n) = i
  <2> DEFINE S == {k \in 0..Len(stream) : End(stream, k) <= n}
  <2>1. i \in S /\ \A k \in S : i >= k
    BY <1>2 DEF Whole
  <2>2. S \subseteq Int
    OBVIOUS
  <2> HIDE DEF S
  <2>3. Max(S) \in S /\ \A k \in S : Max(S) >= k
    BY <2>1 DEF Max
  <2>4. Max(S) = i
    <3>1. Max(S) >= i /\ i >= Max(S) /\ Max(S) \in Int /\ i \in Int
      BY <2>1, <2>2, <2>3
    <3> QED BY <3>1
  <2> QED BY <2>4 DEF WholeIn, S
<1> QED BY <1>2, <1>3

\* The first cells of the stream hold some number of commands.
LEMMA WholeSome ==
    ASSUME stream \in Streams, NEW n \in Nat
    PROVE  \E i \in 0..Len(stream) : Whole(i, n)
<1> DEFINE T == {j \in 0..Len(stream) : n < End(stream, j)}
<1>1. /\ Len(stream) \in Nat /\ End(stream, 0) = 0
      /\ \A j \in 0..Len(stream) : End(stream, j) \in Nat
  BY EndNext
<1>2. CASE T = {}
  <2>1. Len(stream) \in 0..Len(stream) /\ ~(n < End(stream, Len(stream)))
    BY <1>1, <1>2
  <2>2. End(stream, Len(stream)) <= n
    BY <1>1, <2>1
  <2>3. Whole(Len(stream), n)
    BY <1>1, <2>2 DEF Whole
  <2> QED BY <2>1, <2>3
<1>3. CASE T # {}
  <2>1. T \in SUBSET Nat
    BY <1>1
  <2> HIDE DEF T
  <2>2. PICK m \in T : \A k \in T : m <= k
    BY <1>3, <2>1, LeastOf
  <2>3. m \in 0..Len(stream) /\ n < End(stream, m)
    BY <2>2 DEF T
  <2>4. m # 0
    BY <1>1, <2>3
  <2>5. m - 1 \in 0..Len(stream) /\ m - 1 < Len(stream) /\ (m - 1) + 1 = m /\ ~(m <= m - 1)
    BY <1>1, <2>3, <2>4
  <2>6. End(stream, m - 1) <= n
    <3>1. ~(m - 1 \in T)
      BY <2>2, <2>5
    <3>2. ~(n < End(stream, m - 1)) /\ End(stream, m - 1) \in Nat
      BY <1>1, <2>5, <3>1 DEF T
    <3> QED BY <3>2
  <2>7. Whole(m - 1, n)
    BY <2>3, <2>5, <2>6 DEF Whole
  <2> QED BY <2>5, <2>7
<1> QED BY <1>2, <1>3

\* What the guest sees moves when the fetch position, the commands decoded, being in a
\* tick or the last peek do.
LEMMA Unseen ==
    ASSUME UNCHANGED <<stream, decoded, seen>>, Fetched' = Fetched, Ticking' <=> Ticking
    PROVE  UNCHANGED Consumer!vars
<1>1. Ticking \in BOOLEAN /\ Ticking' \in BOOLEAN
  BY DEF Ticking
<1>2. Ticking' = Ticking
  BY <1>1
<1> QED BY <1>2 DEF Consumer!vars

\* A tick may end when no fence fetched is left to decode.
LEMMA TickEnds ==
    ASSUME UNCHANGED <<stream, decoded, seen>>, Fetched' = Fetched, Ticking, ~ Ticking',
           \A f \in 1..Len(stream) :
               stream[f].kind = "fence" /\ End(stream, f) <= Fetched => f <= Done,
           stream \in Streams
    PROVE  Consumer!TickEnd
<1>1. Ticking' \in BOOLEAN
  BY DEF Ticking
<1>2. Ticking' = FALSE
  BY <1>1
<1>3. DOMAIN stream = 1..Len(stream)
  BY EndNext
<1>4. \A i \in DOMAIN stream :
          stream[i].kind = "fence" /\ Consumer!End(stream, i) <= Fetched => i <= Len(decoded)
  BY <1>3 DEF Done, Consumer!End, Consumer!Ends, End, Ends
<1> QED BY <1>2, <1>4 DEF Consumer!TickEnd

\* No fence is left to decode once the last one is retired.
LEMMA FencesDecoded ==
    ASSUME PipeInv, Piped, ~ Filling, Due = 0 \/ Due <= retired
    PROVE  \A f \in 1..Len(stream) :
               stream[f].kind = "fence" /\ End(stream, f) <= Fetched => f <= Done
<1>1. /\ Done \in 0..Len(stream) /\ DoneTo \in Nat /\ Base \in Int /\ stream \in Streams
      /\ Len(stream) \in Nat /\ Committed = Fetched /\ Due \in Int
  <2>1. /\ Done \in 0..Len(stream) /\ DoneTo \in Nat /\ Base \in Int /\ Len(stream) \in Nat
    BY Numbers, Positions DEF PipeInv
  <2> QED BY <2>1, Numbers DEF PlaceTypes, NumberTypes, Committed, Due
<1>2. ASSUME NEW f \in 1..Len(stream), stream[f].kind = "fence", End(stream, f) <= Fetched,
             f > Done
      PROVE  FALSE
  <2>1. Due # 0 /\ End(stream, f) <= Base + Due
    BY <1>1, <1>2, Numbers DEF FenceDue
  <2>2. Base + Due <= DoneTo
    BY <2>1, Numbers DEF FenceMet
  <2>3. f \in 0..Len(stream) /\ Done < f
    BY <1>1, <1>2
  <2>4. DoneTo < End(stream, f) /\ End(stream, f) \in Nat
    BY <1>1, <2>3, EndsGrow, EndNext DEF DoneTo
  <2> QED BY <1>1, <2>1, <2>2, <2>4
<1>3. ASSUME NEW f \in 1..Len(stream), stream[f].kind = "fence", End(stream, f) <= Fetched
      PROVE  f <= Done
  <2>1. ~(f > Done) /\ f \in Nat /\ Done \in Nat
    BY <1>1, <1>2, <1>3
  <2> QED BY <2>1
<1> QED BY <1>3

\* A command is decoded when it is all there: it is fetched whole.
LEMMA DecodeMaps ==
    ASSUME PipeInv, CanDecode, Decode
    PROVE  decoded' = Append(decoded, Done + 1) /\ Done < WholeIn(stream, Fetched)
<1>1. /\ stream \in Streams /\ PulledTo \in Nat /\ PulledTo <= SizeOf(stream)
      /\ PulledTo <= Fetched /\ Fetched \in Nat /\ Len(stream) \in Nat
  <2>1. /\ PulledTo \in Nat /\ PulledTo <= Fetched /\ Fetched <= Committed
        /\ Committed <= SizeOf(stream) /\ Fetched \in Nat /\ Committed \in Nat
        /\ SizeOf(stream) \in Nat /\ Len(stream) \in Nat
    BY Numbers, Positions DEF PipeInv
  <2> QED BY <2>1, Numbers DEF PlaceTypes
<1>2. /\ decoded' = Append(decoded, Done + 1) /\ Done + 1 \in 1..Len(stream)
      /\ End(stream, Done + 1) \in Nat /\ End(stream, Done + 1) <= PulledTo
  BY <1>1, Numbers, DecodeRight DEF BufRight
<1>3. PICK i \in 0..Len(stream) : Whole(i, Fetched)
  BY <1>1, WholeSome
<1>4. Done + 1 \in 0..Len(stream) /\ End(stream, Done + 1) <= Fetched
  BY <1>1, <1>2
<1>5. WholeIn(stream, Fetched) = i /\ Done + 1 <= i
  BY <1>1, <1>3, <1>4, WholeCount
<1>6. Done \in Nat
  BY Numbers, Positions DEF PipeInv
<1> QED BY <1>2, <1>5, <1>6

\* Such a step is the consumer's.
LEMMA DecodeStep ==
    ASSUME decoded' = Append(decoded, Done + 1), Done < WholeIn(stream, Fetched),
           UNCHANGED <<stream, seen>>, Fetched' = Fetched, Ticking' <=> Ticking
    PROVE  Consumer!Decode
<1>1. Ticking \in BOOLEAN /\ Ticking' \in BOOLEAN
  BY DEF Ticking
<1>2. Ticking' = Ticking
  BY <1>1
<1>3. Consumer!WholeIn(stream, Fetched) = WholeIn(stream, Fetched)
  BY DEF Consumer!WholeIn, Consumer!Max, Max, Consumer!End, Consumer!Ends, WholeIn, End, Ends
<1> QED BY <1>2, <1>3 DEF Consumer!Decode, Done

\* The worker's steps are the consumer's: a command decoded is one fetched whole.
LEMMA WorkerMaps ==
    ASSUME PipeInv, WorkerStep \/ W_SpuriousWake
    PROVE  Consumer!Decode \/ UNCHANGED Consumer!vars
<1>1. /\ UNCHANGED <<taken, produced, fence, wait, syncmode, stream, seen>>
      /\ cpc' = cpc \/ (cpc = "asleep" /\ cpc' = "waitunset")
  <2>1. CASE W_Load \/ W_QuitCheck \/ W_EpochLoad \/ W_Spin \/ W_SpinQuit
    BY <2>1 DEF W_Load, W_QuitCheck, W_EpochLoad, W_Spin, W_SpinQuit, WorkerAt, WorkerLooks, fifo,
       offsets, flags, gx, cpu, scanner
  <2>2. CASE W_Park \/ W_ParkWait \/ W_Unpark \/ W_SpuriousWake \/ W_Check
    BY <2>2 DEF W_Park, W_ParkWait, W_Unpark, W_SpuriousWake, W_Check, SetParked, WorkerAt,
       WorkerLooks, fifo, offsets, flags, gx, cpu, scanner
  <2>3. CASE W_Retire \/ W_DoneUpto \/ W_Wake
    BY <2>3 DEF W_Retire, W_DoneUpto, W_Wake, WakeCpu, WorkerAt, fifo, offsets, flags, gx, cpu,
       scanner
  <2>4. CASE W_Pull \/ W_Decode \/ W_RunEnd
    BY <2>4 DEF W_Pull, W_Decode, W_RunEnd, WakeCpu, WorkerAt, WorkerLooks, fifo, offsets, flags,
       gx, cpu, scanner, worker
  <2> QED BY <2>1, <2>2, <2>3, <2>4 DEF WorkerStep
<1>2. Fetched' = Fetched
  BY <1>1, WorkerFrame
<1>3. Ticking' <=> Ticking
  BY <1>1 DEF Ticking, WaitPcs
<1>4. CASE W_Decode
  <2>1. decoded' = Append(decoded, Done + 1) /\ Done < WholeIn(stream, Fetched)
    BY <1>4, DecodeMaps DEF W_Decode
  <2> QED BY <1>1, <1>2, <1>3, <2>1, DecodeStep
<1>5. CASE ~ W_Decode
  <2>1. decoded' = decoded
    BY <1>5 DEF WorkerStep, W_Load, W_QuitCheck, W_EpochLoad, W_Spin, W_SpinQuit, W_Park,
       W_ParkWait, W_Unpark, W_Pull, W_Decode, W_RunEnd, W_Retire, W_DoneUpto, W_Check, W_Wake,
       W_SpuriousWake, WorkerLooks, SetParked, gx
  <2> QED BY <1>1, <1>2, <1>3, <2>1, Unseen
<1> QED BY <1>4, <1>5

\* A chunk is fetched within a tick, and it is in the FIFO.
LEMMA FetchMaps ==
    ASSUME PipeInv, C_Publish \/ C_SyncFetch
    PROVE  Consumer!Fetch
<1>1. /\ \/ cpc = "publish" /\ cpc' = "bump" /\ taken' = taken
         \/ cpc = "sync" /\ cpc' = "syncrun" /\ taken' = taken + 1 /\ left > 0
      /\ UNCHANGED <<stream, decoded, seen>>
  BY DEF C_Publish, C_SyncFetch, CpuAt, fifo, gx
<1>2. Ticking /\ Ticking'
  BY <1>1 DEF Ticking
<1>3. /\ taken * Chunk \in Nat /\ taken \in Nat /\ Chunk \in Nat
      /\ ~ Publishing /\ Fetched = taken * Chunk /\ taken * Chunk + Chunk <= SizeOf(stream)
  <2>1. ~ Publishing /\ left > 0
    <3>1. CASE cpc = "publish"
      BY <3>1, Numbers DEF Publishing, LeftRight, Filling
    <3>2. CASE cpc = "sync"
      BY <1>1, <3>2 DEF Publishing
    <3> QED BY <1>1, <3>1, <3>2
  <2>2. /\ taken * Chunk \in Nat
        /\ Fetched = IF Publishing THEN taken * Chunk + Chunk ELSE taken * Chunk
        /\ left > 0 => taken * Chunk + Chunk <= SizeOf(stream)
    BY Numbers, Positions DEF PipeInv
  <2> QED BY <2>1, <2>2, Numbers, SlotsRight DEF NumberTypes
<1>4. Fetched' = Fetched + Chunk
  <2>1. Fetched' = Chunk * (taken + 1)
    BY <1>1 DEF Fetched
  <2>2. Chunk * (taken + 1) = taken * Chunk + Chunk
    BY <1>3
  <2> QED BY <1>3, <2>1, <2>2
<1>5. Ticking = TRUE /\ Ticking' = TRUE
  <2>1. Ticking \in BOOLEAN /\ Ticking' \in BOOLEAN
    BY DEF Ticking
  <2> QED BY <1>2, <2>1
<1>6. Consumer!SizeOf(stream) = SizeOf(stream)
  BY DEF Consumer!SizeOf, Consumer!End, Consumer!Ends, SizeOf, End, Ends
<1>7. Fetched + Chunk <= Consumer!SizeOf(stream)
  BY <1>3, <1>6
<1> QED BY <1>1, <1>4, <1>5, <1>7 DEF Consumer!Fetch

\* Nothing is pending where the worker is drained: every command fetched whole is decoded.
LEMMA DrainedWhole ==
    ASSUME PipeInv, syncmode \/ Drained, cpc # "syncrun", ~ Publishing
    PROVE  Whole(Done, Fetched) /\ Fetched \in Nat /\ Done \in 0..Len(stream)
<1>1. doneUpto = produced
  BY Numbers DEF DrainedIsIdle
<1>2. pulled = produced /\ ~ InHand
  BY <1>1, Numbers DEF OffsetsOrdered, NumberTypes
<1>3. Whole(Done, PulledTo)
  BY <1>2, Numbers DEF BufDry, InHand
<1>4. /\ Fetched = PulledTo + (produced - pulled) /\ PulledTo \in Nat
      /\ Fetched \in Nat /\ Done \in 0..Len(stream)
  BY Numbers, Positions DEF PipeInv
<1>5. Fetched = PulledTo
  BY <1>2, <1>4, Numbers DEF NumberTypes
<1> QED BY <1>3, <1>4, <1>5

\* So are the fences, after a tick or in it.
LEMMA SyncDecoded ==
    ASSUME PipeInv, cpc = "resume"
    PROVE  \A f \in 1..Len(stream) :
               stream[f].kind = "fence" /\ End(stream, f) <= Fetched => f <= Done
<1>1. syncmode
  BY Numbers DEF ModesRight
<1>2. Whole(Done, Fetched) /\ Fetched \in Nat /\ Done \in 0..Len(stream)
  BY <1>1, DrainedWhole DEF Publishing
<1>3. stream \in Streams /\ Len(stream) \in Nat
  <2>1. stream \in Streams
    BY Numbers DEF PlaceTypes
  <2> QED BY <2>1, EndNext
<1>4. \A j \in 0..Len(stream) : End(stream, j) <= Fetched => j <= Done
  BY <1>2, <1>3, WholeCount
<1>5. 1..Len(stream) \subseteq 0..Len(stream)
  BY <1>3
<1> QED BY <1>4, <1>5

\* The CPU thread's steps that move no data are the consumer's or none.
LEMMA CpuQuietMaps ==
    ASSUME PipeInv,
           \/ C_Wait \/ C_WaitSet \/ C_WaitCall \/ C_WaitUnset \/ C_LoopEnd \/ C_Bump
           \/ C_CheckParked \/ C_Wake \/ C_Consume \/ C_EnterSync \/ C_SyncEnd \/ C_Peek
           \/ C_Quit \/ C_QuitBump \/ C_QuitWake \/ C_Join \/ C_WaitTimeout
           \/ C_PeekDrain \/ C_ShutdownDrain \/ \E n \in 0..Budget : C_Tick(n)
    PROVE  Consumer!Next \/ UNCHANGED Consumer!vars
<1>0. /\ NumberTypes /\ BooleanTypes /\ PlaceTypes /\ WaitRight /\ ModesRight /\ NeverFails
      /\ stream \in Streams
  BY Numbers DEF PlaceTypes
<1>1. /\ UNCHANGED <<stream, decoded>> /\ Fetched' = Fetched
  BY CpuQuiet DEF Quiet
<1>2. ASSUME seen' = seen, Ticking' <=> Ticking PROVE UNCHANGED Consumer!vars
  BY <1>1, <1>2, Unseen
<1>3. ASSUME seen' = seen, Ticking, ~ Ticking',
             Piped, ~ Filling, Due = 0 \/ Due <= retired
      PROVE  Consumer!Next
  <2>1. Consumer!TickEnd
    BY <1>0, <1>1, <1>3, FencesDecoded, TickEnds
  <2> QED BY <2>1 DEF Consumer!Next
<1>4. CASE C_Wait
  <2>1. /\ cpc = "wait" /\ wait'.ret = wait.ret
        /\ \/ Watched >= wait.target /\ cpc' = wait.ret
           \/ cpc' \in {"wait", "waitset"}
        /\ seen' = seen
    BY <1>0, <1>4 DEF C_Wait, CpuOnly, NeverFails, PlaceTypes
  <2>2. wait.ret \in {"entersync", "peek", "quit", "fill", "guest", "sync"}
    BY <1>0, <2>1 DEF WaitRight, WaitPcs
  <2>3. CASE cpc' = "guest"
    <3>1. WaitFor("guest") /\ retired >= wait.target /\ Due = wait.target
      BY <1>0, <2>1, <2>3 DEF WaitFor, WaitPcs, WaitRight, Watched, Due
    <3>2. Ticking /\ ~ Ticking' /\ ~ Filling /\ Piped
      BY <1>0, <2>1, <2>3, <3>1 DEF Ticking, Filling, Piped, Leaving, ModesRight, WaitFor, WaitPcs
    <3>3. Due <= retired
      BY <1>0, <3>1 DEF NumberTypes
    <3> QED BY <1>3, <2>1, <3>2, <3>3
  <2>4. CASE cpc' # "guest"
    <3>1. Ticking' <=> Ticking
      BY <2>1, <2>2, <2>4 DEF Ticking, WaitPcs
    <3> QED BY <1>2, <2>1, <3>1
  <2> QED BY <2>3, <2>4
<1>5. CASE C_LoopEnd
  <2>1. cpc = "scan" /\ seen' = seen /\ Ticking /\ ~ Filling
    BY <1>5 DEF C_LoopEnd, Ticking, Filling, WaitFor, WaitPcs
  <2>2. CASE cpc' = "guest"
    <3>1. fence = 0 /\ ~ syncmode /\ ~ Ticking' /\ Piped /\ Due = 0
      BY <1>5, <2>1, <2>2 DEF C_LoopEnd, AfterLoop, BeginWait, Ticking, Piped, Leaving, Due,
         WaitFor, WaitPcs
    <3> QED BY <1>3, <2>1, <3>1
  <2>3. CASE cpc' # "guest"
    <3>1. Ticking'
      BY <1>5, <2>3 DEF C_LoopEnd, AfterLoop, BeginWait, Wait, Ticking, WaitPcs
    <3> QED BY <1>2, <2>1, <3>1
  <2> QED BY <2>2, <2>3
<1>6. CASE C_Peek
  <2>1. cpc = "peek" /\ cpc' = "guest" /\ seen' = Len(decoded)
    BY <1>6 DEF C_Peek, CpuAt
  <2>2. ~ Ticking /\ ~ Ticking'
    BY <2>1 DEF Ticking, WaitPcs
  <2>3. Ticking = FALSE /\ Ticking' = FALSE
    <3>1. Ticking \in BOOLEAN /\ Ticking' \in BOOLEAN
      BY DEF Ticking
    <3> QED BY <2>2, <3>1
  <2>4. WholeIn(stream, Fetched) = Len(decoded)
    <3>1. Whole(Done, Fetched) /\ Fetched \in Nat /\ Done \in 0..Len(stream)
      BY <2>1, DrainedWhole DEF Drained, Publishing
    <3>2. WholeIn(stream, Fetched) = Done
      BY <1>0, <3>1, WholeCount
    <3> QED BY <3>2 DEF Done
  <2>5. Consumer!WholeIn(stream, Fetched) = WholeIn(stream, Fetched)
    BY DEF Consumer!WholeIn, Consumer!Max, Max, Consumer!End, Consumer!Ends, WholeIn, End, Ends
  <2>6. Consumer!Peek
    BY <1>1, <2>1, <2>3, <2>4, <2>5 DEF Consumer!Peek
  <2> QED BY <2>6 DEF Consumer!Next
<1>7. CASE \E n \in 0..Budget : C_Tick(n)
  <2>1. cpc = "guest" /\ cpc' \in {"sync", "scan"} /\ seen' = seen
    BY <1>0, <1>7 DEF C_Tick, NeverFails
  <2>2. ~ Ticking /\ Ticking'
    BY <2>1 DEF Ticking, WaitPcs
  <2>3. Ticking = FALSE /\ Ticking' = TRUE
    <3>1. Ticking \in BOOLEAN /\ Ticking' \in BOOLEAN
      BY DEF Ticking
    <3> QED BY <2>2, <3>1
  <2>4. Consumer!TickBegin
    BY <1>1, <2>1, <2>3 DEF Consumer!TickBegin
  <2> QED BY <2>4 DEF Consumer!Next
<1>8. CASE C_WaitSet \/ C_WaitCall \/ C_WaitUnset \/ C_WaitTimeout
  <2>1. seen' = seen /\ (Ticking' <=> Ticking)
    BY <1>8 DEF C_WaitSet, C_WaitCall, C_WaitUnset, C_WaitTimeout, SetWaiting, CpuAt, CpuOnly,
       Ticking, WaitPcs
  <2> QED BY <1>2, <2>1
<1>9. CASE C_Bump \/ C_CheckParked \/ C_Wake \/ C_Consume
  <2>1. seen' = seen /\ (Ticking' <=> Ticking)
    BY <1>9 DEF C_Bump, C_CheckParked, C_Wake, C_Consume, WakeWorker, BumpEpoch, CpuAt, CpuOnly,
       Ticking
  <2> QED BY <1>2, <2>1
<1>10. CASE C_EnterSync \/ C_SyncEnd \/ C_Join
  <2>1. seen' = seen /\ (Ticking' <=> Ticking)
    BY <1>10 DEF C_EnterSync, C_SyncEnd, C_Join, CpuAt, CpuOnly, Ticking, WaitPcs
  <2> QED BY <1>2, <2>1
<1>11. CASE C_Quit \/ C_QuitBump \/ C_QuitWake
  <2>1. seen' = seen /\ (Ticking' <=> Ticking)
    BY <1>11 DEF C_Quit, C_QuitBump, C_QuitWake, WakeWorker, BumpEpoch, CpuAt, Ticking, WaitPcs
  <2> QED BY <1>2, <2>1
<1>12. CASE C_PeekDrain \/ C_ShutdownDrain
  <2>1. seen' = seen /\ (Ticking' <=> Ticking)
    BY <1>12 DEF C_PeekDrain, C_ShutdownDrain, BeginDrain, BeginWait, Wait, Ticking, WaitPcs
  <2> QED BY <1>2, <2>1
<1> QED BY <1>4, <1>5, <1>6, <1>7, <1>8, <1>9, <1>10, <1>11, <1>12

\* Every step of the two threads is one of the consumer's or none.
LEMMA StepMaps ==
    ASSUME PipeInv, [Next]_vars
    PROVE  [Consumer!Next]_(Consumer!vars)
<1>0. stream \in Streams
  BY Numbers DEF PlaceTypes
<1>1. CASE WorkerStep \/ W_SpuriousWake
  BY <1>1, WorkerMaps DEF Consumer!Next
<1>2. CASE \/ C_Wait \/ C_WaitSet \/ C_WaitCall \/ C_WaitUnset \/ C_LoopEnd \/ C_Bump
           \/ C_CheckParked \/ C_Wake \/ C_Consume \/ C_EnterSync \/ C_SyncEnd \/ C_Peek
           \/ C_Quit \/ C_QuitBump \/ C_QuitWake \/ C_Join \/ C_WaitTimeout
           \/ C_PeekDrain \/ C_ShutdownDrain \/ \E n \in 0..Budget : C_Tick(n)
  BY <1>2, CpuQuietMaps
<1>3. CASE C_Publish \/ C_SyncFetch
  BY <1>3, FetchMaps DEF Consumer!Next
<1>4. CASE C_SyncDecode
  <2>1. CanDecode /\ Decode /\ UNCHANGED <<stream, seen, cpc, wait, taken>>
    BY <1>4 DEF C_SyncDecode, fifo, cpu
  <2>2. Fetched' = Fetched /\ (Ticking' <=> Ticking)
    BY <2>1 DEF Fetched, Ticking
  <2>3. Consumer!Decode
    BY <2>1, <2>2, DecodeMaps, DecodeStep
  <2> QED BY <2>3 DEF Consumer!Next
<1>5. CASE C_Scan \/ C_Fill \/ C_SyncRunEnd
  <2>1. /\ UNCHANGED <<stream, decoded, seen, taken>>
        /\ \/ cpc = "scan" /\ cpc' = "wait" /\ wait'.ret \in {"entersync", "fill"}
           \/ cpc = "fill" /\ cpc' = "publish"
           \/ cpc = "syncrun" /\ cpc' = "sync"
    BY <1>5 DEF C_Scan, C_Fill, C_SyncRunEnd, BeginDrain, BeginWait, Wait, CpuAt, CpuOnly, fifo,
       gx
  <2>2. Fetched' = Fetched /\ (Ticking' <=> Ticking)
    BY <2>1 DEF Fetched, Ticking, WaitPcs
  <2> QED BY <2>1, <2>2, Unseen
<1>6. CASE C_Resume
  <2>1. cpc = "resume" /\ cpc' = "guest" /\ UNCHANGED <<stream, decoded, seen, taken>>
    BY <1>6 DEF C_Resume, CpuAt, fifo, gx
  <2>2. Fetched' = Fetched /\ Ticking /\ ~ Ticking'
    BY <2>1 DEF Fetched, Ticking, WaitPcs
  <2>3. Consumer!TickEnd
    BY <1>0, <2>1, <2>2, SyncDecoded, TickEnds
  <2> QED BY <2>3 DEF Consumer!Next
<1>7. CASE UNCHANGED vars
  <2>1. UNCHANGED <<stream, decoded, seen, taken, cpc, wait>>
    BY <1>7 DEF vars, fifo, gx, cpu
  <2>2. Fetched' = Fetched /\ (Ticking' <=> Ticking)
    BY <2>1 DEF Fetched, Ticking
  <2> QED BY <2>1, <2>2, Unseen
<1> QED BY <1>1, <1>2, <1>3, <1>4, <1>5, <1>6, <1>7 DEF Next, CpuStep, GuestStep

\* The pipeline, with its worker or without, is the command consumer the guest was promised.
THEOREM Refinement == Spec => ImplementsConsumer
<1>1. Init => Consumer!Init
  <2> SUFFICES ASSUME Init PROVE Consumer!Init
    OBVIOUS
  <2>1. Ticking = FALSE
    <3>1. ~ Ticking /\ Ticking \in BOOLEAN
      BY DEF Init, Ticking, WaitPcs
    <3> QED BY <3>1
  <2>2. Fetched = 0
    <3>1. Fetched = Chunk * 0 /\ Chunk \in Nat
      BY SlotsRight DEF Init, Fetched
    <3> QED BY <3>1
  <2> QED BY <2>1, <2>2 DEF Init, Consumer!Init
<1>2. PipeInv /\ [Next]_vars => [Consumer!Next]_(Consumer!vars)
  BY StepMaps
<1> QED BY <1>1, <1>2, InductiveInvariant, PTL DEF Spec, ImplementsConsumer, Consumer!Spec

=============================================================================
