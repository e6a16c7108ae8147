-------------------------- MODULE HostAudio_proofs --------------------------
(***************************************************************************)
(* What holds of HostAudio for a ring, a cushion, a batch, a block and a   *)
(* device of any size: the frames the guest made are with the device, in   *)
(* the packet or in the ring in the order in which it made them, however   *)
(* often the ring has gone round and wherever its end falls in a copy.     *)
(***************************************************************************)
EXTENDS HostAudio, Integers, SequenceTheorems, TLAPS

\* The place of the ring b places after a; a copy is split where it passes the end.
Place(a, b) == IF a + b < RingFrames THEN a + b ELSE a + b - RingFrames

Types ==
    /\ ring \in [0..(RingFrames - 1) -> Nat]
    /\ rd \in 0..(RingFrames - 1) /\ count \in 0..RingFrames /\ wr = Place(rd, count)
    /\ deviceOpen \in BOOLEAN /\ workerStop \in BOOLEAN /\ received \in Nat /\ dropped \in Nat
    /\ ready \in BOOLEAN /\ stopEvent \in BOOLEAN /\ audioEvent \in BOOLEAN
    /\ cpc \in CpuPcs /\ ret \in {"guest", "batch", "stopset"}
    /\ block \in 0..BlockFrames /\ batch \in 0..BatchFrames
    /\ wpc \in WorkerPcs /\ packet \in Seq(Nat) /\ room \in 0..DeviceFrames
    /\ primed \in 0..DeviceFrames
    /\ started \in BOOLEAN /\ padding \in 0..DeviceFrames /\ heard \in Seq(Nat)

\* The frames by number: the first Len(heard) with the device, the next in the packet,
\* the rest in the ring from the place that is read next.
HeardRight  == \A j \in 1..Len(heard) : heard[j] = j
PacketRight == \A j \in 1..Len(packet) : packet[j] = Len(heard) + j
RingRight   == \A k \in 0..(count - 1) : ring[Place(rd, k)] = Len(heard) + Len(packet) + k + 1
AllThere    == Len(heard) + Len(packet) + count = received

\* The worker fills an empty packet only: it has handed over the one before, or failed
\* with it and takes no more.
Filled == wpc \in {"begin", "release", "failed", "exited"}
PacketEmpty == Filled \/ packet = <<>>

\* A device that is not started plays nothing; the first packet is made from the cushion,
\* and what is asked of a device is what it has free.
BeforeStart == {"init", "opened", "notopened", "cushion", "datawait", "prime", "begin"}
Playing == {"loop", "padding", "render", "release"}
StartRight ==
    /\ wpc \in BeforeStart => ~started
    /\ wpc \in Playing => started
    /\ ~started => padding = 0
    /\ wpc = "prime" => count >= StartFrames
    /\ wpc = "begin" => primed >= Least(StartFrames, DeviceFrames)
    /\ wpc \in {"begin", "render", "release"} => padding + room <= DeviceFrames

AudioInv ==
    /\ Types
    /\ HeardRight /\ PacketRight /\ RingRight /\ AllThere
    /\ PacketEmpty /\ StartRight /\ StartedOnCushion

-----------------------------------------------------------------------------
(* Places of the ring. *)

\* Division with remainder, as the library defines it.
LEMMA Turns ==
    ASSUME NEW n \in Nat \ {0}, NEW x \in Nat
    PROVE  x \div n \in Int /\ x % n \in 0..(n - 1) /\ x = n * (x \div n) + (x % n)
  OBVIOUS

\* A number of less than two turns: the remainder is at most one turn away.
LEMMA Folded ==
    ASSUME NEW n \in Nat \ {0}, NEW x \in Nat, x < n + n
    PROVE  x % n = IF x < n THEN x ELSE x - n
<1> DEFINE q == x \div n
           r == x % n
<1>1. q \in Int /\ r \in 0..(n - 1) /\ x = n * q + r
  BY Turns
<1> HIDE DEF q, r
<1>2. CASE q >= 2
  <2>1. \E m \in Nat : q = 2 + m
    <3>1. q - 2 \in Nat /\ q = 2 + (q - 2)
      BY <1>1, <1>2
    <3> QED BY <3>1
  <2>2. PICK m \in Nat : q = 2 + m
    BY <2>1
  <2>3. n * q = n + n + n * m /\ n * m \in Nat
    BY <2>2
  <2> QED BY <2>3, <1>1
<1>3. CASE q <= -1
  <2>1. \E m \in Nat : q = -1 - m
    <3>1. -1 - q \in Nat /\ q = -1 - (-1 - q)
      BY <1>1, <1>3
    <3> QED BY <3>1
  <2>2. PICK m \in Nat : q = -1 - m
    BY <2>1
  <2>3. n * q = -n - n * m /\ n * m \in Nat
    BY <2>2
  <2> QED BY <2>3, <1>1
<1>4. CASE q = 0
  BY <1>1, <1>4 DEF r
<1>5. CASE q = 1
  BY <1>1, <1>5 DEF r
<1> QED BY <1>1, <1>2, <1>3, <1>4, <1>5

\* What the code computes with a remainder is the place meant.
LEMMA PlaceSum ==
    ASSUME NEW a \in 0..(RingFrames - 1), NEW b \in 0..RingFrames
    PROVE  /\ (a + b) % RingFrames = Place(a, b)
           /\ Place(a, b) \in 0..(RingFrames - 1)
<1> DEFINE x == a + b
<1>1. x \in Nat /\ x < RingFrames + RingFrames /\ RingFrames \in Nat \ {0}
  BY RingAssumption
<1> HIDE DEF x
<1>2. x % RingFrames = IF x < RingFrames THEN x ELSE x - RingFrames
  BY <1>1, Folded
<1> QED BY <1>1, <1>2 DEF x, Place

\* Going on from a place is going further from the first.
LEMMA PlacePlace ==
    ASSUME NEW a \in 0..(RingFrames - 1), NEW m \in 0..RingFrames, NEW b \in Nat,
           m + b <= RingFrames
    PROVE  Place(Place(a, m), b) = Place(a, m + b)
<1>1. /\ RingFrames \in Nat \ {0}
      /\ Place(a, m) = IF a + m < RingFrames THEN a + m ELSE a + m - RingFrames
  BY RingAssumption DEF Place
<1>2. CASE a + m < RingFrames
  BY <1>1, <1>2 DEF Place
<1>3. CASE ~(a + m < RingFrames)
  <2>1. Place(a, m) = a + m - RingFrames
    BY <1>1, <1>3
  <2>2. a + m - RingFrames + b < RingFrames /\ ~(a + (m + b) < RingFrames)
    BY <1>1, <1>3
  <2>3. Place(a, m + b) = a + (m + b) - RingFrames
    BY <2>2 DEF Place
  <2>4. Place(Place(a, m), b) = a + m - RingFrames + b
    BY <2>1, <2>2 DEF Place
  <2> QED BY <1>1, <2>3, <2>4
<1> QED BY <1>2, <1>3

-----------------------------------------------------------------------------
(* The copies into and out of the ring. *)

\* A function on an initial segment is a sequence of that length.
LEMMA SegmentSeq ==
    ASSUME NEW S, NEW n \in Nat, NEW f \in [1..n -> S]
    PROVE  f \in Seq(S) /\ Len(f) = n
<1>1. f \in Seq(S)
  BY SeqDef
<1>2. DOMAIN f = 1..Len(f) /\ Len(f) \in Nat /\ DOMAIN f = 1..n
  BY <1>1, LenProperties
<1>3. Len(f) = n
  <2>1. CASE n < Len(f)
    BY <1>2, <2>1
  <2>2. CASE Len(f) < n
    BY <1>2, <2>2
  <2> QED BY <1>2, <2>1, <2>2
<1> QED BY <1>1, <1>3

\* Put: what is in the ring stays, and the new frames follow it in their order,
\* wherever the end of the ring falls.
LEMMA PutRight ==
    ASSUME Types, NEW n \in 0..(RingFrames - count), Put(n)
    PROVE  /\ ring' \in [0..(RingFrames - 1) -> Nat]
           /\ count' = count + n /\ wr' = Place(rd, count') /\ received' = received + n
           /\ \A k \in 0..(count - 1) : ring'[Place(rd, k)] = ring[Place(rd, k)]
           /\ \A k \in 0..(n - 1) : ring'[Place(rd, count + k)] = received + k + 1
<1> DEFINE frames == [j \in 1..n |-> received + j]
           first  == Contiguous(wr, n)
           low    == SubSeq(frames, 1, first)
           high   == SubSeq(frames, first + 1, n)
<1>1. /\ wr \in 0..(RingFrames - 1) /\ rd \in 0..(RingFrames - 1) /\ wr = Place(rd, count)
      /\ n \in Nat /\ first \in 0..n /\ first = IF n <= RingFrames - wr THEN n ELSE RingFrames - wr
      /\ received \in Nat /\ count \in 0..RingFrames /\ RingFrames \in Nat \ {0}
  BY RingAssumption DEF Types, Contiguous, Least, Place
<1>2. /\ Len(low) = first /\ \A i \in 1..first : low[i] = received + i
  <2>1. \A i \in 1..first : frames[i] \in Nat /\ frames[i] = received + i
    BY <1>1
  <2> HIDE DEF frames, first
  <2> QED BY <2>1, <1>1, SubSeqProperties
<1>3. /\ Len(high) = n - first /\ \A i \in 1..(n - first) : high[i] = received + first + i
  <2>1. \A i \in (first + 1)..n : frames[i] \in Nat /\ frames[i] = received + i
    BY <1>1
  <2> HIDE DEF frames, first
  <2>2. /\ Len(high) = IF first + 1 <= n THEN n - (first + 1) + 1 ELSE 0
        /\ \A i \in 1..(n - (first + 1) + 1) : high[i] = frames[first + 1 + i - 1]
    BY <2>1, <1>1, SubSeqProperties
  <2>3. \A i \in 1..(n - first) :
            /\ i \in 1..(n - (first + 1) + 1) /\ first + 1 + i - 1 = first + i
            /\ first + i \in (first + 1)..n
    BY <1>1
  <2> QED BY <1>1, <2>1, <2>2, <2>3
<1>4. /\ ring' = CopyIn(CopyIn(ring, wr, low), 0, high)
      /\ wr' = (wr + n) % RingFrames /\ count' = count + n /\ received' = received + n
  BY DEF Put
<1> HIDE DEF low, high, first
<1>5. ring' = [i \in 0..(RingFrames - 1) |->
                  IF i < n - first THEN received + first + i + 1
                  ELSE IF i >= wr /\ i < wr + first THEN received + (i - wr) + 1
                  ELSE ring[i]]
  <2>1. DOMAIN ring = 0..(RingFrames - 1)
    BY DEF Types
  <2> DEFINE once == CopyIn(ring, wr, low)
  <2>2. once = [i \in 0..(RingFrames - 1) |->
                   IF i >= wr /\ i < wr + first THEN low[i - wr + 1] ELSE ring[i]]
    BY <2>1, <1>2 DEF CopyIn
  <2>3. \A i \in 0..(RingFrames - 1) :
            once[i] = IF i >= wr /\ i < wr + first THEN received + (i - wr) + 1 ELSE ring[i]
    <3> SUFFICES ASSUME NEW i \in 0..(RingFrames - 1)
                 PROVE  once[i] = IF i >= wr /\ i < wr + first THEN received + (i - wr) + 1
                                  ELSE ring[i]
      OBVIOUS
    <3>1. once[i] = IF i >= wr /\ i < wr + first THEN low[i - wr + 1] ELSE ring[i]
      BY <2>2
    <3>2. i >= wr /\ i < wr + first => i - wr + 1 \in 1..first
      BY <1>1
    <3>3. i >= wr /\ i < wr + first => low[i - wr + 1] = received + (i - wr + 1)
      BY <1>2, <3>2
    <3> QED BY <1>1, <3>1, <3>3
  <2>4. DOMAIN once = 0..(RingFrames - 1)
    BY <2>2
  <2> HIDE DEF once
  <2>5. CopyIn(once, 0, high) =
            [i \in 0..(RingFrames - 1) |->
                IF i >= 0 /\ i < 0 + (n - first) THEN high[i - 0 + 1] ELSE once[i]]
    BY <2>4, <1>3 DEF CopyIn
  <2>6. \A i \in 0..(RingFrames - 1) :
            i < n - first => high[i - 0 + 1] = received + first + i + 1
    <3> SUFFICES ASSUME NEW i \in 0..(RingFrames - 1), i < n - first
                 PROVE  high[i - 0 + 1] = received + first + i + 1
      OBVIOUS
    <3>1. i - 0 + 1 = i + 1 /\ i + 1 \in 1..(n - first)
      BY <1>1
    <3>2. high[i + 1] = received + first + (i + 1)
      BY <1>3, <3>1
    <3> QED BY <1>1, <3>1, <3>2
  <2>7. ring' = CopyIn(once, 0, high)
    BY <1>4 DEF once
  <2>8. ring' = [i \in 0..(RingFrames - 1) |->
                    IF i < n - first THEN high[i - 0 + 1] ELSE once[i]]
    <3>1. \A i \in 0..(RingFrames - 1) : (i >= 0 /\ i < 0 + (n - first)) <=> i < n - first
      BY <1>1
    <3> QED BY <2>5, <2>7, <3>1
  <2> QED BY <2>3, <2>6, <2>8
<1>6. wr' = Place(rd, count')
  <2>1. n \in 0..RingFrames
    BY <1>1
  <2>2. wr' = Place(wr, n)
    BY <1>1, <1>4, <2>1, PlaceSum
  <2>3. count \in 0..RingFrames /\ count + n <= RingFrames
    BY <1>1
  <2> QED BY <1>1, <1>4, <2>2, <2>3, PlacePlace
<1>7. ring' \in [0..(RingFrames - 1) -> Nat]
  <2>1. ASSUME NEW i \in 0..(RingFrames - 1) PROVE ring[i] \in Nat
    BY DEF Types
  <2>2. ASSUME NEW i \in 0..(RingFrames - 1) PROVE received + first + i + 1 \in Nat
    BY <1>1
  <2>3. ASSUME NEW i \in 0..(RingFrames - 1), i >= wr PROVE received + (i - wr) + 1 \in Nat
    <3>1. wr \in Nat /\ received \in Nat /\ i \in Nat
      BY <1>1
    <3> QED BY <2>3, <3>1
  <2> QED BY <1>5, <2>1, <2>2, <2>3
<1>8. ASSUME NEW k \in 0..(count - 1) PROVE ring'[Place(rd, k)] = ring[Place(rd, k)]
  <2> DEFINE i == Place(rd, k)
  <2>1. i \in 0..(RingFrames - 1) /\ ~(i < n - first) /\ ~(i >= wr /\ i < wr + first)
    BY <1>1 DEF Place
  <2> HIDE DEF i
  <2>2. ring'[i] = ring[i]
    BY <1>5, <2>1
  <2> QED BY <2>2 DEF i
<1>9. ASSUME NEW k \in 0..(n - 1) PROVE ring'[Place(rd, count + k)] = received + k + 1
  <2> DEFINE i == Place(rd, count + k)
  <2>1. /\ i \in 0..(RingFrames - 1) /\ first \in Nat /\ n - first \in Nat
        /\ \/ i < n - first /\ first + i + 1 = k + 1
           \/ ~(i < n - first) /\ i >= wr /\ i < wr + first /\ (i - wr) + 1 = k + 1
    BY <1>1 DEF Place
  <2> HIDE DEF i
  <2>2. ring'[i] = IF i < n - first THEN received + first + i + 1
                   ELSE IF i >= wr /\ i < wr + first THEN received + (i - wr) + 1
                   ELSE ring[i]
    BY <1>5, <2>1
  <2>3. ring'[i] = received + k + 1
    BY <1>1, <2>1, <2>2
  <2> QED BY <2>3 DEF i
<1> QED BY <1>4, <1>6, <1>7, <1>8, <1>9

\* Take: the packet is what was next in the ring, in its order, and the rest stays.
LEMMA TakeRight ==
    ASSUME Types, NEW n \in Nat, Take(n)
    PROVE  LET m == Least(n, count) IN
           /\ m \in 0..count /\ m <= n
           /\ packet' \in Seq(Nat) /\ Len(packet') = m
           /\ \A j \in 1..m : packet'[j] = ring[Place(rd, j - 1)]
           /\ rd' = Place(rd, m) /\ rd' \in 0..(RingFrames - 1) /\ count' = count - m
           /\ wr = Place(rd', count')
           /\ \A k \in 0..(count' - 1) : Place(rd', k) = Place(rd, m + k)
           /\ ring' = ring /\ wr' = wr
<1> DEFINE m     == Least(n, count)
           first == Least(m, RingFrames - rd)
           low   == CopyOut(ring, rd, first)
           high  == CopyOut(ring, 0, m - first)
<1>1. /\ rd \in 0..(RingFrames - 1) /\ wr = Place(rd, count) /\ count \in 0..RingFrames
      /\ RingFrames \in Nat \ {0} /\ m \in 0..count /\ m <= n
      /\ first \in 0..m /\ first = IF m <= RingFrames - rd THEN m ELSE RingFrames - rd
      /\ ring \in [0..(RingFrames - 1) -> Nat]
  BY RingAssumption DEF Types, Least
<1>2. /\ packet' = low \o high /\ rd' = (rd + m) % RingFrames /\ count' = count - m
      /\ ring' = ring /\ wr' = wr
  BY DEF Take
<1> HIDE DEF m, first
<1>3. low \in Seq(Nat) /\ Len(low) = first /\ \A j \in 1..first : low[j] = ring[rd + j - 1]
  <2>1. low = [j \in 1..first |-> ring[rd + j - 1]]
    BY DEF CopyOut
  <2>2. low \in [1..first -> Nat]
    <3>1. \A j \in 1..first : rd + j - 1 \in 0..(RingFrames - 1)
      BY <1>1
    <3> QED BY <1>1, <2>1, <3>1
  <2>3. first \in Nat
    BY <1>1
  <2>4. low \in Seq(Nat) /\ Len(low) = first
    BY <2>2, <2>3, SegmentSeq
  <2> QED BY <2>1, <2>4
<1>4. high \in Seq(Nat) /\ Len(high) = m - first /\ \A j \in 1..(m - first) : high[j] = ring[j - 1]
  <2>1. high = [j \in 1..(m - first) |-> ring[0 + j - 1]]
    BY DEF CopyOut
  <2>2. high \in [1..(m - first) -> Nat]
    <3>1. \A j \in 1..(m - first) : 0 + j - 1 \in 0..(RingFrames - 1)
      BY <1>1
    <3> QED BY <1>1, <2>1, <3>1
  <2>3. m - first \in Nat
    BY <1>1
  <2>4. high \in Seq(Nat) /\ Len(high) = m - first
    BY <2>2, <2>3, SegmentSeq
  <2>5. \A j \in 1..(m - first) : 0 + j - 1 = j - 1
    BY <1>1
  <2> QED BY <2>1, <2>4, <2>5
<1> HIDE DEF low, high
<1>10. /\ low \o high \in Seq(Nat) /\ Len(low \o high) = Len(low) + Len(high)
      /\ \A i \in 1..(Len(low) + Len(high)) :
             (low \o high)[i] = IF i <= Len(low) THEN low[i] ELSE high[i - Len(low)]
  BY <1>3, <1>4, ConcatProperties
<1>5. packet' \in Seq(Nat) /\ Len(packet') = m
  BY <1>1, <1>2, <1>3, <1>4, <1>10
<1>6. ASSUME NEW j \in 1..m PROVE packet'[j] = ring[Place(rd, j - 1)]
  <2>1. packet'[j] = IF j <= first THEN low[j] ELSE high[j - first]
    <3>1. Len(low) + Len(high) = m /\ Len(low) = first
      BY <1>1, <1>3, <1>4
    <3> QED BY <1>2, <1>10, <3>1
  <2>2. CASE j <= first
    <3>1. low[j] = ring[rd + j - 1] /\ rd + j - 1 = Place(rd, j - 1)
      BY <1>1, <1>3, <2>2 DEF Place
    <3> QED BY <2>1, <2>2, <3>1
  <2>3. CASE ~(j <= first)
    <3>1. j - first \in 1..(m - first) /\ j - first - 1 = Place(rd, j - 1)
      BY <1>1, <2>3 DEF Place
    <3>2. high[j - first] = ring[j - first - 1]
      BY <1>4, <3>1
    <3> QED BY <2>1, <2>3, <3>1, <3>2
  <2> QED BY <2>2, <2>3
<1>7. rd' = Place(rd, m) /\ rd' \in 0..(RingFrames - 1)
  <2>1. m \in 0..RingFrames
    BY <1>1
  <2> QED BY <1>1, <1>2, <2>1, PlaceSum
<1>8. wr = Place(rd', count') /\ \A k \in 0..(count' - 1) : Place(rd', k) = Place(rd, m + k)
  <2>1. m \in 0..RingFrames /\ count' \in Nat /\ m + count' <= RingFrames
    BY <1>1, <1>2
  <2>2. wr = Place(rd', count')
    <3>1. m + count' = count
      BY <1>1, <1>2
    <3> QED BY <1>1, <1>7, <2>1, <3>1, PlacePlace
  <2>3. \A k \in 0..(count' - 1) : k \in Nat /\ m + k <= RingFrames
    <3>1. RingFrames \in Nat /\ m \in Nat /\ count' \in Nat
      BY <1>1, <2>1
    <3>2. ASSUME NEW c \in Nat, NEW k \in 0..(c - 1), m + c <= RingFrames
          PROVE  k \in Nat /\ m + k <= RingFrames
      BY <3>1, <3>2
    <3> QED BY <2>1, <3>1, <3>2
  <2>4. ASSUME NEW k \in Nat, m + k <= RingFrames PROVE Place(rd', k) = Place(rd, m + k)
    <3>1. rd \in 0..(RingFrames - 1) /\ m \in 0..RingFrames
      BY <1>1, <2>1
    <3>2. Place(Place(rd, m), k) = Place(rd, m + k)
      BY <2>4, <3>1, PlacePlace
    <3> QED BY <1>7, <3>2
  <2> QED BY <2>2, <2>3, <2>4
<1> QED BY <1>1, <1>2, <1>5, <1>6, <1>7, <1>8 DEF m

-----------------------------------------------------------------------------
(* The frames keep their order. *)

FramesRight == HeardRight /\ PacketRight /\ RingRight /\ AllThere

\* A step that moves no frame.
LEMMA FramesStay ==
    ASSUME FramesRight, UNCHANGED <<ring, rd, count, packet, heard, received>>
    PROVE  FramesRight'
  BY DEF FramesRight, HeardRight, PacketRight, RingRight, AllThere, Place

\* Out of the ring: the frame that was next is the first of the packet.
LEMMA TakeKeeps ==
    ASSUME Types, FramesRight, packet = <<>>, NEW n \in Nat, Take(n),
           UNCHANGED <<heard, received>>
    PROVE  FramesRight'
<1> DEFINE m == Least(n, count)
           h == Len(heard)
<1>1. /\ m \in 0..count /\ Len(packet') = m
      /\ \A j \in 1..m : packet'[j] = ring[Place(rd, j - 1)]
      /\ rd' = Place(rd, m) /\ count' = count - m
      /\ \A k \in 0..(count' - 1) : Place(rd', k) = Place(rd, m + k)
      /\ ring' = ring
  BY TakeRight
<1>2. /\ count \in Nat /\ m \in Nat /\ h \in Nat /\ Len(packet) = 0
      /\ heard \in Seq(Nat) /\ received \in Nat
  BY <1>1 DEF Types
<1> HIDE DEF m
<1>3. \A k \in 0..(count - 1) : ring[Place(rd, k)] = h + k + 1
  BY <1>2 DEF FramesRight, RingRight
<1>4. h + count = received
  BY <1>2 DEF FramesRight, AllThere
<1>5. HeardRight'
  BY DEF FramesRight, HeardRight
<1>6. PacketRight'
  <2>1. ASSUME NEW j \in 1..m PROVE packet'[j] = h + j
    <3>1. j - 1 \in 0..(count - 1)
      BY <1>1, <1>2
    <3>2. ring[Place(rd, j - 1)] = h + (j - 1) + 1
      BY <1>3, <3>1
    <3> QED BY <1>1, <1>2, <3>2
  <2> QED BY <1>1, <2>1 DEF PacketRight
<1>7. RingRight'
  <2>1. ASSUME NEW k \in Nat, k < count - m, Place(rd', k) = Place(rd, m + k)
        PROVE  ring'[Place(rd, m + k)] = h + m + k + 1
    <3>1. m + k \in 0..(count - 1)
      BY <1>1, <1>2, <2>1
    <3>2. ring[Place(rd, m + k)] = h + (m + k) + 1
      BY <1>3, <3>1
    <3> QED BY <1>1, <1>2, <3>2
  <2>2. ASSUME NEW c \in Nat, c = count - m,
               \A k \in 0..(c - 1) : Place(rd', k) = Place(rd, m + k)
        PROVE  \A k \in 0..(c - 1) : ring'[Place(rd', k)] = h + m + k + 1
    <3> SUFFICES ASSUME NEW k \in 0..(c - 1) PROVE ring'[Place(rd', k)] = h + m + k + 1
      OBVIOUS
    <3>1. k \in Nat /\ k < count - m /\ Place(rd', k) = Place(rd, m + k)
      BY <2>2
    <3>2. ring'[Place(rd, m + k)] = h + m + k + 1
      BY <2>1, <3>1
    <3> QED BY <3>1, <3>2
  <2>3. count - m \in Nat
    BY <1>1, <1>2
  <2>4. \A k \in 0..(count' - 1) : ring'[Place(rd', k)] = h + m + k + 1
    BY <1>1, <2>2, <2>3
  <2>5. Place(rd, 0)' = Place(rd', 0)
    BY DEF Place
  <2> QED BY <1>1, <2>4 DEF RingRight, Place
<1>8. AllThere'
  BY <1>1, <1>2, <1>4 DEF AllThere
<1> QED BY <1>5, <1>6, <1>7, <1>8 DEF FramesRight

\* Into the ring: the frames of the batch are the next of the guest.
LEMMA PutKeeps ==
    ASSUME Types, FramesRight, NEW n \in 0..(RingFrames - count), Put(n),
           UNCHANGED <<rd, packet, heard>>
    PROVE  FramesRight'
<1> DEFINE l == Len(heard) + Len(packet)
<1>1. /\ count' = count + n /\ received' = received + n
      /\ \A k \in 0..(count - 1) : ring'[Place(rd, k)] = ring[Place(rd, k)]
      /\ \A k \in 0..(n - 1) : ring'[Place(rd, count + k)] = received + k + 1
  BY PutRight
<1>2. count \in Nat /\ n \in Nat /\ l \in Nat /\ received \in Nat /\ l + count = received
  BY RingAssumption DEF Types, FramesRight, AllThere
<1>3. \A k \in 0..(count - 1) : ring[Place(rd, k)] = l + k + 1
  BY DEF FramesRight, RingRight
<1> HIDE DEF l
<1>4. ASSUME NEW k \in 0..(count + n - 1) PROVE ring'[Place(rd, k)] = l + k + 1
  <2>1. CASE k < count
    <3>1. k \in 0..(count - 1)
      BY <1>2, <2>1
    <3> QED BY <1>1, <1>3, <3>1
  <2>2. CASE ~(k < count)
    <3>1. k - count \in 0..(n - 1) /\ count + (k - count) = k
      BY <1>2, <2>2
    <3>2. ring'[Place(rd, count + (k - count))] = received + (k - count) + 1
      BY <1>1, <3>1
    <3> QED BY <1>2, <3>1, <3>2
  <2> QED BY <2>1, <2>2
<1>5. RingRight'
  <2>1. ASSUME NEW c, c = count + n
        PROVE  \A k \in 0..(c - 1) : ring'[Place(rd, k)] = l + k + 1
    <3>1. \A k \in 0..(count + n - 1) : ring'[Place(rd, k)] = l + k + 1
      BY <1>4
    <3>2. c - 1 = count + n - 1
      BY <1>2, <2>1
    <3> QED BY <3>1, <3>2, Zenon
  <2>2. \A k \in 0..(count' - 1) : ring'[Place(rd, k)] = l + k + 1
    BY <1>1, <2>1
  <2> QED BY <2>2 DEF RingRight, Place, l
<1>6. HeardRight' /\ PacketRight'
  BY DEF FramesRight, HeardRight, PacketRight
<1>7. AllThere'
  BY <1>1, <1>2 DEF AllThere, l
<1> QED BY <1>5, <1>6, <1>7 DEF FramesRight

\* To the device: the packet follows what it has.
LEMMA ReleaseKeeps ==
    ASSUME Types, FramesRight, Release, UNCHANGED <<ring, rd, count, received>>
    PROVE  FramesRight' /\ heard' \in Seq(Nat) /\ packet' = <<>>
<1>1. heard' = heard \o packet /\ packet' = <<>>
  BY DEF Release
<1>2. /\ heard \in Seq(Nat) /\ packet \in Seq(Nat)
      /\ Len(heard) \in Nat /\ Len(packet) \in Nat /\ count \in Nat
  BY DEF Types
<1>3. /\ heard' \in Seq(Nat) /\ Len(heard') = Len(heard) + Len(packet)
      /\ \A i \in 1..(Len(heard) + Len(packet)) :
             heard'[i] = IF i <= Len(heard) THEN heard[i] ELSE packet[i - Len(heard)]
  BY <1>1, <1>2, ConcatProperties
<1>4. Len(packet') = 0
  BY <1>1
<1>5. HeardRight'
  <2>1. ASSUME NEW i \in 1..(Len(heard) + Len(packet)) PROVE heard'[i] = i
    <3>1. CASE i <= Len(heard)
      <4>1. i \in 1..Len(heard)
        BY <1>2, <3>1
      <4>2. heard[i] = i
        BY <4>1 DEF FramesRight, HeardRight
      <4> QED BY <1>3, <3>1, <4>2
    <3>2. CASE ~(i <= Len(heard))
      <4>1. i - Len(heard) \in 1..Len(packet)
        BY <1>2, <3>2
      <4>2. packet[i - Len(heard)] = Len(heard) + (i - Len(heard))
        BY <4>1 DEF FramesRight, PacketRight
      <4> QED BY <1>2, <1>3, <3>2, <4>2
    <3> QED BY <3>1, <3>2
  <2> QED BY <1>3, <2>1 DEF HeardRight
<1>6. PacketRight'
  BY <1>4 DEF PacketRight
<1>7. RingRight'
  <2>1. Len(heard') + Len(packet') = Len(heard) + Len(packet)
    BY <1>2, <1>3, <1>4
  <2> QED BY <2>1 DEF FramesRight, RingRight, Place
<1>8. AllThere'
  BY <1>2, <1>3, <1>4 DEF FramesRight, AllThere
<1> QED BY <1>1, <1>3, <1>5, <1>6, <1>7, <1>8 DEF FramesRight

-----------------------------------------------------------------------------
(* The invariant. *)

\* At power-on nothing is anywhere.
LEMMA InitInv == Init => AudioInv
<1> SUFFICES ASSUME Init PROVE AudioInv
  OBVIOUS
<1>1. Types
  <2>1. <<>> \in Seq(Nat)
    BY EmptySeq
  <2>2. ring \in [0..(RingFrames - 1) -> Nat]
    BY DEF Init
  <2>3. wr = Place(rd, count) /\ rd \in 0..(RingFrames - 1) /\ count \in 0..RingFrames
    BY RingAssumption DEF Init, Place
  <2>4. /\ block \in 0..BlockFrames /\ batch \in 0..BatchFrames /\ room \in 0..DeviceFrames
        /\ primed \in 0..DeviceFrames /\ padding \in 0..DeviceFrames
    BY BatchAssumption, DeviceAssumption DEF Init
  <2> QED BY <2>1, <2>2, <2>3, <2>4 DEF Init, Types, CpuPcs, WorkerPcs
<1>2. FramesRight
  <2>1. Len(heard) = 0 /\ Len(packet) = 0
    BY EmptySeq DEF Init
  <2> QED BY <2>1 DEF Init, FramesRight, HeardRight, PacketRight, RingRight, AllThere
<1>3. PacketEmpty /\ StartRight /\ StartedOnCushion
  BY DEF Init, PacketEmpty, Filled, StartRight, BeforeStart, Playing, StartedOnCushion
<1> QED BY <1>1, <1>2, <1>3 DEF AudioInv, FramesRight

\* A step of the worker.
LEMMA WorkerKeeps ==
    ASSUME AudioInv, WorkerStep \/ W_NotOpened \/ W_Fail \/ DevicePlays
    PROVE  AudioInv'
<1> USE RingAssumption, BatchAssumption, DeviceAssumption
<1>1. Types /\ FramesRight /\ PacketEmpty /\ StartRight /\ StartedOnCushion
  BY DEF AudioInv, FramesRight
<1>2. CASE W_Open
  <2>1. FramesRight'
    BY <1>1, <1>2, FramesStay DEF W_Open, WorkerAt, ringvars, shared, events, cpu, worker, device
  <2>2. Types'
    BY <1>1, <1>2 DEF Types, CpuPcs, WorkerPcs, Place, StartRight, BeforeStart, Playing,
       W_Open, WorkerAt, ringvars, shared, events, cpu, worker, device
  <2>3. PacketEmpty' /\ StartRight' /\ StartedOnCushion'
    BY <1>1, <1>2 DEF Types, PacketEmpty, Filled, StartRight, BeforeStart, Playing,
       StartedOnCushion, Least, W_Open, WorkerAt, ringvars, shared, events, cpu, worker, device
  <2> QED BY <2>1, <2>2, <2>3 DEF AudioInv, FramesRight
<1>3. CASE W_NotOpened
  <2>1. FramesRight'
    BY <1>1, <1>3, FramesStay
       DEF W_NotOpened, WorkerAt, WakeSpace, ringvars, shared, events, cpu, worker, device
  <2>2. Types'
    BY <1>1, <1>3 DEF Types, CpuPcs, WorkerPcs, Place, StartRight, BeforeStart, Playing,
       W_NotOpened, WorkerAt, WakeSpace, ringvars, shared, events, cpu, worker, device
  <2>3. PacketEmpty' /\ StartRight' /\ StartedOnCushion'
    BY <1>1, <1>3 DEF Types, PacketEmpty, Filled, StartRight, BeforeStart, Playing,
       StartedOnCushion, Least, W_NotOpened, WorkerAt, WakeSpace, ringvars, shared, events, cpu,
       worker, device
  <2> QED BY <2>1, <2>2, <2>3 DEF AudioInv, FramesRight
<1>4. CASE W_Ready
  <2>1. FramesRight'
    BY <1>1, <1>4, FramesStay DEF W_Ready, WorkerAt, ringvars, shared, events, cpu, worker, device
  <2>2. Types'
    BY <1>1, <1>4 DEF Types, CpuPcs, WorkerPcs, Place, StartRight, BeforeStart, Playing,
       W_Ready, WorkerAt, ringvars, shared, events, cpu, worker, device
  <2>3. PacketEmpty' /\ StartRight' /\ StartedOnCushion'
    BY <1>1, <1>4 DEF Types, PacketEmpty, Filled, StartRight, BeforeStart, Playing,
       StartedOnCushion, Least, W_Ready, WorkerAt, ringvars, shared, events, cpu, worker, device
  <2> QED BY <2>1, <2>2, <2>3 DEF AudioInv, FramesRight
<1>5. CASE W_Cushion
  <2>1. FramesRight'
    BY <1>1, <1>5, FramesStay
       DEF W_Cushion, WorkerOnly, ringvars, shared, events, cpu, worker, device
  <2>2. Types'
    BY <1>1, <1>5 DEF Types, CpuPcs, WorkerPcs, Place, StartRight, BeforeStart, Playing,
       W_Cushion, WorkerOnly, ringvars, shared, events, cpu, worker, device
  <2>3. PacketEmpty' /\ StartRight' /\ StartedOnCushion'
    BY <1>1, <1>5 DEF Types, PacketEmpty, Filled, StartRight, BeforeStart, Playing,
       StartedOnCushion, Least, W_Cushion, WorkerOnly, ringvars, shared, events, cpu, worker, device
  <2> QED BY <2>1, <2>2, <2>3 DEF AudioInv, FramesRight
<1>6. CASE W_Wait
  <2>1. FramesRight'
    BY <1>1, <1>6, FramesStay
       DEF W_Wait, WorkerOnly, ringvars, shared, events, cpu, worker, device
  <2>2. Types'
    BY <1>1, <1>6 DEF Types, CpuPcs, WorkerPcs, Place, StartRight, BeforeStart, Playing,
       W_Wait, WorkerOnly, ringvars, shared, events, cpu, worker, device
  <2>3. PacketEmpty' /\ StartRight' /\ StartedOnCushion'
    BY <1>1, <1>6 DEF Types, PacketEmpty, Filled, StartRight, BeforeStart, Playing,
       StartedOnCushion, Least, W_Wait, WorkerOnly, ringvars, shared, events, cpu, worker, device
  <2> QED BY <2>1, <2>2, <2>3 DEF AudioInv, FramesRight
<1>7. CASE W_Padding
  <2>1. FramesRight'
    BY <1>1, <1>7, FramesStay
       DEF W_Padding, WorkerOnly, ringvars, shared, events, cpu, worker, device
  <2>2. Types'
    BY <1>1, <1>7 DEF Types, CpuPcs, WorkerPcs, Place, StartRight, BeforeStart, Playing,
       W_Padding, WorkerOnly, ringvars, shared, events, cpu, worker, device
  <2>3. PacketEmpty' /\ StartRight' /\ StartedOnCushion'
    BY <1>1, <1>7 DEF Types, PacketEmpty, Filled, StartRight, BeforeStart, Playing,
       StartedOnCushion, Least, W_Padding, WorkerOnly, ringvars, shared, events, cpu, worker, device
  <2> QED BY <2>1, <2>2, <2>3 DEF AudioInv, FramesRight
<1>8. CASE W_Fail
  <2>1. FramesRight'
    BY <1>1, <1>8, FramesStay
       DEF W_Fail, WorkerOnly, ringvars, shared, events, cpu, worker, device
  <2>2. Types'
    BY <1>1, <1>8 DEF Types, CpuPcs, WorkerPcs, Place, StartRight, BeforeStart, Playing,
       W_Fail, WorkerOnly, ringvars, shared, events, cpu, worker, device
  <2>3. PacketEmpty' /\ StartRight' /\ StartedOnCushion'
    BY <1>1, <1>8 DEF Types, PacketEmpty, Filled, StartRight, BeforeStart, Playing,
       StartedOnCushion, Least, W_Fail, WorkerOnly, ringvars, shared, events, cpu, worker, device
  <2> QED BY <2>1, <2>2, <2>3 DEF AudioInv, FramesRight
<1>9. CASE W_StreamFailed
  <2>1. FramesRight'
    BY <1>1, <1>9, FramesStay
       DEF W_StreamFailed, WorkerAt, WakeSpace, ringvars, shared, events, cpu, worker, device
  <2>2. Types'
    BY <1>1, <1>9 DEF Types, CpuPcs, WorkerPcs, Place, StartRight, BeforeStart, Playing,
       W_StreamFailed, WorkerAt, WakeSpace, ringvars, shared, events, cpu, worker, device
  <2>3. PacketEmpty' /\ StartRight' /\ StartedOnCushion'
    BY <1>1, <1>9 DEF Types, PacketEmpty, Filled, StartRight, BeforeStart, Playing,
       StartedOnCushion, Least, W_StreamFailed, WorkerAt, WakeSpace, ringvars, shared, events,
       cpu, worker, device
  <2> QED BY <2>1, <2>2, <2>3 DEF AudioInv, FramesRight
<1>10. CASE DevicePlays
  <2>1. FramesRight'
    BY <1>1, <1>10, FramesStay DEF DevicePlays, ringvars, shared, events, cpu, worker, device
  <2>2. Types'
    BY <1>1, <1>10 DEF Types, CpuPcs, WorkerPcs, Place, StartRight, BeforeStart, Playing,
       DevicePlays, ringvars, shared, events, cpu, worker, device
  <2>3. PacketEmpty' /\ StartRight' /\ StartedOnCushion'
    BY <1>1, <1>10 DEF Types, PacketEmpty, Filled, StartRight, BeforeStart, Playing,
       StartedOnCushion, Least, DevicePlays, ringvars, shared, events, cpu, worker, device
  <2> QED BY <2>1, <2>2, <2>3 DEF AudioInv, FramesRight
<1>11. CASE W_Prime
  <2> DEFINE m == Least(DeviceFrames, count)
  <2>1. Take(DeviceFrames) /\ packet = <<>> /\ DeviceFrames \in Nat /\ UNCHANGED <<heard, received>>
    BY <1>1, <1>11
       DEF W_Prime, WorkerAt, PacketEmpty, Filled, Types, ringvars, shared, events, cpu, worker,
       device
  <2>2. FramesRight'
    BY <1>1, <2>1, TakeKeeps
  <2>3. /\ m \in 0..count /\ m <= DeviceFrames /\ packet' \in Seq(Nat) /\ Len(packet') = m
        /\ rd' \in 0..(RingFrames - 1) /\ count' = count - m /\ wr = Place(rd', count')
        /\ ring' = ring /\ wr' = wr
    BY <1>1, <2>1, TakeRight
  <2>4. m = IF DeviceFrames <= count THEN DeviceFrames ELSE count
    BY DEF Least
  <2> HIDE DEF m
  <2>5. Types'
    <3>1. count' \in 0..RingFrames /\ wr' = Place(rd, count)'
      BY <1>1, <2>3 DEF Types, Place
    <3> QED BY <1>1, <1>11, <2>3, <3>1
            DEF Types, CpuPcs, WorkerPcs, W_Prime, WorkerAt, WakeSpace, ringvars, shared, events,
            cpu, worker, device
  <2>6. PacketEmpty' /\ StartRight' /\ StartedOnCushion'
    BY <1>1, <1>11, <2>3, <2>4 DEF Types, PacketEmpty, Filled, StartRight, BeforeStart, Playing,
       StartedOnCushion, Least, W_Prime, WorkerAt, ringvars, shared, events, cpu, worker, device
  <2> QED BY <2>2, <2>5, <2>6 DEF AudioInv, FramesRight
<1>12. CASE W_Render
  <2> DEFINE m == Least(room, count)
  <2>1. Take(room) /\ packet = <<>> /\ room \in Nat /\ UNCHANGED <<heard, received>>
    BY <1>1, <1>12
       DEF W_Render, WorkerAt, PacketEmpty, Filled, Types, ringvars, shared, events, cpu, worker,
       device
  <2>2. FramesRight'
    BY <1>1, <2>1, TakeKeeps
  <2>3. /\ m \in 0..count /\ m <= room /\ packet' \in Seq(Nat) /\ Len(packet') = m
        /\ rd' \in 0..(RingFrames - 1) /\ count' = count - m /\ wr = Place(rd', count')
        /\ ring' = ring /\ wr' = wr
    BY <1>1, <2>1, TakeRight
  <2>4. m = IF room <= count THEN room ELSE count
    BY DEF Least
  <2> HIDE DEF m
  <2>5. Types'
    <3>1. count' \in 0..RingFrames /\ wr' = Place(rd, count)'
      BY <1>1, <2>3 DEF Types, Place
    <3> QED BY <1>1, <1>12, <2>3, <3>1
            DEF Types, CpuPcs, WorkerPcs, W_Render, WorkerAt, WakeSpace, ringvars, shared, events,
            cpu, worker, device
  <2>6. PacketEmpty' /\ StartRight' /\ StartedOnCushion'
    BY <1>1, <1>12, <2>3, <2>4 DEF Types, PacketEmpty, Filled, StartRight, BeforeStart, Playing,
       StartedOnCushion, Least, W_Render, WorkerAt, ringvars, shared, events, cpu, worker, device
  <2> QED BY <2>2, <2>5, <2>6 DEF AudioInv, FramesRight
<1>13. CASE W_Begin
  <2>1. FramesRight' /\ heard' \in Seq(Nat) /\ packet' = <<>>
    BY <1>1, <1>13, ReleaseKeeps
       DEF W_Begin, WorkerOnly, ringvars, shared, events, cpu, worker, device
  <2>2. packet' \in Seq(Nat)
    BY <2>1, EmptySeq
  <2>3. Types'
    BY <1>1, <1>13, <2>1, <2>2
       DEF Types, CpuPcs, WorkerPcs, Place, StartRight, BeforeStart, Playing,
       W_Begin, WorkerAt, Release, WorkerOnly, ringvars, shared, events, cpu, worker, device
  <2>4. PacketEmpty' /\ StartRight' /\ StartedOnCushion'
    BY <1>1, <1>13, <2>1 DEF Types, PacketEmpty, Filled, StartRight, BeforeStart, Playing,
       StartedOnCushion, Least, W_Begin, WorkerAt, Release, WorkerOnly, ringvars, shared, events,
       cpu, worker, device
  <2> QED BY <2>1, <2>3, <2>4 DEF AudioInv, FramesRight
<1>14. CASE W_Release
  <2>1. FramesRight' /\ heard' \in Seq(Nat) /\ packet' = <<>>
    BY <1>1, <1>14, ReleaseKeeps
       DEF W_Release, WorkerOnly, ringvars, shared, events, cpu, worker, device
  <2>2. packet' \in Seq(Nat)
    BY <2>1, EmptySeq
  <2>3. Types'
    BY <1>1, <1>14, <2>1, <2>2
       DEF Types, CpuPcs, WorkerPcs, Place, StartRight, BeforeStart, Playing,
       W_Release, WorkerAt, Release, WorkerOnly, ringvars, shared, events, cpu, worker, device
  <2>4. /\ wpc = "release" /\ wpc' = "loop" /\ padding' = padding + room
        /\ UNCHANGED <<count, primed, room, started>>
    BY <1>14 DEF W_Release, WorkerAt, Release, WorkerOnly, ringvars
  <2>5. PacketEmpty'
    BY <2>1 DEF PacketEmpty
  <2>6. StartedOnCushion'
    BY <1>1, <2>4 DEF StartedOnCushion
  <2>7. StartRight'
    BY <1>1, <2>4 DEF StartRight, BeforeStart, Playing
  <2> QED BY <2>1, <2>3, <2>5, <2>6, <2>7 DEF AudioInv, FramesRight
<1> QED BY <1>2, <1>3, <1>4, <1>5, <1>6, <1>7, <1>8, <1>9, <1>10, <1>11, <1>12, <1>13,
   <1>14 DEF WorkerStep

\* A step of the CPU thread.
LEMMA CpuKeeps ==
    ASSUME AudioInv, CpuStep \/ C_StartTimeout \/ C_Audio \/ C_Stop \/ C_JoinTimeout \/ SpuriousWake
    PROVE  AudioInv'
<1> USE RingAssumption, BatchAssumption, DeviceAssumption
<1>1. Types /\ FramesRight /\ PacketEmpty /\ StartRight /\ StartedOnCushion
  BY DEF AudioInv, FramesRight
<1>2. CASE C_Start
  <2>1. FramesRight'
    BY <1>1, <1>2, FramesStay DEF C_Start, ringvars, shared, events, cpu, worker, device
  <2>2. Types'
    BY <1>1, <1>2 DEF Types, CpuPcs, WorkerPcs, Place, StartRight, BeforeStart, Playing,
       C_Start, ringvars, shared, events, cpu, worker, device
  <2>3. PacketEmpty' /\ StartRight' /\ StartedOnCushion'
    BY <1>1, <1>2 DEF Types, PacketEmpty, Filled, StartRight, BeforeStart, Playing,
       StartedOnCushion, Least, C_Start, ringvars, shared, events, cpu, worker, device
  <2> QED BY <2>1, <2>2, <2>3 DEF AudioInv, FramesRight
<1>3. CASE C_StartTimeout
  <2>1. FramesRight'
    BY <1>1, <1>3, FramesStay
       DEF C_StartTimeout, CpuAt, ringvars, shared, events, cpu, worker, device
  <2>2. Types'
    BY <1>1, <1>3 DEF Types, CpuPcs, WorkerPcs, Place, StartRight, BeforeStart, Playing,
       C_StartTimeout, CpuAt, ringvars, shared, events, cpu, worker, device
  <2>3. PacketEmpty' /\ StartRight' /\ StartedOnCushion'
    BY <1>1, <1>3 DEF Types, PacketEmpty, Filled, StartRight, BeforeStart, Playing,
       StartedOnCushion, Least, C_StartTimeout, CpuAt, ringvars, shared, events, cpu, worker, device
  <2> QED BY <2>1, <2>2, <2>3 DEF AudioInv, FramesRight
<1>4. CASE C_Audio
  <2>1. FramesRight'
    BY <1>1, <1>4, FramesStay DEF C_Audio, CpuAt, ringvars, shared, events, cpu, worker, device
  <2>2. Types'
    BY <1>1, <1>4 DEF Types, CpuPcs, WorkerPcs, Place, StartRight, BeforeStart, Playing,
       C_Audio, CpuAt, ringvars, shared, events, cpu, worker, device
  <2>3. PacketEmpty' /\ StartRight' /\ StartedOnCushion'
    BY <1>1, <1>4 DEF Types, PacketEmpty, Filled, StartRight, BeforeStart, Playing,
       StartedOnCushion, Least, C_Audio, CpuAt, ringvars, shared, events, cpu, worker, device
  <2> QED BY <2>1, <2>2, <2>3 DEF AudioInv, FramesRight
<1>5. CASE C_Batch
  <2>1. FramesRight'
    BY <1>1, <1>5, FramesStay DEF C_Batch, Least, ringvars, shared, events, cpu, worker, device
  <2>2. Types'
    BY <1>1, <1>5 DEF Types, CpuPcs, WorkerPcs, Place, StartRight, BeforeStart, Playing,
       C_Batch, Least, ringvars, shared, events, cpu, worker, device
  <2>3. PacketEmpty' /\ StartRight' /\ StartedOnCushion'
    BY <1>1, <1>5 DEF Types, PacketEmpty, Filled, StartRight, BeforeStart, Playing,
       StartedOnCushion, C_Batch, Least, ringvars, shared, events, cpu, worker, device
  <2> QED BY <2>1, <2>2, <2>3 DEF AudioInv, FramesRight
<1>6. CASE C_Drop
  <2>1. FramesRight'
    BY <1>1, <1>6, FramesStay DEF C_Drop, ringvars, shared, events, cpu, worker, device
  <2>2. Types'
    BY <1>1, <1>6 DEF Types, CpuPcs, WorkerPcs, Place, StartRight, BeforeStart, Playing,
       C_Drop, ringvars, shared, events, cpu, worker, device
  <2>3. PacketEmpty' /\ StartRight' /\ StartedOnCushion'
    BY <1>1, <1>6 DEF Types, PacketEmpty, Filled, StartRight, BeforeStart, Playing,
       StartedOnCushion, Least, C_Drop, ringvars, shared, events, cpu, worker, device
  <2> QED BY <2>1, <2>2, <2>3 DEF AudioInv, FramesRight
<1>7. CASE C_Stop
  <2>1. FramesRight'
    BY <1>1, <1>7, FramesStay DEF C_Stop, CpuAt, ringvars, shared, events, cpu, worker, device
  <2>2. Types'
    BY <1>1, <1>7 DEF Types, CpuPcs, WorkerPcs, Place, StartRight, BeforeStart, Playing,
       C_Stop, CpuAt, ringvars, shared, events, cpu, worker, device
  <2>3. PacketEmpty' /\ StartRight' /\ StartedOnCushion'
    BY <1>1, <1>7 DEF Types, PacketEmpty, Filled, StartRight, BeforeStart, Playing,
       StartedOnCushion, Least, C_Stop, CpuAt, ringvars, shared, events, cpu, worker, device
  <2> QED BY <2>1, <2>2, <2>3 DEF AudioInv, FramesRight
<1>8. CASE C_StopFlush
  <2>1. FramesRight'
    BY <1>1, <1>8, FramesStay DEF C_StopFlush, ringvars, shared, events, cpu, worker, device
  <2>2. Types'
    BY <1>1, <1>8 DEF Types, CpuPcs, WorkerPcs, Place, StartRight, BeforeStart, Playing,
       C_StopFlush, ringvars, shared, events, cpu, worker, device
  <2>3. PacketEmpty' /\ StartRight' /\ StartedOnCushion'
    BY <1>1, <1>8 DEF Types, PacketEmpty, Filled, StartRight, BeforeStart, Playing,
       StartedOnCushion, Least, C_StopFlush, ringvars, shared, events, cpu, worker, device
  <2> QED BY <2>1, <2>2, <2>3 DEF AudioInv, FramesRight
<1>9. CASE C_StopSet
  <2>1. FramesRight'
    BY <1>1, <1>9, FramesStay
       DEF C_StopSet, CpuAt, WakeData, ringvars, shared, events, cpu, worker, device
  <2>2. Types'
    BY <1>1, <1>9 DEF Types, CpuPcs, WorkerPcs, Place, StartRight, BeforeStart, Playing,
       C_StopSet, CpuAt, WakeData, ringvars, shared, events, cpu, worker, device
  <2>3. PacketEmpty' /\ StartRight' /\ StartedOnCushion'
    BY <1>1, <1>9 DEF Types, PacketEmpty, Filled, StartRight, BeforeStart, Playing,
       StartedOnCushion, Least, C_StopSet, CpuAt, WakeData, ringvars, shared, events, cpu, worker,
       device
  <2> QED BY <2>1, <2>2, <2>3 DEF AudioInv, FramesRight
<1>10. CASE C_StopEvent
  <2>1. FramesRight'
    BY <1>1, <1>10, FramesStay
       DEF C_StopEvent, CpuAt, ringvars, shared, events, cpu, worker, device
  <2>2. Types'
    BY <1>1, <1>10 DEF Types, CpuPcs, WorkerPcs, Place, StartRight, BeforeStart, Playing,
       C_StopEvent, CpuAt, ringvars, shared, events, cpu, worker, device
  <2>3. PacketEmpty' /\ StartRight' /\ StartedOnCushion'
    BY <1>1, <1>10 DEF Types, PacketEmpty, Filled, StartRight, BeforeStart, Playing,
       StartedOnCushion, Least, C_StopEvent, CpuAt, ringvars, shared, events, cpu, worker, device
  <2> QED BY <2>1, <2>2, <2>3 DEF AudioInv, FramesRight
<1>11. CASE C_Join \/ C_JoinTimeout
  <2>1. /\ cpc' = "done" /\ deviceOpen' = FALSE
        /\ UNCHANGED <<ringvars, workerStop, received, dropped, events, ret, block, batch,
                       worker, device>>
    BY <1>11 DEF C_Join, C_JoinTimeout, Close, CpuAt
  <2>2. FramesRight'
    BY <1>1, <2>1, FramesStay DEF ringvars, worker, device
  <2>3. Types'
    BY <1>1, <2>1 DEF Types, CpuPcs, WorkerPcs, Place, ringvars, events, worker, device
  <2>4. PacketEmpty' /\ StartRight' /\ StartedOnCushion'
    BY <1>1, <2>1 DEF PacketEmpty, Filled, StartRight, BeforeStart, Playing,
       StartedOnCushion, ringvars, worker, device
  <2> QED BY <2>2, <2>3, <2>4 DEF AudioInv, FramesRight
<1>12. CASE SpuriousWake
  <2>1. FramesRight'
    BY <1>1, <1>12, FramesStay
       DEF SpuriousWake, WakeSpace, WakeData, ringvars, shared, events, cpu, worker, device
  <2>2. Types'
    BY <1>1, <1>12 DEF Types, CpuPcs, WorkerPcs, Place, StartRight, BeforeStart, Playing,
       SpuriousWake, WakeSpace, WakeData, ringvars, shared, events, cpu, worker, device
  <2>3. PacketEmpty' /\ StartRight' /\ StartedOnCushion'
    BY <1>1, <1>12 DEF Types, PacketEmpty, Filled, StartRight, BeforeStart, Playing,
       StartedOnCushion, Least, SpuriousWake, WakeSpace, WakeData, ringvars, shared, events, cpu,
       worker, device
  <2> QED BY <2>1, <2>2, <2>3 DEF AudioInv, FramesRight
<1>13. CASE C_Submit
  <2> DEFINE k == Least(batch, Free)
  <2>1. /\ k \in 0..(RingFrames - count) /\ k \in 0..batch /\ Put(k)
        /\ UNCHANGED <<rd, packet, heard>>
    <3>1. /\ count \in Nat /\ batch \in Nat /\ RingFrames - count \in Nat
          /\ k = IF batch <= RingFrames - count THEN batch ELSE RingFrames - count
      BY <1>1 DEF Types, Least, Free
    <3>2. k \in 0..(RingFrames - count) /\ k \in 0..batch
      BY <3>1
    <3>3. Put(k) /\ UNCHANGED <<rd, packet, heard>>
      BY <1>13 DEF C_Submit, device
    <3> QED BY <3>2, <3>3
  <2>2. FramesRight'
    BY <1>1, <2>1, PutKeeps
  <2>3. /\ ring' \in [0..(RingFrames - 1) -> Nat]
        /\ count' = count + k /\ wr' = Place(rd, count') /\ received' = received + k
    BY <1>1, <2>1, PutRight
  <2>4. batch' = batch - k
    BY <1>13 DEF C_Submit
  <2>5. /\ cpc' \in {ret, "spacewait"}
        /\ (wpc' = wpc) \/ (wpc = "datawait" /\ wpc' = "cushion")
        /\ UNCHANGED <<rd, deviceOpen, workerStop, dropped, events, ret, block, packet, room,
                       primed, device>>
    <3>1. UNCHANGED wpc \/ WakeData
      BY <1>13 DEF C_Submit
    <3>2. (wpc' = wpc) \/ (wpc = "datawait" /\ wpc' = "cushion")
      BY <3>1 DEF WakeData
    <3>3. /\ cpc' \in {ret, "spacewait"}
          /\ UNCHANGED <<rd, deviceOpen, workerStop, dropped, events, ret, block, packet, room,
                         primed, device>>
      BY <1>13 DEF C_Submit
    <3> QED BY <3>2, <3>3
  <2> HIDE DEF k
  <2>6. count' \in 0..RingFrames /\ batch' \in 0..BatchFrames /\ received' \in Nat
        /\ wr' = Place(rd, count)' /\ count' >= count
    BY <1>1, <2>1, <2>3, <2>4, <2>5 DEF Types, Place
  <2>7. Types'
    <3>1. cpc' \in CpuPcs /\ wpc' \in WorkerPcs
      BY <1>1, <2>5 DEF Types, CpuPcs, WorkerPcs
    <3>2. /\ deviceOpen' \in BOOLEAN /\ workerStop' \in BOOLEAN /\ dropped' \in Nat
          /\ ready' \in BOOLEAN /\ stopEvent' \in BOOLEAN /\ audioEvent' \in BOOLEAN
          /\ ret' \in {"guest", "batch", "stopset"} /\ block' \in 0..BlockFrames
          /\ packet' \in Seq(Nat) /\ room' \in 0..DeviceFrames
          /\ primed' \in 0..DeviceFrames
          /\ started' \in BOOLEAN /\ padding' \in 0..DeviceFrames /\ heard' \in Seq(Nat)
          /\ rd' \in 0..(RingFrames - 1)
      BY <1>1, <2>5 DEF Types, events, device
    <3> QED BY <2>3, <2>6, <3>1, <3>2 DEF Types
  <2>8. PacketEmpty' /\ StartRight' /\ StartedOnCushion'
    <3>1. UNCHANGED <<packet, primed, started, padding, room>>
      BY <2>5 DEF device
    <3>2. \/ wpc' = wpc
          \/ wpc = "datawait" /\ wpc' = "cushion"
      BY <2>5
    <3>3. PacketEmpty' /\ StartedOnCushion'
      BY <1>1, <3>1, <3>2 DEF PacketEmpty, Filled, StartedOnCushion
    <3>4. count' \in Nat /\ count \in Nat /\ StartFrames \in Nat /\ count' >= count
      BY <1>1, <2>6 DEF Types
    <3>5. ~started => padding = 0
      BY <1>1 DEF StartRight
    <3>6. /\ wpc' \in BeforeStart => ~started
          /\ wpc' \in Playing => started
          /\ wpc' = "begin" => primed >= Least(StartFrames, DeviceFrames)
          /\ wpc' \in {"begin", "render", "release"} => padding + room <= DeviceFrames
      BY <1>1, <3>2 DEF StartRight, BeforeStart, Playing
    <3>7. wpc' = "prime" => count' >= StartFrames
      <4>1. wpc' = "prime" => count >= StartFrames
        BY <1>1, <3>2 DEF StartRight
      <4> QED BY <3>4, <4>1
    <3>8. StartRight'
      BY <3>1, <3>5, <3>6, <3>7 DEF StartRight, BeforeStart, Playing
    <3> QED BY <3>3, <3>8
  <2> QED BY <2>2, <2>7, <2>8 DEF AudioInv, FramesRight
<1> QED BY <1>2, <1>3, <1>4, <1>5, <1>6, <1>7, <1>8, <1>9, <1>10, <1>11, <1>12, <1>13 DEF CpuStep

\* AudioInv is inductive.
THEOREM InductiveInvariant == Spec => []AudioInv
<1>1. Init => AudioInv
  BY InitInv
<1>2. AudioInv /\ [Next]_vars => AudioInv'
  <2> SUFFICES ASSUME AudioInv, [Next]_vars PROVE AudioInv'
    OBVIOUS
  <2>1. CASE UNCHANGED vars
    BY <2>1 DEF AudioInv, Types, HeardRight, PacketRight, RingRight, AllThere, PacketEmpty,
       Filled, StartRight, BeforeStart, Playing, StartedOnCushion, Place,
       vars, ringvars, shared, events, cpu, worker, device
  <2>2. CASE Next
    BY <2>2, WorkerKeeps, CpuKeeps DEF Next
  <2> QED BY <2>1, <2>2
<1> QED BY <1>1, <1>2, PTL DEF Spec

\* Every variable of audio output keeps its type; the write place is the read place and
\* the count, round the ring.
THEOREM Typing == Spec => []TypeOK
<1>1. AudioInv => TypeOK
  BY PlaceSum DEF AudioInv, Types, TypeOK
<1> QED BY <1>1, InductiveInvariant, PTL

\* What a device is started with is the cushion, or as much of it as it holds.
THEOREM Cushion == Spec => []StartedOnCushion
<1>1. AudioInv => StartedOnCushion
  BY DEF AudioInv
<1> QED BY <1>1, InductiveInvariant, PTL

\* The frames of the guest are with the device, in the packet and in the ring, in the
\* order in which it made them: none skipped, repeated or overwritten unread.
THEOREM Order == Spec => []InOrder
<1>1. ASSUME AudioInv PROVE InOrder
  <2> DEFINE h == Len(heard)
             p == Len(packet)
             whole == [j \in 1..received |-> j]
             two == heard \o packet
  <2>1. /\ rd \in 0..(RingFrames - 1) /\ count \in 0..RingFrames /\ RingFrames \in Nat
        /\ heard \in Seq(Nat) /\ packet \in Seq(Nat) /\ h \in Nat /\ p \in Nat
        /\ received \in Nat /\ h + p + count = received
    BY <1>1, RingAssumption DEF AudioInv, Types, AllThere
  <2>2. /\ InRing \in Seq(Nat) /\ Len(InRing) = count
        /\ \A j \in 1..count : InRing[j] = h + p + j
    <3>1. ASSUME NEW j \in 1..count PROVE ring[(rd + j - 1) % RingFrames] = h + p + j
      <4>1. j - 1 \in 0..RingFrames /\ j - 1 \in 0..(count - 1) /\ rd + j - 1 = rd + (j - 1)
        BY <2>1
      <4>2. (rd + (j - 1)) % RingFrames = Place(rd, j - 1)
        BY <2>1, <4>1, PlaceSum
      <4>3. ring[Place(rd, j - 1)] = h + p + (j - 1) + 1
        BY <1>1, <4>1 DEF AudioInv, RingRight
      <4> QED BY <2>1, <4>1, <4>2, <4>3
    <3>2. InRing = [j \in 1..count |-> h + p + j]
      BY <3>1 DEF InRing
    <3>3. InRing \in [1..count -> Nat]
      BY <2>1, <3>2
    <3>4. count \in Nat
      BY <2>1
    <3>5. InRing \in Seq(Nat) /\ Len(InRing) = count
      BY <3>3, <3>4, SegmentSeq
    <3> QED BY <3>2, <3>5
  <2>3. whole \in Seq(Nat) /\ Len(whole) = received
    BY <2>1, SegmentSeq
  <2>4. /\ two \in Seq(Nat) /\ Len(two) = h + p
        /\ \A i \in 1..(h + p) : two[i] = IF i <= h THEN heard[i] ELSE packet[i - h]
    BY <2>1, ConcatProperties
  <2>5. ASSUME NEW i \in 1..(h + p) PROVE two[i] = i
    <3>1. CASE i <= h
      <4>1. heard[i] = i
        BY <1>1, <2>1, <3>1 DEF AudioInv, HeardRight
      <4> QED BY <2>4, <3>1, <4>1
    <3>2. CASE ~(i <= h)
      <4>1. i - h \in 1..p
        BY <2>1, <3>2
      <4>2. packet[i - h] = h + (i - h)
        BY <1>1, <4>1 DEF AudioInv, PacketRight
      <4> QED BY <2>1, <2>4, <3>2, <4>2
    <3> QED BY <3>1, <3>2
  <2> HIDE DEF two, whole, h, p
  <2>6. /\ two \o InRing \in Seq(Nat) /\ Len(two \o InRing) = Len(two) + Len(InRing)
        /\ \A i \in 1..(Len(two) + Len(InRing)) :
               (two \o InRing)[i] = IF i <= Len(two) THEN two[i] ELSE InRing[i - Len(two)]
    BY <2>2, <2>4, ConcatProperties
  <2>7. Len(two) + Len(InRing) = received /\ Len(two) = h + p
    BY <2>1, <2>2, <2>4
  <2>8. ASSUME NEW i \in 1..received PROVE (two \o InRing)[i] = i
    <3>1. CASE i <= h + p
      BY <2>1, <2>5, <2>6, <2>7, <3>1
    <3>2. CASE ~(i <= h + p)
      <4>1. i - (h + p) \in 1..count
        BY <2>1, <3>2
      <4>2. InRing[i - (h + p)] = h + p + (i - (h + p))
        BY <2>2, <4>1
      <4> QED BY <2>1, <2>6, <2>7, <3>2, <4>2
    <3> QED BY <3>1, <3>2
  <2>9. \A i \in 1..received : whole[i] = i
    BY DEF whole
  <2>10. two \o InRing = whole
    BY <2>3, <2>6, <2>7, <2>8, <2>9, SeqEqual
  <2> QED BY <2>10 DEF InOrder, two, whole
<1> QED BY <1>1, InductiveInvariant, PTL
=============================================================================
